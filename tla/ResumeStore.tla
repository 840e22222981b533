---------------------------- MODULE ResumeStore ----------------------------
(***************************************************************************)
(* What the receiver relies on in ResumeState: a live record of the chunks *)
(* received, and one stored copy that save() replaces in one step.  Only   *)
(* a save that meets a failing operation may lose the copy.                *)
(***************************************************************************)
EXTENDS Naturals

CONSTANTS Ids, Counts, Indices, NoState

VARIABLES
    live,    \* the state of the running session, or NoState
    stored,  \* the copy a later session would load, or NoState
    saving,  \* save() is running
    faults   \* operations that failed so far

storeVars == <<live, stored, saving, faults>>

StoreInit == live = NoState /\ stored = NoState /\ saving = FALSE /\ faults = 0

Fresh(id, n) ==
    /\ ~saving
    /\ live' = [id |-> id, count |-> n, got |-> {}]
    /\ UNCHANGED <<stored, saving, faults>>

Mark(i) ==
    /\ live # NoState /\ ~saving
    /\ live' = [live EXCEPT !.got = @ \cup ({i} \cap 0 .. live.count - 1)]
    /\ UNCHANGED <<stored, saving, faults>>

Reload ==
    /\ stored # NoState /\ ~saving
    /\ live' = stored
    /\ UNCHANGED <<stored, saving, faults>>

Forget ==
    /\ ~saving
    /\ stored' = NoState
    /\ UNCHANGED <<live, saving, faults>>

StartSave ==
    /\ live # NoState /\ ~saving
    /\ saving' = TRUE
    /\ UNCHANGED <<live, stored, faults>>

Replace ==
    /\ saving
    /\ stored' = live
    /\ saving' = FALSE
    /\ UNCHANGED <<live, faults>>

\* A save that met a failure: it may lose the copy, and it may give up.
Lose ==
    /\ saving /\ faults > 0
    /\ stored' \in {stored, NoState}
    /\ saving' \in BOOLEAN
    /\ UNCHANGED <<live, faults>>

\* An operation fails; the caller is told or not.
Fail ==
    /\ faults' = faults + 1
    /\ saving' \in {saving, FALSE}
    /\ UNCHANGED <<live, stored>>

\* The session returns, or the process is killed, in the middle of a save too.
EndSession ==
    /\ live' = NoState /\ saving' = FALSE
    /\ UNCHANGED <<stored, faults>>

StoreNext ==
    \/ \E id \in Ids, n \in Counts : Fresh(id, n)
    \/ \E i \in Indices : Mark(i)
    \/ Reload
    \/ Forget
    \/ StartSave
    \/ Replace
    \/ Lose
    \/ Fail
    \/ EndSession

StoreSpec == StoreInit /\ [][StoreNext]_storeVars

=============================================================================
