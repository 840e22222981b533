----------------------------- MODULE Connection -----------------------------
(***************************************************************************)
(* Two Connections, the client's and the server's, over one TCP stream:    *)
(* the gathered write of send_frame and the two reads of recv_frame, which *)
(* move any number of bytes at a time through socket buffers of Capacity   *)
(* bytes; the TLS handshakes; and close(), which on a TLS stream first     *)
(* exchanges close_notify.  One end may expect TLS and the other not.      *)
(*                                                                         *)
(* What an end does is a plan: the calls of Client::send or                *)
(* handle_session_, in order.  It may give its plan up between two calls,  *)
(* the server after an ERROR; it may be killed; the link may break; a byte *)
(* of a header may be damaged.                                             *)
(***************************************************************************)
EXTENDS FrameHeader, SequencesExt

CONSTANTS
    Plans,       \* the conversations: what each end would do undisturbed
    ErrorFrame,  \* the frame of send_error
    SendLimit,   \* kDefaultMaxPayload, as send_frame compares it
    Capacity,    \* bytes in flight in one direction
    Tls          \* which ends use TLS: the configurations to consider

Ends == {"client", "server"}

Peer(e) == IF e = "client" THEN "server" ELSE "client"

\* The ERROR and the close_notify of a server that gives up always fit in the
\* socket buffers: it does not read while it writes them, and the client may be
\* writing, too.
ASSUME ConnectionAssumption ==
    /\ SendLimit \in Nat
    /\ Capacity > Len(EncodeFrame(ErrorFrame))
    /\ Capacity >= kHeaderSize
    /\ Tls \subseteq [Ends -> BOOLEAN]

VARIABLES
    tls,        \* is_tls(), for each end
    secure,     \* the end has completed its TLS handshake
    plan,       \* for each end, the calls still to make
    call,       \* the bytes that the current call has yet to write or has read
    pipe,       \* the bytes that an end has sent and its peer has not read
    end,        \* "handshake", "open", "shutdown" (in the TLS one) or "closed"
    reset,      \* the end closed its socket with bytes unread
    put,        \* history: the frames given to send_frame ...
    sent,       \* ... how many of those calls returned true ...
    got,        \* ... and the frames that recv_frame returned
    disturbed   \* history: there was trouble

calls  == <<plan, call>>
socket == <<pipe, end, reset>>
stream == <<tls, secure>>
past   == <<put, sent, got>>
connectionVars == <<stream, calls, socket, past, disturbed>>

Content(f) == [type |-> f.type, payload |-> f.payload]

Idle == [op |-> "none", bytes |-> <<>>]
SendOp(f) == [op |-> "send", frame |-> f]
RecvOp == [op |-> "recv"]

After(s, n) == SubSeq(s, n + 1, Len(s))

-----------------------------------------------------------------------------
(***************************************************************************)
(* The calls.  A call that fails makes its owner return: plan is emptied.  *)
(***************************************************************************)
Ready(e) == end[e] = "open" /\ call[e] = Idle

\* The end is in close() or gone.
Leaving(e) == end[e] \in {"shutdown", "closed"}

Current(e, op) == end[e] = "open" /\ call[e].op = op

\* The call is over; the end goes on with the calls of rest.
Returns(e, rest) ==
    /\ plan' = [plan EXCEPT ![e] = rest]
    /\ call' = [call EXCEPT ![e] = Idle]

\* Both calls are entered here.  send_frame refuses a payload above its limit
\* before it writes anything.
Enter(e) ==
    /\ Ready(e)
    /\ plan[e] # <<>>
    /\ LET c == Head(plan[e]) IN
       \/ /\ c.op = "recv"
          /\ call' = [call EXCEPT ![e] = [op |-> "recv", bytes |-> <<>>]]
          /\ UNCHANGED <<plan, put, disturbed>>
       \/ /\ c.op = "send"
          /\ Len(c.frame.payload) <= SendLimit
          /\ call' = [call EXCEPT ![e] = [op |-> "send", bytes |-> EncodeFrame(c.frame)]]
          /\ put' = [put EXCEPT ![e] = Append(@, Content(c.frame))]
          /\ UNCHANGED <<plan, disturbed>>
       \/ /\ c.op = "send"
          /\ Len(c.frame.payload) > SendLimit
          /\ Returns(e, <<>>)
          /\ disturbed' = TRUE
          /\ UNCHANGED put
    /\ UNCHANGED <<stream, socket, sent, got>>

\* Faulty variant of Write: send_frame returns when some bytes are written.
WriteOnce(e, n) ==
    /\ Current(e, "send")
    /\ end[Peer(e)] # "closed"
    /\ n <= Len(call[e].bytes) /\ n <= Capacity - Len(pipe[e])
    /\ pipe' = [pipe EXCEPT ![e] = @ \o SubSeq(call[e].bytes, 1, n)]
    /\ Returns(e, Tail(plan[e]))
    /\ sent' = [sent EXCEPT ![e] = @ + 1]
    /\ UNCHANGED <<stream, end, reset, put, got, disturbed>>

\* asio::write: n bytes more; it returns when all are written.
Write(e, n) ==
    /\ Current(e, "send")
    /\ end[Peer(e)] # "closed"
    /\ n <= Len(call[e].bytes) /\ n <= Capacity - Len(pipe[e])
    /\ pipe' = [pipe EXCEPT ![e] = @ \o SubSeq(call[e].bytes, 1, n)]
    /\ IF n = Len(call[e].bytes)
       THEN Returns(e, Tail(plan[e])) /\ sent' = [sent EXCEPT ![e] = @ + 1]
       ELSE call' = [call EXCEPT ![e].bytes = After(@, n)] /\ UNCHANGED <<plan, sent>>
    /\ UNCHANGED <<stream, end, reset, put, got, disturbed>>

\* The peer has closed: the write fails, or its bytes are lost on the way.
WriteInVain(e) ==
    /\ Current(e, "send")
    /\ end[Peer(e)] = "closed"
    /\ \/ Returns(e, <<>>) /\ UNCHANGED sent
       \/ Returns(e, Tail(plan[e])) /\ sent' = [sent EXCEPT ![e] = @ + 1]
    /\ reset' = [reset EXCEPT ![Peer(e)] = TRUE]
    /\ UNCHANGED <<stream, pipe, end, put, got, disturbed>>

\* What recv_frame still has to read, once it has these bytes.
Needs(bytes) ==
    IF Len(bytes) < kHeaderSize THEN kHeaderSize - Len(bytes)
    ELSE kHeaderSize + bytes[1].of.len - Len(bytes)

FrameOf(bytes) ==
    [type |-> bytes[1].of.type, payload |-> Payload(After(bytes, kHeaderSize))]

BadHeader(bytes) ==
    Len(bytes) = kHeaderSize /\ DecodeFrom(bytes) # "None"

\* asio::read: n bytes more.  A complete header is decoded, a complete frame is
\* returned.
Read(e, n) ==
    LET p     == Peer(e)
        bytes == call[e].bytes \o SubSeq(pipe[p], 1, n)
    IN
    /\ Current(e, "recv")
    /\ n <= Len(pipe[p]) /\ n <= Needs(call[e].bytes)
    /\ pipe' = [pipe EXCEPT ![p] = After(@, n)]
    /\ IF BadHeader(bytes)
       THEN Returns(e, <<>>) /\ UNCHANGED got
       ELSE IF Needs(bytes) = 0
       THEN /\ Returns(e, Tail(plan[e]))
            /\ got' = [got EXCEPT ![e] = Append(@, FrameOf(bytes))]
       ELSE /\ call' = [call EXCEPT ![e].bytes = bytes]
            /\ UNCHANGED <<plan, got>>
    /\ UNCHANGED <<stream, end, reset, put, sent, disturbed>>

\* End of file, a close_notify, or a reset that overtakes what was sent.
ReadFails(e) ==
    LET p == Peer(e) IN
    /\ Current(e, "recv")
    /\ \/ pipe[p] = <<>> /\ Leaving(p)
       \/ end[p] = "closed" /\ reset[p]
    /\ Returns(e, <<>>)
    /\ UNCHANGED <<stream, socket, past, disturbed>>

-----------------------------------------------------------------------------
(***************************************************************************)
(* close(), from ~Connection.                                              *)
(***************************************************************************)
CloseSocket(e) ==
    /\ end' = [end EXCEPT ![e] = "closed"]
    /\ reset' = [reset EXCEPT ![e] = pipe[Peer(e)] # <<>>]
    /\ pipe' = [pipe EXCEPT ![Peer(e)] = <<>>]

Close(e) ==
    /\ Ready(e)
    /\ plan[e] = <<>>
    /\ IF tls[e] THEN end' = [end EXCEPT ![e] = "shutdown"] /\ UNCHANGED <<pipe, reset>>
       ELSE CloseSocket(e)
    /\ UNCHANGED <<stream, calls, past, disturbed>>

\* Faulty variant of Shutdown: only the close_notify of the peer ends it.
ShutdownStrict(e) ==
    /\ end[e] = "shutdown"
    /\ Leaving(Peer(e)) /\ pipe[Peer(e)] = <<>>
    /\ CloseSocket(e)
    /\ UNCHANGED <<stream, calls, past, disturbed>>

\* SSL_shutdown waits for the close_notify of the peer.  Frames that come instead
\* are discarded or make it fail, as the version of OpenSSL has it.
Shutdown(e) ==
    /\ end[e] = "shutdown"
    /\ \/ /\ pipe[Peer(e)] # <<>>
          /\ pipe' = [pipe EXCEPT ![Peer(e)] = <<>>]
          /\ UNCHANGED <<end, reset>>
       \/ /\ Leaving(Peer(e)) \/ pipe[Peer(e)] # <<>>
          /\ CloseSocket(e)
    /\ UNCHANGED <<stream, calls, past, disturbed>>

-----------------------------------------------------------------------------
(***************************************************************************)
(* The TLS 1.3 handshakes.  The client is done, and may send, before the   *)
(* server has looked at its certificate.                                   *)
(***************************************************************************)
\* What an end without TLS finds in the place of a header.
ClientHello == [j \in 1 .. kHeaderSize |-> [of |-> NoHeader, at |-> j]]

CanFinish(e) ==
    /\ tls[Peer(e)]
    /\ IF e = "client" THEN end["server"] = "handshake" ELSE secure["client"]

Handshake(e) ==
    /\ end[e] = "handshake"
    /\ CanFinish(e)
    /\ end' = [end EXCEPT ![e] = "open"]
    /\ secure' = [secure EXCEPT ![e] = TRUE]
    /\ pipe' = IF e = "client" THEN [pipe EXCEPT !["client"] = <<>>] ELSE pipe
    /\ UNCHANGED <<tls, calls, reset, past, disturbed>>

\* The certificate of the peer is refused, the peer is gone, or it does not speak
\* TLS.  The owner returns; there is no TLS session to shut down.
HandshakeFails(e) ==
    /\ end[e] = "handshake"
    /\ \/ CanFinish(e)
       \/ end[Peer(e)] = "closed"
       \/ ~tls[Peer(e)] /\ pipe[Peer(e)] # <<>>
    /\ CloseSocket(e)
    /\ plan' = [plan EXCEPT ![e] = <<>>]
    /\ disturbed' = TRUE
    /\ UNCHANGED <<stream, call, past>>

-----------------------------------------------------------------------------
(***************************************************************************)
(* Troubles.                                                               *)
(***************************************************************************)
\* An end returns between two calls; the server may send an ERROR first.
GiveUp(e) ==
    /\ Ready(e)
    /\ plan[e] \notin {<<>>, <<SendOp(ErrorFrame)>>}
    /\ \E rest \in {<<>>} \cup (IF e = "server" THEN {<<SendOp(ErrorFrame)>>} ELSE {}) :
          plan' = [plan EXCEPT ![e] = rest]
    /\ disturbed' = TRUE
    /\ UNCHANGED <<stream, call, socket, past>>

Kill(e) ==
    /\ end[e] # "closed"
    /\ CloseSocket(e)
    /\ disturbed' = TRUE
    /\ UNCHANGED <<stream, calls, past>>

\* Both ends find the connection reset.
LinkBreaks ==
    /\ \E e \in Ends : end[e] # "closed"
    /\ end' = [e \in Ends |-> "closed"]
    /\ reset' = [e \in Ends |-> TRUE]
    /\ pipe' = [e \in Ends |-> <<>>]
    /\ disturbed' = TRUE
    /\ UNCHANGED <<stream, calls, past>>

\* A byte of the length field of a header changes in flight.  TLS would notice,
\* and break the connection.
Damage(e) ==
    /\ ~disturbed /\ ~tls[e]
    /\ \E j \in 1 .. Len(pipe[e]), len \in 0 .. MaxPayload + 1 :
          /\ pipe[e][j].of # NoHeader
          /\ len # pipe[e][j].of.len
          /\ pipe' = [pipe EXCEPT ![e][j].of.len = len, ![e][j].of.crc = FALSE]
    /\ disturbed' = TRUE
    /\ UNCHANGED <<stream, calls, end, reset, past>>

-----------------------------------------------------------------------------
ConnectionInit ==
    /\ tls \in Tls
    /\ plan \in Plans
    /\ call = [e \in Ends |-> Idle]
    /\ pipe = [e \in Ends |-> IF e = "client" /\ tls[e] THEN ClientHello ELSE <<>>]
    /\ end = [e \in Ends |-> IF tls[e] THEN "handshake" ELSE "open"]
    /\ secure = [e \in Ends |-> FALSE]
    /\ reset = [e \in Ends |-> FALSE]
    /\ put = [e \in Ends |-> <<>>] /\ got = [e \in Ends |-> <<>>]
    /\ sent = [e \in Ends |-> 0]
    /\ disturbed = FALSE

Step(e) ==
    \/ Handshake(e)
    \/ HandshakeFails(e)
    \/ Enter(e)
    \/ \E n \in 1 .. Capacity : Write(e, n)
    \/ WriteInVain(e)
    \/ \E n \in 1 .. Capacity : Read(e, n)
    \/ ReadFails(e)
    \/ Close(e)
    \/ Shutdown(e)

Trouble(e) == GiveUp(e) \/ Kill(e) \/ Damage(e)

ConnectionNext ==
    \/ \E e \in Ends : Step(e) \/ Trouble(e)
    \/ LinkBreaks

\* Both processes run.  There is no timeout in this code: an end that stops
\* without a word would keep the other in recv_frame.
ConnectionSpec ==
    /\ ConnectionInit /\ [][ConnectionNext]_connectionVars
    /\ \A e \in Ends : WF_connectionVars(Step(e))

-----------------------------------------------------------------------------
(***************************************************************************)
(* Properties.                                                             *)
(***************************************************************************)

\* recv_frame returns the frames that were sent, whole and in order, however the
\* reads and writes cut them up, and when an end is killed inside send_frame or a
\* header is damaged on the way; and no frame whose send_frame returned false.
ReceivedInOrder ==
    \A e \in Ends :
        /\ IsPrefix(got[Peer(e)], put[e])
        /\ Len(got[Peer(e)]) <= sent[e]

\* Closing loses nothing: when no trouble occurred and both ends have closed,
\* each has received all that the other was to send, the last ACK included,
\* although the server closes as soon as it has written it.
CloseLosesNothing ==
    ~disturbed /\ (\A e \in Ends : end[e] = "closed") =>
        \A e \in Ends : plan[e] = <<>> /\ got[Peer(e)] = put[e]

\* Nobody waits for ever: both ends return from their last call and from close(),
\* also when the server gives up while the client is blocked in a write, when
\* both are in the TLS shutdown, when a certificate is refused, and when one of
\* them was started with --insecure and the other was not.
BothEndsReturn == <>(\A e \in Ends : end[e] = "closed")

=============================================================================
