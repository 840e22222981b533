---------------------------- MODULE MCConnection ----------------------------
(***************************************************************************)
(* The conversation of one transfer of two chunks, and one whose chunk is  *)
(* larger than send_frame allows.                                          *)
(***************************************************************************)
EXTENDS Connection

F(type, payload) == [type |-> type, payload |-> payload, crc |-> TRUE]

MCErrorFrame == F("ERROR", <<1>>)

ClientPlan(chunks) ==
    <<SendOp(F("HELLO", <<>>)), RecvOp, SendOp(F("MANIFEST", <<1, 2>>)), RecvOp>>
    \o [i \in DOMAIN chunks |-> SendOp(F("CHUNK", chunks[i]))]
    \o <<SendOp(F("COMPLETE", <<>>)), RecvOp>>

ServerPlan(chunks) ==
    <<RecvOp, SendOp(F("HELLO", <<>>)), RecvOp, SendOp(F("REQ_CHUNKS", <<1>>))>>
    \o [i \in DOMAIN chunks |-> RecvOp]
    \o <<RecvOp, SendOp(F("ACK", <<>>))>>

Conversation(chunks) ==
    [e \in Ends |-> IF e = "client" THEN ClientPlan(chunks) ELSE ServerPlan(chunks)]

MCPlans == {Conversation(<<<<1>>, <<2, 3>>>>), Conversation(<<<<1, 2, 3>>>>)}

MCTls == [Ends -> BOOLEAN]

=============================================================================
