--------------------------- MODULE MCHandshakeRetry ---------------------------
(* Model-checking instances of HandshakeRetry.                               *)
EXTENDS HandshakeRetry

Timed(i) == [impl |-> i, onTimeoutOnly |-> FALSE]
Windows == [impl |-> "session", onTimeoutOnly |-> TRUE]

OnlyWindows == {Windows}
AllSetups == {Timed("session"), Timed("core"), Windows}
=============================================================================
