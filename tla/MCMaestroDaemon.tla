-------------------------- MODULE MCMaestroDaemon --------------------------
(* A small instance of MaestroDaemon: the poller reads while a tool call   *)
(* acts or taps on a point.                                                *)
EXTENDS MaestroDaemon

PollAndAct == [c \in Call |-> IF c = "poll" THEN {"read"} ELSE {"act", "point"}]
=============================================================================
