---------------------------- MODULE MCTaskEngine ----------------------------
(* Model-checking instances of TaskEngine: constants only. *)
EXTENDS TaskEngine

CONSTANT w1

\* 2 depends on 1, and 3 is on its own.
TwoAndOne == <<{}, {1}, {}>>

AllCommands == {"pause", "resume", "cancel", "recover", "status"}
=============================================================================
