--------------------------- MODULE MCProjectWork ----------------------------
(* Model-checking instances of ProjectWork: constants only. *)
EXTENDS ProjectWork

CONSTANT w1

MCDeclared == <<"install", "test", "run">>
=============================================================================
