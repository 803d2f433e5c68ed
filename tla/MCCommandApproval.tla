-------------------------- MODULE MCCommandApproval -------------------------
(* Model-checking instances of CommandApproval: constants only. *)
EXTENDS CommandApproval

CONSTANTS w1, w2

MCCategories == {"diagnostic", "build"}
=============================================================================
