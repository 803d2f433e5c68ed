------------------------- MODULE MCExternalActions --------------------------
(* Model-checking instances of ExternalActions: constants only. *)
EXTENDS ExternalActions

CONSTANTS w1, d1, handoff, change
=============================================================================
