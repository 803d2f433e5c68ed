------------------------- MODULE MCCompeteCycle -------------------------
(* Model-checking instances of CompeteCycle: constants only. *)
EXTENDS CompeteCycle, TLC

CONSTANTS w1, w2

MCSymmetry == Permutations(Workers)
NoOps == {}
AllOps == {"pause", "resume", "cancel"}
NoTerminals == {}
Completed == {"COMPLETED"}
=============================================================================
