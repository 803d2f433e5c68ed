--------------------------- MODULE MCMonitorLease ---------------------------
(* Model-checking instances of MonitorLease: constants only. *)
EXTENDS MonitorLease, TLC

CONSTANTS w1, w2

MCSymmetry == Permutations(Workers)
MCDelays == <<1, 3>>
=============================================================================
