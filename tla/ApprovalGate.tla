----------------------------- MODULE ApprovalGate ----------------------------
(***************************************************************************)
(* What the command approval service promises its user.  A request is      *)
(* asked once and settled at most once; "no" sticks; and the command runs  *)
(* only while its request stands granted.                                  *)
(***************************************************************************)
EXTENDS Naturals

CONSTANT Requests    \* the ids of requests

VARIABLES
    standing,        \* what became of each request
    ran              \* how often its command was run

Settled == {"GRANTED", "DENIED", "EXPIRED"}

Init ==
    /\ standing = [i \in Requests |-> "NONE"]
    /\ ran = [i \in Requests |-> 0]

Ask(i) ==
    /\ standing[i] = "NONE"
    /\ standing' = [standing EXCEPT ![i] = "PENDING"]
    /\ UNCHANGED ran

Settle(i) ==
    /\ standing[i] = "PENDING"
    /\ \E verdict \in Settled : standing' = [standing EXCEPT ![i] = verdict]
    /\ UNCHANGED ran

Run(i) ==
    /\ standing[i] = "GRANTED"
    /\ ran' = [ran EXCEPT ![i] = @ + 1]
    /\ UNCHANGED standing

Next == \E i \in Requests : Ask(i) \/ Settle(i) \/ Run(i)

Spec == Init /\ [][Next]_<<standing, ran>>
=============================================================================
