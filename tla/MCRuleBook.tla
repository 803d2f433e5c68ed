------------------------------ MODULE MCRuleBook -----------------------------
(* Model-checking instances of RuleBook: constants only. *)
EXTENDS RuleBook

MCValues == {"a", "b"}
=============================================================================
