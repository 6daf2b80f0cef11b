------------------------------ MODULE MCSpool -------------------------------
(* Instances of Spool small enough for TLC. *)
EXTENDS Spool

CONSTANTS d1, d2

Review(ref) == [kind |-> "review", pr |-> 1, ref |-> ref]
ReviewAndFix == [d \in Delivery |-> IF d = d1 THEN Review(1) ELSE [Review(2) EXCEPT !.kind = "fix"]]
OneTry == [k \in Kind |-> 1]
ForthAndBack == {<<"shadow", "postgres">>, <<"postgres", "rollback">>}
=============================================================================
