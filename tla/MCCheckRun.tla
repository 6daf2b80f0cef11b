----------------------------- MODULE MCCheckRun ----------------------------
(***************************************************************************)
(* A pull request that gets two heads.  d1 reviews the first, d2 and e2    *)
(* the second, m2 is what a moved head queues.                             *)
(***************************************************************************)
EXTENDS CheckRun

CONSTANTS d1, d2, e2, m2, q1, q2, w1, w2

RefOfRow == [r \in Row |-> IF r = d1 THEN 1 ELSE 2]

(* A stop reaches an attempt that has attached its run (README).           *)
OnceAttached == {"review", "posted", "report", "finish"}

(* A death between the create and the record leaves a run nobody knows of. *)
OnceRecorded == Point \ {"record"}

(* The calls that another path repeats or makes up for.                    *)
MadeUpFor == Calls \ TriedOnce

(* A theorem about these runs asks for what the instance grants.           *)
ASSUME InstanceForgives == Refused = MadeUpFor => Forgiving

Sent(x, y) == [q \in Request |-> CASE q = q1 -> x [] q = q2 -> y [] OTHER -> None]
Case(x, y, ws, l, f, o) ==
  [sends |-> Sent(x, y), threads |-> ws, late |-> l, faults |-> f, operator |-> o]

MCScenarios ==
  { Case(d1, d2, {w1}, TRUE, 0, 0),            \* a head is replaced
    Case(d2, e2, {w1}, TRUE, 0, 1),            \* two deliveries of one head
    Case(d1, d2, {w1, w2}, FALSE, 0, 0),       \* a head replaced while its job runs
    Case(d1, None, {w1}, TRUE, 2, 0),          \* two faults
    Case(d1, None, {w1, w2}, FALSE, 1, 1) }    \* a fault and an operator
=============================================================================
