------------------------------ MODULE MCPgQueue -----------------------------
(* Instances of PgQueue small enough for TLC. *)
EXTENDS PgQueue, TLC

CONSTANTS p1, k1, d1, d2, x1, x2, c1, c2, m1, m2

Review(ref) == [kind |-> "review", pr |-> p1, ref |-> ref, tenant |-> k1, ci |-> FALSE]
CiFix(ref) == [kind |-> "fix", pr |-> p1, ref |-> ref, tenant |-> k1, ci |-> TRUE]

MCJob == [r \in Row |-> CASE r = d1 -> Review(1)
                          [] r \in {d2, x1, x2} -> Review(2)
                          [] r \in {c1, c2} -> CiFix(1)]
MCReaperRow == [k \in Row \X Ref |-> IF k = <<d1, 2>> /\ x1 \in Row THEN x1 ELSE None]
MCMovedRow == [k \in Row \X Ref |-> IF k = <<d1, 2>> /\ x2 \in Row THEN x2 ELSE None]
OneEach == [k \in Tenant |-> 1]
TwoEach == [k \in Tenant |-> 2]
Tries == [k \in Kind |-> 2]
OneTry == [k \in Kind |-> 1]
ThreadEach == [t \in Thread |-> t]     \* one claiming thread per machine
OneMachine == [t \in Thread |-> m1]

(* The theorems about heads ask for what the instance of heads grants. *)
ASSUME HeadsInstance == Row = {d1, d2, x1, x2} => StaleHeadsReplaceable /\ HeadsCoverable

MachineSymmetry == Permutations(Machine)
FleetSymmetry == Permutations(Machine) \cup Permutations(Reaper)
=============================================================================
