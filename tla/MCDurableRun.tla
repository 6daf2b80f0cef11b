---------------------------- MODULE MCDurableRun ---------------------------
(* Scenarios of DurableRun small enough for TLC. *)
EXTENDS DurableRun

CONSTANTS t1, t2, f1, f2, f3, b1, b2

BranchOfTask == [t \in TaskId |-> IF t \in {t2, f3} THEN b2 ELSE b1]
Fixes == [t \in TaskId |-> CASE t = t1 -> <<f1, f2>> [] t = t2 -> <<f3>> [] OTHER -> <<>>]

Faults(fs) == [f \in Fault |-> IF f \in fs THEN 1 ELSE 0]
OneTask == [tasks |-> <<t1>>, window |-> 1, cap |-> 3, renew |-> 5, goal |-> FALSE,
            maxTasks |-> 3, maxCi |-> 1, price |-> {1}, faults |-> Faults({})]
TwoTasks == [OneTask EXCEPT !.tasks = <<t1, t2>>]

(* One task whose second implementation may be approved, or is one too     *)
(* dear; a turn's event may also carry no price.                           *)
WalkScenarios == {[OneTask EXCEPT !.cap = 4, !.price = {0, 3}]}

(* One task through crashes, lost sessions and lost answers; in the first  *)
(* turns differ in price.                                                  *)
TurnScenarios ==
  {[OneTask EXCEPT !.price = {1, 2}, !.faults = Faults({"crash", "restart"})],
   [OneTask EXCEPT !.price = {2}, !.faults = Faults({"unanswered", "restart", "refused"})]}

(* One task whose turn is attempted twice at the same time. *)
OverlapScenarios ==
  {[OneTask EXCEPT !.cap = 2, !.faults = Faults({"stall", f})] :
     f \in {"crash", "restart", "stop"}}

(* Two tasks: a window of both, which also stop or fail; one after the     *)
(* other over two executions; towards a goal, with one CI fix or two.  In  *)
(* the first and the last a turn costs more than one unit of the cap.      *)
RunScenarios ==
  {[TwoTasks EXCEPT !.window = 2, !.cap = 2, !.price = {1, 3}],
   [TwoTasks EXCEPT !.window = 2, !.cap = 1, !.faults = Faults({"stop", "step"})],
   [TwoTasks EXCEPT !.renew = 1, !.faults = Faults({"stop", "pause"})],
   [TwoTasks EXCEPT !.goal = TRUE, !.faults = Faults({"step"})],
   [OneTask EXCEPT !.goal = TRUE, !.cap = 9, !.maxCi = 2, !.price = {2},
                   !.faults = Faults({"step"})]}

MCScenarios == WalkScenarios \cup TurnScenarios \cup OverlapScenarios \cup RunScenarios
=============================================================================
