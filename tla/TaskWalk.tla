------------------------------ MODULE TaskWalk -----------------------------
(***************************************************************************)
(* A durable task: the plain engine's walk over plan, implement,           *)
(* checkpoint, verify, review, open_pr and the human's decision, with the  *)
(* routers both engines share.  A task is a Temporal workflow: what it     *)
(* knows survives every crash, its steps are activities.  Plan and         *)
(* implement are the paid turns of PaidTurn; each of the other activities  *)
(* is one step, because running one again does what it did, but for        *)
(* open_pr, which can stop after its push.  A pull request's head is the   *)
(* task and the turn whose checkpoint was pushed.  Steering, the record of *)
(* approvals, notifications and the episode file are left out.             *)
(***************************************************************************)
EXTENDS PaidTurn

CONSTANTS
  Branch,       \* branches: one per task number, shared with its CI-fix tasks
  BranchOf,     \* [TaskId -> Branch]
  MaxAttempts,  \* a task's plan and implement attempts
  OwnCap        \* a task's own cost cap

ASSUME WalkConstants ==
  /\ BranchOf \in [TaskId -> Branch]
  /\ MaxAttempts \in Nat \ {0} /\ OwnCap \in Nat \ {0}

VARIABLES
  task,     \* [TaskId -> the workflow and its TaskState]
  pull,     \* [Branch -> the head of its open pull request, or None]
  checks    \* [Branch -> what CI says of that head]

github == <<pull, checks>>
walkVars == <<task, github>>

Paid == {"plan", "implement"}
Unpaid == {"checkpoint", "verify", "review", "open_pr"}
Ended == {"done", "failed", "terminated"}
Node == {"off", "wait_for_human", "parked"} \cup Paid \cup Unpaid \cup Ended
Outcome == {"none", "approved", "rejected", "stopped", "budget_exhausted"}
PrHead == [by : TaskId, turn : Nat]

(* passed, approved: the turn the last verification passed on, the last    *)
(* review approved, or 0.  cost is what the workflow reports to the run.   *)
TaskType ==
  [node : Node, busy : BOOLEAN, paused : BOOLEAN, stopped : BOOLEAN,
   decision : {"none", "approve", "reject"}, outcome : Outcome, cost : Nat,
   seq : Nat, session : Nat, last : Nat, spent : Nat, cap : Nat,
   planned : BOOLEAN, plans : Nat, implements : Nat, ask : BOOLEAN,
   checkpoint : Nat, passed : Nat, approved : Nat, pr : BOOLEAN]

Off ==
  [node |-> "off", busy |-> FALSE, paused |-> FALSE, stopped |-> FALSE,
   decision |-> "none", outcome |-> "none", cost |-> 0,
   seq |-> 0, session |-> 0, last |-> 0, spent |-> 0, cap |-> 0,
   planned |-> FALSE, plans |-> 0, implements |-> 0, ask |-> FALSE,
   checkpoint |-> 0, passed |-> 0, approved |-> 0, pr |-> FALSE]

(* Mutant of NewTask: its own cap, whatever the run has left.            *)
NewTaskUncapped(budget) == [Off EXCEPT !.node = "plan", !.cap = OwnCap]

(* A child workflow begins; its budget is capped by what the run has left. *)
NewTask(budget) == [Off EXCEPT !.node = "plan", !.cap = IF budget < OwnCap THEN budget ELSE OwnCap]

Live(t) == task[t].node \notin Ended \cup {"off"}
InputOf(s) == [seq |-> s.seq, session |-> s.session, last |-> s.last, spent |-> s.spent]
Become(t, s) == task' = [task EXCEPT ![t] = s]

-----------------------------------------------------------------------------
(* Routers                                                                 *)

Exhausted(s) == s.spent >= s.cap

AfterPlan(s) ==
  IF s.ask \/ Exhausted(s) THEN "wait_for_human"
  ELSE IF s.planned THEN "implement"
  ELSE IF s.plans < MaxAttempts THEN "plan" ELSE "wait_for_human"

AgainOrPark(s) == IF s.implements < MaxAttempts THEN "implement" ELSE "wait_for_human"

AfterVerify(s) ==
  IF s.ask \/ Exhausted(s) THEN "wait_for_human"
  ELSE IF s.passed = 0 THEN AgainOrPark(s) ELSE "review"

AfterReview(s) ==
  IF s.ask \/ Exhausted(s) THEN "wait_for_human"
  ELSE IF s.approved # 0 THEN "open_pr" ELSE AgainOrPark(s)

-----------------------------------------------------------------------------
(* The walk                                                                *)

(* The boundary before a step: a pause holds it, a stop ends the task.     *)
AtBoundary(t) ==
  /\ task[t].node \in Paid \cup (Unpaid \ {"checkpoint"}) \cup {"wait_for_human"}
  /\ ~task[t].busy /\ (~task[t].paused \/ task[t].stopped)

StopHere(t) ==
  /\ AtBoundary(t) /\ task[t].stopped
  /\ Become(t, [task[t] EXCEPT !.node = "done", !.outcome = "stopped"])
  /\ UNCHANGED <<turnVars, github>>

Ready(t) == AtBoundary(t) /\ ~task[t].stopped

BeginTurn(t) ==
  /\ Ready(t) /\ task[t].node \in Paid
  /\ ScheduleTurn(t, InputOf(task[t]))
  /\ Become(t, [task[t] EXCEPT !.busy = TRUE])
  /\ UNCHANGED github

(* The outcome's state: the events consumed, the turn, its spend, the ask. *)
AfterTurn(s, a) ==
  [s EXCEPT !.busy = FALSE, !.last = a.at.n, !.seq = @ + 1, !.session = a.at.session,
            !.spent = @ + a.cost, !.cost = @ + a.cost, !.ask = @ \/ a.ask]

(* plan_task: a turn that stopped on a question produced no plan, one that *)
(* ran to its end did.                                                     *)
AfterPlanTurn(s, a) ==
  LET done == [AfterTurn(s, a) EXCEPT !.plans = @ + 1, !.planned = ~a.ask]
  IN [done EXCEPT !.node = AfterPlan(done)]

AfterImplementTurn(s, a) ==
  [AfterTurn(s, a) EXCEPT !.implements = @ + 1, !.node = "checkpoint"]

(* The server takes the outcome and the workflow adopts it. *)
EndTurn(t) ==
  /\ task[t].node \in Paid /\ task[t].busy
  /\ TurnReturns(t)
  /\ LET a == attempt[t]["live"]
     IN Become(t, IF task[t].node = "plan" THEN AfterPlanTurn(task[t], a)
                  ELSE AfterImplementTurn(task[t], a))
  /\ UNCHANGED github

(* The activity has used up its attempts: the workflow fails. *)
TurnGivenUp(t) ==
  /\ task[t].node \in Paid /\ task[t].busy /\ attempt[t]["live"] = None
  /\ Become(t, [task[t] EXCEPT !.node = "failed"])
  /\ UNCHANGED <<turnVars, github>>

(* One commit and one ref for the turn; no boundary between the two.       *)
Checkpoint(t) ==
  /\ task[t].node = "checkpoint"
  /\ Become(t, [task[t] EXCEPT !.checkpoint = task[t].seq, !.node = "verify"])
  /\ UNCHANGED <<turnVars, github>>

(* Mutant of Verify: a failing verification leaves an earlier pass in place. *)
VerifyKeepsPass(t) ==
  /\ Ready(t) /\ task[t].node = "verify"
  /\ \E passed \in BOOLEAN :
       LET done == [task[t] EXCEPT !.passed = IF passed THEN task[t].seq ELSE @]
       IN Become(t, [done EXCEPT !.node = AfterVerify(done)])
  /\ UNCHANGED <<turnVars, github>>

Verify(t) ==
  /\ Ready(t) /\ task[t].node = "verify"
  /\ \E passed \in BOOLEAN :
       LET done == [task[t] EXCEPT !.passed = IF passed THEN task[t].seq ELSE 0]
       IN Become(t, [done EXCEPT !.node = AfterVerify(done)])
  /\ UNCHANGED <<turnVars, github>>

Review(t) ==
  /\ Ready(t) /\ task[t].node = "review"
  /\ \E approved \in BOOLEAN :
       LET done == [task[t] EXCEPT !.approved = IF approved THEN task[t].seq ELSE 0]
       IN Become(t, [done EXCEPT !.node = AfterReview(done)])
  /\ UNCHANGED <<turnVars, github>>

(* An open pull request of the branch is returned as it is; otherwise the  *)
(* checkpoint is pushed and a pull request created.                        *)
Push(t) ==
  LET b == BranchOf[t]
  IN IF pull[b] # None THEN UNCHANGED github
     ELSE /\ pull' = [pull EXCEPT ![b] = [by |-> t, turn |-> task[t].checkpoint]]
          /\ checks' = [checks EXCEPT ![b] = "pending"]

OpenPr(t) ==
  /\ Ready(t) /\ task[t].node = "open_pr"
  /\ Push(t)
  /\ Become(t, [task[t] EXCEPT !.pr = TRUE, !.node = "wait_for_human"])
  /\ UNCHANGED turnVars

(* open_pr creates the pull request and its worker dies: it runs again.    *)
OpenPrAgain(t) ==
  /\ Ready(t) /\ task[t].node = "open_pr" /\ Spend("crash")
  /\ Push(t)
  /\ UNCHANGED <<engine, ledger, attempt, tries, exposed, task>>

(* An activity that is not a turn has failed every attempt. *)
StepFails(t) ==
  /\ task[t].node \in Unpaid /\ (Ready(t) \/ task[t].node = "checkpoint") /\ Spend("step")
  /\ Become(t, [task[t] EXCEPT !.node = "failed"])
  /\ UNCHANGED <<engine, ledger, attempt, tries, exposed, github>>

Park(t) ==
  /\ Ready(t) /\ task[t].node = "wait_for_human"
  /\ Become(t, [task[t] EXCEPT !.node = "parked", !.decision = "none"])
  /\ UNCHANGED <<turnVars, github>>

(* Mutant of Unpark: the decision is recorded as the outcome.              *)
UnparkByDecision(t) ==
  /\ task[t].node = "parked" /\ (task[t].stopped \/ task[t].decision # "none")
  /\ Become(t, [task[t] EXCEPT !.node = "done", !.outcome =
         IF task[t].stopped THEN "stopped" ELSE task[t].decision])
  /\ UNCHANGED <<turnVars, github>>

(* Mutant of Unpark: a stop does not wake a parked task.                   *)
UnparkIfDecided(t) ==
  /\ task[t].node = "parked" /\ task[t].decision # "none"
  /\ Become(t, [task[t] EXCEPT !.node = "done", !.outcome =
         IF task[t].stopped THEN "stopped"
         ELSE IF task[t].decision = "reject" THEN "rejected"
         ELSE IF Exhausted(task[t]) /\ ~task[t].ask THEN "budget_exhausted" ELSE "approved"])
  /\ UNCHANGED <<turnVars, github>>

(* Woken by a decision or a stop.  A stop wins; an approval of a task      *)
(* parked on its budget finishes it as budget_exhausted.                   *)
Unpark(t) ==
  /\ task[t].node = "parked" /\ (task[t].stopped \/ task[t].decision # "none")
  /\ Become(t, [task[t] EXCEPT !.node = "done", !.outcome =
         IF task[t].stopped THEN "stopped"
         ELSE IF task[t].decision = "reject" THEN "rejected"
         ELSE IF Exhausted(task[t]) /\ ~task[t].ask THEN "budget_exhausted" ELSE "approved"])
  /\ UNCHANGED <<turnVars, github>>

-----------------------------------------------------------------------------
(* Updates and signals                                                     *)

Decide(t, d) ==
  /\ task[t].node = "parked" /\ task[t].decision = "none"
  /\ Become(t, [task[t] EXCEPT !.decision = d])
  /\ UNCHANGED <<turnVars, github>>

PauseTask(t) ==
  /\ Live(t) /\ ~task[t].paused /\ Spend("pause")
  /\ Become(t, [task[t] EXCEPT !.paused = TRUE])
  /\ UNCHANGED <<engine, ledger, attempt, tries, exposed, github>>

ResumeTask(t) ==
  /\ Live(t) /\ task[t].paused
  /\ Become(t, [task[t] EXCEPT !.paused = FALSE])
  /\ UNCHANGED <<turnVars, github>>

StopTask(t) ==
  /\ Live(t) /\ ~task[t].stopped /\ Spend("stop")
  /\ Become(t, [task[t] EXCEPT !.stopped = TRUE, !.paused = FALSE])
  /\ UNCHANGED <<engine, ledger, attempt, tries, exposed, github>>

(* CI reports on a pull request's head. *)
CiReports(b, result) ==
  /\ pull[b] # None /\ checks[b] = "pending"
  /\ checks' = [checks EXCEPT ![b] = result]
  /\ UNCHANGED <<turnVars, task, pull>>

TaskStep(t) ==
  \/ StopHere(t) \/ BeginTurn(t) \/ EndTurn(t) \/ TurnGivenUp(t)
  \/ Checkpoint(t) \/ Verify(t) \/ Review(t) \/ OpenPr(t) \/ Park(t) \/ Unpark(t)

TaskFault(t) == OpenPrAgain(t) \/ StepFails(t) \/ PauseTask(t) \/ StopTask(t)
=============================================================================
