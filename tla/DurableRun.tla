----------------------------- MODULE DurableRun ----------------------------
(***************************************************************************)
(* A durable run: the workflow that starts its tasks as child workflows,   *)
(* one after the other or up to `window` at a time, within the run's       *)
(* budget, and, in goal mode, reads CI after each task and starts CI-fix   *)
(* tasks while it is red.  Composes TaskWalk and, through it, PaidTurn.    *)
(* A scenario, chosen in Init, is a run's specification with the number of *)
(* faults and operator signals that may happen in it.  Continue-as-new     *)
(* starts the workflow over with its progress; worktree cleanup, recall,   *)
(* verdict notes and webhook signals are left out.                         *)
(***************************************************************************)
EXTENDS TaskWalk, FiniteSetsExt

CONSTANTS
  Scenarios,
  FixOf    \* [TaskId -> sequence of the CI-fix tasks that may follow it]

(* goal: the stop condition requires verify, review and CI.  price: what a *)
(* turn may turn out to cost, 0 when its event carries no price.           *)
Scenario ==
  [tasks : Seq(TaskId), window : Nat \ {0}, cap : Nat, renew : Nat \ {0},
   goal : BOOLEAN, maxTasks : Nat, maxCi : Nat, price : SUBSET Nat, faults : [Fault -> Nat]]

(* Task ids are unique within a run; a fix is named after its task and its *)
(* number, and no task of the specification has the name of a fix.         *)
ASSUME RunConstants ==
  /\ Scenarios \subseteq Scenario
  /\ FixOf \in [TaskId -> Seq(TaskId)]
  /\ \A t, u \in TaskId : \A i \in DOMAIN FixOf[t], j \in DOMAIN FixOf[u] :
       FixOf[t][i] = FixOf[u][j] => t = u /\ i = j
  /\ \A c \in Scenarios :
       /\ IsFiniteSet(c.price) /\ \E p \in c.price : p > 0
       /\ c.goal => c.window = 1
       /\ \A i, j \in DOMAIN c.tasks : c.tasks[i] = c.tasks[j] => i = j
       /\ \A i \in DOMAIN c.tasks, t \in TaskId :
            \A j \in DOMAIN FixOf[t] : c.tasks[i] # FixOf[t][j]
       /\ c.goal => \A i \in DOMAIN c.tasks : Len(FixOf[c.tasks[i]]) >= c.maxCi

VARIABLES
  run,       \* the run workflow
  scenario

vars == <<turnVars, walkVars, run, scenario>>

CiState == {"none", "passed", "failed", "pending", "infrastructure", "unknown"}
RunOutcome == {"none", "completed", "stopped", "budget_exhausted", "goal_unmet", "failed"}

(* todo: positions of the tasks this execution has not started; completed: *)
(* children whose results were consolidated; spent: what they reported.    *)
RunType ==
  [at : {"boundary", "fill", "waiting", "gate", "fixing", "done"}, outcome : RunOutcome,
   todo : SUBSET (Nat \ {0}), pending : Seq(TaskId), completed : Seq(TaskId), spent : Nat,
   started : Nat, paused : BOOLEAN, stopped : BOOLEAN,
   ci : CiState, ciTried : Nat, of : TaskId \cup {None}, child : TaskId \cup {None}]

Goal == scenario.goal
BudgetLeft == scenario.cap - run.spent
Completed == {run.completed[i] : i \in DOMAIN run.completed}

-----------------------------------------------------------------------------
(* Starting and ending                                                     *)

Init ==
  /\ scenario \in Scenarios
  /\ held = [t \in TaskId |-> {}] /\ opened = [t \in TaskId |-> 0]
  /\ bought = [t \in TaskId |-> {}]
  /\ started = [t \in TaskId |-> <<>>]
  /\ logged = [t \in TaskId |-> {}] /\ finished = [t \in TaskId |-> {}]
  /\ attempt = [t \in TaskId |-> [x \in Slot |-> None]]
  /\ tries = [t \in TaskId |-> 0] /\ exposed = [t \in TaskId |-> {}]
  /\ left = scenario.faults
  /\ task = [t \in TaskId |-> Off]
  /\ pull = [b \in Branch |-> None] /\ checks = [b \in Branch |-> "none"]
  /\ run = [at |-> "boundary", outcome |-> "none", todo |-> DOMAIN scenario.tasks, pending |-> <<>>,
            completed |-> <<>>, spent |-> 0, started |-> 0, paused |-> FALSE, stopped |-> FALSE,
            ci |-> "none", ciTried |-> 0, of |-> None, child |-> None]

(* The workflow returns or fails; the server ends the children that are    *)
(* still running.                                                          *)
Finish(o) ==
  /\ run' = [run EXCEPT !.at = "done", !.outcome = o, !.pending = <<>>]
  /\ task' = [t \in TaskId |-> IF Live(t) THEN [task[t] EXCEPT !.node = "terminated"] ELSE task[t]]
  /\ UNCHANGED <<turnVars, github, scenario>>

StartTask(t) == task' = [task EXCEPT ![t] = NewTask(BudgetLeft)]

-----------------------------------------------------------------------------
(* The loop over tasks                                                     *)

AtRunBoundary == run.at = "boundary" /\ (~run.paused \/ run.stopped)

RunStopped == AtRunBoundary /\ run.stopped /\ (run.todo # {} \/ run.pending # <<>>) /\ Finish("stopped")

(* evaluate_stop: every completed task verified and approved, CI passed. *)
GoalMet ==
  /\ Completed # {}
  /\ \A t \in Completed : task[t].passed # 0 /\ task[t].approved # 0
  /\ run.ci = "passed"

AllDone ==
  /\ run.at = "boundary" /\ run.todo = {} /\ run.pending = <<>>
  /\ Finish(IF Goal /\ ~GoalMet THEN "goal_unmet" ELSE "completed")

(* Mutant of Remaining: the new execution starts from the whole list.      *)
RemainingAll == DOMAIN scenario.tasks

(* A new execution of the workflow is given the completed tasks and the    *)
(* spend, and works out what remains.                                      *)
Remaining == {i \in DOMAIN scenario.tasks : scenario.tasks[i] \notin Completed}

ContinueAsNew ==
  /\ AtRunBoundary /\ ~run.stopped /\ run.todo # {}
  /\ scenario.window = 1 /\ run.started >= scenario.renew
  /\ run' = [run EXCEPT !.todo = Remaining, !.started = 0, !.paused = FALSE]
  /\ UNCHANGED <<turnVars, walkVars, scenario>>

GoalExhausted ==
  Goal /\ (Len(run.completed) + 1 > scenario.maxTasks
           \/ (run.ciTried >= scenario.maxCi /\ run.ci # "passed"))

Fill ==
  /\ AtRunBoundary /\ ~run.stopped /\ (run.todo # {} \/ run.pending # <<>>)
  /\ scenario.window = 1 => run.started < scenario.renew
  /\ run' = [run EXCEPT !.at = "fill"]
  /\ UNCHANGED <<turnVars, walkVars, scenario>>

Room == run.at = "fill" /\ run.todo # {} /\ Len(run.pending) < scenario.window

RunOutOfBudget == Room /\ BudgetLeft <= 0 /\ Finish("budget_exhausted")

RunOutOfGoal == Room /\ BudgetLeft > 0 /\ GoalExhausted /\ Finish("goal_unmet")

RunTask ==
  /\ Room /\ BudgetLeft > 0 /\ ~GoalExhausted
  /\ \E i \in run.todo :
       /\ \A j \in run.todo : i <= j
       /\ StartTask(scenario.tasks[i])
       /\ run' = [run EXCEPT !.todo = @ \ {i}, !.pending = Append(@, scenario.tasks[i]),
                             !.started = @ + 1]
  /\ UNCHANGED <<turnVars, github, scenario>>

Filled ==
  /\ run.at = "fill" /\ (run.todo = {} \/ Len(run.pending) >= scenario.window)
  /\ run' = [run EXCEPT !.at = "waiting"]
  /\ UNCHANGED <<turnVars, walkVars, scenario>>

(* The oldest child is awaited; its result is consolidated. *)
TakeResult ==
  /\ run.at = "waiting" /\ task[Head(run.pending)].node = "done"
  /\ LET t == Head(run.pending)
     IN run' = [run EXCEPT !.pending = Tail(@), !.completed = Append(@, t),
                           !.spent = @ + task[t].cost,
                           !.at = IF Goal THEN "gate" ELSE "boundary",
                           !.of = IF Goal THEN t ELSE None, !.child = IF Goal THEN t ELSE None]
  /\ UNCHANGED <<turnVars, walkVars, scenario>>

ChildFailed ==
  /\ run.at = "waiting" /\ task[Head(run.pending)].node = "failed"
  /\ Finish("failed")

-----------------------------------------------------------------------------
(* The CI gate                                                             *)

PassGate(ci) ==
  /\ run' = [run EXCEPT !.at = "boundary", !.ci = ci, !.of = None, !.child = None]
  /\ UNCHANGED <<turnVars, walkVars, scenario>>

NoPullRequest ==
  /\ run.at = "gate" /\ ~task[run.child].pr
  /\ PassGate(run.ci)

(* watch_ci: only a completed red check counts as red; a red head that is  *)
(* not the commit this task checkpointed has moved.                        *)
ReadCi ==
  LET b == BranchOf[run.child]
      mine == [by |-> run.child, turn |-> task[run.child].checkpoint]
  IN CASE checks[b] = "infrastructure" -> "infrastructure"
       [] checks[b] = "red" -> IF pull[b] = mine THEN "failed" ELSE "pending"
       [] OTHER -> "passed"

WatchCi ==
  /\ run.at = "gate" /\ task[run.child].pr
  /\ \/ ReadCi # "failed" /\ PassGate(ReadCi)
     \/ ReadCi = "failed" /\ (run.ciTried >= scenario.maxCi \/ BudgetLeft <= 0) /\ PassGate("failed")

WatchCiUnread ==
  /\ run.at = "gate" /\ task[run.child].pr /\ Spend("step")
  /\ run' = [run EXCEPT !.at = "boundary", !.ci = "unknown", !.of = None, !.child = None]
  /\ UNCHANGED <<engine, ledger, attempt, tries, exposed, walkVars, scenario>>

RunCiFix ==
  /\ run.at = "gate" /\ task[run.child].pr /\ ReadCi = "failed"
  /\ run.ciTried < scenario.maxCi /\ BudgetLeft > 0
  /\ LET fix == FixOf[run.of][run.ciTried + 1]
     IN /\ StartTask(fix)
        /\ run' = [run EXCEPT !.at = "fixing", !.ci = "failed", !.ciTried = @ + 1,
                              !.pending = <<fix>>]
  /\ UNCHANGED <<turnVars, github, scenario>>

(* A finished fix is consolidated and CI is read for it; a failed one has  *)
(* only been counted.                                                      *)
FixEnds ==
  /\ run.at = "fixing"
  /\ LET fix == Head(run.pending)
     IN \/ /\ task[fix].node = "done"
           /\ run' = [run EXCEPT !.at = "gate", !.pending = <<>>, !.child = fix,
                                 !.completed = Append(@, fix), !.spent = @ + task[fix].cost]
        \/ /\ task[fix].node = "failed"
           /\ run' = [run EXCEPT !.at = "gate", !.pending = <<>>]
  /\ UNCHANGED <<turnVars, walkVars, scenario>>

-----------------------------------------------------------------------------
(* Signals                                                                 *)

PauseRun ==
  /\ run.at # "done" /\ ~run.paused /\ Spend("pause")
  /\ run' = [run EXCEPT !.paused = TRUE]
  /\ UNCHANGED <<engine, ledger, attempt, tries, exposed, walkVars, scenario>>

ResumeRun ==
  /\ run.at # "done" /\ run.paused
  /\ run' = [run EXCEPT !.paused = FALSE]
  /\ UNCHANGED <<turnVars, walkVars, scenario>>

StopRun ==
  /\ run.at # "done" /\ ~run.stopped /\ Spend("stop")
  /\ run' = [run EXCEPT !.stopped = TRUE, !.paused = FALSE]
  /\ UNCHANGED <<engine, ledger, attempt, tries, exposed, walkVars, scenario>>

-----------------------------------------------------------------------------
RunStep ==
  \/ RunStopped \/ AllDone \/ ContinueAsNew \/ Fill \/ RunOutOfBudget \/ RunOutOfGoal
  \/ RunTask \/ Filled \/ TakeResult \/ ChildFailed
  \/ NoPullRequest \/ WatchCi \/ RunCiFix \/ FixEnds

TurnStep ==
  /\ \/ \E t \in TaskId, x \in Slot : AttemptStep(t, x)
     \/ \E t \in TaskId : StaleReturns(t) \/ Regressed(t)
     \/ \E t \in TaskId, cost \in scenario.price :
          \/ \E u \in bought[t], how \in TurnEnd \ {"aborted"} : TurnEnds(t, u, how, cost)
          \/ Aborts(t, "stale", cost)
          \/ task[t].node = "terminated" /\ Aborts(t, "live", cost)
  /\ UNCHANGED <<walkVars, run, scenario>>

TurnFault ==
  /\ \/ \E t \in TaskId, x \in Slot : AttemptFault(t, x)
     \/ \E t \in TaskId : Stall(t)
     \/ EngineRestart \/ WorkerCrash
  /\ UNCHANGED <<walkVars, run, scenario>>

WalkStep == (\E t \in TaskId : TaskStep(t)) /\ UNCHANGED <<run, scenario>>
WalkFault == (\E t \in TaskId : TaskFault(t)) /\ UNCHANGED <<run, scenario>>

Outside ==
  /\ \/ \E t \in TaskId : ResumeTask(t) \/ \E d \in {"approve", "reject"} : Decide(t, d)
     \/ \E b \in Branch : \E r \in {"green", "red", "infrastructure"} : CiReports(b, r)
  /\ UNCHANGED <<run, scenario>>

RunSignal == PauseRun \/ ResumeRun \/ StopRun \/ WatchCiUnread

SystemStep == TurnStep \/ WalkStep \/ RunStep
Next == SystemStep \/ TurnFault \/ WalkFault \/ Outside \/ RunSignal

Spec == Init /\ [][Next]_vars
FairSpec == Spec /\ WF_vars(SystemStep)

-----------------------------------------------------------------------------
(* Properties                                                              *)

TurnTypeOK ==
  /\ held \in [TaskId -> SUBSET Nat] /\ opened \in [TaskId -> Nat]
  /\ bought \in [TaskId -> SUBSET Turn]
  /\ started \in [TaskId -> Seq(StartRecord)]
  /\ logged \in [TaskId -> SUBSET At] /\ finished \in [TaskId -> SUBSET FinishRecord]
  /\ attempt \in [TaskId -> [Slot -> Attempt \cup {None}]]
  /\ tries \in [TaskId -> 0..ActivityTries] /\ exposed \in [TaskId -> SUBSET Nat]
  /\ left \in [Fault -> Nat]

WalkTypeOK ==
  /\ task \in [TaskId -> TaskType]
  /\ pull \in [Branch -> PrHead \cup {None}]
  /\ checks \in [Branch -> {"none", "pending", "green", "red", "infrastructure"}]

(* Every variable keeps its type. *)
TypeOK == TurnTypeOK /\ WalkTypeOK /\ run \in RunType /\ scenario \in Scenarios

(* No key is paid for twice, whatever crashes, restarts, lost sessions and *)
(* timeouts an activity meets, unless one of its attempts may have bought  *)
(* a turn the ledger did not learn of: it died, was overtaken or got no    *)
(* answer before its turn.started (drive_turn: "buying at most one turn    *)
(* per turn_key").                                                         *)
BoughtOnce ==
  \A t \in TaskId : \A u, v \in bought[t] :
    u.key = v.key /\ u # v => u.key \in exposed[t]

(* A turn that stopped on a question stays the last the task pays for,     *)
(* also when the attempt that saw the question died before it could report *)
(* it (_resume_finished: "ends on a question for every attempt").          *)
AskIsLast ==
  \A t \in TaskId : \A f \in finished[t], u \in bought[t] :
    f.ask /\ f.at = u.at /\ u.key \notin exposed[t] => \A v \in bought[t] : v.key <= u.key

(* What a task reports as its cost is what the engine had charged at the   *)
(* end of one of its turns, however many attempts, resumptions and         *)
(* sessions led there: no turn's cost is counted twice.  While the task    *)
(* has had one session it is all of it: between turns nothing that session *)
(* charged is missing (adopt, _spend_from_event, _resume_finished).        *)
CostIsReal ==
  \A t \in TaskId :
    /\ task[t].cost = 0 \/ \E u \in bought[t] : u.usage = task[t].cost
    /\ opened[t] <= 1 /\ ~task[t].busy => \A u \in bought[t] : u.usage <= task[t].cost

FixFailed == \E t \in TaskId : \E i \in DOMAIN FixOf[t] : task[FixOf[t][i]].node = "failed"

(* How far a run may go over its cap.  A cap does not bound a turn: it is  *)
(* looked at when the turn has been paid for, and the next one is not      *)
(* bought.  And tasks that run at a time each get all that was left when   *)
(* they started.  So what is reported stays within the cap plus less than  *)
(* the dearest turn, once for each task of the window (Budget.exhausted,   *)
(* with_remaining_budget, run_budget_left).  The cost of a fix task that   *)
(* failed never reaches the run.                                           *)
BudgetHolds ==
  FixFailed \/ SumFunction([t \in TaskId |-> task[t].cost])
                 <= scenario.window * (scenario.cap + Max(scenario.price) - 1)

(* The head of a pull request was checkpointed, verified and approved, as  *)
(* the same turn, by the task that pushed it.                              *)
PushedIsApproved ==
  \A b \in Branch : pull[b] # None =>
    LET s == task[pull[b].by]
    IN {s.checkpoint, s.passed, s.approved} = {pull[b].turn} /\ pull[b].turn = s.seq

(* A task that has ended does not run again: not after a continue-as-new,  *)
(* and not for a second CI fix.                                            *)
EndedStaysEnded ==
  [][\A t \in TaskId : task[t].node \in Ended => task'[t] = task[t]]_vars

(* A run that is not held by a pause or by a question comes to its end.    *)
HeldUp ==
  run.paused \/ \E t \in TaskId : Live(t) /\
    (task[t].paused \/ (task[t].node = "parked" /\ task[t].decision = "none" /\ ~task[t].stopped))
RunEnds == []<>(run.at = "done" \/ HeldUp)

(* A run that calls its goal met has pull requests whose required checks   *)
(* have passed.                                                            *)
GoalMeansGreen ==
  Goal /\ run.outcome = "completed" => \A t \in Completed : checks[BranchOf[t]] = "green"
=============================================================================
