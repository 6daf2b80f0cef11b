------------------------------ MODULE CheckRun -----------------------------
(***************************************************************************)
(* The "codna review" Check Runs of one pull request on the Postgres       *)
(* backend: the ingress opens one before it inserts the row, the row       *)
(* carries its id, the attempt that claims the row runs on it or opens     *)
(* another, and whoever ends the job has to complete it: the attempt, its  *)
(* canceller, the reaper, or the sweep over the rows that were retired.    *)
(* Only the App can complete a run, so one that everybody has forgotten    *)
(* stays open on its commit.                                               *)
(*                                                                         *)
(* A call to GitHub and a statement of the queue are steps of their own; a *)
(* guarded completion (read the run, then write it on one connection) is   *)
(* one step.  Rows are those of PgQueue without leases and holds: a row is *)
(* reaped once its attempt's process has died.  Postgres answers, and the  *)
(* ingress runs no attempts of its own.                                    *)
(***************************************************************************)
EXTENDS Integers, Sequences, FiniteSets

CONSTANTS
  Row,        \* rows that may come to exist
  Delivery,   \* those a delivery brings; the others are requeues of a moved head
  Ref,        \* [Row -> head], numbered in the order they are pushed
  Heads,      \* number of heads the pull request gets
  Request,    \* request threads, one to a delivery that GitHub sends
  Scenarios,  \* what GitHub sends and what goes wrong, one chosen in Init
  Worker,     \* claiming threads, one to a process
  Sweeper,    \* the threads that settle retired rows
  Budget,     \* attempts of a row
  Dies,       \* points of an attempt at which its process may die
  Stops,      \* points of an attempt at which a stop may reach it
  Refused,    \* calls that GitHub may refuse
  Hasty,      \* an operator may retry a row whose run is just being closed
  None

Point == {"start", "moved", "list", "stale", "probe", "abandon", "startrun", "create",
          "record", "review", "posted", "report", "unwind", "leave", "finish", "requeue",
          "raised", "unreported"}
Calls == {"moved", "stale", "probe", "abandon", "startrun", "create", "report", "settle",
         "unwind", "unreported", "orphan", "sweep", "reaper", "tell", "lookup"}

(* Bounds: threads on who claims, late on the creates that outlast their   *)
(* budget, faults on what else goes wrong, operator on cancels and retries.*)
Scenario == [sends : [Request -> Delivery \cup {None}], threads : SUBSET Worker, late : BOOLEAN,
             faults : Nat, operator : Nat]

ASSUME CheckConstants ==
  /\ Delivery \subseteq Row /\ Heads \in Nat \ {0} /\ Ref \in [Row -> 1..Heads]
  /\ Dies \subseteq Point /\ Stops \subseteq Point /\ Refused \subseteq Calls
  /\ Budget \in Nat \ {0} /\ Scenarios \subseteq Scenario
  /\ Hasty \in BOOLEAN /\ None \notin Row

VARIABLES
  tip,       \* the pull request's head
  run,       \* sequence of the Check Runs, in the order they were created
  row,       \* [Row -> row of the jobs table]
  req,       \* [Request -> the request thread and its late create]
  at,        \* [Worker -> the attempt and its canceller]
  reaper,    \* what the reaper has in hand
  sweep,     \* [Sweeper -> the retired row in hand]
  faults, operated,
  scenario

vars == <<tip, run, row, req, at, reaper, sweep, faults, operated, scenario>>

(* How a run was completed: by the review, by a canceller or a moved head  *)
(* ("neutral"), as an orphan or by the reaper ("cancelled"), for a failed  *)
(* row, or by the dead-letter notice.  "open" is queued or in_progress.    *)
End == {"verdict", "neutral", "cancelled", "failure", "notice"}

(* "left" is a running row whose attempt gave up without writing it and    *)
(* whose lease goes on being renewed.                                      *)
Live == {"queued", "running", "left"}
RetiredForgetsFailed == {"superseded", "cancelled"}
Retired == {"superseded", "cancelled", "failed"}
Status == {"none", "done", "dead"} \cup Live \cup Retired

NewRow == [status |-> "queued", run |-> 0, tries |-> 0, resumed |-> FALSE, stop |-> FALSE,
           swept |-> FALSE, told |-> FALSE]
NoRow == [NewRow EXCEPT !.status = "none"]
NoReq == [pc |-> "none", d |-> None, run |-> 0, late |-> "no", fresh |-> FALSE]
Over == [NoReq EXCEPT !.pc = "over"]
Idle == [pc |-> "idle", r |-> None, carried |-> 0, retry |-> FALSE, head |-> 0, own |-> 0,
         moved |-> FALSE, todo |-> {}, next |-> 0, stopped |-> FALSE, closed |-> FALSE, final |-> FALSE,
         settle |-> "none"]
Resting == [pc |-> "idle", r |-> None, run |-> 0, end |-> "none", next |-> 0]

Open(i) == i \in DOMAIN run /\ run[i].status = "open"
Opened(h) == Append(run, [head |-> h, status |-> "open"])
Ended(i, e) == [run EXCEPT ![i].status = e]

EndedUnread(i, e) == Ended(i, e)
(* complete_check_run_if_open: a completed run keeps its content. *)
EndedIfOpen(i, e) == IF Open(i) THEN Ended(i, e) ELSE run

(* What may go wrong: a process dies, a job fails, or GitHub refuses a call *)
(* with an error answer or none.                                           *)
Fault == faults < scenario.faults /\ faults' = faults + 1
Refuse(c) == c \in Refused /\ Fault

-----------------------------------------------------------------------------
(* The queue                                                               *)

SameHead(r) == {x \in Row : Ref[x] = Ref[r]}
Pending(r) == \E x \in SameHead(r) : row[x].status \in Live
Covered(r) == \E x \in SameHead(r) : row[x].status \in Live \cup {"done"}
Fresh(r) == row[r].status = "none" /\ ~Pending(r)

(* The insert retires the waiting rows of other heads and asks the running *)
(* ones to stop.                                                           *)
Inserted(r, i) ==
  [x \in Row |->
     IF x = r THEN [NewRow EXCEPT !.run = i]
     ELSE IF Ref[x] # Ref[r] /\ row[x].status = "queued"
       THEN [row[x] EXCEPT !.status = "superseded"]
     ELSE IF Ref[x] # Ref[r] /\ row[x].status = "running"
       THEN [row[x] EXCEPT !.stop = TRUE]
     ELSE row[x]]

(* A review of a moved head is queued unless the head is covered.  A       *)
(* requeue beyond the model's rows fails, as it may: it is best effort.    *)
Requeue(h) ==
  LET spare == {x \in Row \ Delivery : Ref[x] = h /\ Fresh(x) /\ ~Covered(x)}
  IN row' = IF spare = {} THEN row ELSE Inserted(CHOOSE x \in spare : TRUE, 0)

(* complete(): only while the row is still running. *)
Completed(r, status) ==
  IF row[r].status = "running" THEN [row EXCEPT ![r].status = status] ELSE row

Failing(r) ==
  {"failed", IF row[r].tries < Budget THEN "queued" ELSE "dead"}

-----------------------------------------------------------------------------
(* The environment *)

Push == /\ tip < Heads
        /\ tip' = tip + 1
        /\ UNCHANGED <<run, row, req, at, reaper, sweep, faults, operated, scenario>>

InHand(r) == \/ \E s \in Sweeper : sweep[s].r = r
             \/ reaper.r = r

Operate == operated < scenario.operator /\ operated' = operated + 1

Cancel(r) ==
  /\ Operate /\ row[r].status \in {"queued", "running"}
  /\ row' = [row EXCEPT ![r] = IF @.status = "queued" THEN [@ EXCEPT !.status = "cancelled"]
                               ELSE [@ EXCEPT !.stop = TRUE]]
  /\ UNCHANGED <<tip, run, req, at, reaper, sweep, faults, scenario>>

(* A request looks at its row right after the insert: a lease, a retry's   *)
(* hold and the operator's mind take longer than that.                     *)
Looked(r) == \A q \in Request : req[q].pc = "bind" => req[q].d # r

(* The row keeps its Check Run id; what was said of it is forgotten. *)
RetryNow(r) ==
  /\ Operate /\ row[r].status \in {"dead", "failed", "cancelled"} /\ ~Pending(r)
  /\ Looked(r)
  /\ Hasty \/ ~InHand(r)
  /\ row' = [row EXCEPT ![r] = [@ EXCEPT !.status = "queued", !.tries = 0, !.stop = FALSE,
                                         !.swept = FALSE, !.told = FALSE]]
  /\ UNCHANGED <<tip, run, req, at, reaper, sweep, faults, scenario>>

-----------------------------------------------------------------------------
(* The ingress                                                             *)

ingressKeeps == <<scenario, tip, at, reaper, sweep, operated>>

(* precreate's two questions, asked before the create. *)
Receive(q) ==
  LET d == scenario.sends[q]
  IN /\ req[q].pc = "none" /\ d # None /\ Ref[d] <= tip
     /\ req' = [req EXCEPT ![q] = [NoReq EXCEPT !.d = d,
                                                !.pc = IF Fresh(d) THEN "create" ELSE "insert"]]
     /\ UNCHANGED <<ingressKeeps, run, row, faults>>

Create(q) ==
  /\ req[q].pc = "create"
  /\ run' = Opened(Ref[req[q].d])
  /\ req' = [req EXCEPT ![q].pc = "insert", ![q].run = Len(run) + 1]
  /\ UNCHANGED <<ingressKeeps, row, faults>>

(* The budget is spent: the create may still answer, or never. *)
CreateLate(q) ==
  /\ req[q].pc = "create" /\ scenario.late
  /\ \E late \in {"no", "asked"} : req' = [req EXCEPT ![q].pc = "insert", ![q].late = late]
  /\ UNCHANGED <<ingressKeeps, run, row, faults>>

LateAnswer(q) ==
  /\ req[q].late = "asked"
  /\ run' = Opened(Ref[req[q].d])
  /\ req' = [req EXCEPT ![q].late = "made", ![q].run = Len(run) + 1]
  /\ UNCHANGED <<ingressKeeps, row, faults>>

(* A row is born with the run its own request made in time. *)
Insert(q) ==
  LET d == req[q].d
      made == IF req[q].late = "no" THEN req[q].run ELSE 0
      pc == IF req[q].late = "no" THEN "bind" ELSE "adopt"
  IN /\ req[q].pc = "insert"
     /\ row' = IF Fresh(d) THEN Inserted(d, made) ELSE row
     /\ req' = [req EXCEPT ![q] = IF req[q].late = "no" /\ made = 0 THEN Over
                                   ELSE [@ EXCEPT !.pc = pc, !.fresh = Fresh(d)]]
     /\ UNCHANGED <<ingressKeeps, run, faults>>

(* bind_or_close: the run is the row's, or it is offered to the row of the *)
(* same head that the insert collapsed onto, or it is an orphan.           *)
Bind(q) ==
  /\ req[q].pc = "bind"
  /\ req' = [req EXCEPT ![q] = IF row[req[q].d].run = req[q].run THEN Over
                               ELSE [@ EXCEPT !.pc = IF req[q].fresh THEN "orphan" ELSE "adopt"]]
  /\ UNCHANGED <<ingressKeeps, run, row, faults>>

AdoptersOfAny(q) ==
  {x \in SameHead(req[q].d) : row[x].status = "queued"}
Adopters(q) ==
  {x \in IF req[q].late = "made" THEN {req[q].d} ELSE SameHead(req[q].d) :
     row[x].status = "queued" /\ row[x].run = 0}

Adopt(q) ==
  /\ req[q].pc = "adopt" /\ req[q].late # "asked"
  /\ IF Adopters(q) = {}
       THEN /\ req' = [req EXCEPT ![q].pc = "orphan"]
            /\ UNCHANGED row
       ELSE /\ \E x \in Adopters(q) : row' = [row EXCEPT ![x].run = req[q].run]
            /\ req' = [req EXCEPT ![q] = Over]
  /\ UNCHANGED <<ingressKeeps, run, faults>>

(* One unguarded update, tried once. *)
CloseOrphan(q) ==
  /\ req[q].pc = "orphan"
  /\ \/ run' = Ended(req[q].run, "cancelled") /\ UNCHANGED faults
     \/ Refuse("orphan") /\ UNCHANGED run
  /\ req' = [req EXCEPT ![q] = Over]
  /\ UNCHANGED <<ingressKeeps, row>>

-----------------------------------------------------------------------------
(* An attempt: from the claim to the Check Run it works on                 *)

attemptKeeps == <<scenario, tip, req, reaper, sweep, operated>>

Go(w, pc) == at' = [at EXCEPT ![w].pc = pc]

(* The thread is free; a canceller that still works keeps the handle.      *)
Left(w) == at' = [at EXCEPT ![w] = IF @.settle = "none" THEN Idle
                                   ELSE [@ EXCEPT !.pc = "idle", !.final = TRUE]]

Claim(w, r) ==
  /\ w \in scenario.threads /\ at[w].pc = "idle" /\ at[w].settle = "none"
  /\ row[r].status = "queued" /\ row[r].tries < Budget
  /\ row[r].tries > 0 => Looked(r)
  /\ row' = [row EXCEPT ![r] = [@ EXCEPT !.status = "running", !.tries = row[r].tries + 1,
                                         !.stop = FALSE]]
  /\ at' = [at EXCEPT ![w] = [Idle EXCEPT !.pc = "start", !.r = r, !.carried = row[r].run,
                                          !.retry = row[r].tries > 0, !.head = Ref[r]]]
  /\ UNCHANGED <<attemptKeeps, run, faults>>

(* A retry first completes what is open on the head it will report on. *)
BeforeCreate(w) == IF at[w].retry THEN "list" ELSE "create"

(* _review_head_at_start: the head is read, or cannot be. *)
ReadHead(w) ==
  /\ at[w].pc = "start"
  /\ \E h \in {tip, Ref[at[w].r]} :
       /\ IF h = tip THEN UNCHANGED faults ELSE Refuse("lookup")
       /\ at' = [at EXCEPT ![w].head = h, ![w].moved = (h # Ref[at[w].r]),
                           ![w].pc = IF h # Ref[at[w].r] THEN "moved"
                                     ELSE IF at[w].carried # 0 THEN "probe" ELSE BeforeCreate(w)]
  /\ UNCHANGED <<attemptKeeps, run, row>>

(* The job raises before it opened its run, or ends with a report of its   *)
(* own on the row's run: nothing linked, switched off, no answer.          *)
RaiseEarly(w) ==
  /\ at[w].pc = "start" /\ Fault /\ Go(w, "raised")
  /\ UNCHANGED <<attemptKeeps, run, row>>

ReportWithoutRunning(w) ==
  /\ at[w].pc = "start" /\ Fault /\ Go(w, "finish")
  /\ run' = IF at[w].carried # 0 THEN Ended(at[w].carried, "neutral")
            ELSE Append(run, [head |-> Ref[at[w].r], status |-> "neutral"])
  /\ UNCHANGED <<attemptKeeps, row>>

(* The head moved: the row's own run is completed by id ... *)
Moved(w) ==
  /\ at[w].pc = "moved" /\ Go(w, "list")
  /\ \/ /\ run' = IF at[w].carried # 0 THEN Ended(at[w].carried, "neutral") ELSE run
        /\ UNCHANGED faults
     \/ at[w].carried # 0 /\ Refuse("moved") /\ UNCHANGED run
  /\ UNCHANGED <<attemptKeeps, row>>

(* ... and complete_stale_check_runs lists what is open on a head: on the  *)
(* one that was left, then, for a retry, on the one to be reported on.     *)
StaleHead(w) == IF at[w].moved THEN Ref[at[w].r] ELSE at[w].head

List(w) ==
  /\ at[w].pc = "list"
  /\ at' = [at EXCEPT ![w].pc = "stale",
                      ![w].todo = {i \in DOMAIN run : Open(i) /\ run[i].head = StaleHead(w)}]
  /\ UNCHANGED <<attemptKeeps, run, row, faults>>

(* The listed runs are completed one by one, without another look. *)
Stale(w, i) ==
  /\ at[w].pc = "stale" /\ i \in at[w].todo
  /\ \/ /\ run' = Ended(i, IF at[w].moved THEN "neutral" ELSE "cancelled")
        /\ UNCHANGED faults
     \/ Refuse("stale") /\ UNCHANGED run
  /\ at' = [at EXCEPT ![w].todo = @ \ {i}]
  /\ UNCHANGED <<attemptKeeps, row>>

Listed(w) ==
  /\ at[w].pc = "stale" /\ at[w].todo = {}
  /\ at' = [at EXCEPT ![w].pc = IF at[w].moved THEN BeforeCreate(w) ELSE "create",
                      ![w].moved = FALSE]
  /\ UNCHANGED <<attemptKeeps, run, row, faults>>

(* open_check_run asks for the status of the run the row carries. *)
Probe(w) ==
  /\ at[w].pc = "probe"
  /\ \/ Go(w, IF Open(at[w].carried) THEN "startrun" ELSE BeforeCreate(w)) /\ UNCHANGED faults
     \/ Refuse("probe") /\ Go(w, "abandon")
  /\ UNCHANGED <<attemptKeeps, run, row>>

(* Its state could not be read: it is completed, if that can be done. *)
Abandon(w) ==
  /\ at[w].pc = "abandon" /\ Go(w, BeforeCreate(w))
  /\ \/ run' = EndedIfOpen(at[w].carried, "cancelled") /\ UNCHANGED faults
     \/ Refuse("abandon") /\ UNCHANGED run
  /\ UNCHANGED <<attemptKeeps, row>>

(* The PATCH to in_progress is not guarded by what the probe saw. *)
StartRun(w) ==
  /\ at[w].pc = "startrun"
  /\ \/ /\ run' = Ended(at[w].carried, "open")
        /\ at' = [at EXCEPT ![w].own = at[w].carried, ![w].pc = "record"]
        /\ UNCHANGED faults
     \/ Refuse("startrun") /\ Go(w, "raised") /\ UNCHANGED run
  /\ UNCHANGED <<attemptKeeps, row>>

CreateOwn(w) ==
  /\ at[w].pc = "create"
  /\ \/ /\ run' = Opened(at[w].head)
        /\ at' = [at EXCEPT ![w].own = Len(run) + 1, ![w].pc = "record"]
        /\ UNCHANGED faults
     \/ Refuse("create") /\ Go(w, "raised") /\ UNCHANGED run
  /\ UNCHANGED <<attemptKeeps, row>>

(* record_check_run writes by row id, whoever has the row; then the        *)
(* canceller learns of the run.                                            *)
Record(w) ==
  /\ at[w].pc = "record" /\ Go(w, "review")
  /\ row' = [row EXCEPT ![at[w].r].run = at[w].own]
  /\ UNCHANGED <<attemptKeeps, run, faults>>

-----------------------------------------------------------------------------
(* An attempt: the review and its end                                      *)

(* `codna review --post` completes the run with its findings. *)
Post(w) ==
  /\ at[w].pc = "review" /\ ~at[w].stopped /\ Go(w, "posted")
  /\ run' = Ended(at[w].own, "verdict")
  /\ UNCHANGED <<attemptKeeps, row, faults>>

(* The process returns; the head is read again. *)
Return(w) ==
  /\ at[w].pc \in {"review", "posted"}
  /\ at' = [at EXCEPT ![w].pc = IF at[w].stopped THEN "unwind"
                                ELSE IF at[w].pc = "posted" THEN "finish" ELSE "report",
                      ![w].next = IF at[w].stopped \/ tip = at[w].head THEN 0 ELSE tip]
  /\ UNCHANGED <<attemptKeeps, run, row, faults>>

Report(w) ==
  /\ at[w].pc = "report"
  /\ \/ run' = Ended(at[w].own, "verdict") /\ Go(w, "finish") /\ UNCHANGED faults
     \/ Refuse("report") /\ Go(w, "raised") /\ UNCHANGED run
  /\ UNCHANGED <<attemptKeeps, row>>

(* A canceller that is first to finalize has written the row. *)
Finish(w) ==
  /\ at[w].pc = "finish"
  /\ IF at[w].final
       THEN Left(w) /\ UNCHANGED <<row, faults>>
       ELSE /\ \E status \in {"done"} \cup Failing(at[w].r) :
                 /\ IF status = "done" THEN UNCHANGED faults ELSE Fault
                 /\ row' = Completed(at[w].r, status)
            /\ IF at[w].next = 0 THEN Left(w)
               ELSE at' = [at EXCEPT ![w].final = TRUE, ![w].pc = "requeue"]
  /\ UNCHANGED <<attemptKeeps, run>>

RequeueMoved(w) ==
  /\ at[w].pc = "requeue" /\ Left(w)
  /\ Requeue(at[w].next)
  /\ UNCHANGED <<attemptKeeps, run, faults>>

(* The job raised: the row fails, and the run it was claimed with is       *)
(* completed if that was for good.                                         *)
Raised(w) ==
  /\ at[w].pc = "raised"
  /\ IF at[w].final THEN UNCHANGED row
     ELSE \E status \in Failing(at[w].r) : row' = Completed(at[w].r, status)
  /\ at' = [at EXCEPT ![w].final = TRUE, ![w].pc = "unreported"]
  /\ UNCHANGED <<attemptKeeps, run, faults>>

Unreported(w) ==
  /\ at[w].pc = "unreported" /\ Left(w)
  /\ \/ /\ run' = IF row[at[w].r].status = "failed"
                    THEN EndedIfOpen(at[w].carried, "failure") ELSE run
        /\ UNCHANGED faults
     \/ Refuse("unreported") /\ UNCHANGED run
  /\ UNCHANGED <<attemptKeeps, row>>

-----------------------------------------------------------------------------
(* A stopped attempt                                                       *)

(* The keeper's heartbeat learns of the request and kills the process. *)
Stop(w) ==
  /\ at[w].pc \in Stops /\ ~at[w].stopped /\ row[at[w].r].stop
  /\ row[at[w].r].status = "running"
  /\ at' = [at EXCEPT ![w].stopped = TRUE, ![w].settle = "close"]
  /\ UNCHANGED <<attemptKeeps, run, row, faults>>

(* What the canceller's handle knows: nothing until the run is attached. *)
Attached(w) == IF at[w].pc = "record" THEN 0 ELSE at[w].own

Settled(w) == [at EXCEPT ![w] = IF @.pc = "idle" THEN Idle ELSE [@ EXCEPT !.settle = "none"]]

(* close_check_run: an open run is completed.  Nothing attached counts as  *)
(* closed, a run somebody else completed does not.                         *)
SettleClose(w) ==
  /\ at[w].settle = "close"
  /\ \/ /\ run' = EndedIfOpen(Attached(w), "neutral")
        /\ at' = IF Attached(w) = 0 \/ Open(Attached(w))
                   THEN [at EXCEPT ![w].closed = TRUE, ![w].settle = "write"]
                 ELSE Settled(w)
        /\ UNCHANGED faults
     \/ /\ Attached(w) # 0 /\ Refuse("settle")
        /\ at' = Settled(w)
        /\ UNCHANGED run
  /\ UNCHANGED <<attemptKeeps, row>>

SettleWrite(w) ==
  /\ at[w].settle = "write"
  /\ at' = [Settled(w) EXCEPT ![w].final = at[w].pc # "idle"]
  /\ row' = IF at[w].final THEN row ELSE Completed(at[w].r, "done")
  /\ UNCHANGED <<attemptKeeps, run, faults>>

(* The worker closes the run itself unless that is confirmed. *)
Unwind(w) ==
  /\ at[w].pc = "unwind"
  /\ \/ /\ run' = IF at[w].closed THEN run ELSE EndedIfOpen(at[w].own, "neutral")
        /\ at' = [at EXCEPT ![w].pc = "leave", ![w].closed = @ \/ Open(at[w].own)]
        /\ UNCHANGED faults
     \/ ~at[w].closed /\ Refuse("unwind") /\ Go(w, "leave") /\ UNCHANGED run
  /\ UNCHANGED <<attemptKeeps, row>>

(* No terminal row before the run is known to be closed. *)
Leave(w) ==
  /\ at[w].pc = "leave" /\ Left(w)
  /\ row' = IF at[w].final THEN row
            ELSE Completed(at[w].r, IF at[w].closed THEN "done" ELSE "left")
  /\ UNCHANGED <<attemptKeeps, run, faults>>

(* The process dies with its canceller; the row is left to the reaper. *)
Die(w) ==
  /\ at[w].pc \in Dies /\ Fault
  /\ at' = [at EXCEPT ![w] = Idle]
  /\ UNCHANGED <<attemptKeeps, run, row>>

-----------------------------------------------------------------------------
(* The reaper *)

reaperKeeps == <<scenario, tip, req, at, sweep, operated>>

Lapsed(r) == /\ row[r].status = "running" /\ Looked(r)
             /\ \A w \in Worker : at[w].pc = "idle" \/ at[w].r # r

Reaped(r, status) == row' = [row EXCEPT ![r].status = status]

Take(r, pc, end, next) ==
  reaper' = [pc |-> pc, r |-> r, run |-> row[r].run, end |-> end, next |-> next]

(* A row asked to stop is cancelled, one interrupted before dead; the row  *)
(* of a left head is cancelled and the head queued; any other row starts   *)
(* over and forgets its run.                                               *)
Reap(r) ==
  /\ reaper.pc = "idle" /\ Lapsed(r)
  /\ IF row[r].stop \/ row[r].resumed
       THEN /\ Reaped(r, IF row[r].stop THEN "cancelled" ELSE "dead")
            /\ Take(r, "close", "cancelled", 0)
            /\ UNCHANGED faults
     ELSE \E h \in {tip, Ref[r]} :
       /\ IF h = tip THEN UNCHANGED faults ELSE Refuse("lookup")
       /\ IF h # Ref[r] THEN Reaped(r, "cancelled") /\ Take(r, "close", "cancelled", h)
          ELSE /\ row' = [row EXCEPT ![r] = [@ EXCEPT !.status = "queued", !.run = 0,
                                                     !.resumed = TRUE]]
               /\ Take(r, "close", "cancelled", 0)
  /\ UNCHANGED <<reaperKeeps, run>>

ReaperClose ==
  /\ reaper.pc = "close"
  /\ \/ run' = EndedIfOpen(reaper.run, reaper.end) /\ UNCHANGED faults
     \/ Refuse("reaper") /\ UNCHANGED run
  /\ reaper' = IF reaper.next = 0 THEN Resting ELSE [reaper EXCEPT !.pc = "requeue"]
  /\ UNCHANGED <<reaperKeeps, row>>

ReaperRequeue ==
  /\ reaper.pc = "requeue" /\ reaper' = Resting
  /\ Requeue(reaper.next)
  /\ UNCHANGED <<reaperKeeps, run, faults>>

(* A dead letter is marked as told, then told on the row's run, whatever   *)
(* that says, or on a new one.                                             *)
MarkDead(r) ==
  /\ reaper.pc = "idle" /\ row[r].status = "dead" /\ ~row[r].told
  /\ row' = [row EXCEPT ![r].told = TRUE]
  /\ Take(r, "tell", "notice", 0)
  /\ UNCHANGED <<reaperKeeps, run, faults>>

Tell ==
  /\ reaper.pc = "tell" /\ reaper' = Resting
  /\ \/ /\ run' = IF reaper.run # 0 THEN Ended(reaper.run, reaper.end)
                  ELSE Append(run, [head |-> Ref[reaper.r], status |-> reaper.end])
        /\ row' = IF reaper.run # 0 THEN row
                  ELSE [row EXCEPT ![reaper.r].run = Len(run) + 1]
        /\ UNCHANGED faults
     \/ Refuse("tell") /\ UNCHANGED <<run, row>>
  /\ UNCHANGED reaperKeeps

-----------------------------------------------------------------------------
(* settle_retired, by the ingress after an insert and by the reaper        *)

sweepKeeps == <<scenario, tip, req, at, reaper, operated>>

RetiredEndUnmapped(r) == row[r].status
RetiredEnd(r) == CASE row[r].status = "superseded" -> "neutral"
                   [] row[r].status = "failed" -> "failure"
                   [] OTHER -> "cancelled"

SweepRead(s, r) ==
  /\ sweep[s].pc = "idle"
  /\ row[r].status \in Retired /\ row[r].run # 0 /\ ~row[r].swept
  /\ sweep' = [sweep EXCEPT ![s] = [Resting EXCEPT !.pc = "close", !.r = r,
                                                   !.run = row[r].run, !.end = RetiredEnd(r)]]
  /\ UNCHANGED <<sweepKeeps, run, row, faults>>

(* Confirmed when this call completed the run or a read finds it so. *)
SweepClose(s) ==
  /\ sweep[s].pc = "close"
  /\ \/ /\ run' = EndedIfOpen(sweep[s].run, sweep[s].end)
        /\ sweep' = [sweep EXCEPT ![s].pc = "mark"]
        /\ UNCHANGED faults
     \/ Refuse("sweep") /\ sweep' = [sweep EXCEPT ![s] = Resting] /\ UNCHANGED run
  /\ UNCHANGED <<sweepKeeps, row>>

SweepMark(s) ==
  /\ sweep[s].pc = "mark"
  /\ row' = [row EXCEPT ![sweep[s].r].swept = TRUE]
  /\ sweep' = [sweep EXCEPT ![s] = Resting]
  /\ UNCHANGED <<sweepKeeps, run, faults>>

-----------------------------------------------------------------------------
(* The specification *)

Init ==
  /\ scenario \in Scenarios
  /\ tip = 1 /\ run = <<>> /\ faults = 0 /\ operated = 0
  /\ row = [r \in Row |-> NoRow] /\ req = [q \in Request |-> NoReq]
  /\ at = [w \in Worker |-> Idle] /\ reaper = Resting
  /\ sweep = [s \in Sweeper |-> Resting]

RequestStep(q) ==
  \/ Create(q) \/ CreateLate(q) \/ LateAnswer(q) \/ Insert(q) \/ Bind(q) \/ Adopt(q)
  \/ CloseOrphan(q)

AttemptStep(w) ==
  \/ \E r \in Row : Claim(w, r)
  \/ ReadHead(w) \/ RaiseEarly(w) \/ ReportWithoutRunning(w) \/ Moved(w) \/ List(w)
  \/ \E i \in at[w].todo : Stale(w, i)
  \/ Listed(w) \/ Probe(w) \/ Abandon(w) \/ StartRun(w) \/ CreateOwn(w) \/ Record(w)
  \/ Post(w) \/ Return(w) \/ Report(w) \/ Finish(w) \/ RequeueMoved(w) \/ Raised(w)
  \/ Unreported(w) \/ Unwind(w) \/ Leave(w)

SettleStep(w) == SettleClose(w) \/ SettleWrite(w)

ReaperStep == (\E r \in Row : Reap(r) \/ MarkDead(r)) \/ ReaperClose \/ ReaperRequeue \/ Tell

SweepStep(s) == (\E r \in Row : SweepRead(s, r)) \/ SweepClose(s) \/ SweepMark(s)

Next ==
  \/ Push
  \/ \E r \in Row : Cancel(r) \/ RetryNow(r)
  \/ \E q \in Request : Receive(q) \/ RequestStep(q)
  \/ \E w \in Worker : AttemptStep(w) \/ Stop(w) \/ SettleStep(w) \/ Die(w)
  \/ ReaperStep
  \/ \E s \in Sweeper : SweepStep(s)

Spec == Init /\ [][Next]_vars

(* Threads go on and the reaper ticks; nothing is owed by the users, by    *)
(* GitHub's deliveries or by a failing process.                            *)
FairSpec ==
  /\ Spec
  /\ \A q \in Request : WF_vars(RequestStep(q))
  /\ \A w \in Worker : WF_vars(AttemptStep(w)) /\ WF_vars(Stop(w)) /\ WF_vars(SettleStep(w))
  /\ WF_vars(ReaperStep)
  /\ \A s \in Sweeper : WF_vars(SweepStep(s))

-----------------------------------------------------------------------------
(* Properties *)

RunId == Nat
RunRecord == [head : 1..Heads, status : {"open"} \cup End]
RowRecord == [status : Status, run : RunId, tries : 0..Budget, resumed : BOOLEAN,
              stop : BOOLEAN, swept : BOOLEAN, told : BOOLEAN]
ReqRecord == [pc : {"none", "create", "insert", "bind", "adopt", "orphan", "over"},
              d : Delivery \cup {None}, run : RunId, late : {"no", "asked", "made"},
              fresh : BOOLEAN]
AttemptRecord == [pc : Point \cup {"idle"}, r : Row \cup {None}, carried : RunId,
                  retry : BOOLEAN, head : 0..Heads, own : RunId, moved : BOOLEAN,
                  todo : SUBSET RunId, next : 0..Heads, stopped : BOOLEAN,
                  closed : BOOLEAN, final : BOOLEAN, settle : {"none", "close", "write"}]
HandRecord == [pc : {"idle", "close", "mark", "requeue", "tell"}, r : Row \cup {None},
               run : RunId, end : End \cup {"none"}, next : 0..Heads]

(* Every thread, row and run is well formed, and what they hold exists.    *)
TypeOK ==
  /\ scenario \in Scenarios /\ tip \in 1..Heads
  /\ faults \in 0..scenario.faults /\ operated \in 0..scenario.operator
  /\ run \in Seq(RunRecord) /\ row \in [Row -> RowRecord] /\ req \in [Request -> ReqRecord]
  /\ at \in [Worker -> AttemptRecord] /\ reaper \in HandRecord /\ sweep \in [Sweeper -> HandRecord]
  /\ \A r \in Row : row[r].run <= Len(run)
  /\ \A w \in Worker : at[w].carried <= Len(run) /\ at[w].own <= Len(run)
  /\ reaper.pc # "mark" /\ \A s \in Sweeper : sweep[s].pc \in {"idle", "close", "mark"}

(* Who may still complete a run. *)
HeldByRequest(i) == \E q \in Request : req[q].run = i /\ req[q].pc # "over"
HeldByAttempt(i) ==
  \E w \in Worker : /\ at[w].pc \notin {"idle", "requeue", "finish"}
                    /\ i \in {at[w].own, at[w].carried} \cup at[w].todo
HeldByRow(i) ==
  \E r \in Row : /\ row[r].run = i
                 /\ \/ row[r].status \in {"queued", "running"}
                    \/ row[r].status \in Retired /\ ~row[r].swept
                    \/ row[r].status = "dead" /\ ~row[r].told
HeldInHand(i) == reaper.run = i \/ \E s \in Sweeper : sweep[s].run = i

(* A run that is open is somebody's to complete: a request's, a waiting or *)
(* running row's, an attempt's, or that of an ended row which the sweep or *)
(* the dead-letter notice has yet to reach ("no path leaves a run open",   *)
(* webhook_queued_check).                                                  *)
NoRunForgotten ==
  \A i \in DOMAIN run :
    Open(i) => HeldByRequest(i) \/ HeldByAttempt(i) \/ HeldByRow(i) \/ HeldInHand(i)

(* NoRunForgotten holds while GitHub answers the calls that nobody makes   *)
(* again or makes up for, no process dies between a create and its record, *)
(* a stop finds the run attached, and no operator retries a row in hand.   *)
TriedOnce == {"moved", "abandon", "unwind", "orphan", "reaper", "tell"}
Forgiving ==
  /\ Refused \cap TriedOnce = {} /\ "record" \notin Dies /\ ~Hasty
  /\ Stops \subseteq {"review", "posted", "report", "finish"}

(* A row interrupted in its last attempt is queued, and nobody claims it.  *)
Stranded(i) == \E r \in Row : row[r].run = i /\ row[r].status = "queued" /\ row[r].tries = Budget

(* However its job went, every Check Run the service opened is completed   *)
(* in the end: there is always a later moment with none open, so that a    *)
(* required check does not stay in_progress on its commit.  The run of a   *)
(* stranded row is the exception.                                          *)
EveryRunEnds == []<>(\A i \in DOMAIN run : ~Open(i) \/ Stranded(i))

(* What the review has said stays on its run: no orphan's close, canceller,*)
(* sweep or reaped attempt replaces it.  Only these do: the row's own next *)
(* attempt before it has a run, its dead-letter notice, and a retry that   *)
(* listed the run while it was open (complete_stale_check_runs does not    *)
(* look again).                                                            *)
VerdictStays ==
  [][\A i \in DOMAIN run :
       run[i].status = "verdict" /\ run'[i].status # "verdict" =>
         \/ \E w \in Worker : at[w].pc \in {"start", "moved"} /\ at[w].carried = i
         \/ \E w \in Worker : at[w].pc = "stale" /\ i \in at[w].todo
         \/ reaper.pc = "tell" /\ reaper.run = i]_run
=============================================================================
