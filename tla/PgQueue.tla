------------------------------ MODULE PgQueue -------------------------------
(***************************************************************************)
(* The Postgres job queue of the webhook service: the shared table, the    *)
(* worker processes that claim from it under a lease, the leases' keeper   *)
(* threads, the reaper, the boot recovery and the operator's verbs.        *)
(*                                                                         *)
(* One action per transaction or per step that another thread can observe. *)
(* Postgres serialises each transaction, so a transaction is one step;     *)
(* whatever a thread read in one transaction and uses in a later one is    *)
(* kept in that thread's own state (a worker's attempt, a keeper, a        *)
(* reaper's snapshot).  A lease expires at any moment: time is only the    *)
(* boolean "lapsed".  The hold of a retry (not_before) and the order of    *)
(* the claim (class, aging, weight) only choose among runnable rows, so    *)
(* here any runnable row may be claimed.  The 24 hour windows of the two   *)
(* dedup rules never close within a behaviour.  The start of a lease and   *)
(* the registration of the attempt under it are one step, a reaper keeps   *)
(* one row of each list it reads, and a pull request never goes back to an *)
(* older head.  A boot finds none of its rows locked by another            *)
(* transaction.  Check Runs are left out.                                  *)
(***************************************************************************)
EXTENDS Integers, FiniteSets

CONSTANTS
  Row,        \* delivery ids: the rows the table may ever hold
  Webhook,    \* the rows GitHub delivers; the others are queued by the service
  Job,        \* [Row -> [kind, pr, ref, tenant, ci]]
  ReaperRow,  \* [Row \X Ref -> Row \cup {None}]: delivery id reaper-<row>-<head>
  MovedRow,   \* [Row \X Ref -> Row \cup {None}]: delivery id head-moved-<row>-<head>
  Pull,       \* pull requests
  MaxRef,     \* heads of a pull request are 1..MaxRef, pushed in this order
  Tenant, Cap,\* installations and their concurrency caps
  Machine, Thread, MachineOf,  \* worker machines and their claiming threads
  Serving,    \* machines of role "all", which also take deliveries
  Reaper,     \* processes that may run a reaper tick (one leads, a deposed one may linger)
  Budget,     \* [Kind -> attempts]
  Env,        \* the environment events this instance allows
  MaxRevive,  \* bound: operator or outage retries of one row
  MaxCrash,   \* bound: machine crashes in a behaviour
  None

Kind == {"review", "fix", "secure", "queue"}
Supersedable == {"review", "fix"}
NoRef == 0
Ref == 1..MaxRef
MaxResumes == 1
Event == {"reorder",       \* deliveries of a pull request's heads arrive out of order
          "stall",         \* a live process fails to renew, or start, a lease for a whole lease
          "lookup_error",  \* GitHub does not answer a head lookup
          "db_error",      \* the transaction of a completion fails
          "deadline",      \* a job outlives its deadline
          "notice_error",  \* no token, or GitHub takes no notice of a dead letter
          "cancel", "retry_now", "pause", "drain",  \* what an operator asks
          "outage",        \* the dead rows' text names an outage
          "failover"}      \* the reaper's process dies in the middle of a tick

ASSUME PgConstants ==
  /\ Webhook \subseteq Row
  /\ Job \in [Row -> [kind : Kind, pr : Pull \cup {None}, ref : Ref \cup {NoRef},
                      tenant : Tenant, ci : BOOLEAN]]
  /\ ReaperRow \in [Row \X Ref -> Row \cup {None}]
  /\ MovedRow \in [Row \X Ref -> Row \cup {None}]
  /\ MaxRef \in Nat \ {0}
  /\ Cap \in [Tenant -> Nat \ {0}]
  /\ MachineOf \in [Thread -> Machine]
  /\ Serving \subseteq Machine
  /\ Budget \in [Kind -> Nat \ {0}]
  /\ Env \subseteq Event
  /\ IsFiniteSet(Reaper)
  /\ MaxRevive \in Nat /\ MaxCrash \in Nat
  /\ None \notin Row /\ None \notin Thread /\ None \notin Pull
  /\ None \notin Kind \X Pull \X Ref

VARIABLES
  row,        \* the jobs table
  paused,     \* tenants an operator has paused
  head,       \* GitHub: the current head of each pull request
  delivered,  \* GitHub: deliveries that have reached the ingress
  ciClear,    \* CI-failure deliveries past the 24 h check, not yet inserted
  reviewed,   \* GitHub: <<pull request, ref>> pairs with a posted review verdict
  machine,    \* [Machine -> {"up", "draining", "leaving", "down"}]
  crashes,    \* crashes so far
  superseding,\* <<machine, delivery>>: inserted, the running attempts not yet looked at
  work,       \* [Thread -> what the thread is doing]
  held,       \* PostgresQueue._leases of every process: one lease per row and process
  keeper,     \* leases whose keeper thread still beats
  handle,     \* JobControl._jobs of every process: <<row, thread>>
  settling,   \* cancellers that won finalize() and have yet to write the row
  snap        \* [Reaper -> what the reaper has read and not yet acted on]

github == <<head, delivered, ciClear, reviewed>>
process == <<work, held, keeper, handle, settling>>
fleet == <<machine, crashes, superseding>>
vars == <<row, paused, github, fleet, process, snap>>

Live == {"queued", "running"}
Ended == {"done", "failed", "superseded", "cancelled", "dead"}
Retryable == {"dead", "failed", "cancelled", "queued"}

BlankRow == [status |-> "none", attempts |-> 0, resumes |-> 0, owner |-> None,
             claims |-> 0, lapsed |-> FALSE, cancel |-> FALSE, posted |-> {},
             told |-> 0, revived |-> 0]
Idle == [pc |-> "idle", row |-> None, claim |-> 0, target |-> NoRef,
         cancelled |-> FALSE, finalized |-> FALSE]
(* A thread that has passed the draining test and has yet to claim. *)
Claiming == [Idle EXCEPT !.pc = "claiming"]
NoSnap == [pc |-> "none", row |-> None, cancel |-> FALSE, resumes |-> 0, to |-> NoRef]

-----------------------------------------------------------------------------
(* Rows and heads *)

SamePull(r, x) == Job[r].pr # None /\ Job[r].pr = Job[x].pr
SameHead(r, x) == /\ Job[r].kind = Job[x].kind
                  /\ Job[r].pr = Job[x].pr
                  /\ Job[r].ref = Job[x].ref

(* Rows the unique index jobs_one_live_head speaks of. *)
Indexed(r) == Job[r].kind \in Supersedable /\ Job[r].pr # None /\ Job[r].ref # NoRef

IndexFree(r) == \A x \in Row \ {r} :
                  Indexed(r) /\ SameHead(r, x) => row[x].status \notin Live

(* The head already has a job that waits, runs or came to a verdict. *)
Covered(r) == /\ Job[r].ref # NoRef
              /\ \E x \in Row : SameHead(r, x) /\ row[x].status \in Live \cup {"done"}

(* x is a review or fix of another head of r's pull request. *)
OtherHead(r, x) == /\ Job[r].kind \in Supersedable /\ Job[x].kind \in Supersedable
                   /\ SamePull(r, x)
                   /\ Job[r].ref # NoRef /\ Job[x].ref \notin {NoRef, Job[r].ref}

(* Mutant of InsertedRow: the running rows of the other heads are retired  *)
(* at once, under the feet of their workers.                               *)
InsertedRowRetiringAll(r) ==
  [x \in Row |->
     IF x = r THEN [row[x] EXCEPT !.status = "queued"]
     ELSE IF OtherHead(r, x) /\ row[x].status \in Live
       THEN [row[x] EXCEPT !.status = "superseded"]
     ELSE row[x]]

(* The insert's transaction: the waiting rows of the other heads are       *)
(* retired and the running ones are asked to stop.                         *)
InsertedRow(r) ==
  [x \in Row |->
     IF x = r THEN [row[x] EXCEPT !.status = "queued"]
     ELSE IF OtherHead(r, x) /\ row[x].status = "queued"
       THEN [row[x] EXCEPT !.status = "superseded"]
     ELSE IF OtherHead(r, x) /\ row[x].status = "running"
       THEN [row[x] EXCEPT !.cancel = TRUE]
     ELSE row[x]]

Enqueue(r, unlessPending) ==
  row' = IF /\ row[r].status = "none"
            /\ IndexFree(r)
            /\ unlessPending => ~Covered(r)
         THEN InsertedRow(r) ELSE row

(* Mutant of TenantLoad: waiting rows count against the tenant's cap. *)
TenantLoadWaiting(k) == Cardinality({x \in Row : row[x].status \in Live /\ Job[x].tenant = k})

TenantLoad(k) == Cardinality({x \in Row : row[x].status = "running" /\ Job[x].tenant = k})

(* Mutant of Runnable: the claim forgets the attempt budget. *)
RunnableUnbudgeted(r) == /\ row[r].status = "queued"
                         /\ Job[r].tenant \notin paused
                         /\ TenantLoad(Job[r].tenant) < Cap[Job[r].tenant]

Runnable(r) == /\ row[r].status = "queued"
               /\ row[r].attempts < Budget[Job[r].kind]
               /\ Job[r].tenant \notin paused
               /\ TenantLoad(Job[r].tenant) < Cap[Job[r].tenant]

-----------------------------------------------------------------------------
(* GitHub and the ingress *)

Push(p) ==
  /\ head[p] < MaxRef
  /\ head' = [head EXCEPT ![p] = @ + 1]
  /\ UNCHANGED <<row, paused, delivered, ciClear, reviewed, fleet, process, snap>>

(* The delivery exists once its head has been pushed. *)
Sent(d) == Job[d].pr # None => Job[d].ref <= head[Job[d].pr]

Earlier(d) == {x \in Webhook : SamePull(x, d) /\ Job[x].ref < Job[d].ref}

InOrder(d) == "reorder" \in Env \/ Earlier(d) \subseteq delivered

HadCiFix(d) == \E x \in Row : /\ row[x].status # "none" /\ Job[x].ci
                             /\ Job[x].pr = Job[d].pr /\ Job[x].ref = Job[d].ref

(* A CI-failure fix is looked up in a statement of its own, before the     *)
(* insert's transaction; a head that had one is answered "duplicate".      *)
CheckCiFix(d) ==
  /\ Job[d].ci /\ Sent(d) /\ InOrder(d) /\ d \notin ciClear
  /\ IF HadCiFix(d) THEN delivered' = delivered \cup {d} /\ UNCHANGED ciClear
     ELSE ciClear' = ciClear \cup {d} /\ UNCHANGED delivered
  /\ UNCHANGED <<row, paused, head, reviewed, fleet, process, snap>>

(* A delivery, or a redelivery, reaches the ingress: a process of its own, *)
(* with no attempts, or one that also works.                               *)
Deliver(d) ==
  /\ Sent(d) /\ InOrder(d) /\ (Job[d].ci => d \in ciClear)
  /\ Enqueue(d, FALSE)
  /\ delivered' = delivered \cup {d}
  /\ ciClear' = ciClear \ {d}
  /\ \/ UNCHANGED superseding
     \/ \E m \in Serving : /\ row' # row /\ machine[m] # "down"
                          /\ superseding' = superseding \cup {<<m, d>>}
  /\ UNCHANGED <<paused, head, reviewed, machine, crashes, process, snap>>

-----------------------------------------------------------------------------
(* Claim, lease and heartbeat *)

LeaseOf(t) == [row |-> work[t].row, thread |-> t, claim |-> work[t].claim]
HeldFor(m, r) == {l \in held : l.row = r /\ MachineOf[l.thread] = m}
HandlesFor(m, r) == {h \in handle : h[1] = r /\ MachineOf[h[2]] = m}

(* The head a review reads as it starts; a failed lookup leaves the        *)
(* event's.                                                                *)
HeadsRead(r) ==
  IF Job[r].kind = "review" /\ Job[r].pr # None
  THEN {head[Job[r].pr]} \cup (IF "lookup_error" \in Env THEN {Job[r].ref} ELSE {})
  ELSE {Job[r].ref}

ClaimedRow(x, t) ==
  [x EXCEPT !.status = "running", !.attempts = @ + 1, !.owner = t, !.lapsed = FALSE,
            !.cancel = FALSE, !.claims = @ + 1]

(* The claim's transaction. A thread tests the draining flag before it,    *)
(* and nothing tests the flag again.                                       *)
Claim(t, r) ==
  /\ \/ work[t].pc = "idle" /\ machine[MachineOf[t]] = "up"
     \/ work[t].pc = "claiming"
  /\ Runnable(r)
  /\ row' = [row EXCEPT ![r] = ClaimedRow(row[r], t)]
  /\ work' = [work EXCEPT ![t] = [Idle EXCEPT !.pc = "claimed", !.row = r,
                                     !.claim = row[r].claims + 1]]
  /\ UNCHANGED <<paused, github, fleet, held, keeper, handle, settling, snap>>

(* A late claim finds nothing that is due. *)
ClaimNothing(t) ==
  /\ work[t].pc = "claiming"
  /\ work' = [work EXCEPT ![t] = Idle]
  /\ UNCHANGED <<row, paused, github, fleet, held, keeper, handle, settling, snap>>

(* Once the claim is committed, its thread enters the lease into the       *)
(* process's table, over whatever lease the row has there, starts its      *)
(* keeper, registers the attempt and reads the head to work on.            *)
Begin(t) ==
  LET m == MachineOf[t]
      r == work[t].row
  IN /\ work[t].pc = "claimed"
     /\ held' = (held \ HeldFor(m, r)) \cup {LeaseOf(t)}
     /\ keeper' = keeper \cup {LeaseOf(t)}
     /\ handle' = (handle \ HandlesFor(m, r)) \cup {<<r, t>>}
     /\ \E ref \in HeadsRead(r) :
          work' = [work EXCEPT ![t].pc = "run", ![t].target = ref]
     /\ UNCHANGED <<row, paused, github, fleet, settling, snap>>

(* Mutant of Renewable: the heartbeat does not ask whose the row is. *)
RenewableByAnyone(l) == row[l.row].status = "running" /\ ~row[l.row].cancel

(* What the UPDATE of a heartbeat finds: the row still runs under this     *)
(* owner and nobody has asked it to stop.                                  *)
Renewable(l) == /\ row[l.row].status = "running" /\ row[l.row].owner = l.thread
                /\ ~row[l.row].cancel

Kept(r) == \E l \in keeper : l.row = r /\ Renewable(l)

(* The row's claim is committed and its lease not yet in the table. *)
Starting(r) == \E t \in Thread : /\ work[t].pc = "claimed" /\ work[t].row = r
                                 /\ row[r].owner = t

(* Nothing renewed the lease for lease_s: a stall, a partition, a crash. *)
Lapse(r) ==
  /\ row[r].status = "running" /\ ~row[r].lapsed
  /\ "stall" \in Env \/ ~(Kept(r) \/ Starting(r))
  /\ row' = [row EXCEPT ![r].lapsed = TRUE]
  /\ UNCHANGED <<paused, github, fleet, process, snap>>

Heartbeat(l) ==
  /\ l \in keeper /\ Renewable(l) /\ row[l.row].lapsed
  /\ row' = [row EXCEPT ![l.row].lapsed = FALSE]
  /\ UNCHANGED <<paused, github, fleet, process, snap>>

(* Cancel the registered attempts of these threads. *)
Stop(threads) ==
  work' = [t \in Thread |->
             IF t \in threads /\ work[t].pc = "run" /\ <<work[t].row, t>> \in handle
             THEN [work[t] EXCEPT !.cancelled = TRUE] ELSE work[t]]

ThreadsOf(m) == {t \in Thread : MachineOf[t] = m}

(* The keeper learns that the row is no longer its own, ends, and cancels  *)
(* whatever attempt its process has registered for that row.               *)
LeaseLost(l) ==
  /\ l \in keeper /\ ~Renewable(l)
  /\ keeper' = keeper \ {l}
  /\ Stop({t \in ThreadsOf(MachineOf[l.thread]) : work[t].row = l.row})
  /\ UNCHANGED <<row, paused, github, fleet, held, handle, settling, snap>>

(* The watchdog: the attempt passed the per-job deadline. *)
Overdue(t) ==
  /\ "deadline" \in Env
  /\ work[t].pc = "run" /\ ~work[t].cancelled /\ <<work[t].row, t>> \in handle
  /\ Stop({t})
  /\ UNCHANGED <<row, paused, github, fleet, held, keeper, handle, settling, snap>>

(* The reviews and fixes m runs on another head of d's pull request, by    *)
(* the head each of them works on.                                         *)
SupersededBy(m, d) ==
  {t \in ThreadsOf(m) : /\ work[t].row \in Row
                        /\ Job[work[t].row].kind \in Supersedable
                        /\ SamePull(d, work[t].row)
                        /\ Job[d].ref # NoRef
                        /\ work[t].target \notin {NoRef, Job[d].ref}}

(* The request thread, after its insert, stops them.                       *)
SupersedeRunning(m, d) ==
  /\ <<m, d>> \in superseding
  /\ superseding' = superseding \ {<<m, d>>}
  /\ Stop(SupersededBy(m, d))
  /\ UNCHANGED <<row, paused, github, machine, crashes, held, keeper, handle, settling, snap>>

-----------------------------------------------------------------------------
(* Completion *)

Result == {"done", "failed", "retry"}

(* A row that nobody runs any more. *)
Released(x, status) == [x EXCEPT !.status = status, !.owner = None, !.lapsed = FALSE]

(* An interrupted row goes back to the queue, keeping its spent attempts. *)
ResumedRow(x) == [Released(x, "queued") EXCEPT !.resumes = @ + 1]

Outcome(r, result) ==
  CASE result = "done" -> "done"
    [] result = "failed" -> "failed"
    [] result = "retry" ->
         IF row[r].attempts < Budget[Job[r].kind] THEN "queued" ELSE "dead"

(* Whether the completing process still owns the row. *)
Ours(m, r) ==
  /\ row[r].status = "running"
  /\ IF HeldFor(m, r) # {} THEN \E l \in HeldFor(m, r) : l.thread = row[r].owner
     ELSE row[r].owner # None /\ MachineOf[row[r].owner] = m

(* PostgresQueue.complete drops the process's lease for the row before the *)
(* transaction, which may fail.                                            *)
DropLease(m, r) ==
  /\ held' = held \ HeldFor(m, r)
  /\ keeper' = keeper \ HeldFor(m, r)

Complete(m, r, result) ==
  /\ DropLease(m, r)
  /\ row' = IF Ours(m, r)
            THEN [row EXCEPT ![r] = Released(row[r], Outcome(r, result))] ELSE row

FailComplete(m, r) == "db_error" \in Env /\ DropLease(m, r) /\ UNCHANGED row

(* The worker thread leaves its attempt, dropping the row's handle. *)
Leave(t) ==
  /\ work' = [work EXCEPT ![t] = Idle]
  /\ handle' = handle \ HandlesFor(MachineOf[t], work[t].row)

(* A review's findings are on GitHub before its row is written. *)
Post(t, result) ==
  reviewed' = IF result = "done" /\ Job[work[t].row].kind = "review"
              THEN reviewed \cup {<<Job[work[t].row].pr, work[t].target>>} ELSE reviewed

(* The pull request's head is no longer the one the review read as it      *)
(* started: if the head can be read, its result names that head.           *)
HeadMovedUnder(t) == LET r == work[t].row IN
  Job[r].kind = "review" /\ Job[r].pr # None /\ head[Job[r].pr] # work[t].target

FinishJob(t, result) ==
  /\ work[t].pc = "run" /\ ~work[t].finalized
  /\ Complete(MachineOf[t], work[t].row, result)
  /\ Post(t, result)
  /\ HeadMovedUnder(t) => result # "done" \/ "lookup_error" \in Env
  /\ Leave(t)
  /\ UNCHANGED <<paused, head, delivered, ciClear, fleet, settling, snap>>

FinishMoved(t, result) ==
  /\ work[t].pc = "run" /\ ~work[t].finalized /\ HeadMovedUnder(t)
  /\ Complete(MachineOf[t], work[t].row, result)
  /\ Post(t, result)
  /\ work' = [work EXCEPT ![t] = [Idle EXCEPT !.pc = "moved", !.row = work[t].row,
                                     !.target = head[Job[work[t].row].pr]]]
  /\ UNCHANGED <<paused, head, delivered, ciClear, fleet, handle, settling, snap>>

(* The transaction of complete() fails: the finalize token is spent, so    *)
(* the handler writes nothing either, and the lease is gone.               *)
FinishUnwritten(t, result) ==
  /\ work[t].pc = "run" /\ ~work[t].finalized
  /\ FailComplete(MachineOf[t], work[t].row)
  /\ Post(t, result)
  /\ Leave(t)
  /\ UNCHANGED <<paused, head, delivered, ciClear, fleet, settling, snap>>

(* requeue_moved_head: the head the finished review did not see. *)
RequeueMoved(t) ==
  LET x == MovedRow[<<work[t].row, work[t].target>>]
  IN /\ work[t].pc = "moved"
     /\ IF x \in Row THEN Enqueue(x, TRUE) ELSE UNCHANGED row
     /\ Leave(t)
     /\ UNCHANGED <<paused, github, fleet, held, keeper, settling, snap>>

(* A cancelled attempt unwinds: its Check Run is confirmed closed and the  *)
(* worker writes the row, or it is not and the row is left running.        *)
FinishCancelled(t) ==
  /\ work[t].pc = "run" /\ work[t].cancelled /\ ~work[t].finalized
  /\ \/ Complete(MachineOf[t], work[t].row, "done")
     \/ FailComplete(MachineOf[t], work[t].row)
     \/ UNCHANGED <<row, held, keeper>>
  /\ Leave(t)
  /\ UNCHANGED <<paused, github, fleet, settling, snap>>

(* The canceller owns the row's terminal write. *)
FinishSettled(t) ==
  /\ work[t].pc = "run" /\ work[t].finalized
  /\ Leave(t)
  /\ UNCHANGED <<row, paused, github, fleet, held, keeper, settling, snap>>

(* settle_cancelled: the run is confirmed closed and finalize() is won ... *)
Settle(t) ==
  /\ work[t].pc = "run" /\ work[t].cancelled /\ ~work[t].finalized
  /\ work' = [work EXCEPT ![t].finalized = TRUE]
  /\ settling' = settling \cup {LeaseOf(t)}
  /\ UNCHANGED <<row, paused, github, fleet, held, keeper, handle, snap>>

(* ... and the canceller writes the row. *)
SettleWrite(l) ==
  /\ l \in settling
  /\ \/ Complete(MachineOf[l.thread], l.row, "done")
     \/ FailComplete(MachineOf[l.thread], l.row)
  /\ settling' = settling \ {l}
  /\ UNCHANGED <<paused, github, fleet, work, handle, snap>>

-----------------------------------------------------------------------------
(* Machines *)

Forget(m) ==
  /\ work' = [t \in Thread |-> IF MachineOf[t] = m THEN Idle ELSE work[t]]
  /\ held' = {l \in held : MachineOf[l.thread] # m}
  /\ keeper' = {l \in keeper : MachineOf[l.thread] # m}
  /\ handle' = {h \in handle : MachineOf[h[2]] # m}
  /\ settling' = {l \in settling : MachineOf[l.thread] # m}
  /\ superseding' = {s \in superseding : s[1] # m}
  /\ machine' = [machine EXCEPT ![m] = "down"]

(* The process dies, or is stopped by a deploy with jobs that outlive the  *)
(* grace.                                                                  *)
Crash(m) ==
  /\ machine[m] # "down" /\ crashes < MaxCrash
  /\ crashes' = crashes + 1
  /\ Forget(m)
  /\ UNCHANGED <<row, paused, github, snap>>

(* Mutant of RecoveredRow: a requeued row gets the SQLite file's status. *)
RecoveredRowAsRetry(r) == Released(row[r], "retry")

(* Boot: recover_stale resolves the rows the machine's previous process    *)
(* left running, before anything is claimed.                               *)
RecoveredRow(r) ==
  IF row[r].attempts >= Budget[Job[r].kind] THEN Released(row[r], "failed")
  ELSE IF row[r].resumes >= MaxResumes THEN Released(row[r], "dead")
  ELSE ResumedRow(row[r])

Boot(m) ==
  /\ machine[m] = "down"
  /\ machine' = [machine EXCEPT ![m] = "up"]
  /\ row' = [r \in Row |->
               IF row[r].status = "running" /\ row[r].owner # None /\ MachineOf[row[r].owner] = m
               THEN RecoveredRow(r) ELSE row[r]]
  /\ UNCHANGED <<paused, github, crashes, superseding, process, snap>>

(* The scaler or an operator asks the worker to drain.  It learns it at a  *)
(* beat, when some of its threads may have passed claim()'s test already.  *)
Drain(m) ==
  /\ "drain" \in Env /\ machine[m] = "up"
  /\ machine' = [machine EXCEPT ![m] = "draining"]
  /\ \E late \in SUBSET {t \in ThreadsOf(m) : work[t].pc = "idle"} :
       work' = [t \in Thread |-> IF t \in late THEN Claiming ELSE work[t]]
  /\ UNCHANGED <<row, paused, github, crashes, superseding, held, keeper, handle, settling, snap>>

(* They take it back before the worker has drained. *)
Undrain(m) ==
  /\ machine[m] = "draining"
  /\ machine' = [machine EXCEPT ![m] = "up"]
  /\ UNCHANGED <<row, paused, github, crashes, superseding, process, snap>>

(* Mutant of Drained: the beat does not look at the lease table. *)
DrainedAtOnce(m) ==
  /\ machine[m] = "draining" /\ m \notin Serving
  /\ machine' = [machine EXCEPT ![m] = "leaving"]
  /\ UNCHANGED <<row, paused, github, crashes, superseding, process, snap>>

(* A beat finds the lease table of a draining worker empty: the worker     *)
(* sends itself SIGTERM a second later, well before its next beat could    *)
(* take the drain back. A machine that takes deliveries stays.             *)
Drained(m) ==
  /\ machine[m] = "draining" /\ m \notin Serving
  /\ \A l \in held : MachineOf[l.thread] # m
  /\ machine' = [machine EXCEPT ![m] = "leaving"]
  /\ UNCHANGED <<row, paused, github, crashes, superseding, process, snap>>

(* Its pool joins the threads for the drain grace and leaves those that    *)
(* outlive it: the process ends whatever they are at.                      *)
Exit(m) ==
  /\ machine[m] = "leaving"
  /\ Forget(m)
  /\ UNCHANGED <<row, paused, github, crashes, snap>>

-----------------------------------------------------------------------------
(* The reaper: each phase lists rows, then acts on them one by one *)

FinishRow(r, status) ==
  row' = IF row[r].status = "running"
         THEN [row EXCEPT ![r] = Released(row[r], status)] ELSE row

ReadSnap(p, pc, r) ==
  /\ snap[p] = NoSnap
  /\ snap' = [snap EXCEPT ![p] = [NoSnap EXCEPT !.pc = pc, !.row = r]]

(* Mutant of ReadExpired: rows asked to stop are left to their workers. *)
ReadExpiredUnasked(p, r) ==
  /\ row[r].status = "running" /\ row[r].lapsed /\ ~row[r].cancel
  /\ ReadSnap(p, "expired", r)
  /\ UNCHANGED <<row, paused, github, fleet, process>>

ReadExpired(p, r) ==
  /\ snap[p] = NoSnap /\ row[r].status = "running" /\ row[r].lapsed
  /\ snap' = [snap EXCEPT ![p] = [NoSnap EXCEPT !.pc = "expired", !.row = r,
                                    !.cancel = row[r].cancel, !.resumes = row[r].resumes]]
  /\ UNCHANGED <<row, paused, github, fleet, process>>

Discard(p) == snap' = [snap EXCEPT ![p] = NoSnap]

ReapCancelled(p) ==
  /\ snap[p].pc = "expired" /\ snap[p].cancel
  /\ FinishRow(snap[p].row, "cancelled")
  /\ Discard(p)
  /\ UNCHANGED <<paused, github, fleet, process>>

(* Mutant of ReapDead: the row ends like one that somebody asked to stop. *)
ReapDeadQuietly(p) ==
  /\ snap[p].pc = "expired" /\ ~snap[p].cancel /\ snap[p].resumes >= MaxResumes
  /\ FinishRow(snap[p].row, "cancelled")
  /\ Discard(p)
  /\ UNCHANGED <<paused, github, fleet, process>>

ReapDead(p) ==
  /\ snap[p].pc = "expired" /\ ~snap[p].cancel /\ snap[p].resumes >= MaxResumes
  /\ FinishRow(snap[p].row, "dead")
  /\ Discard(p)
  /\ UNCHANGED <<paused, github, fleet, process>>

HeadMoved(r) == Indexed(r) /\ head[Job[r].pr] # Job[r].ref

(* Mutant of ReapStaleHead: the current head is not queued. *)
ReapStaleHeadOnly(p) ==
  LET r == snap[p].row IN
  /\ snap[p].pc = "expired" /\ ~snap[p].cancel /\ snap[p].resumes < MaxResumes
  /\ HeadMoved(r)
  /\ FinishRow(r, "cancelled")
  /\ Discard(p)
  /\ UNCHANGED <<paused, github, fleet, process>>

ReapStaleHead(p) ==
  LET r == snap[p].row IN
  /\ snap[p].pc = "expired" /\ ~snap[p].cancel /\ snap[p].resumes < MaxResumes
  /\ HeadMoved(r)
  /\ FinishRow(r, "cancelled")
  /\ IF row[r].status = "running" /\ Job[r].kind = "review"
     THEN snap' = [snap EXCEPT ![p] = [NoSnap EXCEPT !.pc = "requeue", !.row = r,
                                         !.to = head[Job[r].pr]]]
     ELSE Discard(p)
  /\ UNCHANGED <<paused, github, fleet, process>>

ReapRequeueHead(p) ==
  LET x == ReaperRow[<<snap[p].row, snap[p].to>>] IN
  /\ snap[p].pc = "requeue"
  /\ IF x \in Row THEN Enqueue(x, TRUE) ELSE UNCHANGED row
  /\ Discard(p)
  /\ UNCHANGED <<paused, github, fleet, process>>

(* requeue_interrupted: the one reaper write that looks at the lease       *)
(* again.                                                                  *)
ReapResume(p) ==
  LET r == snap[p].row IN
  /\ snap[p].pc = "expired" /\ ~snap[p].cancel /\ snap[p].resumes < MaxResumes
  /\ ~HeadMoved(r) \/ "lookup_error" \in Env
  /\ row' = IF row[r].status = "running" /\ row[r].lapsed
            THEN [row EXCEPT ![r] = ResumedRow(row[r])] ELSE row
  /\ Discard(p)
  /\ UNCHANGED <<paused, github, fleet, process>>

(* Mutant of ReadDead: only the jobs that were interrupted are told of. *)
ReadDeadInterrupted(p, r) ==
  /\ row[r].status = "dead" /\ row[r].resumes > 0 /\ "dead_letter" \notin row[r].posted
  /\ ReadSnap(p, "dead", r)
  /\ UNCHANGED <<row, paused, github, fleet, process>>

(* Dead letters: list, mark once, tell. *)
ReadDead(p, r) ==
  /\ row[r].status = "dead" /\ "dead_letter" \notin row[r].posted
  /\ ReadSnap(p, "dead", r)
  /\ UNCHANGED <<row, paused, github, fleet, process>>

(* Mutant of MarkPosted: the key is set again without a look at it. *)
MarkPostedAgain(p, from, key, to) ==
  /\ snap[p].pc = from
  /\ row' = [row EXCEPT ![snap[p].row].posted = @ \cup {key}]
  /\ snap' = [snap EXCEPT ![p].pc = to]
  /\ UNCHANGED <<paused, github, fleet, process>>

MarkPosted(p, from, key, to) ==
  LET r == snap[p].row IN
  /\ snap[p].pc = from
  /\ IF key \in row[r].posted THEN Discard(p) /\ UNCHANGED row
     ELSE /\ row' = [row EXCEPT ![r].posted = @ \cup {key}]
          /\ snap' = [snap EXCEPT ![p].pc = to]
  /\ UNCHANGED <<paused, github, fleet, process>>

MarkDeadLetter(p) == MarkPosted(p, "dead", "dead_letter", "tell")

(* The notice needs a token and GitHub's answer. Without either the tick   *)
(* logs it and goes on: the mark stays and nothing lists the row again.    *)
TellDeadLetter(p) ==
  /\ snap[p].pc = "tell"
  /\ \/ row' = [row EXCEPT ![snap[p].row].told = @ + 1]
     \/ "notice_error" \in Env /\ UNCHANGED row
  /\ Discard(p)
  /\ UNCHANGED <<paused, github, fleet, process>>

(* After an outage: list, mark once, retry. *)
ReadOutage(p, r) ==
  /\ "outage" \in Env
  /\ row[r].status = "dead" /\ "outage_retry" \notin row[r].posted
  /\ ReadSnap(p, "outage", r)
  /\ UNCHANGED <<row, paused, github, fleet, process>>

MarkOutageRetry(p) == MarkPosted(p, "outage", "outage_retry", "retry")

(* Mutant of Revivable: a table without jobs_one_live_head. *)
RevivableUnindexed(r) == row[r].status \in Retryable /\ row[r].revived < MaxRevive

(* retry_now starts the row over; the unique index may refuse it. *)
Revivable(r) == /\ row[r].status \in Retryable /\ IndexFree(r)
                /\ row[r].revived < MaxRevive  \* the bound

RetriedRow(x) ==
  [x EXCEPT !.status = "queued", !.attempts = 0, !.owner = None, !.lapsed = FALSE,
            !.cancel = FALSE, !.posted = @ \ {"dead_letter"}, !.revived = @ + 1]

Retry(r) == row' = IF Revivable(r) THEN [row EXCEPT ![r] = RetriedRow(row[r])] ELSE row

OutageRetry(p) ==
  /\ snap[p].pc = "retry"
  /\ Retry(snap[p].row)
  /\ Discard(p)
  /\ UNCHANGED <<paused, github, fleet, process>>

(* The reaper's process dies, or an exception ends its tick. *)
LoseReaper(p) ==
  /\ "failover" \in Env /\ snap[p] # NoSnap
  /\ Discard(p)
  /\ UNCHANGED <<row, paused, github, fleet, process>>

-----------------------------------------------------------------------------
(* Operators *)

Cancel(r) ==
  /\ "cancel" \in Env
  /\ \/ /\ row[r].status = "queued"
        /\ row' = [row EXCEPT ![r].status = "cancelled"]
     \/ /\ row[r].status = "running"
        /\ row' = [row EXCEPT ![r].cancel = TRUE]
  /\ UNCHANGED <<paused, github, fleet, process, snap>>

RetryNow(r) ==
  /\ "retry_now" \in Env
  /\ Retry(r)
  /\ UNCHANGED <<paused, github, fleet, process, snap>>

SetPaused(k) ==
  /\ "pause" \in Env
  /\ \/ k \notin paused /\ paused' = paused \cup {k}
     \/ k \in paused /\ paused' = paused \ {k}
  /\ UNCHANGED <<row, github, fleet, process, snap>>

-----------------------------------------------------------------------------
Init ==
  /\ row = [r \in Row |-> BlankRow]
  /\ paused = {}
  /\ head = [p \in Pull |-> 1]
  /\ delivered = {} /\ ciClear = {} /\ reviewed = {}
  /\ machine = [m \in Machine |-> "up"]
  /\ crashes = 0 /\ superseding = {}
  /\ work = [t \in Thread |-> Idle]
  /\ held = {} /\ keeper = {} /\ handle = {} /\ settling = {}
  /\ snap = [p \in Reaper |-> NoSnap]

WorkerStep(t) ==
  \/ \E r \in Row : Claim(t, r)
  \/ ClaimNothing(t) \/ Begin(t)
  \/ \E result \in Result :
       FinishJob(t, result) \/ FinishMoved(t, result) \/ FinishUnwritten(t, result)
  \/ RequeueMoved(t) \/ FinishCancelled(t) \/ FinishSettled(t)

LeaseStep ==
  \/ \E r \in Row : Lapse(r)
  \/ \E l \in keeper : Heartbeat(l) \/ LeaseLost(l)
  \/ \E t \in Thread : Overdue(t) \/ Settle(t)
  \/ \E l \in settling : SettleWrite(l)

ReaperStep(p) ==
  \/ \E r \in Row : ReadExpired(p, r) \/ ReadDead(p, r) \/ ReadOutage(p, r)
  \/ ReapCancelled(p) \/ ReapDead(p) \/ ReapStaleHead(p) \/ ReapRequeueHead(p) \/ ReapResume(p)
  \/ MarkDeadLetter(p) \/ TellDeadLetter(p)
  \/ MarkOutageRetry(p) \/ OutageRetry(p)
  \/ LoseReaper(p)

MachineStep(m) ==
  Crash(m) \/ Boot(m) \/ Drain(m) \/ Undrain(m) \/ Drained(m) \/ Exit(m)

OperatorStep ==
  \/ \E r \in Row : Cancel(r) \/ RetryNow(r)
  \/ \E k \in Tenant : SetPaused(k)

IngressStep ==
  \/ \E p \in Pull : Push(p)
  \/ \E d \in Webhook : CheckCiFix(d) \/ Deliver(d)
  \/ \E m \in Serving, d \in Webhook : SupersedeRunning(m, d)

Next ==
  \/ IngressStep
  \/ \E t \in Thread : WorkerStep(t)
  \/ LeaseStep
  \/ \E p \in Reaper : ReaperStep(p)
  \/ \E m \in Machine : MachineStep(m)
  \/ OperatorStep

Spec == Init /\ [][Next]_vars

-----------------------------------------------------------------------------
(* What the queue promises *)

(* Every variable holds a value the code could store: a row's columns, the *)
(* threads' attempts, the lease tables and what each reaper remembers.     *)
Lease == [row : Row, thread : Thread, claim : Nat]
Phase == {"none", "expired", "requeue", "dead", "tell", "outage", "retry"}
Status == {"none"} \cup Live \cup Ended
RowState == [status : Status, attempts : Nat, resumes : Nat,
             owner : Thread \cup {None}, claims : Nat, lapsed : BOOLEAN, cancel : BOOLEAN,
             posted : SUBSET {"dead_letter", "outage_retry"}, told : Nat, revived : Nat]
Attempt == [pc : {"claimed", "run", "moved"}, row : Row, claim : Nat, target : Ref \cup {NoRef},
            cancelled : BOOLEAN, finalized : BOOLEAN]
Noted == [pc : Phase \ {"none"}, row : Row, cancel : BOOLEAN, resumes : Nat,
          to : Ref \cup {NoRef}]

TypeOK ==
  /\ row \in [Row -> RowState]
  /\ paused \subseteq Tenant
  /\ head \in [Pull -> Ref]
  /\ delivered \subseteq Webhook /\ ciClear \subseteq Webhook
  /\ reviewed \subseteq (Pull \cup {None}) \X (Ref \cup {NoRef})
  /\ machine \in [Machine -> {"up", "draining", "leaving", "down"}]
  /\ crashes \in Nat
  /\ superseding \subseteq Serving \X Webhook
  /\ work \in [Thread -> Attempt \cup {Idle, Claiming}]
  /\ held \subseteq Lease /\ keeper \subseteq Lease /\ settling \subseteq Lease
  /\ handle \subseteq Row \X Thread
  /\ snap \in [Reaper -> Noted \cup {NoSnap}]

(* Two live rows are never about the same head, whatever the ingress, the  *)
(* workers, the reapers and the operators do to the table at once: every   *)
(* path that makes a row live again must respect jobs_one_live_head.       *)
OneLiveHead ==
  \A r, x \in Row : r # x /\ Indexed(r) /\ SameHead(r, x)
                    => ~(row[r].status \in Live /\ row[x].status \in Live)

(* A row is claimed at most its kind's budget of times for each time an    *)
(* operator (or the sweep after an outage) gave it a fresh budget, however *)
(* its attempts ended: completions, lapsed leases, restarts.               *)
ClaimsBounded ==
  \A r \in Row : row[r].claims <= Budget[Job[r].kind] * (1 + row[r].revived)

(* The tenant hears of a dead letter at most once per death: every death   *)
(* but the first follows a revival. Two reapers may hold the same row.     *)
ToldOncePerDeath == \A r \in Row : row[r].told <= 1 + row[r].revived

(* A lease is renewed only for an attempt some thread of its process is    *)
(* still making: a row nobody works on must expire and reach the reaper.   *)
KeptIsWorkedOn ==
  \A r \in Row : Kept(r) => /\ work[row[r].owner].pc = "run"
                            /\ work[row[r].owner].row = r
                            /\ work[row[r].owner].claim = row[r].claims

(* A waiting row can still be claimed: a job whose last attempt was        *)
(* interrupted goes terminal.                                              *)
NeverStranded ==
  \A r \in Row : row[r].status = "queued" => row[r].attempts < Budget[Job[r].kind]

(* An event asked for a review of the current head. *)
Asked(p) == \E d \in delivered : /\ Job[d].kind = "review" /\ Job[d].pr = p
                                 /\ Job[d].ref = head[p]

(* Nothing more will happen to the pull request by itself. *)
Quiet(p) ==
  /\ \A d \in Webhook : Job[d].pr = p /\ Sent(d) => d \in delivered
  /\ \A r \in Row : Job[r].pr = p => row[r].status \notin Live
  /\ \A t \in Thread : work[t].row \in Row => Job[work[t].row].pr # p
  /\ \A q \in Reaper : snap[q].pc = "requeue" => Job[snap[q].row].pr # p

Reported(p) == \E r \in Row : /\ Job[r].pr = p /\ Job[r].kind = "review"
                              /\ row[r].status \in {"failed", "dead"}

(* A head that was asked for gets a review, or a review of the pull        *)
(* request ends in a visible failure: no interleaving of pushes,           *)
(* supersedes, cancellations, crashes and requeues loses it silently.      *)
HeadCovered == \A p \in Pull : Asked(p) /\ Quiet(p) /\ ~Reported(p) => <<p, head[p]>> \in reviewed

(* A review that the reaper ends because its head moved is replaced: a row *)
(* of a newer head exists by the time the reaper is done with it, even if  *)
(* GitHub's event for that head never arrives. The end and the             *)
(* replacement are two transactions, with other writers in between.        *)
StaleHeadReplaced ==
  \A r \in Row :
    /\ Job[r].kind = "review" /\ row[r].status = "cancelled" /\ ~row[r].cancel
    /\ \A p \in Reaper : ~(snap[p].pc = "requeue" /\ snap[p].row = r)
    => \E x \in Row : SamePull(r, x) /\ Job[x].ref > Job[r].ref /\ row[x].status # "none"

(* A pull request gets two heads, whose events arrive in their order, and  *)
(* one event asks for the first.  What the reaper or a finished review     *)
(* queues is a review of the second head, after a row of the first.        *)
TwoHeads ==
  /\ MaxRef = 2 /\ "reorder" \notin Env
  /\ \A r \in Row : Job[r].ci => Job[r].kind = "fix"
  /\ \A d, e \in Webhook :
       Indexed(d) /\ Indexed(e) /\ SamePull(d, e) /\ Job[d].ref = 1 /\ Job[e].ref = 1 => d = e
  /\ \A r, x \in Row, h \in Ref :
       x \in {ReaperRow[<<r, h>>], MovedRow[<<r, h>>]} =>
         /\ Job[r].ref = 1 /\ h = 2 /\ Job[x].ref = 2
         /\ Job[x].kind = "review" /\ SamePull(r, x)

(* StaleHeadReplaced holds while no operator cancels and no reaper dies    *)
(* between the end of a row and its replacement, which has an id.          *)
StaleHeadsReplaceable ==
  /\ TwoHeads
  /\ Env \cap {"cancel", "failover"} = {}
  /\ \A r \in Row : Job[r].kind = "review" /\ Indexed(r) /\ Job[r].ref = 1
                    => ReaperRow[<<r, 2>>] \in Row

(* HeadCovered holds while no keeper stalls, no job outlives its deadline, *)
(* nobody cancels or revives a job, and deliveries reach a process without *)
(* attempts of its own.                                                    *)
HeadsCoverable ==
  /\ TwoHeads /\ Serving = {}
  /\ Env \subseteq {"lookup_error", "db_error", "pause", "drain", "failover"}

(* A row that was asked to stop is not started again, unless an operator   *)
(* retried it: an interrupted attempt does not wash the request away.      *)
CancelSticks ==
  [][\A r \in Row : row[r].status = "queued" /\ row[r].cancel
                    => row'[r].status # "running"]_vars

(* What the doc of the registration promises: a worker reports that it has *)
(* drained once nothing of its own is running.  A claim that has passed    *)
(* the draining test, and has its lease yet to start, breaks it.           *)
DrainedIsIdle ==
  [][\A m \in Machine :
       machine[m] = "draining" /\ machine'[m] = "leaving"
       => \A r \in Row : row[r].status = "running" => MachineOf[row[r].owner] # m]_vars

(* A worker that reports it has drained runs no row, whatever stalled,     *)
(* lapsed, was cancelled or reaped before, except one just claimed whose   *)
(* lease is yet to start: the empty lease table overlooks nothing else.    *)
DrainedButForStarts ==
  [][\A m \in Machine :
       machine[m] = "draining" /\ machine'[m] = "leaving"
       => \A r \in Row : row[r].status = "running" /\ ~Starting(r)
                         => MachineOf[row[r].owner] # m]_vars

(* The queue's promise, seen through the table's status column. *)
AbstractState == [r \in Row |->
  CASE row[r].status = "none" -> "absent"
    [] row[r].status = "queued" -> "waiting"
    [] row[r].status = "running" -> "running"
    [] OTHER -> "ended"]

HeadOf == [r \in Row |-> IF Indexed(r) THEN <<Job[r].kind, Job[r].pr, Job[r].ref>> ELSE None]

Promise == INSTANCE JobQueue WITH NoHead <- None, state <- AbstractState

(* Every step of the table is a step of JobQueue: only waiting rows start, *)
(* only running rows stop, an ended row comes back only by a revival that  *)
(* finds its head free.                                                    *)
ImplementsPromise == Promise!Spec

-----------------------------------------------------------------------------
(* Fairness. A claimed row's thread goes on to begin it; a job has a       *)
(* deadline and its child process a kill, so an attempt ends; keepers, the *)
(* settling threads and the leader's reaper loop run until stopped; a      *)
(* lease nobody renews expires; a tick visits every row its query returns; *)
(* aging brings any waiting row to the front.                              *)
GoOn(t) ==
  \/ Begin(t)
  \/ \E result \in Result : FinishJob(t, result) \/ FinishMoved(t, result)
  \/ RequeueMoved(t) \/ FinishCancelled(t) \/ FinishSettled(t)

Expire(r) == ~(Kept(r) \/ Starting(r)) /\ Lapse(r)

ActOnSnap(p) ==
  \/ ReapCancelled(p) \/ ReapDead(p) \/ ReapStaleHead(p) \/ ReapRequeueHead(p) \/ ReapResume(p)
  \/ MarkDeadLetter(p) \/ TellDeadLetter(p) \/ MarkOutageRetry(p) \/ OutageRetry(p)

Fairness ==
  /\ \A t \in Thread : WF_vars(GoOn(t))
  /\ WF_vars(\E l \in keeper : LeaseLost(l))
  /\ WF_vars(\E l \in settling : SettleWrite(l))
  /\ \A p \in Reaper : WF_vars(ActOnSnap(p))
  /\ \A r \in Row :
       /\ WF_vars(Expire(r))
       /\ SF_vars(\E t \in Thread : Claim(t, r))
       /\ \A p \in Reaper : SF_vars(ReadExpired(p, r)) /\ SF_vars(ReadDead(p, r))

FairSpec == Spec /\ Fairness

(* No attempt holds its row forever: its worker, its lease or the reaper   *)
(* ends it.                                                                *)
RunsEnd == \A r \in Row : row[r].status = "running" ~> row[r].status # "running"

(* A waiting row with budget left starts or is retired, unless an operator *)
(* pauses its tenant: the other rows of its tenant, a supersede or a crash *)
(* never hold it back for good.                                            *)
WaitsEnd == \A r \in Row :
  row[r].status = "queued" /\ row[r].attempts < Budget[Job[r].kind]
  ~> row[r].status # "queued" \/ Job[r].tenant \in paused

(* The tenant hears of every dead letter, provided that the service has a  *)
(* token and GitHub takes the notice: the one attempt to tell is made.     *)
(* With "notice_error" a dead letter may stay untold for good.             *)
DeadIsTold == \A r \in Row :
  row[r].status = "dead" ~> row[r].told > 0 \/ row[r].status # "dead"
=============================================================================
