# A TLA+ model of codna's webhook service and durable runs

`codna webhook` receives GitHub's events, queues a job per event, and runs `codna review`,
`codna fix` and `codna secure` for them on a fleet of worker machines. `codna run` drives longer
work, a list of tasks each planned, implemented, verified, reviewed and pushed, as Temporal
workflows that pay an engine for every turn. This directory models the parts of both where several
actors share state:

* the Postgres job queue, the workers that claim from it under a lease, the reaper that resolves
  what they leave behind, and the operator's verbs (`JobQueue`, `PgQueue`);
* the SQLite file and the Postgres table across outages, restarts and changes of the backend
  (`Spool`);
* the Check Runs that everybody in the service may open and somebody has to complete (`CheckRun`);
* the durable runs: paid turns, the walk of a task, the loop over the tasks (`PaidTurn`,
  `TaskWalk`, `DurableRun`).

The modules are checked with TLC on small instances, and the theorems are proved with TLAPS for
every value of the constants. Source paths below are relative to `src/codna/`.

## Inventory

| Part | Keeps | Operations | Meets | Hard because | Correct when |
| --- | --- | --- | --- | --- | --- |
| Postgres queue (`webhook_pg_queue`, `webhook_pg_ops`, `webhook_pg_schema`, `webhook_retry`) | the `jobs` and `tenants` tables; per process, the lease table and a keeper thread per lease | enqueue with dedup and supersede, claim, heartbeat, complete, recover_stale, mark_posted, cancel, retry_now, pause | all the others | one row is written by the ingress, a worker, its keeper, a canceller, a booting machine, the reaper and an operator | one live row per head; attempts bounded; every head that was asked for ends reviewed or visibly failed |
| Leases and reaper (`webhook_lease`) | what the current tick has read | reap expired leases, tell dead letters, retry after an outage | the queue, GitHub | each phase reads a list, then acts on it row by row in other transactions; a deposed leader may linger | nothing stays running for ever; a death is told once |
| Job control (`webhook_control`) | the attempts of the process, their cancel and finalize tokens | register, cancel, settle, release | the pool, the keepers, the ingress | a canceller and the worker both want to end one job | one of them writes the row, and neither writes another attempt's |
| Worker pool (`webhook_pool`, `webhook_worker`, `webhook_procs`, `webhook_service`) | threads, deadline watchdog | claim, run, complete, requeue a moved head, drain, stop | the queue, job control | a pull request's head moves while it is reviewed; GitHub or Postgres may not answer | a machine that drains abandons nothing |
| Ingress (`webhook`, `webhook_ops`, `webhook_redeliver`) | nothing | classify, enqueue, supersede | the queue, job control | deliveries are repeated and reordered | an event becomes at most one live job |
| SQLite queue (`webhook_queue`) | one file: a row per delivery | enqueue with dedup and supersede, claim, complete, recover_stale, export, mark, import | the pool, the spool | `complete` reads and writes in two statements; the process ends between any two; rows are handed to and from Postgres | a row handed over does not run here again, a finished one does not start again |
| Backends (`webhook_backend`) | the spool file, how long Postgres has been down | bounded enqueue, spool, forward, degraded lane, shadow, boot of each backend | both queues | a job may be in two stores at once; a call that timed out may still have worked; boots import and export while jobs wait | what GitHub was told is queued is in a store and comes to an end |
| Restart registry (`webhook_resume`) | a file per running job | start, finish, reconcile at boot | the SQLite queue, GitHub | three records to reconcile after a crash | each Check Run is closed and each current head queued |
| Queued Check Runs (`webhook_queued_check`, `webhook_github`, and what the worker, the canceller and the reaper do to them) | GitHub's Check Runs; the run's id on its row, in an attempt, in a canceller's handle | create, bind, adopt, close as an orphan, start, replace, complete, sweep | the ingress, the worker, the canceller, the reaper | five actors write one run, without a transaction over GitHub and the table; a create may answer late; any call may fail; processes die | every run is completed by somebody, and the review's verdict stays on its run |
| Autoscaler (`webhook_scaler`) | desired machines | start, drain, stop | registrations, leader lock | it decides on a snapshot | a busy machine is not stopped |
| Admission (`admission_control`, `ci_admission`) | in-flight count, durations | admit, finish | the pool | a check and a reservation | the slots are given back |
| Durable runs (`durable/`) | Temporal workflows (what survives), the run's ledger, the engine's sessions (which do not) | paid turn, verify, review, push, decide, pause, stop, continue-as-new, CI gate and fixes | Temporal, the sidecar engine, GitHub, people | an activity is retried after a crash or a missed heartbeat while its first attempt may still run; money is spent by a POST before anything is recorded | a turn is paid once and counted once, budgets hold, what is pushed was approved, a run ends |
| Local Mojo pool, runtime stack, pipelines, memory engine, command line | | | | | |

The last row's parts run one job on one machine and share nothing with the rest. `PROJECT.json` lists
every part with what is and is not modelled of it, and, under `hazards`, each place in the code
where something can go wrong that a test hardly reaches.

## Modules

* **`JobQueue`** is the abstract specification: a job is accepted once, waits, runs and ends; only a
  waiting job starts; at most one job is live for a pull request's head; an ended job comes back
  only when its head is free. It says nothing of leases, machines, budgets or the reaper.
* **`PgQueue`** is the detailed one, the queue and everything that writes to it.
* **`MCPgQueue`** gives `PgQueue`'s constants values for TLC: one pull request `p1`, one tenant `k1`,
  the deliveries `d1`, `d2` (reviews of heads 1 and 2), `c1`, `c2` (CI-failure fixes of head 1) and
  the rows `x1`, `x2` that the reaper or a finished review of `d1` may queue for head 2.
* **`Spool`** has the two stores, the serving process in front of them and its boots. The table's
  workers appear as in `JobQueue`: a row is started and stopped.
* **`CheckRun`** has the Check Runs of one pull request. The rows are those of `PgQueue` reduced to
  status, attempts and the bookkeeping of runs: no leases and no holds.
* **`PaidTurn`** has one paid turn (an activity, its retries, the ledger, the engine), **`TaskWalk`**
  extends it with the walk of a task, **`DurableRun`** extends that with the run over several tasks.
* **`MCSpool`**, **`MCCheckRun`**, **`MCDurableRun`** give their constants values.
* **`PgQueueProofs`**, **`PgQueueHeads`**, **`PgQueueRefinement`**, **`SpoolProofs`**, **`CheckRunProofs`**,
  **`DurableRunProofs`** and **`PaidTurnProofs`** (about the paid turns, within the run) hold the proofs.

### How `PgQueue` corresponds to the code

A Postgres transaction is one step. Whatever a thread reads in one transaction and uses in a later
one is in that thread's own variable, so every other actor can move in between.

| Variable | In the code |
| --- | --- |
| `row` | the `jobs` table: `status`, `attempts`, `resumes`, `owner`, `lapsed` (`lease_expires_at` is in the past), `cancel` (`cancel_requested` is set), `posted`; `claims`, `told` and `revived` count what happened to the row and steer nothing (`revived` also carries the bound `MaxRevive`) |
| `paused` | `tenants.paused` |
| `head`, `delivered`, `reviewed` | GitHub: the head of each pull request, the deliveries that arrived, the verdicts posted |
| `ciClear` | deliveries between the CI-failure dedup query and the insert (`webhook_pg_queue.py:251-259`) |
| `machine` | a worker machine: up, draining (`queue.draining` is set), leaving (it reported `drained` and was sent SIGTERM), down |
| `superseding` | request threads of a process of role `all`, between `enqueue` and `supersede_running` (`webhook.py:813-840`) |
| `work` | per thread, how far its `claim()` has come (`claiming`: past the draining test; `claimed`: the transaction is committed, the lease not started), then the local state of `_run_claimed` and its `JobHandle`'s two tokens |
| `held`, `keeper` | `PostgresQueue._leases` of each process, and the keeper threads still beating |
| `handle` | `JobControl._jobs` of each process, keyed by row id |
| `settling` | cancellers between winning `finalize()` and `complete` |
| `snap` | what a reaper tick has listed and not yet acted on |

`held` and `handle` are keyed by row id within a process, as the two dictionaries are: a second
attempt of a row in the same process replaces the first one's entry. That is where the `zombie`
finding comes from.

The actions, by who takes them: the ingress (`Push`, `CheckCiFix`, `Deliver`, `SupersedeRunning`); a worker thread
(`Claim`, `ClaimNothing`, `Begin`, `FinishJob`, `FinishMoved`, `FinishUnwritten`, `RequeueMoved`, `FinishCancelled`,
`FinishSettled`); keepers, watchdog and cancellers (`Lapse`, `Heartbeat`, `LeaseLost`, `Overdue`,
`Settle`, `SettleWrite`); machines (`Crash`, `Boot`, `Drain`, `Undrain`, `Drained`, `Exit`); the reaper
(`ReadExpired`, `ReapCancelled`, `ReapDead`, `ReapStaleHead`, `ReapRequeueHead`, `ReapResume`,
`ReadDead`, `MarkDeadLetter`, `TellDeadLetter`, `ReadOutage`, `MarkOutageRetry`, `OutageRetry`,
`LoseReaper`); operators (`Cancel`, `RetryNow`, `SetPaused`). `PROJECT.json` maps every definition
to its lines.

What the model leaves out: time is one boolean per lease; the hold of a retry and the order of the
claim only choose among runnable rows, so any of them may be claimed; the two 24-hour dedup windows
never close; the start of a lease, the registration of its attempt and the reading of the head are one
step (`Begin`), which the claim's transaction precedes; a reaper keeps one row of each list; a pull
request never returns to an older head; a worker that has reported `drained` ends before its next beat
could take that back; a boot finds none of its rows locked by another transaction. `Drain` is the beat
by which a worker hears of its drain: any of its idle threads may have passed the draining test by then
and claim later (`webhook_pg_queue.py:411`, then `416-426`, then `430`). Check Runs are in `CheckRun`, the status
`exported` and the move between backends in `Spool`.

The deployment is a constant: `Serving` is the set of machines of role `all`, whose process takes
deliveries and works; where it is empty the ingress is a process of its own, which runs no attempts,
and the machines are of role `worker`.

So is the environment: `Env` is the set of events an instance allows (a stalled keeper,
failing lookups or transactions, deadlines, reordered deliveries, operators, outages, a reaper that
dies), so each run says what it exposes the queue to. The bounds are `MaxRef` (heads), `MaxRevive`
(retries of one row by operators or the outage sweep) and `MaxCrash`. `claims`, `attempts` and
`resumes` need none: they are limited by the code.

### How `Spool` corresponds to the code

A statement of the SQLite file and a transaction of Postgres are a step each. Every loop that reads
rows and then handles them one by one (forwarder, import, export) has what it read in `moving`.

| Variable | In the code |
| --- | --- |
| `file`, `pg` | the `jobs` table of the file (`webhook_queue.py:30`) and of Postgres, a row per delivery id; the file's `id` is what `mark_rows` goes by |
| `pgUp`, `outages`, `fleet` | whether Postgres answers; whether workers claim from the table |
| `backend`, `phase` | what `open_queue` was last called with, and how far its boot has come (`webhook_backend.py:448-501`) |
| `request`, `helper` | per delivery, the request thread in `enqueue` and the thread of `_call_with_timeout`, which goes on when the request has given up (`webhook_backend.py:405-445`) |
| `since` | `_down_since`: unset, set, or set for longer than the degraded lane's threshold |
| `moving` | rows a forwarder, an import or an export has still to move, and rows to mark |
| `work` | per claiming thread, what it runs from the file, and whether `complete` has read the row it is about to write |
| `accepted`, `lane`, `sent` | history: what GitHub was told is queued, what the degraded lane claimed, how often GitHub sent it |

The request and its helper (`Deliver`, `WriteTwin`, `HelperWrites`, `HelperFails`, `Answered`, `GiveUp`,
`SpoolWrite`, `LateAnswer`, `RetireSpooled`); the forwarder (`ForwardRead`, `MoveInsert`, `MoveMark`,
`ForwardFails`, `ForwardPing`); the pool (`ClaimTable`, `ClaimFails`, `ClaimLane`, `ClaimFile`, `Complete`,
`CompleteRead`, `CompleteWrite`); the table's workers (`PgStart`, `PgStop`); boots (`BootOnFile`,
`BootOnPostgres`, `Imported`, `BootForRollback`, `ExportRow`, `ExportCommit`, `BootFails`) and the
environment (`Crash`, `Outage`, `OutageOver`, `LongOutage`).

### How `CheckRun` corresponds to the code

A call to GitHub is a step, a statement of the queue is a step, and a guarded completion
(`complete_check_run_if_open`, which reads and then writes on one connection) is one step: the module
does not look into that window, which the code's own comment admits.

| Variable | In the code |
| --- | --- |
| `run` | GitHub's Check Runs named "codna review", with the commit and how each was completed |
| `row` | the `jobs` rows: `run` is `check_run_id`, `stop` is `cancel_requested`, `swept` and `told` are `posted.check_closed` and `posted.dead_letter`, `resumed` is `resumes >= MAX_RESUMES` |
| `req` | a request thread between `precreate` and `bind_or_close` (`webhook.py:803-828`), with the create that may answer late |
| `at` | an attempt from claim to completion: `carried` is `qjob.check_run_id`, `own` the run it reports on, `todo` what `complete_stale_check_runs` has listed, `settle` its canceller, `closed` and `final` the handle's `check_closed` and finalize token |
| `reaper`, `sweep` | what `_reap_one`, `_notify_one` and `settle_retired` have in hand |
| `tip`, `scenario`, `faults`, `operated` | the pull request's head; the environment and its bounds |

The request (`Receive`, `Create`, `CreateLate`, `LateAnswer`, `Insert`, `Bind`, `Adopt`, `CloseOrphan`); the
attempt (`Claim`, `ReadHead`, `Moved`, `List`, `Stale`, `Listed`, `Probe`, `Abandon`, `StartRun`,
`CreateOwn`, `Record`, `Post`, `Return`, `Report`, `Finish`, `RequeueMoved`, `RaiseEarly`,
`ReportWithoutRunning`, `Raised`, `Unreported`); its canceller and its unwinding (`Stop`, `SettleClose`,
`SettleWrite`, `Unwind`, `Leave`); the reaper (`Reap`, `ReaperClose`, `ReaperRequeue`, `MarkDead`, `Tell`);
the sweep (`SweepRead`, `SweepClose`, `SweepMark`).

Left out: the spool (Postgres always answers), kinds other than review, merge groups, hosts whose
ingress also works. A request looks at its row right after its insert: no attempt of that row ends and
is followed by another one in between (`Looked`). The seven days after which the sweep forgets a
retired row never pass.

### How `PaidTurn`, `TaskWalk` and `DurableRun` correspond to the code

| Variable | In the code |
| --- | --- |
| `held`, `opened`, `bought` | the sidecar engine: sessions it still has, how many there were, the turns it accepted (and was paid for) |
| `started`, `logged`, `finished` | the ledger's `turn.started`, engine event and `turn.finished` records |
| `attempt`, `tries` | attempts of the current activity: the live one and, after a missed heartbeat, the stale one that Temporal no longer listens to |
| `exposed` | history: keys whose POST was, or may have been, left without a record |
| `task` | the task workflow with its `TaskState`: node, counters, budget, decision, what the last checkpoint, verification and approval were about |
| `pull`, `checks` | GitHub: the head of each branch's pull request and what CI says of it |
| `run` | the run workflow: what remains, the children that run, what was spent, the CI gate |
| `left`, `scenario` | faults and signals that may still happen; the run's specification |

`drive_turn` is `ScanFinished`, `ScanInFlight` or `ScanUnbought` (what the ledger says of the key), `Buy`
(with `BuyUnanswered` and `BuyRefused`), `RecordStart`, `ReadEnd` or `StreamLost`, `RecordFinish`. A task
is `BeginTurn`, `EndTurn`, `TurnGivenUp`, `Checkpoint`, `Verify`, `Review`, `OpenPr`, `OpenPrAgain`, `Park`,
`Unpark` and the signals. A run is `RunTask`, `Filled`, `TakeResult`, `ContinueAsNew`, `PassGate`, `ReadCi`,
`WatchCi`, `RunCiFix`, `FixEnds` and its ends. A turn has one event, its terminal one, which carries
what its session has used so far. What a turn adds to that is any of the scenario's prices, chosen when it
ends: nothing the task decides bounds it, and with the price 0 the event carries no price. The ledger is a set of records (its hash chain is not modelled); Temporal's histories are the
variables that no crash touches.

## Runs that pass

| Run | Instance | Shows |
| --- | --- | --- |
| `heads` | 4 rows, 2 heads, 2 machines, 2 crashes, 2 attempts; 292,508 states | `TypeOK`; `HeadCovered`: once a pull request is quiet its head is reviewed or a review ended in a visible failure; `StaleHeadReplaced`: the reaper's two-transaction replacement of an outdated review; `ImplementsPromise`: the table refines `JobQueue` |
| `table` | 2 CI-failure fixes and a review, deliveries reordered, one machine that serves and works, deadlines, failing completions, an operator that retries; 683,888 states | `OneLiveHead`, which the separate dedup query alone would not give |
| `leases` | 1 row, 2 machines, 2 reapers, stalls, failover, revivals, cancellations, draining, notices GitHub refuses, a crash; 1,375,776 states | `ClaimsBounded`, `KeptIsWorkedOn`, `ToldOncePerDeath`; `DrainedButForStarts`: when a worker reports that it has drained, it runs no row except one just claimed whose lease is yet to start |
| `spool` | a review and a fix of two heads, shadow then postgres then rollback, 2 ends of the process, an outage, a call that outlives its timeout, 1 thread; 471,676 states | `NoDeliveryLost`, `FinishedStaysFinished`, `HandedOverStays`; `EndsOrSticks`: each delivery comes to its end or to one of the two dead ends that `Stuck` names |
| `checks` | 5 scenarios of a pull request with 2 heads, 4 rows, 2 requests, 1 or 2 threads, up to 2 faults, up to 1 verb of an operator; 292,099 states | `NoRunForgotten`, `EveryRunEnds`, `VerdictStays` |
| `durable` | 9 scenarios of one or two tasks (`MCDurableRun`), each with its own faults and prices; 390,324 states | `BoughtOnce`, `AskIsLast`, `CostIsReal`; `BudgetHolds`: how far a run may go over its cap; `PushedIsApproved`, `EndedStaysEnded`, `RunEnds` |
| `progress` | 2 rows, cap 1, 2 machines, a crash, a tenant paused now and then, failing lookups and completions, fair scheduling; 13,218 states | `RunsEnd`, `WaitsEnd`; `DeadIsTold`, as long as GitHub takes the notice |

Why these sizes are enough to meet the cases. Two heads are the least for superseding, a moved head
and a reaper's requeue; two machines the least for a row to change hands; two attempts let a row be
resumed and then dead-lettered, two crashes make the second interruption happen; two reapers let
both hold the same dead row, one revival lets it die twice. `leases` needs a single row because its
properties are about one row's history. Machines are interchangeable there and in `heads`
(symmetry); `progress` uses no symmetry because it checks liveness, and its instances are small for
the same reason.

`spool`: a supersede needs two heads, one of them a kind the degraded lane does not run; a file row that
comes back needs two attempts; the shortest histories in which each store hands to the other take a
switch there and one back, and so two ends of the process; one outage opens the lane once, and one slow
call is enough to be answered after each of the points that matter (before the spool takes the
delivery, after the forwarder or the lane has it, after the next boot). Each scenario of `checks` is one
source of trouble: a second head, a second delivery of one head, two things going wrong, one going
wrong while an operator acts; the two threads let a row's next attempt run while the canceller of the
last one still works, and another head's job run at the same time. Two attempts make a retry, a
retry's listing and a dead letter happen. Of GitHub's calls, all may be refused but the six of `TriedOnce`, which nobody repeats or makes up for;
processes do not die between a create and its record, an attempt is not stopped before its run is
attached, and an operator does not retry a row the sweep has in hand (`Hasty`). That is what `Forgiving`
asks, the hypothesis of a theorem below; what happens otherwise is under "Where code and comments part". Each scenario of
`durable` is likewise one kind of trouble at the size where it bites: with turns of one unit a cap of three
is a plan and two implementations; a cap of nine with turns of two leaves room for two CI fixes; a window of
two and two tasks make children that compete for one budget, `renew` 1 makes a second execution. Prices
differ where they decide something: none or three against a cap of four (an implementation that is one too
dear, and turns that carry no price), one or two under crashes and lost sessions, one or three in a window
of two with a cap of two, where the bound of `BudgetHolds` is reached (with one unit less TLC finds it
violated). A turn that costs more than the whole cap is among them.

Some properties of these runs hold only without some of the events, and what is told below is the
reason: `HeadCovered` in `heads` excludes stalls and reordering, `KeptIsWorkedOn` in `leases`
excludes deadlines, `DeadIsTold` in `progress` excludes refused notices, `DrainedButForStarts` in `leases`
excludes failing completions and a second thread of a machine, and `heads` has no serving machine: with one,
a slow request thread stops the review of a head newer than its own. `heads` has one reaper; for more than
one `ImplementsPromise` is the theorem `Implements`. `WaitsEnd` speaks of rows that have budget left and excuses
those whose tenant is paused.

### Fairness

`PgQueue`'s `FairSpec` adds, and nothing else: a thread that has claimed a row starts its lease and comes to the
attempt's end (`GoOn`, weak), because nothing blocks it before the job, and a job has a deadline and its child
process is killed; the keepers, the settling cancellers and the leader's
reaper loop take their next step (weak), because these loops run until their process stops; a lease
that nobody renews, and whose thread is not about to start it, expires (`Expire`, weak); a tick visits each row its query returns (`ReadExpired`,
`ReadDead`, strong per row: the lists are ordered by age and the reaper alternates between them);
a waiting row that can be claimed again and again is claimed (strong), which is what the aging term
of the claim order is for (`webhook_pg_queue.py:449`). There is no fairness for GitHub, operators,
crashes, a machine's boot, or a keeper's renewal.

`Spool`'s has two conjuncts: as long as some thread of the service, worker of the table or pending boot
can move, one of them does (one weak fairness for all of them together: threads are scheduled, a machine
that ended is started again), and an outage ends. Crashes, outages and deliveries owe nothing, and a
switch of the backend is taken at a boot or not at all.

`CheckRun`'s has a weak fairness for each request thread, attempt, canceller, sweep and the reaper: each
is a thread that runs on, or a loop that ticks (`Reaper.tick` runs the sweep each time, which is why a
refused close is tried again). `Stop` is fair because the keeper's heartbeat repeats. Pushes, deaths,
refusals and operators owe nothing.

`DurableRun`'s is one weak fairness for the system's steps (workers poll, Temporal retries and delivers,
the engine's turns end). People, faults and CI owe nothing, so `RunEnds` excuses a run that a pause or a
question to a human holds up; nothing is owed by CI because the gate takes checks that still run for
passed.

## Runs that find a violation

Each states what a comment or a test says of the code, and TLC shows a behaviour of the code that
does otherwise. `PROJECT.json` quotes the lines.

* `stranded` (`NeverStranded`): `requeue_interrupted` puts a row back whose attempts are spent. It
  cannot be claimed, is never dead-lettered, and its live status blocks a new row for its head.
* `late_fix` (`HeadCovered`): a late CI-failure fix of an older head retires the newer head's
  waiting review, because superseding compares heads for inequality, not for age.
* `zombie` (`HeadCovered`): a keeper that lost its lease cancels, by row id, the attempt another
  thread of the process has since begun on that row; the first thread's unwinding then ends it.
* `cancel_lost` (`CancelSticks`): the claim clears a cancel request the last attempt did not heed.
* `kept_forever` (`KeptIsWorkedOn`): after an unconfirmed close of a Check Run the worker leaves the
  row to the reaper, while the lease's keeper goes on renewing it.

## Where code and comments part, without a run of its own

Met while modelling. `SwitchKeepsAll`, `EveryDeliveryEnds`, `DrainedIsIdle` and `GoalMeansGreen` are definitions
TLC refutes when their name is added to the run's cfg, `DeadIsTold` one it refutes with `"notice_error"` in the
run's `Env`; the others follow from the model with a constant changed, or from reading.

Backends:

* `SwitchKeepsAll` (add it to `spool.cfg`): "Switching backends never loses a job"
  (`webhook_backend.py:20`), but the export marks a row `exported` whether or not the file took it
  (`webhook_pg_queue.py:852-857`). A delivery the import moved to Postgres has a `migrated` row in the
  file, which `import_row` leaves alone: after the rollback neither store runs it. `NoDeliveryLost`
  excepts exactly this case.
* `EveryDeliveryEnds` (add it to `spool.cfg`): "no delivery is ever lost to a database outage"
  (`webhook_backend.py:14-15`), "never loses a job" (`webhook_backend.py:20`). Two kinds of delivery never come to
  an end. One was handed both ways, as above. The other carries its attempts into a table whose budget for
  its kind is smaller: the file allows three, Postgres two for a fix, so a fix that was interrupted twice in
  the file is imported as a row that `j.attempts < j.max_attempts` (`webhook_pg_queue.py:445`) keeps from every
  claim, and that no reaper lists, because it is neither running nor dead. TLC shows a claim from the file, the
  end of the process, the boot on Postgres, the import, and nothing after it. `EndsOrSticks` says
  that these two are all.
* A late Postgres write is said not to meet the degraded lane (`webhook_backend.py:257-258`), which holds
  only if the outage began with that call: with `_down_since` already set the lane may have the copy.
  `FinishedStaysFinished` and `HandedOverStays` except what the lane ran.
* `complete` of the SQLite queue writes over a row that was marked `migrated` while it ran, although
  `mark_rows` says who holds it (`webhook_queue.py:445-446`). Dedup and supersede look
  at one store each, so a forwarded older head can retire a newer one. A boot on `postgres` during an
  outage fails, while `webhook_backend.py:363-365` expects the service to come up.

The Postgres queue:

* `DrainedIsIdle` (add it to `leases.cfg`): a worker "reports ``drained`` once nothing is running"
  (`webhook_lease.py:7`), but what it looks at is the lease table, and a claim enters its lease there after
  its transaction (`webhook_pg_queue.py:416-430`), which the draining test precedes. TLC shows a thread
  past the test, the beat that sets `draining`, the claim, and the next test of an empty table: the process ends
  after the drain grace (`webhook_pool.py:402-412`) with the row running, for the reaper to resolve. With one
  claiming thread per machine `DrainedButForStarts` says that no other row is overlooked. With two it is
  violated as well: the thread that was slow to start its lease, and whose row was meanwhile reaped and
  claimed by the other, writes its lease over the other's, and its completion removes it, so that the table is
  empty while the other thread works. A completion whose transaction fails leaves a row like that too.
* `DeadIsTold` with `"notice_error"`: a tenant is told of a dead letter "exactly once [...], never a silent drop"
  (`webhook_lease.py:15-17`). `_notify_one` sets the mark first, then gives up for want of a token (`246-249`) or
  swallows GitHub's refusals (`253-281`); nothing lists the row again, so a refused notice is a silent drop.
  At most once is proved (`ToldOnce`); at least once holds where GitHub takes the notice.
* Three heads may leave the newest without a review, where a CI-failure fix plays no part (that is the run
  `late_fix`). The worker of head 1 crashes; heads 2 and 3 are pushed; the reaper queues head 3, which is
  claimed; the late event of head 2 asks that row to stop (`webhook_pg_queue.py:720-735` compares heads for
  inequality), and head 3's own event is refused because the row is live. The attempt unwinds and is written
  `done` without a review (`webhook_pool.py:198-228`). When the row of head 2 is interrupted too, the reaper's
  replacement is refused as covered by that row, "rows that ran to a verdict (`done`)"
  (`webhook_pg_queue.py:325`). The run `heads` has two heads, and so
  has the theorem.

Check Runs:

* A stop that comes before the attempt has attached a run counts as closed
  (`webhook_control.py:350-355`); the attempt then opens one, the worker skips its close because
  `check_closed` is set, and the row is written `done`, which no sweep looks at. The run stays open,
  against `webhook_worker.py:801-802` "so a cancelled job can never leave a required check `in_progress`".
  With all of `Point` in `Stops`, TLC finds `NoRunForgotten` violated.
* With `"moved"` in `Refused` and two faults, TLC finds `NoRunForgotten` violated: an attempt whose head has
  moved passes over the refused close of the row's run (`webhook_worker.py:482-486`), the listing's is best
  effort too, and `record_check_run` points the row at the run on the new head
  (`webhook_pg_queue.py:695-698`); the old run stays open on its commit. The comment at
  `webhook_worker.py:485`, "the sweep below and the reaper's retired-run pass still see it", holds of
  neither: that pass reads retired rows and the id they carry (`webhook_pg_ops.py:296-302`).
* An unreadable probe whose close is refused too leaves the ingress's run behind a fresh one, against
  "can therefore never strand the run the ingress opened" (`webhook_queued_check.py:286-289`).
* The reaper's close after `requeue_interrupted` is tried once while the row has already forgotten its
  run, and so are an orphan's close, the worker's own close of a stopped job and the dead-letter notice;
  "so no path leaves a run open" (`webhook_queued_check.py:22`) holds as long as GitHub answers them. A
  process that dies between creating a run and recording it leaves one nobody knows.
* Four writers do not look before they complete a run: `_review_head_at_start` and
  `report_without_running` (the row's run), the dead-letter notice, and `complete_stale_check_runs`, which
  lists open runs and completes them later. `VerdictStays` names these and excludes all others. A late
  canceller can close the run that the row's next attempt is working on.
* An operator who retries a row while the sweep has it in hand gets its `check_closed` mark set for the
  old run, and the new one is not swept (`Hasty`).

Durable runs:

* `GoalMeansGreen` (add it to `durable.cfg`): the gate takes running checks for passed
  (`durable/goal.py:436-437`), against its own description (`durable/goal.py:391-394`).
* The commit of a CI fix is not pushed when its pull request exists (`durable/activity_steps.py:743-747`,
  `contracts.py:600-603`); a failed fix's spending is not added to the run's (`BudgetHolds` excuses it).
* No cap is a limit of what is spent. A task's is looked at once a turn has been paid for
  (`durable/state.py:429-436`), and a turn's price is not bounded by what is left. `BudgetHolds` therefore bounds
  the reported spending by window * (cap + dearest turn - 1): each task of a window gets the whole of what was
  left when it started as its cap (`contracts.py:571-576`), and each may go over its cap by less than its last turn. Spending that never reaches a report is not counted: a turn whose event carries no price,
  a turn that failed or was aborted (until a later turn's cumulative usage brings it in), a key bought twice in
  different sessions, and a fix that failed. "Capped by what the RUN has left" (`contracts.py:572`) is said of
  the cap a task gets, and nothing promises that the sum stays under it.
* A crash between the POST and its ledger record buys the turn again when it is the session's first
  (`durable/activity_support.py:871-873` promises otherwise). `BoughtOnce` excepts the keys so exposed.
* A heartbeat timeout with a silent model lets two attempts drive one turn. After an engine restart a
  resumed session may end with `event_index_regressed`. A crash between the ledgered terminal event and
  `turn.finished` leaves a turn whose resume never sees its end.
* A window of tasks is filled by a budget that does not count what running children may spend
  (`BudgetHolds` allows window times the cap); its early exits terminate children that still run.

## Proofs

Those about `PgQueue` assume `PgConstants`, the assumptions on the constants, and nothing about the bounds.
They hold with every event of `Env` allowed, but for four that name the events they exclude. Those about `Spool` assume `SpoolConstants` and hold for
every set of deliveries and threads, any sequence of backends and any number of ends and outages.

* `JobQueue!OneLive`: the abstract queue keeps `OneLiveHead`. Only `Accept` and `Revive` make a row
  live, and both ask that its head be free. The invariant is inductive with the type of `state`.
* `PgQueueProofs!Typing`: `Spec => []TypeOK`. There is a lemma per row helper, then one per group of
  actions with a step per action.
* `PgQueueProofs!DrainOverlooksOnlyStarts`: `Spec => DrainedButForStarts`, given `"db_error" \notin Env` and
  `OneThreadEach`: one claiming thread per machine. Draining test, claim and lease are three steps, so what is
  inductive is `LeaseHeld`: a worker whose process lives has a lease in its process's table for every row it runs,
  except for one that its thread has claimed and not begun. Only a claim makes a row run (`Calm`: any
  other step leaves a row that still runs with its owner, its claim and the request to stop it), and only
  `Begin` writes into the table, over the entry of the same row. That entry is nobody else's where
  a machine has one thread. It must be so through completions (the row ends with the lease), crashes, exits and
  boots. Both hypotheses are needed: `complete()` drops the lease before its transaction (`DropLease`), and with
  `"db_error"` added to `leases.cfg` TLC finds a drain that overlooks the row of a completion that failed; with
  both threads on `m1` it finds the overwritten lease told above. That the exception is a real window, and
  not one of the model's, is the point of `DrainedIsIdle` there.
* `PgQueueProofs!KeptIsWorked`: `Spec => []KeptIsWorkedOn`, given `OneThreadFleet`: no deadlines, one claiming
  thread per machine, no machine that takes deliveries. `KeeperWorks` says that a beating keeper's lease is in
  the table and its attempt goes on, not cancelled; `OwnClaim`, that an attempt on a row its thread owns is
  the row's last claim. Each part of the hypothesis is needed, and TLC has the counterexamples: with a
  deadline it is the run `kept_forever`; with two threads of `m1` in `leases.cfg`, the end of one thread's keeper
  cancels the other's attempt on the same row, which unwinds without a write while its own keeper beats;
  with a machine in `Serving`, a delivery's supersede cancels an attempt whose row has no cancel request.
* `PgQueueRefinement!Implements`: `Spec => ImplementsPromise`. Each group of actions maps to a step
  of `JobQueue` or leaves the abstract state alone: completions, reaping and the boot recovery are
  `Stop`, an insert with its supersedes is one `Accept`, `retry_now` is `Revive`,
  or a stutter when the row already waits. `TypeOK` is the only invariant it needs.
* `PgQueueRefinement!OneLiveRow`: `Spec => []OneLiveHead`, carried from `OneLive` through the
  refinement and the equality of the two notions of a head.
* `PgQueueProofs!KeepsTallies`: `Spec => []Tallies`, the strengthening behind the two bounds.
  `ClaimsBounded` is not inductive: a claim must know that `attempts` counts the claims since the
  last revival, so `ClaimTally` says claims <= budget * revived + attempts and attempts <= budget.
  `ToldOncePerDeath` must know what the reapers are about to do, so `TellTally` says told plus the
  number of reapers between mark and tell is at most `revived`, plus one while the row's
  `dead_letter` key is set. This one counts a set of reapers, hence `IsFiniteSet(Reaper)`.
* `PgQueueProofs!ClaimsAreBounded`, `PgQueueProofs!ToldOnce`: the two bounds.
* `PgQueueHeads!ReplacesStaleHeads`: `Spec => []StaleHeadReplaced`, given `StaleHeadsReplaceable`, and
  `PgQueueHeads!CoversHeads`: `Spec => []HeadCovered`, given `HeadsCoverable`. Both hold for any number of pull
  requests, rows, machines, threads, reapers and crashes, for pull requests of two heads (`TwoHeads`); the
  constants of `heads` meet both (`HeadsInstance`). Three invariants, each on top of the one before:
  - `HeadsInv` is the order in which heads and rows come: a row is of a head that was pushed, the first
    head's row is there before any row of the second, and nobody works on, notes or replaces a row that is not there;
  - `ReplacedInv`: a row that was asked to stop, that a reaper knows to have been asked, or that is cancelled
    has a newer row, or a reaper remembers to queue one;
  - `CoverInv`: every review of the newest head is `OnTrack`. Nobody asks it to stop, the one attempt at it is of
    that head and holds a lease that is kept (`Tended`), and it ends only in a posted review or in a failure
    that is shown. Once it has failed in sight nothing is said of what is left of its attempts.

  What the hypotheses exclude makes the properties false; TLC has these counterexamples in variants of `heads.cfg`.
  `StaleHeadReplaced` is violated with `"cancel"`, `"failover"` or `"reorder"` in `Env` and with three heads.
  `HeadCovered` is violated with `"cancel"`, `"deadline"`, `"reorder"` or `"stall"` in `Env`; with `"retry_now"`
  and, given two reapers, two crashes and three attempts, with `"outage"` (a reaper's old list ends an
  attempt as dead, the row is brought back and claimed by the other thread of that machine, and the
  first attempt's unwinding ends it as done); with a machine in `Serving`; with two deliveries of the first
  head and `"lookup_error"`; and with three heads, as told under "Where code and comments part".
* `SpoolProofs!SpoolTyping`: `Spec => []TypeOK`, a lemma per row helper, then one per group of actions.
* `SpoolProofs!NoneLost`: `Spec => []NoDeliveryLost`. The invariant says where a delivery is while it moves:
  a `migrated` row has a twin in the table (`MigratedHasTwin`), as has a row the import or the
  forwarder is about to mark (`MarkHasTwin`); a helper that was accepted has its row (`HelperHasRow`); what
  the export has read is in the file or still to be read (`ExportedHasFile`, `ExportCovers`), which needs
  that nothing is enqueued before the boot is over (`QuietBeforeUp`); and a thread's write ends a row
  and never makes one vanish (`WritesEnd`). Each is a step of the proof per group of actions.
* `SpoolProofs!HandedOver`: `Spec => HandedOverStays`. Only `complete` writes a row whatever its status is, so the
  invariant is about the threads that hold rows (`LaneOrFile`): what a thread runs was claimed by the
  degraded lane, or by a backend whose queue is the file and the row is not handed over. The second
  stays true because on those backends nothing moves and no helper is alive (`FileAlone`), which holds at
  a boot because nothing survives the process (`IdleDown`).
* `SpoolProofs!FinishedOnce`: `BackByRollback => (Spec => FinishedStaysFinished)`. `EndedAlone` says that a
  row the file has ended has no runnable twin and none on its way (in a helper, in the rows on the move). A
  row ends in the file by a thread, where no row of the table runs (`NoneRuns`), or by a boot's recovery,
  which after an import finds nothing to recover (`ImportCovers`). `BackByRollback` says that Postgres is left
  only for a rollback, and a rollback only for Postgres. The run's `ForthAndBack` meets it, and it is
  needed: with `<<"rollback", "sqlite">>` and `<<"sqlite", "postgres">>` in `Switch` and two attempts per row
  TLC finds a rollback that ends half way, a start on the file that runs a review whose row in the
  table is still running, and after the next boot on Postgres the row's return to `waiting` and a
  second run.

Those about `CheckRun` assume `CheckConstants`, which says of `Refused`, `Dies`, `Stops` and `Hasty` only
what kind of value they are: the first two hold wherever a process dies or is stopped and whatever call
GitHub refuses, while the run `checks` restricts all four. The third names its restriction.

* `CheckRunProofs!ChecksTypeCorrect`: `Spec => []TypeOK`. Every step is first brought down to its effect
  (`AttemptEffect`, `RequestMay`, `ReaperMay`, `SweepMay`, `EnvMay`, put together in `Steps`); the
  invariants are then preserved effect by effect.
* `CheckRunProofs!VerdictsStay`: `Spec => VerdictStays`. Two writers do not look at a run before they
  write it and are not among the property's exceptions: the close of an orphan and the start of the run
  a row carries. So the invariant must say that neither ever has a judged run in hand, for which it
  needs two parts. `Alone`: a working attempt is the only one on its row, which runs (or was written by
  its own canceller). `Sole`: a run is one row's (`OneRow`); a request's run is nobody's, except while its
  row carries it before the request's second look (`Private`); and in that window a verdict on it means
  that the one attempt of the row works on it (`Watched`), so that the run cannot leave the row and be
  closed as an orphan. `Sole` was checked by TLC with nothing restricted before it was proved.

* `CheckRunProofs!RunsRemembered`: `Spec => []NoRunForgotten`, given `Forgiving`, which the constants of
  `checks` meet (`InstanceForgives`). The invariant, `Kept`, says more than that somebody holds an open run:
  - until its canceller has written the row, an attempt works on the run its row carries, does not leave an
    open one for another, and where it ends its row the run is closed (`AttemptKept`); here a handle whose
    `check_closed` is set tells the truth, since the run was attached before the stop;
  - a row nobody looks at again (done, left to its keeper, swept, told) has a run that is closed (`RowSettled`);
  - what the sweep and the dead-letter notice have in hand is still their row's (`SweepTrue`, `TellTrue`), for
    a retired or dead row is brought back by an operator only;
  - an open run is a request's, is being recorded, is on a row, or the reaper is about to close it (`Known`).

  A step of one attempt opens a run that is no other row's: that is `OneRow` of `Sole`, and that the row of a
  working attempt is its own is `Alone`, so the proof stands on both. Each part of `Forgiving` is needed: TLC
  finds `NoRunForgotten` violated when any one of the six calls of `TriedOnce` may be refused, with a death at
  `"record"`, with a stop at an earlier point, and with `Hasty`.

Those about the durable runs assume `TurnConstants`, `NoneIsNoAttempt`, `WalkConstants` and `RunConstants`,
and hold for every set of scenarios, faults and tasks. `RunConstants` says that the ids of CI-fix tasks
are distinct and are no user task's, that a run has enough of them for its `maxCi`, that its tasks
are distinct, and that a goal run has a window of one. The code derives a fix's id from its task's; it
does not exclude a user task that bears such a name, and neither the model nor the proofs cover it.

* `DurableRunProofs!RunTypeCorrect`: `Spec => []TypeOK`, strengthened by what the run's control point says
  of the children it waits for (`RunShape`) and by the finiteness of the sets the engine counts.
* `DurableRunProofs!EndedTasksStay`: `Spec => EndedStaysEnded`. Behind it `StartsOnce`: until the run is
  over, a task that is neither pending nor completed has not started, and neither has any that remains
  to be started or any fix to come.
* `DurableRunProofs!PushedWasApproved`: `Spec => []PushedIsApproved`. `TaskShape` says which flags a step may
  rely on at its node; `Settled` that a task past its last turn stays the one that was verified, checkpointed
  and approved; each action of a walk keeps both (`Reshaped`).
* `PaidTurnProofs!NoKeyPaidTwice`: `Spec => []BoughtOnce`. Seen from one task each step of the system is one of a
  few effects on its turns (`EachTask`). `OnceInv`: what is paid for is in the ledger, about to be recorded
  by the live attempt, or exposed; a live attempt about to post an unexposed key has not bought it; a stale
  attempt that may still post has an exposed key; a live attempt's task is busy.
* `PaidTurnProofs!NothingAfterAQuestion`: `Spec => []AskIsLast`, from how the engine numbers turns (`EngineInv`),
  from attempts and ledger telling the truth about them (`TruthInv`), and from what the task has heard (`Heard`).
* `PaidTurnProofs!CostsWhatItBought`: `Spec => []CostIsReal`, for turns of any price. `CostInv`: what an attempt or the
  ledger says a turn cost is the usage its terminal event carried less what the task had accounted for
  (`Charged`), for the turn the task is about to consume; so the sum the task keeps is again such a usage
  (`SpentIs`). While the task has had one session, each key it consumed was sold there and every usage up to
  it is accounted for (`OneSession`): the keys are sold in that session once, so only the next one is new.

Only model-checked, of the safety properties: `BudgetHolds` of the durable runs. It sums over the tasks, and
what a fold returns for every set of them is an induction over data. Liveness (`RunsEnd`, `WaitsEnd`,
`DeadIsTold`, `EndsOrSticks`, `EveryRunEnds`, `RunEnds`) is out of the prover's reach and stays with TLC.

## Not modelled

* The autoscaler: it starts, drains and stops machines through the provider's API from a snapshot; the
  worker's side of a drain is in `PgQueue`.
* The restart registry of the SQLite backend: a file read at boot. The rows it reconciles are in `Spool`.
* Claim order and retry holds (times), reports, metrics, pruning, the drift report of the shadow backend.
* The LangGraph engine of the durable tasks (it shares the routers and the activities), steering,
  `set_budget`, worktrees, the ledger's hash chain, the HTTP API and command line of runs.
* Pipelines, memory engine, local Mojo pool, runtime stack, command line, MCP server and credentials: one
  job on one machine, numeric code, or input and output. They are most of the repository's lines.

## Plan

Done: `JobQueue` and `PgQueue` with their runs and all their safety properties; `Spool` and
`CheckRun` with their runs and all their safety properties; `PaidTurn`, `TaskWalk` and `DurableRun` with all
their safety properties but the budget. To come:

1. Three heads: how many of these behaviours are left when a cancelled attempt's `done` covers no head, and what
   of `HeadCovered` and `StaleHeadReplaced` then holds for any number of them.
