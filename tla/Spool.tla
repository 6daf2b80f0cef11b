------------------------------- MODULE Spool --------------------------------
(***************************************************************************)
(* One serving process of the webhook service, its SQLite file and the     *)
(* Postgres table, across the backends it may be started on.  On "sqlite"  *)
(* the file is the queue.  On "shadow" each accepted delivery is also      *)
(* written to Postgres, where nobody claims it.  On "postgres" the table   *)
(* is the queue and the file a spool: a delivery that Postgres does not    *)
(* take in time goes to the file, a forwarder carries it over later, and   *)
(* after a long outage the process runs reviews from the file (the         *)
(* degraded lane).  "rollback" is "sqlite" with                            *)
(* CODNA_WEBHOOK_ROLLBACK_FROM_POSTGRES set: its boot takes what Postgres  *)
(* still had back into the file.                                           *)
(*                                                                         *)
(* A statement or transaction of either store is one step; what a thread   *)
(* read and uses later is in its own state.  The table's workers appear    *)
(* as in JobQueue (start, stop), PgQueue has their detail; retry holds,    *)
(* the claim order and the 24 hour rule of CI-failure fixes are left out.  *)
(* The workers of the table are started once the serving process's boot on *)
(* "postgres" is over and stopped for a rollback.  A delivery is not       *)
(* repeated while its previous request is still being answered.            *)
(***************************************************************************)
EXTENDS Integers, FiniteSets

CONSTANTS
  Delivery,   \* delivery ids
  Job,        \* [Delivery -> [kind, pr, ref]]
  Thread,     \* claiming threads of the serving process (none in role "ingress")
  LaneKinds,  \* kinds the degraded lane may run
  FileTries,  \* the file's attempt cap
  Budget,     \* [Kind -> attempts], the table's
  First,      \* the backend of the first boot
  Switch,     \* backend changes an operator makes at a restart: pairs <<from, to>>
  Slow,       \* deliveries whose Postgres call may outlive its timeout
  MaxCrash,   \* bound: ends of the serving process
  MaxOutage,  \* bound: Postgres outages
  MaxRepeat,  \* bound: deliveries GitHub sends again
  None

Kind == {"review", "fix", "secure", "queue"}
Supersedable == {"review", "fix"}
Backend == {"sqlite", "shadow", "postgres", "rollback"}

ASSUME SpoolConstants ==
  /\ Job \in [Delivery -> [kind : Kind, pr : Nat, ref : Nat]]
  /\ LaneKinds \subseteq Kind \ {"fix"}
  /\ FileTries \in Nat \ {0}
  /\ Budget \in [Kind -> Nat \ {0}]
  /\ First \in Backend /\ Switch \subseteq Backend \X Backend
  /\ MaxCrash \in Nat /\ MaxOutage \in Nat /\ MaxRepeat \in Nat /\ IsFiniteSet(Delivery)
  /\ Slow \subseteq Delivery /\ None \notin Delivery

VARIABLES
  file,      \* [Delivery -> row of the SQLite file]
  pg,        \* [Delivery -> row of the Postgres table]
  pgUp, outages,
  backend,   \* what the process was last started on
  phase,     \* of the serving process: down, importing, exporting, up
  crashes,
  fleet,     \* workers claim from the table
  request,   \* [Delivery -> where its request thread is]
  helper,    \* [Delivery -> where the request's Postgres call is]
  since,     \* SpoolingQueue._down_since: unset, set, set for longer than the threshold
  moving,    \* rows the forwarder, the import or the export still has to move
  work,      \* [Thread -> what the thread runs from the file]
  accepted,  \* deliveries GitHub was told are queued
  lane,      \* deliveries the degraded lane has claimed
  sent       \* [Delivery -> how often GitHub sent it]

stores == <<file, pg>>
outside == <<pgUp, outages, fleet>>
serving == <<backend, phase, crashes>>
volatile == <<request, helper, since, moving, work>>
history == <<accepted, lane, sent>>
vars == <<stores, outside, serving, volatile, history>>

(* "waiting" is queued or retry, "ended" is done or failed; in the table    *)
(* "ended" also stands for superseded, cancelled and dead, and "stopping"  *)
(* is a running row with cancel_requested set.                             *)
FileLive == {"waiting", "running"}
ShadowFinished == {"ended", "superseded"}
FileStatus == {"none", "migrated"} \cup FileLive \cup ShadowFinished
PgRunning == {"running", "stopping"}
PgLive == {"waiting"} \cup PgRunning
PgStatus == {"none", "ended", "exported"} \cup PgLive
FileMode == {"sqlite", "shadow", "rollback"}
BlankFile == [status |-> "none", attempts |-> 0, id |-> 0]
BlankPg == [status |-> "none", attempts |-> 0]
Still == [left |-> {}, mark |-> {}]
Free == [pc |-> "idle", d |-> None, status |-> "none"]

-----------------------------------------------------------------------------
(* The two inserts *)

OtherHead(d, x) == /\ Job[d].kind \in Supersedable /\ Job[x].kind \in Supersedable
                   /\ Job[d].pr = Job[x].pr /\ Job[d].ref # Job[x].ref
SameHead(d, x) == /\ Job[d] = Job[x] /\ Job[d].kind \in Supersedable

FileTakes(d) == file[d].status = "none"

(* Rows are never deleted, so the next id follows from their number. *)
NextId == 1 + Cardinality({x \in Delivery : ~FileTakes(x)})

(* A fresh row retires the file's waiting rows of the other heads. *)
FileWith(d) ==
  [x \in Delivery |->
     IF x = d THEN [status |-> "waiting", attempts |-> 0, id |-> NextId]
     ELSE IF OtherHead(d, x) /\ file[x].status = "waiting"
       THEN [file[x] EXCEPT !.status = "superseded"]
     ELSE file[x]]

FileEnqueue(d) == file' = IF FileTakes(d) THEN FileWith(d) ELSE file

(* The table refuses a known delivery id and a head that has a live row. *)
PgTakes(d) == /\ pg[d].status = "none"
              /\ \A x \in Delivery \ {d} : SameHead(d, x) => pg[x].status \notin PgLive

PgWith(d, attempts) ==
  [x \in Delivery |->
     IF x = d THEN [status |-> "waiting", attempts |-> attempts]
     ELSE IF OtherHead(d, x) /\ pg[x].status = "waiting"
       THEN [pg[x] EXCEPT !.status = "ended"]
     ELSE IF OtherHead(d, x) /\ pg[x].status = "running"
       THEN [pg[x] EXCEPT !.status = "stopping"]
     ELSE pg[x]]

PgEnqueue(d, attempts) == pg' = IF PgTakes(d) THEN PgWith(d, attempts) ELSE pg

(* Mutant of Marked: the mark of the other direction. *)
MarkedExported(d) == IF file[d].status \in FileLive
                       THEN [file EXCEPT ![d].status = "exported"] ELSE file

(* mark_rows: only a row in flight is handed over. *)
Marked(d) == IF file[d].status \in FileLive
               THEN [file EXCEPT ![d].status = "migrated"] ELSE file

-----------------------------------------------------------------------------
(* The ingress *)

(* A delivery arrives, perhaps again. *)
Deliver(d) ==
  /\ phase = "up" /\ request[d] = "none" /\ helper[d] = "none"
  /\ sent[d] > 0 => Cardinality({x \in Delivery : sent[x] > 1}) < MaxRepeat
  /\ sent[d] < 2
  /\ sent' = [sent EXCEPT ![d] = @ + 1]
  /\ IF backend = "postgres"
       THEN /\ request' = [request EXCEPT ![d] = "asked"]
            /\ helper' = [helper EXCEPT ![d] = "open"]
            /\ UNCHANGED <<file, accepted>>
       ELSE /\ FileEnqueue(d)
            /\ accepted' = IF FileTakes(d) THEN accepted \cup {d} ELSE accepted
            /\ request' = [request EXCEPT ![d] =
                             IF backend = "shadow" /\ FileTakes(d) THEN "twin" ELSE "none"]
            /\ UNCHANGED helper
  /\ UNCHANGED <<pg, outside, serving, since, moving, work, lane>>

(* ShadowQueue.enqueue writes the twin; an error is counted and dropped. *)
WriteTwin(d) ==
  /\ phase = "up" /\ request[d] = "twin"
  /\ IF pgUp THEN PgEnqueue(d, 0) ELSE UNCHANGED pg
  /\ request' = [request EXCEPT ![d] = "none"]
  /\ UNCHANGED <<file, outside, serving, helper, since, moving, work, history>>

(* The helper thread's call commits, or fails. *)
HelperWrites(d) ==
  /\ helper[d] = "open" /\ pgUp
  /\ PgEnqueue(d, 0)
  /\ helper' = [helper EXCEPT ![d] = IF PgTakes(d) THEN "accepted" ELSE "refused"]
  /\ UNCHANGED <<file, outside, serving, request, since, moving, work, history>>

HelperFails(d) ==
  /\ helper[d] = "open" /\ ~pgUp
  /\ helper' = [helper EXCEPT ![d] = "failed"]
  /\ UNCHANGED <<stores, outside, serving, request, since, moving, work, history>>

(* The value is handed over in time. *)
Answered(d) ==
  /\ request[d] = "asked" /\ helper[d] \in {"accepted", "refused"}
  /\ request' = [request EXCEPT ![d] = "none"]
  /\ helper' = [helper EXCEPT ![d] = "none"]
  /\ since' = "unset"
  /\ accepted' = IF helper[d] = "accepted" THEN accepted \cup {d} ELSE accepted
  /\ UNCHANGED <<stores, outside, serving, moving, work, lane, sent>>

MarkDown == since' = IF since = "unset" THEN "set" ELSE since

(* The call raised, or its time is up: whatever it still brings is late. *)
GiveUp(d) ==
  /\ request[d] = "asked" /\ (d \in Slow \/ helper[d] = "failed")
  /\ request' = [request EXCEPT ![d] = "spooling"]
  /\ helper' = [helper EXCEPT ![d] = IF @ = "failed" THEN "none" ELSE @]
  /\ MarkDown
  /\ UNCHANGED <<stores, outside, serving, moving, work, history>>

SpoolWrite(d) ==
  /\ request[d] = "spooling"
  /\ FileEnqueue(d)
  /\ accepted' = IF FileTakes(d) THEN accepted \cup {d} ELSE accepted
  /\ request' = [request EXCEPT ![d] = "none"]
  /\ UNCHANGED <<pg, outside, serving, helper, since, moving, work, lane, sent>>

(* A late answer looks for the spool's copy once that has been written; a  *)
(* late refusal or error is dropped.                                       *)
LateAnswer(d) ==
  /\ request[d] = "none" /\ helper[d] \in {"accepted", "refused", "failed"}
  /\ IF helper[d] = "accepted" /\ file[d].status = "waiting"
       THEN helper' = [helper EXCEPT ![d] = "retiring"] /\ UNCHANGED since
       ELSE /\ helper' = [helper EXCEPT ![d] = "none"]
            /\ since' = IF helper[d] = "accepted" THEN "unset" ELSE since
  /\ UNCHANGED <<stores, outside, serving, request, moving, work, history>>

RetireSpooled(d) ==
  /\ helper[d] = "retiring"
  /\ file' = Marked(d)
  /\ helper' = [helper EXCEPT ![d] = "none"]
  /\ since' = "unset"
  /\ UNCHANGED <<pg, outside, serving, request, moving, work, history>>

-----------------------------------------------------------------------------
(* Rows on the move: the forwarder's pass and the boot's import share this *)
(* shape: a list read once, then an insert and a mark per row.             *)

(* Mutant of Exported: a row that failed once in the file is left there. *)
ExportedFresh(statuses) ==
  {[d |-> d, attempts |-> 0] :
     d \in {x \in Delivery : file[x].status \in statuses /\ file[x].attempts = 0}}

(* export_rows *)
Exported(statuses) ==
  {[d |-> d, attempts |-> file[d].attempts] : d \in {x \in Delivery : file[x].status \in statuses}}

ForwardRead ==
  /\ phase = "up" /\ backend = "postgres" /\ moving = Still
  /\ Exported({"waiting"}) # {}
  /\ moving' = [Still EXCEPT !.left = Exported({"waiting"})]
  /\ UNCHANGED <<stores, outside, serving, request, helper, since, work, history>>

(* Mutant of MoveInsert: a failed insert does not stop the mark. *)
MoveInsertBlind ==
  /\ phase \in {"up", "importing"} /\ moving.mark = {}
  /\ \E r \in moving.left :
       /\ IF pgUp THEN PgEnqueue(r.d, r.attempts) ELSE UNCHANGED pg
       /\ moving' = [left |-> moving.left \ {r}, mark |-> {r.d}]
  /\ UNCHANGED <<file, outside, serving, request, helper, since, work, history>>

(* In the order of the file's row ids. *)
MoveInsert ==
  /\ phase \in {"up", "importing"} /\ moving.mark = {} /\ pgUp
  /\ \E r \in moving.left :
       /\ \A x \in moving.left : file[r.d].id <= file[x.d].id
       /\ PgEnqueue(r.d, r.attempts)
       /\ moving' = [left |-> moving.left \ {r}, mark |-> {r.d}]
  /\ since' = IF phase = "up" THEN "unset" ELSE since
  /\ UNCHANGED <<file, outside, serving, request, helper, work, history>>

MoveMark ==
  /\ phase \in {"up", "importing"}
  /\ \E d \in moving.mark : file' = Marked(d)
  /\ moving' = [moving EXCEPT !.mark = {}]
  /\ UNCHANGED <<pg, outside, serving, request, helper, since, work, history>>

(* The forwarder's insert fails: the pass ends, the next one starts over. *)
ForwardFails ==
  /\ phase = "up" /\ moving.left # {} /\ moving.mark = {} /\ ~pgUp
  /\ moving' = Still
  /\ MarkDown
  /\ UNCHANGED <<stores, outside, serving, request, helper, work, history>>

ForwardPing ==
  /\ phase = "up" /\ backend = "postgres" /\ moving = Still
  /\ pgUp /\ since # "unset"
  /\ \A d \in Delivery : file[d].status \notin FileLive
  /\ since' = "unset"
  /\ UNCHANGED <<stores, outside, serving, request, helper, moving, work, history>>

-----------------------------------------------------------------------------
(* Claims and completions *)

PgClaimable(d) == pg[d].status = "waiting" /\ pg[d].attempts < Budget[Job[d].kind]
PgStarted(d) == [pg EXCEPT ![d] = [status |-> "running", attempts |-> @.attempts + 1]]

(* A thread of the serving process asks the table, which answers: with a   *)
(* row, or with nothing.  From there the row is a worker's like any other. *)
ClaimTable(t) ==
  /\ phase = "up" /\ backend = "postgres" /\ work[t] = Free /\ pgUp
  /\ since' = "unset"
  /\ \/ UNCHANGED pg
     \/ \E d \in Delivery : PgClaimable(d) /\ pg' = PgStarted(d)
  /\ UNCHANGED <<file, outside, serving, request, helper, moving, work, history>>

(* ... or it does not: after the threshold the thread turns to the file. *)
ClaimFails(t) ==
  /\ phase = "up" /\ backend = "postgres" /\ work[t] = Free /\ ~pgUp
  /\ MarkDown
  /\ work' = IF since = "long" /\ LaneKinds # {}
               THEN [work EXCEPT ![t].pc = "lane"] ELSE work
  /\ UNCHANGED <<stores, outside, serving, request, helper, moving, history>>

FileClaimable(d) == file[d].status = "waiting" /\ file[d].attempts < FileTries
FileStarted(d) ==
  [file EXCEPT ![d] = [status |-> "running", attempts |-> @.attempts + 1, id |-> @.id]]
Runs(t, d) == [work EXCEPT ![t] = [pc |-> "run", d |-> d, status |-> "none"]]

ClaimLane(t) ==
  /\ work[t].pc = "lane"
  /\ \/ /\ \A d \in Delivery : FileClaimable(d) => Job[d].kind \notin LaneKinds
        /\ work' = [work EXCEPT ![t] = Free]
        /\ UNCHANGED <<file, lane>>
     \/ \E d \in Delivery :
          /\ FileClaimable(d) /\ Job[d].kind \in LaneKinds
          /\ file' = FileStarted(d)
          /\ work' = Runs(t, d)
          /\ lane' = lane \cup {d}
  /\ UNCHANGED <<pg, outside, serving, request, helper, since, moving, accepted, sent>>

(* On the backends whose queue is the file. *)
ClaimFile(t) ==
  /\ phase = "up" /\ backend \in FileMode /\ work[t] = Free
  /\ \E d \in Delivery :
       /\ FileClaimable(d)
       /\ file' = FileStarted(d)
       /\ work' = Runs(t, d)
  /\ UNCHANGED <<pg, outside, serving, request, helper, since, moving, history>>

(* WebhookQueue.complete writes the row whatever its status has become.  A *)
(* retryable failure reads the attempts first and writes in a second step. *)
Complete(t) ==
  /\ work[t].pc = "run"
  /\ file' = [file EXCEPT ![work[t].d].status = "ended"]
  /\ work' = [work EXCEPT ![t] = Free]
  /\ UNCHANGED <<pg, outside, serving, request, helper, since, moving, history>>

CompleteRead(t) ==
  /\ work[t].pc = "run"
  /\ LET left == file[work[t].d].attempts < FileTries
     IN work' = [work EXCEPT ![t] = [pc |-> "write", d |-> @.d,
                                     status |-> IF left THEN "waiting" ELSE "ended"]]
  /\ UNCHANGED <<stores, outside, serving, request, helper, since, moving, history>>

CompleteWrite(t) ==
  /\ work[t].pc = "write"
  /\ file' = [file EXCEPT ![work[t].d].status = work[t].status]
  /\ work' = [work EXCEPT ![t] = Free]
  /\ UNCHANGED <<pg, outside, serving, request, helper, since, moving, history>>

(* The table's workers, on any machine.  An export holds the rows' locks. *)
PgStart(d) ==
  /\ fleet /\ pgUp /\ phase # "exporting"
  /\ PgClaimable(d) /\ pg' = PgStarted(d)
  /\ UNCHANGED <<file, outside, serving, volatile, history>>

PgStop(d) ==
  /\ pgUp /\ phase # "exporting" /\ pg[d].status \in PgRunning
  /\ \/ pg' = [pg EXCEPT ![d].status = "ended"]
     \/ /\ pg[d].attempts < Budget[Job[d].kind]
        /\ pg' = [pg EXCEPT ![d].status = "waiting"]
  /\ UNCHANGED <<file, outside, serving, volatile, history>>

-----------------------------------------------------------------------------
(* Boots, ends and outages *)

(* Mutant of FileRecovered: everything the file did not finish runs again. *)
FileRecoveredAll ==
  [d \in Delivery |->
     IF file[d].status \notin {"running", "migrated"} THEN file[d]
     ELSE [file[d] EXCEPT !.status = "waiting"]]

(* WebhookQueue.recover_stale: what the last process left running. *)
FileRecovered ==
  [d \in Delivery |->
     IF file[d].status # "running" THEN file[d]
     ELSE [file[d] EXCEPT !.status = IF file[d].attempts < FileTries
                                       THEN "waiting" ELSE "ended"]]

(* Mutant of TwinsRetired: only what is in flight is looked at. *)
TwinsKept ==
  [d \in Delivery |->
     IF pg[d].status = "waiting" /\ file[d].status = "superseded"
       THEN [pg[d] EXCEPT !.status = "ended"] ELSE pg[d]]

(* Rows whose original the file has finished itself are shadow twins. *)
TwinsRetired ==
  [d \in Delivery |->
     IF pg[d].status = "waiting" /\ file[d].status \in ShadowFinished
       THEN [pg[d] EXCEPT !.status = "ended"] ELSE pg[d]]

MayBoot(b) == /\ phase = "down"
              /\ b = backend \/ <<backend, b>> \in Switch
              /\ backend' = b

BootOnFile(b) ==
  /\ MayBoot(b)
  /\ b \in {"sqlite", "shadow"} /\ (b = "shadow" => pgUp)
  /\ phase' = "up"
  /\ file' = FileRecovered
  /\ UNCHANGED <<pg, outside, crashes, volatile, history>>

BootOnPostgres ==
  /\ MayBoot("postgres") /\ pgUp
  /\ phase' = "importing"
  /\ pg' = TwinsRetired
  /\ moving' = [Still EXCEPT !.left = Exported(FileLive)]
  /\ UNCHANGED <<file, outside, crashes, request, helper, since, work, history>>

Imported ==
  /\ phase = "importing" /\ moving = Still
  /\ phase' = "up" /\ fleet' = TRUE
  /\ file' = FileRecovered
  /\ UNCHANGED <<pg, pgUp, outages, backend, crashes, volatile, history>>

BootForRollback ==
  /\ MayBoot("rollback") /\ pgUp
  /\ phase' = "exporting" /\ fleet' = FALSE
  /\ moving' = [Still EXCEPT !.left = {[d |-> d, attempts |-> pg[d].attempts] :
                                   d \in {x \in Delivery : pg[x].status \in PgLive}}]
  /\ UNCHANGED <<stores, pgUp, outages, crashes, request, helper, since, work, history>>

(* import_row: an insert that a row of the same delivery id refuses. *)
ImportedRow(r) == [status |-> "waiting", id |-> NextId,
                   attempts |-> IF r.attempts < FileTries THEN r.attempts ELSE FileTries - 1]

ExportRow ==
  /\ phase = "exporting"
  /\ \E r \in moving.left :
       /\ file' = IF FileTakes(r.d) THEN [file EXCEPT ![r.d] = ImportedRow(r)] ELSE file
       /\ moving' = [moving EXCEPT !.left = @ \ {r}]
  /\ UNCHANGED <<pg, outside, serving, request, helper, since, work, history>>

ExportCommit ==
  /\ phase = "exporting" /\ moving = Still /\ pgUp
  /\ phase' = "up"
  /\ pg' = [d \in Delivery |-> IF pg[d].status \in PgLive
                                 THEN [pg[d] EXCEPT !.status = "exported"] ELSE pg[d]]
  /\ file' = FileRecovered
  /\ UNCHANGED <<outside, backend, crashes, volatile, history>>

Gone == /\ phase' = "down"
        /\ request' = [d \in Delivery |-> "none"]
        /\ helper' = [d \in Delivery |-> "none"]
        /\ since' = "unset"
        /\ moving' = Still
        /\ work' = [t \in Thread |-> Free]
        /\ UNCHANGED <<stores, outside, backend, history>>

Crash == /\ phase # "down" /\ crashes < MaxCrash
         /\ crashes' = crashes + 1
         /\ Gone

(* open_queue raises when Postgres does not answer it. *)
BootFails == /\ phase \in {"importing", "exporting"} /\ ~pgUp
             /\ UNCHANGED crashes
             /\ Gone

Outage == /\ pgUp /\ outages < MaxOutage
          /\ pgUp' = FALSE /\ outages' = outages + 1
          /\ UNCHANGED <<stores, fleet, serving, volatile, history>>

OutageOver == /\ ~pgUp /\ pgUp' = TRUE
              /\ UNCHANGED <<stores, outages, fleet, serving, volatile, history>>

(* The outage outlives the threshold. *)
LongOutage == /\ since = "set" /\ since' = "long"
              /\ UNCHANGED <<stores, outside, serving, request, helper, moving, work, history>>

-----------------------------------------------------------------------------
Init ==
  /\ file = [d \in Delivery |-> BlankFile]
  /\ pg = [d \in Delivery |-> BlankPg]
  /\ pgUp = TRUE /\ outages = 0
  /\ backend = First /\ phase = "down" /\ crashes = 0 /\ fleet = FALSE
  /\ request = [d \in Delivery |-> "none"] /\ helper = [d \in Delivery |-> "none"]
  /\ since = "unset" /\ moving = Still
  /\ work = [t \in Thread |-> Free]
  /\ accepted = {} /\ lane = {} /\ sent = [d \in Delivery |-> 0]

RequestStep(d) == WriteTwin(d) \/ Answered(d) \/ GiveUp(d) \/ SpoolWrite(d)
HelperStep(d) == HelperWrites(d) \/ HelperFails(d) \/ LateAnswer(d) \/ RetireSpooled(d)
ForwardStep == ForwardRead \/ MoveInsert \/ MoveMark \/ ForwardFails
EndFileJob(t) == Complete(t) \/ CompleteRead(t) \/ CompleteWrite(t)
BootStep == \/ \E b \in Backend : BootOnFile(b)
            \/ BootOnPostgres \/ Imported
            \/ BootForRollback \/ ExportRow \/ ExportCommit \/ BootFails

Next ==
  \/ \E d \in Delivery : Deliver(d) \/ RequestStep(d) \/ HelperStep(d) \/ PgStart(d) \/ PgStop(d)
  \/ ForwardStep \/ ForwardPing
  \/ \E t \in Thread : \/ ClaimTable(t) \/ ClaimFails(t) \/ ClaimLane(t) \/ ClaimFile(t)
                       \/ EndFileJob(t)
  \/ BootStep \/ Crash \/ Outage \/ OutageOver \/ LongOutage

Spec == Init /\ [][Next]_vars

(* Some thread of the service, some worker of the table or a pending boot  *)
(* moves while any of them can, and Postgres comes back.  Nothing is said  *)
(* of which one moves.                                                     *)
ServiceStep ==
  \/ \E d \in Delivery : RequestStep(d) \/ HelperStep(d) \/ PgStart(d) \/ PgStop(d)
  \/ ForwardStep
  \/ \E t \in Thread : ClaimLane(t) \/ ClaimFile(t) \/ EndFileJob(t)
  \/ BootStep

FairSpec == Spec /\ WF_vars(ServiceStep) /\ WF_vars(OutageOver)

-----------------------------------------------------------------------------
(* Properties *)

FileRow == [status : FileStatus, attempts : Nat, id : Nat]
PgRow == [status : PgStatus, attempts : Nat]
Piece == [pc : {"idle", "lane", "run", "write"}, d : Delivery \cup {None}, status : FileStatus]

TypeOK ==
  /\ file \in [Delivery -> FileRow] /\ pg \in [Delivery -> PgRow]
  /\ pgUp \in BOOLEAN /\ outages \in 0..MaxOutage
  /\ backend \in Backend /\ phase \in {"down", "importing", "exporting", "up"}
  /\ crashes \in 0..MaxCrash /\ fleet \in BOOLEAN
  /\ request \in [Delivery -> {"none", "asked", "twin", "spooling"}]
  /\ helper \in [Delivery -> {"none", "open", "accepted", "refused", "failed", "retiring"}]
  /\ since \in {"unset", "set", "long"}
  /\ moving \in [left : SUBSET [d : Delivery, attempts : Nat], mark : SUBSET Delivery]
  /\ work \in [Thread -> Piece]
  /\ accepted \subseteq Delivery /\ lane \subseteq Delivery /\ sent \in [Delivery -> Nat]

(* A store holds the delivery, or the table holds a row of its head. *)
Held(d) == \/ file[d].status \notin {"none", "migrated"}
           \/ pg[d].status \notin {"none", "exported"}
           \/ \E x \in Delivery \ {d} : SameHead(d, x) /\ pg[x].status # "none"

HandedBothWays(d) == file[d].status = "migrated" /\ pg[d].status = "exported"

(* What GitHub was told is queued is in a store, through timeouts, outages, *)
(* crashes and switches of the backend; the one exception is a delivery    *)
(* that was moved to Postgres and then rolled back (see SwitchKeepsAll).   *)
NoDeliveryLost == \A d \in accepted : Held(d) \/ HandedBothWays(d)

(* "Switching backends never loses a job" (webhook_backend.py:20). *)
SwitchKeepsAll == \A d \in accepted : Held(d)

(* The table does not start what the file has run to its end (the shadow    *)
(* twins, the rows an import finds) unless the degraded lane ran it, whose *)
(* twin may already have been on its way.                                  *)
FinishedStaysFinished ==
  [][\A d \in Delivery :
       /\ pg'[d].status = "running" /\ pg[d].status = "waiting"
       /\ file[d].status = "ended"
       => d \in lane \/ sent[d] > 1]_vars

(* A row handed over never becomes runnable in the file again, unless the  *)
(* degraded lane was running it when it was handed over.                   *)
HandedOverStays ==
  [][\A d \in Delivery :
       file[d].status = "migrated" /\ file'[d].status # "migrated" => d \in lane]_vars

(* A row that carries more attempts than the table's cap admits: no claim  *)
(* takes it.                                                               *)
Spent(d) == pg[d].status = "waiting" /\ pg[d].attempts >= Budget[Job[d].kind]

(* A delivery that has not come to its end: a store whose rows count has   *)
(* it waiting or running, or each store handed it to the other.            *)
Open(d) == \/ file[d].status \in FileLive
           \/ backend = "postgres" /\ pg[d].status \in PgLive
           \/ HandedBothWays(d)

(* No step takes it any further. *)
Stuck(d) == \/ file[d].status \notin FileLive /\ Spent(d)
            \/ HandedBothWays(d)

(* What the docs promise: every delivery comes to its end. The code does   *)
(* not keep it, a delivery may be stuck for good.                          *)
EveryDeliveryEnds == <>[](\A d \in Delivery : ~Open(d))

(* A delivery comes to its end in the stores that count, or to one of two  *)
(* dead ends: it went to the table with more attempts than its budget      *)
(* there, or to the table and back.  Nothing else holds one up, and the    *)
(* spool drains: no copy waits for ever in a file nobody reads.            *)
EndsOrSticks == <>[](\A d \in Delivery : Open(d) => Stuck(d))
=============================================================================
