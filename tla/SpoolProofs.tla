---------------------------- MODULE SpoolProofs -----------------------------
(***************************************************************************)
(* Proofs about Spool: type correctness, and that no accepted delivery is  *)
(* lost, for any set of deliveries, backends, switches and bounds.         *)
(***************************************************************************)
EXTENDS Spool, FiniteSetTheorems, TLAPS

USE SpoolConstants DEF Kind

(* Row ids are numbers: the file is finite. *)
LEMMA IdType == NextId \in Nat
<1>1. IsFiniteSet({x \in Delivery : ~FileTakes(x)})
  BY FS_Subset
<1>. QED
  BY <1>1, FS_CardinalityType DEF NextId

LEMMA FileWithType ==
  ASSUME file \in [Delivery -> FileRow], NEW d \in Delivery
  PROVE  FileWith(d) \in [Delivery -> FileRow]
  BY IdType DEF FileWith, FileRow, FileStatus, FileLive, ShadowFinished

LEMMA PgWithType ==
  ASSUME pg \in [Delivery -> PgRow], NEW d \in Delivery, NEW n \in Nat
  PROVE  PgWith(d, n) \in [Delivery -> PgRow]
  BY DEF PgWith, PgRow, PgStatus, PgLive, PgRunning

LEMMA PgEnqueueType ==
  ASSUME pg \in [Delivery -> PgRow], NEW d \in Delivery, NEW n \in Nat, PgEnqueue(d, n)
  PROVE  pg' \in [Delivery -> PgRow]
  BY PgWithType DEF PgEnqueue

LEMMA FileEnqueueType ==
  ASSUME file \in [Delivery -> FileRow], NEW d \in Delivery, FileEnqueue(d)
  PROVE  file' \in [Delivery -> FileRow]
  BY FileWithType DEF FileEnqueue

LEMMA MarkedType ==
  ASSUME file \in [Delivery -> FileRow], NEW d \in Delivery
  PROVE  Marked(d) \in [Delivery -> FileRow]
  BY DEF Marked, FileRow, FileStatus, FileLive, ShadowFinished

LEMMA FileStartedType ==
  ASSUME file \in [Delivery -> FileRow], NEW d \in Delivery
  PROVE  FileStarted(d) \in [Delivery -> FileRow]
  BY DEF FileStarted, FileRow, FileStatus, FileLive

LEMMA PgStartedType ==
  ASSUME pg \in [Delivery -> PgRow], NEW d \in Delivery
  PROVE  PgStarted(d) \in [Delivery -> PgRow]
  BY DEF PgStarted, PgRow, PgStatus, PgLive, PgRunning

LEMMA RowMarkedType ==
  ASSUME file \in [Delivery -> FileRow], NEW d \in Delivery, NEW s \in FileStatus
  PROVE  [file EXCEPT ![d].status = s] \in [Delivery -> FileRow]
<1>1. [file[d] EXCEPT !.status = s] \in FileRow
  BY DEF FileRow
<1>. QED
  BY <1>1

LEMMA PgMarkedType ==
  ASSUME pg \in [Delivery -> PgRow], NEW d \in Delivery, NEW s \in PgStatus
  PROVE  [pg EXCEPT ![d].status = s] \in [Delivery -> PgRow]
<1>1. [pg[d] EXCEPT !.status = s] \in PgRow
  BY DEF PgRow
<1>. QED
  BY <1>1

LEMMA RecoveredType ==
  ASSUME file \in [Delivery -> FileRow]
  PROVE  FileRecovered \in [Delivery -> FileRow]
  BY DEF FileRecovered, FileRow, FileStatus, FileLive, ShadowFinished

LEMMA ExportedType ==
  ASSUME file \in [Delivery -> FileRow], NEW S
  PROVE  Exported(S) \in SUBSET [d : Delivery, attempts : Nat]
  BY DEF Exported, FileRow

-----------------------------------------------------------------------------
(* Type correctness *)

LEMMA InitType == Init => TypeOK
<1>. SUFFICES ASSUME Init PROVE TypeOK
  OBVIOUS
<1>1. file \in [Delivery -> FileRow] /\ pg \in [Delivery -> PgRow]
  BY DEF Init, BlankFile, BlankPg, FileRow, PgRow, FileStatus, PgStatus
<1>2. outages \in 0..MaxOutage /\ crashes \in 0..MaxCrash
  BY DEF Init
<1>3. work \in [Thread -> Piece]
  BY DEF Init, Free, FileStatus, Piece
<1>. QED
  BY <1>1, <1>2, <1>3 DEF Init, TypeOK, Still

LEMMA RequestType ==
  ASSUME TypeOK, NEW d \in Delivery, Deliver(d) \/ RequestStep(d)
  PROVE  TypeOK'
<1>. USE DEF TypeOK, outside, serving, history, stores
<1>1. CASE Deliver(d)
  <2>0. sent' = [sent EXCEPT ![d] = @ + 1]
    BY <1>1 DEF Deliver
  <2>1. sent' \in [Delivery -> Nat]
    BY <2>0
  <2>6. request' \in [Delivery -> {"none", "asked", "twin", "spooling"}]
    BY <1>1 DEF Deliver
  <2>2. helper' \in [Delivery -> {"none", "open", "accepted", "refused", "failed", "retiring"}]
    BY <1>1 DEF Deliver
  <2>3. accepted' \subseteq Delivery
    BY <1>1 DEF Deliver
  <2>4. file' \in [Delivery -> FileRow]
    BY <1>1, FileEnqueueType DEF Deliver
  <2>5. UNCHANGED <<pg, pgUp, outages, fleet, backend, phase, crashes, since, moving, work, lane>>
    BY <1>1 DEF Deliver
  <2>. QED
    BY <2>1, <2>2, <2>3, <2>4, <2>5, <2>6
<1>2. CASE WriteTwin(d)
  BY <1>2, PgEnqueueType DEF WriteTwin
<1>3. CASE Answered(d)
  BY <1>3 DEF Answered
<1>4. CASE GiveUp(d)
  BY <1>4 DEF GiveUp, MarkDown
<1>5. CASE SpoolWrite(d)
  BY <1>5, FileEnqueueType DEF SpoolWrite
<1>. QED
  BY <1>1, <1>2, <1>3, <1>4, <1>5 DEF RequestStep

LEMMA HelperType ==
  ASSUME TypeOK, NEW d \in Delivery, HelperStep(d)
  PROVE  TypeOK'
<1>. USE DEF TypeOK, outside, serving, history, stores
<1>1. CASE HelperWrites(d)
  BY <1>1, PgEnqueueType DEF HelperWrites
<1>2. CASE HelperFails(d)
  BY <1>2 DEF HelperFails
<1>3. CASE LateAnswer(d)
  BY <1>3 DEF LateAnswer
<1>4. CASE RetireSpooled(d)
  BY <1>4, MarkedType DEF RetireSpooled
<1>. QED
  BY <1>1, <1>2, <1>3, <1>4 DEF HelperStep

LEMMA ForwardType ==
  ASSUME TypeOK, ForwardStep \/ ForwardPing
  PROVE  TypeOK'
<1>. USE DEF TypeOK, outside, serving, history, stores
<1>1. CASE ForwardRead
  BY <1>1, ExportedType DEF ForwardRead, Still
<1>2. CASE MoveInsert
  BY <1>2, PgEnqueueType DEF MoveInsert
<1>3. CASE MoveMark
  <2>1. PICK d \in moving.mark : file' = Marked(d)
    BY <1>3 DEF MoveMark
  <2>2. file' \in [Delivery -> FileRow]
    BY <2>1, MarkedType
  <2>. QED
    BY <1>3, <2>2 DEF MoveMark
<1>4. CASE ForwardFails
  BY <1>4 DEF ForwardFails, MarkDown, Still
<1>5. CASE ForwardPing
  BY <1>5 DEF ForwardPing
<1>. QED
  BY <1>1, <1>2, <1>3, <1>4, <1>5 DEF ForwardStep

LEMMA ThreadType ==
  ASSUME TypeOK, NEW t \in Thread,
         ClaimTable(t) \/ ClaimFails(t) \/ ClaimLane(t) \/ ClaimFile(t) \/ EndFileJob(t)
  PROVE  TypeOK'
<1>. USE DEF TypeOK, outside, serving, history, stores
<1>0. "ended" \in FileStatus /\ "waiting" \in FileStatus /\ "none" \in FileStatus
  BY DEF FileStatus, ShadowFinished, FileLive
<1>f. Free \in Piece
  BY <1>0 DEF Piece, Free
<1>w. work[t] \in Piece
  OBVIOUS
<1>1. CASE ClaimTable(t)
  BY <1>1, PgStartedType DEF ClaimTable
<1>2. CASE ClaimFails(t)
  <2>1. work' \in [Thread -> Piece]
    BY <1>2, <1>w DEF ClaimFails, Piece
  <2>. QED
    BY <1>2, <2>1 DEF ClaimFails, MarkDown
<1>3. CASE ClaimLane(t)
  <2>1. file' \in [Delivery -> FileRow]
    BY <1>3, FileStartedType DEF ClaimLane
  <2>2. work' \in [Thread -> Piece]
    <3>1. \A d \in Delivery : [pc |-> "run", d |-> d, status |-> "none"] \in Piece
      BY <1>0 DEF Piece
    <3>. QED
      BY <1>3, <1>f, <3>1 DEF ClaimLane, Runs
  <2>3. lane' \subseteq Delivery
    BY <1>3 DEF ClaimLane
  <2>. QED
    BY <1>3, <2>1, <2>2, <2>3 DEF ClaimLane
<1>4. CASE ClaimFile(t)
  <2>1. file' \in [Delivery -> FileRow]
    BY <1>4, FileStartedType DEF ClaimFile
  <2>2. work' \in [Thread -> Piece]
    BY <1>4, <1>0 DEF ClaimFile, Runs, Piece
  <2>. QED
    BY <1>4, <2>1, <2>2 DEF ClaimFile
<1>5. CASE EndFileJob(t)
  <2>1. file' \in [Delivery -> FileRow]
    <3>1. CASE work[t].d \in Delivery
      BY <1>5, <1>0, <1>w, <3>1, RowMarkedType DEF Piece, EndFileJob, Complete, CompleteRead, CompleteWrite
    <3>2. CASE work[t].d \notin Delivery
      BY <1>5, <3>2 DEF EndFileJob, Complete, CompleteRead, CompleteWrite
    <3>. QED
      BY <3>1, <3>2
  <2>2. work' \in [Thread -> Piece]
    <3>1. CASE CompleteRead(t)
      BY <3>1, <1>0, <1>w DEF CompleteRead, Piece
    <3>2. CASE Complete(t) \/ CompleteWrite(t)
      BY <3>2, <1>f DEF Complete, CompleteWrite
    <3>. QED
      BY <1>5, <3>1, <3>2 DEF EndFileJob
  <2>. QED
    BY <1>5, <2>1, <2>2 DEF EndFileJob, Complete, CompleteRead, CompleteWrite
<1>. QED
  BY <1>1, <1>2, <1>3, <1>4, <1>5

LEMMA TableType ==
  ASSUME TypeOK, NEW d \in Delivery, PgStart(d) \/ PgStop(d)
  PROVE  TypeOK'
<1>. USE DEF TypeOK, outside, serving, volatile, history
<1>1. CASE PgStart(d)
  BY <1>1, PgStartedType DEF PgStart
<1>2. CASE PgStop(d)
  <2>1. "ended" \in PgStatus /\ "waiting" \in PgStatus
    BY DEF PgStatus, PgLive
  <2>2. pg' \in [Delivery -> PgRow]
    BY <1>2, <2>1, PgMarkedType DEF PgStop
  <2>. QED
    BY <1>2, <2>2 DEF PgStop
<1>. QED
  BY <1>1, <1>2

LEMMA BootType ==
  ASSUME TypeOK, BootStep \/ Crash \/ Outage \/ OutageOver \/ LongOutage
  PROVE  TypeOK'
<1>. USE DEF TypeOK, outside, serving, volatile, history, stores, Still
<1>1. ASSUME NEW b \in Backend, BootOnFile(b) PROVE TypeOK'
  BY <1>1, RecoveredType DEF BootOnFile, MayBoot
<1>2. CASE BootOnPostgres
  <2>1. TwinsRetired \in [Delivery -> PgRow]
    BY DEF TwinsRetired, PgRow, PgStatus
  <2>. QED
    BY <1>2, <2>1, ExportedType DEF BootOnPostgres, MayBoot, Backend
<1>3. CASE Imported
  BY <1>3, RecoveredType DEF Imported
<1>4. CASE BootForRollback
  <2>1. {[d |-> d, attempts |-> pg[d].attempts] : d \in {x \in Delivery : pg[x].status \in PgLive}}
          \in SUBSET [d : Delivery, attempts : Nat]
    BY DEF PgRow
  <2>. QED
    BY <1>4, <2>1 DEF BootForRollback, MayBoot, Backend
<1>5. CASE ExportRow
  <2>1. \A r \in [d : Delivery, attempts : Nat] : ImportedRow(r) \in FileRow
    BY IdType DEF ImportedRow, FileRow, FileStatus, FileLive
  <2>. QED
    BY <1>5, <2>1 DEF ExportRow
<1>6. CASE ExportCommit
  <2>1. pg' \in [Delivery -> PgRow]
    <3>1. \A d \in Delivery : [pg[d] EXCEPT !.status = "exported"] \in PgRow
      BY DEF PgRow, PgStatus
    <3>. QED
      BY <1>6, <3>1 DEF ExportCommit
  <2>2. file' \in [Delivery -> FileRow]
    BY <1>6, RecoveredType DEF ExportCommit
  <2>. QED
    BY <1>6, <2>1, <2>2 DEF ExportCommit
<1>7. CASE BootFails \/ Crash
  BY <1>7 DEF BootFails, Crash, Gone, Free, FileStatus, Piece
<1>8. CASE Outage
  <2>1. outages' \in 0..MaxOutage
    BY <1>8 DEF Outage
  <2>. QED
    BY <1>8, <2>1 DEF Outage
<1>9. CASE OutageOver \/ LongOutage
  BY <1>9 DEF OutageOver, LongOutage
<1>. QED
  BY <1>1, <1>2, <1>3, <1>4, <1>5, <1>6, <1>7, <1>8, <1>9 DEF BootStep

LEMMA NextType == TypeOK /\ [Next]_vars => TypeOK'
<1>. SUFFICES ASSUME TypeOK, [Next]_vars PROVE TypeOK'
  OBVIOUS
<1>1. CASE UNCHANGED vars
  BY <1>1 DEF vars, stores, outside, serving, volatile, history, TypeOK
<1>2. CASE Next
  BY <1>2, RequestType, HelperType, ForwardType, ThreadType, TableType, BootType DEF Next
<1>. QED
  BY <1>1, <1>2

(* The stores, the process and its threads are well typed in every         *)
(* reachable state.                                                        *)
THEOREM SpoolTyping == Spec => []TypeOK
  BY InitType, NextType, PTL DEF Spec

-----------------------------------------------------------------------------
(* No delivery is lost *)

(* The table has a row of d, or one of its head. *)
Twin(d) == \/ pg[d].status # "none"
           \/ \E x \in Delivery \ {d} : SameHead(d, x) /\ pg[x].status # "none"

MigratedHasTwin == \A d \in Delivery : file[d].status = "migrated" => Twin(d)
MarkHasTwin == \A d \in moving.mark : Twin(d)
HelperHasRow == \A d \in Delivery : helper[d] \in {"accepted", "retiring"} => pg[d].status # "none"
AcceptedHasRow == \A d \in accepted : file[d].status # "none" \/ pg[d].status # "none"
ExportedHasFile == \A d \in Delivery : pg[d].status = "exported" => file[d].status # "none"

(* What a rollback's export still owes the file. *)
ExportCovers ==
  phase = "exporting" =>
    \A d \in Delivery : pg[d].status \in PgLive =>
      file[d].status # "none" \/ \E r \in moving.left : r.d = d

QuietBeforeUp == phase # "up" => \A d \in Delivery : helper[d] = "none" /\ request[d] = "none"
WritesEnd == \A t \in Thread : work[t].pc = "write" => work[t].status \in {"waiting", "ended"}

SafeInv == /\ TypeOK /\ MigratedHasTwin /\ MarkHasTwin /\ HelperHasRow /\ AcceptedHasRow
           /\ ExportedHasFile /\ ExportCovers /\ QuietBeforeUp /\ WritesEnd

(* What a step does to a row of the file: it never takes it out, and only  *)
(* the forwarder, the import or a late answer marks it as handed over.     *)
FileFate(d) ==
  /\ file[d].status # "none" => file'[d].status # "none"
  /\ file'[d].status = "migrated" =>
       file[d].status = "migrated" \/ helper[d] = "retiring" \/ d \in moving.mark

(* ... and to a row of the table: only the end of an export exports it.    *)
PgFate(d) ==
  /\ pg[d].status # "none" => pg'[d].status # "none"
  /\ pg'[d].status = "exported" =>
       \/ pg[d].status = "exported"
       \/ phase = "exporting" /\ moving = Still /\ pg[d].status \in PgLive

LEMMA FileWrites ==
  ASSUME TypeOK, NEW d \in Delivery, NEW x \in Delivery
  PROVE  /\ FileEnqueue(x) => FileFate(d) /\ file'[x].status # "none"
         /\ file' = Marked(x) /\ (helper[x] = "retiring" \/ x \in moving.mark) => FileFate(d)
         /\ file' = FileStarted(x) => FileFate(d)
         /\ file' = FileRecovered => FileFate(d)
<1>. USE DEF TypeOK, FileFate
<1>1. FileEnqueue(x) => FileFate(d) /\ file'[x].status # "none"
  BY DEF FileEnqueue, FileTakes, FileWith, FileRow
<1>2. file' = Marked(x) /\ (helper[x] = "retiring" \/ x \in moving.mark) => FileFate(d)
  BY DEF Marked, FileRow
<1>3. file' = FileStarted(x) => FileFate(d)
  BY DEF FileStarted
<1>4. file' = FileRecovered => FileFate(d)
  BY DEF FileRecovered, FileRow
<1>. QED
  BY <1>1, <1>2, <1>3, <1>4

LEMMA PgInserts ==
  ASSUME TypeOK, NEW x \in Delivery, NEW n \in Nat, PgEnqueue(x, n)
  PROVE  /\ \A d \in Delivery : PgFate(d)
         /\ PgTakes(x) => pg'[x].status # "none"
         /\ Twin(x)'
<1>. USE DEF TypeOK
<1>1. \A d \in Delivery : PgFate(d)
  BY DEF PgEnqueue, PgTakes, PgWith, PgRow, PgFate
<1>2. PgTakes(x) => pg'[x].status # "none"
  BY DEF PgEnqueue, PgWith
<1>3. Twin(x)'
  <2>1. CASE PgTakes(x)
    BY <1>2, <2>1 DEF Twin
  <2>2. CASE ~PgTakes(x)
    BY <2>2 DEF PgEnqueue, PgTakes, Twin, SameHead, PgLive, PgRunning
  <2>. QED
    BY <2>1, <2>2
<1>. QED
  BY <1>1, <1>2, <1>3

LEMMA PgWrites ==
  ASSUME TypeOK, NEW d \in Delivery, NEW x \in Delivery
  PROVE  /\ pg' = PgStarted(x) => PgFate(d)
         /\ pg' = TwinsRetired => PgFate(d)
         /\ \A s \in {"ended", "waiting"} : pg' = [pg EXCEPT ![x].status = s] => PgFate(d)
<1>. USE DEF TypeOK, PgFate
<1>1. pg' = PgStarted(x) => PgFate(d)
  BY DEF PgStarted
<1>2. pg' = TwinsRetired => PgFate(d)
  BY DEF TwinsRetired, PgRow
<1>3. \A s \in {"ended", "waiting"} : pg' = [pg EXCEPT ![x].status = s] => PgFate(d)
  BY DEF PgRow
<1>. QED
  BY <1>1, <1>2, <1>3

LEMMA FileMoves ==
  ASSUME SafeInv, Next, NEW d \in Delivery
  PROVE  FileFate(d)
<1>. USE DEF SafeInv, stores, FileFate
<1>1. ASSUME NEW x \in Delivery, Deliver(x) \/ RequestStep(x) PROVE FileFate(d)
  BY <1>1, FileWrites DEF RequestStep, Deliver, WriteTwin, Answered, GiveUp, SpoolWrite
<1>2. ASSUME NEW x \in Delivery, HelperStep(x) PROVE FileFate(d)
  BY <1>2, FileWrites DEF HelperStep, HelperWrites, HelperFails, LateAnswer, RetireSpooled
<1>3. ASSUME ForwardStep \/ ForwardPing PROVE FileFate(d)
  BY <1>3, FileWrites DEF ForwardStep, ForwardRead, MoveInsert, MoveMark, ForwardFails,
                          ForwardPing, TypeOK
<1>4. ASSUME NEW t \in Thread, ClaimTable(t) \/ ClaimFails(t) \/ ClaimLane(t) \/ ClaimFile(t)
      PROVE  FileFate(d)
  BY <1>4, FileWrites DEF ClaimTable, ClaimFails, ClaimLane, ClaimFile
<1>5. ASSUME NEW t \in Thread, EndFileJob(t) PROVE FileFate(d)
  <2>1. ASSUME NEW s \in {"ended", "waiting"}, file' = [file EXCEPT ![work[t].d].status = s]
        PROVE  FileFate(d)
    BY <2>1 DEF TypeOK, FileRow
  <2>. QED
    BY <1>5, <2>1 DEF EndFileJob, Complete, CompleteRead, CompleteWrite, WritesEnd
<1>6. ASSUME BootStep PROVE FileFate(d)
  <2>1. ASSUME ExportRow PROVE FileFate(d)
    BY <2>1 DEF ExportRow, FileTakes, ImportedRow, TypeOK
  <2>. QED
    BY <1>6, <2>1, FileWrites DEF BootStep, BootOnFile, BootOnPostgres, Imported, BootForRollback,
                                  ExportCommit, BootFails, Gone
<1>7. ASSUME NEW x \in Delivery, PgStart(x) \/ PgStop(x) PROVE FileFate(d)
  BY <1>7 DEF PgStart, PgStop
<1>8. ASSUME Crash \/ Outage \/ OutageOver \/ LongOutage PROVE FileFate(d)
  BY <1>8 DEF Crash, Gone, Outage, OutageOver, LongOutage
<1>. QED
  BY <1>1, <1>2, <1>3, <1>4, <1>5, <1>6, <1>7, <1>8 DEF Next

LEMMA PgMoves ==
  ASSUME SafeInv, Next, NEW d \in Delivery
  PROVE  PgFate(d)
<1>. USE DEF SafeInv, stores, PgFate
<1>0. UNCHANGED pg => PgFate(d)
  OBVIOUS
<1>1. ASSUME NEW x \in Delivery, Deliver(x) \/ RequestStep(x) PROVE PgFate(d)
  <2>1. UNCHANGED pg \/ PgEnqueue(x, 0)
    BY <1>1 DEF RequestStep, Deliver, WriteTwin, Answered, GiveUp, SpoolWrite
  <2>. QED
    BY <1>0, <2>1, PgInserts DEF PgFate
<1>2. ASSUME NEW x \in Delivery, HelperStep(x) PROVE PgFate(d)
  <2>1. UNCHANGED pg \/ PgEnqueue(x, 0)
    BY <1>2 DEF HelperStep, HelperWrites, HelperFails, LateAnswer, RetireSpooled
  <2>. QED
    BY <1>0, <2>1, PgInserts DEF PgFate
<1>3. ASSUME ForwardStep \/ ForwardPing PROVE PgFate(d)
  <2>1. UNCHANGED pg \/ \E x \in Delivery, n \in Nat : PgEnqueue(x, n)
    BY <1>3 DEF ForwardStep, ForwardRead, MoveInsert, MoveMark, ForwardFails, ForwardPing, TypeOK
  <2>. QED
    BY <1>0, <2>1, PgInserts DEF PgFate
<1>4. ASSUME NEW t \in Thread, ClaimTable(t) \/ ClaimFails(t) \/ ClaimLane(t) \/ ClaimFile(t)
      PROVE  PgFate(d)
  BY <1>4, PgWrites DEF ClaimTable, ClaimFails, ClaimLane, ClaimFile
<1>5. ASSUME NEW t \in Thread, EndFileJob(t) PROVE PgFate(d)
  BY <1>5 DEF EndFileJob, Complete, CompleteRead, CompleteWrite
<1>6. ASSUME BootStep PROVE PgFate(d)
  <2>1. ASSUME ExportCommit PROVE PgFate(d)
    BY <2>1 DEF ExportCommit, TypeOK, PgRow
  <2>. QED
    BY <1>6, <2>1, PgWrites DEF BootStep, BootOnFile, BootOnPostgres, Imported, BootForRollback,
                                ExportRow, BootFails, Gone
<1>7. ASSUME NEW x \in Delivery, PgStart(x) PROVE PgFate(d)
  BY <1>7, PgWrites DEF PgStart
<1>8. ASSUME NEW x \in Delivery, PgStop(x) PROVE PgFate(d)
  BY <1>8, PgWrites DEF PgStop
<1>9. ASSUME Crash \/ Outage \/ OutageOver \/ LongOutage PROVE PgFate(d)
  BY <1>9 DEF Crash, Gone, Outage, OutageOver, LongOutage
<1>. QED
  BY <1>1, <1>2, <1>3, <1>4, <1>5, <1>6, <1>7, <1>8, <1>9 DEF Next

LEMMA TwinStays ==
  ASSUME SafeInv, Next, NEW d \in Delivery, Twin(d)
  PROVE  Twin(d)'
  BY PgMoves DEF Twin, PgFate, SameHead

LEMMA MarkStep ==
  ASSUME SafeInv, Next
  PROVE  MarkHasTwin' /\ MigratedHasTwin'
<1>. USE DEF SafeInv
<1>1. \A d \in moving'.mark : d \in moving.mark \/ Twin(d)'
  <2>1. ASSUME MoveInsert, NEW d \in moving'.mark PROVE Twin(d)'
    <3>1. PICK r \in moving.left : PgEnqueue(r.d, r.attempts) /\ moving'.mark = {r.d}
      BY <2>1 DEF MoveInsert
    <3>2. r.d \in Delivery /\ r.attempts \in Nat
      BY DEF TypeOK
    <3>. QED
      BY <3>1, <3>2, PgInserts
  <2>2. ASSUME Next, ~MoveInsert PROVE moving'.mark \subseteq moving.mark
    <3>. USE DEF volatile, Still, TypeOK
    <3>1. ASSUME NEW x \in Delivery, Deliver(x) \/ RequestStep(x) \/ HelperStep(x)
          PROVE  moving' = moving
      BY <3>1 DEF RequestStep, Deliver, WriteTwin, Answered, GiveUp, SpoolWrite,
                  HelperStep, HelperWrites, HelperFails, LateAnswer, RetireSpooled
    <3>2. ASSUME ForwardStep \/ ForwardPing PROVE moving'.mark \subseteq moving.mark
      BY <2>2, <3>2 DEF ForwardStep, ForwardRead, MoveMark, ForwardFails, ForwardPing
    <3>3. ASSUME NEW t \in Thread,
                 ClaimTable(t) \/ ClaimFails(t) \/ ClaimLane(t) \/ ClaimFile(t) \/ EndFileJob(t)
          PROVE  moving' = moving
      BY <3>3 DEF ClaimTable, ClaimFails, ClaimLane, ClaimFile,
                  EndFileJob, Complete, CompleteRead, CompleteWrite
    <3>4. ASSUME BootStep PROVE moving'.mark \subseteq moving.mark
      BY <3>4 DEF BootStep, BootOnFile, BootOnPostgres, Imported, BootForRollback,
                  ExportRow, ExportCommit, BootFails, Gone
    <3>5. ASSUME NEW x \in Delivery, PgStart(x) \/ PgStop(x) PROVE moving' = moving
      BY <3>5 DEF PgStart, PgStop
    <3>6. ASSUME Crash \/ Outage \/ OutageOver \/ LongOutage
          PROVE  moving'.mark \subseteq moving.mark
      BY <3>6 DEF Crash, Gone, Outage, OutageOver, LongOutage
    <3>. QED
      BY <2>2, <3>1, <3>2, <3>3, <3>4, <3>5, <3>6 DEF Next
  <2>. QED
    BY <2>1, <2>2
<1>2. moving.mark \subseteq Delivery
  BY DEF TypeOK
<1>3. MarkHasTwin'
  BY <1>1, <1>2, TwinStays DEF MarkHasTwin
<1>4. ASSUME NEW d \in Delivery, file'[d].status = "migrated" PROVE Twin(d)
  BY <1>4, FileMoves DEF FileFate, MigratedHasTwin, MarkHasTwin, HelperHasRow, Twin
<1>5. MigratedHasTwin'
  BY <1>4, TwinStays DEF MigratedHasTwin
<1>. QED
  BY <1>3, <1>5

LEMMA HelperMoves ==
  ASSUME SafeInv, Next
  PROVE  HelperHasRow' /\ QuietBeforeUp'
<1>. USE DEF SafeInv
<1>. DEFINE Safe(d) == /\ helper'[d] \in {"accepted", "retiring"} =>
                            helper[d] \in {"accepted", "retiring"} \/ pg'[d].status # "none"
                       /\ phase' # "up" => helper'[d] = "none" /\ request'[d] = "none"
<1>0. ASSUME NEW d \in Delivery, UNCHANGED <<helper, request, phase>> PROVE Safe(d)
  BY <1>0 DEF QuietBeforeUp
<1>1. ASSUME NEW x \in Delivery, Deliver(x) \/ RequestStep(x), NEW d \in Delivery PROVE Safe(d)
  BY <1>1 DEF RequestStep, Deliver, WriteTwin, Answered, GiveUp, SpoolWrite, TypeOK,
              QuietBeforeUp, serving
<1>2. ASSUME NEW x \in Delivery, HelperStep(x), NEW d \in Delivery PROVE Safe(d)
  <2>1. CASE HelperWrites(x)
    BY <2>1, PgInserts DEF HelperWrites, TypeOK, QuietBeforeUp, serving
  <2>2. CASE HelperFails(x) \/ LateAnswer(x) \/ RetireSpooled(x)
    BY <2>2 DEF HelperFails, LateAnswer, RetireSpooled, TypeOK, QuietBeforeUp, serving
  <2>. QED
    BY <1>2, <2>1, <2>2 DEF HelperStep
<1>3. ASSUME ForwardStep \/ ForwardPing, NEW d \in Delivery PROVE Safe(d)
  BY <1>0, <1>3 DEF ForwardStep, ForwardRead, MoveInsert, MoveMark, ForwardFails, ForwardPing, serving
<1>4. ASSUME NEW t \in Thread, NEW d \in Delivery,
             ClaimTable(t) \/ ClaimFails(t) \/ ClaimLane(t) \/ ClaimFile(t) \/ EndFileJob(t)
      PROVE  Safe(d)
  BY <1>0, <1>4 DEF ClaimTable, ClaimFails, ClaimLane, ClaimFile,
                    EndFileJob, Complete, CompleteRead, CompleteWrite, serving
<1>5. ASSUME BootStep, NEW d \in Delivery PROVE Safe(d)
  BY <1>5 DEF BootStep, BootOnFile, BootOnPostgres, Imported, BootForRollback,
              ExportRow, ExportCommit, BootFails, Gone, MayBoot, QuietBeforeUp, serving, volatile
<1>6. ASSUME NEW x \in Delivery, PgStart(x) \/ PgStop(x), NEW d \in Delivery PROVE Safe(d)
  BY <1>0, <1>6 DEF PgStart, PgStop, serving, volatile
<1>7. ASSUME Crash, NEW d \in Delivery PROVE Safe(d)
  BY <1>7 DEF Crash, Gone
<1>8. ASSUME Outage \/ OutageOver \/ LongOutage, NEW d \in Delivery PROVE Safe(d)
  BY <1>0, <1>8 DEF Outage, OutageOver, LongOutage, serving, volatile
<1>9. \A d \in Delivery : Safe(d)
  BY <1>1, <1>2, <1>3, <1>4, <1>5, <1>6, <1>7, <1>8 DEF Next
<1>. HIDE DEF Safe
<1>10. \A d \in Delivery : helper[d] \in {"accepted", "retiring"} => pg'[d].status # "none"
  BY PgMoves DEF HelperHasRow, PgFate
<1>. QED
  BY <1>9, <1>10 DEF HelperHasRow, QuietBeforeUp, Safe

LEMMA AcceptedStep ==
  ASSUME SafeInv, Next
  PROVE  AcceptedHasRow'
<1>. USE DEF SafeInv
<1>. DEFINE Safe == \A d \in accepted' :
                      d \in accepted \/ file'[d].status # "none" \/ helper[d] = "accepted"
<1>1. ASSUME NEW x \in Delivery, Deliver(x) \/ RequestStep(x) PROVE Safe
  BY <1>1, FileWrites DEF RequestStep, Deliver, WriteTwin, Answered, GiveUp, SpoolWrite, history
<1>2. ASSUME NEW x \in Delivery, HelperStep(x) PROVE Safe
  BY <1>2 DEF HelperStep, HelperWrites, HelperFails, LateAnswer, RetireSpooled, history
<1>3. ASSUME ForwardStep \/ ForwardPing PROVE Safe
  BY <1>3 DEF ForwardStep, ForwardRead, MoveInsert, MoveMark, ForwardFails, ForwardPing, history
<1>4. ASSUME NEW t \in Thread,
             ClaimTable(t) \/ ClaimFails(t) \/ ClaimLane(t) \/ ClaimFile(t) \/ EndFileJob(t)
      PROVE  Safe
  BY <1>4 DEF ClaimTable, ClaimFails, ClaimLane, ClaimFile,
              EndFileJob, Complete, CompleteRead, CompleteWrite, history
<1>5. ASSUME BootStep PROVE Safe
  BY <1>5 DEF BootStep, BootOnFile, BootOnPostgres, Imported, BootForRollback,
              ExportRow, ExportCommit, BootFails, Gone, history
<1>6. ASSUME NEW x \in Delivery, PgStart(x) \/ PgStop(x) PROVE Safe
  BY <1>6 DEF PgStart, PgStop, history
<1>7. ASSUME Crash \/ Outage \/ OutageOver \/ LongOutage PROVE Safe
  BY <1>7 DEF Crash, Gone, Outage, OutageOver, LongOutage, history
<1>8. Safe
  BY <1>1, <1>2, <1>3, <1>4, <1>5, <1>6, <1>7 DEF Next
<1>9. accepted' \subseteq Delivery
  BY NextType DEF TypeOK
<1>10. \A d \in Delivery : helper[d] = "accepted" => pg'[d].status # "none"
  BY PgMoves DEF HelperHasRow, PgFate
<1>11. \A d \in accepted : file'[d].status # "none" \/ pg'[d].status # "none"
  BY PgMoves, FileMoves DEF AcceptedHasRow, PgFate, FileFate, TypeOK
<1>. QED
  BY <1>8, <1>9, <1>10, <1>11 DEF AcceptedHasRow

LEMMA ExportStep ==
  ASSUME SafeInv, Next
  PROVE  ExportedHasFile' /\ ExportCovers'
<1>. USE DEF SafeInv
<1>1. ASSUME NEW d \in Delivery, pg'[d].status = "exported" PROVE file[d].status # "none"
  BY <1>1, PgMoves DEF PgFate, ExportedHasFile, ExportCovers, Still
<1>2. ExportedHasFile'
  BY <1>1, FileMoves DEF ExportedHasFile, FileFate
<1>. DEFINE Owed(d) == \E r \in moving'.left : r.d = d
<1>3. CASE BootForRollback
  <2>1. \A d \in Delivery : pg'[d].status \in PgLive => Owed(d)
    <3>. DEFINE Row(d) == [d |-> d, attempts |-> pg[d].attempts]
    <3>1. pg' = pg /\ moving'.left = {Row(d) : d \in {x \in Delivery : pg[x].status \in PgLive}}
      BY <1>3 DEF BootForRollback, stores, Still
    <3>2. \A d \in Delivery : pg'[d].status \in PgLive => Row(d) \in moving'.left /\ Row(d).d = d
      BY <3>1
    <3>. HIDE DEF Row
    <3>. QED
      BY <3>2
  <2>. QED
    BY <1>2, <2>1 DEF ExportCovers
<1>4. CASE phase = "exporting" /\ phase' = "exporting" /\ ~BootForRollback
  <2>1. pg' = pg /\ (moving' = moving \/ ExportRow)
    <3>. USE DEF stores, volatile, Still, serving
    <3>1. ASSUME NEW x \in Delivery, Deliver(x) \/ RequestStep(x) \/ HelperStep(x)
          PROVE  pg' = pg /\ moving' = moving
      BY <1>4, <3>1 DEF RequestStep, Deliver, WriteTwin, Answered, GiveUp, SpoolWrite, QuietBeforeUp,
                  HelperStep, HelperWrites, HelperFails, LateAnswer, RetireSpooled
    <3>2. ~(ForwardStep \/ ForwardPing) \/ MoveMark
      BY <1>4 DEF ForwardStep, ForwardRead, MoveInsert, ForwardFails, ForwardPing
    <3>3. ASSUME NEW t \in Thread,
                 ClaimTable(t) \/ ClaimFails(t) \/ ClaimLane(t) \/ ClaimFile(t) \/ EndFileJob(t)
          PROVE  pg' = pg /\ moving' = moving
      BY <1>4, <3>3 DEF ClaimTable, ClaimFails, ClaimLane, ClaimFile,
                  EndFileJob, Complete, CompleteRead, CompleteWrite
    <3>4. ASSUME BootStep PROVE pg' = pg /\ (moving' = moving \/ ExportRow)
      BY <1>4, <3>4 DEF BootStep, BootOnFile, BootOnPostgres, Imported,
                  ExportRow, ExportCommit, BootFails, Gone, MayBoot
    <3>5. ASSUME NEW x \in Delivery, PgStart(x) \/ PgStop(x) PROVE FALSE
      BY <1>4, <3>5 DEF PgStart, PgStop
    <3>6. ASSUME Crash \/ Outage \/ OutageOver \/ LongOutage PROVE pg' = pg /\ moving' = moving
      BY <1>4, <3>6 DEF Crash, Gone, Outage, OutageOver, LongOutage
    <3>7. ~MoveMark
      BY <1>4 DEF MoveMark
    <3>. QED
      BY <3>1, <3>2, <3>3, <3>4, <3>5, <3>6, <3>7 DEF Next
  <2>2. ASSUME ExportRow, NEW d \in Delivery, \E r \in moving.left : r.d = d
        PROVE  Owed(d) \/ file'[d].status # "none"
    <3>1. PICK r \in moving.left :
               /\ file' = IF FileTakes(r.d) THEN [file EXCEPT ![r.d] = ImportedRow(r)] ELSE file
               /\ moving' = [moving EXCEPT !.left = @ \ {r}]
      BY <2>2 DEF ExportRow
    <3>2. CASE r.d = d
      BY <3>1, <3>2 DEF FileTakes, ImportedRow, TypeOK
    <3>3. CASE r.d # d
      BY <2>2, <3>1, <3>3 DEF TypeOK
    <3>. QED
      BY <3>2, <3>3
  <2>3. \A d \in Delivery : pg'[d].status \in PgLive => Owed(d) \/ file'[d].status # "none"
    BY <1>4, <2>1, <2>2, FileMoves DEF ExportCovers, FileFate
  <2>. QED
    BY <1>2, <2>3 DEF ExportCovers
<1>5. CASE phase # "exporting" /\ phase' = "exporting"
  <2>1. BootForRollback
    BY <1>5 DEF Next, RequestStep, Deliver, WriteTwin, Answered, GiveUp, SpoolWrite,
                HelperStep, HelperWrites, HelperFails, LateAnswer, RetireSpooled,
                ForwardStep, ForwardRead, MoveInsert, MoveMark, ForwardFails, ForwardPing,
                ClaimTable, ClaimFails, ClaimLane, ClaimFile,
                EndFileJob, Complete, CompleteRead, CompleteWrite, PgStart, PgStop,
                BootStep, BootOnFile, BootOnPostgres, Imported, ExportRow, ExportCommit,
                BootFails, Crash, Gone, Outage, OutageOver, LongOutage, serving
  <2>. QED
    BY <1>3, <2>1
<1>. QED
  BY <1>2, <1>3, <1>4, <1>5 DEF ExportCovers

LEMMA WriteStep ==
  ASSUME SafeInv, Next
  PROVE  WritesEnd'
<1>. USE DEF SafeInv, WritesEnd, TypeOK
<1>1. UNCHANGED work => WritesEnd'
  OBVIOUS
<1>2. ASSUME NEW t \in Thread,
             ClaimTable(t) \/ ClaimFails(t) \/ ClaimLane(t) \/ ClaimFile(t) \/ EndFileJob(t)
      PROVE  WritesEnd'
  <2>1. \A u \in Thread \ {t} : work'[u] = work[u]
    BY <1>2 DEF ClaimTable, ClaimFails, ClaimLane, ClaimFile, Runs,
                EndFileJob, Complete, CompleteRead, CompleteWrite
  <2>2. work'[t].pc = "write" => work'[t] = work[t] \/ work'[t].status \in {"waiting", "ended"}
    BY <1>2 DEF ClaimTable, ClaimFails, ClaimLane, ClaimFile, Runs, Free,
                EndFileJob, Complete, CompleteRead, CompleteWrite
  <2>. QED
    BY <2>1, <2>2
<1>3. Gone => WritesEnd'
  BY DEF Gone, Free
<1>4. ASSUME NEW x \in Delivery,
             Deliver(x) \/ RequestStep(x) \/ HelperStep(x) \/ PgStart(x) \/ PgStop(x)
      PROVE  WritesEnd'
  BY <1>1, <1>4 DEF RequestStep, Deliver, WriteTwin, Answered, GiveUp, SpoolWrite, volatile,
                    HelperStep, HelperWrites, HelperFails, LateAnswer, RetireSpooled, PgStart, PgStop
<1>5. ASSUME ForwardStep \/ ForwardPing \/ Outage \/ OutageOver \/ LongOutage PROVE WritesEnd'
  BY <1>1, <1>5 DEF ForwardStep, ForwardRead, MoveInsert, MoveMark, ForwardFails, ForwardPing,
                    volatile, Outage, OutageOver, LongOutage
<1>6. ASSUME BootStep \/ Crash PROVE WritesEnd'
  BY <1>1, <1>3, <1>6 DEF BootStep, BootOnFile, BootOnPostgres, Imported, BootForRollback,
                          ExportRow, ExportCommit, BootFails, Crash, volatile
<1>. QED
  BY <1>2, <1>4, <1>5, <1>6 DEF Next

LEMMA SafeInit == Init => SafeInv
<1>. SUFFICES ASSUME Init PROVE SafeInv
  OBVIOUS
<1>1. TypeOK
  BY InitType
<1>. QED
  BY <1>1 DEF Init, SafeInv, MigratedHasTwin, MarkHasTwin, HelperHasRow, AcceptedHasRow,
         ExportedHasFile, ExportCovers, QuietBeforeUp, WritesEnd, BlankFile, BlankPg, Still, Free

LEMMA SafeNext == SafeInv /\ [Next]_vars => SafeInv'
<1>. SUFFICES ASSUME SafeInv, [Next]_vars PROVE SafeInv'
  OBVIOUS
<1>1. CASE UNCHANGED vars
  BY <1>1, NextType
     DEF vars, stores, outside, serving, volatile, history, SafeInv, MigratedHasTwin, MarkHasTwin,
         HelperHasRow, AcceptedHasRow, ExportedHasFile, ExportCovers, QuietBeforeUp, WritesEnd,
         Twin, SameHead
<1>2. CASE Next
  BY <1>2, NextType, MarkStep, HelperMoves, AcceptedStep, ExportStep, WriteStep DEF SafeInv
<1>. QED
  BY <1>1, <1>2

LEMMA SafeEnough == SafeInv => NoDeliveryLost
<1>. SUFFICES ASSUME SafeInv, NEW d \in accepted PROVE Held(d) \/ HandedBothWays(d)
  BY DEF NoDeliveryLost
<1>1. d \in Delivery
  BY DEF SafeInv, TypeOK
<1>. QED
  BY <1>1 DEF SafeInv, MigratedHasTwin, AcceptedHasRow, ExportedHasFile, Twin, Held, HandedBothWays

(* Through timeouts, outages, crashes and switches of the backend, what    *)
(* GitHub was told is queued stays in a store.                             *)
THEOREM NoneLost == Spec => []NoDeliveryLost
  BY SafeInit, SafeNext, SafeEnough, PTL DEF Spec

-----------------------------------------------------------------------------
(* A row handed over stays handed over *)

Runner(t) == work[t].pc \in {"run", "write"}

(* Nothing moves and nobody works while the process is down, nobody works   *)
(* while it boots; on a backend whose queue is the file nothing is ever    *)
(* handed over.                                                            *)
IdleDown == /\ phase = "down" => moving = Still
            /\ phase # "up" => \A t \in Thread : work[t].pc = "idle"
FileAlone == backend \in FileMode => /\ phase = "up" => moving = Still
                                     /\ \A d \in Delivery : helper[d] = "none"

(* What runs from the file was claimed by the degraded lane, or by a       *)
(* backend that leaves the row where it is.                                *)
HasRow(d) == d \in Delivery /\ file[d].status # "none"
OwnRow(d) == d \in lane \/ (backend \in FileMode /\ file[d].status # "migrated")
LaneOrFile == \A t \in Thread : Runner(t) => HasRow(work[t].d) /\ OwnRow(work[t].d)

HandInv == SafeInv /\ IdleDown /\ FileAlone /\ LaneOrFile

LEMMA IdleStep ==
  ASSUME HandInv, Next
  PROVE  IdleDown' /\ FileAlone'
<1>. USE DEF HandInv, IdleDown, FileAlone
<1>. DEFINE Idle == IdleDown' /\ FileAlone'
<1>0. UNCHANGED <<phase, backend, moving, work, helper>> => Idle
  OBVIOUS
<1>1. ASSUME NEW x \in Delivery, Deliver(x) \/ RequestStep(x) \/ HelperStep(x) PROVE Idle
  <2>1. UNCHANGED <<phase, backend, moving, work>>
    BY <1>1 DEF RequestStep, Deliver, WriteTwin, Answered, GiveUp, SpoolWrite, serving, volatile,
                HelperStep, HelperWrites, HelperFails, LateAnswer, RetireSpooled
  <2>2. ASSUME backend \in FileMode PROVE UNCHANGED helper
    BY <1>1, <2>2
       DEF RequestStep, Deliver, WriteTwin, Answered, GiveUp, SpoolWrite, SafeInv, TypeOK, FileMode,
           HelperStep, HelperWrites, HelperFails, LateAnswer, RetireSpooled
  <2>. QED
    BY <2>1, <2>2
<1>2. ASSUME ForwardStep \/ ForwardPing PROVE Idle
  BY <1>2 DEF ForwardStep, ForwardRead, MoveInsert, MoveMark, ForwardFails, ForwardPing,
              serving, FileMode, Still
<1>3. ASSUME NEW t \in Thread,
             ClaimTable(t) \/ ClaimFails(t) \/ ClaimLane(t) \/ ClaimFile(t) \/ EndFileJob(t)
      PROVE  Idle
  BY <1>3 DEF ClaimTable, ClaimFails, ClaimLane, ClaimFile, serving,
              EndFileJob, Complete, CompleteRead, CompleteWrite
<1>4. ASSUME NEW b \in Backend, BootOnFile(b) PROVE Idle
  BY <1>4 DEF BootOnFile, MayBoot, SafeInv, QuietBeforeUp, volatile
<1>5. ASSUME BootOnPostgres \/ BootForRollback PROVE Idle
  BY <1>5 DEF BootOnPostgres, BootForRollback, MayBoot, SafeInv, QuietBeforeUp, FileMode
<1>6. ASSUME Imported \/ ExportRow \/ ExportCommit PROVE Idle
  BY <1>6 DEF Imported, ExportRow, ExportCommit, serving, volatile, Still
<1>7. ASSUME BootFails \/ Crash PROVE Idle
  BY <1>7 DEF BootFails, Crash, Gone, Free
<1>8. ASSUME NEW x \in Delivery, PgStart(x) \/ PgStop(x) PROVE Idle
  BY <1>0, <1>8 DEF PgStart, PgStop, serving, volatile
<1>9. ASSUME Outage \/ OutageOver \/ LongOutage PROVE Idle
  BY <1>0, <1>9 DEF Outage, OutageOver, LongOutage, serving, volatile
<1>. QED
  BY <1>1, <1>2, <1>3, <1>4, <1>5, <1>6, <1>7, <1>8, <1>9 DEF Next, BootStep

(* A claim is where a thread gets its row; the lane remembers its own.      *)
Claimed(t) ==
  work'[t].pc \in {"run", "write"} =>
    \/ Runner(t) /\ work'[t].d = work[t].d
    \/ /\ work'[t].d \in Delivery /\ file'[work'[t].d].status = "running"
       /\ work'[t].d \in lane' \/ (phase = "up" /\ backend \in FileMode)

LEMMA ClaimsStep ==
  ASSUME HandInv, Next
  PROVE  /\ backend' = backend \/ phase = "down"
         /\ lane \subseteq lane'
         /\ \A t \in Thread : Claimed(t)
<1>. USE DEF Claimed, Runner
<1>. DEFINE Safe == /\ backend' = backend \/ phase = "down"
                    /\ lane \subseteq lane'
                    /\ \A t \in Thread : Claimed(t)
<1>0. UNCHANGED <<backend, work, lane>> => Safe
  OBVIOUS
<1>1. ASSUME NEW x \in Delivery,
             Deliver(x) \/ RequestStep(x) \/ HelperStep(x) \/ PgStart(x) \/ PgStop(x)
      PROVE  Safe
  BY <1>0, <1>1
     DEF RequestStep, Deliver, WriteTwin, Answered, GiveUp, SpoolWrite, serving, volatile, history,
         HelperStep, HelperWrites, HelperFails, LateAnswer, RetireSpooled, PgStart, PgStop
<1>2. ASSUME ForwardStep \/ ForwardPing PROVE Safe
  BY <1>0, <1>2 DEF ForwardStep, ForwardRead, MoveInsert, MoveMark, ForwardFails, ForwardPing,
                    serving, history
<1>3. ASSUME NEW t \in Thread,
             ClaimTable(t) \/ ClaimFails(t) \/ ClaimLane(t) \/ ClaimFile(t) \/ EndFileJob(t)
      PROVE  Safe
  <2>1. UNCHANGED backend /\ lane \subseteq lane' /\ \A u \in Thread \ {t} : work'[u] = work[u]
    BY <1>3 DEF ClaimTable, ClaimFails, ClaimLane, ClaimFile, serving, history, Runs,
                EndFileJob, Complete, CompleteRead, CompleteWrite, HandInv, SafeInv, TypeOK
  <2>2. Claimed(t)
    <3>. USE DEF HandInv, SafeInv, TypeOK
    <3>1. CASE ClaimTable(t) \/ ClaimFails(t)
      BY <3>1 DEF ClaimTable, ClaimFails, Free
    <3>2. CASE ClaimLane(t)
      BY <3>2 DEF ClaimLane, Runs, Free, FileStarted
    <3>3. CASE ClaimFile(t)
      BY <3>3 DEF ClaimFile, Runs, FileStarted
    <3>4. CASE EndFileJob(t)
      BY <3>4 DEF EndFileJob, Complete, CompleteRead, CompleteWrite, Free
    <3>. QED
      BY <1>3, <3>1, <3>2, <3>3, <3>4
  <2>. QED
    BY <2>1, <2>2
<1>4. ASSUME BootStep \/ Crash PROVE Safe
  <2>1. (backend' = backend \/ phase = "down") /\ lane' = lane
    BY <1>4 DEF BootStep, BootOnFile, BootOnPostgres, Imported, BootForRollback, MayBoot,
                ExportRow, ExportCommit, BootFails, Crash, Gone, serving, history
  <2>2. work' = work \/ work' = [t \in Thread |-> Free]
    BY <1>4 DEF BootStep, BootOnFile, BootOnPostgres, Imported, BootForRollback,
                ExportRow, ExportCommit, BootFails, Crash, Gone, volatile
  <2>. QED
    BY <2>1, <2>2 DEF Free
<1>5. ASSUME Outage \/ OutageOver \/ LongOutage PROVE Safe
  BY <1>0, <1>5 DEF Outage, OutageOver, LongOutage, serving, volatile, history
<1>. QED
  BY <1>1, <1>2, <1>3, <1>4, <1>5 DEF Next

LEMMA LaneStep ==
  ASSUME HandInv, Next
  PROVE  LaneOrFile'
<1>. SUFFICES ASSUME NEW t \in Thread, Runner(t)'
              PROVE  HasRow(work[t].d)' /\ OwnRow(work[t].d)'
  BY DEF LaneOrFile
<1>1. Claimed(t) /\ lane \subseteq lane'
  BY ClaimsStep
<1>2. CASE /\ work'[t].d \in Delivery /\ file'[work'[t].d].status = "running"
           /\ work'[t].d \in lane' \/ (phase = "up" /\ backend \in FileMode)
  BY <1>2, ClaimsStep DEF HasRow, OwnRow
<1>3. CASE Runner(t) /\ work'[t].d = work[t].d
  <2>1. phase = "up" /\ HasRow(work[t].d) /\ OwnRow(work[t].d)
    BY <1>3 DEF HandInv, IdleDown, Runner, LaneOrFile
  <2>2. HasRow(work[t].d)'
    BY <1>3, <2>1, FileMoves DEF HandInv, FileFate, HasRow
  <2>3. ASSUME work[t].d \notin lane PROVE OwnRow(work[t].d)'
    <3>1. moving.mark = {} /\ helper[work[t].d] # "retiring"
      BY <2>1, <2>3 DEF HandInv, FileAlone, HasRow, OwnRow, Still
    <3>2. file'[work[t].d].status # "migrated"
      BY <2>1, <2>3, <3>1, FileMoves DEF HandInv, FileFate, HasRow, OwnRow
    <3>. QED
      BY <1>3, <2>1, <2>3, <3>2, ClaimsStep DEF OwnRow
  <2>. QED
    BY <1>1, <1>3, <2>2, <2>3 DEF OwnRow
<1>. QED
  BY <1>1, <1>2, <1>3 DEF Claimed, Runner

LEMMA HandInit == Init => HandInv
  BY SafeInit DEF Init, HandInv, IdleDown, FileAlone, LaneOrFile, Runner, Free

LEMMA HandNext == HandInv /\ [Next]_vars => HandInv'
<1>. SUFFICES ASSUME HandInv, [Next]_vars PROVE HandInv'
  OBVIOUS
<1>1. CASE UNCHANGED vars
  BY <1>1, SafeNext DEF vars, stores, outside, serving, volatile, history, HandInv, IdleDown,
                        FileAlone, LaneOrFile, HasRow, OwnRow, Runner
<1>2. CASE Next
  BY <1>2, SafeNext, IdleStep, LaneStep DEF HandInv
<1>. QED
  BY <1>1, <1>2

LEMMA HandedStep ==
  ASSUME HandInv, Next, NEW d \in Delivery, file[d].status = "migrated"
  PROVE  file'[d].status = "migrated" \/ d \in lane
<1>. USE DEF HandInv, SafeInv, TypeOK
<1>. DEFINE Safe == file'[d].status = "migrated" \/ d \in lane
<1>0. file' = file => Safe
  OBVIOUS
<1>1. ASSUME NEW x \in Delivery, Deliver(x) \/ RequestStep(x) PROVE Safe
  <2>1. file' = file \/ FileEnqueue(x)
    BY <1>1 DEF RequestStep, Deliver, WriteTwin, Answered, GiveUp, SpoolWrite, stores
  <2>. QED
    BY <1>0, <2>1 DEF FileEnqueue, FileTakes, FileWith
<1>2. ASSUME NEW x \in Delivery, HelperStep(x) PROVE Safe
  BY <1>2 DEF HelperStep, HelperWrites, HelperFails, LateAnswer, RetireSpooled, stores,
              Marked, FileLive
<1>3. ASSUME ForwardStep \/ ForwardPing PROVE Safe
  BY <1>3 DEF ForwardStep, ForwardRead, MoveInsert, MoveMark, ForwardFails, ForwardPing, stores,
              Marked, FileLive
<1>4. ASSUME NEW t \in Thread, ClaimTable(t) \/ ClaimFails(t) \/ ClaimLane(t) \/ ClaimFile(t)
      PROVE  Safe
  BY <1>4 DEF ClaimTable, ClaimFails, ClaimLane, ClaimFile, FileClaimable, FileStarted, stores
<1>5. ASSUME NEW t \in Thread, EndFileJob(t) PROVE Safe
  <2>1. Runner(t) /\ (file' = file \/ \E s : file' = [file EXCEPT ![work[t].d].status = s])
    BY <1>5 DEF EndFileJob, Complete, CompleteRead, CompleteWrite, Runner, stores
  <2>2. work[t].d = d => d \in lane
    BY <2>1 DEF LaneOrFile, OwnRow
  <2>. QED
    BY <2>1, <2>2
<1>6. ASSUME BootStep PROVE Safe
  BY <1>6 DEF BootStep, BootOnFile, BootOnPostgres, Imported, BootForRollback, ExportRow,
              ExportCommit, BootFails, Gone, FileRecovered, FileTakes, stores
<1>7. ASSUME NEW x \in Delivery, PgStart(x) \/ PgStop(x) PROVE Safe
  BY <1>7 DEF PgStart, PgStop
<1>8. ASSUME Crash \/ Outage \/ OutageOver \/ LongOutage PROVE Safe
  BY <1>8 DEF Crash, Gone, Outage, OutageOver, LongOutage, stores
<1>. QED
  BY <1>1, <1>2, <1>3, <1>4, <1>5, <1>6, <1>7, <1>8 DEF Next

(* A row of the file that was handed over to Postgres never runs in the    *)
(* file again, whatever threads, helpers and boots do to it, unless the    *)
(* degraded lane was running it.                                           *)
THEOREM HandedOver == Spec => HandedOverStays
<1>1. HandInv /\ [Next]_vars =>
        [\A d \in Delivery :
           file[d].status = "migrated" /\ file'[d].status # "migrated" => d \in lane]_vars
  BY HandedStep
<1>. QED
  BY <1>1, HandInit, HandNext, PTL DEF Spec, HandedOverStays

-----------------------------------------------------------------------------
(* What the file has run to its end is not started by the table *)

(* The operator leaves Postgres, or a rollback that has not come to its     *)
(* end, only for a rollback or for Postgres.                               *)
BackByRollback ==
  \A a, b \in Backend :
    <<a, b>> \in Switch /\ a \in {"postgres", "rollback"} => b \in {"postgres", "rollback"}

Moved(d) == \E r \in moving.left : r.d = d
Single(d) == d \notin lane /\ sent[d] < 2

(* The table's workers run on no other backend, twins are written on none  *)
(* but "shadow", and what was never sent is nowhere.                       *)
Apart == /\ fleet => backend = "postgres"
         /\ phase = "importing" => backend = "postgres"
         /\ \A d \in Delivery : request[d] = "twin" => backend = "shadow"
Unsent == \A d \in Delivery : sent[d] = 0 =>
            /\ file[d].status = "none" /\ pg[d].status = "none" /\ ~Moved(d)
            /\ request[d] = "none" /\ helper[d] = "none"

(* On the file's backends no row of the table runs, once a rollback is over. *)
FileRules == backend \in FileMode /\ (backend = "rollback" => phase = "up")
NoneRuns == FileRules => \A d \in Delivery : pg[d].status \notin PgRunning

(* An import leaves no live row of the file behind. *)
ImportCovers ==
  /\ \A d, x \in moving.mark : d = x
  /\ phase = "importing" =>
       \A d \in Delivery : file[d].status \in FileLive => d \in moving.mark \/ Moved(d)

(* A row the file has ended has no runnable twin, and none on its way.      *)
NoTwinRuns(d) == /\ pg[d].status \notin PgRunning
                 /\ backend = "postgres" => pg[d].status # "waiting"
NoTwinComes(d) == /\ helper[d] # "open"
                  /\ phase # "exporting" => ~Moved(d)
EndedAlone == \A d \in Delivery :
  Single(d) /\ file[d].status = "ended" => NoTwinRuns(d) /\ NoTwinComes(d)

FinInv == HandInv /\ Apart /\ Unsent /\ NoneRuns /\ ImportCovers /\ EndedAlone

LEMMA ApartStep ==
  ASSUME BackByRollback, FinInv, Next
  PROVE  Apart'
<1>. USE DEF FinInv, Apart
<1>0. UNCHANGED <<fleet, backend, phase, request>> => Apart'
  OBVIOUS
<1>1. ASSUME NEW x \in Delivery, Deliver(x) \/ RequestStep(x) PROVE Apart'
  BY <1>1 DEF RequestStep, Deliver, WriteTwin, Answered, GiveUp, SpoolWrite, outside, serving,
              HandInv, SafeInv, TypeOK
<1>2. ASSUME NEW x \in Delivery, HelperStep(x) \/ PgStart(x) \/ PgStop(x) PROVE Apart'
  BY <1>0, <1>2 DEF HelperStep, HelperWrites, HelperFails, LateAnswer, RetireSpooled, PgStart,
                    PgStop, outside, serving, volatile
<1>3. ASSUME ForwardStep \/ ForwardPing PROVE Apart'
  BY <1>0, <1>3 DEF ForwardStep, ForwardRead, MoveInsert, MoveMark, ForwardFails, ForwardPing,
                    outside, serving
<1>4. ASSUME NEW t \in Thread,
             ClaimTable(t) \/ ClaimFails(t) \/ ClaimLane(t) \/ ClaimFile(t) \/ EndFileJob(t)
      PROVE  Apart'
  BY <1>0, <1>4 DEF ClaimTable, ClaimFails, ClaimLane, ClaimFile,
                    EndFileJob, Complete, CompleteRead, CompleteWrite, outside, serving
<1>5. ASSUME NEW b \in Backend, BootOnFile(b) PROVE Apart'
  <2>1. \A d \in Delivery : request'[d] = "none"
    BY <1>5 DEF BootOnFile, MayBoot, volatile, HandInv, SafeInv, QuietBeforeUp
  <2>2. fleet' = FALSE
    BY <1>5 DEF BootOnFile, MayBoot, outside, BackByRollback, Backend, HandInv, SafeInv, TypeOK
  <2>. QED
    BY <1>5, <2>1, <2>2 DEF BootOnFile
<1>6. ASSUME BootOnPostgres \/ BootForRollback PROVE Apart'
  BY <1>6 DEF BootOnPostgres, BootForRollback, MayBoot, outside, HandInv, SafeInv, QuietBeforeUp
<1>7. ASSUME Imported \/ ExportRow \/ ExportCommit PROVE Apart'
  BY <1>7 DEF Imported, ExportRow, ExportCommit, outside, serving, volatile
<1>8. ASSUME BootFails \/ Crash PROVE Apart'
  BY <1>8 DEF BootFails, Crash, Gone, outside
<1>9. ASSUME Outage \/ OutageOver \/ LongOutage PROVE Apart'
  BY <1>0, <1>9 DEF Outage, OutageOver, LongOutage, outside, serving, volatile
<1>. QED
  BY <1>1, <1>2, <1>3, <1>4, <1>5, <1>6, <1>7, <1>8, <1>9 DEF Next, BootStep

(* Where the first row of a delivery comes from, in the file and in the    *)
(* table, and what joins the rows on the move.                             *)
FileNew(d) == file[d].status = "none" /\ file'[d].status # "none" =>
                sent'[d] > 0 \/ request[d] = "spooling" \/ Moved(d)
PgNew(d) == pg[d].status = "none" /\ pg'[d].status # "none" =>
              helper[d] = "open" \/ request[d] = "twin" \/ (Moved(d) /\ phase # "exporting")
LeftNew(d) ==
  /\ Moved(d)' => Moved(d) \/ file[d].status \in FileLive \/ pg[d].status # "none"
  /\ Moved(d)' /\ phase' # "exporting" =>
       (Moved(d) /\ phase # "exporting") \/ file[d].status \in FileLive
AskNew(d) == (request'[d] # "none" \/ helper'[d] # "none") =>
               request[d] # "none" \/ helper[d] # "none" \/ sent'[d] > sent[d]
SentMore(d) == /\ sent'[d] >= sent[d]
               /\ helper'[d] = "open" => helper[d] = "open" \/ sent'[d] > sent[d]

LEMMA SentStep ==
  ASSUME HandInv, Next, NEW d \in Delivery
  PROVE  SentMore(d) /\ AskNew(d) /\ sent'[d] \in Nat /\ sent[d] \in Nat
<1>. USE DEF HandInv, SafeInv, TypeOK, SentMore, AskNew
<1>. DEFINE Safe == SentMore(d) /\ AskNew(d)
<1>0. UNCHANGED <<sent, helper, request>> => Safe
  OBVIOUS
<1>1. ASSUME NEW x \in Delivery, Deliver(x) PROVE Safe
  BY <1>1 DEF Deliver
<1>2. ASSUME NEW x \in Delivery, RequestStep(x) \/ HelperStep(x) PROVE Safe
  BY <1>2 DEF RequestStep, WriteTwin, Answered, GiveUp, SpoolWrite, history,
              HelperStep, HelperWrites, HelperFails, LateAnswer, RetireSpooled
<1>3. ASSUME ForwardStep \/ ForwardPing PROVE Safe
  BY <1>0, <1>3 DEF ForwardStep, ForwardRead, MoveInsert, MoveMark, ForwardFails, ForwardPing, history
<1>4. ASSUME NEW t \in Thread,
             ClaimTable(t) \/ ClaimFails(t) \/ ClaimLane(t) \/ ClaimFile(t) \/ EndFileJob(t)
      PROVE  Safe
  BY <1>0, <1>4 DEF ClaimTable, ClaimFails, ClaimLane, ClaimFile,
                    EndFileJob, Complete, CompleteRead, CompleteWrite, history
<1>5. ASSUME BootStep \/ Crash PROVE Safe
  <2>1. sent' = sent
    BY <1>5 DEF BootStep, BootOnFile, BootOnPostgres, Imported, BootForRollback,
                ExportRow, ExportCommit, BootFails, Crash, Gone, history
  <2>2. UNCHANGED <<request, helper>> \/ (request'[d] = "none" /\ helper'[d] = "none")
    BY <1>5 DEF BootStep, BootOnFile, BootOnPostgres, Imported, BootForRollback,
                ExportRow, ExportCommit, BootFails, Crash, Gone, volatile
  <2>. QED
    BY <2>1, <2>2
<1>6. ASSUME NEW x \in Delivery, PgStart(x) \/ PgStop(x) PROVE Safe
  BY <1>0, <1>6 DEF PgStart, PgStop, volatile, history
<1>7. ASSUME Outage \/ OutageOver \/ LongOutage PROVE Safe
  BY <1>0, <1>7 DEF Outage, OutageOver, LongOutage, volatile, history
<1>8. sent' \in [Delivery -> Nat]
  BY NextType DEF TypeOK
<1>. QED
  BY <1>1, <1>2, <1>3, <1>4, <1>5, <1>6, <1>7, <1>8 DEF Next

LEMMA FileOrigin ==
  ASSUME HandInv, Next, NEW d \in Delivery
  PROVE  FileNew(d)
<1>. USE DEF HandInv, SafeInv, TypeOK, FileNew, Moved
<1>0. file' = file => FileNew(d)
  OBVIOUS
<1>1. ASSUME NEW x \in Delivery, FileEnqueue(x), x = d => sent'[d] > 0 \/ request[d] = "spooling"
      PROVE  FileNew(d)
  BY <1>1 DEF FileEnqueue, FileTakes, FileWith
<1>2. ASSUME NEW x \in Delivery, Deliver(x) PROVE FileNew(d)
  BY <1>0, <1>1, <1>2 DEF Deliver
<1>3. ASSUME NEW x \in Delivery, RequestStep(x) PROVE FileNew(d)
  BY <1>0, <1>1, <1>3 DEF RequestStep, WriteTwin, Answered, GiveUp, SpoolWrite, stores
<1>4. ASSUME NEW x \in Delivery, HelperStep(x) PROVE FileNew(d)
  BY <1>4 DEF HelperStep, HelperWrites, HelperFails, LateAnswer, RetireSpooled, stores,
              Marked, FileLive
<1>5. ASSUME ForwardStep \/ ForwardPing PROVE FileNew(d)
  BY <1>5 DEF ForwardStep, ForwardRead, MoveInsert, MoveMark, ForwardFails, ForwardPing, stores,
              Marked, FileLive
<1>6. ASSUME NEW t \in Thread, ClaimTable(t) \/ ClaimFails(t) \/ ClaimLane(t) \/ ClaimFile(t)
      PROVE  FileNew(d)
  BY <1>6 DEF ClaimTable, ClaimFails, ClaimLane, ClaimFile, FileClaimable, FileStarted, stores
<1>7. ASSUME NEW t \in Thread, EndFileJob(t) PROVE FileNew(d)
  <2>1. Runner(t) /\ (file' = file \/ \E s : file' = [file EXCEPT ![work[t].d].status = s])
    BY <1>7 DEF EndFileJob, Complete, CompleteRead, CompleteWrite, Runner, stores
  <2>. QED
    BY <2>1 DEF LaneOrFile, HasRow
<1>8. ASSUME BootStep PROVE FileNew(d)
  BY <1>8 DEF BootStep, BootOnFile, BootOnPostgres, Imported, BootForRollback, ExportRow,
              ExportCommit, BootFails, Gone, FileRecovered, stores
<1>9. ASSUME NEW x \in Delivery, PgStart(x) \/ PgStop(x) PROVE FileNew(d)
  BY <1>0, <1>9 DEF PgStart, PgStop
<1>10. ASSUME Crash \/ Outage \/ OutageOver \/ LongOutage PROVE FileNew(d)
  BY <1>0, <1>10 DEF Crash, Gone, Outage, OutageOver, LongOutage, stores
<1>. QED
  BY <1>2, <1>3, <1>4, <1>5, <1>6, <1>7, <1>8, <1>9, <1>10 DEF Next

LEMMA PgOrigin ==
  ASSUME HandInv, Next, NEW d \in Delivery
  PROVE  PgNew(d)
<1>. USE DEF HandInv, SafeInv, TypeOK, PgNew, Moved
<1>0. pg' = pg => PgNew(d)
  OBVIOUS
<1>1. ASSUME NEW x \in Delivery, NEW n \in Nat, PgEnqueue(x, n), x # d PROVE PgNew(d)
  BY <1>1 DEF PgEnqueue, PgTakes, PgWith
<1>2. ASSUME NEW x \in Delivery, Deliver(x) \/ RequestStep(x) PROVE PgNew(d)
  <2>1. UNCHANGED pg \/ (request[x] = "twin" /\ PgEnqueue(x, 0))
    BY <1>2 DEF RequestStep, Deliver, WriteTwin, Answered, GiveUp, SpoolWrite, stores
  <2>. QED
    BY <1>0, <1>1, <2>1
<1>3. ASSUME NEW x \in Delivery, HelperStep(x) PROVE PgNew(d)
  <2>1. UNCHANGED pg \/ (helper[x] = "open" /\ PgEnqueue(x, 0))
    BY <1>3 DEF HelperStep, HelperWrites, HelperFails, LateAnswer, RetireSpooled, stores
  <2>. QED
    BY <1>0, <1>1, <2>1
<1>4. ASSUME ForwardStep \/ ForwardPing PROVE PgNew(d)
  <2>1. UNCHANGED pg \/ \E r \in moving.left : PgEnqueue(r.d, r.attempts) /\ phase # "exporting"
    BY <1>4 DEF ForwardStep, ForwardRead, MoveInsert, MoveMark, ForwardFails, ForwardPing, stores
  <2>. QED
    BY <1>0, <1>1, <2>1
<1>5. ASSUME NEW t \in Thread, ClaimTable(t) \/ ClaimFails(t) \/ ClaimLane(t) \/ ClaimFile(t)
      PROVE  PgNew(d)
  BY <1>5 DEF ClaimTable, ClaimFails, ClaimLane, ClaimFile, stores, PgClaimable, PgStarted
<1>6. ASSUME NEW t \in Thread, EndFileJob(t) PROVE PgNew(d)
  BY <1>0, <1>6 DEF EndFileJob, Complete, CompleteRead, CompleteWrite, stores
<1>7. ASSUME BootStep PROVE PgNew(d)
  BY <1>7 DEF BootStep, BootOnFile, BootOnPostgres, Imported, BootForRollback, ExportRow,
              ExportCommit, BootFails, Gone, TwinsRetired, stores, PgLive, PgRunning
<1>8. ASSUME NEW x \in Delivery, PgStart(x) \/ PgStop(x) PROVE PgNew(d)
  BY <1>8 DEF PgStart, PgStop, PgClaimable, PgStarted, PgRunning
<1>9. ASSUME Crash \/ Outage \/ OutageOver \/ LongOutage PROVE PgNew(d)
  BY <1>0, <1>9 DEF Crash, Gone, Outage, OutageOver, LongOutage, stores
<1>. QED
  BY <1>2, <1>3, <1>4, <1>5, <1>6, <1>7, <1>8, <1>9 DEF Next

LEMMA LeftOrigin ==
  ASSUME HandInv, Next, NEW d \in Delivery
  PROVE  LeftNew(d)
<1>. USE DEF HandInv, SafeInv, TypeOK, LeftNew, Moved
<1>0. UNCHANGED <<moving, phase>> => LeftNew(d)
  OBVIOUS
<1>1. ASSUME NEW x \in Delivery, Deliver(x) \/ RequestStep(x) \/ HelperStep(x) PROVE LeftNew(d)
  BY <1>0, <1>1 DEF RequestStep, Deliver, WriteTwin, Answered, GiveUp, SpoolWrite, serving,
                    HelperStep, HelperWrites, HelperFails, LateAnswer, RetireSpooled
<1>2. ASSUME ForwardStep \/ ForwardPing PROVE LeftNew(d)
  BY <1>2 DEF ForwardStep, ForwardRead, MoveInsert, MoveMark, ForwardFails, ForwardPing, serving,
              Still, Exported, FileLive
<1>3. ASSUME NEW t \in Thread,
             ClaimTable(t) \/ ClaimFails(t) \/ ClaimLane(t) \/ ClaimFile(t) \/ EndFileJob(t)
      PROVE  LeftNew(d)
  BY <1>0, <1>3 DEF ClaimTable, ClaimFails, ClaimLane, ClaimFile, serving,
                    EndFileJob, Complete, CompleteRead, CompleteWrite
<1>4. ASSUME NEW b \in Backend, BootOnFile(b) PROVE LeftNew(d)
  BY <1>4 DEF BootOnFile, MayBoot, volatile, IdleDown
<1>5. ASSUME BootOnPostgres PROVE LeftNew(d)
  BY <1>5 DEF BootOnPostgres, Still, Exported, FileLive
<1>6. ASSUME BootForRollback PROVE LeftNew(d)
  BY <1>6 DEF BootForRollback, Still, PgLive, PgRunning
<1>7. ASSUME Imported \/ ExportRow \/ ExportCommit PROVE LeftNew(d)
  BY <1>7 DEF Imported, ExportRow, ExportCommit, serving, volatile, Still
<1>8. ASSUME BootFails \/ Crash PROVE LeftNew(d)
  BY <1>8 DEF BootFails, Crash, Gone, Still
<1>9. ASSUME NEW x \in Delivery, PgStart(x) \/ PgStop(x) PROVE LeftNew(d)
  BY <1>0, <1>9 DEF PgStart, PgStop, serving, volatile
<1>10. ASSUME Outage \/ OutageOver \/ LongOutage PROVE LeftNew(d)
  BY <1>0, <1>10 DEF Outage, OutageOver, LongOutage, serving, volatile
<1>. QED
  BY <1>1, <1>2, <1>3, <1>4, <1>5, <1>6, <1>7, <1>8, <1>9, <1>10 DEF Next, BootStep

LEMMA UnsentStep ==
  ASSUME FinInv, Next
  PROVE  Unsent'
<1>. SUFFICES ASSUME NEW d \in Delivery, sent'[d] = 0
              PROVE  /\ file'[d].status = "none" /\ pg'[d].status = "none" /\ ~Moved(d)'
                     /\ request'[d] = "none" /\ helper'[d] = "none"
  BY DEF Unsent
<1>1. sent[d] = 0
  BY SentStep DEF FinInv, SentMore
<1>2. /\ file[d].status = "none" /\ pg[d].status = "none" /\ ~Moved(d)
      /\ request[d] = "none" /\ helper[d] = "none"
  BY <1>1 DEF FinInv, Unsent
<1>3. FileNew(d) /\ PgNew(d) /\ LeftNew(d) /\ AskNew(d)
  BY FileOrigin, PgOrigin, LeftOrigin, SentStep DEF FinInv
<1>. QED
  BY <1>1, <1>2, <1>3 DEF FileNew, PgNew, LeftNew, AskNew, FileLive

(* How a row of the table comes to run or to wait. *)
PgGoes(d) ==
  /\ pg'[d].status \in PgRunning =>
       \/ pg[d].status \in PgRunning
       \/ pg[d].status = "waiting" /\ (fleet \/ backend = "postgres")
  /\ pg'[d].status = "waiting" => pg[d].status \in {"none"} \cup PgLive

LEMMA PgGoing ==
  ASSUME HandInv, Next, NEW d \in Delivery
  PROVE  PgGoes(d)
<1>. USE DEF HandInv, SafeInv, TypeOK, PgGoes, PgLive, PgRunning
<1>0. pg' = pg => PgGoes(d)
  OBVIOUS
<1>1. ASSUME NEW x \in Delivery, NEW n \in Nat, PgEnqueue(x, n) PROVE PgGoes(d)
  BY <1>1 DEF PgEnqueue, PgTakes, PgWith
<1>2. ASSUME NEW x \in Delivery, Deliver(x) \/ RequestStep(x) PROVE PgGoes(d)
  <2>1. UNCHANGED pg \/ PgEnqueue(x, 0)
    BY <1>2 DEF RequestStep, Deliver, WriteTwin, Answered, GiveUp, SpoolWrite, stores
  <2>. QED
    BY <1>0, <1>1, <2>1
<1>3. ASSUME NEW x \in Delivery, HelperStep(x) PROVE PgGoes(d)
  <2>1. UNCHANGED pg \/ PgEnqueue(x, 0)
    BY <1>3 DEF HelperStep, HelperWrites, HelperFails, LateAnswer, RetireSpooled, stores
  <2>. QED
    BY <1>0, <1>1, <2>1
<1>4. ASSUME ForwardStep \/ ForwardPing PROVE PgGoes(d)
  <2>1. UNCHANGED pg \/ \E r \in moving.left : PgEnqueue(r.d, r.attempts)
    BY <1>4 DEF ForwardStep, ForwardRead, MoveInsert, MoveMark, ForwardFails, ForwardPing, stores
  <2>. QED
    BY <1>0, <1>1, <2>1
<1>5. ASSUME NEW t \in Thread, ClaimTable(t) \/ ClaimFails(t) \/ ClaimLane(t) \/ ClaimFile(t)
      PROVE  PgGoes(d)
  BY <1>5 DEF ClaimTable, ClaimFails, ClaimLane, ClaimFile, stores, PgClaimable, PgStarted
<1>6. ASSUME NEW t \in Thread, EndFileJob(t) PROVE PgGoes(d)
  BY <1>0, <1>6 DEF EndFileJob, Complete, CompleteRead, CompleteWrite, stores
<1>7. ASSUME BootStep PROVE PgGoes(d)
  <2>1. CASE pg' = TwinsRetired
    BY <2>1 DEF TwinsRetired, PgRow
  <2>2. CASE ExportCommit
    BY <2>2 DEF ExportCommit, PgRow
  <2>3. pg' = pg \/ pg' = TwinsRetired \/ ExportCommit
    BY <1>7 DEF BootStep, BootOnFile, BootOnPostgres, Imported, BootForRollback, ExportRow,
                BootFails, Gone, stores
  <2>. QED
    BY <1>0, <2>1, <2>2, <2>3
<1>8. ASSUME NEW x \in Delivery, PgStart(x) \/ PgStop(x) PROVE PgGoes(d)
  BY <1>8 DEF PgStart, PgStop, PgClaimable, PgStarted
<1>9. ASSUME Crash \/ Outage \/ OutageOver \/ LongOutage PROVE PgGoes(d)
  BY <1>0, <1>9 DEF Crash, Gone, Outage, OutageOver, LongOutage, stores
<1>. QED
  BY <1>2, <1>3, <1>4, <1>5, <1>6, <1>7, <1>8, <1>9 DEF Next

(* The steps that end a row of the file, and all they leave alone. *)
ByThread(d) == /\ \E t \in Thread : Runner(t) /\ work[t].d = d
               /\ UNCHANGED <<pg, backend, phase, helper, moving>>
ByBoot == \E b \in {"sqlite", "shadow"} : BootOnFile(b)
FileEnds(d) ==
  file'[d].status = "ended" =>
    \/ file[d].status = "ended"
    \/ ByThread(d)
    \/ ByBoot
    \/ (Imported /\ file[d].status = "running")
    \/ ExportCommit

LEMMA FileEnding ==
  ASSUME HandInv, Next, NEW d \in Delivery
  PROVE  FileEnds(d)
<1>. USE DEF HandInv, SafeInv, TypeOK, FileEnds
<1>0. file' = file => FileEnds(d)
  OBVIOUS
<1>1. ASSUME NEW x \in Delivery, Deliver(x) \/ RequestStep(x) PROVE FileEnds(d)
  <2>1. file' = file \/ FileEnqueue(x)
    BY <1>1 DEF RequestStep, Deliver, WriteTwin, Answered, GiveUp, SpoolWrite, stores
  <2>. QED
    BY <1>0, <2>1 DEF FileEnqueue, FileTakes, FileWith, FileRow
<1>m. ASSUME NEW x \in Delivery, file' = Marked(x) PROVE FileEnds(d)
  BY <1>m DEF Marked, FileLive, FileRow
<1>2. ASSUME NEW x \in Delivery, HelperStep(x) PROVE FileEnds(d)
  <2>1. file' = file \/ file' = Marked(x)
    BY <1>2 DEF HelperStep, HelperWrites, HelperFails, LateAnswer, RetireSpooled, stores
  <2>. QED
    BY <1>0, <1>m, <2>1
<1>3. ASSUME ForwardStep \/ ForwardPing PROVE FileEnds(d)
  <2>1. file' = file \/ \E x \in Delivery : file' = Marked(x)
    BY <1>3 DEF ForwardStep, ForwardRead, MoveInsert, MoveMark, ForwardFails, ForwardPing, stores
  <2>. QED
    BY <1>0, <1>m, <2>1
<1>4. ASSUME NEW t \in Thread, ClaimTable(t) \/ ClaimFails(t) \/ ClaimLane(t) \/ ClaimFile(t)
      PROVE  FileEnds(d)
  BY <1>4 DEF ClaimTable, ClaimFails, ClaimLane, ClaimFile, FileClaimable, FileStarted, stores
<1>5. ASSUME NEW t \in Thread, EndFileJob(t) PROVE FileEnds(d)
  <2>1. /\ Runner(t) /\ UNCHANGED <<pg, backend, phase, helper, moving>>
        /\ file' = file \/ \E s : file' = [file EXCEPT ![work[t].d].status = s]
    BY <1>5 DEF EndFileJob, Complete, CompleteRead, CompleteWrite, Runner, stores, serving
  <2>. QED
    BY <2>1 DEF ByThread
<1>6. ASSUME BootStep PROVE FileEnds(d)
  <2>1. ASSUME NEW b \in Backend, BootOnFile(b) PROVE ByBoot
    BY <2>1 DEF ByBoot, BootOnFile
  <2>2. CASE Imported
    BY <2>2 DEF Imported, FileRecovered
  <2>3. CASE ExportRow
    BY <2>3 DEF ExportRow, FileTakes, ImportedRow
  <2>4. CASE BootOnPostgres \/ BootForRollback \/ BootFails
    BY <1>0, <2>4 DEF BootOnPostgres, BootForRollback, BootFails, Gone, stores
  <2>. QED
    BY <1>6, <2>1, <2>2, <2>3, <2>4 DEF BootStep
<1>7. ASSUME NEW x \in Delivery, PgStart(x) \/ PgStop(x) PROVE FileEnds(d)
  BY <1>0, <1>7 DEF PgStart, PgStop
<1>8. ASSUME Crash \/ Outage \/ OutageOver \/ LongOutage PROVE FileEnds(d)
  BY <1>0, <1>8 DEF Crash, Gone, Outage, OutageOver, LongOutage, stores
<1>. QED
  BY <1>1, <1>2, <1>3, <1>4, <1>5, <1>6, <1>7, <1>8 DEF Next

(* Only a boot changes the backend. *)
LEMMA OnlyBootsSwitch ==
  ASSUME Next, backend' # backend
  PROVE  BootOnPostgres \/ BootForRollback \/ ByBoot
<1>1. ASSUME NEW x \in Delivery,
             Deliver(x) \/ RequestStep(x) \/ HelperStep(x) \/ PgStart(x) \/ PgStop(x)
      PROVE  backend' = backend
  BY <1>1 DEF RequestStep, Deliver, WriteTwin, Answered, GiveUp, SpoolWrite, serving,
              HelperStep, HelperWrites, HelperFails, LateAnswer, RetireSpooled, PgStart, PgStop
<1>2. ASSUME ForwardStep \/ ForwardPing PROVE backend' = backend
  BY <1>2 DEF ForwardStep, ForwardRead, MoveInsert, MoveMark, ForwardFails, ForwardPing, serving
<1>3. ASSUME NEW t \in Thread,
             ClaimTable(t) \/ ClaimFails(t) \/ ClaimLane(t) \/ ClaimFile(t) \/ EndFileJob(t)
      PROVE  backend' = backend
  BY <1>3 DEF ClaimTable, ClaimFails, ClaimLane, ClaimFile, serving,
              EndFileJob, Complete, CompleteRead, CompleteWrite
<1>4. ASSUME Imported \/ ExportRow \/ ExportCommit \/ BootFails \/ Crash
             \/ Outage \/ OutageOver \/ LongOutage
      PROVE  backend' = backend
  BY <1>4 DEF Imported, ExportRow, ExportCommit, BootFails, Crash, Gone, Outage, OutageOver,
              LongOutage, outside, serving
<1>5. ASSUME NEW b \in Backend, BootOnFile(b) PROVE ByBoot
  BY <1>5 DEF ByBoot, BootOnFile
<1>. QED
  BY <1>1, <1>2, <1>3, <1>4, <1>5 DEF Next, BootStep

LEMMA NoneRunsStep ==
  ASSUME BackByRollback, FinInv, Next
  PROVE  NoneRuns'
<1>. SUFFICES ASSUME FileRules', NEW d \in Delivery PROVE pg'[d].status \notin PgRunning
  BY DEF NoneRuns, PgRunning
<1>. USE DEF FinInv, HandInv, SafeInv, TypeOK
<1>1. CASE FileRules
  <2>1. backend # "postgres" /\ ~fleet
    BY <1>1 DEF FileRules, FileMode, Apart
  <2>. QED
    BY <1>1, <2>1, PgGoing DEF PgGoes, NoneRuns
<1>2. CASE ExportCommit
  BY <1>2 DEF ExportCommit, PgLive, PgRunning
<1>3. FileRules \/ ExportCommit
  <2>. DEFINE Kept == FileRules \/ ExportCommit
  <2>0. UNCHANGED <<backend, phase>> => Kept
    BY DEF FileRules
  <2>1. ASSUME NEW x \in Delivery,
               Deliver(x) \/ RequestStep(x) \/ HelperStep(x) \/ PgStart(x) \/ PgStop(x)
        PROVE  Kept
    BY <2>0, <2>1
       DEF RequestStep, Deliver, WriteTwin, Answered, GiveUp, SpoolWrite, serving,
           HelperStep, HelperWrites, HelperFails, LateAnswer, RetireSpooled, PgStart, PgStop
  <2>2. ASSUME ForwardStep \/ ForwardPing PROVE Kept
    BY <2>0, <2>2 DEF ForwardStep, ForwardRead, MoveInsert, MoveMark, ForwardFails, ForwardPing,
                      serving
  <2>3. ASSUME NEW t \in Thread,
               ClaimTable(t) \/ ClaimFails(t) \/ ClaimLane(t) \/ ClaimFile(t) \/ EndFileJob(t)
        PROVE  Kept
    BY <2>0, <2>3 DEF ClaimTable, ClaimFails, ClaimLane, ClaimFile, serving,
                      EndFileJob, Complete, CompleteRead, CompleteWrite
  <2>4. ASSUME NEW b \in Backend, BootOnFile(b) PROVE Kept
    <3>1. b \in {"sqlite", "shadow"} /\ (b = backend \/ <<backend, b>> \in Switch)
      BY <2>4 DEF BootOnFile, MayBoot
    <3>2. backend \in {"sqlite", "shadow"}
      BY <3>1 DEF BackByRollback, Backend
    <3>. QED
      BY <3>2 DEF FileRules, FileMode
  <2>5. ASSUME BootStep PROVE Kept
    <3>1. CASE BootOnPostgres \/ BootForRollback
      BY <3>1 DEF BootOnPostgres, BootForRollback, MayBoot, FileRules, FileMode
    <3>2. CASE Imported
      BY <3>2 DEF Imported, FileRules, FileMode, Apart
    <3>3. CASE ExportRow
      BY <2>0, <3>3 DEF ExportRow, serving
    <3>4. CASE BootFails
      BY <3>4 DEF BootFails, Gone, FileRules
    <3>. QED
      BY <2>4, <2>5, <3>1, <3>2, <3>3, <3>4 DEF BootStep
  <2>6. ASSUME Crash \/ Outage \/ OutageOver \/ LongOutage PROVE Kept
    BY <2>0, <2>6 DEF Crash, Gone, Outage, OutageOver, LongOutage, FileRules, serving
  <2>. QED
    BY <2>1, <2>2, <2>3, <2>5, <2>6 DEF Next
<1>. QED
  BY <1>1, <1>2, <1>3

LEMMA ImportStep ==
  ASSUME FinInv, Next
  PROVE  ImportCovers'
<1>. USE DEF FinInv, HandInv, SafeInv, TypeOK
<1>1. \A d, x \in moving'.mark : d = x
  <2>. DEFINE Alone == \A d, x \in moving'.mark : d = x
  <2>0. moving'.mark = moving.mark \/ moving'.mark = {} => Alone
    BY DEF ImportCovers
  <2>1. ASSUME NEW x \in Delivery,
               Deliver(x) \/ RequestStep(x) \/ HelperStep(x) \/ PgStart(x) \/ PgStop(x)
        PROVE  Alone
    BY <2>0, <2>1
       DEF RequestStep, Deliver, WriteTwin, Answered, GiveUp, SpoolWrite, volatile,
           HelperStep, HelperWrites, HelperFails, LateAnswer, RetireSpooled, PgStart, PgStop
  <2>2. ASSUME ForwardStep \/ ForwardPing PROVE Alone
    BY <2>0, <2>2 DEF ForwardStep, ForwardRead, MoveInsert, MoveMark, ForwardFails, ForwardPing, Still
  <2>3. ASSUME NEW t \in Thread,
               ClaimTable(t) \/ ClaimFails(t) \/ ClaimLane(t) \/ ClaimFile(t) \/ EndFileJob(t)
        PROVE  Alone
    BY <2>0, <2>3 DEF ClaimTable, ClaimFails, ClaimLane, ClaimFile,
                      EndFileJob, Complete, CompleteRead, CompleteWrite
  <2>4. ASSUME BootStep \/ Crash \/ Outage \/ OutageOver \/ LongOutage PROVE Alone
    BY <2>0, <2>4 DEF BootStep, BootOnFile, BootOnPostgres, Imported, BootForRollback, ExportRow,
                      ExportCommit, BootFails, Crash, Gone, Outage, OutageOver, LongOutage,
                      volatile, Still
  <2>. QED
    BY <2>1, <2>2, <2>3, <2>4 DEF Next
<1>2. ASSUME phase' = "importing", NEW d \in Delivery, file'[d].status \in FileLive
      PROVE  (d \in moving.mark \/ Moved(d))'
  <2>. DEFINE Row == [d |-> d, attempts |-> file[d].attempts]
  <2>1. CASE BootOnPostgres
    <3>1. Row \in moving'.left
      BY <1>2, <2>1 DEF BootOnPostgres, Still, Exported
    <3>. QED
      BY <3>1 DEF Moved
  <2>2. CASE phase = "importing"
    <3>0. UNCHANGED <<file, moving>> => (d \in moving.mark \/ Moved(d))'
      BY <1>2, <2>2 DEF ImportCovers, Moved
    <3>1. ASSUME NEW x \in Delivery,
                 Deliver(x) \/ RequestStep(x) \/ HelperStep(x) \/ PgStart(x) \/ PgStop(x)
          PROVE  UNCHANGED <<file, moving>>
      BY <2>2, <3>1
         DEF RequestStep, Deliver, WriteTwin, Answered, GiveUp, SpoolWrite, volatile, QuietBeforeUp,
             HelperStep, HelperWrites, HelperFails, LateAnswer, RetireSpooled, PgStart, PgStop
    <3>2. CASE MoveInsert
      <4>1. PICK r \in moving.left : moving' = [left |-> moving.left \ {r}, mark |-> {r.d}]
        BY <3>2 DEF MoveInsert
      <4>2. file' = file /\ moving.mark = {}
        BY <3>2 DEF MoveInsert
      <4>. QED
        BY <1>2, <2>2, <4>1, <4>2 DEF ImportCovers, Moved
    <3>3. CASE MoveMark
      <4>1. PICK x \in moving.mark : file' = Marked(x)
        BY <3>3 DEF MoveMark
      <4>2. file'[x].status \notin FileLive
        BY <4>1 DEF Marked, FileLive, FileRow
      <4>3. d # x /\ file'[d] = file[d] /\ moving'.left = moving.left
        BY <1>2, <3>3, <4>1, <4>2 DEF Marked, MoveMark
      <4>. QED
        BY <1>2, <2>2, <4>3 DEF ImportCovers, Moved
    <3>4. ~ForwardRead /\ ~ForwardFails /\ ~ForwardPing
      BY <2>2 DEF ForwardRead, ForwardFails, ForwardPing
    <3>5. ASSUME NEW t \in Thread,
                 ClaimTable(t) \/ ClaimFails(t) \/ ClaimLane(t) \/ ClaimFile(t) \/ EndFileJob(t)
          PROVE  FALSE
      BY <2>2, <3>5 DEF ClaimTable, ClaimFails, ClaimLane, ClaimFile, IdleDown,
                        EndFileJob, Complete, CompleteRead, CompleteWrite
    <3>6. ~BootStep /\ ~Crash
      BY <1>2, <2>2 DEF BootStep, BootOnFile, BootOnPostgres, Imported, BootForRollback, MayBoot,
                        ExportRow, ExportCommit, BootFails, Crash, Gone
    <3>7. ASSUME Outage \/ OutageOver \/ LongOutage PROVE UNCHANGED <<file, moving>>
      BY <3>7 DEF Outage, OutageOver, LongOutage, stores, volatile
    <3>. QED
      BY <3>0, <3>1, <3>2, <3>3, <3>4, <3>5, <3>6, <3>7 DEF Next, ForwardStep
  <2>3. phase = "importing" \/ BootOnPostgres
    BY <1>2 DEF Next, RequestStep, Deliver, WriteTwin, Answered, GiveUp, SpoolWrite,
                HelperStep, HelperWrites, HelperFails, LateAnswer, RetireSpooled,
                ForwardStep, ForwardRead, MoveInsert, MoveMark, ForwardFails, ForwardPing,
                ClaimTable, ClaimFails, ClaimLane, ClaimFile,
                EndFileJob, Complete, CompleteRead, CompleteWrite, PgStart, PgStop,
                BootStep, BootOnFile, Imported, BootForRollback, ExportRow, ExportCommit,
                BootFails, Crash, Gone, Outage, OutageOver, LongOutage, serving
  <2>. QED
    BY <2>1, <2>2, <2>3
<1>. QED
  BY <1>1, <1>2 DEF ImportCovers

LEMMA EndedStep ==
  ASSUME BackByRollback, FinInv, Next
  PROVE  EndedAlone'
<1>. SUFFICES ASSUME NEW d \in Delivery, Single(d)', file'[d].status = "ended"
              PROVE  NoTwinRuns(d)' /\ NoTwinComes(d)'
  BY DEF EndedAlone
<1>. USE DEF FinInv
<1>0. TypeOK
  BY DEF HandInv, SafeInv
<1>1. sent[d] \in Nat /\ sent'[d] \in Nat /\ sent[d] <= sent'[d] /\ SentMore(d)
  BY SentStep DEF SentMore
<1>2. Single(d)
  BY <1>1, ClaimsStep DEF Single
<1>3. CASE file[d].status = "ended"
  <2>1. NoTwinRuns(d) /\ NoTwinComes(d)
    BY <1>2, <1>3 DEF EndedAlone
  <2>2. PgGoes(d) /\ PgNew(d) /\ LeftNew(d)
    BY PgGoing, PgOrigin, LeftOrigin
  <2>3. pg'[d].status \notin PgRunning
    BY <2>1, <2>2 DEF NoTwinRuns, PgGoes, Apart
  <2>4. backend' = "postgres" => pg'[d].status # "waiting"
    <3>1. CASE backend = "postgres"
      BY <2>1, <2>2, <3>1 DEF NoTwinRuns, NoTwinComes, PgGoes, PgNew, PgLive, Apart
    <3>2. CASE backend # "postgres" /\ backend' = "postgres"
      <4>1. BootOnPostgres
        BY <3>2, OnlyBootsSwitch DEF ByBoot, BootOnFile, BootForRollback, MayBoot
      <4>. QED
        BY <1>0, <1>3, <4>1 DEF BootOnPostgres, TwinsRetired, ShadowFinished, TypeOK, PgRow
    <3>. QED
      BY <3>1, <3>2
  <2>5. helper'[d] # "open"
    <3>1. SUFFICES ASSUME sent'[d] > sent[d] PROVE FALSE
      BY <1>1, <2>1 DEF SentMore, NoTwinComes
    <3>2. sent[d] = 0
      BY <1>1, <3>1 DEF Single
    <3>. QED
      BY <1>3, <3>2 DEF Unsent
  <2>6. phase' # "exporting" => ~Moved(d)'
    BY <1>3, <2>1, <2>2 DEF LeftNew, NoTwinComes, FileLive
  <2>. QED
    BY <2>3, <2>4, <2>5, <2>6 DEF NoTwinRuns, NoTwinComes
<1>4. CASE ByThread(d)
  <2>1. PICK t \in Thread : Runner(t) /\ work[t].d = d
    BY <1>4 DEF ByThread
  <2>2. phase = "up" /\ backend \in FileMode
    BY <1>2, <2>1 DEF HandInv, IdleDown, LaneOrFile, OwnRow, Single, Runner
  <2>3. moving = Still /\ helper[d] = "none" /\ pg[d].status \notin PgRunning
    BY <2>2 DEF HandInv, FileAlone, NoneRuns, FileRules
  <2>. QED
    BY <1>4, <2>2, <2>3 DEF ByThread, NoTwinRuns, NoTwinComes, Moved, Still, FileMode
<1>5. CASE ByBoot
  <2>1. PICK b \in {"sqlite", "shadow"} : BootOnFile(b)
    BY <1>5 DEF ByBoot
  <2>2. backend \in {"sqlite", "shadow"}
    BY <1>0, <2>1 DEF BootOnFile, MayBoot, BackByRollback, Backend, TypeOK
  <2>3. phase = "down" /\ UNCHANGED <<pg, helper, moving>> /\ backend' = b
    BY <2>1 DEF BootOnFile, MayBoot, volatile
  <2>4. pg[d].status \notin PgRunning
    BY <2>2 DEF NoneRuns, FileRules, FileMode
  <2>5. moving = Still /\ helper[d] = "none"
    BY <2>3 DEF HandInv, SafeInv, IdleDown, QuietBeforeUp
  <2>. QED
    BY <2>3, <2>4, <2>5 DEF NoTwinRuns, NoTwinComes, Moved, Still
<1>6. ~(Imported /\ file[d].status = "running")
  BY DEF Imported, ImportCovers, Still, Moved, FileLive
<1>7. CASE ExportCommit
  <2>1. pg'[d].status \notin PgLive
    BY <1>0, <1>7 DEF ExportCommit, TypeOK, PgRow, PgLive, PgRunning
  <2>2. moving' = Still /\ helper'[d] = "none"
    BY <1>7 DEF ExportCommit, volatile, HandInv, SafeInv, QuietBeforeUp
  <2>. QED
    BY <2>1, <2>2 DEF NoTwinRuns, NoTwinComes, Moved, Still, PgLive
<1>. QED
  BY <1>3, <1>4, <1>5, <1>6, <1>7, FileEnding DEF FileEnds

LEMMA FinInit == Init => FinInv
  BY HandInit DEF Init, FinInv, Apart, Unsent, NoneRuns, FileRules, ImportCovers, EndedAlone,
                  Moved, Still, BlankFile, BlankPg, PgRunning, FileLive

LEMMA FinNext == BackByRollback /\ FinInv /\ [Next]_vars => FinInv'
<1>. SUFFICES ASSUME BackByRollback, FinInv, [Next]_vars PROVE FinInv'
  OBVIOUS
<1>1. CASE UNCHANGED vars
  <2>1. HandInv'
    BY <1>1, HandNext DEF FinInv
  <2>. QED
    BY <1>1, <2>1
       DEF vars, stores, outside, serving, volatile, history, FinInv, Apart, Unsent, NoneRuns,
           FileRules, ImportCovers, EndedAlone, NoTwinRuns, NoTwinComes, Single, Moved
<1>2. CASE Next
  BY <1>2, HandNext, ApartStep, UnsentStep, NoneRunsStep, ImportStep, EndedStep DEF FinInv
<1>. QED
  BY <1>1, <1>2

(* Deliveries to the table are started once: given that the operator goes  *)
(* back from Postgres by a rollback, and lets it come to its end, nothing  *)
(* that the file has run to its end is started by the table, unless the    *)
(* degraded lane ran it or GitHub sent it again.                           *)
THEOREM FinishedOnce ==
  ASSUME BackByRollback
  PROVE  Spec => FinishedStaysFinished
<1>1. ASSUME FinInv, Next, NEW d \in Delivery,
             pg'[d].status = "running", pg[d].status = "waiting", file[d].status = "ended"
      PROVE  d \in lane \/ sent[d] > 1
  <2>1. fleet \/ backend = "postgres"
    BY <1>1, PgGoing DEF FinInv, PgGoes, PgRunning
  <2>2. backend = "postgres" /\ sent[d] \in Nat
    BY <1>1, <2>1 DEF FinInv, Apart, HandInv, SafeInv, TypeOK
  <2>. QED
    BY <1>1, <2>2 DEF FinInv, EndedAlone, NoTwinRuns, Single
<1>2. FinInv /\ [Next]_vars =>
        [\A d \in Delivery :
           /\ pg'[d].status = "running" /\ pg[d].status = "waiting"
           /\ file[d].status = "ended"
           => d \in lane \/ sent[d] > 1]_vars
  BY <1>1
<1>3. FinInv /\ [Next]_vars => FinInv'
  BY FinNext
<1>. QED
  BY <1>2, <1>3, FinInit, PTL DEF Spec, FinishedStaysFinished
=============================================================================
