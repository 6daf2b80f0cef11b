------------------------- MODULE PgQueueRefinement --------------------------
(***************************************************************************)
(* PgQueue implements JobQueue. Each action is matched with the abstract   *)
(* step its writes to the status column amount to; the one-live-head rule  *)
(* of the table then follows from the rule of the promise.                 *)
(***************************************************************************)
EXTENDS PgQueueProofs

(* The status column and the abstract state say the same, in both states   *)
(* of a step.                                                              *)
LEMMA AbstractFacts ==
  ASSUME NEW r \in Row
  PROVE  /\ AbstractState[r] \in Promise!State
         /\ AbstractState[r] = "absent" <=> row[r].status = "none"
         /\ AbstractState[r] = "waiting" <=> row[r].status = "queued"
         /\ AbstractState[r] = "running" <=> row[r].status = "running"
         /\ AbstractState'[r] \in Promise!State
         /\ AbstractState'[r] = "absent" <=> row'[r].status = "none"
         /\ AbstractState'[r] = "waiting" <=> row'[r].status = "queued"
         /\ AbstractState'[r] = "running" <=> row'[r].status = "running"
  BY DEF AbstractState, Promise!State

(* Both specifications mean the same by "about one head". *)
LEMMA SameHeadFacts ==
  ASSUME NEW r \in Row, NEW x \in Row
  PROVE  Promise!SameHead(r, x) <=> Indexed(r) /\ SameHead(r, x)
<1>1. Indexed(r) => <<Job[r].kind, Job[r].pr, Job[r].ref>> # None
  BY PgConstants DEF Indexed
<1>2. Indexed(x) => <<Job[x].kind, Job[x].pr, Job[x].ref>> # None
  BY PgConstants DEF Indexed
<1>. QED
  BY <1>1, <1>2 DEF Promise!SameHead, HeadOf, SameHead, Indexed

(* A step that moves no status is a stutter of the promise. *)
LEMMA SameStatusStutters ==
  ASSUME \A r \in Row : row'[r].status = row[r].status
  PROVE  AbstractState' = AbstractState
  BY DEF AbstractState

(* A step that only takes rows out of "running" is a Stop. *)
LEMMA StopMaps ==
  ASSUME \A r \in Row : \/ row'[r].status = row[r].status
                        \/ row[r].status = "running" /\ row'[r].status \in {"queued"} \cup Ended
  PROVE  Promise!Stop
<1>1. AbstractState' \in [Row -> Promise!State]
  BY AbstractFacts DEF AbstractState
<1>2. ASSUME NEW r \in Row
      PROVE  \/ AbstractState'[r] = AbstractState[r]
             \/ AbstractState[r] = "running" /\ AbstractState'[r] \in {"waiting", "ended"}
  <2>1. CASE row'[r].status = row[r].status
    BY <2>1 DEF AbstractState
  <2>2. CASE row[r].status = "running" /\ row'[r].status \in {"queued"} \cup Ended
    BY <2>2 DEF AbstractState, Ended
  <2>. QED
    BY <2>1, <2>2
<1>. QED
  BY <1>1, <1>2 DEF Promise!Stop

(* An insert is an Accept, or finds a conflict and changes nothing. *)
LEMMA EnqueueMaps ==
  ASSUME TypeOK, NEW r \in Row, NEW b, Enqueue(r, b)
  PROVE  Promise!Accept(r) \/ row' = row
<1>. SUFFICES ASSUME row' # row PROVE Promise!Accept(r)
  OBVIOUS
<1>1. row[r].status = "none" /\ IndexFree(r) /\ row' = InsertedRow(r)
  BY DEF Enqueue
<1>2. Promise!HeadFree(r)
  BY <1>1, SameHeadFacts, AbstractFacts DEF Promise!HeadFree, Promise!LiveState, IndexFree, Live
<1>3. AbstractState' \in [Row -> Promise!State]
  BY AbstractFacts DEF AbstractState
<1>4. row'[r].status = "queued"
  BY <1>1 DEF InsertedRow, TypeOK, RowState
<1>5. ASSUME NEW x \in Row \ {r}
      PROVE  \/ AbstractState'[x] = AbstractState[x]
             \/ AbstractState[x] = "waiting" /\ AbstractState'[x] = "ended"
  <2>1. \/ row'[x].status = row[x].status
        \/ row[x].status = "queued" /\ row'[x].status = "superseded"
    BY <1>1 DEF InsertedRow, TypeOK, RowState
  <2>. QED
    BY <2>1 DEF AbstractState
<1>. QED
  BY <1>1, <1>2, <1>3, <1>4, <1>5, AbstractFacts DEF Promise!Accept

(* A retry revives an ended row, or starts a waiting one over. *)
LEMMA RetryMaps ==
  ASSUME TypeOK, NEW r \in Row, Retry(r)
  PROVE  Promise!Revive(r) \/ AbstractState' = AbstractState
<1>1. CASE row' = row
  BY <1>1 DEF AbstractState
<1>2. CASE Revivable(r) /\ row' = [row EXCEPT ![r] = RetriedRow(row[r])]
  <2>1. /\ row'[r].status = "queued"
        /\ \A x \in Row \ {r} : row'[x] = row[x]
    BY <1>2 DEF TypeOK, RowState, RetriedRow
  <2>2. CASE row[r].status = "queued"
    BY <2>1, <2>2, SameStatusStutters
  <2>3. CASE row[r].status # "queued"
    <3>1. AbstractState[r] = "ended"
      BY <1>2, <2>3 DEF AbstractState, Revivable, Retryable
    <3>2. Promise!HeadFree(r)
      BY <1>2, SameHeadFacts, AbstractFacts
         DEF Promise!HeadFree, Promise!LiveState, Revivable, IndexFree, Live
    <3>3. AbstractState' = [AbstractState EXCEPT ![r] = "waiting"]
      BY <2>1 DEF AbstractState
    <3>. QED
      BY <3>1, <3>2, <3>3 DEF Promise!Revive
  <2>. QED
    BY <2>2, <2>3
<1>. QED
  BY <1>1, <1>2 DEF Retry

(* A completion and a reaper write are Stops, whoever makes them. *)
LEMMA CompleteMaps ==
  ASSUME TypeOK, NEW m, NEW r \in Row, NEW result \in Result, Complete(m, r, result)
  PROVE  Promise!Stop
<1>1. Outcome(r, result) \in {"queued"} \cup Ended
  BY DEF Outcome, Result, Ended
<1>2. \A x \in Row : \/ row'[x].status = row[x].status
                     \/ row[x].status = "running" /\ row'[x].status \in {"queued"} \cup Ended
  BY <1>1 DEF Complete, Ours, Released, TypeOK, RowState
<1>. QED
  BY <1>2, StopMaps

LEMMA FinishRowMaps ==
  ASSUME TypeOK, NEW r, NEW s \in Ended, FinishRow(r, s)
  PROVE  Promise!Stop
<1>1. \A x \in Row : \/ row'[x].status = row[x].status
                     \/ row[x].status = "running" /\ row'[x].status \in {"queued"} \cup Ended
  BY DEF FinishRow, Released, TypeOK, RowState
<1>. QED
  BY <1>1, StopMaps


(* A claim starts a waiting row. *)
LEMMA ClaimMaps ==
  ASSUME TypeOK, NEW t \in Thread, NEW r \in Row, Claim(t, r)
  PROVE  Promise!Start(r)
<1>1. /\ row[r].status = "queued"
      /\ row'[r].status = "running"
      /\ \A x \in Row \ {r} : row'[x] = row[x]
  BY DEF Claim, Runnable, ClaimedRow, TypeOK, RowState
<1>. QED
  BY <1>1 DEF Promise!Start, AbstractState

(* The six parts of Next. *)
LEMMA WorkerMaps ==
  ASSUME TypeOK, NEW t \in Thread, WorkerStep(t) PROVE [Promise!Next]_AbstractState
<1>1. ASSUME NEW r \in Row, Claim(t, r) PROVE Promise!Next
  BY <1>1, ClaimMaps DEF Promise!Next
<1>2. ASSUME NEW result \in Result, FinishJob(t, result) \/ FinishMoved(t, result)
      PROVE Promise!Next
  <2>1. work[t].row \in Row
    BY <1>2, AttemptTyped DEF FinishJob, FinishMoved, Attempt
  <2>. QED
    BY <1>2, <2>1, CompleteMaps DEF FinishJob, FinishMoved, Promise!Next
<1>3. ASSUME NEW result \in Result, FinishUnwritten(t, result) PROVE AbstractState' = AbstractState
  BY <1>3 DEF FinishUnwritten, FailComplete, AbstractState
<1>4. ASSUME RequeueMoved(t) PROVE [Promise!Next]_AbstractState
  BY <1>4, EnqueueMaps DEF RequeueMoved, Promise!Next, AbstractState
<1>5. ASSUME FinishCancelled(t) PROVE [Promise!Next]_AbstractState
  <2>1. work[t].row \in Row
    BY <1>5, AttemptTyped DEF FinishCancelled, Attempt
  <2>2. CASE Complete(MachineOf[t], work[t].row, "done")
    BY <2>1, <2>2, CompleteMaps DEF Result, Promise!Next
  <2>3. CASE row' = row
    BY <2>3 DEF AbstractState
  <2>. QED
    BY <1>5, <2>2, <2>3 DEF FinishCancelled, FailComplete
<1>6. ASSUME ClaimNothing(t) \/ Begin(t) \/ FinishSettled(t) PROVE AbstractState' = AbstractState
  BY <1>6 DEF ClaimNothing, Begin, FinishSettled, AbstractState
<1>. QED
  BY <1>1, <1>2, <1>3, <1>4, <1>5, <1>6 DEF WorkerStep

LEMMA LeaseMaps == TypeOK /\ LeaseStep => [Promise!Next]_AbstractState
<1>. SUFFICES ASSUME TypeOK, LeaseStep PROVE [Promise!Next]_AbstractState
  OBVIOUS
<1>1. ASSUME NEW r \in Row, Lapse(r) PROVE AbstractState' = AbstractState
  BY <1>1, SameStatusStutters DEF Lapse, TypeOK, RowState
<1>2. ASSUME NEW l \in keeper, Heartbeat(l) PROVE AbstractState' = AbstractState
  BY <1>2, SameStatusStutters DEF Heartbeat, TypeOK, RowState
<1>3. ASSUME NEW l \in settling, SettleWrite(l) PROVE [Promise!Next]_AbstractState
  <2>1. l.row \in Row
    BY DEF TypeOK, Lease
  <2>2. CASE Complete(MachineOf[l.thread], l.row, "done")
    BY <2>1, <2>2, CompleteMaps DEF Result, Promise!Next
  <2>3. CASE row' = row
    BY <2>3 DEF AbstractState
  <2>. QED
    BY <1>3, <2>2, <2>3 DEF SettleWrite, FailComplete
<1>4. CASE row' = row
  BY <1>4 DEF AbstractState
<1>. QED
  BY <1>1, <1>2, <1>3, <1>4 DEF LeaseStep, LeaseLost, Overdue, Settle

LEMMA ReaperMaps ==
  ASSUME TypeOK, NEW p \in Reaper, ReaperStep(p) PROVE [Promise!Next]_AbstractState
<1>1. ASSUME ReapCancelled(p) \/ ReapDead(p) \/ ReapStaleHead(p) PROVE Promise!Next
  BY <1>1, FinishRowMaps DEF ReapCancelled, ReapDead, ReapStaleHead, Ended, Promise!Next
<1>2. ASSUME ReapRequeueHead(p) PROVE [Promise!Next]_AbstractState
  BY <1>2, EnqueueMaps DEF ReapRequeueHead, Promise!Next, AbstractState
<1>3. ASSUME ReapResume(p) PROVE Promise!Next
  <2>1. \A x \in Row : \/ row'[x].status = row[x].status
                       \/ row[x].status = "running" /\ row'[x].status \in {"queued"} \cup Ended
    BY <1>3 DEF ReapResume, ResumedRow, Released, TypeOK, RowState
  <2>. QED
    BY <2>1, StopMaps DEF Promise!Next
<1>4. ASSUME MarkDeadLetter(p) \/ MarkOutageRetry(p) \/ TellDeadLetter(p)
      PROVE AbstractState' = AbstractState
  <2>1. row \in [Row -> RowState]
    BY DEF TypeOK
  <2>2. \A x \in Row : row'[x].status = row[x].status
    BY <1>4, <2>1
       DEF MarkDeadLetter, MarkOutageRetry, MarkPosted, TellDeadLetter, RowState
  <2>. QED
    BY <2>2, SameStatusStutters
<1>5. ASSUME OutageRetry(p) PROVE [Promise!Next]_AbstractState
  <2>1. snap[p].row \in Row
    BY <1>5, NotedTyped DEF OutageRetry, Noted
  <2>. QED
    BY <1>5, <2>1, RetryMaps DEF OutageRetry, Promise!Next
<1>6. CASE row' = row
  BY <1>6 DEF AbstractState
<1>. QED
  BY <1>1, <1>2, <1>3, <1>4, <1>5, <1>6
     DEF ReaperStep, ReadExpired, ReadDead, ReadOutage, LoseReaper

LEMMA MachineMaps ==
  ASSUME TypeOK, NEW m \in Machine, MachineStep(m) PROVE [Promise!Next]_AbstractState
<1>1. ASSUME Boot(m) PROVE Promise!Next
  <2>1. \A r \in Row : RecoveredRow(r).status \in {"queued"} \cup Ended
    BY DEF RecoveredRow, Released, ResumedRow, TypeOK, RowState, Ended
  <2>2. \A r \in Row : \/ row'[r].status = row[r].status
                       \/ row[r].status = "running" /\ row'[r].status \in {"queued"} \cup Ended
    BY <1>1, <2>1 DEF Boot
  <2>. QED
    BY <2>2, StopMaps DEF Promise!Next
<1>2. CASE row' = row
  BY <1>2 DEF AbstractState
<1>. QED
  BY <1>1, <1>2 DEF MachineStep, Crash, Forget, Drain, Undrain, Drained, Exit

LEMMA OperatorMaps == TypeOK /\ OperatorStep => [Promise!Next]_AbstractState
<1>. SUFFICES ASSUME TypeOK, OperatorStep PROVE [Promise!Next]_AbstractState
  OBVIOUS
<1>1. ASSUME NEW r \in Row, Cancel(r) PROVE [Promise!Next]_AbstractState
  <2>1. CASE row[r].status = "queued" /\ row' = [row EXCEPT ![r].status = "cancelled"]
    <3>1. AbstractState' = [AbstractState EXCEPT ![r] = "ended"]
      BY <2>1 DEF AbstractState, TypeOK, RowState
    <3>. QED
      BY <2>1, <3>1 DEF Promise!Next, Promise!Retire, AbstractState
  <2>2. CASE row' = [row EXCEPT ![r].cancel = TRUE]
    BY <2>2, SameStatusStutters DEF TypeOK, RowState
  <2>. QED
    BY <1>1, <2>1, <2>2 DEF Cancel
<1>2. ASSUME NEW r \in Row, RetryNow(r) PROVE [Promise!Next]_AbstractState
  BY <1>2, RetryMaps DEF RetryNow, Promise!Next
<1>3. CASE row' = row
  BY <1>3 DEF AbstractState
<1>. QED
  BY <1>1, <1>2, <1>3 DEF OperatorStep, SetPaused

LEMMA IngressMaps == TypeOK /\ IngressStep => [Promise!Next]_AbstractState
<1>. SUFFICES ASSUME TypeOK, IngressStep PROVE [Promise!Next]_AbstractState
  OBVIOUS
<1>1. ASSUME NEW d \in Webhook, Deliver(d) PROVE [Promise!Next]_AbstractState
  BY <1>1, PgConstants, EnqueueMaps DEF Deliver, Promise!Next, AbstractState
<1>2. CASE row' = row
  BY <1>2 DEF AbstractState
<1>. QED
  BY <1>1, <1>2 DEF IngressStep, Push, CheckCiFix, SupersedeRunning

(* The Postgres queue keeps the promise of JobQueue: whatever its workers, *)
(* reapers, machines and operators do at once, every step of the table is  *)
(* a step the promise allows, or none.                                     *)
THEOREM Implements == Spec => ImplementsPromise
<1>1. Init => Promise!Init
  BY DEF Init, Promise!Init, AbstractState, BlankRow
<1>2. TypeOK /\ [Next]_vars => [Promise!Next]_AbstractState
  <2>. SUFFICES ASSUME TypeOK, [Next]_vars PROVE [Promise!Next]_AbstractState
    OBVIOUS
  <2>1. CASE UNCHANGED vars
    BY <2>1 DEF vars, AbstractState
  <2>. QED
    BY <2>1, IngressMaps, WorkerMaps, LeaseMaps, ReaperMaps, MachineMaps, OperatorMaps DEF Next
<1>. QED
  BY <1>1, <1>2, Typing, PTL DEF Spec, ImplementsPromise, Promise!Spec

(* Two live rows are never about one head. The rule is proved of the       *)
(* promise (JobQueue!OneLive) and carried over by the refinement.          *)
THEOREM OneLiveRow == Spec => []OneLiveHead
<1>1. Promise!OneLiveHead => OneLiveHead
  <2>. SUFFICES ASSUME Promise!OneLiveHead, NEW r \in Row, NEW x \in Row,
                       r # x, Indexed(r), SameHead(r, x),
                       row[r].status \in Live, row[x].status \in Live
                PROVE  FALSE
    BY DEF OneLiveHead
  <2>1. AbstractState[r] \in Promise!LiveState /\ AbstractState[x] \in Promise!LiveState
    BY AbstractFacts DEF Live, Promise!LiveState
  <2>2. Promise!SameHead(r, x)
    BY SameHeadFacts
  <2>. QED
    BY <2>1, <2>2 DEF Promise!OneLiveHead
<1>2. Promise!Spec => []Promise!OneLiveHead
  BY Promise!OneLive
<1>. QED
  BY <1>1, <1>2, Implements, PTL DEF ImplementsPromise
=============================================================================
