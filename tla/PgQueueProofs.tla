--------------------------- MODULE PgQueueProofs ----------------------------
(***************************************************************************)
(* Type correctness of PgQueue, the invariant the other proofs lean on;    *)
(* who runs and keeps a row; and what the queue counts.  One lemma for     *)
(* each row function, one for each step that several actions share, and    *)
(* one for each disjunct of Next.                                          *)
(***************************************************************************)
EXTENDS PgQueue, FiniteSetTheorems, TLAPS

(* What one transaction writes into one row keeps its columns typed. *)
LEMMA StatusTyped ==
  ASSUME NEW x \in RowState, NEW s \in Status
  PROVE  [x EXCEPT !.status = s] \in RowState
  BY DEF RowState, Status

LEMMA FlagsTyped ==
  ASSUME NEW x \in RowState
  PROVE  /\ [x EXCEPT !.cancel = TRUE] \in RowState
         /\ [x EXCEPT !.lapsed = TRUE] \in RowState
         /\ [x EXCEPT !.lapsed = FALSE] \in RowState
  BY DEF RowState

LEMMA ReleasedTyped ==
  ASSUME NEW x \in RowState, NEW s \in Status
  PROVE  Released(x, s) \in RowState
  BY DEF RowState, Released, Status

LEMMA ResumedTyped ==
  ASSUME NEW x \in RowState
  PROVE  ResumedRow(x) \in RowState
<1>1. Released(x, "queued") \in RowState
  BY ReleasedTyped DEF Status, Live
<1>2. Released(x, "queued").resumes + 1 \in Nat
  BY <1>1 DEF RowState
<1>. QED
  BY <1>1, <1>2 DEF ResumedRow, RowState

LEMMA RetriedTyped ==
  ASSUME NEW x \in RowState
  PROVE  RetriedRow(x) \in RowState
<1>1. x.revived + 1 \in Nat
  BY DEF RowState
<1>2. x.posted \ {"dead_letter"} \subseteq {"dead_letter", "outage_retry"}
  BY DEF RowState
<1>. QED
  BY <1>1, <1>2 DEF RowState, RetriedRow, Status, Live

LEMMA ClaimedTyped ==
  ASSUME NEW x \in RowState, NEW t \in Thread
  PROVE  ClaimedRow(x, t) \in RowState
<1>1. x.attempts + 1 \in Nat /\ x.claims + 1 \in Nat
  BY DEF RowState
<1>. QED
  BY <1>1 DEF RowState, ClaimedRow, Status, Live

LEMMA PostedTyped ==
  ASSUME NEW x \in RowState, NEW k \in {"dead_letter", "outage_retry"}
  PROVE  [x EXCEPT !.posted = x.posted \cup {k}] \in RowState
<1>1. x.posted \cup {k} \subseteq {"dead_letter", "outage_retry"}
  BY DEF RowState
<1>. QED
  BY <1>1 DEF RowState

LEMMA ToldTyped ==
  ASSUME NEW x \in RowState
  PROVE  [x EXCEPT !.told = x.told + 1] \in RowState
<1>1. x.told + 1 \in Nat
  BY DEF RowState
<1>. QED
  BY <1>1 DEF RowState

-----------------------------------------------------------------------------
(* The steps several actions share. *)
LEMMA EnqueueTyped ==
  ASSUME TypeOK, NEW r \in Row, NEW b \in BOOLEAN, Enqueue(r, b)
  PROVE  row' \in [Row -> RowState]
<1>1. InsertedRow(r) \in [Row -> RowState]
  <2>. SUFFICES ASSUME NEW x \in Row PROVE InsertedRow(r)[x] \in RowState
    BY DEF InsertedRow
  <2>. QED
    BY StatusTyped, FlagsTyped DEF InsertedRow, Status, Live, Ended, TypeOK
<1>. QED
  BY <1>1 DEF Enqueue, TypeOK

LEMMA CompleteTyped ==
  ASSUME TypeOK, NEW m, NEW r \in Row, NEW result \in Result, Complete(m, r, result)
  PROVE  row' \in [Row -> RowState] /\ held' \subseteq Lease /\ keeper' \subseteq Lease
<1>1. Outcome(r, result) \in Status
  BY DEF Outcome, Result, Status, Live, Ended
<1>. QED
  BY <1>1, ReleasedTyped DEF Complete, DropLease, TypeOK

LEMMA FailCompleteTyped ==
  ASSUME TypeOK, NEW m, NEW r \in Row, FailComplete(m, r)
  PROVE  row' = row /\ held' \subseteq Lease /\ keeper' \subseteq Lease
  BY DEF FailComplete, DropLease, TypeOK

LEMMA AttemptTyped ==
  ASSUME TypeOK, NEW t \in Thread, work[t].pc \notin {"idle", "claiming"}
  PROVE  work[t] \in Attempt
  BY DEF TypeOK, Idle, Claiming

LEMMA LeaveTyped ==
  ASSUME TypeOK, NEW t \in Thread, Leave(t)
  PROVE  work' \in [Thread -> Attempt \cup {Idle, Claiming}] /\ handle' \subseteq Row \X Thread
  BY DEF Leave, TypeOK

LEMMA PostTyped ==
  ASSUME TypeOK, NEW t \in Thread, NEW result \in Result, work[t].pc = "run", Post(t, result)
  PROVE  reviewed' \subseteq (Pull \cup {None}) \X (Ref \cup {NoRef})
<1>1. work[t] \in Attempt
  BY AttemptTyped
<1>. QED
  BY <1>1, PgConstants DEF Post, TypeOK, Attempt

LEMMA ForgetTyped ==
  ASSUME TypeOK, NEW m \in Machine, Forget(m)
  PROVE  /\ work' \in [Thread -> Attempt \cup {Idle, Claiming}]
         /\ held' \subseteq Lease /\ keeper' \subseteq Lease /\ settling' \subseteq Lease
         /\ handle' \subseteq Row \X Thread
         /\ machine' \in [Machine -> {"up", "draining", "leaving", "down"}]
         /\ superseding' \subseteq Serving \X Webhook
  BY DEF Forget, TypeOK

LEMMA StopTyped ==
  ASSUME TypeOK, NEW threads, Stop(threads)
  PROVE  work' \in [Thread -> Attempt \cup {Idle, Claiming}]
<1>1. ASSUME NEW t \in Thread, work[t].pc = "run"
      PROVE  [work[t] EXCEPT !.cancelled = TRUE] \in Attempt
  BY <1>1, AttemptTyped DEF Attempt
<1>2. \A t \in Thread : work[t] \in Attempt \cup {Idle, Claiming}
  BY DEF TypeOK
<1>. QED
  BY <1>1, <1>2 DEF Stop

LEMMA FinishRowTyped ==
  ASSUME TypeOK, NEW r \in Row, NEW s \in Status, FinishRow(r, s)
  PROVE  row' \in [Row -> RowState]
  BY ReleasedTyped DEF FinishRow, TypeOK

LEMMA DiscardTyped ==
  ASSUME TypeOK, NEW p \in Reaper, Discard(p)
  PROVE  snap' \in [Reaper -> Noted \cup {NoSnap}]
  BY DEF Discard, TypeOK

LEMMA NotedTyped ==
  ASSUME TypeOK, NEW p \in Reaper, snap[p].pc # "none"
  PROVE  snap[p] \in Noted
  BY DEF TypeOK, NoSnap

LEMMA ReadSnapTyped ==
  ASSUME TypeOK, NEW p \in Reaper, NEW pc \in {"dead", "outage"}, NEW r \in Row,
         ReadSnap(p, pc, r)
  PROVE  snap' \in [Reaper -> Noted \cup {NoSnap}]
<1>1. [NoSnap EXCEPT !.pc = pc, !.row = r] \in Noted
  BY DEF NoSnap, Noted, Phase
<1>. QED
  BY <1>1 DEF ReadSnap, TypeOK

LEMMA RetryTyped ==
  ASSUME TypeOK, NEW r \in Row, Retry(r)
  PROVE  row' \in [Row -> RowState]
  BY RetriedTyped DEF Retry, TypeOK

-----------------------------------------------------------------------------
(* The six parts of Next. *)
LEMMA InitTyped == Init => TypeOK
  BY PgConstants
     DEF Init, TypeOK, RowState, BlankRow, Idle, NoSnap, Ref, Status

LEMMA IngressTyped == TypeOK /\ IngressStep => TypeOK'
<1>. SUFFICES ASSUME TypeOK, IngressStep PROVE TypeOK'
  OBVIOUS
<1>1. ASSUME NEW p \in Pull, Push(p) PROVE TypeOK'
  BY <1>1, PgConstants DEF TypeOK, Push, Ref, fleet, process
<1>2. ASSUME NEW d \in Webhook, CheckCiFix(d) PROVE TypeOK'
  BY <1>2 DEF TypeOK, CheckCiFix, fleet, process
<1>3. ASSUME NEW d \in Webhook, Deliver(d) PROVE TypeOK'
  <2>1. row' \in [Row -> RowState]
    BY <1>3, PgConstants, EnqueueTyped DEF Deliver
  <2>. QED
    BY <1>3, <2>1 DEF TypeOK, Deliver, process
<1>4. ASSUME NEW m \in Serving, NEW d \in Webhook, SupersedeRunning(m, d) PROVE TypeOK'
  <2>1. work' \in [Thread -> Attempt \cup {Idle, Claiming}]
    BY <1>4, StopTyped DEF SupersedeRunning
  <2>. QED
    BY <1>4, <2>1 DEF TypeOK, SupersedeRunning, github
<1>. QED
  BY <1>1, <1>2, <1>3, <1>4 DEF IngressStep

LEMMA WorkerTyped ==
  ASSUME TypeOK, NEW t \in Thread, WorkerStep(t) PROVE TypeOK'
<1>1. ASSUME NEW r \in Row, Claim(t, r) PROVE TypeOK'
  <2>1. row' \in [Row -> RowState]
    BY <1>1, ClaimedTyped DEF TypeOK, Claim
  <2>2. row[r].claims + 1 \in Nat
    BY DEF TypeOK, RowState
  <2>3. work' \in [Thread -> Attempt \cup {Idle, Claiming}]
    BY <1>1, <2>2 DEF TypeOK, Claim, Attempt, Idle
  <2>. QED
    BY <1>1, <2>1, <2>3 DEF TypeOK, Claim, github, fleet
<1>8. ASSUME ClaimNothing(t) PROVE TypeOK'
  BY <1>8 DEF TypeOK, ClaimNothing, github, fleet
<1>9. ASSUME Begin(t) PROVE TypeOK'
  <2>1. work[t] \in Attempt /\ work[t].row \in Row
    BY <1>9, AttemptTyped DEF Begin, Attempt
  <2>2. HeadsRead(work[t].row) \subseteq Ref \cup {NoRef}
    BY <2>1, PgConstants DEF HeadsRead, TypeOK
  <2>3. PICK ref \in HeadsRead(work[t].row) :
          work' = [work EXCEPT ![t].pc = "run", ![t].target = ref]
    BY <1>9 DEF Begin
  <2>4. work' = [work EXCEPT ![t] = [work[t] EXCEPT !.pc = "run", !.target = ref]]
    BY <2>3 DEF TypeOK
  <2>5. work' \in [Thread -> Attempt \cup {Idle, Claiming}]
    BY <2>1, <2>2, <2>4 DEF TypeOK, Attempt
  <2>6. LeaseOf(t) \in Lease
    BY <2>1 DEF LeaseOf, Lease, Attempt
  <2>7. held' \subseteq Lease /\ keeper' \subseteq Lease /\ handle' \subseteq Row \X Thread
    BY <1>9, <2>1, <2>6 DEF TypeOK, Begin, HeldFor, HandlesFor
  <2>. QED
    BY <1>9, <2>5, <2>7 DEF TypeOK, Begin, github, fleet
<1>2. ASSUME NEW result \in Result, FinishJob(t, result) PROVE TypeOK'
  <2>1. work[t].row \in Row /\ work[t].pc = "run"
    BY <1>2, AttemptTyped DEF FinishJob, Attempt
  <2>. QED
    BY <1>2, <2>1, CompleteTyped, PostTyped, LeaveTyped DEF TypeOK, FinishJob, fleet
<1>3. ASSUME NEW result \in Result, FinishMoved(t, result) PROVE TypeOK'
  <2>1. work[t].row \in Row /\ work[t].pc = "run"
    BY <1>3, AttemptTyped DEF FinishMoved, Attempt
  <2>2. head[Job[work[t].row].pr] \in Ref
    BY <1>3, <2>1, PgConstants DEF FinishMoved, HeadMovedUnder, TypeOK
  <2>3. work' \in [Thread -> Attempt \cup {Idle, Claiming}]
    BY <1>3, <2>1, <2>2 DEF TypeOK, FinishMoved, Attempt, Idle
  <2>. QED
    BY <1>3, <2>1, <2>3, CompleteTyped, PostTyped DEF TypeOK, FinishMoved, fleet
<1>4. ASSUME NEW result \in Result, FinishUnwritten(t, result) PROVE TypeOK'
  <2>1. work[t].row \in Row /\ work[t].pc = "run"
    BY <1>4, AttemptTyped DEF FinishUnwritten, Attempt
  <2>. QED
    BY <1>4, <2>1, FailCompleteTyped, PostTyped, LeaveTyped DEF TypeOK, FinishUnwritten, fleet
<1>5. ASSUME RequeueMoved(t) PROVE TypeOK'
  <2>1. row' \in [Row -> RowState]
    BY <1>5, EnqueueTyped DEF RequeueMoved, TypeOK
  <2>. QED
    BY <1>5, <2>1, LeaveTyped DEF TypeOK, RequeueMoved, github, fleet
<1>6. ASSUME FinishCancelled(t) PROVE TypeOK'
  <2>1. work[t].row \in Row
    BY <1>6, AttemptTyped DEF FinishCancelled, Attempt
  <2>2. row' \in [Row -> RowState] /\ held' \subseteq Lease /\ keeper' \subseteq Lease
    <3>1. CASE Complete(MachineOf[t], work[t].row, "done")
      BY <2>1, <3>1, CompleteTyped DEF Result
    <3>2. CASE FailComplete(MachineOf[t], work[t].row)
      BY <2>1, <3>2, FailCompleteTyped DEF TypeOK
    <3>3. CASE UNCHANGED <<row, held, keeper>>
      BY <3>3 DEF TypeOK
    <3>. QED
      BY <1>6, <3>1, <3>2, <3>3 DEF FinishCancelled
  <2>. QED
    BY <1>6, <2>2, LeaveTyped DEF TypeOK, FinishCancelled, github, fleet
<1>7. ASSUME FinishSettled(t) PROVE TypeOK'
  BY <1>7, LeaveTyped DEF TypeOK, FinishSettled, github, fleet
<1>. QED
  BY <1>1, <1>2, <1>3, <1>4, <1>5, <1>6, <1>7, <1>8, <1>9 DEF WorkerStep

LEMMA LeaseTyped == TypeOK /\ LeaseStep => TypeOK'
<1>. SUFFICES ASSUME TypeOK, LeaseStep PROVE TypeOK'
  OBVIOUS
<1>1. ASSUME NEW r \in Row, Lapse(r) PROVE TypeOK'
  BY <1>1, FlagsTyped DEF TypeOK, Lapse, github, fleet, process
<1>2. ASSUME NEW l \in keeper, Heartbeat(l) PROVE TypeOK'
  BY <1>2, FlagsTyped DEF TypeOK, Heartbeat, Lease, github, fleet, process
<1>3. ASSUME NEW l \in keeper, LeaseLost(l) PROVE TypeOK'
  <2>1. work' \in [Thread -> Attempt \cup {Idle, Claiming}]
    BY <1>3, StopTyped DEF LeaseLost
  <2>. QED
    BY <1>3, <2>1 DEF TypeOK, LeaseLost, github, fleet
<1>4. ASSUME NEW t \in Thread, Overdue(t) PROVE TypeOK'
  <2>1. work' \in [Thread -> Attempt \cup {Idle, Claiming}]
    BY <1>4, StopTyped DEF Overdue
  <2>. QED
    BY <1>4, <2>1 DEF TypeOK, Overdue, github, fleet
<1>5. ASSUME NEW t \in Thread, Settle(t) PROVE TypeOK'
  <2>1. work[t] \in Attempt
    BY <1>5, AttemptTyped DEF Settle
  <2>2. work' \in [Thread -> Attempt \cup {Idle, Claiming}]
    BY <1>5, <2>1 DEF TypeOK, Settle, Attempt
  <2>3. LeaseOf(t) \in Lease
    BY <2>1 DEF LeaseOf, Lease, Attempt
  <2>. QED
    BY <1>5, <2>2, <2>3 DEF TypeOK, Settle, github, fleet
<1>6. ASSUME NEW l \in settling, SettleWrite(l) PROVE TypeOK'
  <2>1. l.row \in Row
    BY DEF TypeOK, Lease
  <2>2. row' \in [Row -> RowState] /\ held' \subseteq Lease /\ keeper' \subseteq Lease
    <3>1. CASE Complete(MachineOf[l.thread], l.row, "done")
      BY <2>1, <3>1, CompleteTyped DEF Result
    <3>2. CASE FailComplete(MachineOf[l.thread], l.row)
      BY <2>1, <3>2, FailCompleteTyped DEF TypeOK
    <3>. QED
      BY <1>6, <3>1, <3>2 DEF SettleWrite
  <2>. QED
    BY <1>6, <2>2 DEF TypeOK, SettleWrite, github, fleet
<1>. QED
  BY <1>1, <1>2, <1>3, <1>4, <1>5, <1>6 DEF LeaseStep

LEMMA ReaperTyped ==
  ASSUME TypeOK, NEW p \in Reaper, ReaperStep(p) PROVE TypeOK'
<1>. USE DEF github, fleet, process
<1>1. ASSUME NEW r \in Row, ReadExpired(p, r) PROVE TypeOK'
  <2>1. row[r].cancel \in BOOLEAN /\ row[r].resumes \in Nat
    BY DEF TypeOK, RowState
  <2>2. snap' \in [Reaper -> Noted \cup {NoSnap}]
    BY <1>1, <2>1 DEF TypeOK, ReadExpired, Noted, NoSnap, Phase
  <2>. QED
    BY <1>1, <2>2 DEF TypeOK, ReadExpired
<1>2. ASSUME NEW r \in Row, ReadDead(p, r) \/ ReadOutage(p, r) PROVE TypeOK'
  <2>1. snap' \in [Reaper -> Noted \cup {NoSnap}]
    BY <1>2, ReadSnapTyped DEF ReadDead, ReadOutage
  <2>. QED
    BY <1>2, <2>1 DEF TypeOK, ReadDead, ReadOutage
<1>3. ASSUME ReapCancelled(p) \/ ReapDead(p) PROVE TypeOK'
  <2>1. snap[p].row \in Row
    BY <1>3, NotedTyped DEF ReapCancelled, ReapDead, Noted
  <2>2. row' \in [Row -> RowState]
    BY <1>3, <2>1, FinishRowTyped DEF ReapCancelled, ReapDead, Status, Ended
  <2>. QED
    BY <1>3, <2>2, DiscardTyped DEF TypeOK, ReapCancelled, ReapDead
<1>4. ASSUME ReapStaleHead(p) PROVE TypeOK'
  <2>1. snap[p].row \in Row
    BY <1>4, NotedTyped DEF ReapStaleHead, Noted
  <2>2. head[Job[snap[p].row].pr] \in Ref
    BY <1>4, <2>1, PgConstants DEF TypeOK, ReapStaleHead, HeadMoved, Indexed
  <2>3. row' \in [Row -> RowState]
    BY <1>4, <2>1, FinishRowTyped DEF ReapStaleHead, Status, Ended
  <2>4. snap' \in [Reaper -> Noted \cup {NoSnap}]
    <3>1. [NoSnap EXCEPT !.pc = "requeue", !.row = snap[p].row,
                         !.to = head[Job[snap[p].row].pr]] \in Noted
      BY <2>1, <2>2 DEF NoSnap, Noted, Phase
    <3>. QED
      BY <1>4, <3>1, DiscardTyped DEF TypeOK, ReapStaleHead
  <2>. QED
    BY <1>4, <2>3, <2>4 DEF TypeOK, ReapStaleHead
<1>5. ASSUME ReapRequeueHead(p) PROVE TypeOK'
  <2>1. row' \in [Row -> RowState]
    BY <1>5, EnqueueTyped DEF ReapRequeueHead, TypeOK
  <2>. QED
    BY <1>5, <2>1, DiscardTyped DEF TypeOK, ReapRequeueHead
<1>6. ASSUME ReapResume(p) PROVE TypeOK'
  <2>1. row' \in [Row -> RowState]
    BY <1>6, ResumedTyped DEF ReapResume, TypeOK
  <2>. QED
    BY <1>6, <2>1, DiscardTyped DEF TypeOK, ReapResume
<1>7. ASSUME MarkDeadLetter(p) \/ MarkOutageRetry(p) PROVE TypeOK'
  <2>1. snap[p] \in Noted
    BY <1>7, NotedTyped DEF MarkDeadLetter, MarkOutageRetry, MarkPosted
  <2>2. row' \in [Row -> RowState]
    BY <1>7, PostedTyped DEF MarkDeadLetter, MarkOutageRetry, MarkPosted, TypeOK
  <2>3. snap' \in [Reaper -> Noted \cup {NoSnap}]
    BY <1>7, <2>1, DiscardTyped
       DEF MarkDeadLetter, MarkOutageRetry, MarkPosted, TypeOK, Noted, Phase
  <2>. QED
    BY <1>7, <2>2, <2>3 DEF TypeOK, MarkDeadLetter, MarkOutageRetry, MarkPosted
<1>8. ASSUME TellDeadLetter(p) PROVE TypeOK'
  <2>1. row' \in [Row -> RowState]
    BY <1>8, ToldTyped DEF TellDeadLetter, TypeOK
  <2>. QED
    BY <1>8, <2>1, DiscardTyped DEF TypeOK, TellDeadLetter
<1>9. ASSUME OutageRetry(p) PROVE TypeOK'
  <2>1. snap[p].row \in Row
    BY <1>9, NotedTyped DEF OutageRetry, Noted
  <2>. QED
    BY <1>9, <2>1, RetryTyped, DiscardTyped DEF TypeOK, OutageRetry
<1>10. ASSUME LoseReaper(p) PROVE TypeOK'
  BY <1>10, DiscardTyped DEF TypeOK, LoseReaper
<1>. QED
  BY <1>1, <1>2, <1>3, <1>4, <1>5, <1>6, <1>7, <1>8, <1>9, <1>10 DEF ReaperStep

LEMMA MachineTyped ==
  ASSUME TypeOK, NEW m \in Machine, MachineStep(m) PROVE TypeOK'
<1>1. ASSUME Crash(m) PROVE TypeOK'
  BY <1>1, ForgetTyped DEF TypeOK, Crash, github
<1>2. ASSUME Boot(m) PROVE TypeOK'
  <2>1. \A r \in Row : RecoveredRow(r) \in RowState
    BY ReleasedTyped, ResumedTyped DEF RecoveredRow, TypeOK, Status, Ended
  <2>. QED
    BY <1>2, <2>1 DEF TypeOK, Boot, github, process
<1>3. ASSUME Drain(m) PROVE TypeOK'
  <2>1. work' \in [Thread -> Attempt \cup {Idle, Claiming}]
    BY <1>3 DEF TypeOK, Drain
  <2>. QED
    BY <1>3, <2>1 DEF TypeOK, Drain, github
<1>4. ASSUME Undrain(m) \/ Drained(m) PROVE TypeOK'
  BY <1>4 DEF TypeOK, Undrain, Drained, github, process
<1>5. ASSUME Exit(m) PROVE TypeOK'
  BY <1>5, ForgetTyped DEF TypeOK, Exit, github
<1>. QED
  BY <1>1, <1>2, <1>3, <1>4, <1>5 DEF MachineStep

LEMMA OperatorTyped == TypeOK /\ OperatorStep => TypeOK'
<1>. SUFFICES ASSUME TypeOK, OperatorStep PROVE TypeOK'
  OBVIOUS
<1>. USE DEF github, fleet, process
<1>1. ASSUME NEW r \in Row, Cancel(r) PROVE TypeOK'
  <2>1. row' \in [Row -> RowState]
    <3>1. /\ [row[r] EXCEPT !.status = "cancelled"] \in RowState
          /\ [row[r] EXCEPT !.cancel = TRUE] \in RowState
      BY StatusTyped, FlagsTyped DEF TypeOK, Status, Ended
    <3>2. \/ row' = [row EXCEPT ![r] = [row[r] EXCEPT !.status = "cancelled"]]
          \/ row' = [row EXCEPT ![r] = [row[r] EXCEPT !.cancel = TRUE]]
      BY <1>1 DEF Cancel
    <3>. QED
      BY <3>1, <3>2 DEF TypeOK
  <2>. QED
    BY <1>1, <2>1 DEF TypeOK, Cancel
<1>2. ASSUME NEW r \in Row, RetryNow(r) PROVE TypeOK'
  BY <1>2, RetryTyped DEF TypeOK, RetryNow
<1>3. ASSUME NEW k \in Tenant, SetPaused(k) PROVE TypeOK'
  BY <1>3 DEF TypeOK, SetPaused
<1>. QED
  BY <1>1, <1>2, <1>3 DEF OperatorStep

(* Every column, attempt, lease and snapshot holds a value the code could  *)
(* store, in every reachable state of every instance.                      *)
THEOREM Typing == Spec => []TypeOK
<1>1. TypeOK /\ [Next]_vars => TypeOK'
  <2>. SUFFICES ASSUME TypeOK, [Next]_vars PROVE TypeOK'
    OBVIOUS
  <2>1. CASE UNCHANGED vars
    BY <2>1 DEF vars, github, fleet, process, TypeOK
  <2>. QED
    BY <2>1, IngressTyped, WorkerTyped, LeaseTyped, ReaperTyped, MachineTyped,
       OperatorTyped DEF Next
<1>. QED
  BY <1>1, InitTyped, PTL DEF Spec

-----------------------------------------------------------------------------
(* Who runs what.  Only a claim makes a row run; every other step of the   *)
(* table leaves a row that still runs with its worker, its claim and the   *)
(* request to stop it.                                                     *)
Calm ==
  \A r \in Row : row'[r].status = "running" =>
    /\ row[r].status = "running"
    /\ row'[r].owner = row[r].owner
    /\ row'[r].claims = row[r].claims
    /\ row[r].cancel => row'[r].cancel

LEMMA ReleasedStops ==
  ASSUME NEW x \in RowState, NEW s \in Status \ {"running"}
  PROVE  Released(x, s).status # "running" /\ ResumedRow(x).status # "running"
  BY DEF Released, ResumedRow, RowState

LEMMA EnqueueCalm ==
  ASSUME TypeOK, NEW r \in Row, NEW b \in BOOLEAN, Enqueue(r, b)
  PROVE  Calm
<1>1. \A x \in Row : row[x] \in RowState
  BY DEF TypeOK
<1>2. CASE row' = row
  BY <1>2 DEF Calm
<1>3. CASE row' = InsertedRow(r)
  BY <1>1, <1>3 DEF Calm, InsertedRow, RowState
<1>. QED
  BY <1>2, <1>3 DEF Enqueue

LEMMA FinishRowCalm ==
  ASSUME TypeOK, NEW r \in Row, NEW s \in Status \ {"running"}, FinishRow(r, s)
  PROVE  Calm
  BY ReleasedStops DEF FinishRow, TypeOK, Calm

LEMMA CompleteCalm ==
  ASSUME TypeOK, NEW m, NEW r \in Row, NEW result \in Result, Complete(m, r, result)
  PROVE  Calm
<1>1. Outcome(r, result) \in Status \ {"running"}
  BY DEF Outcome, Result, Status, Live, Ended
<1>. QED
  BY <1>1, ReleasedStops DEF Complete, TypeOK, Calm

LEMMA RetryCalm ==
  ASSUME TypeOK, NEW r \in Row, Retry(r)
  PROVE  Calm
<1>1. RetriedRow(row[r]).status # "running"
  BY DEF RetriedRow, TypeOK, RowState
<1>. QED
  BY <1>1 DEF Retry, TypeOK, Calm

LEMMA BootCalm ==
  ASSUME TypeOK, NEW m \in Machine, Boot(m)
  PROVE  /\ Calm
         /\ \A r \in Row : row'[r].status = "running" /\ row'[r].owner # None
                           => MachineOf[row'[r].owner] # m
<1>1. \A r \in Row : RecoveredRow(r).status # "running"
  BY ReleasedStops DEF RecoveredRow, TypeOK, Status, Live, Ended
<1>. QED
  BY <1>1 DEF Boot, Calm, TypeOK

LEMMA IngressCalm ==
  ASSUME TypeOK, IngressStep
  PROVE  Calm /\ UNCHANGED <<machine, held>> /\ (Serving = {} => UNCHANGED process)
<1>1. ASSUME NEW p \in Pull, Push(p)
      PROVE  UNCHANGED <<row, machine, process>>
  BY <1>1 DEF Push, fleet
<1>2. ASSUME NEW d \in Webhook, CheckCiFix(d)
      PROVE  UNCHANGED <<row, machine, process>>
  BY <1>2 DEF CheckCiFix, fleet
<1>3. ASSUME NEW d \in Webhook, Deliver(d)
      PROVE  Calm /\ UNCHANGED <<machine, process>>
  BY <1>3, EnqueueCalm, PgConstants DEF Deliver
<1>4. ASSUME NEW m \in Serving, NEW d \in Webhook, SupersedeRunning(m, d)
      PROVE  UNCHANGED <<row, machine, held>>
  BY <1>4 DEF SupersedeRunning
<1>. QED
  BY <1>1, <1>2, <1>3, <1>4 DEF IngressStep, Calm, process

LEMMA ReaperCalm ==
  ASSUME TypeOK, NEW p \in Reaper, ReaperStep(p)
  PROVE  Calm /\ UNCHANGED <<fleet, process>>
<1>. USE DEF fleet, process
<1>1. ASSUME NEW r \in Row, ReadExpired(p, r) \/ ReadDead(p, r) \/ ReadOutage(p, r)
      PROVE  Calm /\ UNCHANGED <<fleet, process>>
  BY <1>1 DEF ReadExpired, ReadDead, ReadOutage, Calm
<1>2. ASSUME ReapCancelled(p) \/ ReapDead(p) \/ ReapStaleHead(p)
      PROVE  Calm /\ UNCHANGED <<fleet, process>>
  <2>1. snap[p].row \in Row
    BY <1>2, NotedTyped DEF ReapCancelled, ReapDead, ReapStaleHead, Noted
  <2>2. "cancelled" \in Status \ {"running"} /\ "dead" \in Status \ {"running"}
    BY DEF Status, Ended
  <2>3. Calm
    BY <1>2, <2>1, <2>2, FinishRowCalm DEF ReapCancelled, ReapDead, ReapStaleHead
  <2>. QED
    BY <1>2, <2>3 DEF ReapCancelled, ReapDead, ReapStaleHead
<1>3. ASSUME ReapRequeueHead(p) PROVE Calm /\ UNCHANGED <<fleet, process>>
  <2>1. Calm
    BY <1>3, EnqueueCalm DEF ReapRequeueHead, Calm
  <2>. QED
    BY <1>3, <2>1 DEF ReapRequeueHead
<1>4. ASSUME ReapResume(p) PROVE Calm /\ UNCHANGED <<fleet, process>>
  <2>1. \A r \in Row : ResumedRow(row[r]).status # "running"
    BY DEF ResumedRow, Released, TypeOK, RowState
  <2>. QED
    BY <1>4, <2>1 DEF ReapResume, TypeOK, Calm
<1>5. ASSUME MarkDeadLetter(p) \/ MarkOutageRetry(p) \/ TellDeadLetter(p)
      PROVE  Calm /\ UNCHANGED <<fleet, process>>
  <2>1. \A r \in Row : row[r] \in RowState
    BY DEF TypeOK
  <2>2. Calm
    BY <1>5, <2>1
       DEF MarkDeadLetter, MarkOutageRetry, MarkPosted, TellDeadLetter, TypeOK, RowState, Calm
  <2>. QED
    BY <1>5, <2>2 DEF MarkDeadLetter, MarkOutageRetry, MarkPosted, TellDeadLetter
<1>6. ASSUME OutageRetry(p) PROVE Calm /\ UNCHANGED <<fleet, process>>
  <2>1. snap[p].row \in Row
    BY <1>6, NotedTyped DEF OutageRetry, Noted
  <2>. QED
    BY <1>6, <2>1, RetryCalm DEF OutageRetry
<1>7. ASSUME LoseReaper(p) PROVE Calm /\ UNCHANGED <<fleet, process>>
  BY <1>7 DEF LoseReaper, Calm
<1>. QED
  BY <1>1, <1>2, <1>3, <1>4, <1>5, <1>6, <1>7 DEF ReaperStep

LEMMA OperatorCalm ==
  ASSUME TypeOK, OperatorStep
  PROVE  Calm /\ UNCHANGED <<fleet, process>>
<1>1. ASSUME NEW r \in Row, Cancel(r) PROVE Calm /\ UNCHANGED <<fleet, process>>
  <2>1. row[r] \in RowState
    BY DEF TypeOK
  <2>2. \/ row' = [row EXCEPT ![r] = [row[r] EXCEPT !.status = "cancelled"]]
        \/ row' = [row EXCEPT ![r] = [row[r] EXCEPT !.cancel = TRUE]]
    BY <1>1 DEF Cancel
  <2>3. Calm
    BY <2>1, <2>2 DEF TypeOK, RowState, Calm
  <2>. QED
    BY <1>1, <2>3 DEF Cancel
<1>2. ASSUME NEW r \in Row, RetryNow(r) PROVE Calm /\ UNCHANGED <<fleet, process>>
  BY <1>2, RetryCalm DEF RetryNow
<1>3. ASSUME NEW k \in Tenant, SetPaused(k) PROVE Calm /\ UNCHANGED <<fleet, process>>
  BY <1>3 DEF SetPaused, Calm
<1>. QED
  BY <1>1, <1>2, <1>3 DEF OperatorStep

-----------------------------------------------------------------------------
(* A running row has a worker, and a worker whose process is up holds a    *)
(* lease for every row it runs, or is about to start one: nothing but the  *)
(* end of the row, or of the process, takes the lease away.  A completion  *)
(* whose transaction fails would: it drops the lease first.  A second      *)
(* thread of the process would: its lease on a row it claimed long ago     *)
(* takes the place of the first one's.                                     *)
OneThreadEach == \A t, w \in Thread : MachineOf[t] = MachineOf[w] => t = w

Alive(t) == machine[MachineOf[t]] # "down"

Runs(t, r) == row[r].status = "running" /\ row[r].owner = t

Starts(t, r) == work[t].pc = "claimed" /\ work[t].row = r

RunningOwned == \A r \in Row : row[r].status = "running" => row[r].owner \in Thread

LeaseHeld == \A r \in Row, t \in Thread :
               Runs(t, r) /\ Alive(t) => \/ Starts(t, r)
                                        \/ \E l \in held : l.row = r /\ l.thread = t

Leased == TypeOK /\ RunningOwned /\ LeaseHeld

(* The completion of a row by its own worker's process ends the run.       *)
LEMMA CompleteEnds ==
  ASSUME OneThreadEach, Leased, NEW t \in Thread, NEW r \in Row, NEW result \in Result,
         Runs(t, r), Complete(MachineOf[t], r, result)
  PROVE  row'[r].status # "running"
<1>1. Ours(MachineOf[t], r)
  <2>1. \A l \in HeldFor(MachineOf[t], r) : l.thread = t
    BY DEF HeldFor, OneThreadEach, Leased, TypeOK, Lease
  <2>2. row[r].status = "running" /\ row[r].owner = t /\ t # None
    BY PgConstants DEF Runs
  <2>. QED
    BY <2>1, <2>2 DEF Ours
<1>2. Outcome(r, result) \in Status \ {"running"}
  BY DEF Outcome, Result, Status, Live, Ended
<1>. QED
  BY <1>1, <1>2, ReleasedStops DEF Complete, Leased, TypeOK

(* What a step may do to the leases, the machines and who runs what.       *)
KeepsStarts == \A t \in Thread : work[t].pc = "claimed" => work'[t] = work[t]

Undisturbed ==
  /\ Calm /\ KeepsStarts /\ held' = held
  /\ \A m \in Machine : /\ machine'[m] = "down" <=> machine[m] = "down"
                        /\ machine'[m] = "leaving" => machine[m] = "leaving"

Completion ==
  /\ machine' = machine /\ KeepsStarts
  /\ \E m \in Machine, r \in Row, result \in Result : Complete(m, r, result)

(* A thread that leaves its attempt, and the keepers that cancel attempts, *)
(* touch no thread that has yet to begin one.                              *)
LEMMA LeaveKeepsStarts ==
  ASSUME TypeOK, NEW t \in Thread, work[t].pc # "claimed", Leave(t)
  PROVE  KeepsStarts
  BY DEF Leave, KeepsStarts, TypeOK

LEMMA StopKeepsStarts ==
  ASSUME NEW threads, Stop(threads)
  PROVE  KeepsStarts
  BY DEF Stop, KeepsStarts

LEMMA WorkerShape ==
  ASSUME "db_error" \notin Env, TypeOK, NEW t \in Thread, WorkerStep(t)
  PROVE  Undisturbed \/ Completion \/ Begin(t) \/ \E r \in Row : Claim(t, r)
<1>1. MachineOf[t] \in Machine
  BY PgConstants
<1>2. work[t].pc = "run" => work[t].row \in Row
  BY AttemptTyped DEF Attempt
<1>3. ASSUME NEW result \in Result,
             FinishJob(t, result) \/ FinishMoved(t, result) \/ FinishUnwritten(t, result)
      PROVE  Completion
  <2>1. KeepsStarts
    BY <1>3, LeaveKeepsStarts DEF FinishJob, FinishMoved, FinishUnwritten, KeepsStarts, TypeOK
  <2>. QED
    BY <1>1, <1>2, <1>3, <2>1
       DEF FinishJob, FinishMoved, FinishUnwritten, FailComplete, Completion, fleet
<1>4. ASSUME RequeueMoved(t) PROVE Undisturbed
  <2>1. Calm
    BY <1>4, EnqueueCalm DEF RequeueMoved, Calm
  <2>. QED
    BY <1>4, <2>1, LeaveKeepsStarts DEF RequeueMoved, Undisturbed, fleet
<1>5. ASSUME FinishCancelled(t) PROVE Undisturbed \/ Completion
  <2>1. KeepsStarts
    BY <1>5, LeaveKeepsStarts DEF FinishCancelled
  <2>. QED
    BY <1>1, <1>2, <1>5, <2>1
       DEF FinishCancelled, FailComplete, Completion, Undisturbed, Calm, fleet, Result
<1>6. ASSUME FinishSettled(t) PROVE Undisturbed
  BY <1>6, LeaveKeepsStarts DEF FinishSettled, Undisturbed, Calm, fleet
<1>7. ASSUME ClaimNothing(t) PROVE Undisturbed
  BY <1>7 DEF ClaimNothing, Undisturbed, Calm, KeepsStarts, TypeOK, fleet
<1>. QED
  BY <1>3, <1>4, <1>5, <1>6, <1>7 DEF WorkerStep

LEMMA LeaseShape ==
  ASSUME "db_error" \notin Env, TypeOK, LeaseStep
  PROVE  Undisturbed \/ Completion
<1>1. ASSUME NEW r \in Row, Lapse(r) PROVE Undisturbed
  BY <1>1 DEF Lapse, Undisturbed, Calm, KeepsStarts, fleet, process, TypeOK, RowState
<1>2. ASSUME NEW l \in keeper, Heartbeat(l) PROVE Undisturbed
  BY <1>2 DEF Heartbeat, Undisturbed, Calm, KeepsStarts, fleet, process, TypeOK, RowState, Lease
<1>3. ASSUME NEW l \in keeper, LeaseLost(l) PROVE Undisturbed
  BY <1>3, StopKeepsStarts DEF LeaseLost, Undisturbed, Calm, fleet
<1>4. ASSUME NEW t \in Thread, Overdue(t) PROVE Undisturbed
  BY <1>4, StopKeepsStarts DEF Overdue, Undisturbed, Calm, fleet
<1>5. ASSUME NEW t \in Thread, Settle(t) PROVE Undisturbed
  BY <1>5 DEF Settle, Undisturbed, Calm, KeepsStarts, fleet, TypeOK
<1>6. ASSUME NEW l \in settling, SettleWrite(l) PROVE Completion
  <2>1. l.row \in Row /\ MachineOf[l.thread] \in Machine
    BY PgConstants DEF TypeOK, Lease
  <2>. QED
    BY <1>6, <2>1 DEF SettleWrite, FailComplete, Completion, KeepsStarts, fleet, Result
<1>. QED
  BY <1>1, <1>2, <1>3, <1>4, <1>5, <1>6 DEF LeaseStep

LEMMA MachineShape ==
  ASSUME TypeOK, NEW m \in Machine, MachineStep(m)
  PROVE  Undisturbed \/ Boot(m) \/ Crash(m) \/ Exit(m) \/ Drained(m)
<1>1. ASSUME Drain(m) PROVE Undisturbed
  <2>1. KeepsStarts
    BY <1>1 DEF Drain, KeepsStarts
  <2>. QED
    BY <1>1, <2>1 DEF Drain, Undisturbed, Calm, TypeOK
<1>2. ASSUME Undrain(m) PROVE Undisturbed
  BY <1>2 DEF Undrain, Undisturbed, Calm, KeepsStarts, process, TypeOK
<1>. QED
  BY <1>1, <1>2 DEF MachineStep

LEMMA StepShape ==
  ASSUME "db_error" \notin Env, TypeOK, Next
  PROVE  \/ Undisturbed \/ Completion
         \/ \E t \in Thread, r \in Row : Claim(t, r)
         \/ \E t \in Thread : Begin(t)
         \/ \E m \in Machine : Boot(m) \/ Crash(m) \/ Exit(m) \/ Drained(m)
<1>1. ASSUME IngressStep PROVE Undisturbed
  <2>1. KeepsStarts
    BY <1>1, StopKeepsStarts
       DEF IngressStep, Push, CheckCiFix, Deliver, SupersedeRunning, process, KeepsStarts
  <2>. QED
    BY <1>1, <2>1, IngressCalm DEF Undisturbed
<1>2. ASSUME NEW p \in Reaper, ReaperStep(p) PROVE Undisturbed
  BY <1>2, ReaperCalm DEF Undisturbed, KeepsStarts, fleet, process
<1>3. ASSUME OperatorStep PROVE Undisturbed
  BY <1>3, OperatorCalm DEF Undisturbed, KeepsStarts, fleet, process
<1>. QED
  BY <1>1, <1>2, <1>3, WorkerShape, LeaseShape, MachineShape DEF Next

LEMMA LeasedInit == Init => Leased
<1>. SUFFICES ASSUME Init PROVE RunningOwned /\ LeaseHeld
  BY InitTyped DEF Leased
<1>1. \A r \in Row : row[r].status # "running"
  BY DEF Init, BlankRow
<1>. QED
  BY <1>1 DEF RunningOwned, LeaseHeld, Runs

LEMMA LeasedNext ==
  ASSUME OneThreadEach, "db_error" \notin Env, Leased, [Next]_vars
  PROVE  Leased'
<1>. TypeOK
  BY DEF Leased
<1>0. TypeOK'
  BY IngressTyped, WorkerTyped, LeaseTyped, ReaperTyped, MachineTyped, OperatorTyped
     DEF Next, vars, github, fleet, process, TypeOK
<1>1. ASSUME NEW w \in Thread, NEW x \in Row, Claim(w, x) PROVE Leased'
  <2>1. /\ row' = [row EXCEPT ![x] = ClaimedRow(row[x], w)]
        /\ machine' = machine /\ held' = held /\ work[w].pc # "claimed"
    BY <1>1 DEF Claim, fleet
  <2>2. Starts(w, x)' /\ \A t \in Thread \ {w} : work'[t] = work[t]
    BY <1>1 DEF Claim, Starts, Idle, TypeOK
  <2>3. \A r \in Row \ {x} : row'[r] = row[r]
    BY <2>1 DEF TypeOK
  <2>4. row'[x].owner = w
    BY <2>1 DEF TypeOK, RowState, ClaimedRow
  <2>5. RunningOwned'
    BY <2>3, <2>4 DEF Leased, RunningOwned
  <2>6. LeaseHeld'
    BY <2>1, <2>2, <2>3, <2>4 DEF Leased, LeaseHeld, Runs, Alive, Starts
  <2>. QED
    BY <1>0, <2>5, <2>6 DEF Leased
<1>2. ASSUME NEW w \in Thread, Begin(w) PROVE Leased'
  <2>1. row' = row /\ machine' = machine
    BY <1>2 DEF Begin, fleet
  <2>2. \A t \in Thread \ {w} : work'[t] = work[t]
    BY <1>2 DEF Begin, TypeOK
  <2>3. \E l \in held' : l.row = work[w].row /\ l.thread = w
    <3>1. LeaseOf(w) \in held'
      BY <1>2 DEF Begin
    <3>2. LeaseOf(w).row = work[w].row /\ LeaseOf(w).thread = w
      BY DEF LeaseOf
    <3>. QED
      BY <3>1, <3>2
  <2>4. ASSUME NEW l \in held, l \notin held' PROVE l.row = work[w].row /\ l.thread = w
    BY <1>2, <2>4 DEF Begin, HeldFor, OneThreadEach, TypeOK, Lease
  <2>5. LeaseHeld'
    <3>. SUFFICES ASSUME NEW r \in Row, NEW t \in Thread, Runs(t, r)', Alive(t)', ~Starts(t, r)'
                  PROVE  \E l \in held' : l.row = r /\ l.thread = t
      BY DEF LeaseHeld
    <3>1. Starts(t, r) \/ \E l \in held : l.row = r /\ l.thread = t
      BY <2>1 DEF Leased, LeaseHeld, Runs, Alive
    <3>2. CASE Starts(t, r)
      <4>1. t = w /\ r = work[w].row
        BY <2>2, <3>2 DEF Starts
      <4>. QED
        BY <2>3, <4>1
    <3>3. CASE \E l \in held : l.row = r /\ l.thread = t
      BY <2>3, <2>4, <3>3
    <3>. QED
      BY <3>1, <3>2, <3>3
  <2>. QED
    BY <1>0, <2>1, <2>5 DEF Leased, RunningOwned
<1>3. CASE \/ UNCHANGED vars \/ Undisturbed \/ Completion
           \/ \E m \in Machine : Boot(m) \/ Crash(m) \/ Exit(m) \/ Drained(m)
  <2>0. Calm
    BY <1>3, CompleteCalm, BootCalm DEF vars, Undisturbed, Completion, Calm, Crash, Exit, Drained
  <2>1. RunningOwned'
    BY <2>0 DEF Calm, Leased, RunningOwned
  <2>2. \A r \in Row, t \in Thread : Runs(t, r)' => Runs(t, r)
    BY <2>0 DEF Calm, Runs
  <2>3. ASSUME KeepsStarts PROVE \A t \in Thread, r \in Row : Starts(t, r) => Starts(t, r)'
    BY <2>3 DEF KeepsStarts, Starts
  <2>4. CASE UNCHANGED vars \/ Undisturbed \/ \E m \in Machine : Drained(m)
    <3>1. held' = held /\ \A t \in Thread : Alive(t)' => Alive(t)
      BY <2>4, PgConstants DEF Undisturbed, Drained, Alive, vars, fleet, process, TypeOK
    <3>2. KeepsStarts
      BY <2>4 DEF Undisturbed, Drained, KeepsStarts, vars, process
    <3>. QED
      BY <1>0, <2>1, <2>2, <2>3, <3>1, <3>2 DEF Leased, LeaseHeld
  <2>5. CASE Completion
    <3>1. PICK m \in Machine, x \in Row, result \in Result : Complete(m, x, result)
      BY <2>5 DEF Completion
    <3>2. SUFFICES ASSUME NEW r \in Row, NEW t \in Thread, Runs(t, r)', Alive(t)',
                          ~Starts(t, r)'
                   PROVE  \E l \in held' : l.row = r /\ l.thread = t
      BY <1>0, <2>1 DEF Leased, LeaseHeld
    <3>3. Runs(t, r) /\ Alive(t) /\ ~Starts(t, r)
      BY <2>2, <2>3, <2>5, <3>2 DEF Completion, Alive
    <3>4. PICK l \in held : l.row = r /\ l.thread = t
      BY <3>3 DEF Leased, LeaseHeld
    <3>5. l \notin HeldFor(m, x)
      <4>. SUFFICES ASSUME l \in HeldFor(m, x) PROVE FALSE
        OBVIOUS
      <4>1. x = r /\ m = MachineOf[t]
        BY <3>4 DEF HeldFor
      <4>. QED
        BY <3>1, <3>2, <3>3, <4>1, CompleteEnds DEF Runs
    <3>. QED
      BY <3>1, <3>4, <3>5 DEF Complete, DropLease
  <2>6. ASSUME NEW m \in Machine, Boot(m) PROVE Leased'
    <3>1. \A t \in Thread, r \in Row : Runs(t, r)' => MachineOf[t] # m
      BY <2>6, BootCalm, PgConstants DEF Runs
    <3>2. \A t \in Thread : MachineOf[t] # m /\ Alive(t)' => Alive(t)
      BY <2>6, PgConstants DEF Boot, Alive, TypeOK
    <3>3. held' = held /\ \A t \in Thread, r \in Row : Starts(t, r)' <=> Starts(t, r)
      BY <2>6 DEF Boot, process, Starts
    <3>. QED
      BY <1>0, <2>1, <2>2, <3>1, <3>2, <3>3 DEF Leased, LeaseHeld
  <2>7. ASSUME NEW m \in Machine, Forget(m) PROVE Leased'
    <3>1. \A t \in Thread : Alive(t)' => Alive(t) /\ MachineOf[t] # m
      BY <2>7, PgConstants DEF Forget, Alive, TypeOK
    <3>2. \A t \in Thread : MachineOf[t] # m => work'[t] = work[t]
      BY <2>7 DEF Forget
    <3>. QED
      BY <1>0, <2>1, <2>2, <2>7, <3>1, <3>2 DEF Forget, Leased, LeaseHeld, Starts
  <2>. QED
    BY <1>3, <2>4, <2>5, <2>6, <2>7 DEF Crash, Exit
<1>. QED
  BY <1>1, <1>2, <1>3, StepShape

(* On a fleet of one thread per machine, a worker that reports it has      *)
(* drained runs no row but one whose lease has yet to start: its empty     *)
(* lease table speaks for every other row, as long as no completion's      *)
(* transaction fails.                                                      *)
THEOREM DrainOverlooksOnlyStarts ==
  ASSUME OneThreadEach, "db_error" \notin Env
  PROVE  Spec => DrainedButForStarts
<1>1. ASSUME Leased, Next, NEW m \in Machine, NEW r \in Row,
             machine[m] = "draining", machine'[m] = "leaving",
             row[r].status = "running", ~Starting(r)
      PROVE  MachineOf[row[r].owner] # m
  <2>1. ~ \E k \in Machine : Boot(k) \/ Crash(k) \/ Exit(k)
    BY <1>1 DEF Boot, Crash, Exit, Forget, Leased, TypeOK
  <2>2. /\ ~ \E t \in Thread : Begin(t)
        /\ ~ \E t \in Thread, x \in Row : Claim(t, x)
    <3>1. machine' # machine
      BY <1>1
    <3>2. ASSUME NEW t \in Thread, Begin(t) PROVE machine' = machine
      BY <3>2 DEF Begin, fleet
    <3>3. ASSUME NEW t \in Thread, NEW x \in Row, Claim(t, x) PROVE machine' = machine
      BY <3>3 DEF Claim, fleet
    <3>. QED
      BY <3>1, <3>2, <3>3
  <2>3. PICK k \in Machine : Drained(k)
    BY <1>1, <2>1, <2>2, StepShape DEF Leased, Undisturbed, Completion
  <2>4. k = m
    BY <1>1, <2>3 DEF Drained, Leased, TypeOK
  <2>. SUFFICES ASSUME MachineOf[row[r].owner] = m PROVE FALSE
    OBVIOUS
  <2>5. Runs(row[r].owner, r) /\ Alive(row[r].owner) /\ row[r].owner \in Thread
    BY <1>1 DEF Runs, Alive, Leased, RunningOwned
  <2>6. Starts(row[r].owner, r)
    <3>1. \A l \in held : MachineOf[l.thread] # m
      BY <2>3, <2>4 DEF Drained
    <3>2. Starts(row[r].owner, r) \/ \E l \in held : l.row = r /\ l.thread = row[r].owner
      BY <1>1, <2>5 DEF Leased, LeaseHeld
    <3>. QED
      BY <3>1, <3>2
  <2>. QED
    BY <1>1, <2>5, <2>6 DEF Starting, Starts
<1>2. Leased /\ [Next]_vars =>
        [\A m \in Machine :
           machine[m] = "draining" /\ machine'[m] = "leaving"
           => \A r \in Row : row[r].status = "running" /\ ~Starting(r)
                             => MachineOf[row[r].owner] # m]_vars
  BY <1>1
<1>3. Leased /\ [Next]_vars => Leased'
  BY LeasedNext
<1>. QED
  BY <1>2, <1>3, LeasedInit, PTL DEF Spec, DrainedButForStarts

-----------------------------------------------------------------------------
(* Who is kept, on a fleet of workers that claim with one thread each and  *)
(* take no deliveries, and whose jobs meet their deadlines.  There nothing *)
(* but the end of its own keeper cancels an attempt, so a lease is in the  *)
(* lease table and its keeper beats only while its attempt goes on; and an *)
(* attempt on a row that its thread owns is the row's last claim.          *)
OneThreadFleet ==
  /\ "deadline" \notin Env
  /\ Serving = {}
  /\ OneThreadEach

KeeperWorks ==
  \A l \in keeper :
    /\ l \in held
    /\ work[l.thread].pc = "run" /\ work[l.thread].row = l.row /\ work[l.thread].claim = l.claim
    /\ ~work[l.thread].cancelled /\ ~work[l.thread].finalized

Working(t, r) == work[t].pc \in {"claimed", "run"} /\ work[t].row = r

OwnClaim ==
  \A t \in Thread, r \in Row :
    Runs(t, r) /\ Working(t, r) => work[t].claim = row[r].claims

FreshStarts ==
  \A t \in Thread : work[t].pc = "claimed" => ~work[t].cancelled /\ ~work[t].finalized

Beats == TypeOK /\ KeeperWorks /\ OwnClaim /\ FreshStarts

(* What the attempts of a step that claims and begins nothing may do.      *)
NoNewAttempt ==
  \A t \in Thread :
    /\ work'[t].pc = "claimed" => work'[t] = work[t]
    /\ work'[t].pc = "run" => /\ work[t].pc = "run"
                              /\ work'[t].row = work[t].row
                              /\ work'[t].claim = work[t].claim

LEMMA CalmBeats ==
  ASSUME Beats, TypeOK', Calm, NoNewAttempt,
         \A l \in keeper' : l \in keeper /\ l \in held' /\ work'[l.thread] = work[l.thread]
  PROVE  Beats'
<1>1. KeeperWorks'
  BY DEF Beats, KeeperWorks
<1>2. OwnClaim'
  BY DEF Beats, OwnClaim, Calm, NoNewAttempt, Runs, Working
<1>3. FreshStarts'
  BY DEF Beats, FreshStarts, NoNewAttempt
<1>. QED
  BY <1>1, <1>2, <1>3 DEF Beats

(* The completion of a row by a process drops the row's keepers there.     *)
LEMMA DropBeats ==
  ASSUME Beats, NEW m, NEW r, DropLease(m, r)
  PROVE  \A l \in keeper' : l \in keeper /\ l \in held' /\ (l.row = r => MachineOf[l.thread] # m)
  BY DEF Beats, KeeperWorks, DropLease, HeldFor

(* A claim takes a thread that has no keeper; what it claims is its last.  *)
LEMMA ClaimBeats ==
  ASSUME Beats, TypeOK', NEW w \in Thread, NEW x \in Row, Claim(w, x)
  PROVE  Beats'
<1>. TypeOK
  BY DEF Beats
<1>1. /\ row' = [row EXCEPT ![x] = ClaimedRow(row[x], w)]
      /\ work[w].pc # "run" /\ held' = held /\ keeper' = keeper
  BY DEF Claim
<1>2. /\ work'[w].pc = "claimed" /\ work'[w].row = x /\ work'[w].claim = row[x].claims + 1
      /\ ~work'[w].cancelled /\ ~work'[w].finalized
      /\ \A t \in Thread \ {w} : work'[t] = work[t]
  BY DEF Claim, Idle, TypeOK
<1>3. \A r \in Row \ {x} : row'[r] = row[r]
  BY <1>1 DEF TypeOK
<1>4. row'[x].owner = w /\ row'[x].claims = row[x].claims + 1
  BY <1>1 DEF ClaimedRow, TypeOK, RowState
<1>5. KeeperWorks'
  BY <1>1, <1>2 DEF Beats, KeeperWorks, TypeOK, Lease
<1>6. OwnClaim'
  <2>. SUFFICES ASSUME NEW t \in Thread, NEW r \in Row, Runs(t, r)', Working(t, r)'
                PROVE  work'[t].claim = row'[r].claims
    BY DEF OwnClaim
  <2>1. CASE r = x
    BY <1>2, <1>4, <2>1 DEF Runs
  <2>2. CASE r # x
    BY <1>2, <1>3, <2>2 DEF Beats, OwnClaim, Runs, Working
  <2>. QED
    BY <2>1, <2>2
<1>7. FreshStarts'
  BY <1>2 DEF Beats, FreshStarts
<1>. QED
  BY <1>5, <1>6, <1>7 DEF Beats

(* The start of a lease leaves the thread's keeper, its only one, with the *)
(* attempt it begins.                                                      *)
LEMMA BeginBeats ==
  ASSUME Beats, TypeOK', NEW w \in Thread, OneThreadFleet, Begin(w)
  PROVE  Beats'
<1>. DEFINE lease == LeaseOf(w)
<1>. TypeOK
  BY DEF Beats
<1>1. /\ row' = row /\ work[w].pc = "claimed"
      /\ held' = (held \ HeldFor(MachineOf[w], work[w].row)) \cup {lease}
      /\ keeper' = keeper \cup {lease}
  BY DEF Begin
<1>2. PICK ref \in HeadsRead(work[w].row) :
        work' = [work EXCEPT ![w].pc = "run", ![w].target = ref]
  BY DEF Begin
<1>3. work[w] \in Attempt
  BY <1>1, AttemptTyped
<1>4. /\ work'[w].pc = "run" /\ work'[w].row = work[w].row /\ work'[w].claim = work[w].claim
      /\ work'[w].cancelled = work[w].cancelled /\ work'[w].finalized = work[w].finalized
      /\ \A t \in Thread \ {w} : work'[t] = work[t]
  BY <1>2, <1>3 DEF TypeOK, Attempt
<1>5. ~work[w].cancelled /\ ~work[w].finalized
  BY <1>1 DEF Beats, FreshStarts
<1>6. ASSUME NEW l \in keeper
      PROVE  l.thread \in Thread \ {w} /\ l \in held'
  <2>1. l.thread \in Thread /\ l.thread # w
    BY <1>1 DEF Beats, KeeperWorks, TypeOK, Lease
  <2>2. l \notin HeldFor(MachineOf[w], work[w].row)
    BY <2>1 DEF HeldFor, OneThreadFleet, OneThreadEach
  <2>. QED
    BY <1>1, <2>1, <2>2 DEF Beats, KeeperWorks
<1>7. KeeperWorks'
  <2>. SUFFICES ASSUME NEW l \in keeper'
                PROVE  /\ l \in held'
                       /\ work'[l.thread].pc = "run" /\ work'[l.thread].row = l.row
                       /\ work'[l.thread].claim = l.claim
                       /\ ~work'[l.thread].cancelled /\ ~work'[l.thread].finalized
    BY DEF KeeperWorks
  <2>1. CASE l \in keeper
    BY <1>4, <1>6, <2>1 DEF Beats, KeeperWorks
  <2>2. CASE l = lease
    BY <1>1, <1>4, <1>5, <2>2 DEF LeaseOf
  <2>. QED
    BY <1>1, <2>1, <2>2
<1>8. OwnClaim'
  BY <1>1, <1>4 DEF Beats, OwnClaim, Runs, Working
<1>9. FreshStarts'
  BY <1>4 DEF Beats, FreshStarts
<1>. QED
  BY <1>7, <1>8, <1>9 DEF Beats

LEMMA LeaveEnds ==
  ASSUME TypeOK, NEW t \in Thread, Leave(t)
  PROVE  work'[t].pc \notin {"claimed", "run"} /\ \A w \in Thread \ {t} : work'[w] = work[w]
<1>1. Idle.pc = "idle"
  BY DEF Idle
<1>. QED
  BY <1>1 DEF Leave, TypeOK

(* An attempt ends with its keeper, or had lost it before.                 *)
LEMMA WorkerBeats ==
  ASSUME OneThreadFleet, Beats, TypeOK', NEW t \in Thread, WorkerStep(t)
  PROVE  Beats'
<1>. TypeOK
  BY DEF Beats
<1>0. /\ work[t].pc = "run" => work[t].row \in Row
      /\ \A l \in keeper : l.thread \in Thread
  BY AttemptTyped DEF Attempt, TypeOK, Lease
<1>1. ASSUME NEW result \in Result,
             FinishJob(t, result) \/ FinishMoved(t, result) \/ FinishUnwritten(t, result)
      PROVE  Beats'
  <2>0. work'[t].pc \notin {"claimed", "run"} /\ \A w \in Thread \ {t} : work'[w] = work[w]
    <3>1. CASE FinishMoved(t, result)
      <4>. DEFINE n == [Idle EXCEPT !.pc = "moved", !.row = work[t].row,
                                    !.target = head[Job[work[t].row].pr]]
      <4>1. n.pc = "moved"
        BY DEF Idle
      <4>2. work' = [work EXCEPT ![t] = n]
        BY <3>1 DEF FinishMoved
      <4>. QED
        BY <4>1, <4>2 DEF TypeOK
    <3>. QED
      BY <1>1, <3>1, LeaveEnds DEF FinishJob, FinishUnwritten
  <2>1. DropLease(MachineOf[t], work[t].row)
    BY <1>1 DEF FinishJob, FinishMoved, FinishUnwritten, Complete, FailComplete
  <2>2. Calm
    BY <1>0, <1>1, CompleteCalm DEF FinishJob, FinishMoved, FinishUnwritten, FailComplete, Calm
  <2>3. \A l \in keeper' : l \in keeper /\ l \in held' /\ l.thread \in Thread \ {t}
    BY <1>0, <1>1, <2>1, DropBeats DEF Beats, KeeperWorks
  <2>. QED
    BY <2>0, <2>2, <2>3, CalmBeats DEF NoNewAttempt
<1>2. ASSUME RequeueMoved(t) \/ FinishCancelled(t) \/ FinishSettled(t) PROVE Beats'
  <2>1. \A l \in keeper : l.thread # t
    BY <1>2 DEF RequeueMoved, FinishCancelled, FinishSettled, Beats, KeeperWorks
  <2>2. work'[t].pc \notin {"claimed", "run"} /\ \A w \in Thread \ {t} : work'[w] = work[w]
    BY <1>2, LeaveEnds DEF RequeueMoved, FinishCancelled, FinishSettled
  <2>3. Calm
    <3>1. CASE RequeueMoved(t)
      BY <3>1, EnqueueCalm DEF RequeueMoved, Calm
    <3>2. CASE FinishCancelled(t)
      BY <1>0, <3>2, CompleteCalm DEF FinishCancelled, FailComplete, Calm, Result
    <3>3. CASE FinishSettled(t)
      BY <3>3 DEF FinishSettled, Calm
    <3>. QED
      BY <1>2, <3>1, <3>2, <3>3
  <2>4. \A l \in keeper' : l \in keeper /\ l \in held'
    <3>1. CASE UNCHANGED <<held, keeper>>
      BY <3>1 DEF Beats, KeeperWorks
    <3>2. CASE DropLease(MachineOf[t], work[t].row)
      BY <3>2, DropBeats
    <3>. QED
      BY <1>2, <3>1, <3>2
         DEF RequeueMoved, FinishCancelled, FinishSettled, Complete, FailComplete
  <2>. QED
    BY <1>0, <2>1, <2>2, <2>3, <2>4, CalmBeats DEF NoNewAttempt
<1>3. ASSUME ClaimNothing(t) PROVE Beats'
  <2>1. NoNewAttempt
    BY <1>3 DEF ClaimNothing, NoNewAttempt, Idle, TypeOK
  <2>2. \A l \in keeper : l.thread # t
    BY <1>3 DEF ClaimNothing, Beats, KeeperWorks
  <2>. QED
    BY <1>0, <1>3, <2>1, <2>2, CalmBeats DEF ClaimNothing, Calm, Beats, KeeperWorks, TypeOK
<1>. QED
  BY <1>1, <1>2, <1>3, ClaimBeats, BeginBeats DEF WorkerStep

(* A keeper that ends takes nobody's attempt but its own with it.          *)
LEMMA LeaseBeats ==
  ASSUME OneThreadFleet, Beats, TypeOK', LeaseStep
  PROVE  Beats'
<1>. TypeOK
  BY DEF Beats
<1>0. \A l \in keeper : l \in held /\ l.thread \in Thread
  BY DEF Beats, KeeperWorks, TypeOK, Lease
<1>1. ASSUME NEW r \in Row, Lapse(r) PROVE Beats'
  <2>1. Calm
    BY <1>1 DEF Lapse, Calm, TypeOK, RowState
  <2>. QED
    BY <1>0, <1>1, <2>1, CalmBeats DEF Lapse, process, NoNewAttempt
<1>2. ASSUME NEW l \in keeper, Heartbeat(l) PROVE Beats'
  <2>1. Calm
    BY <1>2 DEF Heartbeat, Calm, TypeOK, RowState, Lease
  <2>. QED
    BY <1>0, <1>2, <2>1, CalmBeats DEF Heartbeat, process, NoNewAttempt
<1>3. ASSUME NEW l \in keeper, LeaseLost(l) PROVE Beats'
  <2>1. Calm /\ keeper' = keeper \ {l} /\ held' = held
    BY <1>3 DEF LeaseLost, Calm
  <2>2. \A t \in Thread : MachineOf[t] # MachineOf[l.thread] => work'[t] = work[t]
    BY <1>3 DEF LeaseLost, Stop, ThreadsOf
  <2>3. NoNewAttempt
    <3>1. ASSUME NEW t \in Thread, work[t].pc = "run"
          PROVE  LET a == [work[t] EXCEPT !.cancelled = TRUE]
                 IN  a.pc = "run" /\ a.row = work[t].row /\ a.claim = work[t].claim
      BY <3>1, AttemptTyped DEF Attempt
    <3>. QED
      BY <1>3, <3>1 DEF LeaseLost, Stop, NoNewAttempt
  <2>4. ASSUME NEW k \in keeper, k # l PROVE MachineOf[k.thread] # MachineOf[l.thread]
    <3>1. k \in Lease /\ l \in Lease
      BY DEF TypeOK
    <3>2. k.thread # l.thread
      <4>. SUFFICES ASSUME k.thread = l.thread PROVE FALSE
        OBVIOUS
      <4>1. k.row = l.row /\ k.claim = l.claim
        BY DEF Beats, KeeperWorks
      <4>. QED
        BY <2>4, <3>1, <4>1 DEF Lease
    <3>. QED
      BY <1>0, <3>2 DEF OneThreadFleet, OneThreadEach
  <2>. QED
    BY <1>0, <2>1, <2>2, <2>3, <2>4, CalmBeats
<1>4. ASSUME NEW t \in Thread, Overdue(t) PROVE FALSE
  BY <1>4 DEF Overdue, OneThreadFleet
<1>5. ASSUME NEW t \in Thread, Settle(t) PROVE Beats'
  <2>1. /\ row' = row /\ keeper' = keeper /\ held' = held
        /\ \A w \in Thread \ {t} : work'[w] = work[w]
    BY <1>5 DEF Settle, TypeOK
  <2>2. \A l \in keeper : l.thread # t
    BY <1>5 DEF Settle, Beats, KeeperWorks
  <2>3. NoNewAttempt
    <3>1. work[t] \in Attempt /\ work' = [work EXCEPT ![t] = [work[t] EXCEPT !.finalized = TRUE]]
      BY <1>5, AttemptTyped DEF Settle
    <3>. QED
      BY <1>5, <2>1, <3>1 DEF Settle, NoNewAttempt, Attempt, TypeOK
  <2>. QED
    BY <1>0, <2>1, <2>2, <2>3, CalmBeats DEF Calm
<1>6. ASSUME NEW l \in settling, SettleWrite(l) PROVE Beats'
  <2>1. DropLease(MachineOf[l.thread], l.row) /\ work' = work /\ l.row \in Row
    BY <1>6 DEF SettleWrite, Complete, FailComplete, TypeOK, Lease
  <2>2. Calm
    BY <1>6, <2>1, CompleteCalm DEF SettleWrite, FailComplete, Calm, Result
  <2>. QED
    BY <2>1, <2>2, DropBeats, CalmBeats DEF NoNewAttempt
<1>. QED
  BY <1>1, <1>2, <1>3, <1>4, <1>5, <1>6 DEF LeaseStep

(* A process that dies takes its keepers and its attempts along.           *)
LEMMA MachineBeats ==
  ASSUME Beats, TypeOK', NEW m \in Machine, MachineStep(m)
  PROVE  Beats'
<1>. TypeOK
  BY DEF Beats
<1>0. \A l \in keeper : l \in held /\ l.thread \in Thread
  BY DEF Beats, KeeperWorks, TypeOK, Lease
<1>1. ASSUME Forget(m), row' = row PROVE Beats'
  <2>1. NoNewAttempt
    BY <1>1 DEF Forget, NoNewAttempt, Idle
  <2>2. \A l \in keeper' : l \in keeper /\ l \in held' /\ work'[l.thread] = work[l.thread]
    BY <1>0, <1>1 DEF Forget
  <2>. QED
    BY <1>1, <2>1, <2>2, CalmBeats DEF Calm
<1>2. ASSUME Boot(m) \/ Undrain(m) \/ Drained(m) PROVE Beats'
  <2>1. Calm /\ UNCHANGED process
    BY <1>2, BootCalm DEF Boot, Undrain, Drained, Calm
  <2>. QED
    BY <1>0, <2>1, CalmBeats DEF process, NoNewAttempt
<1>3. ASSUME Drain(m) PROVE Beats'
  <2>1. NoNewAttempt
    BY <1>3 DEF Drain, NoNewAttempt, Claiming, Idle
  <2>2. \A l \in keeper' : l \in keeper /\ l \in held' /\ work'[l.thread] = work[l.thread]
    BY <1>0, <1>3 DEF Drain, Beats, KeeperWorks
  <2>. QED
    BY <1>3, <2>1, <2>2, CalmBeats DEF Drain, Calm
<1>. QED
  BY <1>1, <1>2, <1>3 DEF MachineStep, Crash, Exit

LEMMA BeatsNext ==
  ASSUME OneThreadFleet, Beats, [Next]_vars
  PROVE  Beats'
<1>. TypeOK
  BY DEF Beats
<1>0. TypeOK'
  BY IngressTyped, WorkerTyped, LeaseTyped, ReaperTyped, MachineTyped, OperatorTyped
     DEF Next, vars, github, fleet, process, TypeOK
<1>1. ASSUME Calm, UNCHANGED process PROVE Beats'
  BY <1>0, <1>1, CalmBeats DEF process, NoNewAttempt, Beats, KeeperWorks
<1>2. ASSUME IngressStep PROVE Beats'
  BY <1>1, <1>2, IngressCalm DEF OneThreadFleet, OneThreadEach
<1>3. ASSUME NEW p \in Reaper, ReaperStep(p) PROVE Beats'
  BY <1>1, <1>3, ReaperCalm
<1>4. ASSUME OperatorStep PROVE Beats'
  BY <1>1, <1>4, OperatorCalm
<1>5. ASSUME UNCHANGED vars PROVE Beats'
  BY <1>1, <1>5 DEF vars, Calm
<1>. QED
  BY <1>0, <1>2, <1>3, <1>4, <1>5, WorkerBeats, LeaseBeats, MachineBeats DEF Next

(* A lease is renewed only for an attempt its owner is still making, on a  *)
(* fleet of that kind, whatever stalls, failed writes, crashes, restarts,  *)
(* drains, reapers and operators do: a row nobody works on is reaped.      *)
THEOREM KeptIsWorked ==
  ASSUME OneThreadFleet
  PROVE  Spec => []KeptIsWorkedOn
<1>1. Beats => KeptIsWorkedOn
  <2>. SUFFICES ASSUME Beats, NEW r \in Row, NEW l \in keeper, l.row = r, Renewable(l)
                PROVE  /\ work[row[r].owner].pc = "run"
                       /\ work[row[r].owner].row = r
                       /\ work[row[r].owner].claim = row[r].claims
    BY DEF KeptIsWorkedOn, Kept
  <2>1. l.thread \in Thread
    BY DEF Beats, TypeOK, Lease
  <2>2. Runs(l.thread, r) /\ row[r].owner = l.thread
    BY DEF Renewable, Runs
  <2>. QED
    BY <2>1, <2>2 DEF Beats, KeeperWorks, OwnClaim, Working
<1>2. Init => Beats
  BY InitTyped DEF Init, Idle, Beats, KeeperWorks, OwnClaim, FreshStarts, Working
<1>3. Beats /\ [Next]_vars => Beats'
  BY BeatsNext
<1>. QED
  BY <1>1, <1>2, <1>3, PTL DEF Spec

-----------------------------------------------------------------------------
(* What the queue counts: attempts against the budget, and dead-letter     *)
(* notices against deaths. The bounds are not inductive by themselves;     *)
(* Tallies, which counts what is spent, granted and on its way, is.        *)

(* The columns that count: nothing but a claim, a retry and a dead-letter  *)
(* notice moves them.                                                      *)
SameTally(x, y) ==
  /\ y.attempts = x.attempts /\ y.claims = x.claims /\ y.revived = x.revived
  /\ y.told = x.told /\ y.posted \ {"outage_retry"} = x.posted \ {"outage_retry"}

(* Reapers that marked r and have yet to tell its tenant. *)
Telling(r) == {p \in Reaper : snap[p].pc = "tell" /\ snap[p].row = r}

(* The inductive form of ClaimsBounded: the attempts of the current budget *)
(* on top of the budgets already used up.                                  *)
ClaimTally(r) ==
  /\ row[r].attempts <= Budget[Job[r].kind]
  /\ row[r].claims <= Budget[Job[r].kind] * row[r].revived + row[r].attempts

(* The inductive form of ToldOncePerDeath: a notice given, or on its way,  *)
(* is paid for by a mark on the row or by a revival that took a mark off.  *)
TellTally(r) ==
  row[r].told + Cardinality(Telling(r))
    <= row[r].revived + (IF "dead_letter" \in row[r].posted THEN 1 ELSE 0)

Tallies == \A r \in Row : ClaimTally(r) /\ TellTally(r)

(* A step that counts nothing. *)
Quietly == \A r \in Row : SameTally(row[r], row'[r]) /\ Telling(r)' \subseteq Telling(r)

-----------------------------------------------------------------------------
LEMMA TellingFinite ==
  ASSUME NEW r
  PROVE  IsFiniteSet(Telling(r)) /\ Cardinality(Telling(r)) \in Nat
<1>1. Telling(r) \in SUBSET Reaper
  BY DEF Telling
<1>. QED
  BY <1>1, PgConstants, FS_Subset, FS_CardinalityType

(* How each kind of step moves the tallies. *)
LEMMA QuietKeepsTallies ==
  ASSUME TypeOK, Tallies, Quietly
  PROVE  Tallies'
<1>. SUFFICES ASSUME NEW r \in Row PROVE ClaimTally(r)' /\ TellTally(r)'
  BY DEF Tallies
<1>1. SameTally(row[r], row'[r]) /\ ClaimTally(r) /\ TellTally(r)
  BY DEF Quietly, Tallies
<1>2. ClaimTally(r)'
  BY <1>1 DEF ClaimTally, SameTally
<1>3. /\ Cardinality(Telling(r)') <= Cardinality(Telling(r))
      /\ Cardinality(Telling(r)') \in Nat /\ Cardinality(Telling(r)) \in Nat
  BY TellingFinite, FS_Subset, FS_CardinalityType DEF Quietly
<1>4. row[r].told \in Nat /\ row[r].revived \in Nat
  BY DEF TypeOK, RowState
<1>5. "dead_letter" \in row'[r].posted <=> "dead_letter" \in row[r].posted
  BY <1>1 DEF SameTally
<1>6. TellTally(r)'
  BY <1>1, <1>3, <1>4, <1>5 DEF TellTally, SameTally
<1>. QED
  BY <1>2, <1>6

(* A claim spends one attempt of a budget that is not used up. *)
LEMMA ClaimKeepsTallies ==
  ASSUME TypeOK, Tallies, NEW t \in Thread, NEW c \in Row, Claim(t, c)
  PROVE  Tallies'
<1>. SUFFICES ASSUME NEW r \in Row PROVE ClaimTally(r)' /\ TellTally(r)'
  BY DEF Tallies
<1>1. ClaimTally(r) /\ TellTally(r)
  BY DEF Tallies
<1>2. Telling(r)' = Telling(r)
  BY DEF Claim, Telling
<1>3. CASE r # c
  <2>1. row'[r] = row[r]
    BY <1>3 DEF Claim, TypeOK
  <2>. QED
    BY <1>1, <1>2, <2>1 DEF ClaimTally, TellTally
<1>4. CASE r = c
  <2>1. /\ row'[r].attempts = row[r].attempts + 1 /\ row'[r].claims = row[r].claims + 1
        /\ row'[r].revived = row[r].revived /\ row'[r].told = row[r].told
        /\ row'[r].posted = row[r].posted
    BY <1>4 DEF Claim, ClaimedRow, TypeOK, RowState
  <2>2. row[r].attempts < Budget[Job[r].kind]
    BY <1>4 DEF Claim, Runnable
  <2>3. /\ row[r].attempts \in Nat /\ row[r].claims \in Nat /\ row[r].revived \in Nat
        /\ Budget[Job[r].kind] \in Nat
    BY PgConstants DEF TypeOK, RowState
  <2>4. Budget[Job[r].kind] * row[r].revived \in Nat
    BY <2>3
  <2>5. ClaimTally(r)'
    BY <1>1, <2>1, <2>2, <2>3, <2>4 DEF ClaimTally
  <2>. QED
    BY <1>1, <1>2, <2>1, <2>5 DEF TellTally
<1>. QED
  BY <1>3, <1>4

(* A retry grants a new budget and takes the mark off. *)
LEMMA RetryKeepsTallies ==
  ASSUME TypeOK, Tallies, NEW c \in Row, Retry(c),
         \A r \in Row : Telling(r)' \subseteq Telling(r)
  PROVE  Tallies'
<1>1. CASE row' = row
  <2>1. Quietly
    BY <1>1 DEF Quietly, SameTally
  <2>. QED
    BY <2>1, QuietKeepsTallies
<1>2. CASE row' = [row EXCEPT ![c] = RetriedRow(row[c])]
  <2>. SUFFICES ASSUME NEW r \in Row PROVE ClaimTally(r)' /\ TellTally(r)'
    BY DEF Tallies
  <2>1. ClaimTally(r) /\ TellTally(r)
    BY DEF Tallies
  <2>2. /\ Cardinality(Telling(r)') <= Cardinality(Telling(r))
        /\ Cardinality(Telling(r)') \in Nat /\ Cardinality(Telling(r)) \in Nat
    BY TellingFinite, FS_Subset, FS_CardinalityType
  <2>3. /\ row[r].attempts \in Nat /\ row[r].claims \in Nat /\ row[r].revived \in Nat
        /\ row[r].told \in Nat /\ Budget[Job[r].kind] \in Nat
    BY PgConstants DEF TypeOK, RowState
  <2>4. CASE r # c
    <3>1. row'[r] = row[r]
      BY <1>2, <2>4 DEF TypeOK
    <3>. QED
      BY <2>1, <2>2, <2>3, <3>1 DEF ClaimTally, TellTally
  <2>5. CASE r = c
    <3>1. /\ row'[r].attempts = 0 /\ row'[r].claims = row[r].claims
          /\ row'[r].revived = row[r].revived + 1 /\ row'[r].told = row[r].told
          /\ "dead_letter" \notin row'[r].posted
      BY <1>2, <2>5 DEF RetriedRow, TypeOK, RowState
    <3>2. Budget[Job[r].kind] * (row[r].revived + 1)
            = Budget[Job[r].kind] * row[r].revived + Budget[Job[r].kind]
      BY <2>3
    <3>3. Budget[Job[r].kind] * row[r].revived \in Nat
      BY <2>3
    <3>4. ClaimTally(r)'
      BY <2>1, <2>3, <3>1, <3>2, <3>3 DEF ClaimTally
    <3>5. TellTally(r)'
      BY <2>1, <2>2, <2>3, <3>1 DEF TellTally
    <3>. QED
      BY <3>4, <3>5
  <2>. QED
    BY <2>4, <2>5
<1>. QED
  BY <1>1, <1>2 DEF Retry


(* A mark is put on a row that has none, and one notice is on its way. *)
LEMMA MarkKeepsTallies ==
  ASSUME TypeOK, Tallies, NEW p \in Reaper, MarkDeadLetter(p) \/ MarkOutageRetry(p)
  PROVE  Tallies'
<1>. DEFINE c == snap[p].row
<1>1. snap[p] \in Noted /\ c \in Row
  BY NotedTyped DEF MarkDeadLetter, MarkOutageRetry, MarkPosted, Noted
<1>2. CASE row' = row /\ Discard(p)
  <2>1. Quietly
    BY <1>2 DEF Quietly, SameTally, Telling, Discard, NoSnap, TypeOK
  <2>. QED
    BY <2>1, QuietKeepsTallies
<1>3. CASE MarkOutageRetry(p) /\ row' # row
  <2>1. /\ row' = [row EXCEPT ![c].posted = @ \cup {"outage_retry"}]
        /\ snap' = [snap EXCEPT ![p].pc = "retry"]
    BY <1>3 DEF MarkOutageRetry, MarkPosted
  <2>2. \A r \in Row : SameTally(row[r], row'[r])
    BY <1>1, <2>1 DEF SameTally, TypeOK, RowState
  <2>3. \A r \in Row : Telling(r)' \subseteq Telling(r)
    BY <1>1, <2>1 DEF Telling, TypeOK, Noted
  <2>. QED
    BY <2>2, <2>3, QuietKeepsTallies DEF Quietly
<1>4. CASE MarkDeadLetter(p) /\ row' # row
  <2>1. /\ snap[p].pc = "dead" /\ "dead_letter" \notin row[c].posted
        /\ row' = [row EXCEPT ![c].posted = @ \cup {"dead_letter"}]
        /\ snap' = [snap EXCEPT ![p].pc = "tell"]
    BY <1>4 DEF MarkDeadLetter, MarkPosted
  <2>. SUFFICES ASSUME NEW r \in Row PROVE ClaimTally(r)' /\ TellTally(r)'
    BY DEF Tallies
  <2>2. ClaimTally(r) /\ TellTally(r)
    BY DEF Tallies
  <2>3. CASE r # c
    <3>1. row'[r] = row[r]
      BY <2>1, <2>3 DEF TypeOK
    <3>2. Telling(r)' = Telling(r)
      BY <1>1, <2>1, <2>3 DEF Telling, TypeOK, Noted
    <3>. QED
      BY <2>2, <3>1, <3>2 DEF ClaimTally, TellTally
  <2>4. CASE r = c
    <3>1. /\ row'[r].attempts = row[r].attempts /\ row'[r].claims = row[r].claims
          /\ row'[r].revived = row[r].revived /\ row'[r].told = row[r].told
          /\ "dead_letter" \in row'[r].posted
      BY <2>1, <2>4 DEF TypeOK, RowState
    <3>2. Telling(r)' = Telling(r) \cup {p} /\ p \notin Telling(r)
      BY <1>1, <2>1, <2>4 DEF Telling, TypeOK, Noted
    <3>3. Cardinality(Telling(r)') = Cardinality(Telling(r)) + 1
      BY <3>2, TellingFinite, FS_AddElement
    <3>4. row[r].told \in Nat /\ row[r].revived \in Nat
      BY DEF TypeOK, RowState
    <3>. QED
      BY <2>1, <2>2, <2>4, <3>1, <3>3, <3>4, TellingFinite DEF ClaimTally, TellTally
  <2>. QED
    BY <2>3, <2>4
<1>5. CASE row' = row /\ snap' # [snap EXCEPT ![p] = NoSnap]
  <2>1. \E k \in {"dead_letter", "outage_retry"} :
          k \notin row[c].posted /\ row' = [row EXCEPT ![c].posted = @ \cup {k}]
    BY <1>5 DEF MarkDeadLetter, MarkOutageRetry, MarkPosted, Discard
  <2>. QED
    BY <1>1, <1>5, <2>1 DEF TypeOK, RowState
<1>. QED
  BY <1>2, <1>3, <1>4, <1>5 DEF MarkDeadLetter, MarkOutageRetry, MarkPosted, Discard

LEMMA DiscardTells ==
  ASSUME TypeOK, NEW p \in Reaper, Discard(p)
  PROVE  \A r \in Row : Telling(r)' \subseteq Telling(r)
  BY DEF Telling, Discard, NoSnap, TypeOK

LEMMA StillRow ==
  ASSUME row' = row
  PROVE  \A r \in Row : SameTally(row[r], row'[r])
  BY DEF SameTally

(* The notice on its way becomes a notice given, or is lost. *)
LEMMA TellKeepsTallies ==
  ASSUME TypeOK, Tallies, NEW p \in Reaper, TellDeadLetter(p)
  PROVE  Tallies'
<1>. DEFINE c == snap[p].row
<1>1. snap[p] \in Noted /\ c \in Row
  BY NotedTyped DEF TellDeadLetter, Noted
<1>2. /\ snap[p].pc = "tell"
      /\ row' = [row EXCEPT ![c].told = @ + 1] \/ row' = row
      /\ snap' = [snap EXCEPT ![p] = NoSnap]
  BY DEF TellDeadLetter, Discard
<1>3. CASE row' = row
  <2>1. Quietly
    BY <1>3, StillRow, DiscardTells DEF TellDeadLetter, Quietly
  <2>. QED
    BY <2>1, QuietKeepsTallies
<1>4. CASE row' = [row EXCEPT ![c].told = @ + 1]
  <2>. SUFFICES ASSUME NEW r \in Row PROVE ClaimTally(r)' /\ TellTally(r)'
    BY DEF Tallies
  <2>1. ClaimTally(r) /\ TellTally(r)
    BY DEF Tallies
  <2>2. CASE r # c
    <3>1. row'[r] = row[r]
      BY <1>4, <2>2 DEF TypeOK
    <3>2. Telling(r)' = Telling(r)
      BY <1>1, <1>2, <2>2 DEF Telling, TypeOK, NoSnap
    <3>. QED
      BY <2>1, <3>1, <3>2 DEF ClaimTally, TellTally
  <2>3. CASE r = c
    <3>1. /\ row'[r].attempts = row[r].attempts /\ row'[r].claims = row[r].claims
          /\ row'[r].revived = row[r].revived /\ row'[r].told = row[r].told + 1
          /\ row'[r].posted = row[r].posted
      BY <1>4, <2>3 DEF TypeOK, RowState
    <3>2. Telling(r)' = Telling(r) \ {p} /\ p \in Telling(r)
      BY <1>1, <1>2, <2>3 DEF Telling, TypeOK, NoSnap
    <3>3. Cardinality(Telling(r)') = Cardinality(Telling(r)) - 1
      BY <3>2, TellingFinite, FS_RemoveElement
    <3>4. row[r].told \in Nat /\ row[r].revived \in Nat
      BY DEF TypeOK, RowState
    <3>. QED
      BY <2>1, <3>1, <3>3, <3>4, TellingFinite DEF ClaimTally, TellTally
  <2>. QED
    BY <2>2, <2>3
<1>. QED
  BY <1>2, <1>3, <1>4

-----------------------------------------------------------------------------
(* The other steps. *)

LEMMA StillSnap ==
  ASSUME snap' = snap
  PROVE  \A r \in Row : Telling(r)' \subseteq Telling(r)
  BY DEF Telling

LEMMA EnqueueTallies ==
  ASSUME TypeOK, NEW c \in Row, NEW b, Enqueue(c, b)
  PROVE  \A r \in Row : SameTally(row[r], row'[r])
  BY DEF Enqueue, InsertedRow, SameTally, TypeOK, RowState

LEMMA CompleteTallies ==
  ASSUME TypeOK, NEW m, NEW c, NEW result, Complete(m, c, result)
  PROVE  \A r \in Row : SameTally(row[r], row'[r])
  BY DEF Complete, Released, SameTally, TypeOK, RowState

LEMMA FinishRowTallies ==
  ASSUME TypeOK, NEW c, NEW s, FinishRow(c, s)
  PROVE  \A r \in Row : SameTally(row[r], row'[r])
  BY DEF FinishRow, Released, SameTally, TypeOK, RowState

LEMMA ResumeTallies ==
  ASSUME TypeOK, NEW c, row' = [row EXCEPT ![c] = ResumedRow(row[c])]
  PROVE  \A r \in Row : SameTally(row[r], row'[r])
  BY DEF Released, ResumedRow, SameTally, TypeOK, RowState

(* The six parts of Next. *)
LEMMA WorkerTallies ==
  ASSUME TypeOK, Tallies, NEW t \in Thread, WorkerStep(t) PROVE Tallies'
<1>1. ASSUME NEW r \in Row, Claim(t, r) PROVE Tallies'
  BY <1>1, ClaimKeepsTallies
<1>2. ASSUME NEW result \in Result, FinishJob(t, result) \/ FinishMoved(t, result) PROVE Quietly
  BY <1>2, CompleteTallies, StillSnap DEF FinishJob, FinishMoved, Quietly
<1>3. ASSUME NEW result \in Result, FinishUnwritten(t, result) PROVE Quietly
  BY <1>3, StillRow, StillSnap DEF FinishUnwritten, FailComplete, Quietly
<1>4. ASSUME RequeueMoved(t) PROVE Quietly
  BY <1>4, EnqueueTallies, StillRow, StillSnap DEF RequeueMoved, Quietly
<1>5. ASSUME FinishCancelled(t) PROVE Quietly
  BY <1>5, CompleteTallies, StillRow, StillSnap DEF FinishCancelled, FailComplete, Quietly
<1>6. ASSUME FinishSettled(t) \/ ClaimNothing(t) \/ Begin(t) PROVE Quietly
  BY <1>6, StillRow, StillSnap DEF FinishSettled, ClaimNothing, Begin, Quietly
<1>. QED
  BY <1>1, <1>2, <1>3, <1>4, <1>5, <1>6, QuietKeepsTallies DEF WorkerStep

LEMMA LeaseTallies == TypeOK /\ Tallies /\ LeaseStep => Tallies'
<1>. SUFFICES ASSUME TypeOK, Tallies, LeaseStep PROVE Quietly
  BY QuietKeepsTallies
<1>1. ASSUME NEW c \in Row, Lapse(c) PROVE Quietly
  <2>1. \A r \in Row : SameTally(row[r], row'[r])
    BY <1>1 DEF Lapse, SameTally, TypeOK, RowState
  <2>. QED
    BY <1>1, <2>1, StillSnap DEF Lapse, Quietly
<1>2. ASSUME NEW l \in keeper, Heartbeat(l) PROVE Quietly
  <2>1. \A r \in Row : SameTally(row[r], row'[r])
    BY <1>2 DEF Heartbeat, SameTally, TypeOK, RowState
  <2>. QED
    BY <1>2, <2>1, StillSnap DEF Heartbeat, Quietly
<1>3. ASSUME NEW l \in keeper, LeaseLost(l) PROVE Quietly
  BY <1>3, StillRow, StillSnap DEF LeaseLost, Quietly
<1>4. ASSUME NEW t \in Thread, Overdue(t) \/ Settle(t) PROVE Quietly
  BY <1>4, StillRow, StillSnap DEF Overdue, Settle, Quietly
<1>5. ASSUME NEW l \in settling, SettleWrite(l) PROVE Quietly
  BY <1>5, CompleteTallies, StillRow, StillSnap DEF SettleWrite, FailComplete, Quietly
<1>. QED
  BY <1>1, <1>2, <1>3, <1>4, <1>5 DEF LeaseStep

LEMMA ReaperTallies ==
  ASSUME TypeOK, Tallies, NEW p \in Reaper, ReaperStep(p) PROVE Tallies'
<1>1. ASSUME NEW r \in Row, ReadExpired(p, r) PROVE Quietly
  BY <1>1, StillRow DEF ReadExpired, Quietly, Telling, TypeOK, NoSnap
<1>2. ASSUME NEW r \in Row, ReadDead(p, r) \/ ReadOutage(p, r) PROVE Quietly
  <2>1. PICK pc \in {"dead", "outage"} : ReadSnap(p, pc, r)
    BY <1>2 DEF ReadDead, ReadOutage
  <2>2. \A x \in Row : Telling(x)' \subseteq Telling(x)
    BY <2>1 DEF ReadSnap, Telling, TypeOK, NoSnap
  <2>. QED
    BY <1>2, <2>2, StillRow DEF ReadDead, ReadOutage, Quietly
<1>3. ASSUME ReapCancelled(p) \/ ReapDead(p) PROVE Quietly
  BY <1>3, FinishRowTallies, DiscardTells DEF ReapCancelled, ReapDead, Quietly
<1>4. ASSUME ReapStaleHead(p) PROVE Quietly
  <2>1. \A r \in Row : Telling(r)' \subseteq Telling(r)
    BY <1>4, DiscardTells DEF ReapStaleHead, Telling, TypeOK, NoSnap
  <2>. QED
    BY <1>4, <2>1, FinishRowTallies DEF ReapStaleHead, Quietly
<1>5. ASSUME ReapRequeueHead(p) PROVE Quietly
  BY <1>5, EnqueueTallies, StillRow, DiscardTells DEF ReapRequeueHead, Quietly
<1>6. ASSUME ReapResume(p) PROVE Quietly
  BY <1>6, ResumeTallies, StillRow, DiscardTells DEF ReapResume, Quietly
<1>7. ASSUME MarkDeadLetter(p) \/ MarkOutageRetry(p) PROVE Tallies'
  BY <1>7, MarkKeepsTallies
<1>8. ASSUME TellDeadLetter(p) PROVE Tallies'
  BY <1>8, TellKeepsTallies
<1>9. ASSUME OutageRetry(p) PROVE Tallies'
  <2>1. snap[p].row \in Row
    BY <1>9, NotedTyped DEF OutageRetry, Noted
  <2>. QED
    BY <1>9, <2>1, RetryKeepsTallies, DiscardTells DEF OutageRetry
<1>10. ASSUME LoseReaper(p) PROVE Quietly
  BY <1>10, StillRow, DiscardTells DEF LoseReaper, Quietly
<1>. QED
  BY <1>1, <1>2, <1>3, <1>4, <1>5, <1>6, <1>7, <1>8, <1>9, <1>10, QuietKeepsTallies
     DEF ReaperStep

LEMMA MachineTallies ==
  ASSUME TypeOK, Tallies, NEW m \in Machine, MachineStep(m) PROVE Tallies'
<1>1. ASSUME Boot(m) PROVE Quietly
  <2>1. \A r \in Row : SameTally(row[r], RecoveredRow(r))
    BY DEF RecoveredRow, Released, ResumedRow, SameTally, TypeOK, RowState
  <2>2. \A r \in Row : SameTally(row[r], row'[r])
    BY <1>1, <2>1 DEF Boot, SameTally
  <2>. QED
    BY <1>1, <2>2, StillSnap DEF Boot, Quietly
<1>2. CASE UNCHANGED <<row, snap>>
  BY <1>2, StillRow, StillSnap, QuietKeepsTallies DEF Quietly
<1>. QED
  BY <1>1, <1>2, QuietKeepsTallies DEF MachineStep, Crash, Drain, Undrain, Drained, Exit

LEMMA OperatorTallies == TypeOK /\ Tallies /\ OperatorStep => Tallies'
<1>. SUFFICES ASSUME TypeOK, Tallies, OperatorStep PROVE Tallies'
  OBVIOUS
<1>1. ASSUME NEW c \in Row, Cancel(c) PROVE Tallies'
  <2>1. \A r \in Row : SameTally(row[r], row'[r])
    <3>1. row \in [Row -> RowState]
      BY DEF TypeOK
    <3>. QED
      BY <1>1, <3>1 DEF Cancel, SameTally, RowState
  <2>. QED
    BY <1>1, <2>1, StillSnap, QuietKeepsTallies DEF Cancel, Quietly
<1>2. ASSUME NEW r \in Row, RetryNow(r) PROVE Tallies'
  BY <1>2, RetryKeepsTallies, StillSnap DEF RetryNow
<1>3. ASSUME NEW k \in Tenant, SetPaused(k) PROVE Tallies'
  BY <1>3, StillRow, StillSnap, QuietKeepsTallies DEF SetPaused, Quietly
<1>. QED
  BY <1>1, <1>2, <1>3 DEF OperatorStep

LEMMA IngressTallies == TypeOK /\ Tallies /\ IngressStep => Tallies'
<1>. SUFFICES ASSUME TypeOK, Tallies, IngressStep PROVE Quietly
  BY QuietKeepsTallies
<1>1. ASSUME NEW d \in Webhook, Deliver(d) PROVE Quietly
  BY <1>1, PgConstants, EnqueueTallies, StillSnap DEF Deliver, Quietly
<1>2. CASE UNCHANGED <<row, snap>>
  BY <1>2, StillRow, StillSnap DEF Quietly
<1>. QED
  BY <1>1, <1>2 DEF IngressStep, Push, CheckCiFix, SupersedeRunning

(* The inductive invariant: claims and notices are covered by the budgets  *)
(* and marks of the row in every reachable state.                          *)
THEOREM KeepsTallies == Spec => []Tallies
<1>1. Init => Tallies
  <2>. SUFFICES ASSUME Init, NEW r \in Row PROVE ClaimTally(r) /\ TellTally(r)
    BY DEF Tallies
  <2>1. Telling(r) = {}
    <3>1. ASSUME NEW p \in Reaper PROVE snap[p].pc = "none"
      BY DEF Init, NoSnap
    <3>. QED
      BY <3>1 DEF Telling
  <2>2. row[r] = BlankRow /\ Budget[Job[r].kind] \in Nat \ {0}
    BY PgConstants DEF Init
  <2>3. Budget[Job[r].kind] * 0 = 0
    BY <2>2
  <2>. QED
    BY <2>1, <2>2, <2>3, FS_EmptySet DEF ClaimTally, TellTally, BlankRow
<1>2. TypeOK /\ Tallies /\ [Next]_vars => Tallies'
  <2>. SUFFICES ASSUME TypeOK, Tallies, [Next]_vars PROVE Tallies'
    OBVIOUS
  <2>1. CASE UNCHANGED vars
    BY <2>1, StillRow, StillSnap, QuietKeepsTallies DEF vars, Quietly
  <2>. QED
    BY <2>1, IngressTallies, WorkerTallies, LeaseTallies, ReaperTallies, MachineTallies,
       OperatorTallies DEF Next
<1>. QED
  BY <1>1, <1>2, Typing, PTL DEF Spec

(* No row is claimed more often than its budgets allow, however its        *)
(* attempts end and whoever requeues it.                                   *)
THEOREM ClaimsAreBounded == Spec => []ClaimsBounded
<1>1. TypeOK /\ Tallies => ClaimsBounded
  <2>. SUFFICES ASSUME TypeOK, Tallies, NEW r \in Row
                PROVE  row[r].claims <= Budget[Job[r].kind] * (1 + row[r].revived)
    BY DEF ClaimsBounded
  <2>1. /\ row[r].attempts \in Nat /\ row[r].claims \in Nat /\ row[r].revived \in Nat
        /\ Budget[Job[r].kind] \in Nat
    BY PgConstants DEF TypeOK, RowState
  <2>2. Budget[Job[r].kind] * (1 + row[r].revived)
          = Budget[Job[r].kind] * row[r].revived + Budget[Job[r].kind]
    BY <2>1
  <2>3. Budget[Job[r].kind] * row[r].revived \in Nat
    BY <2>1
  <2>. QED
    BY <2>1, <2>2, <2>3 DEF Tallies, ClaimTally
<1>. QED
  BY <1>1, KeepsTallies, Typing, PTL

(* A tenant hears of a dead letter at most once per death, even with a     *)
(* deposed reaper still at work beside its successor.                      *)
THEOREM ToldOnce == Spec => []ToldOncePerDeath
<1>1. TypeOK /\ Tallies => ToldOncePerDeath
  BY TellingFinite DEF ToldOncePerDeath, Tallies, TellTally, TypeOK, RowState
<1>. QED
  BY <1>1, KeepsTallies, Typing, PTL
=============================================================================
