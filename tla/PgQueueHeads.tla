--------------------------- MODULE PgQueueHeads -----------------------------
(***************************************************************************)
(* What happens to the heads of a pull request, on instances that give one *)
(* two heads: a stale head that the reaper ends is replaced, and a head    *)
(* that was asked for is reviewed or ends in a visible failure.            *)
(*                                                                         *)
(* Three invariants, each on top of the one before: HeadsInv (the order in *)
(* which heads and rows come), ReplacedInv (who was asked to stop, and     *)
(* why), CoverInv (the newest head is on its way).                         *)
(***************************************************************************)
EXTENDS PgQueueProofs

-----------------------------------------------------------------------------
(* The steps that leave the heads, and which rows there are, as they were. *)
Exists(r) == row[r].status # "none"

(* Nothing is inserted or read, and no attempt begins; only the operator's *)
(* verbs ask a row to stop or cancel one.                                  *)
NoNewRow ==
  \A r \in Row :
    /\ Exists(r)' <=> Exists(r)
    /\ row'[r].cancel => row[r].cancel \/ "cancel" \in Env
    /\ row'[r].status = "cancelled" => row[r].status = "cancelled" \/ "cancel" \in Env

(* An attempt that goes on works on what it worked on. *)
NoNewWork ==
  \A t \in Thread : work'[t].pc \notin {"idle", "claiming"} =>
    /\ work'[t].pc = work[t].pc
    /\ work'[t].row = work[t].row /\ work'[t].target = work[t].target

(* A reaper that remembers a row remembers the same row: nothing is read,  *)
(* and nothing changes what is known of an expired row or of a replacement *)
(* to queue.                                                               *)
NoNewNote ==
  \A p \in Reaper : snap'[p].pc # "none" =>
    /\ snap[p].pc # "none" /\ snap'[p].row = snap[p].row
    /\ snap'[p].pc \in {"expired", "requeue"} => snap'[p] = snap[p]

(* A replacement to queue is forgotten only with the reaper that was to    *)
(* queue it.                                                               *)
NoLostNote ==
  \A p \in Reaper : snap[p].pc = "requeue" => snap'[p] = snap[p] \/ "failover" \in Env

(* Most steps are of this kind. *)
Plain == NoNewRow /\ NoNewWork /\ NoNewNote /\ NoLostNote /\ UNCHANGED <<head, delivered>>

(* A row joins the table. *)
Joins(r) == row' = InsertedRow(r) /\ ~Exists(r)

(* An insert that is not refused makes its row join. *)
LEMMA EnqueueJoins ==
  ASSUME NEW r \in Row, NEW b \in BOOLEAN, Enqueue(r, b)
  PROVE  row' = row \/ Joins(r)
  BY DEF Enqueue, Joins, Exists

(* It only asks rows of other heads to stop, and cancels none. *)
LEMMA JoinsOnly ==
  ASSUME TypeOK, NEW r \in Row, Joins(r), NEW x \in Row
  PROVE  /\ Exists(x)' <=> x = r \/ Exists(x)
         /\ row'[x].cancel /\ ~row[x].cancel => OtherHead(r, x) /\ Exists(x)
         /\ row'[x].status = "cancelled" => row[x].status = "cancelled"
<1>1. row[x] \in RowState
  BY DEF TypeOK
<1>2. row'[x] = InsertedRow(r)[x]
  BY DEF Joins
<1>3. CASE x = r
  BY <1>1, <1>2, <1>3 DEF Exists, InsertedRow, RowState
<1>4. CASE x # r
  BY <1>1, <1>2, <1>4 DEF Exists, InsertedRow, RowState
<1>. QED
  BY <1>3, <1>4

LEMMA SameRows ==
  ASSUME row' = row
  PROVE  NoNewRow
  BY DEF NoNewRow, Exists

LEMMA ReleasedRow ==
  ASSUME NEW x \in RowState, NEW s \in Status \ {"none"}
  PROVE  /\ Released(x, s).status = s /\ Released(x, s).cancel = x.cancel
         /\ ResumedRow(x).status = "queued" /\ ResumedRow(x).cancel = x.cancel
  BY DEF Released, ResumedRow, RowState

(* The writes and the ends of attempts that several actions share. *)
LEMMA CompleteRows ==
  ASSUME TypeOK, NEW m, NEW r \in Row, NEW result \in Result, Complete(m, r, result)
  PROVE  NoNewRow
<1>1. Outcome(r, result) \in {"done", "failed", "queued", "dead"}
  BY DEF Outcome, Result
<1>2. row[r] \in RowState /\ Outcome(r, result) \in Status \ {"none"}
  BY <1>1 DEF TypeOK, Status, Live, Ended
<1>3. CASE row' = row
  BY <1>3, SameRows
<1>4. CASE Ours(m, r) /\ row' = [row EXCEPT ![r] = Released(row[r], Outcome(r, result))]
  <2>1. \A x \in Row \ {r} : row'[x] = row[x]
    BY <1>4 DEF TypeOK
  <2>2. row'[r] = Released(row[r], Outcome(r, result))
    BY <1>4 DEF TypeOK
  <2>. QED
    BY <1>1, <1>2, <1>4, <2>1, <2>2, ReleasedRow DEF NoNewRow, Exists, Ours
<1>. QED
  BY <1>3, <1>4 DEF Complete

LEMMA StopWork ==
  ASSUME TypeOK, NEW threads, Stop(threads)
  PROVE  NoNewWork
<1>1. ASSUME NEW t \in Thread, work[t].pc = "run"
      PROVE  LET a == [work[t] EXCEPT !.cancelled = TRUE]
             IN  a.pc = work[t].pc /\ a.row = work[t].row /\ a.target = work[t].target
  BY <1>1, AttemptTyped DEF Attempt
<1>. QED
  BY <1>1 DEF Stop, NoNewWork

LEMMA LeaveWork ==
  ASSUME TypeOK, NEW t \in Thread, Leave(t)
  PROVE  NoNewWork /\ work'[t] = Idle /\ \A w \in Thread \ {t} : work'[w] = work[w]
  BY DEF Leave, NoNewWork, TypeOK, Idle

LEMMA ForgetWork ==
  ASSUME TypeOK, NEW m, Forget(m)
  PROVE  NoNewWork
  BY DEF Forget, NoNewWork, Idle

LEMMA RetryRows ==
  ASSUME TypeOK, NEW r \in Row, Retry(r)
  PROVE  NoNewRow
<1>1. row[r] \in RowState
  BY DEF TypeOK
<1>2. RetriedRow(row[r]).status = "queued" /\ ~RetriedRow(row[r]).cancel
  BY <1>1 DEF RetriedRow, RowState
<1>3. Revivable(r) => row[r].status # "none"
  BY DEF Revivable, Retryable
<1>. QED
  BY <1>2, <1>3 DEF Retry, NoNewRow, Exists, TypeOK

(* Each group of actions is plain but for those it names. *)
LEMMA WorkerPlain ==
  ASSUME TypeOK, NEW t \in Thread, WorkerStep(t)
  PROVE  \/ Plain \/ RequeueMoved(t)
         \/ Begin(t) \/ \E r \in Row : Claim(t, r)
         \/ \E result \in Result : FinishMoved(t, result)
<1>. USE DEF Plain
<1>0. work[t].pc \notin {"idle", "claiming"} => work[t].row \in Row
  BY AttemptTyped DEF Attempt
<1>1. ASSUME NEW result \in Result, FinishJob(t, result) PROVE Plain
  BY <1>0, <1>1, CompleteRows, LeaveWork DEF FinishJob, NoNewNote, NoLostNote
<1>2. ASSUME NEW result \in Result, FinishUnwritten(t, result) PROVE Plain
  BY <1>2, SameRows, LeaveWork DEF FinishUnwritten, FailComplete, NoNewNote, NoLostNote
<1>3. ASSUME FinishCancelled(t) PROVE Plain
  <2>1. NoNewRow
    BY <1>0, <1>3, CompleteRows, SameRows DEF FinishCancelled, FailComplete, Result
  <2>. QED
    BY <1>3, <2>1, LeaveWork DEF FinishCancelled, NoNewNote, NoLostNote, github
<1>4. ASSUME FinishSettled(t) PROVE Plain
  BY <1>4, SameRows, LeaveWork DEF FinishSettled, NoNewNote, NoLostNote, github
<1>5. ASSUME ClaimNothing(t) PROVE Plain
  <2>1. NoNewWork
    BY <1>5 DEF ClaimNothing, NoNewWork, TypeOK, Idle
  <2>. QED
    BY <1>5, <2>1, SameRows DEF ClaimNothing, NoNewNote, NoLostNote, github
<1>. QED
  BY <1>1, <1>2, <1>3, <1>4, <1>5 DEF WorkerStep

LEMMA LeasePlain ==
  ASSUME TypeOK, LeaseStep
  PROVE  Plain
<1>. USE DEF Plain
<1>1. ASSUME NEW r \in Row, Lapse(r) \/ \E l \in keeper : l.row = r /\ Heartbeat(l) PROVE Plain
  <2>1. row[r] \in RowState
    BY DEF TypeOK
  <2>2. \E b \in BOOLEAN : row' = [row EXCEPT ![r] = [row[r] EXCEPT !.lapsed = b]]
    BY <1>1 DEF Lapse, Heartbeat
  <2>3. NoNewRow
    BY <2>1, <2>2 DEF NoNewRow, Exists, TypeOK, RowState
  <2>. QED
    BY <1>1, <2>3 DEF Lapse, Heartbeat, NoNewWork, NoNewNote, NoLostNote, github, process
<1>2. ASSUME NEW l \in keeper, LeaseLost(l) PROVE Plain
  BY <1>2, StopWork, SameRows DEF LeaseLost, NoNewNote, NoLostNote, github
<1>3. ASSUME NEW t \in Thread, Overdue(t) PROVE Plain
  BY <1>3, StopWork, SameRows DEF Overdue, NoNewNote, NoLostNote, github
<1>4. ASSUME NEW t \in Thread, Settle(t) PROVE Plain
  <2>1. work[t] \in Attempt
    BY <1>4, AttemptTyped DEF Settle
  <2>2. NoNewWork
    BY <1>4, <2>1 DEF Settle, NoNewWork, Attempt, TypeOK
  <2>. QED
    BY <1>4, <2>2, SameRows DEF Settle, NoNewNote, NoLostNote, github
<1>5. ASSUME NEW l \in settling, SettleWrite(l) PROVE Plain
  <2>1. l.row \in Row
    BY DEF TypeOK, Lease
  <2>2. NoNewRow
    BY <1>5, <2>1, CompleteRows, SameRows DEF SettleWrite, FailComplete, Result
  <2>. QED
    BY <1>5, <2>2 DEF SettleWrite, NoNewNote, NoLostNote, NoNewWork, github
<1>6. \A l \in keeper : l.row \in Row
  BY DEF TypeOK, Lease
<1>. QED
  BY <1>1, <1>2, <1>3, <1>4, <1>5, <1>6 DEF LeaseStep

LEMMA MachinePlain ==
  ASSUME TypeOK, NEW m \in Machine, MachineStep(m)
  PROVE  Plain
<1>. USE DEF Plain
<1>1. ASSUME Crash(m) \/ Exit(m) PROVE Plain
  BY <1>1, ForgetWork, SameRows DEF Crash, Exit, NoNewNote, NoLostNote, github
<1>2. ASSUME Undrain(m) \/ Drained(m) PROVE Plain
  BY <1>2, SameRows DEF Undrain, Drained, NoNewNote, NoLostNote, NoNewWork, github, process
<1>3. ASSUME Boot(m) PROVE Plain
  <2>1. ASSUME NEW r \in Row
        PROVE  /\ RecoveredRow(r).status \in {"queued", "failed", "dead"}
               /\ RecoveredRow(r).cancel = row[r].cancel
    <3>1. row[r] \in RowState
      BY DEF TypeOK
    <3>. QED
      BY <3>1, ReleasedRow DEF RecoveredRow, Status, Ended
  <2>2. NoNewRow
    BY <1>3, <2>1 DEF Boot, NoNewRow, Exists
  <2>. QED
    BY <1>3, <2>2 DEF Boot, NoNewNote, NoLostNote, NoNewWork, github, process
<1>4. ASSUME Drain(m) PROVE Plain
  <2>1. NoNewWork
    BY <1>4 DEF Drain, NoNewWork, Claiming, Idle
  <2>. QED
    BY <1>4, <2>1, SameRows DEF Drain, NoNewNote, NoLostNote, github
<1>. QED
  BY <1>1, <1>2, <1>3, <1>4 DEF MachineStep

LEMMA OperatorPlain ==
  ASSUME TypeOK, OperatorStep
  PROVE  Plain
<1>. USE DEF Plain
<1>1. ASSUME NEW r \in Row, Cancel(r) PROVE Plain
  <2>1. row[r] \in RowState
    BY DEF TypeOK
  <2>2. NoNewRow
    <3>1. CASE row[r].status = "queued" /\ row' = [row EXCEPT ![r].status = "cancelled"]
      BY <1>1, <2>1, <3>1 DEF Cancel, NoNewRow, Exists, TypeOK, RowState
    <3>2. CASE row[r].status = "running" /\ row' = [row EXCEPT ![r].cancel = TRUE]
      BY <1>1, <2>1, <3>2 DEF Cancel, NoNewRow, Exists, TypeOK, RowState
    <3>. QED
      BY <1>1, <3>1, <3>2 DEF Cancel
  <2>. QED
    BY <1>1, <2>2 DEF Cancel, NoNewNote, NoLostNote, NoNewWork, github, process
<1>2. ASSUME NEW r \in Row, RetryNow(r) PROVE Plain
  BY <1>2, RetryRows DEF RetryNow, NoNewNote, NoLostNote, NoNewWork, github, process
<1>3. ASSUME NEW k \in Tenant, SetPaused(k) PROVE Plain
  BY <1>3, SameRows DEF SetPaused, NoNewNote, NoLostNote, NoNewWork, github, process
<1>. QED
  BY <1>1, <1>2, <1>3 DEF OperatorStep

LEMMA DiscardNote ==
  ASSUME TypeOK, NEW p \in Reaper, Discard(p), snap[p].pc # "requeue" \/ "failover" \in Env
  PROVE  NoNewNote /\ NoLostNote
  BY DEF Discard, NoNewNote, NoLostNote, NoSnap, TypeOK

LEMMA ReaperPlain ==
  ASSUME TypeOK, NEW p \in Reaper, ReaperStep(p)
  PROVE  \/ Plain \/ ReapStaleHead(p) \/ ReapRequeueHead(p) \/ ReapCancelled(p)
         \/ \E r \in Row : ReadExpired(p, r) \/ ReadDead(p, r) \/ ReadOutage(p, r)
<1>. USE DEF Plain, github, process, NoNewWork
<1>0. snap[p].pc # "none" => snap[p] \in Noted /\ snap[p].row \in Row /\ row[snap[p].row] \in RowState
  BY NotedTyped DEF Noted, TypeOK
<1>1. ASSUME ReapDead(p) PROVE Plain
  <2>1. NoNewRow
    BY <1>0, <1>1, ReleasedRow DEF ReapDead, FinishRow, NoNewRow, Exists, TypeOK, Status, Ended
  <2>. QED
    BY <1>1, <2>1, DiscardNote DEF ReapDead
<1>2. ASSUME ReapResume(p) PROVE Plain
  <2>1. NoNewRow
    BY <1>0, <1>2, ReleasedRow DEF ReapResume, NoNewRow, Exists, TypeOK, Status, Ended
  <2>. QED
    BY <1>2, <2>1, DiscardNote DEF ReapResume
<1>3. ASSUME MarkDeadLetter(p) \/ MarkOutageRetry(p) PROVE Plain
  <2>1. NoNewRow
    BY <1>0, <1>3
       DEF MarkDeadLetter, MarkOutageRetry, MarkPosted, NoNewRow, Exists, TypeOK, RowState
  <2>2. NoNewNote /\ NoLostNote
    <3>1. CASE Discard(p)
      BY <1>3, <3>1, DiscardNote DEF MarkDeadLetter, MarkOutageRetry, MarkPosted
    <3>2. CASE \E to \in {"tell", "retry"} : snap' = [snap EXCEPT ![p].pc = to]
      BY <1>0, <1>3, <3>2
         DEF MarkDeadLetter, MarkOutageRetry, MarkPosted, NoNewNote, NoLostNote, TypeOK, Noted
    <3>. QED
      BY <1>3, <3>1, <3>2 DEF MarkDeadLetter, MarkOutageRetry, MarkPosted
  <2>. QED
    BY <1>3, <2>1, <2>2 DEF MarkDeadLetter, MarkOutageRetry, MarkPosted
<1>4. ASSUME TellDeadLetter(p) PROVE Plain
  <2>1. NoNewRow
    BY <1>0, <1>4 DEF TellDeadLetter, NoNewRow, Exists, TypeOK, RowState
  <2>. QED
    BY <1>4, <2>1, DiscardNote DEF TellDeadLetter
<1>5. ASSUME OutageRetry(p) PROVE Plain
  BY <1>0, <1>5, RetryRows, DiscardNote DEF OutageRetry
<1>6. ASSUME LoseReaper(p) PROVE Plain
  BY <1>6, SameRows, DiscardNote DEF LoseReaper
<1>. QED
  BY <1>1, <1>2, <1>3, <1>4, <1>5, <1>6 DEF ReaperStep

LEMMA IngressPlain ==
  ASSUME TypeOK, IngressStep
  PROVE  \/ Plain
         \/ \E p \in Pull : Push(p)
         \/ \E d \in Webhook : CheckCiFix(d) \/ Deliver(d)
<1>1. ASSUME NEW m \in Serving, NEW d \in Webhook, SupersedeRunning(m, d) PROVE Plain
  BY <1>1, StopWork, SameRows DEF SupersedeRunning, Plain, NoNewNote, NoLostNote, github
<1>. QED
  BY <1>1 DEF IngressStep

-----------------------------------------------------------------------------
(* The order of things: the first head's job comes before anything about   *)
(* the second, and nothing is about a head that was not pushed.            *)
(* An inserted row is of a head that has been pushed.  What is read,       *)
(* worked on or requeued is in the table.  The first head's job is older   *)
(* than any job of the second.                                             *)
Arrived ==
  \A r \in Row : Exists(r) /\ Indexed(r) =>
    Job[r].ref <= head[Job[r].pr] /\ (r \in Webhook \/ Job[r].ref = 2)

(* What a reaper remembers is in the table; what it is to replace is a     *)
(* review of an older head than the one it saw.                            *)
NotedHeads ==
  \A p \in Reaper : snap[p].pc # "none" =>
    /\ Exists(snap[p].row)
    /\ snap[p].pc = "requeue" =>
         /\ Job[snap[p].row].kind = "review" /\ Indexed(snap[p].row)
         /\ Job[snap[p].row].ref < snap[p].to
         /\ snap[p].to <= head[Job[snap[p].row].pr]

(* What an attempt works on is in the table; what a finished review saw as *)
(* the new head was pushed.                                                *)
Worked ==
  \A t \in Thread : work[t].pc \notin {"idle", "claiming"} =>
    /\ Exists(work[t].row)
    /\ work[t].pc = "moved" =>
         /\ Job[work[t].row].kind = "review" /\ Job[work[t].row].pr # None
         /\ work[t].target \in Ref /\ work[t].target <= head[Job[work[t].row].pr]

(* The second head of the pull request has a row. *)
HasSecond(d) == \E x \in Row : Indexed(x) /\ SamePull(d, x) /\ Job[x].ref = 2 /\ Exists(x)

(* By then the row of the first head is there, as it is once its delivery  *)
(* was answered.                                                           *)
FirstFirst ==
  \A d \in Webhook : /\ Indexed(d) /\ Job[d].ref = 1
                     /\ d \in delivered \/ HasSecond(d)
                     => Exists(d)

HeadsInv == TypeOK /\ Arrived /\ NotedHeads /\ Worked /\ FirstFirst

(* Rows and heads only come. *)
Grown == /\ \A r \in Row : Exists(r) => Exists(r)'
         /\ \A p \in Pull : head[p] <= head'[p]

LEMMA PullOf ==
  ASSUME NEW r \in Row, Job[r].pr # None
  PROVE  Job[r].pr \in Pull
  BY PgConstants

LEMMA HeadsTyped ==
  ASSUME TypeOK, TypeOK', NEW p \in Pull
  PROVE  head[p] \in Nat /\ head'[p] \in Nat
  BY PgConstants DEF TypeOK, Ref

(* Attempts and snapshots that stay the same stay true. *)
LEMMA WorkedKept ==
  ASSUME TypeOK, TypeOK', Worked, Grown, NoNewWork
  PROVE  Worked'
<1>. SUFFICES ASSUME NEW t \in Thread, work'[t].pc \notin {"idle", "claiming"}
              PROVE  /\ row'[work'[t].row].status # "none"
                     /\ work'[t].pc = "moved" =>
                          /\ Job[work'[t].row].kind = "review" /\ Job[work'[t].row].pr # None
                          /\ work'[t].target \in Ref /\ work'[t].target <= head'[Job[work'[t].row].pr]
  BY DEF Worked, Exists
<1>1. /\ work'[t].pc = work[t].pc /\ work'[t].row = work[t].row
      /\ work'[t].target = work[t].target /\ work[t].row \in Row
      /\ work[t].target \in Nat
  BY AttemptTyped DEF NoNewWork, Attempt, Ref, NoRef
<1>2. row'[work[t].row].status # "none"
  BY <1>1 DEF Worked, Grown, Exists
<1>3. ASSUME work[t].pc = "moved"
      PROVE  /\ Job[work[t].row].kind = "review" /\ Job[work[t].row].pr # None
             /\ work[t].target \in Ref /\ work[t].target <= head'[Job[work[t].row].pr]
  <2>1. /\ Job[work[t].row].kind = "review" /\ Job[work[t].row].pr \in Pull
        /\ Job[work[t].row].pr # None /\ work[t].target \in Ref
        /\ work[t].target <= head[Job[work[t].row].pr]
    BY <1>1, <1>3, PullOf DEF Worked
  <2>2. head[Job[work[t].row].pr] \in Nat /\ head'[Job[work[t].row].pr] \in Nat
    BY <2>1, HeadsTyped
  <2>. QED
    BY <1>1, <2>1, <2>2 DEF Grown
<1>. QED
  BY <1>1, <1>2, <1>3

LEMMA NotedKept ==
  ASSUME TypeOK, TypeOK', NotedHeads, Grown, NEW p \in Reaper,
         snap'[p].pc # "none", snap[p].pc # "none", snap'[p].row = snap[p].row,
         snap'[p].pc = "requeue" => snap'[p] = snap[p]
  PROVE  /\ row'[snap'[p].row].status # "none"
         /\ snap'[p].pc = "requeue" =>
              /\ Job[snap'[p].row].kind = "review" /\ Indexed(snap'[p].row)
              /\ Job[snap'[p].row].ref < snap'[p].to
              /\ snap'[p].to <= head'[Job[snap'[p].row].pr]
<1>1. snap[p].row \in Row /\ snap[p].to \in Nat
  BY NotedTyped DEF Noted, Ref, NoRef
<1>2. row'[snap[p].row].status # "none"
  BY <1>1 DEF NotedHeads, Grown, Exists
<1>3. ASSUME snap'[p].pc = "requeue"
      PROVE  snap[p].to <= head'[Job[snap[p].row].pr]
  <2>1. snap[p].to <= head[Job[snap[p].row].pr] /\ Job[snap[p].row].pr \in Pull
    BY <1>1, <1>3, PullOf DEF NotedHeads, Indexed
  <2>. QED
    BY <1>1, <2>1, HeadsTyped DEF Grown
<1>. QED
  BY <1>2, <1>3 DEF NotedHeads

LEMMA NotesKept ==
  ASSUME TypeOK, TypeOK', NotedHeads, Grown, NoNewNote
  PROVE  NotedHeads'
  BY NotedKept DEF NoNewNote, NotedHeads, Exists

(* The order of heads is kept by plain steps, by a row that joins, and by  *)
(* steps that leave every row where it is.                                 *)
LEMMA PlainHeads ==
  ASSUME HeadsInv, TypeOK', Plain
  PROVE  HeadsInv'
<1>. USE DEF HeadsInv
<1>1. Grown
  BY HeadsTyped DEF Plain, NoNewRow, Grown
<1>2. Arrived' /\ FirstFirst'
  <2>1. \A r \in Row : Exists(r)' <=> Exists(r)
    BY DEF Plain, NoNewRow
  <2>2. \A d \in Webhook : HasSecond(d)' <=> HasSecond(d)
    BY <2>1 DEF HasSecond
  <2>. QED
    BY <2>1, <2>2, PgConstants DEF Plain, Arrived, FirstFirst
<1>. QED
  BY <1>1, <1>2, WorkedKept, NotesKept DEF Plain

(* The three ways a row joins. *)
LEMMA JoinsHeads ==
  ASSUME HeadsInv, TypeOK', NEW r \in Row, Joins(r), head' = head,
         Indexed(r) => Job[r].ref <= head[Job[r].pr] /\ (r \in Webhook \/ Job[r].ref = 2),
         delivered' \subseteq delivered \cup {r},
         \A d \in Webhook : Indexed(r) /\ Job[r].ref = 2 =>
           (Indexed(d) /\ Job[d].ref = 1 /\ SamePull(d, r) => Exists(d)),
         NoNewWork, NoNewNote
  PROVE  HeadsInv'
<1>. USE DEF HeadsInv
<1>1. \A x \in Row : Exists(x)' <=> x = r \/ Exists(x)
  BY JoinsOnly
<1>2. Grown
  BY <1>1, HeadsTyped DEF Grown
<1>3. Arrived'
  BY <1>1 DEF Arrived
<1>4. FirstFirst'
  <2>. SUFFICES ASSUME NEW d \in Webhook, Indexed(d), Job[d].ref = 1,
                       d \in delivered' \/ HasSecond(d)'
                PROVE  Exists(d)'
    BY DEF FirstFirst
  <2>0. d \in Row
    BY PgConstants
  <2>1. CASE d \in delivered'
    BY <1>1, <2>0, <2>1 DEF FirstFirst
  <2>2. CASE HasSecond(d)'
    <3>1. PICK x \in Row : Indexed(x) /\ SamePull(d, x) /\ Job[x].ref = 2 /\ Exists(x)'
      BY <2>2 DEF HasSecond
    <3>2. CASE x = r
      BY <1>1, <2>0, <3>1, <3>2
    <3>3. CASE x # r
      BY <1>1, <2>0, <3>1, <3>3 DEF FirstFirst, HasSecond
    <3>. QED
      BY <3>2, <3>3
  <2>. QED
    BY <2>1, <2>2
<1>. QED
  BY <1>2, <1>3, <1>4, WorkedKept, NotesKept

(* Nothing joins and nothing else matters to the order of heads. *)
LEMMA StillHeads ==
  ASSUME HeadsInv, TypeOK', \A r \in Row : Exists(r)' <=> Exists(r), head' = head,
         delivered' = delivered
  PROVE  Grown /\ Arrived' /\ FirstFirst'
<1>. USE DEF HeadsInv
<1>1. \A d \in Webhook : HasSecond(d)' <=> HasSecond(d)
  BY DEF HasSecond
<1>2. Arrived' /\ FirstFirst'
  BY <1>1, PgConstants DEF Arrived, FirstFirst
<1>. QED
  BY <1>2, HeadsTyped DEF Grown

(* What follows up a row of the first head is of the second, which was     *)
(* pushed, and the only first-head row is there.                           *)
LEMMA FollowUp ==
  ASSUME TwoHeads, HeadsInv, NEW r \in Row, NEW h \in Ref, NEW x \in Row,
         x \in {ReaperRow[<<r, h>>], MovedRow[<<r, h>>]},
         Exists(r), Job[r].kind = "review", h <= head[Job[r].pr]
  PROVE  /\ Indexed(x) /\ Job[x].ref = 2 /\ Job[x].ref <= head[Job[x].pr] /\ Indexed(r)
         /\ \A d \in Webhook : Indexed(d) /\ Job[d].ref = 1 /\ SamePull(d, x) => Exists(d)
<1>1. /\ Job[r].ref = 1 /\ h = 2 /\ Job[x].ref = 2
      /\ Job[x].kind = "review" /\ SamePull(r, x)
  BY DEF TwoHeads
<1>2. Indexed(x) /\ Indexed(r) /\ Job[x].pr = Job[r].pr
  BY <1>1 DEF Indexed, SamePull, Supersedable, NoRef
<1>3. r \in Webhook
  BY <1>1, <1>2 DEF HeadsInv, Arrived
<1>4. ASSUME NEW d \in Webhook, Indexed(d), Job[d].ref = 1, SamePull(d, x) PROVE Exists(d)
  <2>1. SamePull(d, r)
    BY <1>1, <1>4 DEF SamePull
  <2>2. d = r
    BY <1>1, <1>2, <1>3, <1>4, <2>1 DEF TwoHeads
  <2>. QED
    BY <2>2
<1>. QED
  BY <1>1, <1>2, <1>4

(* One lemma per group of actions. A delivery of the first head that the   *)
(* index refuses would be refused by a row of that head.                   *)
LEMMA DeliverHeads ==
  ASSUME TwoHeads, HeadsInv, TypeOK', NEW d \in Webhook, Deliver(d)
  PROVE  HeadsInv'
<1>. USE DEF HeadsInv
<1>0. d \in Row
  BY PgConstants
<1>1. NoNewWork /\ NoNewNote /\ head' = head
  BY DEF Deliver, NoNewWork, NoNewNote, process
<1>2. Indexed(d) => Job[d].ref <= head[Job[d].pr]
  BY DEF Deliver, Sent, Indexed
<1>3. delivered' = delivered \cup {d}
  BY DEF Deliver
(* The first head's only job is in the table before its second head comes. *)
<1>4. ASSUME NEW e \in Webhook, Indexed(d), Job[d].ref = 2,
             Indexed(e), Job[e].ref = 1, SamePull(e, d)
      PROVE  Exists(e)
  <2>1. e \in Earlier(d)
    BY <1>4 DEF Earlier, SamePull
  <2>2. e \in delivered
    BY <2>1 DEF Deliver, InOrder, TwoHeads
  <2>. QED
    BY <1>4, <2>2 DEF FirstFirst
<1>5. row' = row \/ Joins(d)
  BY <1>0, EnqueueJoins DEF Deliver
<1>6. CASE Joins(d)
  <2>1. \A e \in Webhook : Indexed(d) /\ Job[d].ref = 2 =>
          (Indexed(e) /\ Job[e].ref = 1 /\ SamePull(e, d) => Exists(e))
    BY <1>4
  <2>2. delivered' \subseteq delivered \cup {d}
    BY <1>3
  <2>3. Indexed(d) => Job[d].ref <= head[Job[d].pr] /\ (d \in Webhook \/ Job[d].ref = 2)
    BY <1>2
  <2>. QED
    BY <1>0, <1>1, <1>6, <2>1, <2>2, <2>3, JoinsHeads
<1>7. CASE row' = row /\ ~Joins(d)
  <2>1. \A r \in Row : Exists(r)' <=> Exists(r)
    BY <1>7 DEF Exists
  <2>2. Grown /\ Arrived'
    BY <1>1, <2>1, HeadsTyped DEF Grown, Arrived
  <2>3. ASSUME Indexed(d), Job[d].ref = 1 PROVE Exists(d)
    (* No other row is of this head: the index has nothing to refuse.      *)
    <3>1. SUFFICES ASSUME ~Exists(d) PROVE FALSE
      OBVIOUS
    <3>2. IndexFree(d)
      <4>. SUFFICES ASSUME NEW x \in Row \ {d}, SameHead(d, x), row[x].status \in Live
                    PROVE  FALSE
        BY DEF IndexFree
      <4>1. Exists(x) /\ Indexed(x) /\ Job[x].ref = 1
        BY <2>3 DEF Exists, Live, SameHead, Indexed
      <4>2. x \in Webhook
        BY <4>1 DEF Arrived
      <4>. QED
        BY <2>3, <4>1, <4>2 DEF TwoHeads, SamePull, SameHead, Indexed
    <3>3. row' = InsertedRow(d)
      BY <3>1, <3>2 DEF Deliver, Enqueue, Exists
    <3>. QED
      BY <1>7, <3>1, <3>3 DEF Joins
  <2>4. \A e \in Webhook : HasSecond(e)' <=> HasSecond(e)
    BY <2>1 DEF HasSecond
  <2>5. FirstFirst'
    BY <1>3, <2>1, <2>3, <2>4, PgConstants DEF FirstFirst
  <2>. QED
    BY <1>1, <2>2, <2>5, WorkedKept, NotesKept
<1>. QED
  BY <1>5, <1>6, <1>7

LEMMA IngressHeads ==
  ASSUME TwoHeads, HeadsInv, TypeOK', IngressStep
  PROVE  HeadsInv'
<1>. USE DEF HeadsInv
<1>1. ASSUME NEW p \in Pull, Push(p) PROVE HeadsInv'
  <2>1. /\ \A r \in Row : Exists(r)' <=> Exists(r)
        /\ NoNewWork /\ NoNewNote /\ delivered' = delivered
    BY <1>1 DEF Push, Exists, NoNewWork, NoNewNote, process
  <2>2. \A q \in Pull : head[q] <= head'[q]
    BY <1>1, HeadsTyped DEF Push, TypeOK
  <2>3. Arrived'
    <3>. SUFFICES ASSUME NEW r \in Row, Exists(r)', Indexed(r)
                  PROVE  Job[r].ref <= head'[Job[r].pr] /\ (r \in Webhook \/ Job[r].ref = 2)
      BY DEF Arrived
    <3>1. Job[r].pr \in Pull /\ Job[r].ref \in Nat
      BY PgConstants, PullOf DEF Indexed, Ref, NoRef
    <3>. QED
      BY <2>1, <2>2, <3>1, HeadsTyped DEF Arrived
  <2>4. FirstFirst'
    <3>1. \A d \in Webhook : HasSecond(d)' <=> HasSecond(d)
      BY <2>1 DEF HasSecond
    <3>. QED
      BY <2>1, <3>1, PgConstants DEF FirstFirst
  <2>. QED
    BY <2>1, <2>2, <2>3, <2>4, WorkedKept, NotesKept DEF Grown
<1>2. ASSUME NEW d \in Webhook, CheckCiFix(d) PROVE HeadsInv'
  <2>1. /\ \A r \in Row : Exists(r)' <=> Exists(r)
        /\ NoNewWork /\ NoNewNote /\ head' = head
    BY <1>2 DEF CheckCiFix, Exists, NoNewWork, NoNewNote, process
  <2>2. ASSUME HadCiFix(d), Indexed(d), Job[d].ref = 1 PROVE Exists(d)
    <3>1. PICK x \in Row : Exists(x) /\ Job[x].ci /\ Job[x].pr = Job[d].pr /\ Job[x].ref = Job[d].ref
      BY <2>2 DEF HadCiFix, Exists
    <3>2. Indexed(x) /\ Job[x].ref = 1 /\ SamePull(d, x)
      BY <2>2, <3>1 DEF TwoHeads, Indexed, SamePull, Supersedable
    <3>3. x \in Webhook
      BY <3>1, <3>2 DEF Arrived
    <3>. QED
      BY <2>2, <3>1, <3>2, <3>3 DEF TwoHeads
  <2>3. delivered' = delivered \/ (delivered' = delivered \cup {d} /\ HadCiFix(d))
    BY <1>2 DEF CheckCiFix
  <2>4. Grown /\ Arrived'
    BY <2>1, HeadsTyped DEF Grown, Arrived
  <2>5. \A e \in Webhook : HasSecond(e)' <=> HasSecond(e)
    BY <2>1 DEF HasSecond
  <2>6. FirstFirst'
    BY <2>1, <2>2, <2>3, <2>5, PgConstants DEF FirstFirst
  <2>. QED
    BY <2>1, <2>4, <2>6, WorkedKept, NotesKept
<1>. QED
  BY <1>1, <1>2, IngressPlain, PlainHeads, DeliverHeads

LEMMA WorkerHeads ==
  ASSUME TwoHeads, HeadsInv, TypeOK', NEW t \in Thread, WorkerStep(t)
  PROVE  HeadsInv'
<1>. USE DEF HeadsInv
<1>0. work[t].pc \notin {"idle", "claiming"} => work[t].row \in Row /\ work[t].target \in Ref \cup {NoRef}
  BY AttemptTyped DEF Attempt
<1>1. ASSUME NEW r \in Row, Claim(t, r) PROVE HeadsInv'
  <2>1. row[r].status = "queued" /\ row' = [row EXCEPT ![r] = ClaimedRow(row[r], t)]
    BY <1>1 DEF Claim, Runnable
  <2>2. \A x \in Row : Exists(x)' <=> Exists(x)
    BY <2>1 DEF Exists, ClaimedRow, TypeOK, RowState
  <2>3. work' = [work EXCEPT ![t] = [Idle EXCEPT !.pc = "claimed", !.row = r,
                                         !.claim = row[r].claims + 1]]
    BY <1>1 DEF Claim
  <2>4. work'[t].pc = "claimed" /\ work'[t].row = r
    BY <2>3 DEF Idle, TypeOK
  <2>5. \A w \in Thread \ {t} : work'[w] = work[w]
    BY <2>3 DEF TypeOK
  <2>6. /\ UNCHANGED <<head, delivered>> /\ NoNewNote
    BY <1>1 DEF Claim, github, NoNewNote
  <2>7. Grown /\ Arrived' /\ FirstFirst'
    BY <2>2, <2>6, StillHeads
  <2>8. Worked'
    <3>. SUFFICES ASSUME NEW w \in Thread, work'[w].pc \notin {"idle", "claiming"}
                  PROVE  /\ row'[work'[w].row].status # "none"
                         /\ work'[w].pc = "moved" =>
                              /\ Job[work'[w].row].kind = "review" /\ Job[work'[w].row].pr # None
                              /\ work'[w].target \in Ref /\ work'[w].target <= head'[Job[work'[w].row].pr]
      BY DEF Worked, Exists
    <3>1. CASE w = t
      BY <2>1, <2>2, <2>4, <3>1 DEF Exists
    <3>2. CASE w # t
      BY <2>2, <2>5, <2>6, <3>2, AttemptTyped DEF Worked, Exists, Attempt
    <3>. QED
      BY <3>1, <3>2
  <2>. QED
    BY <2>6, <2>7, <2>8, NotesKept
<1>2. ASSUME NEW result \in Result, FinishMoved(t, result) PROVE HeadsInv'
  <2>1. work[t].pc = "run" /\ HeadMovedUnder(t)
    BY <1>2 DEF FinishMoved
  <2>2. NoNewRow
    BY <1>0, <1>2, <2>1, CompleteRows DEF FinishMoved
  <2>3. \A x \in Row : Exists(x)' <=> Exists(x)
    BY <2>2 DEF NoNewRow
  <2>4. UNCHANGED <<head, delivered>> /\ NoNewNote
    BY <1>2 DEF FinishMoved, NoNewNote
  <2>5. Grown /\ Arrived' /\ FirstFirst'
    BY <2>3, <2>4, StillHeads
  <2>6. /\ work'[t].pc = "moved" /\ work'[t].row = work[t].row
        /\ work'[t].target = head[Job[work[t].row].pr]
    BY <1>2 DEF FinishMoved, Idle, TypeOK
  <2>7. \A w \in Thread \ {t} : work'[w] = work[w]
    BY <1>2 DEF FinishMoved, TypeOK
  <2>8. Worked'
    <3>. SUFFICES ASSUME NEW w \in Thread, work'[w].pc \notin {"idle", "claiming"}
                  PROVE  /\ row'[work'[w].row].status # "none"
                         /\ work'[w].pc = "moved" =>
                              /\ Job[work'[w].row].kind = "review" /\ Job[work'[w].row].pr # None
                              /\ work'[w].target \in Ref /\ work'[w].target <= head'[Job[work'[w].row].pr]
      BY DEF Worked, Exists
    <3>1. CASE w = t
      <4>1. Job[work[t].row].kind = "review" /\ Job[work[t].row].pr \in Pull /\ Job[work[t].row].pr # None
        BY <1>0, <2>1, PullOf DEF HeadMovedUnder
      <4>2. work[t].row \in Row /\ Exists(work[t].row)
        BY <1>0, <2>1 DEF Worked
      <4>. QED
        BY <2>3, <2>4, <2>6, <3>1, <4>1, <4>2, HeadsTyped DEF Exists, TypeOK
    <3>2. CASE w # t
      BY <2>3, <2>4, <2>7, <3>2, AttemptTyped DEF Worked, Exists, Attempt
    <3>. QED
      BY <3>1, <3>2
  <2>. QED
    BY <2>4, <2>5, <2>8, NotesKept
<1>3. ASSUME RequeueMoved(t) PROVE HeadsInv'
  <2>. DEFINE r == work[t].row
              x == MovedRow[<<r, work[t].target>>]
  <2>1. work[t].pc = "moved" /\ r \in Row
    BY <1>0, <1>3 DEF RequeueMoved
  <2>2. /\ NoNewWork /\ NoNewNote /\ NoLostNote /\ UNCHANGED <<head, delivered>>
    BY <1>3, LeaveWork DEF RequeueMoved, NoNewNote, NoLostNote, github
  <2>3. CASE row' = row
    <3>1. Plain
      BY <2>2, <2>3, SameRows DEF Plain
    <3>. QED
      BY <3>1, PlainHeads
  <2>4. CASE x \in Row /\ Joins(x)
    <3>1. Exists(r) /\ Job[r].kind = "review" /\ work[t].target <= head[Job[r].pr]
      BY <2>1 DEF Worked
    <3>2. work[t].target \in Ref
      BY <2>1 DEF Worked
    <3>3. /\ Indexed(x) /\ Job[x].ref = 2 /\ Job[x].ref <= head[Job[x].pr]
          /\ \A d \in Webhook : Indexed(d) /\ Job[d].ref = 1 /\ SamePull(d, x) => Exists(d)
      BY <2>1, <2>4, <3>1, <3>2, FollowUp
    <3>. QED
      BY <2>2, <2>4, <3>3, JoinsHeads
  <2>5. row' = row \/ (x \in Row /\ Joins(x))
    BY <1>3, EnqueueJoins DEF RequeueMoved
  <2>. QED
    BY <2>3, <2>4, <2>5
<1>4. ASSUME Begin(t) PROVE HeadsInv'
  <2>1. work[t].pc = "claimed" /\ work[t] \in Attempt
    BY <1>4, AttemptTyped DEF Begin
  <2>2. PICK ref \in HeadsRead(work[t].row) :
          work' = [work EXCEPT ![t].pc = "run", ![t].target = ref]
    BY <1>4 DEF Begin
  <2>3. work'[t].pc = "run" /\ work'[t].row = work[t].row
    BY <2>1, <2>2 DEF TypeOK, Attempt
  <2>4. \A w \in Thread \ {t} : work'[w] = work[w]
    BY <2>2 DEF TypeOK
  <2>5. UNCHANGED <<row, head, delivered>> /\ NoNewNote
    BY <1>4 DEF Begin, github, NoNewNote
  <2>6. Grown /\ Arrived' /\ FirstFirst'
    BY <2>5, StillHeads DEF Exists
  <2>7. Worked'
    BY <2>1, <2>3, <2>4, <2>5 DEF Worked, Exists
  <2>. QED
    BY <2>5, <2>6, <2>7, NotesKept
<1>. QED
  BY <1>1, <1>2, <1>3, <1>4, WorkerPlain, PlainHeads

LEMMA ReaperHeads ==
  ASSUME TwoHeads, HeadsInv, TypeOK', NEW p \in Reaper, ReaperStep(p)
  PROVE  HeadsInv'
<1>. USE DEF HeadsInv
<1>0. snap[p].pc # "none" => snap[p].row \in Row /\ row[snap[p].row] \in RowState
  BY NotedTyped DEF Noted, TypeOK
<1>1. ASSUME \A r \in Row : Exists(r)' <=> Exists(r), UNCHANGED <<github, process>>,
             \A q \in Reaper \ {p} : snap'[q] = snap[q],
             snap'[p].pc # "none" =>
               /\ snap'[p].row \in Row /\ Exists(snap'[p].row)
               /\ snap'[p].pc = "requeue" =>
                    /\ Job[snap'[p].row].kind = "review" /\ Indexed(snap'[p].row)
                    /\ Job[snap'[p].row].ref < snap'[p].to
                    /\ snap'[p].to <= head[Job[snap'[p].row].pr]
      PROVE  HeadsInv'
  <2>1. NoNewWork /\ UNCHANGED <<head, delivered>>
    BY <1>1 DEF NoNewWork, process, github
  <2>2. Grown /\ Arrived' /\ FirstFirst'
    BY <1>1, <2>1, StillHeads
  <2>3. NotedHeads'
    <3>. SUFFICES ASSUME NEW q \in Reaper, snap'[q].pc # "none"
                  PROVE  /\ row'[snap'[q].row].status # "none"
                         /\ snap'[q].pc = "requeue" =>
                              /\ Job[snap'[q].row].kind = "review" /\ Indexed(snap'[q].row)
                              /\ Job[snap'[q].row].ref < snap'[q].to
                              /\ snap'[q].to <= head'[Job[snap'[q].row].pr]
      BY DEF NotedHeads, Exists
    <3>1. CASE q = p
      BY <1>1, <2>1, <3>1 DEF Exists
    <3>2. CASE q # p
      <4>1. snap'[q] = snap[q]
        BY <1>1, <3>2
      <4>. QED
        BY <2>2, <4>1, NotedKept
    <3>. QED
      BY <3>1, <3>2
  <2>. QED
    BY <2>1, <2>2, <2>3, WorkedKept
<1>2. ASSUME NEW r \in Row, ReadExpired(p, r) \/ ReadDead(p, r) \/ ReadOutage(p, r)
      PROVE  HeadsInv'
  <2>1. row' = row /\ UNCHANGED <<github, process>> /\ Exists(r)
    BY <1>2 DEF ReadExpired, ReadDead, ReadOutage, Exists
  <2>2. PICK n : /\ snap' = [snap EXCEPT ![p] = n] /\ n.row = r
                 /\ n.pc \in {"expired", "dead", "outage"}
    <3>1. [NoSnap EXCEPT !.pc = "expired", !.row = r, !.cancel = row[r].cancel,
                         !.resumes = row[r].resumes].row = r
      BY DEF NoSnap
    <3>2. [NoSnap EXCEPT !.pc = "expired", !.row = r, !.cancel = row[r].cancel,
                         !.resumes = row[r].resumes].pc = "expired"
      BY DEF NoSnap
    <3>3. \A pc : [NoSnap EXCEPT !.pc = pc, !.row = r].row = r /\ [NoSnap EXCEPT !.pc = pc, !.row = r].pc = pc
      BY DEF NoSnap
    <3>. QED
      BY <1>2, <3>1, <3>2, <3>3 DEF ReadExpired, ReadDead, ReadOutage, ReadSnap
  <2>3. snap'[p] = n /\ \A q \in Reaper \ {p} : snap'[q] = snap[q]
    BY <2>2 DEF TypeOK
  <2>. QED
    BY <1>1, <2>1, <2>2, <2>3 DEF Exists
<1>3. ASSUME ReapCancelled(p) PROVE HeadsInv'
  <2>1. \A r \in Row : Exists(r)' <=> Exists(r)
    BY <1>0, <1>3, ReleasedRow DEF ReapCancelled, FinishRow, Exists, TypeOK, Status, Ended
  <2>2. snap'[p] = NoSnap /\ (\A q \in Reaper \ {p} : snap'[q] = snap[q]) /\ NoSnap.pc = "none"
    BY <1>3 DEF ReapCancelled, Discard, TypeOK, NoSnap
  <2>. QED
    BY <1>1, <1>3, <2>1, <2>2 DEF ReapCancelled
<1>4. ASSUME ReapStaleHead(p) PROVE HeadsInv'
  <2>. DEFINE r == snap[p].row
              n == [NoSnap EXCEPT !.pc = "requeue", !.row = r, !.to = head[Job[r].pr]]
  <2>0. r \in Row /\ Exists(r) /\ HeadMoved(r)
    BY <1>0, <1>4 DEF ReapStaleHead, NotedHeads
  <2>1. \A x \in Row : Exists(x)' <=> Exists(x)
    BY <1>0, <1>4, ReleasedRow DEF ReapStaleHead, FinishRow, Exists, TypeOK, Status, Ended
  <2>2. CASE Discard(p)
    <3>1. snap'[p] = NoSnap /\ (\A q \in Reaper \ {p} : snap'[q] = snap[q]) /\ NoSnap.pc = "none"
      BY <2>2 DEF Discard, TypeOK, NoSnap
    <3>. QED
      BY <1>1, <1>4, <2>1, <3>1 DEF ReapStaleHead
  <2>3. CASE Job[r].kind = "review" /\ snap' = [snap EXCEPT ![p] = n]
    <3>1. n.pc = "requeue" /\ n.row = r /\ n.to = head[Job[r].pr]
      BY DEF NoSnap
    <3>2. snap'[p] = n /\ \A q \in Reaper \ {p} : snap'[q] = snap[q]
      BY <2>3 DEF TypeOK
    <3>3. Indexed(r) /\ Job[r].ref < head[Job[r].pr] /\ head[Job[r].pr] \in Nat
      <4>1. Indexed(r) /\ Job[r].ref # head[Job[r].pr]
        BY <2>0 DEF HeadMoved
      <4>2. Job[r].ref \in Nat /\ head[Job[r].pr] \in Nat
        BY <2>0, <4>1, PgConstants, HeadsTyped, PullOf DEF Indexed, Ref, NoRef
      <4>3. Job[r].ref <= head[Job[r].pr]
        BY <2>0, <4>1 DEF Arrived
      <4>. QED
        BY <4>1, <4>2, <4>3
    <3>4. snap'[p].to <= head[Job[r].pr]
      BY <3>1, <3>2, <3>3
    <3>. QED
      BY <1>1, <1>4, <2>0, <2>1, <2>3, <3>1, <3>2, <3>3, <3>4 DEF ReapStaleHead
  <2>. QED
    BY <1>4, <2>2, <2>3 DEF ReapStaleHead
<1>5. ASSUME ReapRequeueHead(p) PROVE HeadsInv'
  <2>. DEFINE r == snap[p].row
              x == ReaperRow[<<r, snap[p].to>>]
  <2>0. /\ r \in Row /\ Exists(r) /\ Job[r].kind = "review"
        /\ Job[r].ref < snap[p].to /\ snap[p].to <= head[Job[r].pr] /\ Indexed(r)
    BY <1>0, <1>5 DEF ReapRequeueHead, NotedHeads
  <2>1. NoNewWork /\ NoNewNote /\ UNCHANGED <<head, delivered>>
    BY <1>5 DEF ReapRequeueHead, Discard, NoNewWork, NoNewNote, github, process, TypeOK, NoSnap
  <2>2. CASE row' = row
    <3>1. snap'[p] = NoSnap /\ (\A q \in Reaper \ {p} : snap'[q] = snap[q]) /\ NoSnap.pc = "none"
      BY <1>5 DEF ReapRequeueHead, Discard, TypeOK, NoSnap
    <3>. QED
      BY <1>1, <1>5, <2>2, <3>1 DEF ReapRequeueHead, Exists
  <2>3. CASE x \in Row /\ Joins(x)
    <3>1. snap[p].to \in Ref
      <4>1. snap[p].to \in Ref \cup {NoRef} /\ Job[r].ref \in Nat
        BY <1>5, <2>0, NotedTyped, PgConstants DEF ReapRequeueHead, Noted, Ref, NoRef
      <4>. QED
        BY <2>0, <4>1 DEF NoRef
    <3>2. /\ Indexed(x) /\ Job[x].ref = 2 /\ Job[x].ref <= head[Job[x].pr]
          /\ \A d \in Webhook : Indexed(d) /\ Job[d].ref = 1 /\ SamePull(d, x) => Exists(d)
      BY <2>0, <2>3, <3>1, FollowUp
    <3>. QED
      BY <2>1, <2>3, <3>2, JoinsHeads
  <2>. QED
    BY <1>5, <2>2, <2>3, EnqueueJoins DEF ReapRequeueHead
<1>. QED
  BY <1>2, <1>3, <1>4, <1>5, ReaperPlain, PlainHeads

(* The order of heads holds of every reachable state. *)
LEMMA HeadsNext ==
  ASSUME TwoHeads, HeadsInv, [Next]_vars
  PROVE  HeadsInv'
<1>0. TypeOK'
  BY IngressTyped, WorkerTyped, LeaseTyped, ReaperTyped, MachineTyped, OperatorTyped
     DEF HeadsInv, Next, vars, github, fleet, process, TypeOK
<1>1. ASSUME UNCHANGED vars PROVE HeadsInv'
  BY <1>0, <1>1, PlainHeads, SameRows
     DEF vars, github, fleet, process, Plain, NoNewWork, NoNewNote, NoLostNote
<1>. QED
  BY <1>0, <1>1, IngressHeads, WorkerHeads, ReaperHeads, PlainHeads, LeasePlain, MachinePlain,
     OperatorPlain DEF Next, HeadsInv

LEMMA HeadsInit ==
  ASSUME Init
  PROVE  HeadsInv
<1>1. \A r \in Row : ~Exists(r)
  BY DEF Init, BlankRow, Exists
<1>2. (\A p \in Reaper : snap[p].pc = "none") /\ \A t \in Thread : work[t].pc = "idle"
  BY DEF Init, NoSnap, Idle
<1>3. FirstFirst
  BY <1>1 DEF Init, FirstFirst, HasSecond
<1>. QED
  BY <1>1, <1>2, <1>3, InitTyped DEF HeadsInv, Arrived, NotedHeads, Worked

-----------------------------------------------------------------------------
(* A row that was asked to stop, and a review that was cancelled, made     *)
(* room for a newer head.                                                  *)
Newer(r) == \E x \in Row : SamePull(r, x) /\ Job[x].ref > Job[r].ref /\ Exists(x)

(* Who was asked to stop, who was known to be asked when a reaper read the *)
(* row, and which review was cancelled, made room for a newer row, or is   *)
(* about to.                                                               *)
ReplacedInv ==
  /\ \A r \in Row : row[r].cancel => Newer(r)
  /\ \A p \in Reaper : snap[p].pc = "expired" /\ snap[p].cancel => Newer(snap[p].row)
  /\ \A r \in Row : Job[r].kind = "review" /\ row[r].status = "cancelled" =>
       Newer(r) \/ (\E p \in Reaper : snap[p].pc = "requeue" /\ snap[p].row = r)

(* Rows are not taken out of the table again. *)
LEMMA NewerStays ==
  ASSUME NEW r, Newer(r), \A x \in Row : Exists(x) => Exists(x)'
  PROVE  Newer(r)'
  BY DEF Newer

(* Plain steps ask nobody. *)
LEMMA PlainReplaced ==
  ASSUME StaleHeadsReplaceable, TypeOK, ReplacedInv, Plain
  PROVE  ReplacedInv'
<1>1. \A x \in Row : Exists(x) => Exists(x)'
  BY DEF Plain, NoNewRow
<1>2. "cancel" \notin Env /\ "failover" \notin Env
  BY DEF StaleHeadsReplaceable
<1>3. \A r \in Row : Newer(r) => Newer(r)'
  BY <1>1, NewerStays
<1>4. ASSUME NEW p \in Reaper, snap'[p].pc = "expired", snap'[p].cancel
      PROVE  \E x \in Row : SamePull(snap'[p].row, x) /\ Job[x].ref > Job[snap'[p].row].ref /\ Exists(x)'
  <2>1. snap'[p] = snap[p]
    BY <1>4 DEF Plain, NoNewNote
  <2>. QED
    BY <1>1, <1>4, <2>1 DEF ReplacedInv, Newer
<1>5. ASSUME NEW r \in Row, Job[r].kind = "review", row'[r].status = "cancelled"
      PROVE  Newer(r)' \/ (\E p \in Reaper : snap'[p].pc = "requeue" /\ snap'[p].row = r)
  <2>1. row[r].status = "cancelled"
    BY <1>2, <1>5 DEF Plain, NoNewRow
  <2>. QED
    BY <1>2, <1>3, <1>5, <2>1 DEF ReplacedInv, Plain, NoLostNote
<1>6. \A r \in Row : row'[r].cancel => Newer(r)'
  BY <1>2, <1>3 DEF ReplacedInv, Plain, NoNewRow
<1>. QED
  BY <1>4, <1>5, <1>6 DEF ReplacedInv, Newer

(* A row that joins asks older heads to stop only: a row of the first head *)
(* does not join after one of the second.                                  *)
LEMMA JoinsReplaced ==
  ASSUME StaleHeadsReplaceable, HeadsInv, ReplacedInv, NEW r \in Row, Joins(r),
         r \in Webhook \/ Job[r].ref = 2, NoNewNote, NoLostNote
  PROVE  ReplacedInv'
<1>0. \A x \in Row : /\ Exists(x)' <=> x = r \/ Exists(x)
                     /\ row'[x].cancel /\ ~row[x].cancel => OtherHead(r, x) /\ Exists(x)
                     /\ row'[x].status = "cancelled" => row[x].status = "cancelled"
  BY JoinsOnly DEF HeadsInv
<1>1. \A x \in Row : Exists(x) => Exists(x)'
  BY <1>0
<1>2. "failover" \notin Env
  BY DEF StaleHeadsReplaceable
<1>3. \A x \in Row : Newer(x) => Newer(x)'
  BY <1>1, NewerStays
<1>4. ASSUME NEW p \in Reaper, snap'[p].pc = "expired", snap'[p].cancel
      PROVE  \E x \in Row : SamePull(snap'[p].row, x) /\ Job[x].ref > Job[snap'[p].row].ref /\ Exists(x)'
  <2>1. snap'[p] = snap[p]
    BY <1>4 DEF NoNewNote
  <2>. QED
    BY <1>1, <1>4, <2>1 DEF ReplacedInv, Newer
<1>5. ASSUME NEW x \in Row, Job[x].kind = "review", row'[x].status = "cancelled"
      PROVE  Newer(x)' \/ (\E p \in Reaper : snap'[p].pc = "requeue" /\ snap'[p].row = x)
  BY <1>0, <1>2, <1>3, <1>5 DEF ReplacedInv, NoLostNote
<1>6. ASSUME NEW x \in Row, row'[x].cancel PROVE Newer(x)'
  <2>1. CASE row[x].cancel
    BY <1>3, <2>1 DEF ReplacedInv
  <2>2. CASE ~row[x].cancel
    <3>1. OtherHead(r, x) /\ Exists(x)
      BY <1>0, <1>6, <2>2
    <3>2. /\ Indexed(r) /\ Indexed(x) /\ SamePull(r, x) /\ SamePull(x, r)
          /\ Job[r].ref # Job[x].ref
          /\ Job[r].ref \in {1, 2} /\ Job[x].ref \in {1, 2}
      <4>1. Indexed(r) /\ Indexed(x) /\ SamePull(r, x) /\ SamePull(x, r) /\ Job[r].ref # Job[x].ref
        BY <3>1 DEF OtherHead, Indexed, SamePull
      <4>2. Job[r].ref \in 1..2 /\ Job[x].ref \in 1..2
        BY <4>1, PgConstants DEF StaleHeadsReplaceable, TwoHeads, Ref, Indexed
      <4>. QED
        BY <4>1, <4>2
    <3>3. Job[r].ref = 2
      <4>. SUFFICES ASSUME Job[r].ref = 1 PROVE FALSE
        BY <3>2
      <4>1. HasSecond(r) /\ r \in Webhook
        BY <3>1, <3>2 DEF HasSecond
      <4>. QED
        BY <3>2, <4>1 DEF HeadsInv, FirstFirst, Joins
    <3>. QED
      BY <1>0, <3>2, <3>3 DEF Newer
  <2>. QED
    BY <2>1, <2>2
<1>. QED
  BY <1>4, <1>5, <1>6 DEF ReplacedInv, Newer

(* What a reaper remembers of the row it reads, and after it acted on one. *)
LEMMA NoteTaken ==
  ASSUME TypeOK, NEW p \in Reaper, NEW s \in Row,
         ReadExpired(p, s) \/ ReadDead(p, s) \/ ReadOutage(p, s)
  PROVE  /\ row' = row /\ snap[p].pc = "none"
         /\ \A q \in Reaper \ {p} : snap'[q] = snap[q]
         /\ snap'[p].pc = "expired" /\ snap'[p].cancel => snap'[p].row = s /\ row[s].cancel
         /\ snap'[p].pc \in {"expired", "dead"} \/ ReadOutage(p, s)
<1>1. row' = row /\ snap[p].pc = "none"
  BY DEF ReadExpired, ReadDead, ReadOutage, ReadSnap, NoSnap
<1>2. CASE ReadExpired(p, s)
  <2>. DEFINE n == [NoSnap EXCEPT !.pc = "expired", !.row = s, !.cancel = row[s].cancel,
                                  !.resumes = row[s].resumes]
  <2>1. n.row = s /\ n.cancel = row[s].cancel /\ n.pc = "expired"
    BY DEF NoSnap
  <2>2. snap' = [snap EXCEPT ![p] = n]
    BY <1>2 DEF ReadExpired
  <2>. HIDE DEF n
  <2>. QED
    BY <1>1, <2>1, <2>2 DEF TypeOK
<1>3. CASE ReadDead(p, s) \/ ReadOutage(p, s)
  <2>1. \A pc : [NoSnap EXCEPT !.pc = pc, !.row = s].pc = pc
    BY DEF NoSnap
  <2>2. PICK n : /\ snap' = [snap EXCEPT ![p] = n]
                 /\ n.pc = "dead" \/ (n.pc = "outage" /\ ReadOutage(p, s))
    BY <1>3, <2>1 DEF ReadDead, ReadOutage, ReadSnap
  <2>. QED
    BY <1>1, <2>2 DEF TypeOK
<1>. QED
  BY <1>2, <1>3

LEMMA NoteActedOn ==
  ASSUME TypeOK, NEW p \in Reaper,
         ReapCancelled(p) \/ ReapStaleHead(p) \/ ReapRequeueHead(p)
  PROVE  snap'[p].pc \in {"none", "requeue"} /\ \A q \in Reaper \ {p} : snap'[q] = snap[q]
<1>. DEFINE n == [NoSnap EXCEPT !.pc = "requeue", !.row = snap[p].row,
                                !.to = head[Job[snap[p].row].pr]]
<1>1. n.pc = "requeue" /\ NoSnap.pc = "none"
  BY DEF NoSnap
<1>2. snap' = [snap EXCEPT ![p] = n] \/ snap' = [snap EXCEPT ![p] = NoSnap]
  BY DEF ReapCancelled, ReapStaleHead, ReapRequeueHead, Discard
<1>. HIDE DEF n
<1>. QED
  BY <1>1, <1>2 DEF TypeOK

(* Same rows or one that ends; the reaper remembers something else.        *)
LEMMA NoteReplaced ==
  ASSUME ReplacedInv, NEW p \in Reaper,
         \A r \in Row : /\ Exists(r) => Exists(r)'
                        /\ row'[r].cancel => row[r].cancel \/ Newer(r)'
                        /\ Job[r].kind = "review" /\ row'[r].status = "cancelled" =>
                             \/ row[r].status = "cancelled" \/ Newer(r)'
                             \/ snap'[p].pc = "requeue" /\ snap'[p].row = r,
         \A q \in Reaper \ {p} : snap'[q] = snap[q],
         snap'[p].pc = "expired" /\ snap'[p].cancel => Newer(snap'[p].row),
         snap[p].pc = "requeue" =>
           \/ snap'[p] = snap[p]
           \/ \E y \in Row : SamePull(snap[p].row, y) /\ Job[y].ref > Job[snap[p].row].ref /\ Exists(y)'
  PROVE  ReplacedInv'
<1>1. \A r \in Row : Newer(r) => Newer(r)'
  BY NewerStays
<1>2. ASSUME NEW q \in Reaper, snap'[q].pc = "expired", snap'[q].cancel
      PROVE  \E x \in Row : SamePull(snap'[q].row, x) /\ Job[x].ref > Job[snap'[q].row].ref /\ Exists(x)'
  <2>1. Newer(snap'[q].row)
    <3>1. CASE q = p
      BY <1>2, <3>1
    <3>2. CASE q # p
      <4>1. snap'[q] = snap[q]
        BY <3>2
      <4>. QED
        BY <1>2, <4>1 DEF ReplacedInv
    <3>. QED
      BY <3>1, <3>2
  <2>2. PICK x \in Row : SamePull(snap'[q].row, x) /\ Job[x].ref > Job[snap'[q].row].ref /\ Exists(x)
    BY <2>1 DEF Newer
  <2>3. Exists(x)'
    BY <2>2
  <2>. QED
    BY <2>2, <2>3
<1>3. ASSUME NEW r \in Row, Job[r].kind = "review", row'[r].status = "cancelled"
      PROVE  Newer(r)' \/ (\E q \in Reaper : snap'[q].pc = "requeue" /\ snap'[q].row = r)
  <2>1. CASE row[r].status = "cancelled"
    <3>1. CASE Newer(r)
      BY <1>1, <3>1
    <3>2. ASSUME NEW q \in Reaper, snap[q].pc = "requeue", snap[q].row = r
          PROVE  Newer(r)' \/ (snap'[q].pc = "requeue" /\ snap'[q].row = r)
      <4>1. CASE q = p
        BY <3>2, <4>1 DEF Newer
      <4>2. CASE q # p
        <5>1. snap'[q] = snap[q]
          BY <4>2
        <5>. QED
          BY <3>2, <5>1
      <4>. QED
        BY <4>1, <4>2
    <3>. QED
      BY <1>3, <2>1, <3>1, <3>2 DEF ReplacedInv
  <2>2. CASE row[r].status # "cancelled"
    BY <1>3, <2>2
  <2>. QED
    BY <2>1, <2>2
<1>4. \A r \in Row : row'[r].cancel => Newer(r)'
  BY <1>1 DEF ReplacedInv
<1>. QED
  BY <1>2, <1>3, <1>4 DEF ReplacedInv, Newer

(* What a reaper reads, and what it ends. A cancelled review had been      *)
(* asked to stop, or its replacement is remembered.                        *)
LEMMA ReadReplaced ==
  ASSUME TypeOK, ReplacedInv, NEW p \in Reaper, NEW r \in Row,
         ReadExpired(p, r) \/ ReadDead(p, r) \/ ReadOutage(p, r)
  PROVE  ReplacedInv'
<1>1. /\ row' = row /\ snap[p].pc = "none"
      /\ \A q \in Reaper \ {p} : snap'[q] = snap[q]
      /\ snap'[p].pc = "expired" /\ snap'[p].cancel => snap'[p].row = r /\ row[r].cancel
  BY NoteTaken
<1>2. \A x \in Row : (Exists(x)' <=> Exists(x)) /\ row'[x] = row[x]
  BY <1>1 DEF Exists
<1>3. snap'[p].pc = "expired" /\ snap'[p].cancel => Newer(snap'[p].row)
  BY <1>1 DEF ReplacedInv
<1>. QED
  BY <1>1, <1>2, <1>3, NoteReplaced

LEMMA CancelledReplaced ==
  ASSUME TypeOK, ReplacedInv, NEW p \in Reaper, ReapCancelled(p)
  PROVE  ReplacedInv'
<1>0. PICK r \in Row : /\ r = snap[p].row /\ snap[p].pc = "expired"
                        /\ Newer(r) /\ row[r] \in RowState
  BY NotedTyped DEF ReapCancelled, ReplacedInv, Noted, TypeOK
<1>1. \A x \in Row : /\ Exists(x) => Exists(x)'
                     /\ row'[x].cancel => row[x].cancel
                     /\ row'[x].status = "cancelled" => row[x].status = "cancelled" \/ x = r
  BY <1>0, ReleasedRow DEF ReapCancelled, FinishRow, Exists, TypeOK, Status, Ended
<1>2. Newer(r)'
  BY <1>0, <1>1, NewerStays
<1>3. (\A q \in Reaper \ {p} : snap'[q] = snap[q]) /\ snap'[p].pc # "expired"
  BY DEF ReapCancelled, Discard, TypeOK, NoSnap
<1>. QED
  BY <1>0, <1>1, <1>2, <1>3, NoteReplaced

LEMMA StaleHeadNoted ==
  ASSUME TypeOK, ReplacedInv, NEW p \in Reaper, ReapStaleHead(p)
  PROVE  ReplacedInv'
<1>0. PICK r \in Row : r = snap[p].row /\ snap[p].pc = "expired" /\ row[r] \in RowState
  BY NotedTyped DEF ReapStaleHead, Noted, TypeOK
<1>1. \A x \in Row : /\ Exists(x) => Exists(x)'
                     /\ row'[x].cancel => row[x].cancel
                     /\ row'[x].status = "cancelled" =>
                          row[x].status = "cancelled" \/ (x = r /\ row[r].status = "running")
  BY <1>0, ReleasedRow DEF ReapStaleHead, FinishRow, Exists, TypeOK, Status, Ended
<1>2. /\ \A q \in Reaper \ {p} : snap'[q] = snap[q]
      /\ snap'[p].pc # "expired"
      /\ row[r].status = "running" /\ Job[r].kind = "review"
         => snap'[p].pc = "requeue" /\ snap'[p].row = r
  <2>. DEFINE n == [NoSnap EXCEPT !.pc = "requeue", !.row = r, !.to = head[Job[r].pr]]
  <2>1. n.pc = "requeue" /\ n.row = r
    BY DEF NoSnap
  <2>2. /\ snap' = [snap EXCEPT ![p] = n] \/ snap' = [snap EXCEPT ![p] = NoSnap]
        /\ row[r].status = "running" /\ Job[r].kind = "review" => snap' = [snap EXCEPT ![p] = n]
    BY <1>0 DEF ReapStaleHead, Discard
  <2>3. NoSnap.pc = "none"
    BY DEF NoSnap
  <2>. HIDE DEF n
  <2>. QED
    BY <2>1, <2>2, <2>3 DEF TypeOK
<1>. QED
  BY <1>0, <1>1, <1>2, NoteReplaced

(* The replacement is queued, unless the head has a job already.           *)
LEMMA RequeueReplaced ==
  ASSUME StaleHeadsReplaceable, HeadsInv, ReplacedInv, NEW p \in Reaper, ReapRequeueHead(p)
  PROVE  ReplacedInv'
<1>. TypeOK
  BY DEF HeadsInv
<1>1. PICK r \in Row :
      /\ r = snap[p].row /\ Exists(r) /\ Job[r].kind = "review" /\ Indexed(r) /\ snap[p].pc = "requeue"
      /\ Job[r].ref < snap[p].to /\ snap[p].to <= head[Job[r].pr]
  BY NotedTyped DEF ReapRequeueHead, HeadsInv, NotedHeads, Noted
<1>2. Job[r].ref = 1 /\ snap[p].to = 2 /\ 2 \in Ref
  <2>1. Job[r].pr \in Pull
    BY <1>1, PullOf DEF Indexed
  <2>2. Job[r].ref \in 1..2 /\ head[Job[r].pr] \in 1..2
    BY <1>1, <2>1, PgConstants
       DEF TypeOK, StaleHeadsReplaceable, TwoHeads, Ref, NoRef, Indexed
  <2>3. snap[p].to \in Nat
    BY <1>1, NotedTyped DEF Noted, Ref, NoRef
  <2>. QED
    BY <1>1, <2>2, <2>3 DEF StaleHeadsReplaceable, TwoHeads, Ref
<1>3. PICK x \in Row : x = ReaperRow[<<r, snap[p].to>>]
  BY <1>1, <1>2 DEF StaleHeadsReplaceable
<1>4. Job[x].ref = 2 /\ Job[x].kind = "review" /\ SamePull(r, x) /\ Indexed(x)
  <2>1. Job[x].ref = 2 /\ Job[x].kind = "review" /\ SamePull(r, x)
    BY <1>1, <1>2, <1>3 DEF StaleHeadsReplaceable, TwoHeads
  <2>. QED
    BY <2>1 DEF Indexed, SamePull, Supersedable, NoRef
<1>5. (\A q \in Reaper \ {p} : snap'[q] = snap[q]) /\ snap'[p].pc = "none"
  BY DEF ReapRequeueHead, Discard, TypeOK, NoSnap
<1>6. row' = row \/ Joins(x)
  BY <1>1, <1>3, EnqueueJoins DEF ReapRequeueHead
<1>7. CASE row' = row
  <2>1. \A y \in Row : (Exists(y)' <=> Exists(y)) /\ row'[y] = row[y]
    BY <1>7 DEF Exists
  <2>2. \E y \in Row : SameHead(x, y) /\ Exists(y)
    <3>1. CASE Exists(x)
      BY <1>3, <3>1 DEF SameHead
    <3>2. CASE ~IndexFree(x) \/ Covered(x)
      BY <3>2 DEF IndexFree, Covered, Exists, Live
    <3>3. CASE ~Exists(x) /\ IndexFree(x) /\ ~Covered(x)
      <4>1. row' = InsertedRow(x)
        BY <1>1, <1>3, <3>3 DEF ReapRequeueHead, Enqueue, Exists
      <4>2. row'[x].status = "queued"
        BY <1>3, <4>1 DEF InsertedRow, TypeOK, RowState
      <4>. QED
        BY <1>3, <1>7, <3>3, <4>2 DEF Exists
    <3>. QED
      BY <3>1, <3>2, <3>3
  <2>3. PICK y \in Row : SameHead(x, y) /\ Exists(y)
    BY <2>2
  <2>4. SamePull(r, y) /\ Job[y].ref > Job[r].ref
    BY <1>2, <1>4, <2>3 DEF SamePull, SameHead
  <2>. QED
    BY <1>1, <1>5, <2>1, <2>3, <2>4, NoteReplaced
<1>8. CASE Joins(x)
  <2>1. \A y \in Row : /\ Exists(y)' <=> y = x \/ Exists(y)
                       /\ row'[y].cancel /\ ~row[y].cancel => OtherHead(x, y) /\ Exists(y)
                       /\ row'[y].status = "cancelled" => row[y].status = "cancelled"
    BY <1>3, <1>8, JoinsOnly
  <2>2. ASSUME NEW y \in Row, OtherHead(x, y) PROVE Newer(y)'
    <3>1. Job[y].ref \in 1..2 /\ Job[y].ref # 2 /\ SamePull(y, x)
      BY <1>4, <2>2, PgConstants
         DEF StaleHeadsReplaceable, TwoHeads, Ref, NoRef, OtherHead, SamePull
    <3>. QED
      BY <1>3, <1>4, <2>1, <3>1 DEF Newer
  <2>3. SamePull(r, x) /\ Job[x].ref > Job[r].ref /\ Exists(x)'
    BY <1>2, <1>3, <1>4, <2>1
  <2>. QED
    BY <1>1, <1>3, <1>5, <2>1, <2>2, <2>3, NoteReplaced
<1>. QED
  BY <1>6, <1>7, <1>8

(* Each part of Next keeps it. *)
LEMMA ReaperReplaced ==
  ASSUME StaleHeadsReplaceable, HeadsInv, ReplacedInv, NEW p \in Reaper, ReaperStep(p)
  PROVE  ReplacedInv'
  BY ReaperPlain, PlainReplaced, ReadReplaced, CancelledReplaced, StaleHeadNoted, RequeueReplaced
     DEF HeadsInv

(* The reapers remember the same; no row is asked to stop or cancelled.    *)
LEMMA StaysReplaced ==
  ASSUME ReplacedInv, snap' = snap,
         \A r \in Row : /\ Exists(r) => Exists(r)'
                        /\ row'[r].cancel => row[r].cancel
                        /\ row'[r].status = "cancelled" => row[r].status = "cancelled"
  PROVE  ReplacedInv'
<1>1. \A r \in Row : Newer(r) => Newer(r)'
  BY NewerStays
<1>2. ASSUME NEW p \in Reaper, snap[p].pc = "expired", snap[p].cancel
      PROVE  \E x \in Row : SamePull(snap[p].row, x) /\ Job[x].ref > Job[snap[p].row].ref /\ Exists(x)'
  BY <1>2 DEF ReplacedInv, Newer
<1>3. ASSUME NEW r \in Row, Job[r].kind = "review", row'[r].status = "cancelled"
      PROVE  Newer(r)' \/ (\E p \in Reaper : snap[p].pc = "requeue" /\ snap[p].row = r)
  BY <1>1, <1>3 DEF ReplacedInv
<1>4. \A r \in Row : row'[r].cancel => Newer(r)'
  BY <1>1 DEF ReplacedInv
<1>. QED
  BY <1>2, <1>3, <1>4 DEF ReplacedInv, Newer

LEMMA WorkerReplaced ==
  ASSUME StaleHeadsReplaceable, HeadsInv, ReplacedInv, NEW t \in Thread, WorkerStep(t)
  PROVE  ReplacedInv'
<1>. TypeOK
  BY DEF HeadsInv
<1>0. "cancel" \notin Env
  BY DEF StaleHeadsReplaceable
<1>1. ASSUME NEW r \in Row, Claim(t, r) PROVE ReplacedInv'
  <2>1. row[r] \in RowState /\ row' = [row EXCEPT ![r] = ClaimedRow(row[r], t)]
    BY <1>1 DEF Claim, TypeOK
  <2>2. ClaimedRow(row[r], t).status = "running" /\ ~ClaimedRow(row[r], t).cancel
    BY <2>1 DEF ClaimedRow, RowState
  <2>3. \A x \in Row : /\ Exists(x) => Exists(x)'
                       /\ row'[x].cancel => row[x].cancel
                       /\ row'[x].status = "cancelled" => row[x].status = "cancelled"
    BY <2>1, <2>2 DEF Exists, TypeOK
  <2>. QED
    BY <1>1, <2>3, StaysReplaced DEF Claim
<1>2. ASSUME NEW result \in Result, FinishMoved(t, result) PROVE ReplacedInv'
  <2>1. work[t].row \in Row
    BY <1>2, AttemptTyped DEF FinishMoved, Attempt
  <2>2. NoNewRow
    BY <1>2, <2>1, CompleteRows DEF FinishMoved
  <2>. QED
    BY <1>0, <1>2, <2>2, StaysReplaced DEF FinishMoved, NoNewRow
<1>3. ASSUME RequeueMoved(t) PROVE ReplacedInv'
  <2>1. PICK r \in Row : r = work[t].row /\ work[t].pc = "moved" /\ work[t].target \in Ref
    BY <1>3, AttemptTyped DEF RequeueMoved, HeadsInv, Worked, Attempt
  <2>2. snap' = snap /\ NoNewNote /\ NoLostNote
    BY <1>3 DEF RequeueMoved, NoNewNote, NoLostNote
  <2>3. row' = row \/ \E x \in Row : x = MovedRow[<<r, work[t].target>>] /\ Joins(x)
    BY <1>3, <2>1, EnqueueJoins DEF RequeueMoved
  <2>4. ASSUME row' = row PROVE ReplacedInv'
    BY <2>2, <2>4, StaysReplaced DEF Exists
  <2>5. ASSUME NEW x \in Row, x = MovedRow[<<r, work[t].target>>], Joins(x) PROVE ReplacedInv'
    <3>1. Job[x].ref = 2
      BY <2>1, <2>5 DEF StaleHeadsReplaceable, TwoHeads
    <3>. QED
      BY <2>2, <2>5, <3>1, JoinsReplaced
  <2>. QED
    BY <2>3, <2>4, <2>5
<1>4. ASSUME Begin(t) PROVE ReplacedInv'
  BY <1>4, StaysReplaced DEF Begin, Exists
<1>. QED
  BY <1>1, <1>2, <1>3, <1>4, WorkerPlain, PlainReplaced

LEMMA IngressReplaced ==
  ASSUME StaleHeadsReplaceable, HeadsInv, ReplacedInv, IngressStep
  PROVE  ReplacedInv'
<1>. TypeOK
  BY DEF HeadsInv
<1>1. ASSUME row' = row, snap' = snap PROVE ReplacedInv'
  BY <1>1, StaysReplaced DEF Exists
<1>2. ASSUME NEW p \in Pull, Push(p) PROVE ReplacedInv'
  BY <1>1, <1>2 DEF Push
<1>3. ASSUME NEW d \in Webhook, CheckCiFix(d) PROVE ReplacedInv'
  BY <1>1, <1>3 DEF CheckCiFix
<1>4. ASSUME NEW d \in Webhook, Deliver(d) PROVE ReplacedInv'
  <2>1. d \in Row
    BY PgConstants
  <2>2. snap' = snap /\ NoNewNote /\ NoLostNote
    BY <1>4 DEF Deliver, NoNewNote, NoLostNote
  <2>3. row' = row \/ Joins(d)
    BY <1>4, <2>1, EnqueueJoins DEF Deliver
  <2>. QED
    BY <1>1, <2>1, <2>2, <2>3, JoinsReplaced
<1>. QED
  BY <1>2, <1>3, <1>4, IngressPlain, PlainReplaced

LEMMA ReplacedNext ==
  ASSUME StaleHeadsReplaceable, HeadsInv, ReplacedInv, [Next]_vars
  PROVE  ReplacedInv'
<1>. TypeOK
  BY DEF HeadsInv
<1>1. ASSUME UNCHANGED vars PROVE ReplacedInv'
  BY <1>1, StaysReplaced DEF vars, Exists
<1>. QED
  BY <1>1, IngressReplaced, WorkerReplaced, ReaperReplaced, PlainReplaced,
     LeasePlain, MachinePlain, OperatorPlain DEF Next

LEMMA ReplacedInit ==
  ASSUME Init
  PROVE  ReplacedInv
<1>1. \A r \in Row : ~row[r].cancel /\ row[r].status # "cancelled"
  BY DEF Init, BlankRow
<1>2. \A p \in Reaper : snap[p].pc # "expired"
  BY DEF Init, NoSnap
<1>. QED
  BY <1>1, <1>2 DEF ReplacedInv

(* The invariant says what StaleHeadReplaced asks. *)
LEMMA ReplacedImplies ==
  ASSUME ReplacedInv
  PROVE  StaleHeadReplaced
<1>. SUFFICES ASSUME NEW r \in Row, Job[r].kind = "review", row[r].status = "cancelled",
                     \A p \in Reaper : ~(snap[p].pc = "requeue" /\ snap[p].row = r)
              PROVE  \E x \in Row : SamePull(r, x) /\ Job[x].ref > Job[r].ref /\ row[x].status # "none"
  BY DEF StaleHeadReplaced
<1>. QED
  BY DEF ReplacedInv, Newer, Exists

(* A review that the reaper ends because its head moved is replaced by a   *)
(* row of a newer head before the reaper is done with it, whatever the     *)
(* workers, the ingress, crashes, stalls and restarts do between the end   *)
(* and the replacement.                                                    *)
THEOREM ReplacesStaleHeads ==
  ASSUME StaleHeadsReplaceable
  PROVE  Spec => []StaleHeadReplaced
<1>1. Init => HeadsInv /\ ReplacedInv
  BY HeadsInit, ReplacedInit
<1>2. HeadsInv /\ ReplacedInv /\ [Next]_vars => (HeadsInv /\ ReplacedInv)'
  BY HeadsNext, ReplacedNext DEF StaleHeadsReplaceable
<1>3. HeadsInv /\ ReplacedInv => StaleHeadReplaced
  BY ReplacedImplies
<1>. QED
  BY <1>1, <1>2, <1>3, PTL DEF Spec

-----------------------------------------------------------------------------
(* The newest head is on its way: a review of the head that GitHub has     *)
(* waits, runs undisturbed and on that head, was posted, or failed in      *)
(* sight.                                                                  *)
At(t, r) == work[t].pc = "run" /\ work[t].row = r

(* Has the row: works on it, or has claimed it and is about to begin. *)
On(t, r) == work[t].pc \in {"claimed", "run"} /\ work[t].row = r

(* The row ended in a failure that is shown: what is left of its attempts  *)
(* does not matter any more.                                               *)
Over(r) == row[r].status \in {"failed", "dead"}

(* Whoever works on the row runs it, on its own head, and keeps it; nobody *)
(* else keeps it or settles it.  Whoever has just claimed it runs it, and  *)
(* nobody keeps it yet.                                                    *)
Tended(r) ==
  /\ \A t \in Thread : At(t, r) =>
       /\ Runs(t, r) /\ ~row[r].lapsed
       /\ ~work[t].cancelled /\ ~work[t].finalized /\ work[t].target = Job[r].ref
       /\ \E l \in keeper : l.row = r /\ l.thread = t
  /\ \A t \in Thread : Starts(t, r) =>
       /\ Runs(t, r) /\ ~row[r].lapsed
       /\ ~work[t].cancelled /\ ~work[t].finalized
       /\ \A l \in keeper : l.row # r
  /\ \A l \in keeper : l.row = r => l \in held /\ At(l.thread, r)
  /\ \A l \in settling : l.row # r

(* No reaper takes the row for one that was asked to stop. *)
Unasked(r) ==
  \A p \in Reaper : snap[p].pc = "expired" /\ snap[p].row = r => ~snap[p].cancel

(* A row that nothing takes away: nobody asks it to stop, it does not end  *)
(* but in a review of its head or in a failure that is shown.              *)
OnTrack(r) ==
  /\ ~row[r].cancel
  /\ row[r].status \in {"none", "queued", "running", "done", "failed", "dead"}
  /\ row[r].status = "done" => <<Job[r].pr, Job[r].ref>> \in reviewed
  /\ ~Over(r) => Tended(r)
  /\ Unasked(r)

(* A review of the head that GitHub has, or of one to come. *)
Newest(r) == Job[r].kind = "review" /\ Job[r].pr # None /\ Job[r].ref >= head[Job[r].pr]

(* A machine that is down does nothing; no row comes back after an outage; *)
(* a head that was asked for has a row.                                    *)
DownIdle == \A t \in Thread : machine[MachineOf[t]] = "down" => work[t].pc = "idle"
NoRevival == \A p \in Reaper : snap[p].pc \notin {"outage", "retry"}
Reviewable == \A d \in delivered : Job[d].kind = "review" /\ Indexed(d) =>
                \E x \in Row : SameHead(d, x) /\ Exists(x)

(* The three, and every review of the newest head is on track. *)
CoverInv == /\ HeadsInv /\ DownIdle /\ NoRevival /\ Reviewable
            /\ \A r \in Row : Newest(r) => OnTrack(r)

(* The step leaves the row, the attempts at it and its leases as they are. *)
Untouched(r) ==
  /\ row'[r].cancel = row[r].cancel /\ row'[r].status = row[r].status
  /\ row'[r].owner = row[r].owner /\ (row'[r].lapsed => row[r].lapsed)
  /\ \A t \in Thread : work'[t] = work[t] \/ (~On(t, r) /\ ~On(t, r)')
  /\ \A l \in Lease : l.row = r =>
       /\ l \in keeper' <=> l \in keeper
       /\ l \in held' <=> l \in held
       /\ l \in settling' => l \in settling

(* Nobody works on the row, keeps it or settles it. *)
Unattended(r) ==
  /\ \A t \in Thread : ~On(t, r)
  /\ \A l \in keeper \cup settling : l.row # r

(* A review of the newest head that is in the table is of the head GitHub  *)
(* has: the reaper does not take it for stale.                             *)
LEMMA NewestNow ==
  ASSUME TypeOK, Arrived, NEW r \in Row, Newest(r), Exists(r)
  PROVE  Indexed(r) /\ Job[r].ref = head[Job[r].pr] /\ ~HeadMoved(r)
<1>1. Job[r].pr \in Pull /\ Job[r].ref \in Ref \cup {NoRef}
  BY PullOf, PgConstants DEF Newest
<1>2. head[Job[r].pr] \in Ref /\ MaxRef \in Nat
  BY <1>1, PgConstants DEF TypeOK
<1>3. Indexed(r)
  BY <1>1, <1>2 DEF Newest, Indexed, Supersedable, Ref, NoRef
<1>4. Job[r].ref <= head[Job[r].pr]
  BY <1>3 DEF Arrived
<1>. QED
  BY <1>1, <1>2, <1>3, <1>4 DEF Newest, HeadMoved, Ref, NoRef

(* What leaves a row alone, what leaves nobody at it, and what ends it in  *)
(* sight keep it on track.                                                 *)
LEMMA TendedUntouched ==
  ASSUME TypeOK, TypeOK', NEW r \in Row, Tended(r), Untouched(r)
  PROVE  Tended(r)'
<1>1. ASSUME NEW t \in Thread, work'[t].pc = "run", work'[t].row = r
      PROVE  /\ row'[r].status = "running" /\ row'[r].owner = t /\ ~row'[r].lapsed
             /\ ~work'[t].cancelled /\ ~work'[t].finalized /\ work'[t].target = Job[r].ref
             /\ \E l \in keeper' : l.row = r /\ l.thread = t
  <2>1. work'[t] = work[t]
    BY <1>1 DEF Untouched, On
  <2>2. At(t, r)
    BY <1>1, <2>1 DEF At
  <2>3. PICK l \in keeper : l.row = r /\ l.thread = t
    BY <2>2 DEF Tended
  <2>4. l \in keeper'
    BY <2>3 DEF Untouched, TypeOK
  <2>. QED
    BY <2>1, <2>2, <2>3, <2>4 DEF Tended, Untouched, Runs
<1>2. ASSUME NEW l \in keeper', l.row = r
      PROVE  l \in held' /\ work'[l.thread].pc = "run" /\ work'[l.thread].row = r
  <2>1. l \in Lease /\ l.thread \in Thread
    BY DEF TypeOK, Lease
  <2>2. l \in keeper
    BY <1>2, <2>1 DEF Untouched
  <2>3. l \in held /\ At(l.thread, r)
    BY <1>2, <2>2 DEF Tended
  <2>. QED
    BY <1>2, <2>1, <2>3 DEF Untouched, At, On
<1>3. ASSUME NEW l \in settling', l.row = r PROVE FALSE
  <2>1. l \in settling
    BY <1>3 DEF Untouched, TypeOK
  <2>. QED
    BY <1>3, <2>1 DEF Tended
<1>4. ASSUME NEW t \in Thread, Starts(t, r)'
      PROVE  /\ row'[r].status = "running" /\ row'[r].owner = t /\ ~row'[r].lapsed
             /\ ~work'[t].cancelled /\ ~work'[t].finalized
             /\ \A l \in keeper' : l.row # r
  <2>1. work'[t] = work[t]
    BY <1>4 DEF Untouched, On, Starts
  <2>2. Starts(t, r)
    BY <1>4, <2>1 DEF Starts
  <2>3. \A l \in keeper : l.row # r
    BY <2>2 DEF Tended
  <2>4. \A l \in keeper' : l.row # r
    BY <2>3 DEF Untouched, TypeOK
  <2>. QED
    BY <2>1, <2>2, <2>4 DEF Tended, Untouched, Runs
<1>. QED
  BY <1>1, <1>2, <1>3, <1>4 DEF Tended, At, Runs

LEMMA TrackUntouched ==
  ASSUME TypeOK, TypeOK', NEW r \in Row, OnTrack(r), Untouched(r),
         reviewed \subseteq reviewed', Unasked(r)'
  PROVE  OnTrack(r)'
<1>1. ~Over(r)' => Tended(r)'
  BY TendedUntouched DEF OnTrack, Over, Untouched
<1>. QED
  BY <1>1 DEF OnTrack, Untouched

LEMMA TrackUnattended ==
  ASSUME NEW r \in Row, OnTrack(r), Unattended(r)', Unasked(r)', ~row'[r].cancel,
         row'[r].status \in {"none", "queued", "running", "done", "failed", "dead"},
         row'[r].status = "done" => <<Job[r].pr, Job[r].ref>> \in reviewed'
  PROVE  OnTrack(r)'
<1>1. Tended(r)'
  BY DEF Unattended, Tended, At, Starts, On
<1>. QED
  BY <1>1 DEF OnTrack

LEMMA TrackOver ==
  ASSUME NEW r \in Row, OnTrack(r), Unasked(r)', ~row'[r].cancel,
         row'[r].status \in {"failed", "dead"}
  PROVE  OnTrack(r)'
  BY DEF OnTrack, Over

(* Without an attempt there is no lease and nothing to settle. *)
LEMMA NobodyTends ==
  ASSUME NEW r, Tended(r), \A t \in Thread : ~On(t, r), TypeOK
  PROVE  Unattended(r)
  BY DEF Tended, Unattended, TypeOK, Lease, At, On

LEMMA UnaskedKept ==
  ASSUME NEW r, Unasked(r), NoNewNote
  PROVE  Unasked(r)'
  BY DEF Unasked, NoNewNote

(* What is the same for every row. *)
LEMMA ReviewableKept ==
  ASSUME Reviewable, delivered' = delivered, \A r \in Row : Exists(r) => Exists(r)'
  PROVE  Reviewable'
  BY DEF Reviewable

LEMMA NewestBefore ==
  ASSUME TypeOK, TypeOK', NEW r \in Row, Newest(r)', \A p \in Pull : head[p] <= head'[p]
  PROVE  Newest(r)
<1>1. Job[r].pr \in Pull /\ Job[r].ref \in Nat
  BY PullOf, PgConstants DEF Newest, Ref, NoRef
<1>. QED
  BY <1>1, HeadsTyped DEF Newest

(* At most one attempt at it: its owner's.  Its leases are that attempt's. *)
LEMMA TendedByOwner ==
  ASSUME TypeOK, NEW r \in Row, Tended(r), ~row[r].cancel, NEW t \in Thread, At(t, r)
  PROVE  /\ \A w \in Thread : On(w, r) => w = t
         /\ \A l \in keeper : l.row = r => l \in HeldFor(MachineOf[t], r)
         /\ Kept(r) /\ row[r].status = "running"
<1>1. \A w \in Thread : On(w, r) => w = t
  BY DEF Tended, Runs, On, At, Starts
<1>2. \A l \in keeper : l.row = r => l \in held /\ l.thread = t
  BY <1>1 DEF Tended, TypeOK, Lease, At, On
<1>3. PICK l \in keeper : l.row = r /\ l.thread = t
  BY DEF Tended
<1>4. Runs(t, r)
  BY DEF Tended
<1>. QED
  BY <1>1, <1>2, <1>3, <1>4 DEF HeldFor, Kept, Renewable, Runs

(* A lease that is kept is still good. *)
LEMMA TendedRenewable ==
  ASSUME TypeOK, NEW r \in Row, Tended(r), ~row[r].cancel, NEW l \in keeper, l.row = r
  PROVE  Renewable(l)
<1>1. At(l.thread, r) /\ l.thread \in Thread
  BY DEF Tended, TypeOK, Lease
<1>. QED
  BY <1>1 DEF Tended, Runs, Renewable

(* The attempt at a row that is not over was neither stopped nor overtaken. *)
LEMMA TrackedAttempt ==
  ASSUME CoverInv, NEW t \in Thread, work[t].pc = "run", NEW r \in Row, work[t].row = r,
         Newest(r), ~Over(r)
  PROVE  /\ OnTrack(r) /\ Tended(r) /\ At(t, r) /\ Runs(t, r)
         /\ ~work[t].cancelled /\ ~work[t].finalized /\ work[t].target = Job[r].ref
         /\ ~HeadMovedUnder(t)
<1>1. OnTrack(r) /\ Tended(r) /\ At(t, r)
  BY DEF CoverInv, OnTrack, At
<1>2. Exists(r)
  BY DEF CoverInv, HeadsInv, Worked
<1>3. Job[r].ref = head[Job[r].pr]
  BY <1>2, NewestNow DEF CoverInv, HeadsInv
<1>. QED
  BY <1>1, <1>3 DEF Tended, HeadMovedUnder

(* Another attempt leaves, and its process gives up that attempt's lease.  *)
LEMMA LeaveUntouched ==
  ASSUME TypeOK, NEW t \in Thread, NEW s \in Row, NEW r \in Row \ {s},
         work[t].row = s \/ work[t].pc \notin {"claimed", "run"},
         work'[t].row = s \/ work'[t].pc \notin {"claimed", "run"},
         \A w \in Thread \ {t} : work'[w] = work[w],
         \A x \in Row \ {s} : row'[x] = row[x],
         \A l \in Lease : l.row # s =>
           /\ l \in keeper' <=> l \in keeper
           /\ l \in held' <=> l \in held
           /\ l \in settling' => l \in settling
  PROVE  Untouched(r)
  BY DEF Untouched, On

(* A completion writes its own row and drops its own leases. *)
LEMMA CompleteOthers ==
  ASSUME TypeOK, NEW m, NEW s \in Row,
         (\E result \in Result : Complete(m, s, result)) \/ FailComplete(m, s)
  PROVE  /\ \A x \in Row \ {s} : row'[x] = row[x]
         /\ row[s].status # "running" => row' = row
         /\ \A l \in Lease : l.row # s =>
              /\ l \in keeper' <=> l \in keeper
              /\ l \in held' <=> l \in held
         /\ keeper' = keeper \ HeldFor(m, s)
<1>1. /\ \A x \in Row \ {s} : row'[x] = row[x]
      /\ row[s].status # "running" => row' = row
  BY DEF Complete, FailComplete, Ours, TypeOK
<1>2. DropLease(m, s)
  BY DEF Complete, FailComplete
<1>. QED
  BY <1>1, <1>2 DEF DropLease, HeldFor

LEMMA CompleteRow ==
  ASSUME TypeOK, NEW m, NEW s \in Row, NEW result \in Result, Complete(m, s, result)
  PROVE  /\ row'[s].cancel = row[s].cancel
         /\ \/ row'[s].status = row[s].status
            \/ row'[s].status \in {"failed", "queued", "dead"}
            \/ result = "done" /\ row'[s].status = "done"
<1>1. row[s] \in RowState
  BY DEF TypeOK
<1>2. \/ Outcome(s, result) \in {"failed", "queued", "dead"}
      \/ result = "done" /\ Outcome(s, result) = "done"
  BY DEF Outcome, Result
<1>3. Outcome(s, result) \in Status \ {"none"}
  BY <1>2 DEF Status, Live, Ended
<1>. QED
  BY <1>1, <1>2, <1>3, ReleasedRow DEF Complete, TypeOK

(* The attempt at the row ends by itself: completed, or not written. *)
LEMMA EndsOnTrack ==
  ASSUME CoverInv, TypeOK', NEW t \in Thread, NEW result \in Result,
         FinishJob(t, result) \/ FinishUnwritten(t, result),
         NEW r \in Row, Newest(r), Unasked(r)'
  PROVE  OnTrack(r)'
<1>. TypeOK
  BY DEF CoverInv, HeadsInv
<1>1. PICK s \in Row : s = work[t].row /\ work[t].pc = "run"
  BY AttemptTyped DEF FinishJob, FinishUnwritten, Attempt
<1>2. Complete(MachineOf[t], s, result) \/ FailComplete(MachineOf[t], s)
  BY <1>1 DEF FinishJob, FinishUnwritten
<1>3. work'[t] = Idle /\ (\A w \in Thread \ {t} : work'[w] = work[w]) /\ Idle.pc = "idle"
  BY LeaveWork DEF FinishJob, FinishUnwritten, Idle
<1>4. settling' = settling /\ reviewed \subseteq reviewed'
  BY DEF FinishJob, FinishUnwritten, Post
<1>5. OnTrack(r)
  BY DEF CoverInv
<1>6. CASE r # s
  <2>1. /\ \A x \in Row \ {s} : row'[x] = row[x]
        /\ \A l \in Lease : l.row # s =>
             /\ l \in keeper' <=> l \in keeper
             /\ l \in held' <=> l \in held
             /\ l \in settling' => l \in settling
    BY <1>2, <1>4, CompleteOthers
  <2>2. Untouched(r)
    BY <1>1, <1>3, <1>6, <2>1, LeaveUntouched
  <2>. QED
    BY <1>4, <1>5, <2>2, TrackUntouched
<1>7. CASE r = s /\ Over(r)
  BY <1>2, <1>5, <1>7, CompleteOthers, TrackOver DEF Over, OnTrack
<1>8. CASE r = s /\ ~Over(r)
  <2>1. Tended(r) /\ At(t, r) /\ Runs(t, r) /\ work[t].target = Job[r].ref /\ ~row[r].cancel
    BY <1>1, <1>8, TrackedAttempt DEF OnTrack
  <2>2. /\ \A w \in Thread : On(w, r) => w = t
        /\ \A l \in keeper : l.row = r => l \in HeldFor(MachineOf[t], r)
        /\ row[r].status = "running"
    BY <2>1, TendedByOwner
  <2>3. Unattended(r)'
    <3>1. \A w \in Thread : ~(work'[w].pc \in {"claimed", "run"} /\ work'[w].row = r)
      BY <1>3, <2>2 DEF On
    <3>2. \A l \in keeper' : l.row # r
      <4>1. keeper' = keeper \ HeldFor(MachineOf[t], s)
        BY <1>2, CompleteOthers
      <4>. QED
        BY <1>8, <2>2, <4>1
    <3>3. \A l \in settling' : l.row # r
      BY <1>4, <2>1 DEF Tended
    <3>. QED
      BY <3>1, <3>2, <3>3 DEF Unattended, On
  <2>4. CASE Complete(MachineOf[t], s, result) /\ FinishJob(t, result)
    <3>1. /\ row'[s].cancel = row[s].cancel
          /\ \/ row'[s].status = row[s].status
             \/ row'[s].status \in {"failed", "queued", "dead"}
             \/ result = "done" /\ row'[s].status = "done"
      BY <2>4, CompleteRow
    <3>2. result = "done" => <<Job[r].pr, Job[r].ref>> \in reviewed'
      BY <1>1, <1>8, <2>1, <2>4 DEF FinishJob, Post, Newest
    <3>. QED
      BY <1>5, <1>8, <2>1, <2>2, <2>3, <3>1, <3>2, TrackUnattended
  <2>5. CASE FinishUnwritten(t, result)
    <3>1. row' = row
      BY <2>5 DEF FinishUnwritten, FailComplete
    <3>. QED
      BY <1>5, <2>1, <2>2, <2>3, <3>1, TrackUnattended
  <2>. QED
    BY <1>1, <2>4, <2>5 DEF FinishJob
<1>. QED
  BY <1>6, <1>7, <1>8

(* What only an attempt that was stopped or overtaken does. *)
LEMMA StoppedOnTrack ==
  ASSUME CoverInv, TypeOK', NEW t \in Thread,
         \/ FinishCancelled(t) \/ FinishSettled(t) \/ Settle(t)
         \/ \E result \in Result : FinishMoved(t, result),
         NEW r \in Row, Newest(r), Unasked(r)'
  PROVE  OnTrack(r)'
<1>. TypeOK
  BY DEF CoverInv, HeadsInv
<1>1. PICK s \in Row : s = work[t].row /\ work[t].pc = "run"
  BY AttemptTyped DEF FinishCancelled, FinishSettled, Settle, FinishMoved, Attempt
<1>2. work[t].cancelled \/ work[t].finalized \/ HeadMovedUnder(t)
  BY DEF FinishCancelled, FinishSettled, Settle, FinishMoved
<1>3. OnTrack(r)
  BY DEF CoverInv
<1>4. r = s => Over(r)
  BY <1>1, <1>2, TrackedAttempt
<1>5. \/ \E result \in Result : Complete(MachineOf[t], s, result)
      \/ FailComplete(MachineOf[t], s)
      \/ UNCHANGED <<row, held, keeper>>
  BY <1>1 DEF FinishCancelled, FinishSettled, Settle, FinishMoved, Result
<1>6. /\ \A x \in Row \ {s} : row'[x] = row[x]
      /\ row[s].status # "running" => row' = row
      /\ \A l \in Lease : l.row # s =>
           /\ l \in keeper' <=> l \in keeper
           /\ l \in held' <=> l \in held
  BY <1>5, CompleteOthers
<1>7. /\ \A w \in Thread \ {t} : work'[w] = work[w]
      /\ work'[t].row = s \/ work'[t].pc \notin {"claimed", "run"}
  <2>1. CASE FinishCancelled(t) \/ FinishSettled(t)
    BY <2>1, LeaveWork DEF FinishCancelled, FinishSettled, Idle
  <2>2. CASE Settle(t)
    <3>1. work[t] \in Attempt
      BY <1>1, AttemptTyped
    <3>. QED
      BY <1>1, <2>2, <3>1 DEF Settle, TypeOK, Attempt
  <2>3. CASE \E result \in Result : FinishMoved(t, result)
    BY <1>1, <2>3 DEF FinishMoved, TypeOK, Idle
  <2>. QED
    BY <2>1, <2>2, <2>3
<1>8. \A l \in Lease : l.row # s => (l \in settling' => l \in settling)
  BY <1>1 DEF FinishCancelled, FinishSettled, Settle, FinishMoved, LeaseOf
<1>9. reviewed \subseteq reviewed'
  BY DEF FinishCancelled, FinishSettled, Settle, FinishMoved, Post, github
<1>10. CASE r # s
  <2>1. Untouched(r)
    BY <1>1, <1>6, <1>7, <1>8, <1>10, LeaveUntouched
  <2>. QED
    BY <1>3, <1>9, <2>1, TrackUntouched
<1>11. CASE r = s
  BY <1>3, <1>4, <1>6, <1>11, TrackOver DEF Over, OnTrack
<1>. QED
  BY <1>10, <1>11

(* A row that joins leaves the newest head alone. *)
LEMMA JoinsOnTrack ==
  ASSUME TwoHeads, CoverInv, TypeOK', Arrived', NEW x \in Row, Joins(x),
         UNCHANGED <<head, reviewed, held, keeper, settling>>,
         \A t \in Thread : \/ work'[t] = work[t]
                          \/ /\ work[t].pc \notin {"claimed", "run"}
                             /\ work'[t].pc \notin {"claimed", "run"},
         NEW r \in Row, Newest(r), Unasked(r)'
  PROVE  OnTrack(r)'
<1>. TypeOK /\ Arrived /\ OnTrack(r)
  BY DEF CoverInv, HeadsInv
<1>0. row' = InsertedRow(x) /\ row[r] \in RowState
  BY DEF Joins, TypeOK
<1>1. CASE r = x
  <2>1. row[r].status = "none"
    BY <1>1 DEF Joins, Exists
  <2>2. \A t \in Thread : ~On(t, r)
    BY <2>1 DEF CoverInv, HeadsInv, Worked, Exists, On
  <2>3. Unattended(r)
    BY <2>1, <2>2, NobodyTends DEF OnTrack, Over
  <2>4. Unattended(r)'
    BY <2>3 DEF Unattended, On
  <2>5. row'[r].status = "queued" /\ row'[r].cancel = row[r].cancel
    BY <1>0, <1>1 DEF InsertedRow, RowState
  <2>. QED
    BY <2>4, <2>5, TrackUnattended DEF OnTrack
<1>2. CASE r # x
  <2>1. ASSUME OtherHead(x, r), row[r].status \in Live PROVE FALSE
    <3>1. Exists(r)
      BY <2>1 DEF Exists, Live
    <3>2. Job[r].ref = head[Job[r].pr] /\ Indexed(r)
      BY <3>1, NewestNow
    <3>3. Indexed(x) /\ SamePull(x, r) /\ Job[x].ref # Job[r].ref
      BY <2>1 DEF OtherHead, Indexed, SamePull
    <3>4. Job[x].ref \in 1..2 /\ Job[r].ref \in 1..2
      BY <3>2, <3>3, PgConstants DEF TwoHeads, Ref, Indexed
    <3>5. row'[x].status # "none"
      BY JoinsOnly DEF Exists
    <3>6. Job[x].ref <= head[Job[x].pr] /\ (x \in Webhook \/ Job[x].ref = 2)
      BY <3>3, <3>5 DEF Arrived, Exists
    <3>7. Job[x].pr = Job[r].pr
      BY <3>3 DEF SamePull
    <3>8. Job[x].ref = 1 /\ Job[r].ref = 2 /\ x \in Webhook
      BY <3>2, <3>3, <3>4, <3>6, <3>7
    <3>9. HasSecond(x)
      BY <3>1, <3>2, <3>3, <3>8 DEF HasSecond
    <3>. QED
      BY <3>3, <3>8, <3>9 DEF CoverInv, HeadsInv, FirstFirst, Joins
  <2>2. row'[r] = row[r]
    BY <1>0, <1>2, <2>1 DEF InsertedRow, Live
  <2>3. Untouched(r)
    BY <2>2 DEF Untouched, On
  <2>. QED
    BY <2>3, TrackUntouched
<1>. QED
  BY <1>1, <1>2

(* A review of the newest head is claimed when nobody is at it ...         *)
LEMMA ClaimOnTrack ==
  ASSUME CoverInv, TypeOK', NEW t \in Thread, NEW s \in Row, Claim(t, s),
         NEW r \in Row, Newest(r), Unasked(r)'
  PROVE  OnTrack(r)'
<1>. TypeOK /\ OnTrack(r)
  BY DEF CoverInv, HeadsInv
<1>1. /\ row[s] \in RowState /\ row[s].status = "queued"
      /\ work[t].pc \in {"idle", "claiming"}
      /\ row' = [row EXCEPT ![s] = ClaimedRow(row[s], t)]
      /\ UNCHANGED <<reviewed, held, keeper, settling>>
  BY DEF Claim, Runnable, TypeOK, github
<1>2. /\ work'[t].pc = "claimed" /\ work'[t].row = s
      /\ ~work'[t].cancelled /\ ~work'[t].finalized
      /\ \A w \in Thread \ {t} : work'[w] = work[w]
  BY DEF Claim, Idle, TypeOK
<1>3. CASE r # s
  <2>1. row'[r] = row[r]
    BY <1>1, <1>3 DEF TypeOK
  <2>2. Untouched(r)
    BY <1>1, <1>2, <1>3, <2>1 DEF Untouched, On
  <2>. QED
    BY <1>1, <2>2, TrackUntouched
<1>4. CASE r = s
  <2>1. /\ row'[r].status = "running" /\ row'[r].owner = t
        /\ ~row'[r].lapsed /\ ~row'[r].cancel
    BY <1>1, <1>4 DEF ClaimedRow, RowState, TypeOK
  <2>2. Tended(r)
    BY <1>1, <1>4 DEF OnTrack, Over
  <2>3. Unattended(r)
    <3>1. \A w \in Thread : ~On(w, r)
      BY <1>1, <1>4, <2>2 DEF Tended, Runs, On, At, Starts
    <3>. QED
      BY <2>2, <3>1, NobodyTends
  <2>4. /\ \A w \in Thread : ~(work'[w].pc = "run" /\ work'[w].row = r)
        /\ \A w \in Thread : work'[w].pc = "claimed" /\ work'[w].row = r => w = t
    BY <1>2, <2>3 DEF Unattended, On
  <2>5. /\ \A l \in keeper' : l.row # r
        /\ \A l \in settling' : l.row # r
    BY <1>1, <2>3 DEF Unattended
  <2>6. Tended(r)'
    BY <1>2, <2>1, <2>4, <2>5 DEF Tended, At, Starts, Runs
  <2>. QED
    BY <2>1, <2>6 DEF OnTrack
<1>. QED
  BY <1>3, <1>4

(* ... and begins on that head, under a lease. *)
LEMMA BeginOnTrack ==
  ASSUME CoverInv, TypeOK', NEW t \in Thread, Begin(t),
         NEW r \in Row, Newest(r), Unasked(r)'
  PROVE  OnTrack(r)'
<1>. TypeOK /\ Arrived /\ OnTrack(r)
  BY DEF CoverInv, HeadsInv
<1>0. work[t].pc = "claimed" /\ work[t] \in Attempt
  BY AttemptTyped DEF Begin
<1>. DEFINE m == MachineOf[t]
            lease == LeaseOf(t)
<1>1. PICK s \in Row : s = work[t].row
  BY <1>0 DEF Attempt
<1>2. /\ held' = (held \ HeldFor(m, s)) \cup {lease} /\ keeper' = keeper \cup {lease}
      /\ UNCHANGED <<row, reviewed, settling>>
  BY <1>1 DEF Begin, github
<1>3. PICK ref \in HeadsRead(s) : work' = [work EXCEPT ![t].pc = "run", ![t].target = ref]
  BY <1>1 DEF Begin
<1>4. /\ work'[t].pc = "run" /\ work'[t].row = s /\ work'[t].target = ref
      /\ work'[t].cancelled = work[t].cancelled /\ work'[t].finalized = work[t].finalized
      /\ \A w \in Thread \ {t} : work'[w] = work[w]
  BY <1>0, <1>1, <1>3 DEF TypeOK, Attempt
<1>5. lease.row = s /\ lease.thread = t
  BY <1>1 DEF LeaseOf
<1>. HIDE DEF lease
<1>6. CASE r # s
  <2>1. Untouched(r)
    BY <1>1, <1>2, <1>4, <1>5, <1>6 DEF Untouched, On, HeldFor
  <2>. QED
    BY <1>2, <2>1, TrackUntouched
<1>7. CASE r = s /\ Over(r)
  BY <1>2, <1>7, TrackOver DEF Over, OnTrack
<1>8. CASE r = s /\ ~Over(r)
  <2>1. Tended(r) /\ Starts(t, r)
    BY <1>0, <1>1, <1>8 DEF OnTrack, Starts
  <2>2. /\ row[r].status = "running" /\ row[r].owner = t /\ ~row[r].lapsed
        /\ ~work[t].cancelled /\ ~work[t].finalized
        /\ \A l \in keeper : l.row # r
    BY <2>1 DEF Tended, Runs
  <2>3. ref = Job[r].ref
    BY <1>8, <2>2, NewestNow DEF HeadsRead, Exists
  <2>4. \A w \in Thread \ {t} : ~On(w, r)
    BY <2>1, <2>2 DEF Tended, Runs, On, At, Starts
  <2>5. \A l \in keeper' : l.row = r => l = lease
    BY <1>2, <2>2
  <2>6. \A w \in Thread \ {t} : ~(work'[w].pc \in {"claimed", "run"} /\ work'[w].row = r)
    BY <1>4, <2>4 DEF On
  <2>7. lease \in keeper' /\ lease \in held'
    BY <1>2
  <2>8. Tended(r)'
    <3>1. ASSUME NEW w \in Thread, work'[w].pc = "run", work'[w].row = r
          PROVE  /\ row'[r].status = "running" /\ row'[r].owner = w /\ ~row'[r].lapsed
                 /\ ~work'[w].cancelled /\ ~work'[w].finalized /\ work'[w].target = Job[r].ref
                 /\ \E l \in keeper' : l.row = r /\ l.thread = w
      <4>1. w = t
        BY <2>6, <3>1
      <4>. QED
        BY <1>2, <1>4, <1>5, <1>8, <2>2, <2>3, <2>7, <4>1
    <3>2. ASSUME NEW l \in keeper', l.row = r
          PROVE  l \in held' /\ work'[l.thread].pc = "run" /\ work'[l.thread].row = r
      BY <1>4, <1>5, <1>8, <2>5, <2>7, <3>2
    <3>3. \A l \in settling' : l.row # r
      BY <1>2, <2>1 DEF Tended
    <3>4. \A w \in Thread : ~(work'[w].pc = "claimed" /\ work'[w].row = r)
      BY <1>4, <2>6
    <3>. QED
      BY <3>1, <3>2, <3>3, <3>4 DEF Tended, At, Starts, Runs
  <2>. QED
    BY <1>2, <2>8 DEF OnTrack
<1>. QED
  BY <1>6, <1>7, <1>8

(* The leases and the deadlines of other rows. *)
LEMMA LeaseOnTrack ==
  ASSUME Env \subseteq {"lookup_error", "db_error", "pause", "drain", "failover"},
         CoverInv, TypeOK', LeaseStep, NEW r \in Row, Newest(r), Unasked(r)'
  PROVE  OnTrack(r)'
<1>. TypeOK /\ OnTrack(r)
  BY DEF CoverInv, HeadsInv
<1>0. reviewed' = reviewed
  BY DEF LeaseStep, Lapse, Heartbeat, LeaseLost, Overdue, Settle, SettleWrite, github
<1>1. ASSUME NEW s \in Row, Lapse(s) PROVE OnTrack(r)'
  <2>1. /\ row' = [row EXCEPT ![s] = [row[s] EXCEPT !.lapsed = TRUE]] /\ row[s] \in RowState
        /\ row[s].status = "running" /\ ~Kept(s) /\ ~Starting(s)
        /\ UNCHANGED <<reviewed, work, held, keeper, settling>>
    BY <1>1 DEF Lapse, process, github, TypeOK
  <2>2. CASE r # s
    <3>1. Untouched(r)
      BY <2>1, <2>2 DEF Untouched, TypeOK
    <3>. QED
      BY <1>0, <3>1, TrackUntouched
  <2>3. CASE r = s
    <3>1. Tended(r) /\ ~row[r].cancel
      BY <2>1, <2>3 DEF OnTrack, Over
    <3>2. Unattended(r)
      <4>1. \A t \in Thread : ~At(t, r)
        BY <2>1, <2>3, <3>1, TendedByOwner
      <4>2. \A t \in Thread : ~Starts(t, r)
        BY <2>1, <2>3, <3>1 DEF Tended, Starting, Starts, Runs
      <4>. QED
        BY <3>1, <4>1, <4>2, NobodyTends DEF At, Starts, On
    <3>3. Unattended(r)'
      BY <2>1, <3>2 DEF Unattended, On
    <3>4. row'[r].status = "running" /\ row'[r].cancel = row[r].cancel
      BY <2>1, <2>3 DEF TypeOK, RowState
    <3>. QED
      BY <3>1, <3>3, <3>4, TrackUnattended
  <2>. QED
    BY <2>2, <2>3
<1>2. ASSUME NEW l \in keeper, Heartbeat(l) PROVE OnTrack(r)'
  <2>1. /\ row' = [row EXCEPT ![l.row] = [row[l.row] EXCEPT !.lapsed = FALSE]]
        /\ l.row \in Row /\ row[l.row] \in RowState
        /\ UNCHANGED <<reviewed, work, held, keeper, settling>>
    BY <1>2 DEF Heartbeat, process, github, TypeOK, Lease
  <2>2. Untouched(r)
    BY <2>1 DEF Untouched, TypeOK, RowState
  <2>. QED
    BY <1>0, <2>2, TrackUntouched
<1>3. ASSUME NEW l \in keeper, LeaseLost(l) PROVE OnTrack(r)'
  <2>1. /\ ~Renewable(l) /\ keeper' = keeper \ {l}
        /\ UNCHANGED <<row, reviewed, held, settling>>
        /\ \A t \in Thread : work'[t] = work[t] \/ work[t].row = l.row
    BY <1>3 DEF LeaseLost, github, Stop
  <2>2. \A t \in Thread : work'[t].row = work[t].row
    <3>. SUFFICES ASSUME NEW t \in Thread, work[t].pc = "run" PROVE work'[t].row = work[t].row
      BY <1>3 DEF LeaseLost, Stop
    <3>1. [work[t] EXCEPT !.cancelled = TRUE].row = work[t].row
      BY AttemptTyped DEF Attempt
    <3>. QED
      BY <1>3, <3>1 DEF LeaseLost, Stop
  <2>3. CASE r # l.row
    <3>1. Untouched(r)
      BY <2>1, <2>2, <2>3 DEF Untouched, On
    <3>. QED
      BY <1>0, <3>1, TrackUntouched
  <2>4. CASE r = l.row
    <3>1. Over(r)
      BY <2>1, <2>4, TendedRenewable DEF OnTrack
    <3>. QED
      BY <2>1, <3>1, TrackOver DEF Over, OnTrack
  <2>. QED
    BY <2>3, <2>4
<1>4. ASSUME NEW t \in Thread, Settle(t) PROVE OnTrack(r)'
  BY <1>4, StoppedOnTrack
<1>5. ASSUME NEW l \in settling, SettleWrite(l) PROVE OnTrack(r)'
  <2>1. PICK s \in Row : s = l.row
    BY DEF TypeOK, Lease
  <2>2. /\ (\E result \in Result : Complete(MachineOf[l.thread], s, result))
           \/ FailComplete(MachineOf[l.thread], s)
        /\ settling' \subseteq settling /\ work' = work
    BY <1>5, <2>1 DEF SettleWrite, Result
  <2>3. /\ \A x \in Row \ {s} : row'[x] = row[x]
        /\ row[s].status # "running" => row' = row
        /\ \A k \in Lease : k.row # s =>
             /\ k \in keeper' <=> k \in keeper
             /\ k \in held' <=> k \in held
    BY <2>2, CompleteOthers
  <2>4. CASE r # s
    <3>1. Untouched(r)
      BY <2>2, <2>3, <2>4 DEF Untouched
    <3>. QED
      BY <1>0, <3>1, TrackUntouched
  <2>5. CASE r = s
    <3>1. Over(r)
      BY <1>5, <2>1, <2>5 DEF OnTrack, Tended
    <3>. QED
      BY <2>3, <2>5, <3>1, TrackOver DEF Over, OnTrack
  <2>. QED
    BY <2>4, <2>5
<1>6. ASSUME NEW t \in Thread, Overdue(t) PROVE FALSE
  BY <1>6 DEF Overdue
<1>. QED
  BY <1>1, <1>2, <1>3, <1>4, <1>5, <1>6 DEF LeaseStep

(* A machine that stops takes its attempts and their leases with it. *)
LEMMA ForgetOnTrack ==
  ASSUME CoverInv, TypeOK', NEW m, Forget(m), UNCHANGED <<row, reviewed>>,
         NEW r \in Row, Newest(r), Unasked(r)'
  PROVE  OnTrack(r)'
<1>. TypeOK /\ OnTrack(r)
  BY DEF CoverInv, HeadsInv
<1>1. CASE Over(r)
  BY <1>1, TrackOver DEF Over, OnTrack
<1>2. CASE ~Over(r)
  <2>0. Tended(r)
    BY <1>2 DEF OnTrack
  <2>1. \A t \in Thread : work'[t].pc \in {"claimed", "run"} =>
                          MachineOf[t] # m /\ work'[t] = work[t]
    BY DEF Forget, Idle
  <2>2. ASSUME NEW t \in Thread, work'[t].pc = "run", work'[t].row = r
        PROVE  /\ Runs(t, r) /\ ~row[r].lapsed
               /\ ~work'[t].cancelled /\ ~work'[t].finalized /\ work'[t].target = Job[r].ref
               /\ \E l \in keeper' : l.row = r /\ l.thread = t
    <3>1. MachineOf[t] # m /\ work'[t] = work[t] /\ At(t, r)
      BY <2>1, <2>2 DEF At
    <3>2. PICK l \in keeper : l.row = r /\ l.thread = t
      BY <2>0, <3>1 DEF Tended
    <3>3. l \in keeper'
      BY <3>1, <3>2 DEF Forget
    <3>. QED
      BY <2>0, <3>1, <3>2, <3>3 DEF Tended
  <2>3. ASSUME NEW l \in keeper', l.row = r
        PROVE  l \in held' /\ work'[l.thread].pc = "run" /\ work'[l.thread].row = r
    <3>1. l \in keeper /\ MachineOf[l.thread] # m /\ l.thread \in Thread
      BY DEF Forget, TypeOK, Lease
    <3>2. l \in held /\ At(l.thread, r)
      BY <2>0, <2>3, <3>1 DEF Tended
    <3>. QED
      BY <3>1, <3>2 DEF Forget, At
  <2>4. \A l \in settling' : l.row # r
    BY <2>0 DEF Forget, Tended
  <2>5. ASSUME NEW t \in Thread, work'[t].pc = "claimed", work'[t].row = r
        PROVE  /\ Runs(t, r) /\ ~row[r].lapsed
               /\ ~work'[t].cancelled /\ ~work'[t].finalized
               /\ \A l \in keeper' : l.row # r
    <3>1. work'[t] = work[t] /\ Starts(t, r)
      BY <2>1, <2>5 DEF Starts
    <3>. QED
      BY <2>0, <3>1 DEF Tended, Forget
  <2>6. Tended(r)'
    BY <2>2, <2>3, <2>4, <2>5 DEF Tended, At, Starts, Runs
  <2>. QED
    BY <2>6 DEF OnTrack
<1>. QED
  BY <1>1, <1>2

(* A boot recovers rows of attempts that are gone. *)
LEMMA MachineOnTrack ==
  ASSUME CoverInv, TypeOK', NEW m \in Machine, MachineStep(m),
         NEW r \in Row, Newest(r), Unasked(r)'
  PROVE  OnTrack(r)'
<1>. TypeOK /\ OnTrack(r)
  BY DEF CoverInv, HeadsInv
<1>1. ASSUME Crash(m) \/ Exit(m) PROVE OnTrack(r)'
  BY <1>1, ForgetOnTrack DEF Crash, Exit, github
<1>2. ASSUME Drain(m) \/ Undrain(m) \/ Drained(m) PROVE OnTrack(r)'
  <2>1. UNCHANGED <<row, reviewed, held, keeper, settling>>
    BY <1>2 DEF Drain, Undrain, Drained, process, github
  <2>2. \A t \in Thread : work'[t] = work[t] \/ (work[t].pc = "idle" /\ work'[t].pc = "claiming")
    BY <1>2 DEF Drain, Undrain, Drained, process, Claiming, Idle
  <2>3. Untouched(r)
    BY <2>1, <2>2 DEF Untouched, On
  <2>. QED
    BY <2>1, <2>3, TrackUntouched
<1>3. ASSUME Boot(m) PROVE OnTrack(r)'
  <2>0. UNCHANGED <<reviewed, work, held, keeper, settling>> /\ machine[m] = "down"
    BY <1>3 DEF Boot, process, github
  <2>1. CASE row[r].status = "running" /\ row[r].owner # None /\ MachineOf[row[r].owner] = m
    <3>1. row'[r] = RecoveredRow(r) /\ row[r] \in RowState
      BY <1>3, <2>1 DEF Boot, TypeOK
    <3>2. row'[r].status \in {"queued", "failed", "dead"} /\ row'[r].cancel = row[r].cancel
      BY <3>1, ReleasedRow DEF RecoveredRow, Status, Ended
    <3>3. Tended(r)
      BY <2>1 DEF OnTrack, Over
    <3>4. \A t \in Thread : ~On(t, r)
      BY <2>0, <2>1, <3>3 DEF Tended, Runs, CoverInv, DownIdle, At, Starts, On
    <3>5. Unattended(r)
      BY <3>3, <3>4, NobodyTends
    <3>6. Unattended(r)'
      BY <2>0, <3>5 DEF Unattended, On
    <3>. QED
      BY <3>2, <3>6, TrackUnattended DEF OnTrack
  <2>2. CASE ~(row[r].status = "running" /\ row[r].owner # None /\ MachineOf[row[r].owner] = m)
    <3>1. row'[r] = row[r]
      BY <1>3, <2>2 DEF Boot
    <3>2. Untouched(r)
      BY <2>0, <3>1 DEF Untouched
    <3>. QED
      BY <2>0, <3>2, TrackUntouched
  <2>. QED
    BY <2>1, <2>2
<1>. QED
  BY <1>1, <1>2, <1>3 DEF MachineStep

(* The reaper ends no attempt at the newest head but one that stopped.     *)
LEMMA ReaperOnTrack ==
  ASSUME TwoHeads, CoverInv, TypeOK', Arrived', NEW p \in Reaper, ReaperStep(p),
         NEW r \in Row, Newest(r), Unasked(r)'
  PROVE  OnTrack(r)'
<1>. TypeOK /\ OnTrack(r)
  BY DEF CoverInv, HeadsInv
<1>0. /\ UNCHANGED <<head, reviewed, work, held, keeper, settling>>
      /\ snap[p].pc # "none" => snap[p].row \in Row /\ row[snap[p].row] \in RowState /\ Exists(snap[p].row)
  <2>1. snap[p].pc # "none" => snap[p].row \in Row /\ row[snap[p].row] \in RowState /\ Exists(snap[p].row)
    BY NotedTyped DEF Noted, TypeOK, CoverInv, HeadsInv, NotedHeads
  <2>2. UNCHANGED <<github, process>>
    BY DEF ReaperStep, ReadExpired, ReadDead, ReadOutage, ReapCancelled, ReapDead, ReapStaleHead,
           ReapRequeueHead, ReapResume, MarkDeadLetter, TellDeadLetter, MarkOutageRetry, MarkPosted,
           OutageRetry, LoseReaper
  <2>. QED
    BY <2>1, <2>2 DEF process, github
<1>1. ASSUME row'[r].status = row[r].status, row'[r].cancel = row[r].cancel,
             row'[r].owner = row[r].owner, row'[r].lapsed = row[r].lapsed
      PROVE  OnTrack(r)'
  <2>1. Untouched(r)
    BY <1>0, <1>1 DEF Untouched
  <2>. QED
    BY <1>0, <2>1, TrackUntouched
<1>2. ASSUME row'[r] = row[r] PROVE OnTrack(r)'
  BY <1>1, <1>2
<1>3. ASSUME NEW s \in Row, ReadExpired(p, s) \/ ReadDead(p, s) \/ ReadOutage(p, s)
      PROVE  OnTrack(r)'
  BY <1>2, <1>3 DEF ReadExpired, ReadDead, ReadOutage
<1>4. ASSUME LoseReaper(p) PROVE OnTrack(r)'
  BY <1>2, <1>4 DEF LoseReaper
<1>5. ASSUME ReapCancelled(p) PROVE OnTrack(r)'
  <2>1. r # snap[p].row
    BY <1>5 DEF ReapCancelled, OnTrack, Unasked
  <2>2. row'[r] = row[r]
    BY <1>5, <2>1 DEF ReapCancelled, FinishRow, TypeOK
  <2>. QED
    BY <1>2, <2>2
<1>6. ASSUME ReapDead(p) PROVE OnTrack(r)'
  <2>1. CASE r = snap[p].row /\ row[r].status = "running"
    <3>1. row[r] \in RowState /\ row'[r] = Released(row[r], "dead")
      BY <1>6, <2>1 DEF ReapDead, FinishRow, TypeOK
    <3>2. row'[r].status = "dead" /\ row'[r].cancel = row[r].cancel
      BY <3>1, ReleasedRow DEF Status, Ended
    <3>. QED
      BY <3>2, TrackOver DEF OnTrack
  <2>2. CASE ~(r = snap[p].row /\ row[r].status = "running")
    <3>1. row'[r] = row[r]
      BY <1>6, <2>2 DEF ReapDead, FinishRow, TypeOK
    <3>. QED
      BY <1>2, <3>1
  <2>. QED
    BY <2>1, <2>2
<1>7. ASSUME ReapStaleHead(p) PROVE OnTrack(r)'
  <2>1. HeadMoved(snap[p].row) /\ snap[p].row \in Row /\ Exists(snap[p].row)
    BY <1>0, <1>7 DEF ReapStaleHead
  <2>2. r # snap[p].row
    BY <2>1, NewestNow DEF CoverInv, HeadsInv
  <2>3. row'[r] = row[r]
    BY <1>7, <2>2 DEF ReapStaleHead, FinishRow, TypeOK
  <2>. QED
    BY <1>2, <2>3
<1>8. ASSUME ReapRequeueHead(p) PROVE OnTrack(r)'
  <2>1. row' = row \/ \E x \in Row : Joins(x)
    BY <1>8, EnqueueJoins DEF ReapRequeueHead
  <2>2. ASSUME NEW x \in Row, Joins(x) PROVE OnTrack(r)'
    BY <1>0, <2>2, JoinsOnTrack
  <2>. QED
    BY <1>2, <2>1, <2>2
<1>9. ASSUME ReapResume(p) PROVE OnTrack(r)'
  <2>1. CASE r = snap[p].row /\ row[r].status = "running" /\ row[r].lapsed
    <3>1. row[r] \in RowState /\ row'[r] = ResumedRow(row[r])
      BY <1>9, <2>1 DEF ReapResume, TypeOK
    <3>2. row'[r].status = "queued" /\ row'[r].cancel = row[r].cancel
      BY <3>1, ReleasedRow DEF Status, Ended
    <3>3. Tended(r)
      BY <2>1 DEF OnTrack, Over
    <3>4. Unattended(r)
      BY <2>1, <3>3, NobodyTends DEF Tended, At, Starts, On
    <3>5. Unattended(r)'
      BY <1>0, <3>4 DEF Unattended, On
    <3>. QED
      BY <3>2, <3>5, TrackUnattended DEF OnTrack
  <2>2. CASE ~(r = snap[p].row /\ row[r].status = "running" /\ row[r].lapsed)
    <3>1. row'[r] = row[r]
      BY <1>9, <2>2 DEF ReapResume, TypeOK
    <3>. QED
      BY <1>2, <3>1
  <2>. QED
    BY <2>1, <2>2
<1>10. ASSUME MarkDeadLetter(p) \/ MarkOutageRetry(p) \/ TellDeadLetter(p) PROVE OnTrack(r)'
  <2>1. \/ row' = row
        \/ \E s \in Row : \E y : row' = [row EXCEPT ![s] = [row[s] EXCEPT !.posted = y]]
        \/ \E s \in Row : \E y : row' = [row EXCEPT ![s] = [row[s] EXCEPT !.told = y]]
    BY <1>0, <1>10 DEF MarkDeadLetter, MarkOutageRetry, MarkPosted, TellDeadLetter
  <2>2. /\ row'[r].status = row[r].status /\ row'[r].cancel = row[r].cancel
        /\ row'[r].owner = row[r].owner /\ row'[r].lapsed = row[r].lapsed
    BY <2>1 DEF TypeOK, RowState
  <2>. QED
    BY <1>1, <2>2
<1>11. ASSUME OutageRetry(p) PROVE FALSE
  BY <1>11 DEF OutageRetry, CoverInv, NoRevival
<1>. QED
  BY <1>3, <1>4, <1>5, <1>6, <1>7, <1>8, <1>9, <1>10, <1>11 DEF ReaperStep

(* A reaper reads that a row was asked to stop only where it was. *)
LEMMA ReaperUnasked ==
  ASSUME TypeOK, NEW p \in Reaper, ReaperStep(p), NEW r \in Row, ~row[r].cancel, Unasked(r)
  PROVE  Unasked(r)'
<1>1. ASSUME NEW s \in Row, ReadExpired(p, s) \/ ReadDead(p, s) \/ ReadOutage(p, s)
      PROVE  Unasked(r)'
  BY <1>1, NoteTaken DEF Unasked
<1>2. ASSUME ReapCancelled(p) \/ ReapStaleHead(p) \/ ReapRequeueHead(p) PROVE Unasked(r)'
  BY <1>2, NoteActedOn DEF Unasked
<1>3. ASSUME Plain PROVE Unasked(r)'
  BY <1>3, UnaskedKept DEF Plain
<1>. QED
  BY <1>1, <1>2, <1>3, ReaperPlain

(* Without an outage nothing is retried. *)
LEMMA ReaperRevives ==
  ASSUME TypeOK, "outage" \notin Env, NoRevival, NEW p \in Reaper, ReaperStep(p)
  PROVE  NoRevival'
<1>1. ASSUME snap'[p].pc \notin {"outage", "retry"}, \A q \in Reaper \ {p} : snap'[q] = snap[q]
      PROVE  NoRevival'
  BY <1>1 DEF NoRevival
<1>2. ASSUME NEW s \in Row, ReadExpired(p, s) \/ ReadDead(p, s) \/ ReadOutage(p, s)
      PROVE  NoRevival'
  BY <1>1, <1>2, NoteTaken DEF ReadOutage
<1>3. ASSUME ReapCancelled(p) \/ ReapStaleHead(p) \/ ReapRequeueHead(p) PROVE NoRevival'
  BY <1>1, <1>3, NoteActedOn
<1>4. ASSUME Discard(p) PROVE NoRevival'
  BY <1>1, <1>4 DEF Discard, TypeOK, NoSnap
<1>5. ASSUME MarkDeadLetter(p) PROVE NoRevival'
  <2>1. CASE snap' = [snap EXCEPT ![p].pc = "tell"]
    <3>1. snap[p] \in Noted
      BY <1>5, NotedTyped DEF MarkDeadLetter, MarkPosted
    <3>2. snap'[p].pc = "tell"
      BY <2>1, <3>1 DEF TypeOK, Noted
    <3>. QED
      BY <1>1, <2>1, <3>2 DEF TypeOK
  <2>. QED
    BY <1>4, <1>5, <2>1 DEF MarkDeadLetter, MarkPosted
<1>6. ASSUME MarkOutageRetry(p) \/ OutageRetry(p) PROVE FALSE
  BY <1>6 DEF MarkOutageRetry, MarkPosted, OutageRetry, NoRevival
<1>. QED
  BY <1>2, <1>3, <1>4, <1>5, <1>6
     DEF ReaperStep, ReapDead, ReapResume, TellDeadLetter, LoseReaper

(* Only machines that run claim, and a machine that goes down takes its    *)
(* attempts along.                                                         *)
LEMMA DownIdleKept ==
  ASSUME DownIdle,
         \A t \in Thread : /\ machine'[MachineOf[t]] = "down" => machine[MachineOf[t]] = "down"
                           /\ work'[t].pc # "idle" => work[t].pc # "idle"
  PROVE  DownIdle'
  BY DEF DownIdle

LEMMA SamePhase ==
  ASSUME TypeOK, (\E threads : Stop(threads)) \/ \E t \in Thread : Settle(t), NEW w \in Thread
  PROVE  work'[w].pc = work[w].pc
<1>1. ASSUME work[w].pc = "run"
      PROVE  /\ [work[w] EXCEPT !.cancelled = TRUE].pc = "run"
             /\ [work[w] EXCEPT !.finalized = TRUE].pc = "run"
  BY <1>1, AttemptTyped DEF Attempt
<1>2. ASSUME NEW t \in Thread, Settle(t) PROVE work'[w].pc = work[w].pc
  BY <1>1, <1>2 DEF Settle, TypeOK
<1>3. ASSUME NEW threads, Stop(threads) PROVE work'[w].pc = work[w].pc
  BY <1>1, <1>3 DEF Stop
<1>. QED
  BY <1>2, <1>3

LEMMA MachineDownIdle ==
  ASSUME TypeOK, DownIdle, NEW m \in Machine, MachineStep(m)
  PROVE  DownIdle'
<1>1. ASSUME Crash(m) \/ Exit(m) PROVE DownIdle'
  <2>1. Forget(m)
    BY <1>1 DEF Crash, Exit
  <2>2. \A t \in Thread : MachineOf[t] \in Machine
    BY PgConstants
  <2>. QED
    BY <2>1, <2>2 DEF Forget, DownIdle, TypeOK, Idle
<1>2. ASSUME Boot(m) \/ Undrain(m) \/ Drained(m) PROVE DownIdle'
  <2>1. work' = work
    BY <1>2 DEF Boot, Undrain, Drained, process
  <2>2. \A k \in Machine : machine'[k] = "down" => machine[k] = "down"
    BY <1>2 DEF Boot, Undrain, Drained, TypeOK
  <2>3. \A t \in Thread : MachineOf[t] \in Machine
    BY PgConstants
  <2>. QED
    BY <2>1, <2>2, <2>3, DownIdleKept
<1>3. ASSUME Drain(m) PROVE DownIdle'
  <2>1. /\ machine[m] = "up" /\ machine' = [machine EXCEPT ![m] = "draining"]
        /\ \A t \in Thread : work'[t] = work[t] \/ MachineOf[t] = m
    BY <1>3 DEF Drain, ThreadsOf
  <2>2. \A t \in Thread : MachineOf[t] \in Machine
    BY PgConstants
  <2>. QED
    BY <2>1, <2>2 DEF DownIdle, TypeOK
<1>. QED
  BY <1>1, <1>2, <1>3 DEF MachineStep

LEMMA WorkerDownIdle ==
  ASSUME TypeOK, DownIdle, NEW t \in Thread, WorkerStep(t)
  PROVE  DownIdle'
<1>1. machine' = machine
  BY DEF WorkerStep, Claim, ClaimNothing, Begin, FinishJob, FinishMoved, FinishUnwritten,
         RequeueMoved, FinishCancelled, FinishSettled, fleet
<1>2. \A w \in Thread \ {t} : work'[w] = work[w]
  BY LeaveWork DEF WorkerStep, Claim, ClaimNothing, Begin, FinishJob, FinishMoved, FinishUnwritten,
         RequeueMoved, FinishCancelled, FinishSettled, TypeOK
<1>3. machine[MachineOf[t]] # "down" \/ work[t].pc # "idle"
  BY DEF WorkerStep, Claim, ClaimNothing, Begin, FinishJob, FinishMoved, FinishUnwritten,
         RequeueMoved, FinishCancelled, FinishSettled
<1>. QED
  BY <1>1, <1>2, <1>3 DEF DownIdle

(* What a step must keep: heads only move on, so what is newest after a    *)
(* step was newest before it.                                              *)
LEMMA CoverStep ==
  ASSUME CoverInv, HeadsInv', DownIdle', NoRevival', Reviewable',
         \A p \in Pull : head[p] <= head'[p],
         \A r \in Row : Newest(r) => OnTrack(r)'
  PROVE  CoverInv'
<1>1. ASSUME NEW r \in Row, Newest(r)' PROVE OnTrack(r)'
  BY <1>1, NewestBefore DEF CoverInv, HeadsInv
<1>. QED
  BY <1>1 DEF CoverInv

(* A step that leaves heads, deliveries, machines and the table's rows.    *)
LEMMA CoverSame ==
  ASSUME CoverInv, HeadsInv', DownIdle', NoRevival', UNCHANGED <<head, delivered>>,
         \A r \in Row : Exists(r) => Exists(r)',
         \A r \in Row : Newest(r) => OnTrack(r)'
  PROVE  CoverInv'
<1>1. Reviewable'
  BY ReviewableKept DEF CoverInv
<1>2. \A p \in Pull : head[p] <= head'[p]
  BY HeadsTyped DEF CoverInv, HeadsInv
<1>. QED
  BY <1>1, <1>2, CoverStep

(* Each part of Next keeps it. *)
LEMMA IngressCover ==
  ASSUME HeadsCoverable, CoverInv, HeadsInv', IngressStep
  PROVE  CoverInv'
<1>. TypeOK /\ TypeOK' /\ Arrived'
  BY DEF CoverInv, HeadsInv
<1>1. UNCHANGED <<reviewed, machine, process, snap>>
  BY DEF IngressStep, Push, CheckCiFix, Deliver, SupersedeRunning, HeadsCoverable, fleet
<1>2. DownIdle' /\ NoRevival'
  BY <1>1 DEF CoverInv, DownIdle, NoRevival, process
<1>3. \A r \in Row : Newest(r) => OnTrack(r) /\ Unasked(r)'
  BY <1>1 DEF CoverInv, OnTrack, Unasked
<1>4. \A r \in Row : row'[r] = row[r] => Untouched(r)
  BY <1>1 DEF Untouched, process
<1>5. \A r \in Row : Newest(r) /\ row'[r] = row[r] => OnTrack(r)'
  BY <1>1, <1>3, <1>4, TrackUntouched
<1>6. ASSUME NEW p \in Pull, Push(p) PROVE CoverInv'
  <2>1. row' = row /\ delivered' = delivered
    BY <1>6 DEF Push
  <2>2. \A q \in Pull : head[q] <= head'[q]
    BY <1>6, HeadsTyped DEF Push, TypeOK
  <2>3. Reviewable'
    BY <2>1, ReviewableKept DEF CoverInv, Exists
  <2>. QED
    BY <1>2, <1>5, <2>1, <2>2, <2>3, CoverStep
<1>7. ASSUME NEW d \in Webhook, CheckCiFix(d) PROVE CoverInv'
  <2>1. row' = row /\ head' = head /\ delivered' \subseteq delivered \cup {d} /\ Job[d].ci
    BY <1>7 DEF CheckCiFix
  <2>2. Job[d].kind # "review"
    <3>1. Job[d].kind = "fix"
      BY <2>1, PgConstants DEF HeadsCoverable, TwoHeads
    <3>. QED
      BY <3>1
  <2>3. Reviewable'
    BY <2>1, <2>2 DEF CoverInv, Reviewable, Exists
  <2>4. \A q \in Pull : head[q] <= head'[q]
    BY <2>1, HeadsTyped
  <2>. QED
    BY <1>2, <1>5, <2>1, <2>3, <2>4, CoverStep
<1>8. ASSUME NEW d \in Webhook, Deliver(d) PROVE CoverInv'
  <2>0. d \in Row
    BY PgConstants
  <2>1. head' = head /\ delivered' = delivered \cup {d}
    BY <1>8 DEF Deliver
  <2>2. row' = row \/ Joins(d)
    BY <1>8, <2>0, EnqueueJoins DEF Deliver
  <2>3. \A x \in Row : Exists(x) => Exists(x)'
    BY <2>0, <2>2, JoinsOnly DEF Exists
  <2>4. ASSUME Indexed(d) PROVE \E x \in Row : SameHead(d, x) /\ Exists(x)'
    <3>1. CASE Exists(d)
      BY <2>0, <2>3, <3>1 DEF SameHead
    <3>2. CASE ~IndexFree(d)
      <4>1. PICK x \in Row : SameHead(d, x) /\ row[x].status \in Live
        BY <3>2 DEF IndexFree
      <4>. QED
        BY <2>3, <4>1 DEF Exists, Live
    <3>3. CASE ~Exists(d) /\ IndexFree(d)
      <4>1. Joins(d)
        BY <1>8, <3>3 DEF Deliver, Enqueue, Exists, Joins
      <4>. QED
        BY <2>0, <4>1, JoinsOnly DEF SameHead
    <3>. QED
      BY <3>1, <3>2, <3>3
  <2>5. Reviewable'
    <3>. SUFFICES ASSUME NEW e \in delivered', Job[e].kind = "review", Indexed(e)
                  PROVE  \E x \in Row : SameHead(e, x) /\ Exists(x)'
      BY DEF Reviewable
    <3>1. CASE e \in delivered
      BY <2>3, <3>1 DEF CoverInv, Reviewable
    <3>2. CASE e = d
      BY <2>4, <3>2
    <3>. QED
      BY <2>1, <3>1, <3>2
  <2>6. \A q \in Pull : head[q] <= head'[q]
    BY <2>1, HeadsTyped
  <2>7. ASSUME NEW r \in Row, Newest(r) PROVE OnTrack(r)'
    <3>1. CASE row' = row
      BY <1>5, <2>7, <3>1
    <3>2. CASE Joins(d)
      BY <1>1, <1>3, <2>0, <2>1, <2>7, <3>2, JoinsOnTrack DEF HeadsCoverable, process
    <3>. QED
      BY <2>2, <3>1, <3>2
  <2>. QED
    BY <1>2, <2>5, <2>6, <2>7, CoverStep
<1>. QED
  BY <1>6, <1>7, <1>8 DEF IngressStep, HeadsCoverable

LEMMA WorkerCover ==
  ASSUME HeadsCoverable, CoverInv, HeadsInv', NEW t \in Thread, WorkerStep(t)
  PROVE  CoverInv'
<1>. TypeOK /\ TypeOK' /\ Arrived'
  BY DEF CoverInv, HeadsInv
<1>1. UNCHANGED <<head, delivered, snap>>
  BY DEF WorkerStep, Claim, ClaimNothing, Begin, FinishJob, FinishMoved, FinishUnwritten,
         RequeueMoved, FinishCancelled, FinishSettled, github
<1>2. DownIdle' /\ NoRevival'
  BY <1>1, WorkerDownIdle DEF CoverInv, NoRevival
<1>3. \A r \in Row : Newest(r) => OnTrack(r) /\ Unasked(r)'
  BY <1>1 DEF CoverInv, OnTrack, Unasked
<1>4. ASSUME RequeueMoved(t)
      PROVE  /\ \A r \in Row : Exists(r) => Exists(r)'
             /\ \A r \in Row : Newest(r) => OnTrack(r)'
  <2>1. row' = row \/ \E x \in Row : Joins(x)
    BY <1>4, EnqueueJoins DEF RequeueMoved
  <2>2. \A x \in Row : Exists(x) => Exists(x)'
    BY <2>1, JoinsOnly DEF Exists
  <2>3. /\ UNCHANGED <<reviewed, held, keeper, settling>>
        /\ \A w \in Thread : \/ work'[w] = work[w]
                             \/ /\ work[w].pc \notin {"claimed", "run"}
                                /\ work'[w].pc \notin {"claimed", "run"}
    BY <1>4, LeaveWork DEF RequeueMoved, github, Idle
  <2>4. ASSUME NEW r \in Row, Newest(r) PROVE OnTrack(r)'
    <3>1. CASE row' = row
      <4>1. Untouched(r)
        BY <2>3, <3>1 DEF Untouched, On
      <4>. QED
        BY <1>3, <2>3, <2>4, <4>1, TrackUntouched
    <3>2. ASSUME NEW x \in Row, Joins(x) PROVE OnTrack(r)'
      BY <1>1, <1>3, <2>3, <2>4, <3>2, JoinsOnTrack DEF HeadsCoverable
    <3>. QED
      BY <2>1, <3>1, <3>2
  <2>. QED
    BY <2>2, <2>4
<1>5. ASSUME ~RequeueMoved(t)
      PROVE  /\ \A r \in Row : Exists(r) => Exists(r)'
             /\ \A r \in Row : Newest(r) => OnTrack(r)'
  <2>1. ASSUME NEW r \in Row, Exists(r) PROVE Exists(r)'
    <3>1. ASSUME NEW s \in Row, Claim(t, s) PROVE Exists(r)'
      BY <2>1, <3>1 DEF Claim, ClaimedRow, Exists, TypeOK, RowState
    <3>2. ASSUME NEW result \in Result, FinishMoved(t, result) PROVE Exists(r)'
      <4>1. work[t].row \in Row
        BY <3>2, AttemptTyped DEF FinishMoved, Attempt
      <4>. QED
        BY <2>1, <3>2, <4>1, CompleteRows DEF FinishMoved, NoNewRow
    <3>3. ASSUME Plain \/ Begin(t) PROVE Exists(r)'
      BY <2>1, <3>3 DEF Plain, NoNewRow, Begin, Exists
    <3>. QED
      BY <1>5, <3>1, <3>2, <3>3, WorkerPlain
  <2>2. ASSUME NEW r \in Row, Newest(r) PROVE OnTrack(r)'
    <3>1. ASSUME ClaimNothing(t) PROVE OnTrack(r)'
      <4>1. Untouched(r) /\ reviewed' = reviewed
        BY <3>1 DEF ClaimNothing, Untouched, On, Idle, TypeOK, github
      <4>. QED
        BY <1>3, <2>2, <4>1, TrackUntouched
    <3>. QED
      BY <1>3, <1>5, <2>2, <3>1, ClaimOnTrack, BeginOnTrack, EndsOnTrack, StoppedOnTrack
         DEF WorkerStep
  <2>. QED
    BY <2>1, <2>2
<1>. QED
  BY <1>1, <1>2, <1>4, <1>5, CoverSame

LEMMA OtherCover ==
  ASSUME HeadsCoverable, CoverInv, HeadsInv',
         LeaseStep \/ OperatorStep \/ \E m \in Machine : MachineStep(m)
  PROVE  CoverInv'
<1>. TypeOK /\ TypeOK'
  BY DEF CoverInv, HeadsInv
<1>1. Plain
  BY LeasePlain, OperatorPlain, MachinePlain
<1>2. snap' = snap
  BY DEF LeaseStep, Lapse, Heartbeat, LeaseLost, Overdue, Settle, SettleWrite, OperatorStep, Cancel,
         RetryNow, SetPaused, MachineStep, Crash, Boot, Drain, Undrain, Drained, Exit
<1>3. NoRevival' /\ \A r \in Row : Newest(r) => OnTrack(r) /\ Unasked(r)'
  BY <1>2 DEF CoverInv, NoRevival, OnTrack, Unasked
<1>4. DownIdle'
  <2>1. CASE LeaseStep \/ OperatorStep
    <3>1. machine' = machine
      BY <2>1 DEF LeaseStep, Lapse, Heartbeat, LeaseLost, Overdue, Settle, SettleWrite,
                  OperatorStep, Cancel, RetryNow, SetPaused, fleet
    <3>2. \A t \in Thread : work'[t].pc = work[t].pc
      BY <2>1, SamePhase DEF LeaseStep, Lapse, Heartbeat, LeaseLost, Overdue, SettleWrite,
                              OperatorStep, Cancel, RetryNow, SetPaused, process
    <3>. QED
      BY <3>1, <3>2, DownIdleKept DEF CoverInv
  <2>. QED
    BY <2>1, MachineDownIdle DEF CoverInv
<1>5. ASSUME NEW r \in Row, Newest(r) PROVE OnTrack(r)'
  <2>1. ASSUME OperatorStep PROVE OnTrack(r)'
    <3>1. UNCHANGED <<row, github, process>>
      BY <2>1 DEF OperatorStep, Cancel, RetryNow, SetPaused, HeadsCoverable
    <3>2. Untouched(r) /\ reviewed' = reviewed
      BY <3>1 DEF Untouched, process, github
    <3>. QED
      BY <1>3, <1>5, <3>2, TrackUntouched
  <2>. QED
    BY <1>3, <1>5, <2>1, LeaseOnTrack, MachineOnTrack DEF HeadsCoverable
<1>. QED
  BY <1>1, <1>3, <1>4, <1>5, CoverSame DEF Plain, NoNewRow

LEMMA ReaperCover ==
  ASSUME HeadsCoverable, CoverInv, HeadsInv', NEW p \in Reaper, ReaperStep(p)
  PROVE  CoverInv'
<1>. TypeOK /\ TypeOK' /\ Arrived'
  BY DEF CoverInv, HeadsInv
<1>1. UNCHANGED <<head, delivered, fleet, work>>
  BY DEF ReaperStep, ReadExpired, ReadDead, ReadOutage, ReapCancelled, ReapDead, ReapStaleHead,
         ReapRequeueHead, ReapResume, MarkDeadLetter, TellDeadLetter, MarkOutageRetry, MarkPosted,
         OutageRetry, LoseReaper, github, process
<1>2. DownIdle' /\ NoRevival'
  BY <1>1, DownIdleKept, ReaperRevives DEF CoverInv, HeadsCoverable, fleet
<1>3. ASSUME NEW r \in Row, Newest(r) PROVE OnTrack(r)'
  <2>1. ~row[r].cancel /\ Unasked(r)
    BY <1>3 DEF CoverInv, OnTrack
  <2>2. Unasked(r)'
    BY <2>1, ReaperUnasked
  <2>. QED
    BY <1>3, <2>2, ReaperOnTrack DEF HeadsCoverable
<1>4. ASSUME NEW r \in Row, Exists(r) PROVE Exists(r)'
  <2>1. ASSUME NEW s \in Row, ReadExpired(p, s) \/ ReadDead(p, s) \/ ReadOutage(p, s)
        PROVE  Exists(r)'
    BY <1>4, <2>1, NoteTaken DEF Exists
  <2>2. ASSUME ReapCancelled(p) \/ ReapStaleHead(p) PROVE Exists(r)'
    <3>1. snap[p].row \in Row /\ row[snap[p].row] \in RowState
      BY <2>2, NotedTyped DEF ReapCancelled, ReapStaleHead, Noted, TypeOK
    <3>. QED
      BY <1>4, <2>2, <3>1, ReleasedRow
         DEF ReapCancelled, ReapStaleHead, FinishRow, Exists, TypeOK, Status, Ended
  <2>3. ASSUME ReapRequeueHead(p) PROVE Exists(r)'
    <3>1. row' = row \/ \E x \in Row : Joins(x)
      BY <2>3, EnqueueJoins DEF ReapRequeueHead
    <3>. QED
      BY <1>4, <3>1, JoinsOnly DEF Exists
  <2>4. ASSUME Plain PROVE Exists(r)'
    BY <1>4, <2>4 DEF Plain, NoNewRow
  <2>. QED
    BY <2>1, <2>2, <2>3, <2>4, ReaperPlain
<1>. QED
  BY <1>1, <1>2, <1>3, <1>4, CoverSame

LEMMA CoverNext ==
  ASSUME HeadsCoverable, CoverInv, HeadsInv', [Next]_vars
  PROVE  CoverInv'
<1>1. ASSUME UNCHANGED vars PROVE CoverInv'
  <2>. USE <1>1
  <2>1. \A r \in Row : Newest(r) => OnTrack(r) /\ Unasked(r)' /\ Untouched(r)
    BY DEF CoverInv, OnTrack, Unasked, vars, process, Untouched
  <2>2. UNCHANGED <<head, delivered, reviewed>> /\ DownIdle' /\ NoRevival'
    BY DEF CoverInv, DownIdle, NoRevival, vars, fleet, process, github
  <2>3. \A r \in Row : Newest(r) => OnTrack(r)'
    BY <2>1, <2>2, TrackUntouched DEF CoverInv, HeadsInv
  <2>. QED
    BY <2>2, <2>3, CoverSame DEF vars, Exists
<1>. QED
  BY <1>1, IngressCover, WorkerCover, OtherCover, ReaperCover DEF Next

LEMMA CoverInit ==
  ASSUME Init
  PROVE  CoverInv
<1>1. HeadsInv
  BY HeadsInit
<1>2. /\ \A t \in Thread : work[t].pc = "idle"
      /\ \A p \in Reaper : snap[p].pc = "none"
      /\ \A r \in Row : row[r].status = "none" /\ ~row[r].cancel
      /\ keeper = {} /\ settling = {} /\ delivered = {}
  BY DEF Init, Idle, NoSnap, BlankRow
<1>3. \A r \in Row : OnTrack(r)
  BY <1>2 DEF OnTrack, Unasked, Tended, At, Starts
<1>. QED
  BY <1>1, <1>2, <1>3 DEF CoverInv, DownIdle, NoRevival, Reviewable

(* When all is quiet and nothing failed in sight, the row of the head that *)
(* was asked for is done, and a done row of the newest head was reviewed.  *)
LEMMA CoverImplies ==
  ASSUME CoverInv
  PROVE  HeadCovered
<1>. SUFFICES ASSUME NEW p \in Pull, Asked(p), Quiet(p), ~Reported(p)
              PROVE  <<p, head[p]>> \in reviewed
  BY DEF HeadCovered
<1>1. PICK d \in delivered : Job[d].kind = "review" /\ Job[d].pr = p /\ Job[d].ref = head[p]
  BY DEF Asked
<1>2. head[p] \in Nat \ {0}
  BY PgConstants DEF CoverInv, HeadsInv, TypeOK, Ref
<1>3. p # None
  BY PgConstants
<1>4. Indexed(d)
  BY <1>1, <1>2, <1>3 DEF Indexed, Supersedable, NoRef
<1>5. PICK x \in Row : SameHead(d, x) /\ Exists(x)
  BY <1>1, <1>4 DEF CoverInv, Reviewable
<1>6. Job[x].kind = "review" /\ Job[x].pr = p /\ Job[x].ref = head[p]
  BY <1>1, <1>5 DEF SameHead
<1>7. OnTrack(x)
  BY <1>2, <1>3, <1>6 DEF CoverInv, Newest
<1>8. row[x].status = "done"
  BY <1>5, <1>6, <1>7 DEF OnTrack, Exists, Quiet, Reported, Live
<1>. QED
  BY <1>6, <1>7, <1>8 DEF OnTrack

(* A head that was asked for is reviewed, or a review of its pull request  *)
(* ends in a visible failure, on every instance with two heads: no         *)
(* interleaving of pushes, supersedes, claims, failed lookups and writes,  *)
(* crashes, restarts, drains and reapers loses it silently.                *)
THEOREM CoversHeads ==
  ASSUME HeadsCoverable
  PROVE  Spec => []HeadCovered
<1>1. Init => HeadsInv /\ CoverInv
  BY HeadsInit, CoverInit
<1>2. HeadsInv /\ CoverInv /\ [Next]_vars => (HeadsInv /\ CoverInv)'
  BY HeadsNext, CoverNext DEF HeadsCoverable
<1>3. HeadsInv /\ CoverInv => HeadCovered
  BY CoverImplies
<1>. QED
  BY <1>1, <1>2, <1>3, PTL DEF Spec
=============================================================================
