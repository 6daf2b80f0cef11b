--------------------------- MODULE CheckRunProofs ---------------------------
(***************************************************************************)
(* Proofs about the Check Runs of a pull request, for any number of heads, *)
(* rows, requests, workers and sweepers, whatever GitHub refuses, wherever *)
(* a process dies or is stopped, and whenever an operator retries; but the *)
(* last theorem names what must not go wrong (Forgiving).                  *)
(***************************************************************************)
EXTENDS CheckRun, SequenceTheorems, TLAPS

(* What TypeOK leaves open: whoever is at work knows a row, its head and   *)
(* how it will complete the run in hand, and that run exists.              *)
RequestsKnow == \A q \in Request : req[q].pc \notin {"none", "over"} => req[q].d \in Delivery
LateIsAsked == \A q \in Request : req[q].late = "asked" => req[q].pc \in {"insert", "adopt"}
AttemptsKnow ==
  \A w \in Worker :
    /\ at[w].pc # "idle" \/ at[w].settle # "none" => at[w].r \in Row
    /\ at[w].pc # "idle" => at[w].head \in 1..Heads
HandKnows(h) == h.pc # "idle" => h.r \in Row /\ h.end \in End \ {"verdict"}

ClockOK ==
  /\ scenario \in Scenarios /\ tip \in 1..Heads
  /\ faults \in 0..scenario.faults /\ operated \in 0..scenario.operator
RunOK == run \in Seq(RunRecord)
RowOK == row \in [Row -> RowRecord] /\ \A r \in Row : row[r].run <= Len(run)
ReqOK ==
  /\ req \in [Request -> ReqRecord] /\ RequestsKnow /\ LateIsAsked
  /\ \A q \in Request : req[q].run <= Len(run)
AtOK ==
  /\ at \in [Worker -> AttemptRecord] /\ AttemptsKnow
  /\ \A w \in Worker : at[w].carried <= Len(run) /\ at[w].own <= Len(run)
HandOK(h) == h \in HandRecord /\ HandKnows(h) /\ h.run <= Len(run)
ReaperOK == HandOK(reaper) /\ reaper.pc # "mark"
SweepOK ==
  /\ sweep \in [Sweeper -> HandRecord]
  /\ \A s \in Sweeper : HandOK(sweep[s]) /\ sweep[s].pc \in {"idle", "close", "mark"}

TypeInv == ClockOK /\ RunOK /\ RowOK /\ ReqOK /\ AtOK /\ ReaperOK /\ SweepOK

LEMMA TypeInvIsStronger == TypeInv => TypeOK
BY DEF TypeInv, ClockOK, RunOK, RowOK, ReqOK, AtOK, HandOK, ReaperOK, SweepOK, TypeOK

-----------------------------------------------------------------------------
(* The sequence of runs grows, or one of them changes its status.          *)
EndsOne == \E i \in Nat, e \in {"open"} \cup End : run' = Ended(i, e)
OpensOne == \E h \in 1..Heads, e \in {"open"} \cup End : run' = Append(run, [head |-> h, status |-> e])
RunStep == run' = run \/ EndsOne \/ OpensOne

Verdict(i) == i \in DOMAIN run /\ run[i].status = "verdict"
NoNewVerdict == \A i : Verdict(i)' => Verdict(i)
NoLostVerdict == \A i : Verdict(i) => Verdict(i)'

LEMMA RunAs ==
  ASSUME NEW x \in RunRecord, NEW e \in {"open"} \cup End
  PROVE  /\ [x EXCEPT !.status = e] \in RunRecord
         /\ [x EXCEPT !.status = e].status = e /\ [x EXCEPT !.status = e].head = x.head
BY DEF RunRecord

LEMMA EndsThat ==
  ASSUME run \in Seq(RunRecord), NEW i \in Nat, NEW e \in {"open"} \cup End, run' = Ended(i, e)
  PROVE  /\ run' \in Seq(RunRecord) /\ Len(run') = Len(run) /\ DOMAIN run' = DOMAIN run
         /\ \A j \in DOMAIN run : run'[j].head = run[j].head
         /\ \A j \in DOMAIN run : run'[j].status = IF j = i THEN e ELSE run[j].status
<1> DEFINE x(j) == [run[j] EXCEPT !.status = e]
<1>1. run' = [run EXCEPT ![i] = x(i)]
  BY DEF Ended
<1>2. \A j \in DOMAIN run : run[j] \in RunRecord
  BY ElementOfSeq
<1>3. \A j \in DOMAIN run : x(j) \in RunRecord /\ x(j).status = e /\ x(j).head = run[j].head
  BY <1>2, RunAs
<1> HIDE DEF x
<1>4. \A j \in DOMAIN run : run'[j] = IF j = i THEN x(i) ELSE run[j]
  BY <1>1
<1>5. DOMAIN run' = DOMAIN run /\ Len(run') = Len(run) /\ run' \in Seq(RunRecord)
  <2>1. DOMAIN run = 1..Len(run) /\ run = [j \in 1..Len(run) |-> run[j]]
    BY LenProperties
  <2>2. CASE i \in 1..Len(run)
    <3> DEFINE y == x(i)
    <3>1. y \in RunRecord /\ run' = [run EXCEPT ![i] = y]
      BY <1>1, <1>3, <2>1, <2>2
    <3> HIDE DEF y
    <3> QED  BY <2>1, <2>2, <3>1, ExceptSeq, LenProperties
  <2>3. CASE i \notin 1..Len(run)
    BY <1>1, <2>1, <2>3
  <2> QED  BY <2>2, <2>3
<1> QED  BY <1>3, <1>4, <1>5

LEMMA RunsGrow ==
  ASSUME run \in Seq(RunRecord), RunStep
  PROVE  /\ run' \in Seq(RunRecord) /\ Len(run') \in Nat /\ Len(run) \in Nat /\ Len(run) <= Len(run')
         /\ \A i \in DOMAIN run : i \in DOMAIN run'
<1>0. Len(run) \in Nat /\ DOMAIN run = 1..Len(run)
  BY LenProperties
<1>1. CASE run' = run
  BY <1>0, <1>1
<1>2. CASE EndsOne
  BY <1>0, <1>2, EndsThat DEF EndsOne
<1>3. CASE OpensOne
  <2>1. PICK x \in RunRecord : run' = Append(run, x)
    BY <1>3 DEF OpensOne, RunRecord
  <2> QED  BY <1>0, <2>1, AppendProperties
<1> QED  BY <1>1, <1>2, <1>3 DEF RunStep

LEMMA EndingIs ==
  ASSUME run \in Seq(RunRecord), NEW i \in Nat, NEW e \in {"open"} \cup End, run' = Ended(i, e)
  PROVE  /\ RunStep
         /\ e # "verdict" => NoNewVerdict
         /\ \A j : Verdict(j) /\ ~Verdict(j)' => j = i /\ e # "verdict"
         /\ \A j : Verdict(j)' /\ ~Verdict(j) => j = i
<1>1. RunStep
  BY DEF RunStep, EndsOne
<1>2. /\ DOMAIN run' = DOMAIN run
      /\ \A j \in DOMAIN run : run'[j].status = IF j = i THEN e ELSE run[j].status
  BY EndsThat
<1> QED  BY <1>1, <1>2 DEF Verdict, NoNewVerdict

LEMMA ClosingIs ==
  ASSUME run \in Seq(RunRecord), NEW i \in Nat, NEW e \in End \ {"verdict"}, run' = EndedIfOpen(i, e)
  PROVE  RunStep /\ NoNewVerdict /\ NoLostVerdict
<1>1. CASE Open(i)
  <2>1. run' = Ended(i, e) /\ ~Verdict(i)
    BY <1>1 DEF EndedIfOpen, Open, Verdict
  <2>2. /\ RunStep /\ NoNewVerdict
        /\ \A j : Verdict(j) /\ ~Verdict(j)' => j = i
    BY <2>1, EndingIs DEF End
  <2> QED  BY <2>1, <2>2 DEF NoLostVerdict, Verdict
<1>2. CASE ~Open(i)
  BY <1>2 DEF EndedIfOpen, RunStep, Verdict, NoNewVerdict, NoLostVerdict
<1> QED  BY <1>1, <1>2

LEMMA AppendedIs ==
  ASSUME run \in Seq(RunRecord), NEW h \in 1..Heads, NEW e \in {"open"} \cup End, e # "verdict",
         run' = Append(run, [head |-> h, status |-> e])
  PROVE  /\ RunStep /\ NoNewVerdict /\ NoLostVerdict
         /\ Len(run) \in Nat /\ Len(run') = Len(run) + 1 /\ DOMAIN run = 1..Len(run)
<1> DEFINE x == [head |-> h, status |-> e]
<1>1. x \in RunRecord /\ x.status = e /\ run' = Append(run, x)
  BY DEF RunRecord
<1> HIDE DEF x
<1>2. Len(run) \in Nat /\ DOMAIN run = 1..Len(run)
  BY LenProperties
<1>3. /\ Len(run') = Len(run) + 1 /\ DOMAIN run' = 1..(Len(run) + 1)
      /\ run'[Len(run) + 1] = x /\ \A i \in 1..Len(run) : run'[i] = run[i]
  BY <1>1, <1>2, AppendProperties, LenProperties
<1>4. RunStep
  BY DEF RunStep, OpensOne
<1> QED  BY <1>1, <1>2, <1>3, <1>4 DEF Verdict, NoNewVerdict, NoLostVerdict

LEMMA OpeningIs ==
  ASSUME run \in Seq(RunRecord), NEW h \in 1..Heads, run' = Opened(h)
  PROVE  /\ RunStep /\ NoNewVerdict /\ NoLostVerdict
         /\ Len(run) \in Nat /\ Len(run') = Len(run) + 1 /\ DOMAIN run = 1..Len(run)
BY AppendedIs DEF Opened

LEMMA SameRuns ==
  ASSUME UNCHANGED run
  PROVE  RunStep /\ NoNewVerdict /\ NoLostVerdict
BY DEF RunStep, Verdict, NoNewVerdict, NoLostVerdict

-----------------------------------------------------------------------------
(* What a step does to a request: the record it becomes.                   *)
ReqAs(q, y) == y \in ReqRecord /\ req' = [req EXCEPT ![q] = y]
Goes(q, y, pc) == ReqAs(q, y) /\ y.pc = pc /\ y.d = req[q].d
IsOver(q, y) == ReqAs(q, y) /\ y.pc = "over" /\ y.run = 0 /\ y.late = "no"

LEMMA ReqBecomes ==
  ASSUME req \in [Request -> ReqRecord], NEW q \in Request, NEW y, ReqAs(q, y)
  PROVE  /\ req' \in [Request -> ReqRecord] /\ req'[q] = y
         /\ \A p \in Request : p # q => req'[p] = req[p]
BY DEF ReqAs

LEMMA ReceiveIs ==
  ASSUME CheckConstants, scenario \in Scenarios, NEW q \in Request, Receive(q)
  PROVE  /\ req[q].pc = "none"
         /\ \E y : /\ ReqAs(q, y) /\ y.pc \in {"create", "insert"} /\ y.d \in Delivery
                   /\ y.run = 0 /\ y.late = "no"
<1> DEFINE pc == IF Fresh(scenario.sends[q]) THEN "create" ELSE "insert"
           d == scenario.sends[q]
           y == [NoReq EXCEPT !.d = d, !.pc = pc]
<1>1. d \in Delivery
  BY DEF Receive, CheckConstants, Scenario
<1>2. pc \in {"create", "insert"}
  OBVIOUS
<1>3. req' = [req EXCEPT ![q] = y] /\ req[q].pc = "none"
  BY DEF Receive
<1> HIDE DEF pc, d
<1>4. y \in ReqRecord /\ y.pc = pc /\ y.d = d /\ y.run = 0 /\ y.late = "no"
  BY <1>1, <1>2 DEF NoReq, ReqRecord, RunId
<1> HIDE DEF y
<1> QED  BY <1>1, <1>2, <1>3, <1>4 DEF ReqAs

LEMMA CreateIs ==
  ASSUME req \in [Request -> ReqRecord], run \in Seq(RunRecord), NEW q \in Request, Create(q)
  PROVE  \E y : Goes(q, y, "insert") /\ y.run = Len(run) + 1 /\ y.late = req[q].late
<1> DEFINE n == Len(run) + 1
           x == req[q]
           y == [x EXCEPT !.pc = "insert", !.run = n]
<1>1. n \in Nat
  BY LenProperties
<1>2. req' = [req EXCEPT ![q] = y]
  BY DEF Create
<1>3. x \in ReqRecord
  OBVIOUS
<1> HIDE DEF n, x
<1>4. y \in ReqRecord /\ y.pc = "insert" /\ y.d = x.d /\ y.run = n /\ y.late = x.late
  BY <1>1, <1>3 DEF ReqRecord, RunId
<1> HIDE DEF y
<1> QED  BY <1>2, <1>4 DEF ReqAs, Goes, n, x

LEMMA CreateLateIs ==
  ASSUME req \in [Request -> ReqRecord], NEW q \in Request, CreateLate(q)
  PROVE  \E y : Goes(q, y, "insert") /\ y.run = req[q].run /\ y.late \in {"no", "asked"}
<1>1. PICK late \in {"no", "asked"} : req' = [req EXCEPT ![q].pc = "insert", ![q].late = late]
  BY DEF CreateLate
<1> DEFINE x == req[q]
           y == [x EXCEPT !.pc = "insert", !.late = late]
<1>2. req' = [req EXCEPT ![q] = y]
  BY <1>1
<1>3. x \in ReqRecord
  OBVIOUS
<1> HIDE DEF x
<1>4. y \in ReqRecord /\ y.pc = "insert" /\ y.d = x.d /\ y.run = x.run /\ y.late = late
  BY <1>3 DEF ReqRecord, RunId
<1> HIDE DEF y
<1> QED  BY <1>2, <1>4 DEF ReqAs, Goes, x

LEMMA LateAnswerIs ==
  ASSUME req \in [Request -> ReqRecord], run \in Seq(RunRecord), NEW q \in Request, LateAnswer(q)
  PROVE  \E y : Goes(q, y, req[q].pc) /\ y.run = Len(run) + 1 /\ y.late = "made"
<1> DEFINE n == Len(run) + 1
           x == req[q]
           y == [x EXCEPT !.late = "made", !.run = n]
<1>1. n \in Nat
  BY LenProperties
<1>2. req' = [req EXCEPT ![q] = y]
  BY DEF LateAnswer
<1>3. x \in ReqRecord
  OBVIOUS
<1> HIDE DEF n, x
<1>4. y \in ReqRecord /\ y.pc = x.pc /\ y.d = x.d /\ y.run = n /\ y.late = "made"
  BY <1>1, <1>3 DEF ReqRecord, RunId
<1> HIDE DEF y
<1> QED  BY <1>2, <1>4 DEF ReqAs, Goes, n, x

LEMMA OverIs ==
  ASSUME NEW q \in Request, req' = [req EXCEPT ![q] = Over]
  PROVE  \E y : IsOver(q, y)
<1>1. Over \in ReqRecord /\ Over.pc = "over" /\ Over.run = 0 /\ Over.late = "no"
  BY DEF Over, NoReq, ReqRecord, RunId
<1> QED  BY <1>1 DEF ReqAs, IsOver

LEMMA InsertIs ==
  ASSUME req \in [Request -> ReqRecord], NEW q \in Request, Insert(q)
  PROVE  \/ /\ req[q].late = "no" /\ req[q].run = 0
            /\ \E y : IsOver(q, y)
         \/ /\ req[q].late = "no" /\ req[q].run # 0
            /\ \E y : /\ Goes(q, y, "bind") /\ y.run = req[q].run /\ y.late = "no"
                      /\ y.fresh = Fresh(req[q].d)
         \/ /\ req[q].late # "no"
            /\ \E y : Goes(q, y, "adopt") /\ y.run = req[q].run /\ y.late = req[q].late
<1> DEFINE f == Fresh(req[q].d)
           x == req[q]
           y(pc) == [x EXCEPT !.pc = pc, !.fresh = f]
<1>1. f \in BOOLEAN /\ x \in ReqRecord
  BY DEF Fresh
<1>2. CASE req[q].late = "no" /\ req[q].run = 0
  <2>1. req' = [req EXCEPT ![q] = Over]
    BY <1>2 DEF Insert
  <2> QED  BY <1>2, <2>1, OverIs
<1>3. \A pc \in {"bind", "adopt"} :
        /\ y(pc) \in ReqRecord /\ y(pc).pc = pc /\ y(pc).d = x.d /\ y(pc).run = x.run
        /\ y(pc).late = x.late /\ y(pc).fresh = f
  <2> HIDE DEF f, x
  <2> QED  BY <1>1 DEF ReqRecord
<1>4. CASE req[q].late = "no" /\ req[q].run # 0
  <2>1. req' = [req EXCEPT ![q] = y("bind")]
    BY <1>4 DEF Insert
  <2> HIDE DEF y
  <2> QED  BY <1>3, <1>4, <2>1 DEF ReqAs, Goes
<1>5. CASE req[q].late # "no"
  <2>1. req' = [req EXCEPT ![q] = y("adopt")]
    BY <1>5 DEF Insert
  <2> HIDE DEF y
  <2> QED  BY <1>3, <1>5, <2>1 DEF ReqAs, Goes
<1> QED  BY <1>2, <1>4, <1>5

LEMMA ReqPcIs ==
  ASSUME req \in [Request -> ReqRecord], NEW q \in Request,
         NEW pc \in {"none", "create", "insert", "bind", "adopt", "orphan", "over"},
         req' = [req EXCEPT ![q].pc = pc]
  PROVE  \E y : /\ Goes(q, y, pc) /\ y.run = req[q].run /\ y.late = req[q].late
                /\ y.fresh = req[q].fresh
<1> DEFINE x == req[q]
           y == [x EXCEPT !.pc = pc]
<1>1. req' = [req EXCEPT ![q] = y] /\ x \in ReqRecord
  OBVIOUS
<1> HIDE DEF x
<1>2. /\ y \in ReqRecord /\ y.pc = pc /\ y.d = x.d /\ y.run = x.run
      /\ y.late = x.late /\ y.fresh = x.fresh
  BY <1>1 DEF ReqRecord
<1> HIDE DEF y
<1> QED  BY <1>1, <1>2 DEF ReqAs, Goes, x

LEMMA BindIs ==
  ASSUME req \in [Request -> ReqRecord], NEW q \in Request, Bind(q)
  PROVE  \/ row[req[q].d].run = req[q].run /\ \E y : IsOver(q, y)
         \/ /\ row[req[q].d].run # req[q].run
            /\ \E pc \in {"orphan", "adopt"} : \E y :
                 /\ Goes(q, y, pc) /\ y.run = req[q].run /\ y.late = req[q].late
<1>1. CASE row[req[q].d].run = req[q].run
  <2>1. req' = [req EXCEPT ![q] = Over]
    BY <1>1 DEF Bind
  <2> QED  BY <1>1, <2>1, OverIs
<1>2. CASE row[req[q].d].run # req[q].run
  <2> DEFINE pc == IF req[q].fresh THEN "orphan" ELSE "adopt"
             x == req[q]
             y == [x EXCEPT !.pc = pc]
  <2>1. pc \in {"orphan", "adopt"} /\ req' = [req EXCEPT ![q] = y] /\ x \in ReqRecord
    BY <1>2 DEF Bind
  <2> HIDE DEF pc, x
  <2>2. y \in ReqRecord /\ y.pc = pc /\ y.d = x.d /\ y.run = x.run /\ y.late = x.late
    BY <2>1 DEF ReqRecord
  <2> HIDE DEF y
  <2> QED  BY <1>2, <2>1, <2>2 DEF ReqAs, Goes, x
<1> QED  BY <1>1, <1>2

LEMMA AdoptIs ==
  ASSUME req \in [Request -> ReqRecord], NEW q \in Request, Adopt(q)
  PROVE  \/ /\ UNCHANGED row
            /\ \E y : Goes(q, y, "orphan") /\ y.run = req[q].run /\ y.late = req[q].late
         \/ /\ \E x \in Adopters(q) : row' = [row EXCEPT ![x].run = req[q].run]
            /\ \E y : IsOver(q, y)
<1>1. CASE Adopters(q) = {}
  <2>1. req' = [req EXCEPT ![q].pc = "orphan"] /\ UNCHANGED row
    BY <1>1 DEF Adopt
  <2> QED  BY <2>1, ReqPcIs
<1>2. CASE Adopters(q) # {}
  <2>1. req' = [req EXCEPT ![q] = Over]
    BY <1>2 DEF Adopt
  <2> QED  BY <1>2, <2>1, OverIs DEF Adopt
<1> QED  BY <1>1, <1>2

-----------------------------------------------------------------------------
(* What a step does to an attempt.  A working attempt has not ended its    *)
(* row; an early one has no run of its own yet.                            *)
WorkPc == Point \ {"requeue", "unreported"}
EarlyPc == {"start", "moved", "list", "stale", "probe", "abandon", "startrun", "create"}
AsksPc == {"start", "probe", "startrun"}
Attended(x) == x.pc # "idle" \/ x.settle # "none"

AtAs(w, y) == y \in AttemptRecord /\ at' = [at EXCEPT ![w] = y]
SameIn(x, y) == /\ y.r = x.r /\ y.carried = x.carried /\ y.own = x.own
                /\ y.settle = x.settle

(* Every step of an attempt and of its canceller but the claim, and but    *)
(* those that give it a run.                                               *)
Turn(x, y) ==
  /\ Attended(y) => Attended(x) /\ y.r = x.r /\ (x.final => y.final)
  /\ y.carried \in {x.carried, 0} /\ y.own \in {x.own, 0}
  /\ y.pc # "idle" => /\ x.pc # "idle" /\ y.carried = x.carried /\ y.own = x.own
                      /\ y.head \in 1..Heads
  /\ y.pc \in WorkPc => x.pc \in WorkPc
  /\ y.pc \in EarlyPc => x.pc \in EarlyPc
  /\ y.pc \in AsksPc => x.pc \in AsksPc
  /\ y.pc \in {"probe", "startrun"} => x.pc \in {"probe", "startrun"} \/ x.carried # 0
  /\ y.pc = "startrun" => x.pc = "startrun" \/ Open(x.carried)
  /\ y.pc = "record" => x.pc = "record"
  /\ Attended(y) /\ y.pc \notin WorkPc => y.final \/ (x.pc \notin WorkPc /\ y.final = x.final)

TurnsTo(w, y) == AtAs(w, y) /\ Turn(at[w], y)

LEMMA AtBecomes ==
  ASSUME at \in [Worker -> AttemptRecord], NEW w \in Worker, NEW y, AtAs(w, y)
  PROVE  /\ at' \in [Worker -> AttemptRecord] /\ at'[w] = y
         /\ \A v \in Worker : v # w => at'[v] = at[v]
BY DEF AtAs

LEMMA IdleRecord ==
  /\ Idle \in AttemptRecord /\ Idle.pc = "idle" /\ Idle.settle = "none" /\ Idle.carried = 0
  /\ Idle.own = 0 /\ Idle.final = FALSE /\ Idle.closed = FALSE
BY CheckConstants DEF Idle, AttemptRecord, RunId, CheckConstants

LEMMA GoIs ==
  ASSUME at \in [Worker -> AttemptRecord], NEW w \in Worker, NEW pc \in Point \cup {"idle"}, Go(w, pc)
  PROVE  \E y : /\ AtAs(w, y) /\ y.pc = pc /\ SameIn(at[w], y)
                /\ y.final = at[w].final /\ y.head = at[w].head
<1> DEFINE x == at[w]
           y == [x EXCEPT !.pc = pc]
<1>1. at' = [at EXCEPT ![w] = y] /\ x \in AttemptRecord
  BY DEF Go
<1> HIDE DEF x
<1>2. /\ y \in AttemptRecord /\ y.pc = pc /\ SameIn(x, y)
      /\ y.final = x.final /\ y.head = x.head
  BY <1>1 DEF AttemptRecord, SameIn
<1> HIDE DEF y
<1> QED  BY <1>1, <1>2 DEF AtAs, x

(* A step that only moves on within the work. *)
LEMMA GoTurns ==
  ASSUME at \in [Worker -> AttemptRecord], AttemptsKnow, NEW w \in Worker,
         NEW pc \in Point, Go(w, pc), at[w].pc \in WorkPc,
         pc \notin {"record", "start", "startrun", "probe", "requeue", "unreported"},
         pc \in EarlyPc => at[w].pc \in EarlyPc
  PROVE  \E y : TurnsTo(w, y) /\ y.pc = pc /\ y.own = at[w].own
<1>1. PICK y : AtAs(w, y) /\ y.pc = pc /\ SameIn(at[w], y)
                /\ y.final = at[w].final /\ y.head = at[w].head
  BY GoIs
<1>2. at[w].pc # "idle" /\ at[w].head \in 1..Heads /\ pc \in WorkPc /\ pc # "idle" /\ pc \notin AsksPc
  BY DEF WorkPc, AttemptsKnow, AsksPc, Point
<1> QED  BY <1>1, <1>2 DEF TurnsTo, Turn, SameIn, Attended

LEMMA LeftIs ==
  ASSUME at \in [Worker -> AttemptRecord], NEW w \in Worker, at[w].pc # "idle", Left(w)
  PROVE  \E y : TurnsTo(w, y) /\ y.pc = "idle"
<1>1. CASE at[w].settle = "none"
  <2>1. at' = [at EXCEPT ![w] = Idle]
    BY <1>1 DEF Left
  <2> QED  BY <2>1, IdleRecord DEF AtAs, TurnsTo, Turn, Attended, WorkPc, Point, EarlyPc, AsksPc
<1>2. CASE at[w].settle # "none"
  <2> DEFINE x == at[w]
             y == [x EXCEPT !.pc = "idle", !.final = TRUE]
  <2>1. at' = [at EXCEPT ![w] = y] /\ x \in AttemptRecord
    BY <1>2 DEF Left
  <2> HIDE DEF x
  <2>2. /\ y \in AttemptRecord /\ y.pc = "idle" /\ y.final = TRUE /\ SameIn(x, y)
    BY <2>1 DEF AttemptRecord, SameIn
  <2> HIDE DEF y
  <2>3. y.pc \notin WorkPc /\ y.pc \notin EarlyPc /\ y.pc \notin AsksPc
    BY <2>2 DEF WorkPc, Point, EarlyPc, AsksPc
  <2> QED  BY <1>2, <2>1, <2>2, <2>3 DEF AtAs, TurnsTo, Turn, SameIn, Attended, x
<1> QED  BY <1>1, <1>2

LEMMA ClaimIs ==
  ASSUME CheckConstants, row \in [Row -> RowRecord], NEW w \in Worker, NEW r \in Row, Claim(w, r)
  PROVE  \E y : /\ AtAs(w, y) /\ y.pc = "start" /\ y.r = r /\ y.carried = row[r].run
                /\ y.own = 0 /\ y.head \in 1..Heads /\ y.final = FALSE /\ y.settle = "none"
                /\ y.closed = FALSE
<1> DEFINE i == row[r].run
           t == (row[r].tries > 0)
           h == Ref[r]
           y == [Idle EXCEPT !.pc = "start", !.r = r, !.carried = i, !.retry = t, !.head = h]
<1>1. at' = [at EXCEPT ![w] = y]
  BY DEF Claim
<1>2. /\ i \in RunId /\ t \in BOOLEAN /\ h \in 1..Heads /\ h \in 0..Heads /\ r \in Row \cup {None}
      /\ "start" \in Point \cup {"idle"}
  BY DEF RowRecord, CheckConstants, Point
<1> HIDE DEF i, t, h
<1>3. /\ y \in AttemptRecord /\ y.pc = "start" /\ y.r = r /\ y.carried = i /\ y.own = 0
      /\ y.head = h /\ y.final = FALSE /\ y.settle = "none" /\ y.closed = FALSE
  <2>1. /\ Idle \in AttemptRecord /\ Idle.own = 0 /\ Idle.final = FALSE /\ Idle.settle = "none"
        /\ Idle.closed = FALSE
    BY IdleRecord
  <2> QED  BY <1>2, <2>1 DEF AttemptRecord
<1> HIDE DEF y
<1> QED  BY <1>1, <1>2, <1>3 DEF AtAs, i, h

LEMMA ReadHeadIs ==
  ASSUME CheckConstants, at \in [Worker -> AttemptRecord], AttemptsKnow, tip \in 1..Heads,
         NEW w \in Worker, ReadHead(w)
  PROVE  \E y : TurnsTo(w, y)
<1>1. at[w].pc = "start" /\ at[w].r \in Row
  BY DEF ReadHead, AttemptsKnow
<1>2. PICK h \in {tip, Ref[at[w].r]} :
        at' = [at EXCEPT ![w].head = h, ![w].moved = (h # Ref[at[w].r]),
                         ![w].pc = IF h # Ref[at[w].r] THEN "moved"
                                   ELSE IF at[w].carried # 0 THEN "probe" ELSE BeforeCreate(w)]
  BY DEF ReadHead
<1> DEFINE x == at[w]
           m == (h # Ref[at[w].r])
           pc == IF h # Ref[at[w].r] THEN "moved"
                 ELSE IF at[w].carried # 0 THEN "probe" ELSE BeforeCreate(w)
           y == [x EXCEPT !.head = h, !.moved = m, !.pc = pc]
<1>3. at' = [at EXCEPT ![w] = y] /\ x \in AttemptRecord
  BY <1>2
<1>4. /\ pc \in {"moved", "probe", "list", "create"} /\ (pc = "probe" => x.carried # 0)
      /\ m \in BOOLEAN /\ h \in 1..Heads /\ h \in 0..Heads
  BY <1>1 DEF BeforeCreate, CheckConstants
<1>6. pc \in Point \cup {"idle"}
  BY <1>4 DEF Point
<1> HIDE DEF x, m, pc
<1>5. y \in AttemptRecord /\ y.pc = pc /\ y.head = h /\ y.final = x.final /\ SameIn(x, y)
  BY <1>3, <1>4, <1>6 DEF AttemptRecord, SameIn
<1> HIDE DEF y
<1> QED  BY <1>1, <1>3, <1>4, <1>5
         DEF TurnsTo, Turn, AtAs, SameIn, Attended, WorkPc, Point, EarlyPc, AsksPc, x

LEMMA ListIs ==
  ASSUME at \in [Worker -> AttemptRecord], AttemptsKnow, run \in Seq(RunRecord),
         NEW w \in Worker, List(w)
  PROVE  \E y : TurnsTo(w, y)
<1> DEFINE x == at[w]
           t == {i \in DOMAIN run : Open(i) /\ run[i].head = StaleHead(w)}
           y == [x EXCEPT !.pc = "stale", !.todo = t]
<1>1. at' = [at EXCEPT ![w] = y] /\ x \in AttemptRecord /\ x.pc = "list" /\ x.head \in 1..Heads
  BY DEF List, AttemptsKnow
<1>2. DOMAIN run \subseteq Nat
  BY LenProperties
<1>3. t \in SUBSET Nat
  BY <1>2
<1> HIDE DEF x, t
<1>4. y \in AttemptRecord /\ y.pc = "stale" /\ y.head = x.head /\ y.final = x.final /\ SameIn(x, y)
  BY <1>1, <1>3 DEF AttemptRecord, SameIn, Point, RunId
<1> HIDE DEF y
<1> QED  BY <1>1, <1>4
         DEF TurnsTo, Turn, AtAs, SameIn, Attended, WorkPc, Point, EarlyPc, AsksPc, x

LEMMA StaleIs ==
  ASSUME at \in [Worker -> AttemptRecord], AttemptsKnow, NEW w \in Worker, NEW i, Stale(w, i)
  PROVE  \E y : TurnsTo(w, y)
<1> DEFINE x == at[w]
           t == x.todo \ {i}
           y == [x EXCEPT !.todo = t]
<1>1. at' = [at EXCEPT ![w] = y] /\ x \in AttemptRecord /\ x.pc = "stale" /\ x.head \in 1..Heads
  BY DEF Stale, AttemptsKnow
<1>2. t \in SUBSET RunId
  BY <1>1 DEF AttemptRecord
<1> HIDE DEF x, t
<1>3. y \in AttemptRecord /\ y.pc = "stale" /\ y.head = x.head /\ y.final = x.final /\ SameIn(x, y)
  BY <1>1, <1>2 DEF AttemptRecord, SameIn
<1> HIDE DEF y
<1> QED  BY <1>1, <1>3
         DEF TurnsTo, Turn, AtAs, SameIn, Attended, WorkPc, Point, EarlyPc, AsksPc, x

LEMMA ListedIs ==
  ASSUME at \in [Worker -> AttemptRecord], AttemptsKnow, NEW w \in Worker, Listed(w)
  PROVE  \E y : TurnsTo(w, y)
<1> DEFINE x == at[w]
           pc == IF at[w].moved THEN BeforeCreate(w) ELSE "create"
           y == [x EXCEPT !.pc = pc, !.moved = FALSE]
<1>1. at' = [at EXCEPT ![w] = y] /\ x \in AttemptRecord /\ x.pc = "stale" /\ x.head \in 1..Heads
  BY DEF Listed, AttemptsKnow
<1>2. pc \in {"list", "create"}
  BY DEF BeforeCreate
<1> HIDE DEF x, pc
<1>3. y \in AttemptRecord /\ y.pc = pc /\ y.head = x.head /\ y.final = x.final /\ SameIn(x, y)
  BY <1>1, <1>2 DEF AttemptRecord, SameIn, Point
<1> HIDE DEF y
<1> QED  BY <1>1, <1>2, <1>3
         DEF TurnsTo, Turn, AtAs, SameIn, Attended, WorkPc, Point, EarlyPc, AsksPc, x

LEMMA ProbeIs ==
  ASSUME at \in [Worker -> AttemptRecord], AttemptsKnow, NEW w \in Worker, Probe(w)
  PROVE  \E y : TurnsTo(w, y)
<1>1. at[w].pc = "probe" /\ at[w].head \in 1..Heads
  BY DEF Probe, AttemptsKnow
<1>2. PICK pc \in {"startrun", "list", "create", "abandon"} :
        Go(w, pc) /\ (pc = "startrun" => Open(at[w].carried))
  BY DEF Probe, BeforeCreate
<1>3. PICK y : AtAs(w, y) /\ y.pc = pc /\ SameIn(at[w], y)
                /\ y.final = at[w].final /\ y.head = at[w].head
  BY <1>2, GoIs DEF Point
<1>4. pc # "idle" /\ pc \in WorkPc /\ at[w].pc \in WorkPc /\ at[w].pc \in EarlyPc /\ at[w].pc \in AsksPc
  BY <1>1 DEF WorkPc, Point, EarlyPc, AsksPc
<1> QED  BY <1>1, <1>2, <1>3, <1>4 DEF TurnsTo, Turn, SameIn, Attended

(* The two steps that give an attempt its run. *)
Gets(x, y, i) ==
  /\ x.pc \in {"startrun", "create"} /\ y.pc = "record" /\ y.own = i
  /\ y.r = x.r /\ y.carried = x.carried /\ y.settle = x.settle /\ y.final = x.final
  /\ y.closed = x.closed /\ y.head \in 1..Heads

LEMMA GetsIs ==
  ASSUME at \in [Worker -> AttemptRecord], AttemptsKnow, NEW w \in Worker, NEW i \in Nat,
         at[w].pc \in {"startrun", "create"}, at' = [at EXCEPT ![w].own = i, ![w].pc = "record"]
  PROVE  \E y : AtAs(w, y) /\ Gets(at[w], y, i)
<1> DEFINE x == at[w]
           y == [x EXCEPT !.own = i, !.pc = "record"]
<1>1. at' = [at EXCEPT ![w] = y] /\ x \in AttemptRecord /\ x.head \in 1..Heads
  BY DEF AttemptsKnow
<1>2. "record" \in Point \cup {"idle"} /\ i \in RunId
  BY DEF Point, RunId
<1> HIDE DEF x
<1>3. /\ y \in AttemptRecord /\ y.pc = "record" /\ y.own = i /\ y.r = x.r /\ y.carried = x.carried
      /\ y.settle = x.settle /\ y.final = x.final /\ y.head = x.head /\ y.closed = x.closed
  BY <1>1, <1>2 DEF AttemptRecord
<1> HIDE DEF y
<1> QED  BY <1>1, <1>3 DEF AtAs, Gets, x

LEMMA StartRunIs ==
  ASSUME at \in [Worker -> AttemptRecord], AttemptsKnow, NEW w \in Worker, StartRun(w)
  PROVE  \/ /\ run' = Ended(at[w].carried, "open")
            /\ at[w].pc = "startrun" /\ \E y : AtAs(w, y) /\ Gets(at[w], y, at[w].carried)
         \/ UNCHANGED run /\ \E y : TurnsTo(w, y)
<1>1. at[w].pc = "startrun" /\ at[w].carried \in Nat
  BY DEF StartRun, AttemptRecord, RunId
<1>2. CASE /\ run' = Ended(at[w].carried, "open")
           /\ at' = [at EXCEPT ![w].own = at[w].carried, ![w].pc = "record"]
  <2> DEFINE i == at[w].carried
  <2>1. i \in Nat /\ at' = [at EXCEPT ![w].own = i, ![w].pc = "record"]
    BY <1>1, <1>2
  <2>2. \E y : AtAs(w, y) /\ Gets(at[w], y, i)
    <3> HIDE DEF i
    <3> QED  BY <1>1, <2>1, GetsIs
  <2> QED  BY <1>1, <1>2, <2>2
<1>3. CASE Go(w, "raised") /\ UNCHANGED run
  <2>1. at[w].pc \in WorkPc /\ "raised" \in Point /\ "raised" \notin EarlyPc
    BY <1>1 DEF WorkPc, Point, EarlyPc
  <2> QED  BY <1>3, <2>1, GoTurns
<1> QED  BY <1>2, <1>3 DEF StartRun

LEMMA CreateOwnIs ==
  ASSUME at \in [Worker -> AttemptRecord], AttemptsKnow, run \in Seq(RunRecord),
         NEW w \in Worker, CreateOwn(w)
  PROVE  \/ /\ run' = Opened(at[w].head)
            /\ at[w].pc = "create" /\ \E y : AtAs(w, y) /\ Gets(at[w], y, Len(run) + 1)
         \/ UNCHANGED run /\ \E y : TurnsTo(w, y)
<1>1. at[w].pc = "create" /\ Len(run) + 1 \in Nat
  BY LenProperties DEF CreateOwn
<1>2. CASE /\ run' = Opened(at[w].head)
           /\ at' = [at EXCEPT ![w].own = Len(run) + 1, ![w].pc = "record"]
  <2> DEFINE i == Len(run) + 1
  <2>1. i \in Nat /\ at' = [at EXCEPT ![w].own = i, ![w].pc = "record"]
    BY <1>1, <1>2
  <2>2. \E y : AtAs(w, y) /\ Gets(at[w], y, i)
    <3> HIDE DEF i
    <3> QED  BY <1>1, <2>1, GetsIs
  <2> QED  BY <1>1, <1>2, <2>2
<1>3. CASE Go(w, "raised") /\ UNCHANGED run
  <2>1. at[w].pc \in WorkPc /\ "raised" \in Point /\ "raised" \notin EarlyPc
    BY <1>1 DEF WorkPc, Point, EarlyPc
  <2> QED  BY <1>3, <2>1, GoTurns
<1> QED  BY <1>2, <1>3 DEF CreateOwn

LEMMA ReturnIs ==
  ASSUME CheckConstants, tip \in 1..Heads, at \in [Worker -> AttemptRecord], AttemptsKnow,
         NEW w \in Worker, Return(w)
  PROVE  \E y : TurnsTo(w, y)
<1> DEFINE x == at[w]
           n == IF at[w].stopped \/ tip = at[w].head THEN 0 ELSE tip
           pc == IF at[w].stopped THEN "unwind" ELSE IF at[w].pc = "posted" THEN "finish" ELSE "report"
           y == [x EXCEPT !.pc = pc, !.next = n]
<1>1. /\ at' = [at EXCEPT ![w] = y] /\ x \in AttemptRecord /\ x.pc \in {"review", "posted"}
      /\ x.head \in 1..Heads
  BY DEF Return, AttemptsKnow
<1>2. pc \in {"unwind", "finish", "report"} /\ n \in 0..Heads
  BY DEF CheckConstants
<1>3. pc \in Point \cup {"idle"}
  BY <1>2 DEF Point
<1> HIDE DEF x, n, pc
<1>4. y \in AttemptRecord /\ y.pc = pc /\ y.head = x.head /\ y.final = x.final /\ SameIn(x, y)
  BY <1>1, <1>2, <1>3 DEF AttemptRecord, SameIn
<1> HIDE DEF y
<1> QED  BY <1>1, <1>2, <1>4
         DEF TurnsTo, Turn, AtAs, SameIn, Attended, WorkPc, Point, EarlyPc, AsksPc, x

LEMMA FinalIs ==
  ASSUME at \in [Worker -> AttemptRecord], AttemptsKnow, NEW w \in Worker,
         NEW pc \in {"requeue", "unreported"}, at[w].pc \in WorkPc,
         at' = [at EXCEPT ![w].final = TRUE, ![w].pc = pc]
  PROVE  \E y : TurnsTo(w, y) /\ y.pc = pc
<1> DEFINE x == at[w]
           y == [x EXCEPT !.final = TRUE, !.pc = pc]
<1>1. at' = [at EXCEPT ![w] = y] /\ x \in AttemptRecord /\ x.pc # "idle" /\ x.head \in 1..Heads
  BY DEF AttemptsKnow, WorkPc, Point
<1>2. pc \in Point \cup {"idle"} /\ pc \notin WorkPc /\ pc \notin EarlyPc /\ pc \notin AsksPc
  BY DEF Point, WorkPc, EarlyPc, AsksPc
<1> HIDE DEF x
<1>3. y \in AttemptRecord /\ y.pc = pc /\ y.head = x.head /\ y.final = TRUE /\ SameIn(x, y)
  BY <1>1, <1>2 DEF AttemptRecord, SameIn
<1> HIDE DEF y
<1> QED  BY <1>1, <1>2, <1>3 DEF TurnsTo, Turn, AtAs, SameIn, Attended, x

LEMMA FinishIs ==
  ASSUME at \in [Worker -> AttemptRecord], AttemptsKnow, NEW w \in Worker, Finish(w)
  PROVE  \E y : TurnsTo(w, y) /\ y.pc \in {"idle", "requeue"}
<1>1. at[w].pc = "finish" /\ at[w].pc \in WorkPc
  BY DEF Finish, WorkPc, Point
<1>2. Left(w) \/ at' = [at EXCEPT ![w].final = TRUE, ![w].pc = "requeue"]
  BY DEF Finish
<1> QED  BY <1>1, <1>2, LeftIs, FinalIs

LEMMA RaisedIs ==
  ASSUME at \in [Worker -> AttemptRecord], AttemptsKnow, NEW w \in Worker, Raised(w)
  PROVE  \E y : TurnsTo(w, y) /\ y.pc = "unreported"
<1>1. at[w].pc = "raised" /\ at[w].pc \in WorkPc
  BY DEF Raised, WorkPc, Point
<1> QED  BY <1>1, FinalIs DEF Raised

LEMMA StopIs ==
  ASSUME CheckConstants, at \in [Worker -> AttemptRecord], AttemptsKnow, NEW w \in Worker, Stop(w)
  PROVE  \E y : TurnsTo(w, y)
<1> DEFINE x == at[w]
           y == [x EXCEPT !.stopped = TRUE, !.settle = "close"]
<1>1. at' = [at EXCEPT ![w] = y] /\ x \in AttemptRecord /\ x.pc # "idle" /\ x.head \in 1..Heads
  BY DEF Stop, AttemptsKnow, CheckConstants, Point
<1> HIDE DEF x
<1>2. /\ y \in AttemptRecord /\ y.pc = x.pc /\ y.head = x.head /\ y.final = x.final /\ y.r = x.r
      /\ y.carried = x.carried /\ y.own = x.own
  BY <1>1 DEF AttemptRecord
<1> HIDE DEF y
<1> QED  BY <1>1, <1>2 DEF TurnsTo, Turn, AtAs, Attended, x

LEMMA DieIs ==
  ASSUME NEW w \in Worker, at' = [at EXCEPT ![w] = Idle]
  PROVE  \E y : TurnsTo(w, y) /\ y.pc = "idle" /\ y.settle = "none"
BY IdleRecord DEF AtAs, TurnsTo, Turn, Attended, WorkPc, Point, EarlyPc, AsksPc

(* The canceller has nothing more to do. *)
LEMMA SettledIs ==
  ASSUME at \in [Worker -> AttemptRecord], AttemptsKnow, NEW w \in Worker, at[w].settle # "none",
         at' = Settled(w)
  PROVE  \E y : TurnsTo(w, y)
<1>1. CASE at[w].pc = "idle"
  <2>1. at' = [at EXCEPT ![w] = Idle]
    BY <1>1 DEF Settled
  <2> QED  BY <2>1, DieIs
<1>2. CASE at[w].pc # "idle"
  <2> DEFINE x == at[w]
             y == [x EXCEPT !.settle = "none"]
  <2>1. at' = [at EXCEPT ![w] = y] /\ x \in AttemptRecord /\ x.pc # "idle" /\ x.head \in 1..Heads
    BY <1>2 DEF Settled, AttemptsKnow
  <2> HIDE DEF x
  <2>2. /\ y \in AttemptRecord /\ y.pc = x.pc /\ y.head = x.head /\ y.final = x.final
        /\ y.r = x.r /\ y.carried = x.carried /\ y.own = x.own
    BY <2>1 DEF AttemptRecord
  <2> HIDE DEF y
  <2> QED  BY <2>1, <2>2 DEF TurnsTo, Turn, AtAs, Attended, x
<1> QED  BY <1>1, <1>2

LEMMA SettleCloseIs ==
  ASSUME at \in [Worker -> AttemptRecord], AttemptsKnow, NEW w \in Worker, SettleClose(w)
  PROVE  \E y : TurnsTo(w, y)
<1>1. at[w].settle = "close"
  BY DEF SettleClose
<1>2. CASE at' = Settled(w)
  BY <1>1, <1>2, SettledIs
<1>3. CASE at' = [at EXCEPT ![w].closed = TRUE, ![w].settle = "write"]
  <2> DEFINE x == at[w]
             y == [x EXCEPT !.closed = TRUE, !.settle = "write"]
  <2>1. /\ at' = [at EXCEPT ![w] = y] /\ x \in AttemptRecord
        /\ (x.pc # "idle" => x.head \in 1..Heads) /\ x.settle = "close"
    BY <1>1, <1>3 DEF AttemptsKnow
  <2> HIDE DEF x
  <2>2. /\ y \in AttemptRecord /\ y.pc = x.pc /\ y.head = x.head /\ y.final = x.final
        /\ y.r = x.r /\ y.carried = x.carried /\ y.own = x.own
    BY <2>1 DEF AttemptRecord
  <2> HIDE DEF y
  <2> QED  BY <2>1, <2>2 DEF TurnsTo, Turn, AtAs, Attended, x
<1> QED  BY <1>2, <1>3 DEF SettleClose

LEMMA SettleWriteIs ==
  ASSUME at \in [Worker -> AttemptRecord], AttemptsKnow, NEW w \in Worker, SettleWrite(w)
  PROVE  \E y : TurnsTo(w, y) /\ (Attended(y) => y.final)
<1>1. at[w].settle = "write" /\ at' = [Settled(w) EXCEPT ![w].final = at[w].pc # "idle"]
  BY DEF SettleWrite
<1>2. CASE at[w].pc = "idle"
  <2>1. [Idle EXCEPT !.final = FALSE] = Idle
    BY IdleRecord DEF AttemptRecord
  <2>2. at' = [at EXCEPT ![w] = [Idle EXCEPT !.final = FALSE]]
    BY <1>1, <1>2 DEF Settled
  <2>3. at' = [at EXCEPT ![w] = Idle]
    BY <2>1, <2>2
  <2> QED  BY <2>3, DieIs DEF Attended
<1>3. CASE at[w].pc # "idle"
  <2> DEFINE x == at[w]
             y == [x EXCEPT !.settle = "none", !.final = TRUE]
  <2>1. at' = [at EXCEPT ![w] = y] /\ x \in AttemptRecord /\ x.pc # "idle" /\ x.head \in 1..Heads
    BY <1>1, <1>3 DEF Settled, AttemptsKnow
  <2> HIDE DEF x
  <2>2. /\ y \in AttemptRecord /\ y.pc = x.pc /\ y.head = x.head /\ y.final = TRUE
        /\ y.r = x.r /\ y.carried = x.carried /\ y.own = x.own
    BY <2>1 DEF AttemptRecord
  <2> HIDE DEF y
  <2> QED  BY <2>1, <2>2 DEF TurnsTo, Turn, AtAs, Attended, x
<1> QED  BY <1>2, <1>3

LEMMA UnwindIs ==
  ASSUME at \in [Worker -> AttemptRecord], AttemptsKnow, NEW w \in Worker, Unwind(w)
  PROVE  \E y : TurnsTo(w, y)
<1>1. at[w].pc = "unwind" /\ at[w].pc \in WorkPc /\ "leave" \in Point /\ "leave" \notin EarlyPc
  BY DEF Unwind, WorkPc, Point, EarlyPc
<1>2. CASE Go(w, "leave")
  BY <1>1, <1>2, GoTurns
<1>3. CASE at' = [at EXCEPT ![w].pc = "leave", ![w].closed = @ \/ Open(at[w].own)]
  <2> DEFINE x == at[w]
             c == x.closed \/ Open(x.own)
             y == [x EXCEPT !.pc = "leave", !.closed = c]
  <2>1. /\ at' = [at EXCEPT ![w] = y] /\ x \in AttemptRecord /\ x.pc = "unwind"
        /\ x.head \in 1..Heads
    BY <1>1, <1>3 DEF AttemptsKnow
  <2>2. c \in BOOLEAN
    BY DEF Open
  <2> HIDE DEF x, c
  <2>3. y \in AttemptRecord /\ y.pc = "leave" /\ y.head = x.head /\ y.final = x.final /\ SameIn(x, y)
    BY <1>1, <2>1, <2>2 DEF AttemptRecord, SameIn
  <2> HIDE DEF y
  <2> QED  BY <2>1, <2>3 DEF TurnsTo, Turn, AtAs, SameIn, Attended, WorkPc, Point, EarlyPc, AsksPc, x
<1> QED  BY <1>2, <1>3 DEF Unwind

-----------------------------------------------------------------------------
(* What a step does to a row.                                              *)
RowAs(r, y) == y \in RowRecord /\ row' = [row EXCEPT ![r] = y]
SameRow(x, y) == y.status = x.status /\ y.run = x.run /\ y.tries = x.tries
SameFlags(x, y) == y.swept = x.swept /\ y.told = x.told

LEMMA RowBecomes ==
  ASSUME row \in [Row -> RowRecord], NEW r \in Row, NEW y, RowAs(r, y)
  PROVE  /\ row' \in [Row -> RowRecord] /\ row'[r] = y
         /\ \A x \in Row : x # r => row'[x] = row[x]
BY DEF RowAs

LEMMA StatusIs ==
  ASSUME row \in [Row -> RowRecord], NEW r \in Row, NEW s \in Status,
         row' = [row EXCEPT ![r].status = s]
  PROVE  \E y : /\ RowAs(r, y) /\ y.status = s /\ y.run = row[r].run /\ y.tries = row[r].tries
                /\ SameFlags(row[r], y)
<1> DEFINE x == row[r]
           y == [x EXCEPT !.status = s]
<1>1. row' = [row EXCEPT ![r] = y] /\ x \in RowRecord
  OBVIOUS
<1> HIDE DEF x
<1>2. /\ y \in RowRecord /\ y.status = s /\ y.run = x.run /\ y.tries = x.tries
      /\ SameFlags(x, y)
  BY <1>1 DEF RowRecord, SameFlags
<1> HIDE DEF y
<1> QED  BY <1>1, <1>2 DEF RowAs, x

LEMMA RowRunIs ==
  ASSUME row \in [Row -> RowRecord], NEW r \in Row, NEW i \in Nat, row' = [row EXCEPT ![r].run = i]
  PROVE  \E y : /\ RowAs(r, y) /\ y.run = i /\ y.status = row[r].status /\ y.tries = row[r].tries
                /\ SameFlags(row[r], y)
<1> DEFINE x == row[r]
           y == [x EXCEPT !.run = i]
<1>1. row' = [row EXCEPT ![r] = y] /\ x \in RowRecord
  OBVIOUS
<1> HIDE DEF x
<1>2. /\ y \in RowRecord /\ y.run = i /\ y.status = x.status /\ y.tries = x.tries
      /\ SameFlags(x, y)
  BY <1>1 DEF RowRecord, RunId, SameFlags
<1> HIDE DEF y
<1> QED  BY <1>1, <1>2 DEF RowAs, x

LEMMA StoppedIs ==
  ASSUME row \in [Row -> RowRecord], NEW r \in Row, row' = [row EXCEPT ![r] = [@ EXCEPT !.stop = TRUE]]
  PROVE  \E y : RowAs(r, y) /\ SameRow(row[r], y) /\ SameFlags(row[r], y)
<1> DEFINE x == row[r]
           y == [x EXCEPT !.stop = TRUE]
<1>1. row' = [row EXCEPT ![r] = y] /\ x \in RowRecord
  OBVIOUS
<1> HIDE DEF x
<1>2. y \in RowRecord /\ SameRow(x, y) /\ SameFlags(x, y)
  BY <1>1 DEF RowRecord, SameRow, SameFlags
<1> HIDE DEF y
<1> QED  BY <1>1, <1>2 DEF RowAs, x

LEMMA ToldIs ==
  ASSUME row \in [Row -> RowRecord], NEW r \in Row, row' = [row EXCEPT ![r].told = TRUE]
  PROVE  \E y : RowAs(r, y) /\ SameRow(row[r], y) /\ y.told /\ y.swept = row[r].swept
<1> DEFINE x == row[r]
           y == [x EXCEPT !.told = TRUE]
<1>1. row' = [row EXCEPT ![r] = y] /\ x \in RowRecord
  OBVIOUS
<1> HIDE DEF x
<1>2. y \in RowRecord /\ SameRow(x, y) /\ y.told /\ y.swept = x.swept
  BY <1>1 DEF RowRecord, SameRow, SameFlags
<1> HIDE DEF y
<1> QED  BY <1>1, <1>2 DEF RowAs, x

LEMMA SweptIs ==
  ASSUME row \in [Row -> RowRecord], NEW r \in Row, row' = [row EXCEPT ![r].swept = TRUE]
  PROVE  \E y : RowAs(r, y) /\ SameRow(row[r], y) /\ y.swept /\ y.told = row[r].told
<1> DEFINE x == row[r]
           y == [x EXCEPT !.swept = TRUE]
<1>1. row' = [row EXCEPT ![r] = y] /\ x \in RowRecord
  OBVIOUS
<1> HIDE DEF x
<1>2. y \in RowRecord /\ SameRow(x, y) /\ y.swept /\ y.told = x.told
  BY <1>1 DEF RowRecord, SameRow, SameFlags
<1> HIDE DEF y
<1> QED  BY <1>1, <1>2 DEF RowAs, x

(* complete() writes a row that is still running, or nothing. *)
Writes(r, s) ==
  \/ row' = row
  \/ /\ row[r].status = "running"
     /\ \E y : /\ RowAs(r, y) /\ y.status = s /\ y.run = row[r].run /\ y.tries = row[r].tries
               /\ SameFlags(row[r], y)

LEMMA CompletedIs ==
  ASSUME row \in [Row -> RowRecord], NEW r \in Row, NEW s \in Status, row' = Completed(r, s)
  PROVE  Writes(r, s)
<1>1. CASE row[r].status = "running"
  <2>1. row' = [row EXCEPT ![r].status = s]
    BY <1>1 DEF Completed
  <2> QED  BY <1>1, <2>1, StatusIs DEF Writes
<1>2. CASE row[r].status # "running"
  BY <1>2 DEF Completed, Writes
<1> QED  BY <1>1, <1>2

LEMMA FailingIs ==
  ASSUME NEW r \in Row, NEW s \in {"done"} \cup Failing(r)
  PROVE  s \in Status /\ s \in {"done", "failed", "queued", "dead"}
BY DEF Failing, Status, Live, Retired

LEMMA ClaimRowIs ==
  ASSUME CheckConstants, row \in [Row -> RowRecord], NEW w \in Worker, NEW r \in Row, Claim(w, r)
  PROVE  \E y : /\ RowAs(r, y) /\ y.status = "running" /\ y.run = row[r].run
                /\ row[r].tries < Budget /\ row[r].tries >= 0 /\ y.tries = row[r].tries + 1
                /\ SameFlags(row[r], y)
<1> DEFINE x == row[r]
           n == x.tries + 1
           y == [x EXCEPT !.status = "running", !.tries = n, !.stop = FALSE]
<1>0. x \in RowRecord /\ row[r].tries < Budget
  BY DEF Claim
<1>1. row' = [row EXCEPT ![r] = y]
  BY DEF Claim
<1>2. row[r].tries \in 0..Budget
  BY DEF RowRecord
<1>3. n \in 0..Budget /\ row[r].tries >= 0
  BY <1>0, <1>2 DEF CheckConstants
<1>4. "running" \in Status
  BY DEF Status, Live
<1> HIDE DEF x, n
<1>5. y \in RowRecord /\ y.status = "running" /\ y.run = x.run /\ y.tries = n /\ SameFlags(x, y)
  BY <1>0, <1>3, <1>4 DEF RowRecord, SameFlags
<1> HIDE DEF y
<1> QED  BY <1>0, <1>1, <1>3, <1>5 DEF RowAs, x, n

LEMMA RetryIs ==
  ASSUME CheckConstants, row \in [Row -> RowRecord], NEW r \in Row, RetryNow(r)
  PROVE  /\ row[r].status \in {"dead", "failed", "cancelled"} /\ Looked(r)
         /\ \E y : /\ RowAs(r, y) /\ y.status = "queued" /\ y.run = row[r].run /\ y.tries = 0
                   /\ ~y.swept /\ ~y.told
<1> DEFINE x == row[r]
           y == [x EXCEPT !.status = "queued", !.tries = 0, !.stop = FALSE, !.swept = FALSE,
                          !.told = FALSE]
<1>1. /\ row' = [row EXCEPT ![r] = y] /\ x \in RowRecord
      /\ row[r].status \in {"dead", "failed", "cancelled"} /\ Looked(r)
  BY DEF RetryNow
<1>2. "queued" \in Status /\ 0 \in 0..Budget
  BY DEF Status, Live, CheckConstants
<1> HIDE DEF x
<1>3. /\ y \in RowRecord /\ y.status = "queued" /\ y.run = x.run /\ y.tries = 0
      /\ ~y.swept /\ ~y.told
  BY <1>1, <1>2 DEF RowRecord
<1> HIDE DEF y
<1> QED  BY <1>1, <1>3 DEF RowAs, x

LEMMA CancelIs ==
  ASSUME row \in [Row -> RowRecord], NEW r \in Row, Cancel(r)
  PROVE  \E y : /\ RowAs(r, y) /\ y.run = row[r].run /\ y.tries = row[r].tries
                /\ SameFlags(row[r], y)
                /\ \/ y.status = row[r].status
                   \/ row[r].status = "queued" /\ y.status = "cancelled"
<1>1. CASE row[r].status = "queued"
  <2>1. row' = [row EXCEPT ![r] = [@ EXCEPT !.status = "cancelled"]]
    BY <1>1 DEF Cancel
  <2>2. row' = [row EXCEPT ![r].status = "cancelled"] /\ "cancelled" \in Status
    BY <2>1 DEF Status, Retired
  <2>3. PICK y : /\ RowAs(r, y) /\ y.status = "cancelled" /\ y.run = row[r].run
                 /\ y.tries = row[r].tries /\ SameFlags(row[r], y)
    BY <2>2, StatusIs
  <2> QED  BY <1>1, <2>3
<1>2. CASE row[r].status # "queued"
  <2>1. row' = [row EXCEPT ![r] = [@ EXCEPT !.stop = TRUE]]
    BY <1>2 DEF Cancel
  <2> QED  BY <2>1, StoppedIs DEF SameRow
<1> QED  BY <1>1, <1>2

LEMMA ReapIs ==
  ASSUME CheckConstants, row \in [Row -> RowRecord], tip \in 1..Heads, NEW r \in Row, Reap(r)
  PROVE  /\ row[r].status = "running" /\ Lapsed(r)
         /\ \E y : /\ RowAs(r, y) /\ y.status \in {"cancelled", "dead", "queued"}
                   /\ y.run \in {row[r].run, 0} /\ y.tries = row[r].tries
                   /\ SameFlags(row[r], y) /\ (y.status # "queued" => y.run = row[r].run)
         /\ \E n \in 0..Heads : Take(r, "close", "cancelled", n)
<1>1. row[r].status = "running" /\ Lapsed(r)
  BY DEF Reap, Lapsed
<1>2. CASE \E s \in {"cancelled", "dead"}, n \in 0..Heads :
             Reaped(r, s) /\ Take(r, "close", "cancelled", n)
  <2>1. PICK s \in {"cancelled", "dead"}, n \in 0..Heads :
          Reaped(r, s) /\ Take(r, "close", "cancelled", n)
    BY <1>2
  <2>2. s \in Status
    BY DEF Status, Retired
  <2>3. PICK y : /\ RowAs(r, y) /\ y.status = s /\ y.run = row[r].run /\ y.tries = row[r].tries
                 /\ SameFlags(row[r], y)
    BY <2>1, <2>2, StatusIs DEF Reaped
  <2> QED  BY <1>1, <2>1, <2>3
<1>3. CASE /\ row' = [row EXCEPT ![r] = [@ EXCEPT !.status = "queued", !.run = 0, !.resumed = TRUE]]
           /\ Take(r, "close", "cancelled", 0)
  <2> DEFINE x == row[r]
             y == [x EXCEPT !.status = "queued", !.run = 0, !.resumed = TRUE]
  <2>1. row' = [row EXCEPT ![r] = y] /\ x \in RowRecord
    BY <1>3
  <2>2. "queued" \in Status
    BY DEF Status, Live
  <2> HIDE DEF x
  <2>3. /\ y \in RowRecord /\ y.status = "queued" /\ y.run = 0 /\ y.tries = x.tries
        /\ SameFlags(x, y)
    BY <2>1, <2>2 DEF RowRecord, RunId, SameFlags
  <2> HIDE DEF y
  <2>4. 0 \in 0..Heads
    BY DEF CheckConstants
  <2> QED  BY <1>1, <1>3, <2>1, <2>3, <2>4 DEF RowAs, x
<1>4. CASE row[r].stop \/ row[r].resumed
  <2>1. PICK s \in {"cancelled", "dead"} : Reaped(r, s) /\ Take(r, "close", "cancelled", 0)
    BY <1>4 DEF Reap
  <2>2. 0 \in 0..Heads
    BY DEF CheckConstants
  <2> QED  BY <1>2, <2>1, <2>2
<1>5. CASE ~(row[r].stop \/ row[r].resumed)
  <2>1. PICK h \in {tip, Ref[r]} :
          IF h # Ref[r] THEN Reaped(r, "cancelled") /\ Take(r, "close", "cancelled", h)
          ELSE /\ row' = [row EXCEPT ![r] = [@ EXCEPT !.status = "queued", !.run = 0,
                                                     !.resumed = TRUE]]
               /\ Take(r, "close", "cancelled", 0)
    BY <1>5 DEF Reap
  <2>2. h \in 0..Heads
    BY DEF CheckConstants
  <2> QED  BY <1>2, <1>3, <2>1, <2>2
<1> QED  BY <1>4, <1>5

(* An insert brings one row into being and retires waiting ones. *)
Brings(R, i) ==
  \A x \in Row :
    \/ SameRow(row[x], row'[x]) /\ SameFlags(row[x], row'[x])
    \/ /\ x \in R /\ row[x].status = "none" /\ row'[x].status = "queued"
       /\ row'[x].run = i /\ row'[x].tries = 0 /\ ~row'[x].swept /\ ~row'[x].told
    \/ /\ row[x].status = "queued" /\ row'[x].status = "superseded"
       /\ row'[x].run = row[x].run /\ row'[x].tries = row[x].tries
       /\ SameFlags(row[x], row'[x])

LEMMA InsertedIs ==
  ASSUME CheckConstants, row \in [Row -> RowRecord], NEW d \in Row, NEW i \in Nat, Fresh(d),
         row' = Inserted(d, i)
  PROVE  row' \in [Row -> RowRecord] /\ Brings({d}, i)
         /\ row'[d].status = "queued" /\ row'[d].run = i
<1> DEFINE a == [NewRow EXCEPT !.run = i]
           b(x) == [row[x] EXCEPT !.status = "superseded"]
           c(x) == [row[x] EXCEPT !.stop = TRUE]
<1>1. "queued" \in Status /\ "superseded" \in Status /\ 0 \in 0..Budget
  BY DEF Status, Live, Retired, CheckConstants
<1>2. /\ a \in RowRecord /\ a.status = "queued" /\ a.run = i /\ a.tries = 0
      /\ ~a.swept /\ ~a.told
  BY <1>1 DEF NewRow, RowRecord, RunId
<1>3. \A x \in Row : /\ b(x) \in RowRecord /\ b(x).status = "superseded" /\ b(x).run = row[x].run
                     /\ b(x).tries = row[x].tries /\ SameFlags(row[x], b(x))
                     /\ c(x) \in RowRecord /\ SameRow(row[x], c(x)) /\ SameFlags(row[x], c(x))
  <2>1. ASSUME NEW y \in RowRecord
        PROVE  /\ [y EXCEPT !.status = "superseded"] \in RowRecord
               /\ [y EXCEPT !.status = "superseded"].status = "superseded"
               /\ [y EXCEPT !.status = "superseded"].run = y.run
               /\ [y EXCEPT !.status = "superseded"].tries = y.tries
               /\ SameFlags(y, [y EXCEPT !.status = "superseded"])
               /\ [y EXCEPT !.stop = TRUE] \in RowRecord
               /\ SameRow(y, [y EXCEPT !.stop = TRUE]) /\ SameFlags(y, [y EXCEPT !.stop = TRUE])
    BY <1>1 DEF RowRecord, SameRow, SameFlags
  <2> QED  BY <2>1
<1>4. row[d].status = "none"
  BY DEF Fresh
<1>5. row' = [x \in Row |->
                IF x = d THEN a
                ELSE IF Ref[x] # Ref[d] /\ row[x].status = "queued" THEN b(x)
                ELSE IF Ref[x] # Ref[d] /\ row[x].status = "running" THEN c(x)
                ELSE row[x]]
  BY DEF Inserted
<1> HIDE DEF a, b, c
<1>6. \A x \in Row : row'[x] = IF x = d THEN a
                ELSE IF Ref[x] # Ref[d] /\ row[x].status = "queued" THEN b(x)
                ELSE IF Ref[x] # Ref[d] /\ row[x].status = "running" THEN c(x)
                ELSE row[x]
  BY <1>5
<1>7. \A x \in Row : row'[x] \in RowRecord
  BY <1>2, <1>3, <1>6
<1> QED  BY <1>2, <1>3, <1>4, <1>5, <1>6, <1>7 DEF Brings, SameRow, SameFlags

LEMMA RequeueIs ==
  ASSUME CheckConstants, row \in [Row -> RowRecord], NEW h, Requeue(h)
  PROVE  row' \in [Row -> RowRecord] /\ Brings(Row \ Delivery, 0)
<1> DEFINE spare == {x \in Row \ Delivery : Ref[x] = h /\ Fresh(x) /\ ~Covered(x)}
<1>1. CASE spare = {}
  BY <1>1 DEF Requeue, Brings, SameRow, SameFlags
<1>2. CASE spare # {}
  <2>1. PICK d \in spare : row' = Inserted(d, 0)
    BY <1>2 DEF Requeue
  <2>2. Fresh(d) /\ d \in Row /\ d \in Row \ Delivery
    BY <2>1
  <2>3. row' \in [Row -> RowRecord] /\ Brings({d}, 0)
    BY <2>1, <2>2, InsertedIs
  <2> QED  BY <2>2, <2>3 DEF Brings
<1> QED  BY <1>1, <1>2

-----------------------------------------------------------------------------
(* What a step of an attempt does to the runs and the rows.                *)
RunsOn(w, y) ==       \* within the attempt
  /\ Turn(at[w], y) /\ UNCHANGED row /\ RunStep /\ NoNewVerdict
Judges(w, y) ==       \* the review's verdict
  /\ Turn(at[w], y) /\ UNCHANGED row
  /\ at[w].pc \in {"review", "report"} /\ y.pc \in {"posted", "finish"} /\ y.own = at[w].own
  /\ run' = Ended(at[w].own, "verdict")
StartsIts(w, y) ==    \* the run the row carries
  /\ Gets(at[w], y, at[w].carried) /\ at[w].pc = "startrun" /\ UNCHANGED row
  /\ run' = Ended(at[w].carried, "open")
OpensIts(w, y) ==     \* a run of its own
  /\ Gets(at[w], y, Len(run) + 1) /\ at[w].pc = "create" /\ UNCHANGED row
  /\ run' = Opened(at[w].head)
Claims(w, y) ==
  /\ at[w].pc = "idle" /\ at[w].settle = "none" /\ UNCHANGED run
  /\ \E r \in Row :
       /\ row[r].status = "queued" /\ (row[r].tries > 0 => Looked(r))
       /\ y.pc = "start" /\ y.r = r /\ y.carried = row[r].run /\ y.own = 0
       /\ y.head \in 1..Heads /\ y.final = FALSE /\ y.settle = "none"
       /\ \E z : /\ RowAs(r, z) /\ z.status = "running" /\ z.run = row[r].run /\ z.tries > 0
EndsRow(w, y) ==      \* its row, unless somebody has
  /\ Turn(at[w], y) /\ UNCHANGED run /\ Attended(at[w]) /\ ~at[w].final
  /\ \E s \in Status \ {"none"} : Writes(at[w].r, s) /\ (y.pc \notin WorkPc \/ (s = "done" /\ y.final))
RecordsIts(w, y) ==   \* its run on the row
  /\ Turn(at[w], y) /\ UNCHANGED run
  /\ at[w].pc = "record" /\ y.pc = "review" /\ y.own = at[w].own
  /\ \E z : /\ RowAs(at[w].r, z) /\ z.run = at[w].own /\ z.status = row[at[w].r].status
            /\ z.tries = row[at[w].r].tries
QueuesHead(w, y) ==
  /\ Turn(at[w], y) /\ UNCHANGED run
  /\ row' \in [Row -> RowRecord] /\ Brings(Row \ Delivery, 0)

AttemptEffect(w, y) ==
  /\ AtAs(w, y)
  /\ \/ RunsOn(w, y) \/ Judges(w, y) \/ StartsIts(w, y) \/ OpensIts(w, y) \/ Claims(w, y)
     \/ EndsRow(w, y) \/ RecordsIts(w, y) \/ QueuesHead(w, y)

FaultStep == UNCHANGED faults \/ Fault
AttemptMay(w) ==
  /\ UNCHANGED attemptKeeps /\ FaultStep
  /\ \E y : AttemptEffect(w, y)

(* A step that leaves the rows alone and makes no verdict. *)
LEMMA RunsOnMay ==
  ASSUME NEW w, UNCHANGED attemptKeeps, FaultStep, UNCHANGED row, RunStep, NoNewVerdict,
         \E y : TurnsTo(w, y)
  PROVE  AttemptMay(w)
BY DEF AttemptMay, AttemptEffect, RunsOn, TurnsTo

LEMMA EndsRowMay ==
  ASSUME TypeInv, NEW w \in Worker, NEW y, UNCHANGED attemptKeeps, FaultStep, UNCHANGED run,
         TurnsTo(w, y), Attended(at[w]), NEW s \in Status \ {"none"},
         y.pc \notin WorkPc \/ (s = "done" /\ (Attended(y) => y.final)),
         row' = IF at[w].final THEN row ELSE Completed(at[w].r, s)
  PROVE  AttemptMay(w)
<1>1. at[w].r \in Row /\ row \in [Row -> RowRecord]
  BY DEF TypeInv, AtOK, AttemptsKnow, RowOK, Attended
<1>2. CASE UNCHANGED row
  BY <1>2, SameRuns, RunsOnMay
<1>3. CASE ~at[w].final /\ row' = Completed(at[w].r, s)
  <2>1. Writes(at[w].r, s)
    BY <1>1, <1>3, CompletedIs
  <2>2. y.pc \notin WorkPc \/ (s = "done" /\ y.final)
    BY DEF Attended, WorkPc, Point
  <2> QED  BY <1>3, <2>1, <2>2 DEF AttemptMay, AttemptEffect, EndsRow, TurnsTo
<1> QED  BY <1>2, <1>3

LEMMA ClaimMay ==
  ASSUME CheckConstants, TypeInv, NEW w \in Worker, NEW r \in Row, Claim(w, r)
  PROVE  AttemptMay(w)
<1>0. row \in [Row -> RowRecord]
  BY DEF TypeInv, RowOK
<1>1. PICK y : /\ AtAs(w, y) /\ y.pc = "start" /\ y.r = r /\ y.carried = row[r].run
               /\ y.own = 0 /\ y.head \in 1..Heads /\ y.final = FALSE /\ y.settle = "none"
               /\ y.closed = FALSE
  BY <1>0, ClaimIs
<1>2. PICK z : /\ RowAs(r, z) /\ z.status = "running" /\ z.run = row[r].run
               /\ row[r].tries < Budget /\ row[r].tries >= 0 /\ z.tries = row[r].tries + 1
  BY <1>0, ClaimRowIs
<1>3. row[r].tries \in Nat /\ z.tries > 0
  BY <1>0, <1>2 DEF RowRecord
<1>4. /\ at[w].pc = "idle" /\ at[w].settle = "none" /\ row[r].status = "queued"
      /\ (row[r].tries > 0 => Looked(r)) /\ UNCHANGED run /\ UNCHANGED attemptKeeps /\ UNCHANGED faults
  BY DEF Claim
<1>5. Claims(w, y)
  BY <1>1, <1>2, <1>3, <1>4 DEF Claims
<1> QED  BY <1>1, <1>4, <1>5 DEF AttemptMay, AttemptEffect, FaultStep

LEMMA EarlyMay ==
  ASSUME CheckConstants, TypeInv, NEW w \in Worker,
         \/ ReadHead(w) \/ RaiseEarly(w) \/ ReportWithoutRunning(w) \/ Moved(w) \/ List(w)
         \/ \E i \in at[w].todo : Stale(w, i)
         \/ Listed(w) \/ Probe(w) \/ Abandon(w)
  PROVE  AttemptMay(w)
<1>0. /\ at \in [Worker -> AttemptRecord] /\ AttemptsKnow /\ tip \in 1..Heads
      /\ run \in Seq(RunRecord) /\ at[w].carried \in Nat /\ at[w].todo \subseteq Nat
      /\ at[w].pc # "idle" => Ref[at[w].r] \in 1..Heads
  BY DEF TypeInv, AtOK, AttemptsKnow, ClockOK, RunOK, AttemptRecord, RunId, CheckConstants
<1> DEFINE i0 == at[w].carried
<1>g. "neutral" \in End \ {"verdict"} /\ "cancelled" \in End \ {"verdict"}
  BY DEF End
<1>p. /\ {"start", "moved", "list", "stale", "probe", "abandon"} \subseteq WorkPc
      /\ {"start", "moved", "list", "stale", "probe", "abandon", "create"} \subseteq EarlyPc
      /\ {"list", "create", "raised", "finish"} \subseteq Point
      /\ "raised" \notin EarlyPc /\ "finish" \notin EarlyPc
  BY DEF WorkPc, Point, EarlyPc
<1>1. CASE ReadHead(w)
  <2>1. UNCHANGED attemptKeeps /\ FaultStep /\ UNCHANGED run /\ UNCHANGED row
    BY <1>1 DEF ReadHead, Refuse, FaultStep
  <2> QED  BY <1>0, <1>1, <2>1, ReadHeadIs, SameRuns, RunsOnMay
<1>2. CASE RaiseEarly(w)
  <2>1. UNCHANGED attemptKeeps /\ FaultStep /\ UNCHANGED run /\ UNCHANGED row /\ Go(w, "raised")
        /\ at[w].pc = "start"
    BY <1>2 DEF RaiseEarly, FaultStep
  <2>2. \E y : TurnsTo(w, y)
    BY <1>0, <1>p, <2>1, GoTurns
  <2> QED  BY <2>1, <2>2, SameRuns, RunsOnMay
<1>3. CASE ReportWithoutRunning(w)
  <2>1. UNCHANGED attemptKeeps /\ FaultStep /\ UNCHANGED row /\ Go(w, "finish")
        /\ at[w].pc = "start"
    BY <1>3 DEF ReportWithoutRunning, FaultStep
  <2>2. \E y : TurnsTo(w, y)
    BY <1>0, <1>p, <2>1, GoTurns
  <2>3. \/ run' = Ended(i0, "neutral")
        \/ run' = Append(run, [head |-> Ref[at[w].r], status |-> "neutral"])
    BY <1>3 DEF ReportWithoutRunning
  <2>4. Ref[at[w].r] \in 1..Heads
    BY <1>0, <2>1
  <2>5. RunStep /\ NoNewVerdict
    BY <1>0, <1>g, <2>3, <2>4, EndingIs, AppendedIs
  <2> QED  BY <2>1, <2>2, <2>5, RunsOnMay
<1>4. CASE Moved(w)
  <2>1. UNCHANGED attemptKeeps /\ FaultStep /\ UNCHANGED row /\ Go(w, "list")
        /\ at[w].pc = "moved"
    BY <1>4 DEF Moved, Refuse, FaultStep
  <2>2. \E y : TurnsTo(w, y)
    BY <1>0, <1>p, <2>1, GoTurns
  <2>3. UNCHANGED run \/ run' = Ended(i0, "neutral")
    BY <1>4 DEF Moved
  <2>4. RunStep /\ NoNewVerdict
    BY <1>0, <1>g, <2>3, EndingIs, SameRuns
  <2> QED  BY <2>1, <2>2, <2>4, RunsOnMay
<1>5. CASE List(w)
  <2>1. UNCHANGED attemptKeeps /\ FaultStep /\ UNCHANGED run /\ UNCHANGED row
    BY <1>5 DEF List, FaultStep
  <2> QED  BY <1>0, <1>5, <2>1, ListIs, SameRuns, RunsOnMay
<1>6. CASE \E i \in at[w].todo : Stale(w, i)
  <2>1. PICK i \in at[w].todo : Stale(w, i)
    BY <1>6
  <2>2. UNCHANGED attemptKeeps /\ FaultStep /\ UNCHANGED row /\ i \in Nat
        /\ (UNCHANGED run \/ \E e \in {"neutral", "cancelled"} : run' = Ended(i, e))
    BY <1>0, <2>1 DEF Stale, Refuse, FaultStep
  <2>3. RunStep /\ NoNewVerdict
    BY <1>0, <1>g, <2>2, EndingIs, SameRuns
  <2>4. \E y : TurnsTo(w, y)
    BY <1>0, <2>1, StaleIs
  <2> QED  BY <2>2, <2>3, <2>4, RunsOnMay
<1>7. CASE Listed(w)
  <2>1. UNCHANGED attemptKeeps /\ FaultStep /\ UNCHANGED run /\ UNCHANGED row
    BY <1>7 DEF Listed, FaultStep
  <2> QED  BY <1>0, <1>7, <2>1, ListedIs, SameRuns, RunsOnMay
<1>8. CASE Probe(w)
  <2>1. UNCHANGED attemptKeeps /\ FaultStep /\ UNCHANGED run /\ UNCHANGED row
    BY <1>8 DEF Probe, Refuse, FaultStep
  <2> QED  BY <1>0, <1>8, <2>1, ProbeIs, SameRuns, RunsOnMay
<1>9. CASE Abandon(w)
  <2>1. PICK pc \in {"list", "create"} : Go(w, pc) /\ at[w].pc = "abandon"
    BY <1>9 DEF Abandon, BeforeCreate
  <2>2. UNCHANGED attemptKeeps /\ FaultStep /\ UNCHANGED row
        /\ (UNCHANGED run \/ run' = EndedIfOpen(i0, "cancelled"))
    BY <1>9 DEF Abandon, Refuse, FaultStep
  <2>3. \E y : TurnsTo(w, y)
    BY <1>0, <1>p, <2>1, GoTurns
  <2>4. RunStep /\ NoNewVerdict
    BY <1>0, <1>g, <2>2, ClosingIs, SameRuns
  <2> QED  BY <2>2, <2>3, <2>4, RunsOnMay
<1> QED  BY <1>1, <1>2, <1>3, <1>4, <1>5, <1>6, <1>7, <1>8, <1>9

LEMMA ReviewMay ==
  ASSUME CheckConstants, TypeInv, NEW w \in Worker,
         StartRun(w) \/ CreateOwn(w) \/ Record(w) \/ Post(w) \/ Return(w) \/ Report(w)
  PROVE  AttemptMay(w)
<1>0. /\ at \in [Worker -> AttemptRecord] /\ AttemptsKnow /\ tip \in 1..Heads
      /\ run \in Seq(RunRecord) /\ at[w].own \in Nat
  BY DEF TypeInv, AtOK, ClockOK, RunOK, AttemptRecord, RunId
<1>p. /\ {"record", "review", "report"} \subseteq WorkPc
      /\ {"review", "posted", "raised", "finish"} \subseteq Point
      /\ "review" \notin EarlyPc /\ "posted" \notin EarlyPc
      /\ "raised" \notin EarlyPc /\ "finish" \notin EarlyPc
  BY DEF WorkPc, Point, EarlyPc
<1>1. CASE StartRun(w)
  <2>1. UNCHANGED attemptKeeps /\ FaultStep /\ UNCHANGED row
    BY <1>1 DEF StartRun, Refuse, FaultStep
  <2>2. CASE UNCHANGED run /\ \E y : TurnsTo(w, y)
    BY <2>1, <2>2, SameRuns, RunsOnMay
  <2>3. CASE /\ run' = Ended(at[w].carried, "open")
             /\ at[w].pc = "startrun" /\ \E y : AtAs(w, y) /\ Gets(at[w], y, at[w].carried)
    BY <2>1, <2>3 DEF AttemptMay, AttemptEffect, StartsIts
  <2> QED  BY <1>0, <1>1, <2>2, <2>3, StartRunIs
<1>2. CASE CreateOwn(w)
  <2>1. UNCHANGED attemptKeeps /\ FaultStep /\ UNCHANGED row
    BY <1>2 DEF CreateOwn, Refuse, FaultStep
  <2>2. CASE UNCHANGED run /\ \E y : TurnsTo(w, y)
    BY <2>1, <2>2, SameRuns, RunsOnMay
  <2>3. CASE /\ run' = Opened(at[w].head)
             /\ at[w].pc = "create" /\ \E y : AtAs(w, y) /\ Gets(at[w], y, Len(run) + 1)
    BY <2>1, <2>3 DEF AttemptMay, AttemptEffect, OpensIts
  <2> QED  BY <1>0, <1>2, <2>2, <2>3, CreateOwnIs
<1>3. CASE Record(w)
  <2>1. /\ UNCHANGED attemptKeeps /\ UNCHANGED run /\ UNCHANGED faults /\ Go(w, "review")
        /\ at[w].pc = "record" /\ row' = [row EXCEPT ![at[w].r].run = at[w].own]
    BY <1>3 DEF Record
  <2>2. PICK y : TurnsTo(w, y) /\ y.pc = "review" /\ y.own = at[w].own
    BY <1>0, <1>p, <2>1, GoTurns
  <2>3. at[w].r \in Row /\ row \in [Row -> RowRecord]
    BY <2>1 DEF TypeInv, AtOK, AttemptsKnow, RowOK
  <2>4. \E z : /\ RowAs(at[w].r, z) /\ z.run = at[w].own /\ z.status = row[at[w].r].status
               /\ z.tries = row[at[w].r].tries
    <3> DEFINE r == at[w].r
               i == at[w].own
    <3>1. r \in Row /\ i \in Nat /\ row' = [row EXCEPT ![r].run = i]
      BY <1>0, <2>1, <2>3
    <3>2. \E z : /\ RowAs(r, z) /\ z.run = i /\ z.status = row[r].status /\ z.tries = row[r].tries
                /\ SameFlags(row[r], z)
      <4> HIDE DEF r, i
      <4> QED  BY <2>3, <3>1, RowRunIs
    <3> QED  BY <3>2
  <2>5. RecordsIts(w, y)
    BY <2>1, <2>2, <2>4 DEF RecordsIts, TurnsTo
  <2> QED  BY <2>1, <2>2, <2>5 DEF AttemptMay, AttemptEffect, FaultStep, TurnsTo
<1>4. CASE Post(w)
  <2>1. /\ UNCHANGED attemptKeeps /\ UNCHANGED row /\ UNCHANGED faults /\ Go(w, "posted")
        /\ at[w].pc = "review" /\ run' = Ended(at[w].own, "verdict")
    BY <1>4 DEF Post
  <2>2. PICK y : TurnsTo(w, y) /\ y.pc = "posted" /\ y.own = at[w].own
    BY <1>0, <1>p, <2>1, GoTurns
  <2> QED  BY <2>1, <2>2 DEF AttemptMay, AttemptEffect, FaultStep, TurnsTo, Judges
<1>5. CASE Return(w)
  <2>1. UNCHANGED attemptKeeps /\ FaultStep /\ UNCHANGED run /\ UNCHANGED row
    BY <1>5 DEF Return, FaultStep
  <2> QED  BY <1>0, <1>5, <2>1, ReturnIs, SameRuns, RunsOnMay
<1>6. CASE Report(w)
  <2>1. UNCHANGED attemptKeeps /\ FaultStep /\ UNCHANGED row /\ at[w].pc = "report"
    BY <1>6 DEF Report, Refuse, FaultStep
  <2>2. CASE run' = Ended(at[w].own, "verdict") /\ Go(w, "finish")
    <3>1. PICK y : TurnsTo(w, y) /\ y.pc = "finish" /\ y.own = at[w].own
      BY <1>0, <1>p, <2>1, <2>2, GoTurns
    <3> QED  BY <2>1, <2>2, <3>1 DEF AttemptMay, AttemptEffect, TurnsTo, Judges
  <2>3. CASE Go(w, "raised") /\ UNCHANGED run
    <3>1. \E y : TurnsTo(w, y)
      BY <1>0, <1>p, <2>1, <2>3, GoTurns
    <3> QED  BY <2>1, <2>3, <3>1, SameRuns, RunsOnMay
  <2> QED  BY <1>6, <2>2, <2>3 DEF Report
<1> QED  BY <1>1, <1>2, <1>3, <1>4, <1>5, <1>6

LEMMA EndMay ==
  ASSUME CheckConstants, TypeInv, NEW w \in Worker,
         \/ Finish(w) \/ RequeueMoved(w) \/ Raised(w) \/ Unreported(w) \/ Stop(w)
         \/ SettleStep(w) \/ Unwind(w) \/ Leave(w) \/ Die(w)
  PROVE  AttemptMay(w)
<1>0. /\ at \in [Worker -> AttemptRecord] /\ AttemptsKnow /\ row \in [Row -> RowRecord]
      /\ run \in Seq(RunRecord) /\ at[w].own \in Nat /\ at[w].carried \in Nat
      /\ Attended(at[w]) => at[w].r \in Row
  BY DEF TypeInv, AtOK, AttemptsKnow, RowOK, RunOK, AttemptRecord, RunId, Attended
<1> DEFINE i0 == at[w].carried
           o0 == at[w].own
<1>g. "neutral" \in End \ {"verdict"} /\ "failure" \in End \ {"verdict"}
  BY DEF End
<1>p. /\ "idle" \notin WorkPc /\ "requeue" \notin WorkPc /\ "unreported" \notin WorkPc
      /\ {"done", "left", "failed", "queued", "dead"} \subseteq Status \ {"none"} /\ "idle" \notin Dies
  BY DEF WorkPc, Point, Status, Live, Retired, CheckConstants
<1>1. CASE Finish(w)
  <2>1. UNCHANGED attemptKeeps /\ UNCHANGED run /\ at[w].pc = "finish"
    BY <1>1 DEF Finish
  <2>2. PICK y : TurnsTo(w, y) /\ y.pc \in {"idle", "requeue"}
    BY <1>0, <1>1, FinishIs
  <2>3. PICK s \in {"done"} \cup Failing(at[w].r) :
          FaultStep /\ row' = IF at[w].final THEN row ELSE Completed(at[w].r, s)
    BY <1>1 DEF Finish, FaultStep
  <2>4. s \in Status \ {"none"}
    BY <1>0, <1>p, <2>3 DEF Failing
  <2> QED  BY <1>p, <2>1, <2>2, <2>3, <2>4, EndsRowMay DEF Attended
<1>2. CASE RequeueMoved(w)
  <2>1. /\ UNCHANGED attemptKeeps /\ UNCHANGED run /\ UNCHANGED faults /\ Left(w)
        /\ at[w].pc = "requeue" /\ Requeue(at[w].next)
    BY <1>2 DEF RequeueMoved
  <2>2. PICK y : TurnsTo(w, y)
    BY <1>0, <2>1, LeftIs
  <2>3. row' \in [Row -> RowRecord] /\ Brings(Row \ Delivery, 0)
    BY <1>0, <2>1, RequeueIs
  <2> QED  BY <2>1, <2>2, <2>3 DEF AttemptMay, AttemptEffect, QueuesHead, TurnsTo, FaultStep
<1>3. CASE Raised(w)
  <2>1. UNCHANGED attemptKeeps /\ UNCHANGED run /\ UNCHANGED faults /\ at[w].pc = "raised"
    BY <1>3 DEF Raised
  <2>2. PICK y : TurnsTo(w, y) /\ y.pc = "unreported"
    BY <1>0, <1>3, RaisedIs
  <2>3. PICK s \in Failing(at[w].r) : row' = IF at[w].final THEN row ELSE Completed(at[w].r, s)
    BY <1>3 DEF Raised, Failing
  <2>4. s \in Status \ {"none"}
    BY <1>0, <1>p, <2>3 DEF Failing
  <2> QED  BY <1>p, <2>1, <2>2, <2>3, <2>4, EndsRowMay DEF Attended, FaultStep
<1>4. CASE Unreported(w)
  <2>1. /\ UNCHANGED attemptKeeps /\ FaultStep /\ UNCHANGED row /\ Left(w) /\ at[w].pc = "unreported"
        /\ (UNCHANGED run \/ run' = EndedIfOpen(i0, "failure"))
    BY <1>4 DEF Unreported, Refuse, FaultStep
  <2>2. RunStep /\ NoNewVerdict
    BY <1>0, <1>g, <2>1, ClosingIs, SameRuns
  <2>3. \E y : TurnsTo(w, y)
    BY <1>0, <2>1, LeftIs
  <2> QED  BY <2>1, <2>2, <2>3, RunsOnMay
<1>5. CASE Stop(w)
  <2>1. UNCHANGED attemptKeeps /\ FaultStep /\ UNCHANGED run /\ UNCHANGED row
    BY <1>5 DEF Stop, FaultStep
  <2> QED  BY <1>0, <1>5, <2>1, StopIs, SameRuns, RunsOnMay
<1>6. CASE SettleClose(w)
  <2>1. Attached(w) \in Nat
    BY <1>0 DEF Attached
  <2>2. UNCHANGED attemptKeeps /\ FaultStep /\ UNCHANGED row
        /\ (UNCHANGED run \/ run' = EndedIfOpen(Attached(w), "neutral"))
    BY <1>6 DEF SettleClose, Refuse, FaultStep
  <2>3. RunStep /\ NoNewVerdict
    BY <1>0, <1>g, <2>1, <2>2, ClosingIs, SameRuns
  <2> QED  BY <1>0, <1>6, <2>2, <2>3, SettleCloseIs, RunsOnMay
<1>7. CASE SettleWrite(w)
  <2>1. /\ UNCHANGED attemptKeeps /\ UNCHANGED run /\ UNCHANGED faults /\ at[w].settle = "write"
        /\ row' = IF at[w].final THEN row ELSE Completed(at[w].r, "done")
    BY <1>7 DEF SettleWrite
  <2>2. PICK y : TurnsTo(w, y) /\ (Attended(y) => y.final)
    BY <1>0, <1>7, SettleWriteIs
  <2>3. "done" \in Status \ {"none"} /\ FaultStep /\ Attended(at[w])
    BY <1>p, <2>1 DEF FaultStep, Attended
  <2> QED  BY <2>1, <2>2, <2>3, EndsRowMay
<1>8. CASE Unwind(w)
  <2>1. UNCHANGED attemptKeeps /\ FaultStep /\ UNCHANGED row
        /\ (UNCHANGED run \/ run' = EndedIfOpen(o0, "neutral"))
    BY <1>8 DEF Unwind, Refuse, FaultStep
  <2>2. RunStep /\ NoNewVerdict
    BY <1>0, <1>g, <2>1, ClosingIs, SameRuns
  <2> QED  BY <1>0, <1>8, <2>1, <2>2, UnwindIs, RunsOnMay
<1>9. CASE Leave(w)
  <2>1. PICK s \in {"done", "left"} : row' = IF at[w].final THEN row ELSE Completed(at[w].r, s)
    BY <1>9 DEF Leave
  <2>2. UNCHANGED attemptKeeps /\ FaultStep /\ UNCHANGED run /\ Left(w) /\ at[w].pc = "leave"
    BY <1>9 DEF Leave, FaultStep
  <2>3. PICK y : TurnsTo(w, y) /\ y.pc = "idle"
    BY <1>0, <2>2, LeftIs
  <2> QED  BY <1>p, <2>1, <2>2, <2>3, EndsRowMay DEF Attended
<1>10. CASE Die(w)
  <2>1. UNCHANGED attemptKeeps /\ FaultStep /\ UNCHANGED run /\ UNCHANGED row
        /\ at' = [at EXCEPT ![w] = Idle]
    BY <1>10 DEF Die, FaultStep
  <2> QED  BY <2>1, DieIs, SameRuns, RunsOnMay
<1> QED  BY <1>1, <1>2, <1>3, <1>4, <1>5, <1>6, <1>7, <1>8, <1>9, <1>10 DEF SettleStep

LEMMA EachAttempt ==
  ASSUME CheckConstants, TypeInv, NEW w \in Worker,
         AttemptStep(w) \/ Stop(w) \/ SettleStep(w) \/ Die(w)
  PROVE  AttemptMay(w)
BY ClaimMay, EarlyMay, ReviewMay, EndMay DEF AttemptStep

-----------------------------------------------------------------------------
(* What the reaper and the sweeps do. *)
HandIs(h, pc, r, i) == h.pc = pc /\ h.r = r /\ h.run = i

Reaps(r) ==
  /\ row[r].status = "running" /\ Lapsed(r) /\ UNCHANGED run
  /\ \E y : /\ RowAs(r, y) /\ y.status \in {"cancelled", "dead", "queued"}
            /\ y.run \in {row[r].run, 0} /\ y.tries = row[r].tries
  /\ HandIs(reaper', "close", r, row[r].run)
ReaperCloses ==
  /\ reaper.pc = "close" /\ UNCHANGED row /\ RunStep /\ NoNewVerdict
  /\ \/ HandIs(reaper', "idle", None, 0)
     \/ HandIs(reaper', "requeue", reaper.r, reaper.run)
ReaperQueues ==
  /\ UNCHANGED run /\ row' \in [Row -> RowRecord] /\ Brings(Row \ Delivery, 0)
  /\ HandIs(reaper', "idle", None, 0)
Marks(r) ==
  /\ row[r].status = "dead" /\ UNCHANGED run /\ \E y : RowAs(r, y) /\ SameRow(row[r], y)
  /\ HandIs(reaper', "tell", r, row[r].run)
Tells ==
  /\ reaper.pc = "tell" /\ RunStep /\ NoNewVerdict /\ HandIs(reaper', "idle", None, 0)
  /\ \/ UNCHANGED row
     \/ /\ reaper.run = 0 /\ Len(run') = Len(run) + 1
        /\ \E y : /\ RowAs(reaper.r, y) /\ y.run = Len(run) + 1
                  /\ y.status = row[reaper.r].status /\ y.tries = row[reaper.r].tries

ReaperMay ==
  /\ UNCHANGED reaperKeeps /\ FaultStep
  /\ reaper' \in HandRecord /\ HandKnows(reaper') /\ reaper'.pc # "mark"
  /\ \/ \E r \in Row : Reaps(r) \/ Marks(r)
     \/ ReaperCloses \/ ReaperQueues \/ Tells

LEMMA RestingHand ==
  /\ Resting \in HandRecord /\ HandKnows(Resting) /\ HandIs(Resting, "idle", None, 0)
BY CheckConstants DEF Resting, HandRecord, HandKnows, HandIs, RunId, CheckConstants

LEMMA TakeIs ==
  ASSUME row \in [Row -> RowRecord], NEW r \in Row, NEW pc \in {"close", "tell"},
         NEW e \in End \ {"verdict"}, NEW n \in 0..Heads, Take(r, pc, e, n)
  PROVE  reaper' \in HandRecord /\ HandKnows(reaper') /\ HandIs(reaper', pc, r, row[r].run)
<1> DEFINE h == [pc |-> pc, r |-> r, run |-> row[r].run, end |-> e, next |-> n]
<1>1. reaper' = h
  BY DEF Take
<1>2. row[r].run \in RunId
  BY DEF RowRecord
<1>3. h \in HandRecord /\ HandKnows(h) /\ HandIs(h, pc, r, row[r].run)
  BY <1>2 DEF HandRecord, HandKnows, HandIs
<1> QED  BY <1>1, <1>3

LEMMA EachReaper ==
  ASSUME CheckConstants, TypeInv, ReaperStep
  PROVE  ReaperMay
<1>0. /\ row \in [Row -> RowRecord] /\ run \in Seq(RunRecord) /\ tip \in 1..Heads
      /\ reaper \in HandRecord /\ HandKnows(reaper) /\ reaper.run \in Nat
  BY DEF TypeInv, RowOK, RunOK, ClockOK, ReaperOK, HandOK, HandRecord, RunId
<1>g. "cancelled" \in End \ {"verdict"} /\ "notice" \in End \ {"verdict"} /\ 0 \in 0..Heads
  BY DEF End, CheckConstants
<1>r. ASSUME reaper' = Resting
      PROVE  /\ reaper' \in HandRecord /\ HandKnows(reaper') /\ reaper'.pc # "mark"
             /\ HandIs(reaper', "idle", None, 0)
  BY <1>r, RestingHand DEF HandIs
<1>1. ASSUME NEW r \in Row, Reap(r) PROVE ReaperMay
  <2>1. /\ row[r].status = "running" /\ Lapsed(r)
        /\ \E y : /\ RowAs(r, y) /\ y.status \in {"cancelled", "dead", "queued"}
                  /\ y.run \in {row[r].run, 0} /\ y.tries = row[r].tries
        /\ \E n \in 0..Heads : Take(r, "close", "cancelled", n)
    BY <1>0, <1>1, ReapIs
  <2>2. reaper' \in HandRecord /\ HandKnows(reaper') /\ HandIs(reaper', "close", r, row[r].run)
    BY <1>0, <1>g, <2>1, TakeIs
  <2>3. UNCHANGED reaperKeeps /\ FaultStep /\ UNCHANGED run
    BY <1>1 DEF Reap, Refuse, FaultStep
  <2>4. Reaps(r) /\ reaper'.pc # "mark"
    BY <2>1, <2>2, <2>3 DEF Reaps, HandIs
  <2> QED  BY <2>2, <2>3, <2>4 DEF ReaperMay
<1>2. ASSUME NEW r \in Row, MarkDead(r) PROVE ReaperMay
  <2>1. /\ UNCHANGED reaperKeeps /\ UNCHANGED run /\ UNCHANGED faults /\ row[r].status = "dead"
        /\ row' = [row EXCEPT ![r].told = TRUE] /\ Take(r, "tell", "notice", 0)
    BY <1>2 DEF MarkDead
  <2>2. reaper' \in HandRecord /\ HandKnows(reaper') /\ HandIs(reaper', "tell", r, row[r].run)
    BY <1>0, <1>g, <2>1, TakeIs
  <2>3. \E y : RowAs(r, y) /\ SameRow(row[r], y)
    BY <1>0, <2>1, ToldIs
  <2>4. Marks(r) /\ reaper'.pc # "mark" /\ FaultStep
    BY <2>1, <2>2, <2>3 DEF Marks, HandIs, FaultStep
  <2> QED  BY <2>1, <2>2, <2>4 DEF ReaperMay
<1>3. ASSUME ReaperClose PROVE ReaperMay
  <2> DEFINE i == reaper.run
             e == reaper.end
  <2>1. UNCHANGED reaperKeeps /\ FaultStep /\ UNCHANGED row /\ reaper.pc = "close"
        /\ (UNCHANGED run \/ run' = EndedIfOpen(i, e))
    BY <1>3 DEF ReaperClose, Refuse, FaultStep
  <2>2. i \in Nat /\ e \in End \ {"verdict"}
    BY <1>0, <2>1 DEF HandKnows
  <2>3. RunStep /\ NoNewVerdict
    <3> HIDE DEF i, e
    <3> QED  BY <1>0, <2>1, <2>2, ClosingIs, SameRuns
  <2>4. CASE reaper' = Resting
    BY <1>r, <2>1, <2>3, <2>4 DEF ReaperMay, ReaperCloses
  <2>5. CASE reaper' = [reaper EXCEPT !.pc = "requeue"]
    <3>1. /\ reaper' \in HandRecord /\ HandKnows(reaper')
          /\ HandIs(reaper', "requeue", reaper.r, reaper.run) /\ reaper'.pc # "mark"
      BY <1>0, <2>1, <2>5 DEF HandRecord, HandKnows, HandIs
    <3> QED  BY <2>1, <2>3, <3>1 DEF ReaperMay, ReaperCloses
  <2> QED  BY <1>3, <2>4, <2>5 DEF ReaperClose
<1>4. ASSUME ReaperRequeue PROVE ReaperMay
  <2>1. UNCHANGED reaperKeeps /\ UNCHANGED faults /\ UNCHANGED run /\ reaper' = Resting
        /\ Requeue(reaper.next)
    BY <1>4 DEF ReaperRequeue
  <2>2. row' \in [Row -> RowRecord] /\ Brings(Row \ Delivery, 0)
    BY <1>0, <2>1, RequeueIs
  <2> QED  BY <1>r, <2>1, <2>2 DEF ReaperMay, ReaperQueues, FaultStep
<1>5. ASSUME Tell PROVE ReaperMay
  <2>1. UNCHANGED reaperKeeps /\ FaultStep /\ reaper' = Resting /\ reaper.pc = "tell"
    BY <1>5 DEF Tell, Refuse, FaultStep
  <2>2. /\ reaper.r \in Row /\ reaper.end \in End \ {"verdict"} /\ Len(run) + 1 \in Nat
        /\ Ref[reaper.r] \in 1..Heads
    BY <1>0, <2>1, LenProperties DEF HandKnows, CheckConstants
  <2> DEFINE i == reaper.run
             e == reaper.end
             r == reaper.r
             n == Len(run) + 1
             h == Ref[reaper.r]
  <2>3. CASE UNCHANGED <<run, row>>
    BY <1>r, <2>1, <2>3, SameRuns DEF ReaperMay, Tells
  <2>4. CASE i # 0 /\ run' = Ended(i, e) /\ UNCHANGED row
    <3>1. RunStep /\ NoNewVerdict
      <4>1. i \in Nat /\ e \in End \ {"verdict"}
        BY <1>0, <2>2
      <4> HIDE DEF i, e
      <4> QED  BY <1>0, <2>4, <4>1, EndingIs
    <3> QED  BY <1>r, <2>1, <2>4, <3>1 DEF ReaperMay, Tells
  <2>5. CASE i = 0 /\ run' = Append(run, [head |-> h, status |-> e])
             /\ row' = [row EXCEPT ![r].run = n]
    <3>1. RunStep /\ NoNewVerdict /\ Len(run') = Len(run) + 1
      <4>1. h \in 1..Heads /\ e \in End \ {"verdict"}
        BY <2>2
      <4> HIDE DEF h, e
      <4> QED  BY <1>0, <2>5, <4>1, AppendedIs
    <3>2. \E y : /\ RowAs(r, y) /\ y.run = n /\ y.status = row[r].status /\ y.tries = row[r].tries
                /\ SameFlags(row[r], y)
      <4>1. r \in Row /\ n \in Nat
        BY <2>2
      <4> HIDE DEF r, n
      <4> QED  BY <1>0, <2>5, <4>1, RowRunIs
    <3>3. Tells
      BY <1>r, <2>1, <2>5, <3>1, <3>2 DEF Tells
    <3> QED  BY <1>r, <2>1, <3>3 DEF ReaperMay
  <2> QED  BY <1>5, <2>3, <2>4, <2>5 DEF Tell
<1> QED  BY <1>1, <1>2, <1>3, <1>4, <1>5 DEF ReaperStep

SweepMay(s) ==
  /\ UNCHANGED sweepKeeps /\ FaultStep /\ RunStep /\ NoNewVerdict /\ NoLostVerdict
  /\ UNCHANGED row \/ \E r \in Row : \E y : RowAs(r, y) /\ SameRow(row[r], y)
  /\ \E h : /\ h \in HandRecord /\ HandKnows(h) /\ h.pc \in {"idle", "close", "mark"}
            /\ h.run \in {row[r].run : r \in Row} \cup {sweep[s].run, 0}
            /\ sweep' = [sweep EXCEPT ![s] = h]

LEMMA SweepMayBe ==
  ASSUME NEW s, UNCHANGED sweepKeeps, FaultStep, RunStep, NoNewVerdict, NoLostVerdict,
         UNCHANGED row \/ \E r \in Row : \E y : RowAs(r, y) /\ SameRow(row[r], y),
         NEW h \in HandRecord, HandKnows(h), h.pc \in {"idle", "close", "mark"},
         h.run \in {row[r].run : r \in Row} \cup {sweep[s].run, 0},
         sweep' = [sweep EXCEPT ![s] = h]
  PROVE  SweepMay(s)
BY DEF SweepMay

LEMMA EachSweep ==
  ASSUME CheckConstants, TypeInv, NEW s \in Sweeper, SweepStep(s)
  PROVE  SweepMay(s)
<1>0. /\ row \in [Row -> RowRecord] /\ run \in Seq(RunRecord)
      /\ sweep[s] \in HandRecord /\ HandKnows(sweep[s]) /\ sweep[s].run \in Nat
  BY DEF TypeInv, RowOK, RunOK, SweepOK, HandOK, HandRecord, RunId
<1>1. ASSUME NEW r \in Row, SweepRead(s, r) PROVE SweepMay(s)
  <2> DEFINE e == RetiredEnd(r)
             i == row[r].run
             h == [Resting EXCEPT !.pc = "close", !.r = r, !.run = i, !.end = e]
  <2>1. UNCHANGED sweepKeeps /\ UNCHANGED faults /\ UNCHANGED run /\ UNCHANGED row
        /\ sweep' = [sweep EXCEPT ![s] = h]
    BY <1>1 DEF SweepRead
  <2>2. e \in End \ {"verdict"} /\ i \in RunId /\ i \in {row[x].run : x \in Row}
    BY <1>0 DEF RetiredEnd, End, RowRecord
  <2> HIDE DEF e, i
  <2>3. h \in HandRecord /\ HandKnows(h) /\ h.pc \in {"idle", "close", "mark"} /\ h.run = i
    <3>1. Resting \in HandRecord
      BY RestingHand
    <3> QED  BY <2>2, <3>1 DEF HandRecord, HandKnows
  <2> HIDE DEF h
  <2> QED  BY <2>1, <2>2, <2>3, SameRuns, SweepMayBe DEF FaultStep
<1>r. /\ Resting \in HandRecord /\ HandKnows(Resting) /\ Resting.pc = "idle" /\ Resting.run = 0
  BY RestingHand DEF HandIs
<1>2. ASSUME SweepClose(s) PROVE SweepMay(s)
  <2> DEFINE i == sweep[s].run
             e == sweep[s].end
             x == sweep[s]
             h == [x EXCEPT !.pc = "mark"]
  <2>1. UNCHANGED sweepKeeps /\ FaultStep /\ UNCHANGED row /\ sweep[s].pc = "close"
    BY <1>2 DEF SweepClose, Refuse, FaultStep
  <2>2. i \in Nat /\ e \in End \ {"verdict"}
    BY <1>0, <2>1 DEF HandKnows
  <2>3. CASE run' = EndedIfOpen(i, e) /\ sweep' = [sweep EXCEPT ![s].pc = "mark"]
    <3>1. RunStep /\ NoNewVerdict /\ NoLostVerdict
      <4> HIDE DEF i, e
      <4> QED  BY <1>0, <2>2, <2>3, ClosingIs
    <3>2. sweep' = [sweep EXCEPT ![s] = h]
      BY <2>3
    <3>3. x \in HandRecord /\ HandKnows(x) /\ x.pc = "close"
      BY <1>0, <2>1
    <3>4. h \in HandRecord /\ HandKnows(h) /\ h.pc \in {"idle", "close", "mark"} /\ h.run = x.run
      <4> HIDE DEF x
      <4> QED  BY <3>3 DEF HandRecord, HandKnows
    <3> HIDE DEF h
    <3> QED  BY <2>1, <3>1, <3>2, <3>4, SweepMayBe
  <2>4. CASE UNCHANGED run /\ sweep' = [sweep EXCEPT ![s] = Resting]
    BY <1>r, <2>1, <2>4, SameRuns, SweepMayBe
  <2> QED  BY <1>2, <2>3, <2>4 DEF SweepClose
<1>3. ASSUME SweepMark(s) PROVE SweepMay(s)
  <2>1. /\ UNCHANGED sweepKeeps /\ UNCHANGED faults /\ UNCHANGED run /\ sweep[s].pc = "mark"
        /\ row' = [row EXCEPT ![sweep[s].r].swept = TRUE] /\ sweep' = [sweep EXCEPT ![s] = Resting]
    BY <1>3 DEF SweepMark
  <2>2. sweep[s].r \in Row
    BY <1>0, <2>1 DEF HandKnows
  <2>3. \E y : RowAs(sweep[s].r, y) /\ SameRow(row[sweep[s].r], y)
    BY <1>0, <2>1, <2>2, SweptIs
  <2> QED  BY <1>r, <2>1, <2>2, <2>3, SameRuns, SweepMayBe DEF FaultStep
<1> QED  BY <1>1, <1>2, <1>3 DEF SweepStep

-----------------------------------------------------------------------------
(* Every step keeps the types. *)
ReqFits(q, y) ==
  /\ ReqAs(q, y) /\ (y.pc \notin {"none", "over"} => y.d \in Delivery)
  /\ (y.late = "asked" => y.pc \in {"insert", "adopt"}) /\ y.run <= Len(run')

RequestMay(q) ==
  /\ UNCHANGED ingressKeeps /\ FaultStep /\ RunStep /\ NoNewVerdict /\ (\E y : ReqFits(q, y))
  /\ row' \in [Row -> RowRecord]
  /\ \A r \in Row : row'[r].run \in {row[r].run, 0, req[q].run}

LEMMA OverFits ==
  ASSUME NEW q, NEW y, IsOver(q, y), Len(run') \in Nat
  PROVE  ReqFits(q, y)
BY DEF IsOver, ReqFits, ReqAs

LEMMA EachRequest ==
  ASSUME CheckConstants, TypeInv, NEW q \in Request, Receive(q) \/ RequestStep(q)
  PROVE  RequestMay(q)
<1>0. /\ req \in [Request -> ReqRecord] /\ row \in [Row -> RowRecord] /\ run \in Seq(RunRecord)
      /\ scenario \in Scenarios /\ req[q].run \in Nat /\ req[q].run <= Len(run) /\ Len(run) \in Nat
      /\ req[q].pc \notin {"none", "over"} => req[q].d \in Delivery /\ req[q].d \in Row
      /\ req[q].late = "asked" => req[q].pc \in {"insert", "adopt"}
  BY LenProperties DEF TypeInv, ReqOK, RowOK, RunOK, ClockOK, RequestsKnow, LateIsAsked, ReqRecord, RunId,
     CheckConstants
<1>g. RunStep => Len(run') \in Nat /\ Len(run) <= Len(run')
  BY <1>0, RunsGrow
<1> DEFINE Kept == row' \in [Row -> RowRecord] /\ \A r \in Row : row'[r].run \in {row[r].run, 0, req[q].run}
           i0 == req[q].run
           h0 == Ref[req[q].d]
<1>k. UNCHANGED row => Kept
  BY <1>0
<1>h. req[q].pc \notin {"none", "over"} => h0 \in 1..Heads
  BY <1>0 DEF CheckConstants
<1>1. CASE Receive(q)
  <2>1. UNCHANGED ingressKeeps /\ FaultStep /\ UNCHANGED run /\ UNCHANGED row
    BY <1>1 DEF Receive, FaultStep
  <2>2. PICK y : /\ ReqAs(q, y) /\ y.pc \in {"create", "insert"} /\ y.d \in Delivery
                 /\ y.run = 0 /\ y.late = "no"
    BY <1>0, <1>1, ReceiveIs
  <2>3. RunStep /\ NoNewVerdict
    BY <2>1, SameRuns
  <2>4. ReqFits(q, y)
    BY <1>g, <2>2, <2>3 DEF ReqFits
  <2> QED  BY <1>k, <2>1, <2>3, <2>4 DEF RequestMay
<1>2. CASE Create(q)
  <2>1. /\ UNCHANGED ingressKeeps /\ FaultStep /\ UNCHANGED row /\ req[q].pc = "create"
        /\ run' = Opened(h0)
    BY <1>2 DEF Create, FaultStep
  <2>2. PICK y : Goes(q, y, "insert") /\ y.run = Len(run) + 1 /\ y.late = req[q].late
    BY <1>0, <1>2, CreateIs
  <2>3. RunStep /\ NoNewVerdict /\ Len(run') = Len(run) + 1
    <3> HIDE DEF h0
    <3> QED  BY <1>0, <1>h, <2>1, OpeningIs
  <2>4. ReqFits(q, y)
    BY <1>0, <2>1, <2>2, <2>3 DEF ReqFits, Goes
  <2> QED  BY <1>k, <2>1, <2>3, <2>4 DEF RequestMay
<1>3. CASE CreateLate(q)
  <2>1. UNCHANGED ingressKeeps /\ FaultStep /\ UNCHANGED row /\ UNCHANGED run /\ req[q].pc = "create"
    BY <1>3 DEF CreateLate, FaultStep
  <2>2. PICK y : Goes(q, y, "insert") /\ y.run = req[q].run /\ y.late \in {"no", "asked"}
    BY <1>0, <1>3, CreateLateIs
  <2>3. RunStep /\ NoNewVerdict
    BY <2>1, SameRuns
  <2>4. ReqFits(q, y)
    BY <1>0, <2>1, <2>2 DEF ReqFits, Goes
  <2> QED  BY <1>k, <2>1, <2>3, <2>4 DEF RequestMay
<1>4. CASE LateAnswer(q)
  <2>1. /\ UNCHANGED ingressKeeps /\ FaultStep /\ UNCHANGED row /\ req[q].late = "asked"
        /\ run' = Opened(h0)
    BY <1>4 DEF LateAnswer, FaultStep
  <2>2. PICK y : Goes(q, y, req[q].pc) /\ y.run = Len(run) + 1 /\ y.late = "made"
    BY <1>0, <1>4, LateAnswerIs
  <2>3. RunStep /\ NoNewVerdict /\ Len(run') = Len(run) + 1
    <3> HIDE DEF h0
    <3> QED  BY <1>0, <1>h, <2>1, OpeningIs
  <2>4. ReqFits(q, y)
    BY <1>0, <2>1, <2>2, <2>3 DEF ReqFits, Goes
  <2> QED  BY <1>k, <2>1, <2>3, <2>4 DEF RequestMay
<1>5. CASE Insert(q)
  <2>1. UNCHANGED ingressKeeps /\ FaultStep /\ UNCHANGED run /\ req[q].pc = "insert"
    BY <1>5 DEF Insert, FaultStep
  <2>2. RunStep /\ NoNewVerdict
    BY <2>1, SameRuns
  <2>3. \E y : ReqFits(q, y)
    <3>1. ASSUME NEW y, IsOver(q, y) PROVE ReqFits(q, y)
      BY <1>g, <2>2, <3>1, OverFits
    <3>2. ASSUME NEW y, NEW pc \in {"bind", "adopt"}, Goes(q, y, pc), y.run = req[q].run,
                 y.late = "no" \/ pc = "adopt"
          PROVE  ReqFits(q, y)
      BY <1>0, <2>1, <3>2 DEF ReqFits, Goes
    <3> QED  BY <1>0, <1>5, <3>1, <3>2, InsertIs
  <2>4. Kept
    <3> DEFINE d == req[q].d
               i == IF req[q].late = "no" THEN req[q].run ELSE 0
    <3>1. d \in Row /\ i \in {0, req[q].run} /\ i \in Nat
          /\ row' = IF Fresh(d) THEN Inserted(d, i) ELSE row
      BY <1>0, <1>5, <2>1 DEF Insert
    <3> HIDE DEF d, i
    <3>2. CASE Fresh(d)
      <4>1. row' \in [Row -> RowRecord] /\ Brings({d}, i)
        BY <1>0, <3>1, <3>2, InsertedIs
      <4> QED  BY <3>1, <4>1 DEF Brings, SameRow
    <3>3. CASE ~Fresh(d)
      BY <1>k, <3>1, <3>3
    <3> QED  BY <3>2, <3>3
  <2> QED  BY <2>1, <2>2, <2>3, <2>4 DEF RequestMay
<1>6. CASE Bind(q)
  <2>1. UNCHANGED ingressKeeps /\ FaultStep /\ UNCHANGED row /\ UNCHANGED run /\ req[q].pc = "bind"
    BY <1>6 DEF Bind, FaultStep
  <2>2. RunStep /\ NoNewVerdict
    BY <2>1, SameRuns
  <2>3. \E y : ReqFits(q, y)
    <3>1. ASSUME NEW y, IsOver(q, y) PROVE ReqFits(q, y)
      BY <1>g, <2>2, <3>1, OverFits
    <3>2. ASSUME NEW y, NEW pc \in {"orphan", "adopt"}, Goes(q, y, pc), y.run = req[q].run,
                 y.late = req[q].late
          PROVE  ReqFits(q, y)
      BY <1>0, <2>1, <3>2 DEF ReqFits, Goes
    <3> QED  BY <1>0, <1>6, <3>1, <3>2, BindIs
  <2> QED  BY <1>k, <2>1, <2>2, <2>3 DEF RequestMay
<1>7. CASE Adopt(q)
  <2>1. UNCHANGED ingressKeeps /\ FaultStep /\ UNCHANGED run /\ req[q].pc = "adopt" /\ req[q].late # "asked"
    BY <1>7 DEF Adopt, FaultStep
  <2>2. RunStep /\ NoNewVerdict
    BY <2>1, SameRuns
  <2>3. CASE UNCHANGED row /\ \E y : Goes(q, y, "orphan") /\ y.run = req[q].run /\ y.late = req[q].late
    <3>1. \E y : ReqFits(q, y)
      BY <1>0, <2>1, <2>3 DEF ReqFits, Goes
    <3> QED  BY <1>k, <2>1, <2>2, <2>3, <3>1 DEF RequestMay
  <2>4. CASE (\E x \in Adopters(q) : row' = [row EXCEPT ![x].run = i0]) /\ \E y : IsOver(q, y)
    <3>1. PICK x \in Adopters(q) : row' = [row EXCEPT ![x].run = i0]
      BY <2>4
    <3>2. x \in Row
      BY <1>0, <2>1 DEF Adopters, SameHead
    <3>3. \E z : RowAs(x, z) /\ z.run = i0
      <4>1. PICK i \in Nat : i = i0 /\ row' = [row EXCEPT ![x].run = i]
        BY <1>0, <3>1
      <4>2. row \in [Row -> RowRecord] /\ row' = [row EXCEPT ![x].run = i]
        BY <1>0, <4>1
      <4>3. \E z : /\ RowAs(x, z) /\ z.run = i /\ z.status = row[x].status /\ z.tries = row[x].tries
                  /\ SameFlags(row[x], z)
        BY ONLY <3>2, <4>2, RowRunIs
      <4> QED  BY <4>1, <4>3
    <3>4. Kept
      BY <1>0, <3>2, <3>3, RowBecomes
    <3>5. \E y : ReqFits(q, y)
      BY <1>g, <2>2, <2>4, OverFits
    <3> QED  BY <2>1, <2>2, <3>4, <3>5 DEF RequestMay
  <2> QED  BY <1>0, <1>7, <2>3, <2>4, AdoptIs
<1>8. CASE CloseOrphan(q)
  <2>1. UNCHANGED ingressKeeps /\ FaultStep /\ UNCHANGED row /\ req' = [req EXCEPT ![q] = Over]
        /\ (UNCHANGED run \/ run' = Ended(i0, "cancelled"))
    BY <1>8 DEF CloseOrphan, Refuse, FaultStep
  <2>2. RunStep /\ NoNewVerdict
    <3>1. i0 \in Nat /\ "cancelled" \in End \ {"verdict"}
      BY <1>0 DEF End
    <3> HIDE DEF i0
    <3> QED  BY <1>0, <2>1, <3>1, EndingIs, SameRuns
  <2>3. \E y : ReqFits(q, y)
    BY <1>g, <2>1, <2>2, OverIs, OverFits
  <2> QED  BY <1>k, <2>1, <2>2, <2>3 DEF RequestMay
<1> QED  BY <1>1, <1>2, <1>3, <1>4, <1>5, <1>6, <1>7, <1>8 DEF RequestStep

(* What a step leaves alone stays well formed, for the runs only grow. *)
LEMMA OthersFit ==
  ASSUME RunOK, RunStep
  PROVE  /\ RunOK' /\ Len(run) \in Nat /\ Len(run') \in Nat /\ Len(run) <= Len(run')
         /\ (RowOK /\ UNCHANGED row => RowOK')
         /\ (ReqOK /\ UNCHANGED req => ReqOK')
         /\ (AtOK /\ UNCHANGED at => AtOK')
         /\ (ReaperOK /\ UNCHANGED reaper => ReaperOK')
         /\ (SweepOK /\ UNCHANGED sweep => SweepOK')
<1>1. /\ RunOK' /\ Len(run) \in Nat /\ Len(run') \in Nat /\ Len(run) <= Len(run')
  BY RunsGrow DEF RunOK
<1>2. ASSUME NEW n \in Nat, n <= Len(run) PROVE n <= Len(run')
  BY <1>1, <1>2
<1>3. RowOK /\ UNCHANGED row => RowOK'
  BY <1>2 DEF RowOK, RowRecord, RunId
<1>4. ReqOK /\ UNCHANGED req => ReqOK'
  BY <1>2 DEF ReqOK, ReqRecord, RunId, RequestsKnow, LateIsAsked
<1>5. AtOK /\ UNCHANGED at => AtOK'
  <2> HAVE AtOK /\ UNCHANGED at
  <2>1. \A w \in Worker : at[w].carried \in Nat /\ at[w].own \in Nat
    BY DEF AtOK, AttemptRecord, RunId
  <2> QED  BY <1>2, <2>1 DEF AtOK, AttemptsKnow
<1>6. ReaperOK /\ UNCHANGED reaper => ReaperOK'
  BY <1>2 DEF ReaperOK, HandOK, HandRecord, HandKnows, RunId
<1>7. SweepOK /\ UNCHANGED sweep => SweepOK'
  <2> HAVE SweepOK /\ UNCHANGED sweep
  <2>1. \A s \in Sweeper : sweep[s].run \in Nat
    BY DEF SweepOK, HandRecord, RunId
  <2> QED  BY <1>2, <2>1 DEF SweepOK, HandOK, HandKnows
<1> QED  BY <1>1, <1>3, <1>4, <1>5, <1>6, <1>7

LEMMA FaultsFit ==
  ASSUME CheckConstants, ClockOK, FaultStep, UNCHANGED <<scenario, tip, operated>>
  PROVE  ClockOK'
<1>1. scenario.faults \in Nat
  BY DEF ClockOK, CheckConstants, Scenario
<1> QED  BY <1>1 DEF ClockOK, FaultStep, Fault

LEMMA AttemptKeepsTypes ==
  ASSUME CheckConstants, TypeInv, NEW w \in Worker, AttemptMay(w)
  PROVE  TypeInv'
<1>1. PICK y : AttemptEffect(w, y)
  BY DEF AttemptMay
<1>0. /\ UNCHANGED <<scenario, tip, req, reaper, sweep, operated>> /\ FaultStep
      /\ RunOK /\ RowOK /\ ReqOK /\ AtOK /\ ReaperOK /\ SweepOK /\ ClockOK
      /\ at \in [Worker -> AttemptRecord] /\ row \in [Row -> RowRecord] /\ AtAs(w, y)
      /\ run \in Seq(RunRecord)
      /\ at[w].own \in Nat /\ at[w].carried \in Nat
      /\ at[w].own <= Len(run) /\ at[w].carried <= Len(run)
      /\ at[w].pc # "idle" => at[w].head \in 1..Heads
      /\ Attended(at[w]) => at[w].r \in Row
      /\ \A r \in Row : row[r].run \in Nat /\ row[r].run <= Len(run)
  BY <1>1 DEF AttemptMay, AttemptEffect, attemptKeeps, TypeInv, AtOK, RowOK, RunOK, AttemptsKnow,
     AttemptRecord, RowRecord, RunId, Attended
<1>2. /\ at' \in [Worker -> AttemptRecord] /\ at'[w] = y /\ y \in AttemptRecord
      /\ \A v \in Worker : v # w => at'[v] = at[v]
  BY <1>0, AtBecomes DEF AtAs
<1> DEFINE Fits == /\ y.carried <= Len(run') /\ y.own <= Len(run')
                   /\ Attended(y) => y.r \in Row
                   /\ y.pc # "idle" => y.head \in 1..Heads
<1>3. ASSUME RunStep, Fits PROVE AtOK'
  <2>1. Len(run) \in Nat /\ Len(run') \in Nat /\ Len(run) <= Len(run')
    BY <1>0, <1>3, OthersFit
  <2>2. ASSUME NEW v \in Worker
        PROVE  /\ at'[v].carried <= Len(run') /\ at'[v].own <= Len(run')
               /\ at'[v].pc # "idle" \/ at'[v].settle # "none" => at'[v].r \in Row
               /\ at'[v].pc # "idle" => at'[v].head \in 1..Heads
    <3>1. CASE v = w
      BY <1>2, <1>3, <3>1 DEF Attended
    <3>2. CASE v # w
      <4>1. at'[v] = at[v] /\ at[v].carried \in Nat /\ at[v].own \in Nat
        BY <1>0, <1>2, <3>2 DEF AttemptRecord, RunId
      <4> QED  BY <1>0, <2>1, <4>1 DEF AtOK, AttemptsKnow
    <3> QED  BY <3>1, <3>2
  <2> QED  BY <1>2, <2>2 DEF AtOK, AttemptsKnow
<1>4. ASSUME RunStep, RowOK', AtOK' PROVE TypeInv'
  BY <1>0, <1>4, OthersFit, FaultsFit DEF TypeInv
<1>5. ASSUME Turn(at[w], y), RunStep PROVE Fits
  <2>1. Len(run) \in Nat /\ Len(run') \in Nat /\ Len(run) <= Len(run')
    BY <1>0, <1>5, OthersFit
  <2> QED  BY <1>0, <1>5, <2>1 DEF Turn, Attended
<1>6. ASSUME NEW i \in Nat, Gets(at[w], y, i), RunStep, i <= Len(run') PROVE Fits
  <2>1. Len(run) \in Nat /\ Len(run') \in Nat /\ Len(run) <= Len(run')
    BY <1>0, <1>6, OthersFit
  <2> QED  BY <1>0, <1>6, <2>1 DEF Gets, Attended
<1>7. ASSUME NEW r \in Row, NEW z, RowAs(r, z), z.run <= Len(run), UNCHANGED run PROVE RowOK'
  BY <1>0, <1>7, RowBecomes DEF RowOK
<1>8. CASE RunsOn(w, y)
  BY <1>0, <1>3, <1>4, <1>5, <1>8, OthersFit DEF RunsOn
<1>9. CASE Judges(w, y)
  <2>1. RunStep
    <3>1. "verdict" \in End
      BY DEF End
    <3>2. PICK i \in Nat : run' = Ended(i, "verdict")
      BY <1>0, <1>9 DEF Judges
    <3> QED  BY <3>1, <3>2 DEF RunStep, EndsOne
  <2> QED  BY <1>0, <1>3, <1>4, <1>5, <1>9, <2>1, OthersFit DEF Judges
<1>10. CASE StartsIts(w, y)
  <2>1. PICK i \in Nat : run' = Ended(i, "open") /\ i = at[w].carried
    BY <1>0, <1>10 DEF StartsIts
  <2>2. RunStep
    BY <2>1 DEF RunStep, EndsOne
  <2>3. i <= Len(run')
    BY <1>0, <2>1, <2>2, OthersFit
  <2>4. Fits
    BY <1>6, <1>10, <2>1, <2>2, <2>3 DEF StartsIts
  <2> QED  BY <1>0, <1>3, <1>4, <1>10, <2>2, <2>4, OthersFit DEF StartsIts
<1>11. CASE OpensIts(w, y)
  <2>1. at[w].head \in 1..Heads /\ run' = Opened(at[w].head)
    BY <1>0, <1>11 DEF OpensIts
  <2>2. RunStep /\ Len(run') = Len(run) + 1 /\ Len(run) + 1 \in Nat
    BY <1>0, <2>1, OpeningIs
  <2>3. Fits
    BY <1>6, <1>11, <2>2 DEF OpensIts
  <2> QED  BY <1>0, <1>3, <1>4, <1>11, <2>2, <2>3, OthersFit DEF OpensIts
<1>12. CASE Claims(w, y)
  <2>1. RunStep /\ UNCHANGED run
    BY <1>12, SameRuns DEF Claims
  <2>2. PICK r, z : /\ r \in Row
                     /\ y.r = r /\ y.carried = row[r].run /\ y.own = 0 /\ y.head \in 1..Heads
                     /\ RowAs(r, z) /\ z.run = row[r].run
    BY <1>12 DEF Claims
  <2>3. Fits
    BY <1>0, <2>1, <2>2, OthersFit
  <2>4. RowOK'
    BY <1>0, <1>7, <2>1, <2>2
  <2> QED  BY <1>3, <1>4, <2>1, <2>3, <2>4
<1>13. CASE EndsRow(w, y)
  <2>1. RunStep /\ UNCHANGED run /\ Turn(at[w], y) /\ at[w].r \in Row
    BY <1>0, <1>13, SameRuns DEF EndsRow
  <2>2. UNCHANGED row \/ \E z : RowAs(at[w].r, z) /\ z.run = row[at[w].r].run
    BY <1>13 DEF EndsRow, Writes
  <2>3. RowOK'
    BY <1>0, <1>7, <2>1, <2>2, OthersFit
  <2> QED  BY <1>3, <1>4, <1>5, <2>1, <2>3
<1>14. CASE RecordsIts(w, y)
  <2>1. RunStep /\ UNCHANGED run /\ Turn(at[w], y) /\ at[w].r \in Row
    BY <1>0, <1>14, SameRuns DEF RecordsIts, Attended
  <2>2. PICK z : RowAs(at[w].r, z) /\ z.run = at[w].own
    BY <1>14 DEF RecordsIts
  <2>3. RowOK'
    BY <1>0, <1>7, <2>1, <2>2
  <2> QED  BY <1>3, <1>4, <1>5, <2>1, <2>3
<1>15. CASE QueuesHead(w, y)
  <2>1. RunStep /\ UNCHANGED run /\ Turn(at[w], y)
        /\ row' \in [Row -> RowRecord] /\ Brings(Row \ Delivery, 0)
    BY <1>15, SameRuns DEF QueuesHead
  <2>2. \A x \in Row : row'[x].run \in {row[x].run, 0}
    BY <2>1 DEF Brings, SameRow
  <2>3. UNCHANGED run /\ Len(run) \in Nat
    BY <1>0, <2>1, OthersFit
  <2>4. \A x \in Row : row'[x].run <= Len(run')
    BY <1>0, <2>2, <2>3
  <2>5. RowOK'
    BY <2>1, <2>4 DEF RowOK
  <2> QED  BY <1>3, <1>4, <1>5, <2>1, <2>5
<1> QED
  BY <1>1, <1>8, <1>9, <1>10, <1>11, <1>12, <1>13, <1>14, <1>15 DEF AttemptEffect

LEMMA RequestKeepsTypes ==
  ASSUME CheckConstants, TypeInv, NEW q \in Request, RequestMay(q)
  PROVE  TypeInv'
<1>1. PICK y : ReqFits(q, y)
  BY DEF RequestMay
<1>0. /\ UNCHANGED <<scenario, tip, at, reaper, sweep, operated>> /\ FaultStep /\ RunStep
      /\ RunOK /\ RowOK /\ ReqOK /\ AtOK /\ ReaperOK /\ SweepOK /\ ClockOK
      /\ req \in [Request -> ReqRecord] /\ row' \in [Row -> RowRecord]
      /\ \A r \in Row : row'[r].run \in {row[r].run, 0, req[q].run}
      /\ \A p \in Request : req[p].run \in Nat /\ req[p].run <= Len(run)
      /\ \A r \in Row : row[r].run \in Nat /\ row[r].run <= Len(run)
  BY DEF RequestMay, ingressKeeps, TypeInv, ReqOK, RowOK, ReqRecord, RowRecord, RunId
<1>2. RunOK' /\ Len(run) \in Nat /\ Len(run') \in Nat /\ Len(run) <= Len(run')
  BY <1>0, OthersFit
<1>3. RowOK'
  <2>1. \A r \in Row : row'[r].run <= Len(run')
    BY <1>0, <1>2
  <2> QED  BY <1>0, <2>1 DEF RowOK
<1>4. ReqOK'
  <2>1. /\ req' \in [Request -> ReqRecord] /\ req'[q] = y
        /\ \A p \in Request : p # q => req'[p] = req[p]
    BY <1>0, <1>1, ReqBecomes DEF ReqFits
  <2>2. ASSUME NEW p \in Request
        PROVE  /\ req'[p].run <= Len(run')
               /\ req'[p].pc \notin {"none", "over"} => req'[p].d \in Delivery
               /\ req'[p].late = "asked" => req'[p].pc \in {"insert", "adopt"}
    <3>1. CASE p = q
      BY <1>1, <2>1, <3>1 DEF ReqFits
    <3>2. CASE p # q
      BY <1>0, <1>2, <2>1, <3>2 DEF ReqOK, RequestsKnow, LateIsAsked
    <3> QED  BY <3>1, <3>2
  <2> QED  BY <2>1, <2>2 DEF ReqOK, RequestsKnow, LateIsAsked
<1> QED  BY <1>0, <1>2, <1>3, <1>4, OthersFit, FaultsFit DEF TypeInv

LEMMA ReaperKeepsTypes ==
  ASSUME CheckConstants, TypeInv, ReaperMay
  PROVE  TypeInv'
<1>0. /\ UNCHANGED <<scenario, tip, req, at, sweep, operated>> /\ FaultStep
      /\ reaper' \in HandRecord /\ HandKnows(reaper') /\ reaper'.pc # "mark"
      /\ RunOK /\ RowOK /\ ReqOK /\ AtOK /\ ReaperOK /\ SweepOK /\ ClockOK
      /\ row \in [Row -> RowRecord] /\ reaper.run \in Nat /\ reaper.run <= Len(run)
      /\ HandKnows(reaper)
      /\ \A r \in Row : row[r].run \in Nat /\ row[r].run <= Len(run)
  BY DEF ReaperMay, reaperKeeps, TypeInv, ReaperOK, HandOK, HandRecord, RowOK, RowRecord, RunId
<1>1. ASSUME RunStep, RowOK', reaper'.run \in {reaper.run, 0} \cup {row[r].run : r \in Row}
      PROVE  TypeInv'
  <2>1. Len(run) \in Nat /\ Len(run') \in Nat /\ Len(run) <= Len(run')
    BY <1>0, <1>1, OthersFit
  <2>2. reaper'.run <= Len(run')
    BY <1>0, <1>1, <2>1
  <2>3. ReaperOK'
    BY <1>0, <2>2 DEF ReaperOK, HandOK, HandKnows
  <2> QED  BY <1>0, <1>1, <2>3, OthersFit, FaultsFit DEF TypeInv
<1>2. ASSUME NEW r \in Row, Reaps(r) \/ Marks(r) PROVE TypeInv'
  <2>1. RunStep /\ UNCHANGED run
    BY <1>2, SameRuns DEF Reaps, Marks
  <2>2. PICK y : RowAs(r, y) /\ y.run \in {row[r].run, 0}
    BY <1>2 DEF Reaps, Marks, SameRow
  <2>3. Len(run) \in Nat
    BY <1>0, <2>1, OthersFit
  <2>4. RowOK'
    BY <1>0, <2>1, <2>2, <2>3, RowBecomes DEF RowOK
  <2>5. reaper'.run = row[r].run
    BY <1>2 DEF Reaps, Marks, HandIs
  <2> QED  BY <1>1, <2>1, <2>4, <2>5
<1>3. CASE ReaperCloses
  BY <1>0, <1>1, <1>3, OthersFit DEF ReaperCloses, HandIs
<1>4. CASE ReaperQueues
  <2>1. RunStep /\ UNCHANGED run
    BY <1>4, SameRuns DEF ReaperQueues
  <2>2. \A x \in Row : row'[x].run \in {row[x].run, 0}
    BY <1>4 DEF ReaperQueues, Brings, SameRow
  <2>3. Len(run) \in Nat
    BY <1>0, <2>1, OthersFit
  <2>4. \A x \in Row : row'[x].run <= Len(run')
    BY <1>0, <2>1, <2>2, <2>3
  <2>5. RowOK'
    BY <1>4, <2>4 DEF RowOK, ReaperQueues
  <2> QED  BY <1>1, <1>4, <2>1, <2>5 DEF ReaperQueues, HandIs
<1>5. CASE Tells
  <2>1. RunStep /\ reaper'.run = 0 /\ reaper.r \in Row
    BY <1>0, <1>5 DEF Tells, HandIs, HandKnows
  <2>2. Len(run) \in Nat /\ Len(run') \in Nat /\ Len(run) <= Len(run')
    BY <1>0, <2>1, OthersFit
  <2>3. CASE UNCHANGED row
    BY <1>0, <1>1, <2>1, <2>3, OthersFit
  <2>4. CASE Len(run') = Len(run) + 1 /\ \E y : RowAs(reaper.r, y) /\ y.run = Len(run) + 1
    <3>1. PICK y : RowAs(reaper.r, y) /\ y.run = Len(run) + 1
      BY <2>4
    <3>2. /\ row' \in [Row -> RowRecord] /\ row'[reaper.r] = y
          /\ \A x \in Row : x # reaper.r => row'[x] = row[x]
      BY <1>0, <2>1, <3>1, RowBecomes
    <3>3. \A x \in Row : row'[x].run <= Len(run')
      BY <1>0, <2>2, <2>4, <3>1, <3>2
    <3>4. RowOK'
      BY <3>2, <3>3 DEF RowOK
    <3> QED  BY <1>1, <2>1, <3>4
  <2> QED  BY <1>5, <2>3, <2>4 DEF Tells
<1> QED  BY <1>2, <1>3, <1>4, <1>5 DEF ReaperMay

LEMMA SweepKeepsTypes ==
  ASSUME CheckConstants, TypeInv, NEW s \in Sweeper, SweepMay(s)
  PROVE  TypeInv'
<1>0. /\ UNCHANGED <<scenario, tip, req, at, reaper, operated>> /\ FaultStep /\ RunStep
      /\ RunOK /\ RowOK /\ ReqOK /\ AtOK /\ ReaperOK /\ SweepOK /\ ClockOK
      /\ row \in [Row -> RowRecord] /\ sweep[s].run \in Nat /\ sweep[s].run <= Len(run)
      /\ sweep \in [Sweeper -> HandRecord]
      /\ \A r \in Row : row[r].run \in Nat /\ row[r].run <= Len(run)
  BY DEF SweepMay, sweepKeeps, TypeInv, SweepOK, HandOK, HandRecord, RowOK, RowRecord, RunId
<1>1. Len(run) \in Nat /\ Len(run') \in Nat /\ Len(run) <= Len(run')
  BY <1>0, OthersFit
<1>2. RowOK'
  <2>1. CASE UNCHANGED row
    BY <1>0, <2>1, OthersFit
  <2>2. CASE \E r \in Row : \E y : RowAs(r, y) /\ SameRow(row[r], y)
    <3>1. PICK r, y : r \in Row /\ RowAs(r, y) /\ SameRow(row[r], y)
      BY <2>2
    <3>2. /\ row' \in [Row -> RowRecord] /\ row'[r] = y
          /\ \A x \in Row : x # r => row'[x] = row[x]
      BY <1>0, <3>1, RowBecomes
    <3>3. \A x \in Row : row'[x].run <= Len(run')
      BY <1>0, <1>1, <3>1, <3>2 DEF SameRow
    <3> QED  BY <3>2, <3>3 DEF RowOK
  <2> QED  BY <2>1, <2>2 DEF SweepMay
<1>3. PICK h : /\ h \in HandRecord /\ HandKnows(h) /\ h.pc \in {"idle", "close", "mark"}
               /\ h.run \in {row[r].run : r \in Row} \cup {sweep[s].run, 0}
               /\ sweep' = [sweep EXCEPT ![s] = h]
  BY DEF SweepMay
<1>4. HandOK(h)'
  <2>1. h.run <= Len(run')
    BY <1>0, <1>1, <1>3
  <2> QED  BY <1>3, <2>1 DEF HandOK, HandKnows
<1>5. SweepOK'
  <2>1. /\ sweep' \in [Sweeper -> HandRecord] /\ sweep'[s] = h
        /\ \A x \in Sweeper : x # s => sweep'[x] = sweep[x]
    BY <1>0, <1>3
  <2>2. ASSUME NEW x \in Sweeper
        PROVE  HandOK(sweep[x])' /\ sweep'[x].pc \in {"idle", "close", "mark"}
    <3>1. CASE x = s
      BY <1>3, <1>4, <2>1, <3>1 DEF HandOK, HandKnows
    <3>2. CASE x # s
      <4>1. sweep[x].run \in Nat /\ HandOK(sweep[x]) /\ sweep[x].pc \in {"idle", "close", "mark"}
        BY <1>0 DEF SweepOK, HandOK, HandRecord, RunId
      <4> QED  BY <1>1, <2>1, <3>2, <4>1 DEF HandOK, HandKnows
    <3> QED  BY <3>1, <3>2
  <2> QED  BY <2>1, <2>2 DEF SweepOK
<1> QED  BY <1>0, <1>2, <1>5, OthersFit, FaultsFit DEF TypeInv

EnvMay(r) ==
  /\ UNCHANGED <<scenario, tip, run, req, at, reaper, sweep, faults>> /\ Operate
  /\ \E y : /\ RowAs(r, y) /\ y.run = row[r].run
            /\ \/ y.status = row[r].status /\ y.tries = row[r].tries
               \/ row[r].status = "queued" /\ y.status = "cancelled" /\ y.tries = row[r].tries
               \/ /\ row[r].status \in {"dead", "failed", "cancelled"} /\ Looked(r)
                  /\ y.status = "queued" /\ y.tries = 0

LEMMA EachEnv ==
  ASSUME CheckConstants, TypeInv, NEW r \in Row, Cancel(r) \/ RetryNow(r)
  PROVE  EnvMay(r)
<1>0. row \in [Row -> RowRecord]
  BY DEF TypeInv, RowOK
<1>1. CASE Cancel(r)
  <2>1. UNCHANGED <<scenario, tip, run, req, at, reaper, sweep, faults>> /\ Operate
    BY <1>1 DEF Cancel
  <2> QED  BY <1>0, <1>1, <2>1, CancelIs DEF EnvMay
<1>2. CASE RetryNow(r)
  <2>1. UNCHANGED <<scenario, tip, run, req, at, reaper, sweep, faults>> /\ Operate
    BY <1>2 DEF RetryNow
  <2> QED  BY <1>0, <1>2, <2>1, RetryIs DEF EnvMay
<1> QED  BY <1>1, <1>2

LEMMA EnvKeepsTypes ==
  ASSUME CheckConstants, TypeInv, NEW r \in Row, EnvMay(r)
  PROVE  TypeInv'
<1>0. /\ UNCHANGED <<scenario, tip, run, req, at, reaper, sweep, faults>> /\ Operate
      /\ RunOK /\ RowOK /\ ReqOK /\ AtOK /\ ReaperOK /\ SweepOK /\ ClockOK
      /\ row \in [Row -> RowRecord]
  BY DEF EnvMay, TypeInv, RowOK
<1>1. PICK y : RowAs(r, y) /\ y.run = row[r].run
  BY DEF EnvMay
<1>2. RowOK'
  BY <1>0, <1>1, RowBecomes DEF RowOK
<1>3. ClockOK'
  <2>1. scenario.operator \in Nat
    BY <1>0, CheckConstants DEF ClockOK, CheckConstants, Scenario
  <2> QED  BY <1>0, <2>1 DEF ClockOK, Operate
<1> QED  BY <1>0, <1>2, <1>3, SameRuns, OthersFit DEF TypeInv

(* The head moves on, or nothing happens. *)
Rests == UNCHANGED <<scenario, run, row, req, at, reaper, sweep, faults, operated>>

LEMMA Steps ==
  ASSUME CheckConstants, TypeInv, [Next]_vars
  PROVE  \/ Rests /\ (UNCHANGED tip \/ (tip < Heads /\ tip' = tip + 1))
         \/ \E r \in Row : EnvMay(r)
         \/ \E q \in Request : Receive(q) \/ RequestStep(q)
         \/ \E w \in Worker : AttemptMay(w)
         \/ ReaperMay
         \/ \E s \in Sweeper : SweepMay(s)
<1>1. CASE UNCHANGED vars
  BY <1>1 DEF vars, Rests
<1>2. CASE Push
  BY <1>2 DEF Push, Rests
<1>3. CASE \E r \in Row : Cancel(r) \/ RetryNow(r)
  BY <1>3, EachEnv
<1>4. CASE \E q \in Request : Receive(q) \/ RequestStep(q)
  BY <1>4
<1>5. CASE \E w \in Worker : AttemptStep(w) \/ Stop(w) \/ SettleStep(w) \/ Die(w)
  BY <1>5, EachAttempt
<1>6. CASE ReaperStep
  BY <1>6, EachReaper
<1>7. CASE \E s \in Sweeper : SweepStep(s)
  BY <1>7, EachSweep
<1> QED  BY <1>1, <1>2, <1>3, <1>4, <1>5, <1>6, <1>7 DEF Next

LEMMA TypesHold == Spec => []TypeInv
<1>1. Init => TypeInv
  <2> SUFFICES ASSUME Init PROVE TypeInv
    OBVIOUS
  <2>1. Heads \in Nat \ {0} /\ Budget \in Nat /\ scenario.faults \in Nat /\ scenario.operator \in Nat
    BY CheckConstants DEF CheckConstants, Init, Scenario
  <2>2. ClockOK
    BY <2>1 DEF Init, ClockOK
  <2>3. run = <<>> /\ Len(run) = 0 /\ RunOK
    BY DEF Init, RunOK
  <2>4. NoRow \in RowRecord /\ NoRow.run = 0
    <3>1. "queued" \in Status /\ "none" \in Status /\ 0 \in 0..Budget
      BY <2>1 DEF Status, Live
    <3>2. NewRow \in RowRecord /\ NewRow.run = 0
      BY <3>1 DEF NewRow, RowRecord, RunId
    <3> QED  BY <3>1, <3>2 DEF NoRow, RowRecord
  <2>5. NoReq \in ReqRecord /\ NoReq.run = 0 /\ NoReq.pc = "none" /\ NoReq.late = "no"
    BY DEF NoReq, ReqRecord, RunId
  <2>6. RowOK
    BY <2>3, <2>4 DEF Init, RowOK
  <2>7. ReqOK
    BY <2>3, <2>5 DEF Init, ReqOK, RequestsKnow, LateIsAsked
  <2>8. AtOK
    BY <2>3, IdleRecord DEF Init, AtOK, AttemptsKnow
  <2>9. HandOK(Resting) /\ Resting.pc = "idle"
    BY <2>3, RestingHand DEF HandOK, HandIs
  <2>10. ReaperOK /\ SweepOK
    BY <2>9 DEF Init, ReaperOK, SweepOK, HandOK
  <2> QED  BY <2>2, <2>3, <2>6, <2>7, <2>8, <2>10 DEF TypeInv
<1>2. TypeInv /\ [Next]_vars => TypeInv'
  <2> SUFFICES ASSUME TypeInv, [Next]_vars PROVE TypeInv'
    OBVIOUS
  <2>1. CASE Rests /\ (UNCHANGED tip \/ (tip < Heads /\ tip' = tip + 1))
    <3>1. ClockOK'
      BY <2>1, CheckConstants DEF TypeInv, ClockOK, Rests, CheckConstants
    <3> QED  BY <2>1, <3>1, SameRuns, OthersFit DEF TypeInv, Rests
  <2> QED  BY CheckConstants, <2>1, Steps, EnvKeepsTypes, EachRequest, RequestKeepsTypes,
              AttemptKeepsTypes, ReaperKeepsTypes, SweepKeepsTypes
<1> QED  BY <1>1, <1>2, PTL DEF Spec

(* Every thread, row and run is well formed, and what they hold exists:    *)
(* nobody completes, adopts or records a run that was never opened.        *)
THEOREM ChecksTypeCorrect == Spec => []TypeOK
BY TypesHold, TypeInvIsStronger, PTL

-----------------------------------------------------------------------------
(* A row has one attempt at a time: the working attempt's row runs, or its *)
(* canceller has written it, and nobody else writes it until it is over.   *)
Working(w) == at[w].pc \in WorkPc
HoldsRow(w) ==
  /\ row[at[w].r].status = "running" \/ (at[w].final /\ row[at[w].r].status = "done")
  /\ row[at[w].r].tries > 0
  /\ at[w].pc \in EarlyPc => at[w].own = 0
  /\ at[w].pc \in {"probe", "startrun"} => at[w].carried # 0
  /\ at[w].pc = "record" => at[w].own # 0

RowsHeld == \A w \in Worker : Working(w) => HoldsRow(w)
OnePerRow == \A v, w \in Worker : Working(v) /\ Working(w) /\ at[v].r = at[w].r => v = w
EndedForGood == \A w \in Worker : Attended(at[w]) /\ ~Working(w) => at[w].final
Alone == RowsHeld /\ OnePerRow /\ EndedForGood

RowKept(r) == row'[r].status = row[r].status /\ row'[r].tries = row[r].tries

(* Attempts stay as they are, and the rows they work on too. *)
LEMMA AloneStays ==
  ASSUME Alone, UNCHANGED at,
         \A r \in Row : row[r].status \in {"running", "done"} /\ (\E w \in Worker : Working(w) /\ at[w].r = r)
                          => RowKept(r),
         TypeInv
  PROVE  Alone'
<1>1. \A w \in Worker : Working(w) => at[w].r \in Row
  BY DEF TypeInv, AtOK, AttemptsKnow, Working, WorkPc, Point
<1>2. \A w \in Worker : Working(w) => row[at[w].r].status \in {"running", "done"}
  BY DEF Alone, RowsHeld, HoldsRow
<1>3. \A w \in Worker : Working(w) => RowKept(at[w].r)
  BY <1>1, <1>2
<1>4. RowsHeld'
  BY <1>3 DEF Alone, RowsHeld, HoldsRow, Working, RowKept
<1> QED  BY <1>4 DEF Alone, OnePerRow, EndedForGood, Working

LEMMA BringsKeeps ==
  ASSUME NEW R, NEW i, Brings(R, i), NEW r \in Row, row[r].status \in {"running", "done"}
  PROVE  RowKept(r) /\ row'[r].run = row[r].run
BY DEF Brings, SameRow, RowKept

LEMMA TurnsWork ==
  ASSUME NEW x, NEW y, Turn(x, y), y.pc \in WorkPc
  PROVE  /\ x.pc \in WorkPc /\ y.r = x.r /\ y.own = x.own /\ y.carried = x.carried
         /\ x.final => y.final
         /\ y.pc \in EarlyPc => x.pc \in EarlyPc
         /\ y.pc \in AsksPc => x.pc \in AsksPc
         /\ y.pc \in {"probe", "startrun"} => x.pc \in {"probe", "startrun"} \/ x.carried # 0
         /\ y.pc = "record" => x.pc = "record"
         /\ y.pc = "startrun" => x.pc = "startrun" \/ Open(x.carried)
BY DEF Turn, Attended, WorkPc, Point

LEMMA AttemptKeepsAlone ==
  ASSUME CheckConstants, TypeInv, Alone, NEW w \in Worker, NEW y, AttemptEffect(w, y)
  PROVE  Alone'
<1>0. /\ at \in [Worker -> AttemptRecord] /\ row \in [Row -> RowRecord] /\ AtAs(w, y)
      /\ Len(run) \in Nat /\ at[w].carried \in Nat /\ at[w].carried <= Len(run)
      /\ \A v \in Worker : Attended(at[v]) => at[v].r \in Row
      /\ \A v \in Worker : Working(v) => Attended(at[v])
  BY LenProperties DEF AttemptEffect, TypeInv, AtOK, RowOK, RunOK, AttemptsKnow, Attended, Working, WorkPc, Point, AttemptRecord, RunId
<1>1. at'[w] = y /\ \A v \in Worker : v # w => at'[v] = at[v]
  BY <1>0, AtBecomes
<1>2. \A v \in Worker : Working(v) => row[at[v].r].status \in {"running", "done"} /\ HoldsRow(v)
  BY DEF Alone, RowsHeld, HoldsRow
<1> DEFINE Others == \A v \in Worker : v # w /\ Working(v) => RowKept(at[v].r)
           Mine == y.pc \in WorkPc =>
                     /\ row'[y.r].status = "running" \/ (y.final /\ row'[y.r].status = "done")
                     /\ row'[y.r].tries > 0
                     /\ y.pc \in EarlyPc => y.own = 0
                     /\ y.pc \in {"probe", "startrun"} => y.carried # 0
                     /\ y.pc = "record" => y.own # 0
           Sole == y.pc \in WorkPc => \A v \in Worker : v # w /\ Working(v) => at[v].r # y.r
           Last == Attended(y) /\ y.pc \notin WorkPc => y.final
<1>3. ASSUME Others, Mine, Sole, Last PROVE Alone'
  <2>1. ASSUME NEW v \in Worker, Working(v)' PROVE HoldsRow(v)'
    <3>1. CASE v = w
      BY <1>1, <1>3, <2>1, <3>1 DEF Working, HoldsRow
    <3>2. CASE v # w
      <4>1. at'[v] = at[v] /\ Working(v)
        BY <1>1, <2>1, <3>2 DEF Working
      <4> QED  BY <1>2, <1>3, <3>2, <4>1 DEF HoldsRow, RowKept
    <3> QED  BY <3>1, <3>2
  <2>2. ASSUME NEW u \in Worker, NEW v \in Worker, Working(u)', Working(v)', at'[u].r = at'[v].r
        PROVE  u = v
    BY <1>1, <1>3, <2>2 DEF Alone, OnePerRow, Working
  <2>3. ASSUME NEW v \in Worker, Attended(at'[v]), ~Working(v)' PROVE at'[v].final
    BY <1>1, <1>3, <2>3 DEF Alone, EndedForGood, Working
  <2> QED  BY <2>1, <2>2, <2>3 DEF Alone, RowsHeld, OnePerRow, EndedForGood, Attended
<1>4. ASSUME Turn(at[w], y) PROVE Sole /\ Last
  <2>1. Sole
    BY <1>4, TurnsWork DEF Alone, OnePerRow, Working
  <2>2. Last
    BY <1>4 DEF Turn, Alone, EndedForGood, Working
  <2> QED  BY <2>1, <2>2
<1>5. ASSUME Turn(at[w], y), y.pc \in WorkPc => RowKept(at[w].r) PROVE Mine
  <2> SUFFICES ASSUME y.pc \in WorkPc
               PROVE  /\ row'[y.r].status = "running" \/ (y.final /\ row'[y.r].status = "done")
                      /\ row'[y.r].tries > 0
                      /\ y.pc \in EarlyPc => y.own = 0
                      /\ y.pc \in {"probe", "startrun"} => y.carried # 0
                      /\ y.pc = "record" => y.own # 0
    OBVIOUS
  <2>1. HoldsRow(w)
    BY <1>2, <1>5, TurnsWork DEF Working
  <2> QED  BY <1>5, <2>1, TurnsWork DEF HoldsRow, RowKept
<1>6. ASSUME UNCHANGED row PROVE Others /\ \A r : RowKept(r)
  BY <1>6 DEF RowKept
<1>7. CASE RunsOn(w, y) \/ Judges(w, y)
  <2>1. UNCHANGED row /\ Turn(at[w], y)
    BY <1>7 DEF RunsOn, Judges
  <2> QED  BY <1>3, <1>4, <1>5, <1>6, <2>1
<1>8. CASE StartsIts(w, y) \/ OpensIts(w, y)
  <2>1. PICK i \in {at[w].carried, Len(run) + 1} :
          /\ UNCHANGED row /\ Gets(at[w], y, i) /\ (i = at[w].carried => at[w].pc = "startrun")
    BY <1>0, <1>8 DEF StartsIts, OpensIts
  <2>2. /\ Working(w) /\ y.pc = "record" /\ y.r = at[w].r /\ y.own = i /\ y.final = at[w].final
        /\ y.pc \notin EarlyPc
    BY <2>1 DEF Gets, Working, WorkPc, Point, EarlyPc
  <2>3. HoldsRow(w)
    BY <1>2, <2>2
  <2>4. i # 0
    BY <1>0, <2>1, <2>3 DEF HoldsRow
  <2>5. Mine
    BY <1>6, <2>1, <2>2, <2>3, <2>4 DEF HoldsRow, RowKept
  <2>6. Sole
    BY <2>2 DEF Alone, OnePerRow
  <2>7. Last
    BY <2>2 DEF WorkPc, Point
  <2> QED  BY <1>3, <1>6, <2>1, <2>5, <2>6, <2>7
<1>9. CASE Claims(w, y)
  <2>1. PICK r, z :
          /\ r \in Row
          /\ row[r].status = "queued" /\ y.pc = "start" /\ y.r = r /\ y.own = 0 /\ y.final = FALSE
          /\ RowAs(r, z) /\ z.status = "running" /\ z.tries > 0
    BY <1>9 DEF Claims
  <2>2. row'[r] = z /\ \A x \in Row : x # r => row'[x] = row[x]
    BY <1>0, <2>1, RowBecomes
  <2>3. \A v \in Worker : Working(v) => at[v].r # r /\ at[v].r \in Row
    BY <1>0, <1>2, <2>1
  <2>4. Others /\ Sole
    BY <2>1, <2>2, <2>3 DEF RowKept
  <2>5. Mine /\ Last
    BY <2>1, <2>2 DEF WorkPc, Point
  <2> QED  BY <1>3, <2>4, <2>5
<1>10. CASE EndsRow(w, y)
  <2>1. PICK s \in Status : Writes(at[w].r, s) /\ (y.pc \notin WorkPc \/ (s = "done" /\ y.final))
    BY <1>10 DEF EndsRow
  <2>2. Turn(at[w], y) /\ Attended(at[w]) /\ ~at[w].final /\ at[w].r \in Row
    BY <1>0, <1>10 DEF EndsRow
  <2>3. Working(w)
    BY <2>2 DEF Alone, EndedForGood
  <2>4. CASE UNCHANGED row
    BY <1>3, <1>4, <1>5, <1>6, <2>2, <2>4
  <2>5. CASE \E z : RowAs(at[w].r, z) /\ z.status = s /\ z.tries = row[at[w].r].tries
    <3>1. PICK z : RowAs(at[w].r, z) /\ z.status = s /\ z.tries = row[at[w].r].tries
      BY <2>5
    <3>2. row'[at[w].r] = z /\ \A x \in Row : x # at[w].r => row'[x] = row[x]
      BY <1>0, <2>2, <3>1, RowBecomes
    <3>3. Others
      BY <1>0, <2>3, <3>2 DEF Alone, OnePerRow, RowKept
    <3>4. Mine
      <4> SUFFICES ASSUME y.pc \in WorkPc
                   PROVE  /\ row'[y.r].status = "running" \/ (y.final /\ row'[y.r].status = "done")
                          /\ row'[y.r].tries > 0
                          /\ y.pc \in EarlyPc => y.own = 0
                          /\ y.pc \in {"probe", "startrun"} => y.carried # 0
                          /\ y.pc = "record" => y.own # 0
        OBVIOUS
      <4>1. HoldsRow(w) /\ s = "done" /\ y.final
        BY <1>2, <2>1, <2>3
      <4> QED  BY <2>2, <3>1, <3>2, <4>1, TurnsWork DEF HoldsRow
    <3> QED  BY <1>3, <1>4, <2>2, <3>3, <3>4
  <2> QED  BY <2>1, <2>4, <2>5 DEF Writes
<1>11. CASE RecordsIts(w, y)
  <2>1. PICK z : RowAs(at[w].r, z) /\ z.status = row[at[w].r].status /\ z.tries = row[at[w].r].tries
    BY <1>11 DEF RecordsIts
  <2>2. Turn(at[w], y) /\ at[w].r \in Row
    BY <1>0, <1>11 DEF RecordsIts, Attended
  <2>3. row'[at[w].r] = z /\ \A x \in Row : x # at[w].r => row'[x] = row[x]
    BY <1>0, <2>1, <2>2, RowBecomes
  <2>4. \A x \in Row : RowKept(x)
    BY <2>1, <2>3 DEF RowKept
  <2> QED  BY <1>0, <1>3, <1>4, <1>5, <2>2, <2>4
<1>12. CASE QueuesHead(w, y)
  <2>1. Turn(at[w], y) /\ Brings(Row \ Delivery, 0)
    BY <1>12 DEF QueuesHead
  <2>2. \A v \in Worker : Working(v) => RowKept(at[v].r)
    BY <1>0, <1>2, <2>1, BringsKeeps
  <2>3. y.pc \in WorkPc => RowKept(at[w].r)
    BY <2>1, <2>2, TurnsWork DEF Working
  <2> QED  BY <1>3, <1>4, <1>5, <2>1, <2>2, <2>3
<1> QED  BY <1>7, <1>8, <1>9, <1>10, <1>11, <1>12 DEF AttemptEffect

(* Requests bring rows and give them runs: those at work are left alone. *)
LEMMA RequestKeepsAlone ==
  ASSUME CheckConstants, TypeInv, Alone, NEW q \in Request, Receive(q) \/ RequestStep(q)
  PROVE  Alone'
<1>0. /\ row \in [Row -> RowRecord] /\ req[q].run \in Nat
      /\ req[q].pc \notin {"none", "over"} => req[q].d \in Row
      /\ UNCHANGED at
  BY EachRequest DEF RequestMay, ingressKeeps, TypeInv, RowOK, ReqOK, ReqRecord, RunId, RequestsKnow, CheckConstants
<1>1. \A r \in Row : row[r].status \in {"running", "done"} => RowKept(r)
  <2>1. CASE UNCHANGED row
    BY <2>1 DEF RowKept
  <2>2. CASE Insert(q)
    <3>1. req[q].d \in Row /\ (UNCHANGED row \/ \E i \in Nat : Fresh(req[q].d) /\ row' = Inserted(req[q].d, i))
      BY <1>0, <2>2 DEF Insert
    <3>2. UNCHANGED row \/ \E i \in Nat : Brings({req[q].d}, i)
      BY <1>0, <3>1, CheckConstants, InsertedIs
    <3> QED  BY <2>1, <3>2, BringsKeeps
  <2>3. CASE Adopt(q)
    <3>0. Adopters(q) \subseteq Row
      BY <1>0, <2>3 DEF Adopt, Adopters, SameHead
    <3>1. UNCHANGED row \/ \E x \in Row : row' = [row EXCEPT ![x].run = req[q].run]
      BY <2>3, <3>0 DEF Adopt
    <3>2. ASSUME NEW x \in Row, row' = [row EXCEPT ![x].run = req[q].run]
          PROVE  \A r \in Row : RowKept(r)
      <4>1. PICK i \in Nat : i = req[q].run /\ row' = [row EXCEPT ![x].run = i]
        BY <1>0, <3>2
      <4>2. PICK y : RowAs(x, y) /\ y.status = row[x].status /\ y.tries = row[x].tries
        BY <1>0, <4>1, RowRunIs
      <4> QED  BY <1>0, <4>2, RowBecomes DEF RowKept
    <3> QED  BY <2>1, <3>1, <3>2
  <2> QED  BY <2>1, <2>2, <2>3
           DEF RequestStep, Receive, Create, CreateLate, LateAnswer, Bind, CloseOrphan
<1> QED  BY <1>0, <1>1, AloneStays

LEMMA EnvKeepsAlone ==
  ASSUME CheckConstants, TypeInv, Alone, NEW r \in Row, EnvMay(r)
  PROVE  Alone'
<1>1. row \in [Row -> RowRecord] /\ UNCHANGED at
  BY DEF TypeInv, RowOK, EnvMay
<1>2. \A x \in Row : row[x].status \in {"running", "done"} => RowKept(x)
  BY <1>1, RowBecomes DEF EnvMay, RowKept
<1> QED  BY <1>1, <1>2, AloneStays

LEMMA SweepKeepsAlone ==
  ASSUME TypeInv, Alone, NEW s \in Sweeper, SweepMay(s)
  PROVE  Alone'
<1>1. row \in [Row -> RowRecord] /\ UNCHANGED at
  BY DEF TypeInv, RowOK, SweepMay, sweepKeeps
<1>2. \A x \in Row : RowKept(x)
  BY <1>1, RowBecomes DEF SweepMay, SameRow, RowKept
<1> QED  BY <1>1, <1>2, AloneStays

(* The reaper takes a row from nobody who is at work. *)
LEMMA ReaperKeepsAlone ==
  ASSUME CheckConstants, TypeInv, Alone, ReaperMay
  PROVE  Alone'
<1>0. /\ row \in [Row -> RowRecord] /\ UNCHANGED at
      /\ reaper.pc # "idle" => reaper.r \in Row
  BY DEF TypeInv, RowOK, ReaperMay, reaperKeeps, ReaperOK, HandOK, HandKnows
<1>k. ASSUME \A x \in Row : row[x].status \in {"running", "done"} /\ (\E w \in Worker : Working(w) /\ at[w].r = x)
                              => RowKept(x)
      PROVE  Alone'
  BY <1>0, <1>k, AloneStays
<1>1. ASSUME NEW r \in Row, Reaps(r) PROVE Alone'
  <2>1. \A w \in Worker : Working(w) => at[w].r # r
    BY <1>1 DEF Reaps, Lapsed, Working, WorkPc, Point
  <2>2. \A x \in Row : x # r => RowKept(x)
    BY <1>0, <1>1, RowBecomes DEF Reaps, RowKept
  <2> QED  BY <1>k, <2>1, <2>2
<1>2. ASSUME NEW r \in Row, Marks(r) PROVE Alone'
  BY <1>0, <1>2, <1>k, RowBecomes DEF Marks, RowKept, SameRow
<1>3. CASE ReaperCloses
  BY <1>3, <1>k DEF ReaperCloses, RowKept
<1>4. CASE ReaperQueues
  BY <1>4, <1>k, BringsKeeps DEF ReaperQueues
<1>5. CASE Tells
  BY <1>0, <1>5, <1>k, RowBecomes DEF Tells, RowKept
<1> QED  BY <1>1, <1>2, <1>3, <1>4, <1>5 DEF ReaperMay

LEMMA RestsKeepsAlone ==
  ASSUME Alone, UNCHANGED <<row, at>> PROVE Alone'
BY DEF Alone, RowsHeld, OnePerRow, EndedForGood, HoldsRow, Working

LEMMA AloneHolds == Spec => []Alone
<1>1. Init => Alone
  <2> SUFFICES ASSUME Init PROVE Alone
    OBVIOUS
  <2>1. \A w \in Worker : at[w].pc = "idle" /\ at[w].settle = "none"
    BY DEF Init, Idle
  <2> QED  BY <2>1 DEF Alone, RowsHeld, OnePerRow, EndedForGood, Working, WorkPc, Point, Attended
<1>2. TypeInv /\ Alone /\ [Next]_vars => Alone'
  <2> SUFFICES ASSUME TypeInv, Alone, [Next]_vars PROVE Alone'
    OBVIOUS
  <2> QED  BY CheckConstants, Steps, RestsKeepsAlone, EnvKeepsAlone, RequestKeepsAlone,
              AttemptKeepsAlone, ReaperKeepsAlone, SweepKeepsAlone DEF Rests, AttemptMay
<1> QED  BY <1>1, <1>2, TypesHold, PTL DEF Spec

-----------------------------------------------------------------------------
(* A run is one row's: the row that carries it, or whose attempt works on  *)
(* it or may yet ask for it.  A request's run is nobody's before its row   *)
(* is inserted with it, and again once the row has another.                *)
Uses(w, i) ==
  Working(w) /\ (at[w].own = i \/ (at[w].pc \in AsksPc /\ at[w].carried = i))
Of(r, i) == row[r].run = i \/ \E w \in Worker : at[w].r = r /\ Uses(w, i)
Unused(i) == \A r \in Row : ~Of(r, i)

OneRow == \A r, x \in Row, i \in Nat \ {0} : Of(r, i) /\ Of(x, i) => r = x
StartsUnjudged == \A w \in Worker : at[w].pc = "startrun" => ~Verdict(at[w].carried)
OwnRuns == \A p, q \in Request : req[p].run = req[q].run /\ req[q].run # 0 => p = q

(* Between its insert and its second look a request's row cannot end and   *)
(* start over; a review of it has run to a verdict in one attempt.         *)
Watches(q) == req[q].pc = "bind" /\ req[q].fresh
Bound(q) == Watches(q) /\ row[req[q].d].run = req[q].run
Private ==
  \A q \in Request : req[q].run # 0 /\ ~Bound(q) => ~Verdict(req[q].run) /\ Unused(req[q].run)
WorkAsJudged(q) ==
  /\ row[req[q].d].tries > 0
  /\ \A w \in Worker : Working(w) /\ at[w].r = req[q].d => at[w].own = req[q].run
Watched ==
  \A q \in Request :
    Watches(q) =>
      /\ row[req[q].d].status # "none" /\ row[req[q].d].run # 0
      /\ ~(reaper.pc = "tell" /\ reaper.run = 0 /\ reaper.r = req[q].d)
      /\ Bound(q) /\ Verdict(req[q].run) => WorkAsJudged(q)
ReaperMet == reaper.pc # "idle" => row[reaper.r].status # "none"

Sole == OneRow /\ StartsUnjudged /\ OwnRuns /\ Private /\ Watched /\ ReaperMet

(* Only one run may come to be a row's, and it was nobody's. *)
Grows(R, I) == \A r \in Row, i \in Nat \ {0} : Of(r, i)' => Of(r, i) \/ (r = R /\ i = I)

LEMMA OneRowStays ==
  ASSUME OneRow, NEW R, NEW I, Grows(R, I), Unused(I)
  PROVE  OneRow'
<1> SUFFICES ASSUME NEW r \in Row, NEW x \in Row, NEW i \in Nat \ {0}, Of(r, i)', Of(x, i)'
             PROVE  r = x
  BY DEF OneRow
<1>1. CASE i = I
  BY <1>1 DEF Grows, Unused
<1>2. CASE i # I
  BY <1>2 DEF Grows, OneRow
<1> QED  BY <1>1, <1>2

LEMMA NewIsUnused ==
  ASSUME TypeInv
  PROVE  Len(run) \in Nat /\ Unused(Len(run) + 1) /\ ~Verdict(0)
<1>1. Len(run) \in Nat /\ DOMAIN run = 1..Len(run)
  BY LenProperties DEF TypeInv, RunOK
<1>2. \A r \in Row : row[r].run \in Nat /\ row[r].run <= Len(run)
  BY DEF TypeInv, RowOK, RowRecord, RunId
<1>3. \A w \in Worker : /\ at[w].own \in Nat /\ at[w].own <= Len(run)
                        /\ at[w].carried \in Nat /\ at[w].carried <= Len(run)
  BY DEF TypeInv, AtOK, AttemptRecord, RunId
<1> QED  BY <1>1, <1>2, <1>3 DEF Unused, Of, Uses, Verdict

(* A step that leaves the requests alone, makes no verdict, and changes    *)
(* neither the run of a watched row nor who works on it.                   *)
Lives(r) == row[r].status # "none" => row'[r].status # "none"
Untold(r) == ~(reaper'.pc = "tell" /\ reaper'.run = 0 /\ reaper'.r = r)
Spared(r) ==
  /\ row'[r].run = row[r].run /\ (row[r].tries > 0 => row'[r].tries > 0)
  /\ \A w \in Worker :
       (Working(w) /\ at[w].r = r)' /\ row[r].tries > 0 =>
         Working(w) /\ at[w].r = r /\ at[w].own \in {at'[w].own, 0}

UnderWatch(r) ==
  /\ \E q \in Request : Watches(q) /\ req[q].d = r
  /\ row[r].status # "none" /\ row[r].run # 0
  /\ ~(reaper.pc = "tell" /\ reaper.run = 0 /\ reaper.r = r)

LEMMA WatchedIsUnseen ==
  ASSUME NEW r, UnderWatch(r) PROVE ~Looked(r)
BY DEF UnderWatch, Watches, Looked

LEMMA RequestsRest ==
  ASSUME TypeInv, Sole, UNCHANGED req, NEW R, Grows(R, Len(run) + 1), NoNewVerdict,
         \A r \in Row : UnderWatch(r) => Lives(r) /\ Spared(r) /\ (Untold(r) \/ reaper' = reaper)
  PROVE  OneRow' /\ OwnRuns' /\ Private' /\ Watched'
<1>0. /\ Len(run) \in Nat /\ Unused(Len(run) + 1)
      /\ \A q \in Request : /\ Watches(q) => req[q].d \in Row
                            /\ req[q].run \in Nat /\ req[q].run <= Len(run)
  BY NewIsUnused, CheckConstants DEF TypeInv, ReqOK, RequestsKnow, Watches, CheckConstants, ReqRecord, RunId
<1>1. OneRow'
  BY <1>0, OneRowStays DEF Sole
<1>2. OwnRuns'
  BY DEF Sole, OwnRuns
<1>3. ASSUME NEW q \in Request, Watches(q)
      PROVE  \E d \in Row : /\ d = req[q].d /\ row[d].status # "none" /\ row[d].run # 0
                            /\ Lives(d) /\ Spared(d) /\ Untold(d)
                            /\ Bound(q) <=> Bound(q)'
  <2>1. PICK d \in Row : d = req[q].d
    BY <1>0, <1>3
  <2>2. UnderWatch(d)
    BY <1>3, <2>1 DEF Sole, Watched, UnderWatch
  <2>3. Lives(d) /\ Spared(d) /\ (Untold(d) \/ reaper' = reaper)
    BY <2>2
  <2>4. Untold(d)
    BY <2>2, <2>3 DEF Untold, UnderWatch
  <2> QED  BY <2>1, <2>2, <2>3, <2>4 DEF Spared, Bound, Watches, UnderWatch
<1>4. Private'
  <2> SUFFICES ASSUME NEW q \in Request, req[q].run # 0, ~Bound(q)'
               PROVE  ~Verdict(req[q].run)' /\ Unused(req[q].run)'
    BY DEF Private
  <2>1. ~Bound(q)
    BY <1>3 DEF Bound
  <2>2. ~Verdict(req[q].run) /\ Unused(req[q].run)
    BY <2>1 DEF Sole, Private
  <2> QED  BY <1>0, <2>2 DEF Grows, Unused, NoNewVerdict
<1>5. Watched'
  <2> SUFFICES ASSUME NEW q \in Request, Watches(q), NEW d \in Row, d = req[q].d,
                      row[d].status # "none", row[d].run # 0, Lives(d), Spared(d), Untold(d),
                      Bound(q) <=> Bound(q)'
               PROVE  /\ row'[d].status # "none" /\ row'[d].run # 0 /\ Untold(d)
                      /\ Bound(q)' /\ Verdict(req[q].run)' => WorkAsJudged(q)'
    BY <1>3 DEF Watched, Watches, Untold
  <2>1. row'[d].status # "none" /\ row'[d].run # 0 /\ Untold(d)
    BY DEF Lives, Spared
  <2>2. ASSUME Bound(q)', Verdict(req[q].run)' PROVE WorkAsJudged(q)'
    <3>1. WorkAsJudged(q)
      BY <2>2 DEF Sole, Watched, NoNewVerdict
    <3>2. req[q].run # 0
      BY <2>2 DEF Bound
    <3> QED  BY <3>1, <3>2 DEF WorkAsJudged, Spared
  <2> QED  BY <2>1, <2>2
<1> QED  BY <1>1, <1>2, <1>4, <1>5

(* A step that leaves the attempts alone too. *)
RunsStay(r) == row'[r].run = row[r].run /\ (row[r].tries > 0 => row'[r].tries > 0)

LEMMA RowsOnly ==
  ASSUME TypeInv, Sole, UNCHANGED <<at, req>>, NoNewVerdict, NEW R,
         \A r \in Row : Lives(r) /\ (row'[r].run \in {row[r].run, 0} \/ (r = R /\ row'[r].run = Len(run) + 1)),
         \A r \in Row : UnderWatch(r) => RunsStay(r) /\ (Untold(r) \/ reaper' = reaper),
         ReaperMet'
  PROVE  Sole'
<1>1. Grows(R, Len(run) + 1)
  BY DEF Grows, Of, Uses, Working
<1>2. \A r \in Row : RunsStay(r) => Spared(r)
  BY DEF RunsStay, Spared, Working
<1>3. StartsUnjudged'
  BY DEF Sole, StartsUnjudged, NoNewVerdict
<1>4. OneRow' /\ OwnRuns' /\ Private' /\ Watched'
  BY <1>1, <1>2, RequestsRest
<1> QED  BY <1>3, <1>4 DEF Sole

LEMMA RestsKeepsSole ==
  ASSUME TypeInv, Sole, Rests
  PROVE  Sole'
BY RowsOnly, SameRuns DEF Rests, Lives, RunsStay, Sole, ReaperMet

LEMMA EnvKeepsSole ==
  ASSUME TypeInv, Sole, NEW r \in Row, EnvMay(r)
  PROVE  Sole'
<1>0. row \in [Row -> RowRecord] /\ UNCHANGED <<run, req, at, reaper>> /\ NoNewVerdict
      /\ (reaper.pc # "idle" => reaper.r \in Row)
  BY SameRuns DEF TypeInv, RowOK, EnvMay, ReaperOK, HandOK, HandKnows
<1>1. PICK y : /\ RowAs(r, y) /\ y.run = row[r].run
               /\ \/ y.status = row[r].status /\ y.tries = row[r].tries
                  \/ row[r].status = "queued" /\ y.status = "cancelled" /\ y.tries = row[r].tries
                  \/ /\ row[r].status \in {"dead", "failed", "cancelled"} /\ Looked(r)
                     /\ y.status = "queued" /\ y.tries = 0
  BY DEF EnvMay
<1>2. row'[r] = y /\ \A x \in Row : x # r => row'[x] = row[x]
  BY <1>0, <1>1, RowBecomes
<1>3. \A x \in Row : /\ Lives(x) /\ row'[x].run = row[x].run
                     /\ ~Looked(x) => RunsStay(x)
  BY <1>1, <1>2 DEF Lives, RunsStay
<1>4. ReaperMet'
  BY <1>0, <1>3 DEF Sole, ReaperMet, Lives
<1> QED  BY <1>0, <1>3, <1>4, RowsOnly, WatchedIsUnseen

LEMMA SweepKeepsSole ==
  ASSUME TypeInv, Sole, NEW s \in Sweeper, SweepMay(s)
  PROVE  Sole'
<1>0. row \in [Row -> RowRecord] /\ UNCHANGED <<req, at, reaper>> /\ NoNewVerdict
      /\ (reaper.pc # "idle" => reaper.r \in Row)
  BY DEF TypeInv, RowOK, SweepMay, sweepKeeps, ReaperOK, HandOK, HandKnows
<1>1. \A x \in Row : SameRow(row[x], row'[x])
  BY <1>0, RowBecomes DEF SweepMay, SameRow
<1>2. \A x \in Row : Lives(x) /\ row'[x].run = row[x].run /\ RunsStay(x)
  BY <1>1 DEF SameRow, Lives, RunsStay
<1>3. ReaperMet'
  BY <1>0, <1>2 DEF Sole, ReaperMet, Lives
<1> QED  BY <1>0, <1>2, <1>3, RowsOnly

LEMMA BringsSpares ==
  ASSUME Brings(Row \ Delivery, 0), NEW r \in Row
  PROVE  /\ Lives(r) /\ row'[r].run \in {row[r].run, 0}
         /\ row[r].status # "none" => RunsStay(r)
BY DEF Brings, SameRow, Lives, RunsStay

LEMMA ReaperKeepsSole ==
  ASSUME CheckConstants, TypeInv, Sole, ReaperMay
  PROVE  Sole'
<1>0. row \in [Row -> RowRecord] /\ UNCHANGED <<req, at>>
      /\ (reaper.pc # "idle" => reaper.r \in Row)
  BY DEF TypeInv, RowOK, ReaperMay, reaperKeeps, ReaperOK, HandOK, HandKnows
<1>1. ASSUME NEW r \in Row, Reaps(r) PROVE Sole'
  <2>1. PICK y : /\ RowAs(r, y) /\ y.status \in {"cancelled", "dead", "queued"}
                 /\ y.run \in {row[r].run, 0} /\ y.tries = row[r].tries
    BY <1>1 DEF Reaps
  <2>2. row'[r] = y /\ \A x \in Row : x # r => row'[x] = row[x]
    BY <1>0, <2>1, RowBecomes
  <2>3. Looked(r) /\ UNCHANGED run /\ reaper'.pc = "close" /\ reaper'.r = r
    BY <1>1 DEF Reaps, Lapsed, HandIs
  <2>4. \A x \in Row : /\ Lives(x) /\ row'[x].run \in {row[x].run, 0} /\ Untold(x)
                       /\ ~Looked(x) => RunsStay(x)
    BY <2>1, <2>2, <2>3 DEF Lives, RunsStay, Untold
  <2>5. ReaperMet'
    BY <2>1, <2>2, <2>3 DEF ReaperMet
  <2> QED  BY <1>0, <2>3, <2>4, <2>5, SameRuns, RowsOnly, WatchedIsUnseen DEF UnderWatch
<1>2. ASSUME NEW r \in Row, Marks(r) PROVE Sole'
  <2>1. PICK y : RowAs(r, y) /\ SameRow(row[r], y)
    BY <1>2 DEF Marks
  <2>2. row'[r] = y /\ \A x \in Row : x # r => row'[x] = row[x]
    BY <1>0, <2>1, RowBecomes
  <2>3. UNCHANGED run /\ reaper'.pc = "tell" /\ reaper'.r = r /\ reaper'.run = row[r].run
        /\ row[r].status = "dead"
    BY <1>2 DEF Marks, HandIs
  <2>4. \A x \in Row : /\ Lives(x) /\ row'[x].run = row[x].run /\ RunsStay(x)
                       /\ row[x].run # 0 => Untold(x)
    BY <2>1, <2>2, <2>3 DEF Lives, RunsStay, Untold, SameRow
  <2>5. ReaperMet'
    BY <2>1, <2>2, <2>3 DEF ReaperMet, SameRow
  <2> QED  BY <1>0, <2>3, <2>4, <2>5, SameRuns, RowsOnly, WatchedIsUnseen DEF UnderWatch
<1>3. CASE ReaperCloses
  <2>1. /\ UNCHANGED row /\ NoNewVerdict /\ reaper'.pc # "tell"
        /\ reaper'.pc # "idle" => reaper.pc # "idle" /\ reaper'.r = reaper.r
    BY <1>3 DEF ReaperCloses, HandIs
  <2>2. \A x \in Row : /\ Lives(x) /\ row'[x].run = row[x].run /\ RunsStay(x) /\ Untold(x)
    BY <2>1 DEF Lives, RunsStay, Untold
  <2>3. ReaperMet'
    BY <2>1 DEF Sole, ReaperMet
  <2> QED  BY <1>0, <2>1, <2>2, <2>3, RowsOnly
<1>4. CASE ReaperQueues
  <2>1. UNCHANGED run /\ Brings(Row \ Delivery, 0) /\ reaper'.pc = "idle"
    BY <1>4 DEF ReaperQueues, HandIs
  <2>2. \A x \in Row : Untold(x)
    BY <2>1 DEF Untold
  <2>3. ReaperMet'
    BY <2>1 DEF ReaperMet
  <2> QED  BY <1>0, <2>1, <2>2, <2>3, SameRuns, BringsSpares, RowsOnly DEF UnderWatch
<1>5. CASE Tells
  <2>1. reaper'.pc = "idle" /\ NoNewVerdict /\ reaper.pc = "tell" /\ reaper.r \in Row
    BY <1>0, <1>5 DEF Tells, HandIs
  <2>2. ReaperMet' /\ \A x \in Row : Untold(x)
    BY <2>1 DEF ReaperMet, Untold
  <2>3. CASE UNCHANGED row
    <3>1. \A x \in Row : Lives(x) /\ row'[x].run = row[x].run /\ RunsStay(x)
      BY <2>3 DEF Lives, RunsStay
    <3> QED  BY <1>0, <2>1, <2>2, <3>1, RowsOnly
  <2>4. CASE reaper.run = 0 /\ ~UNCHANGED row
    <3>1. PICK y, i : /\ RowAs(reaper.r, y) /\ i = Len(run) + 1 /\ y.run = i
                      /\ y.status = row[reaper.r].status /\ y.tries = row[reaper.r].tries
      BY <1>5, <2>4 DEF Tells
    <3>2. PICK r \in Row : r = reaper.r
      BY <2>1
    <3>3. row'[r] = y /\ \A x \in Row : x # r => row'[x] = row[x]
      BY <1>0, <3>1, <3>2, RowBecomes
    <3>4. \A x \in Row : /\ Lives(x) /\ (row'[x].run = row[x].run \/ (x = r /\ row'[x].run = i))
                         /\ x # r => RunsStay(x)
      BY <3>1, <3>2, <3>3 DEF Lives, RunsStay
    <3>5. \A x \in Row : UnderWatch(x) => x # r
      BY <2>1, <2>4, <3>2 DEF UnderWatch
    <3>6. \A x \in Row : Lives(x) /\ (row'[x].run \in {row[x].run, 0} \/ (x = r /\ row'[x].run = Len(run) + 1))
      BY <3>1, <3>4
    <3>7. \A x \in Row : UnderWatch(x) => RunsStay(x) /\ (Untold(x) \/ reaper' = reaper)
      BY <2>2, <3>4, <3>5
    <3>8. UNCHANGED <<at, req>> /\ NoNewVerdict /\ ReaperMet'
      BY <1>0, <2>1, <2>2
    <3> QED  BY ONLY TypeInv, Sole, <3>2, <3>6, <3>7, <3>8, RowsOnly
  <2> QED  BY <1>5, <2>3, <2>4 DEF Tells
<1> QED  BY <1>1, <1>2, <1>3, <1>4, <1>5 DEF ReaperMay

(* An attempt uses no more runs than before, but for the one it opens. *)
LEMMA AttemptsMove ==
  ASSUME TypeInv, Sole, UNCHANGED <<req, reaper>>, NoNewVerdict, NEW R, Grows(R, Len(run) + 1),
         \A r \in Row : Lives(r), \A r \in Row : UnderWatch(r) => Spared(r),
         \A v \in Worker : at'[v].pc = "startrun" => ~Verdict(at'[v].carried)
  PROVE  Sole'
<1>1. StartsUnjudged'
  BY DEF StartsUnjudged, NoNewVerdict
<1>2. ReaperMet'
  BY DEF TypeInv, ReaperOK, HandOK, HandKnows, Sole, ReaperMet, Lives
<1>3. OneRow' /\ OwnRuns' /\ Private' /\ Watched'
  BY RequestsRest
<1> QED  BY <1>1, <1>2, <1>3 DEF Sole

Onward(v) ==
  /\ Working(v)' => Working(v) /\ at'[v].r = at[v].r /\ at'[v].own = at[v].own
  /\ \A i \in Nat : Uses(v, i)' => Uses(v, i) /\ at'[v].r = at[v].r
  /\ at'[v].pc = "startrun" => /\ at'[v].carried = at[v].carried
                               /\ at[v].pc = "startrun" \/ Open(at[v].carried)

LEMMA TurnsOnward ==
  ASSUME at \in [Worker -> AttemptRecord], NEW w \in Worker, NEW y, AtAs(w, y),
         Turn(at[w], y) \/ (y.pc \notin WorkPc)
  PROVE  \A v \in Worker : Onward(v)
<1>1. at'[w] = y /\ \A v \in Worker : v # w => at'[v] = at[v]
  BY AtBecomes
<1>2. "startrun" \in WorkPc
  BY DEF WorkPc, Point
<1>3. Onward(w)
  <2>1. CASE Turn(at[w], y)
    BY <1>1, <1>2, <2>1, TurnsWork DEF Onward, Working, Uses
  <2>2. CASE y.pc \notin WorkPc
    BY <1>1, <1>2, <2>2 DEF Onward, Working, Uses
  <2> QED  BY <2>1, <2>2
<1>4. ASSUME NEW v \in Worker, v # w PROVE Onward(v)
  <2>1. at'[v] = at[v]
    BY <1>1, <1>4
  <2> QED  BY <2>1 DEF Onward, Working, Uses
<1> QED  BY <1>3, <1>4

LEMMA TurnKeepsSole ==
  ASSUME TypeInv, Sole, UNCHANGED <<req, reaper>>, NoNewVerdict, \A v \in Worker : Onward(v),
         \A r \in Row : Lives(r) /\ row'[r].run \in {row[r].run, 0},
         \A r \in Row : UnderWatch(r) => RunsStay(r)
  PROVE  Sole'
<1>1. PICK R : R = 0
  OBVIOUS
<1>2. Grows(R, Len(run) + 1)
  BY DEF Grows, Of, Onward
<1>3. \A r \in Row : RunsStay(r) => Spared(r)
  BY DEF RunsStay, Spared, Onward, Working
<1>4. \A v \in Worker : at'[v].pc = "startrun" => ~Verdict(at'[v].carried)
  BY DEF Onward, Sole, StartsUnjudged, Open, Verdict
<1> QED  BY <1>2, <1>3, <1>4, AttemptsMove

LEMMA ClaimKeepsSole ==
  ASSUME CheckConstants, TypeInv, Sole, UNCHANGED <<req, reaper>>, NEW w \in Worker, NEW y,
         AtAs(w, y), Claims(w, y)
  PROVE  Sole'
<1>0. at \in [Worker -> AttemptRecord] /\ row \in [Row -> RowRecord]
  BY DEF TypeInv, AtOK, RowOK
<1>1. at'[w] = y /\ \A v \in Worker : v # w => at'[v] = at[v]
  BY <1>0, AtBecomes
<1>2. PICK r, z :
        /\ r \in Row
        /\ row[r].status = "queued" /\ (row[r].tries > 0 => Looked(r))
        /\ y.pc = "start" /\ y.r = r /\ y.carried = row[r].run /\ y.own = 0
        /\ RowAs(r, z) /\ z.status = "running" /\ z.run = row[r].run /\ z.tries > 0
  BY DEF Claims
<1>3. row'[r] = z /\ \A x \in Row : x # r => row'[x] = row[x]
  BY <1>0, <1>2, RowBecomes
<1>4. UNCHANGED run /\ NoNewVerdict
  BY SameRuns DEF Claims
<1>5. Grows(r, Len(run) + 1)
  <2>1. ASSUME NEW x \in Row, NEW i \in Nat \ {0}, Of(x, i)' PROVE Of(x, i)
    <3>1. CASE row'[x].run = i
      BY <1>2, <1>3, <3>1 DEF Of
    <3>2. CASE row'[x].run # i
      <4>1. PICK v \in Worker : at'[v].r = x /\ Uses(v, i)'
        BY <2>1, <3>2 DEF Of
      <4>2. CASE v = w
        <5>1. i = row[r].run /\ x = r
          BY <1>1, <1>2, <4>1, <4>2 DEF Uses
        <5> QED  BY <5>1 DEF Of
      <4>3. CASE v # w
        <5>1. at'[v] = at[v]
          BY <1>1, <4>3
        <5> QED  BY <4>1, <5>1 DEF Of, Uses, Working
      <4> QED  BY <4>2, <4>3
    <3> QED  BY <3>1, <3>2
  <2> QED  BY <2>1 DEF Grows
<1>6. \A x \in Row : Lives(x)
  BY <1>2, <1>3 DEF Lives
<1>7. \A x \in Row : UnderWatch(x) => Spared(x)
  <2> SUFFICES ASSUME NEW x \in Row, UnderWatch(x) PROVE Spared(x)
    OBVIOUS
  <2>1. CASE x = r
    <3>1. ~(row[r].tries > 0)
      BY <1>2, <2>1, WatchedIsUnseen
    <3> QED  BY <1>2, <1>3, <2>1, <3>1 DEF Spared
  <2>2. CASE x # r
    <3>1. row'[x] = row[x]
      BY <1>3, <2>2
    <3>2. \A v \in Worker : (Working(v) /\ at[v].r = x)' => at'[v] = at[v]
      BY <1>1, <1>2, <2>2
    <3> QED  BY <3>1, <3>2 DEF Spared, Working
  <2> QED  BY <2>1, <2>2
<1>8. \A v \in Worker : at'[v].pc = "startrun" => ~Verdict(at'[v].carried)
  BY <1>1, <1>2 DEF Sole, StartsUnjudged
<1> QED  BY <1>4, <1>5, <1>6, <1>7, <1>8, AttemptsMove

(* The run that an attempt gets is the one its row carries, or a new one. *)
LEMMA GetKeepsSole ==
  ASSUME CheckConstants, TypeInv, Alone, Sole, UNCHANGED <<req, reaper>>, NEW w \in Worker, NEW y,
         AtAs(w, y), StartsIts(w, y) \/ OpensIts(w, y)
  PROVE  Sole'
<1>0. /\ at \in [Worker -> AttemptRecord] /\ run \in Seq(RunRecord)
      /\ at[w].carried \in Nat /\ at[w].carried <= Len(run) /\ Len(run) \in Nat
      /\ at[w].pc # "idle" => at[w].head \in 1..Heads
  BY LenProperties DEF TypeInv, AtOK, RunOK, AttemptsKnow, AttemptRecord, RunId
<1>1. at'[w] = y /\ \A v \in Worker : v # w => at'[v] = at[v]
  BY <1>0, AtBecomes
<1>2. PICK i \in {at[w].carried, Len(run) + 1} :
        /\ UNCHANGED row /\ Gets(at[w], y, i) /\ NoNewVerdict
        /\ i = Len(run) + 1 \/ (i = at[w].carried /\ at[w].pc = "startrun")
  <2>1. CASE StartsIts(w, y)
    <3>1. PICK i \in Nat : i = at[w].carried
      BY <1>0
    <3>2. NoNewVerdict
      BY <1>0, <2>1, <3>1, EndingIs DEF StartsIts
    <3> QED  BY <2>1, <3>2 DEF StartsIts
  <2>2. CASE OpensIts(w, y)
    <3>1. PICK h \in 1..Heads : h = at[w].head
      BY <1>0, <2>2 DEF OpensIts
    <3>2. NoNewVerdict
      BY <1>0, <2>2, <3>1, OpeningIs DEF OpensIts
    <3> QED  BY <2>2, <3>2 DEF OpensIts
  <2> QED  BY <2>1, <2>2
<1>3. /\ Working(w) /\ y.pc = "record" /\ y.own = i /\ y.r = at[w].r /\ at[w].pc \in EarlyPc
      /\ y.pc \notin AsksPc
  BY <1>2 DEF Gets, Working, WorkPc, Point, EarlyPc, AsksPc
<1>4. at[w].own = 0
  BY <1>3 DEF Alone, RowsHeld, HoldsRow
<1>5. PICK R : R = at[w].r
  OBVIOUS
<1>6. Grows(R, Len(run) + 1)
  <2>1. ASSUME NEW x \in Row, NEW j \in Nat \ {0}, Of(x, j)', ~Of(x, j) PROVE x = R /\ j = Len(run) + 1
    <3>1. PICK v \in Worker : at'[v].r = x /\ Uses(v, j)'
      BY <1>2, <2>1 DEF Of
    <3>2. CASE v = w
      <4>1. x = R /\ j = i
        BY <1>1, <1>3, <1>5, <3>1, <3>2 DEF Uses
      <4>2. CASE i = at[w].carried /\ at[w].pc = "startrun"
        BY <1>3, <1>5, <2>1, <4>1, <4>2 DEF Of, Uses, AsksPc
      <4> QED  BY <1>2, <4>1, <4>2
    <3>3. CASE v # w
      <4>1. at'[v] = at[v]
        BY <1>1, <3>3
      <4> QED  BY <2>1, <3>1, <4>1 DEF Of, Uses, Working
    <3> QED  BY <3>2, <3>3
  <2> QED  BY <2>1 DEF Grows
<1>7. \A x \in Row : Lives(x) /\ Spared(x)
  <2>1. \A v \in Worker : Working(v)' => Working(v) /\ at'[v].r = at[v].r /\ at[v].own \in {at'[v].own, 0}
    <3>1. \A v \in Worker : v # w => at'[v] = at[v]
      BY <1>1
    <3> QED  BY <1>1, <1>3, <1>4, <3>1 DEF Working
  <2> QED  BY <1>2, <2>1 DEF Lives, Spared
<1>8. \A v \in Worker : at'[v].pc = "startrun" => ~Verdict(at'[v].carried)
  BY <1>1, <1>3 DEF Sole, StartsUnjudged
<1> QED  BY <1>2, <1>6, <1>7, <1>8, AttemptsMove

(* The verdict is the row's: a request that watches the row sees only this *)
(* attempt at work on it.                                                  *)
LEMMA JudgeKeepsSole ==
  ASSUME CheckConstants, TypeInv, Alone, Sole, UNCHANGED <<req, reaper>>, NEW w \in Worker, NEW y,
         AtAs(w, y), Judges(w, y)
  PROVE  Sole'
<1>0. /\ at \in [Worker -> AttemptRecord] /\ run \in Seq(RunRecord) /\ at[w].own \in Nat
      /\ \A v \in Worker : Working(v) => at[v].r \in Row
      /\ \A q \in Request : Watches(q) => req[q].d \in Row
      /\ \A q \in Request : req[q].run \in Nat
      /\ \A v \in Worker : at[v].carried \in Nat
  BY CheckConstants DEF TypeInv, AtOK, RunOK, ReqOK, AttemptsKnow, AttemptRecord, RunId, Working, WorkPc, Point,
     RequestsKnow, Watches, CheckConstants, ReqRecord
<1>1. PICK i \in Nat : i = at[w].own
  BY <1>0
<1>2. UNCHANGED row /\ Working(w) /\ y.pc \notin EarlyPc
  BY DEF Judges, Working, WorkPc, Point, EarlyPc
<1>3. \A j : Verdict(j)' /\ ~Verdict(j) => j = i
  BY <1>0, <1>1, EndingIs DEF Judges, End
<1>4. \A v \in Worker : Onward(v)
  BY <1>0, TurnsOnward DEF Judges
<1>5. Uses(w, i) /\ at[w].r \in Row /\ Of(at[w].r, i)
  BY <1>0, <1>1, <1>2 DEF Uses, Of
<1>6. \A r \in Row, j \in Nat : Of(r, j)' => Of(r, j)
  BY <1>2, <1>4 DEF Of, Onward
<1>7. OneRow'
  BY <1>6 DEF Sole, OneRow
<1>8. StartsUnjudged'
  <2> SUFFICES ASSUME NEW v \in Worker, at'[v].pc = "startrun", NEW c, c = at'[v].carried,
                      Verdict(c)'
               PROVE  FALSE
    BY DEF StartsUnjudged, Verdict
  <2>1. c = at[v].carried /\ (at[v].pc = "startrun" \/ Open(at[v].carried))
    BY <1>4 DEF Onward
  <2>2. ~Verdict(c)
    BY <2>1 DEF Sole, StartsUnjudged, Open, Verdict
  <2>3. at[v].carried = i
    BY <1>3, <2>1, <2>2
  <2>4. v # w
    <3>1. at'[w] = y /\ "startrun" \in EarlyPc
      BY <1>0, AtBecomes DEF EarlyPc
    <3> QED  BY <1>2, <3>1
  <2>5. at'[v] = at[v] /\ at[v].pc = "startrun"
    BY <1>0, <2>4, AtBecomes
  <2>6. Working(v) /\ Uses(v, i)
    BY <2>3, <2>5 DEF Uses, Working, WorkPc, Point, AsksPc
  <2>7. at[v].r \in Row /\ Of(at[v].r, i)
    BY <1>0, <2>6 DEF Of
  <2>8. i # 0
    <3>1. at[v].carried # 0
      BY <2>5, <2>6 DEF Alone, RowsHeld, HoldsRow
    <3> QED  BY <2>3, <3>1
  <2>9. at[v].r = at[w].r
    BY <1>5, <2>7, <2>8 DEF Sole, OneRow
  <2> QED  BY <1>2, <2>4, <2>6, <2>9 DEF Alone, OnePerRow
<1>9. OwnRuns'
  BY DEF Sole, OwnRuns
<1>10. \A q \in Request : Bound(q)' <=> Bound(q)
  BY <1>2 DEF Bound, Watches
<1>11. Private'
  <2> SUFFICES ASSUME NEW q \in Request, req[q].run # 0, ~Bound(q)
               PROVE  ~Verdict(req[q].run)' /\ Unused(req[q].run)'
    BY <1>10 DEF Private
  <2>1. ~Verdict(req[q].run) /\ Unused(req[q].run)
    BY DEF Sole, Private
  <2>2. req[q].run # i
    BY <1>5, <2>1 DEF Unused
  <2> QED  BY <1>0, <1>3, <1>6, <2>1, <2>2 DEF Unused
<1>12. Watched'
  <2> SUFFICES ASSUME NEW q \in Request, Watches(q), NEW d \in Row, d = req[q].d
               PROVE  /\ row[d].status # "none" /\ row[d].run # 0
                      /\ ~(reaper.pc = "tell" /\ reaper.run = 0 /\ reaper.r = d)
                      /\ Bound(q) /\ Verdict(req[q].run)' => WorkAsJudged(q)'
    BY <1>0, <1>2, <1>10 DEF Watched, Watches
  <2>1. /\ row[d].status # "none" /\ row[d].run # 0
        /\ ~(reaper.pc = "tell" /\ reaper.run = 0 /\ reaper.r = d)
        /\ Bound(q) /\ Verdict(req[q].run) => WorkAsJudged(q)
    BY DEF Sole, Watched
  <2>2. ASSUME Bound(q), WorkAsJudged(q) PROVE WorkAsJudged(q)'
    BY <1>2, <1>4, <2>2 DEF WorkAsJudged, Onward
  <2>3. ASSUME Bound(q), req[q].run = i PROVE WorkAsJudged(q)
    <3>1. Of(d, i) /\ i # 0
      BY <2>1, <2>3 DEF Bound, Of
    <3>2. at[w].r = d
      BY <1>5, <3>1 DEF Sole, OneRow
    <3>3. row[d].tries > 0
      BY <1>2, <3>2 DEF Alone, RowsHeld, HoldsRow
    <3>4. \A v \in Worker : Working(v) /\ at[v].r = d => v = w
      BY <1>2, <3>2 DEF Alone, OnePerRow
    <3> QED  BY <1>1, <2>3, <3>3, <3>4 DEF WorkAsJudged
  <2> QED  BY <1>3, <2>1, <2>2, <2>3
<1>13. ReaperMet'
  BY <1>2 DEF Sole, ReaperMet
<1> QED  BY <1>7, <1>8, <1>9, <1>11, <1>12, <1>13 DEF Sole

(* A row that is given another run leaves the one its request made to it.  *)
LEMMA RecordKeepsSole ==
  ASSUME CheckConstants, TypeInv, Alone, Sole, UNCHANGED <<req, reaper>>, NEW w \in Worker, NEW y,
         AtAs(w, y), RecordsIts(w, y)
  PROVE  Sole'
<1>0. /\ at \in [Worker -> AttemptRecord] /\ row \in [Row -> RowRecord]
      /\ \A v \in Worker : Working(v) => at[v].r \in Row
      /\ \A q \in Request : Watches(q) => req[q].d \in Row
      /\ \A q \in Request : req[q].run \in Nat
      /\ at[w].own \in Nat
      /\ reaper.pc # "idle" => reaper.r \in Row
  BY CheckConstants DEF TypeInv, AtOK, RowOK, ReqOK, AttemptsKnow, AttemptRecord, RunId, Working, WorkPc, Point,
     RequestsKnow, Watches, CheckConstants, ReqRecord, ReaperOK, HandOK, HandKnows
<1>1. Working(w) /\ UNCHANGED run /\ y.pc \notin AsksPc /\ y.own = at[w].own /\ at[w].pc = "record"
  BY DEF RecordsIts, Working, WorkPc, Point, AsksPc
<1>2. PICK r, i, z :
        /\ r \in Row /\ i \in Nat /\ r = at[w].r /\ i = at[w].own
        /\ RowAs(r, z) /\ z.run = i /\ z.status = row[r].status /\ z.tries = row[r].tries
  <2>1. PICK r \in Row, i \in Nat : r = at[w].r /\ i = at[w].own
    BY <1>0, <1>1
  <2> QED  BY <2>1 DEF RecordsIts
<1>3. row'[r] = z /\ \A x \in Row : x # r => row'[x] = row[x]
  BY <1>0, <1>2, RowBecomes
<1>4. \A v \in Worker : Onward(v)
  BY <1>0, TurnsOnward DEF RecordsIts
<1>5. Of(r, i) /\ i # 0
  <2>1. HoldsRow(w)
    BY <1>1 DEF Alone, RowsHeld
  <2> QED  BY <1>1, <1>2, <2>1 DEF Of, Uses, HoldsRow
<1>6. \A x \in Row, j \in Nat : Of(x, j)' => Of(x, j)
  BY <1>2, <1>3, <1>4, <1>5 DEF Of, Onward
<1>7. OneRow'
  BY <1>6 DEF Sole, OneRow
<1>8. NoNewVerdict /\ StartsUnjudged'
  BY <1>1, <1>4, SameRuns DEF Onward, Sole, StartsUnjudged, Open, Verdict, NoNewVerdict
<1>9. OwnRuns'
  BY DEF Sole, OwnRuns
<1>10. Private'
  <2> SUFFICES ASSUME NEW q \in Request, NEW j \in Nat, j = req[q].run, j # 0, ~Bound(q)'
               PROVE  ~Verdict(j)' /\ Unused(j)'
    BY <1>0 DEF Private
  <2>1. CASE ~Bound(q)
    BY <1>6, <1>8, <2>1 DEF Sole, Private, Unused, NoNewVerdict
  <2>2. CASE Bound(q)
    <3>1. req[q].d = r /\ row[r].run = j /\ i # j /\ Watches(q)
      BY <1>0, <1>2, <1>3, <2>2 DEF Bound, Watches
    <3>2. Of(r, j)
      BY <3>1 DEF Of
    <3>3. ~Verdict(j)
      BY <1>1, <1>2, <2>2, <3>1 DEF Sole, Watched, WorkAsJudged
    <3>4. Unused(j)'
      <4> SUFFICES ASSUME NEW x \in Row, Of(x, j)' PROVE FALSE
        BY DEF Unused
      <4>1. x = r
        BY <1>2, <1>6, <3>2 DEF Sole, OneRow
      <4>2. PICK v \in Worker : at'[v].r = r /\ Uses(v, j)'
        BY <1>2, <1>3, <3>1, <4>1 DEF Of
      <4>3. Working(v) /\ at[v].r = r
        BY <1>4, <4>2 DEF Onward, Uses
      <4>4. v = w
        BY <1>1, <1>2, <4>3 DEF Alone, OnePerRow
      <4>5. at'[w] = y
        BY <1>0, AtBecomes DEF RecordsIts
      <4> QED  BY <1>1, <1>2, <3>1, <4>2, <4>4, <4>5 DEF Uses
    <3> QED  BY <1>8, <3>3, <3>4 DEF NoNewVerdict
  <2> QED  BY <2>1, <2>2
<1>11. Watched'
  <2> SUFFICES ASSUME NEW q \in Request, Watches(q), NEW d \in Row, d = req[q].d
               PROVE  /\ row'[d].status # "none" /\ row'[d].run # 0
                      /\ ~(reaper.pc = "tell" /\ reaper.run = 0 /\ reaper.r = d)
                      /\ Bound(q)' /\ Verdict(req[q].run)' => WorkAsJudged(q)'
    BY <1>0 DEF Watched, Watches
  <2>1. /\ row[d].status # "none" /\ row[d].run # 0
        /\ ~(reaper.pc = "tell" /\ reaper.run = 0 /\ reaper.r = d)
        /\ Bound(q) /\ Verdict(req[q].run) => WorkAsJudged(q)
    BY DEF Sole, Watched
  <2>2. row'[d].status # "none" /\ row'[d].run # 0 /\ row'[d].tries = row[d].tries
    BY <1>2, <1>3, <1>5, <2>1
  <2>3. ASSUME Bound(q)', Verdict(req[q].run)' PROVE WorkAsJudged(q)'
    <3>1. req[q].run # 0 /\ Of(d, req[q].run)'
      BY <2>2, <2>3 DEF Bound, Of
    <3>2. Of(d, req[q].run) /\ Verdict(req[q].run)
      BY <1>0, <1>6, <1>8, <2>3, <3>1 DEF NoNewVerdict
    <3>3. Bound(q)
      BY <3>1, <3>2 DEF Sole, Private, Unused
    <3>4. WorkAsJudged(q)
      BY <2>1, <3>2, <3>3
    <3> QED  BY <1>4, <2>2, <3>4 DEF WorkAsJudged, Onward
  <2> QED  BY <2>1, <2>2, <2>3
<1>12. ReaperMet'
  BY <1>0, <1>2, <1>3 DEF Sole, ReaperMet
<1> QED  BY <1>7, <1>8, <1>9, <1>10, <1>11, <1>12 DEF Sole

LEMMA AttemptKeepsSole ==
  ASSUME CheckConstants, TypeInv, Alone, Sole, NEW w \in Worker, AttemptMay(w)
  PROVE  Sole'
<1>1. PICK y : AttemptEffect(w, y)
  BY DEF AttemptMay
<1>0. /\ UNCHANGED <<req, reaper>> /\ at \in [Worker -> AttemptRecord] /\ row \in [Row -> RowRecord]
      /\ AtAs(w, y)
      /\ Attended(at[w]) => at[w].r \in Row
  BY <1>1 DEF AttemptMay, AttemptEffect, attemptKeeps, TypeInv, AtOK, RowOK, AttemptsKnow, Attended
<1>2. CASE RunsOn(w, y)
  <2>1. UNCHANGED row /\ NoNewVerdict /\ \A v \in Worker : Onward(v)
    BY <1>0, <1>2, TurnsOnward DEF RunsOn
  <2>2. \A r \in Row : Lives(r) /\ RunsStay(r) /\ row'[r].run = row[r].run
    BY <2>1 DEF Lives, RunsStay
  <2> QED  BY <1>0, <2>1, <2>2, TurnKeepsSole
<1>3. CASE EndsRow(w, y)
  <2>1. UNCHANGED run /\ NoNewVerdict /\ \A v \in Worker : Onward(v)
    BY <1>0, <1>3, SameRuns, TurnsOnward DEF EndsRow
  <2>2. PICK r \in Row, s \in Status \ {"none"} : r = at[w].r /\ Writes(r, s)
    BY <1>0, <1>3 DEF EndsRow
  <2>3. \A x \in Row : Lives(x) /\ RunsStay(x) /\ row'[x].run = row[x].run
    <3>1. CASE UNCHANGED row
      BY <3>1 DEF Lives, RunsStay
    <3>2. CASE \E z : RowAs(r, z) /\ z.status = s /\ z.run = row[r].run /\ z.tries = row[r].tries
      <4>1. PICK z : RowAs(r, z) /\ z.status = s /\ z.run = row[r].run /\ z.tries = row[r].tries
        BY <3>2
      <4>2. row'[r] = z /\ \A x \in Row : x # r => row'[x] = row[x]
        BY <1>0, <4>1, RowBecomes
      <4> QED  BY <4>1, <4>2 DEF Lives, RunsStay
    <3> QED  BY <2>2, <3>1, <3>2 DEF Writes
  <2> QED  BY <1>0, <2>1, <2>3, TurnKeepsSole
<1>4. CASE QueuesHead(w, y)
  <2>1. UNCHANGED run /\ NoNewVerdict /\ (\A v \in Worker : Onward(v)) /\ Brings(Row \ Delivery, 0)
    BY <1>0, <1>4, SameRuns, TurnsOnward DEF QueuesHead
  <2>2. \A r \in Row : /\ Lives(r) /\ row'[r].run \in {row[r].run, 0}
                       /\ UnderWatch(r) => RunsStay(r)
    BY <2>1, BringsSpares DEF UnderWatch
  <2> QED  BY <1>0, <2>1, <2>2, TurnKeepsSole
<1> QED  BY <1>0, <1>1, <1>2, <1>3, <1>4, ClaimKeepsSole, GetKeepsSole, JudgeKeepsSole, RecordKeepsSole
         DEF AttemptEffect

-----------------------------------------------------------------------------
(* Requests: a run is created for one of them alone, is its row's once the *)
(* row is born with it, and is given away or closed unless that is so.     *)
Elsewhere(q) == \A p \in Request : p # q => req'[p] = req[p]

(* The run that a request asked for is nobody's yet. *)
LEMMA CreatedIs ==
  ASSUME CheckConstants, TypeInv, Sole, NEW q \in Request, NEW h \in 1..Heads, run' = Opened(h),
         UNCHANGED <<row, at, reaper>>, NEW y, ReqAs(q, y), y.run = Len(run) + 1, y.pc # "bind",
         req[q].pc # "bind"
  PROVE  Sole'
<1>0. /\ req \in [Request -> ReqRecord] /\ run \in Seq(RunRecord) /\ Len(run) \in Nat
      /\ Unused(Len(run) + 1) /\ NoNewVerdict /\ ~Verdict(Len(run) + 1)
      /\ \A p \in Request : req[p].run \in Nat /\ req[p].run <= Len(run)
  BY NewIsUnused, OpeningIs DEF TypeInv, ReqOK, ReqRecord, RunId, RunOK, Verdict
<1>1. req'[q] = y /\ Elsewhere(q)
  BY <1>0, ReqBecomes DEF Elsewhere
<1>2. \A r \in Row : \A i : Of(r, i)' <=> Of(r, i)
  BY DEF Of, Uses, Working
<1>3. \A p \in Request : p # q => (Bound(p)' <=> Bound(p)) /\ (Watches(p)' <=> Watches(p))
  BY <1>1 DEF Elsewhere, Bound, Watches
<1>4. ~Bound(q)' /\ ~Watches(q)'
  BY <1>1 DEF Bound, Watches
<1>5. OneRow' /\ ReaperMet' /\ StartsUnjudged'
  BY <1>0, <1>2 DEF Sole, OneRow, ReaperMet, StartsUnjudged, NoNewVerdict
<1>6. OwnRuns'
  BY <1>0, <1>1 DEF Sole, OwnRuns, Elsewhere
<1>7. Private'
  <2> SUFFICES ASSUME NEW p \in Request, req'[p].run # 0, ~Bound(p)', NEW i, i = req'[p].run
               PROVE  ~Verdict(i)' /\ Unused(i)'
    BY DEF Private
  <2>1. CASE p = q
    BY <1>0, <1>1, <1>2, <2>1 DEF Unused, NoNewVerdict
  <2>2. CASE p # q
    <3>1. ~Verdict(i) /\ Unused(i)
      BY <1>1, <1>3, <2>2 DEF Sole, Private, Elsewhere
    <3> QED  BY <1>0, <1>2, <3>1 DEF Unused, NoNewVerdict
  <2> QED  BY <2>1, <2>2
<1>8. Watched'
  <2> SUFFICES ASSUME NEW p \in Request, Watches(p)', NEW d, d = req[p].d, req'[p] = req[p], Watches(p)
               PROVE  /\ row[d].status # "none" /\ row[d].run # 0
                      /\ ~(reaper.pc = "tell" /\ reaper.run = 0 /\ reaper.r = d)
                      /\ Bound(p)' /\ Verdict(req[p].run)' => WorkAsJudged(p)'
    BY <1>1, <1>3, <1>4 DEF Watched, Elsewhere
  <2> QED  BY <1>0, <1>3, <1>4 DEF Sole, Watched, WorkAsJudged, NoNewVerdict, Working
<1> QED  BY <1>5, <1>6, <1>7, <1>8 DEF Sole

(* The other steps: the request's run stays its own, or is given to one    *)
(* row and to nobody else.                                                 *)
LEMMA RequestMoves ==
  ASSUME CheckConstants, TypeInv, Sole, NEW q \in Request, NEW y, ReqAs(q, y), UNCHANGED <<at, reaper>>,
         NoNewVerdict, NEW R, NEW I \in {0, req[q].run},
         \A x \in Row : Lives(x) /\ (row'[x].run \in {row[x].run, 0} \/ (x = R /\ row'[x].run = I)),
         \A x \in Row : UnderWatch(x) => RunsStay(x),
         y.run \in {0, req[q].run}, Bound(q) => I = 0 /\ y.run = 0,
         y.pc = "bind" /\ y.fresh =>
           /\ I # 0 /\ y.run = I /\ y.d = R /\ R \in Row
           /\ row[R].status = "none" /\ row'[R].status # "none" /\ row'[R].run = I,
         I # 0 => y.run = 0 \/ (y.pc = "bind" /\ y.fresh)
  PROVE  Sole'
<1>0. /\ req \in [Request -> ReqRecord] /\ Len(run) \in Nat /\ Unused(Len(run) + 1)
      /\ \A p \in Request : req[p].run \in Nat
      /\ \A p \in Request : Watches(p) => req[p].d \in Row
      /\ reaper.pc # "idle" => reaper.r \in Row
  BY NewIsUnused, CheckConstants DEF TypeInv, ReqOK, ReqRecord, RunId, RequestsKnow, Watches, CheckConstants,
     ReaperOK, HandOK, HandKnows
<1>1. req'[q] = y /\ Elsewhere(q)
  BY <1>0, ReqBecomes DEF Elsewhere
<1>2. Grows(R, I)
  BY DEF Grows, Of, Uses, Working
<1>3. I # 0 => I = req[q].run /\ Unused(I) /\ ~Verdict(I)
  BY DEF Sole, Private
<1>4. OneRow'
  <2>1. CASE I = 0
    <3>1. Grows(R, Len(run) + 1)
      BY <1>2, <2>1 DEF Grows
    <3> QED  BY <1>0, <3>1, OneRowStays DEF Sole
  <2>2. CASE I # 0
    BY <1>2, <1>3, <2>2, OneRowStays DEF Sole
  <2> QED  BY <2>1, <2>2
<1>5. StartsUnjudged' /\ ReaperMet'
  BY <1>0 DEF Sole, StartsUnjudged, ReaperMet, NoNewVerdict, Lives
<1>6. OwnRuns'
  BY <1>0, <1>1 DEF Sole, OwnRuns, Elsewhere
<1>7. ASSUME NEW p \in Request, p # q, Watches(p)
      PROVE  \E d \in Row : /\ d = req[p].d /\ UnderWatch(d) /\ RunsStay(d) /\ Lives(d)
                            /\ Bound(p) <=> Bound(p)'
  <2>1. PICK d \in Row : d = req[p].d
    BY <1>0, <1>7
  <2>2. UnderWatch(d)
    BY <1>7, <2>1 DEF Sole, Watched, UnderWatch
  <2>3. RunsStay(d) /\ Lives(d)
    BY <2>2
  <2>4. req'[p] = req[p]
    BY <1>1, <1>7 DEF Elsewhere
  <2> QED  BY <2>1, <2>2, <2>3, <2>4 DEF Bound, Watches, RunsStay
<1>8. Private'
  <2> SUFFICES ASSUME NEW p \in Request, ~Bound(p)', NEW i \in Nat, i = req'[p].run, i # 0
               PROVE  ~Verdict(i)' /\ Unused(i)'
    <3>1. \A p \in Request : req'[p].run \in Nat
      BY <1>0, <1>1 DEF Elsewhere
    <3> QED  BY <3>1 DEF Private
  <2>1. CASE p # q
    <3>1. req'[p] = req[p]
      BY <1>1, <2>1 DEF Elsewhere
    <3>2. ~Bound(p)
      BY <1>7, <2>1 DEF Bound
    <3>3. ~Verdict(i) /\ Unused(i)
      BY <3>1, <3>2 DEF Sole, Private
    <3>4. i # I
      BY <1>3, <2>1, <3>1 DEF Sole, OwnRuns
    <3> QED  BY <1>2, <3>3, <3>4 DEF Grows, Unused, NoNewVerdict
  <2>2. CASE p = q
    <3>1. I = 0
      BY <1>1, <2>2 DEF Bound, Watches
    <3>2. i = req[q].run /\ ~Bound(q)
      BY <1>1, <2>2
    <3>3. ~Verdict(i) /\ Unused(i)
      BY <3>2 DEF Sole, Private
    <3> QED  BY <1>2, <3>1, <3>3 DEF Grows, Unused, NoNewVerdict
  <2> QED  BY <2>1, <2>2
<1>9. Watched'
  <2> SUFFICES ASSUME NEW p \in Request, Watches(p)'
               PROVE  /\ row'[req'[p].d].status # "none" /\ row'[req'[p].d].run # 0
                      /\ ~(reaper.pc = "tell" /\ reaper.run = 0 /\ reaper.r = req'[p].d)
                      /\ \A i : i = req'[p].run /\ Bound(p)' /\ Verdict(i)' => WorkAsJudged(p)'
    BY DEF Watched, Verdict
  <2>1. CASE p # q
    <3>1. req'[p] = req[p] /\ Watches(p)
      BY <1>1, <2>1 DEF Elsewhere, Watches
    <3>2. PICK d \in Row : /\ d = req[p].d /\ UnderWatch(d) /\ RunsStay(d) /\ Lives(d)
                           /\ Bound(p) <=> Bound(p)'
      BY <1>7, <2>1, <3>1
    <3>3. ASSUME Bound(p), NEW i, i = req[p].run, Verdict(i)' PROVE WorkAsJudged(p)'
      <4>1. Verdict(i) /\ Watches(p)
        BY <3>1, <3>3 DEF NoNewVerdict
      <4>2. WorkAsJudged(p)
        BY <3>3, <4>1 DEF Sole, Watched
      <4> QED  BY <3>1, <3>2, <4>2 DEF WorkAsJudged, RunsStay, Working
    <3>4. row'[d].status # "none" /\ row'[d].run # 0
      BY <3>2 DEF UnderWatch, RunsStay, Lives
    <3> QED  BY <3>1, <3>2, <3>3, <3>4 DEF UnderWatch
  <2>2. CASE p = q
    <3>1. /\ I # 0 /\ y.run = I /\ y.d = R /\ R \in Row
          /\ row[R].status = "none" /\ row'[R].status # "none" /\ row'[R].run = I
      BY <1>1, <2>2 DEF Watches
    <3>2. ~(reaper.pc = "tell" /\ reaper.r = R)
      BY <3>1 DEF Sole, ReaperMet
    <3>3. ~Verdict(I)'
      BY <1>3, <3>1 DEF NoNewVerdict
    <3> QED  BY <1>1, <2>2, <3>1, <3>2, <3>3
  <2> QED  BY <2>1, <2>2
<1> QED  BY <1>4, <1>5, <1>6, <1>8, <1>9 DEF Sole

LEMMA RequestAlone ==
  ASSUME CheckConstants, TypeInv, Sole, NEW q \in Request, NEW y, ReqAs(q, y),
         UNCHANGED <<row, at, reaper>>, NoNewVerdict,
         y.run \in {0, req[q].run}, Bound(q) => y.run = 0, ~(y.pc = "bind" /\ y.fresh)
  PROVE  Sole'
<1>1. PICK I : I = 0
  OBVIOUS
<1>2. \A x \in Row : Lives(x) /\ RunsStay(x) /\ row'[x].run \in {row[x].run, 0}
  BY DEF Lives, RunsStay
<1>3. \A x \in Row : Lives(x) /\ (row'[x].run \in {row[x].run, 0} \/ (x = 0 /\ row'[x].run = I))
  BY <1>2
<1> QED  BY <1>1, <1>2, <1>3, RequestMoves

LEMMA RequestKeepsSole ==
  ASSUME CheckConstants, TypeInv, Sole, NEW q \in Request, Receive(q) \/ RequestStep(q)
  PROVE  Sole'
<1>0. /\ req \in [Request -> ReqRecord] /\ row \in [Row -> RowRecord] /\ run \in Seq(RunRecord)
      /\ scenario \in Scenarios /\ req[q].run \in Nat
      /\ req[q].pc \notin {"none", "over"} => req[q].d \in Row /\ Ref[req[q].d] \in 1..Heads
      /\ req[q].late = "asked" => req[q].pc \in {"insert", "adopt"}
      /\ UNCHANGED <<at, reaper>> /\ NoNewVerdict
      /\ Bound(q) => req[q].pc = "bind"
  BY CheckConstants, EachRequest DEF TypeInv, ReqOK, RowOK, RunOK, ClockOK, ReqRecord, RunId, RequestsKnow, LateIsAsked,
     CheckConstants, RequestMay, ingressKeeps, Bound, Watches
<1>o. ASSUME UNCHANGED row, NEW y, IsOver(q, y) PROVE Sole'
  BY <1>0, <1>o, RequestAlone DEF IsOver
<1>1. CASE Receive(q)
  <2>1. UNCHANGED row
    BY <1>1 DEF Receive
  <2>2. PICK y : ReqAs(q, y) /\ y.pc \in {"create", "insert"} /\ y.run = 0
    BY <1>0, <1>1, CheckConstants, ReceiveIs
  <2> QED  BY <1>0, <2>1, <2>2, RequestAlone
<1>2. CASE Create(q)
  <2>1. UNCHANGED row /\ req[q].pc = "create" /\ run' = Opened(Ref[req[q].d])
    BY <1>2 DEF Create
  <2>2. PICK h \in 1..Heads : run' = Opened(h)
    BY <1>0, <2>1
  <2>3. PICK y : ReqAs(q, y) /\ y.pc = "insert" /\ y.run = Len(run) + 1
    BY <1>0, <1>2, CreateIs DEF Goes
  <2> QED  BY <1>0, <2>1, <2>2, <2>3, CheckConstants, CreatedIs
<1>3. CASE CreateLate(q)
  <2>1. UNCHANGED row /\ req[q].pc = "create"
    BY <1>3 DEF CreateLate
  <2>2. PICK y : ReqAs(q, y) /\ y.pc = "insert" /\ y.run = req[q].run
    BY <1>0, <1>3, CreateLateIs DEF Goes
  <2> QED  BY <1>0, <2>1, <2>2, CheckConstants, RequestAlone
<1>4. CASE LateAnswer(q)
  <2>1. UNCHANGED row /\ req[q].pc \in {"insert", "adopt"} /\ run' = Opened(Ref[req[q].d])
    BY <1>0, <1>4 DEF LateAnswer
  <2>2. PICK h \in 1..Heads : run' = Opened(h)
    BY <1>0, <2>1
  <2>3. PICK y : ReqAs(q, y) /\ y.pc = req[q].pc /\ y.run = Len(run) + 1
    BY <1>0, <1>4, LateAnswerIs DEF Goes
  <2> QED  BY <1>0, <2>1, <2>2, <2>3, CheckConstants, CreatedIs
<1>5. CASE Insert(q)
  <2>1. PICK d \in Row : d = req[q].d
    BY <1>0, <1>5 DEF Insert
  <2>2. PICK i \in {0, req[q].run} : i = IF req[q].late = "no" THEN req[q].run ELSE 0
    OBVIOUS
  <2>3. row' = (IF Fresh(d) THEN Inserted(d, i) ELSE row) /\ ~Bound(q)
    BY <1>0, <1>5, <2>1, <2>2 DEF Insert
  <2>4. \E y : /\ ReqAs(q, y) /\ y.run \in {0, req[q].run}
               /\ \/ i = 0 /\ y.pc # "bind"
                  \/ i # 0 /\ y.pc = "bind" /\ y.fresh = Fresh(d) /\ y.d = d /\ y.run = i
    BY <1>0, <1>5, <2>1, <2>2, InsertIs DEF IsOver, Goes
  <2>5. PICK y : /\ ReqAs(q, y) /\ y.run \in {0, req[q].run}
                 /\ \/ i = 0 /\ y.pc # "bind"
                    \/ i # 0 /\ y.pc = "bind" /\ y.fresh = Fresh(d) /\ y.d = d /\ y.run = i
    BY <2>4
  <2>6. CASE ~Fresh(d)
    <3>1. UNCHANGED row
      BY <2>3, <2>6
    <3> QED  BY <1>0, <2>3, <2>5, <2>6, <3>1, CheckConstants, RequestAlone
  <2>7. CASE Fresh(d)
    <3>1. row' = Inserted(d, i) /\ i \in Nat
      BY <1>0, <2>3, <2>7
    <3>2. Brings({d}, i) /\ row'[d].status = "queued" /\ row'[d].run = i
      BY <1>0, <2>7, <3>1, CheckConstants, InsertedIs
    <3>3. row[d].status = "none"
      BY <2>7 DEF Fresh
    <3>4. \A x \in Row : Lives(x) /\ (row'[x].run \in {row[x].run, 0} \/ (x = d /\ row'[x].run = i))
      BY <3>2 DEF Brings, SameRow, Lives
    <3>5. \A x \in Row : UnderWatch(x) => RunsStay(x)
      BY <3>2, <3>3 DEF Brings, SameRow, RunsStay, UnderWatch
    <3>6. /\ y.pc = "bind" /\ y.fresh =>
               /\ i # 0 /\ y.run = i /\ y.d = d /\ d \in Row
               /\ row[d].status = "none" /\ row'[d].status # "none" /\ row'[d].run = i
          /\ i # 0 => y.run = 0 \/ (y.pc = "bind" /\ y.fresh)
      BY <2>5, <2>7, <3>2, <3>3
    <3>7. ReqAs(q, y) /\ y.run \in {0, req[q].run} /\ (Bound(q) => i = 0 /\ y.run = 0)
      BY <2>3, <2>5
    <3> QED  BY ONLY CheckConstants, TypeInv, Sole, <1>0, <3>4, <3>5, <3>6, <3>7, RequestMoves
  <2> QED  BY <2>6, <2>7
<1>6. CASE Bind(q)
  <2>1. UNCHANGED row
    BY <1>6 DEF Bind
  <2>2. CASE \E y : IsOver(q, y)
    BY <1>o, <2>1, <2>2
  <2>3. CASE /\ row[req[q].d].run # req[q].run
             /\ \E pc \in {"orphan", "adopt"} : \E y :
                  /\ Goes(q, y, pc) /\ y.run = req[q].run /\ y.late = req[q].late
    <3>1. PICK y : ReqAs(q, y) /\ y.pc # "bind" /\ y.run = req[q].run
      BY <2>3 DEF Goes
    <3>2. ~Bound(q)
      BY <2>3 DEF Bound
    <3> QED  BY <1>0, <2>1, <3>1, <3>2, CheckConstants, RequestAlone
  <2> QED  BY <1>0, <1>6, <2>2, <2>3, BindIs
<1>7. CASE Adopt(q)
  <2>1. ~Bound(q) /\ Adopters(q) \subseteq Row /\ \A x \in Adopters(q) : row[x].run = 0
    BY <1>0, <1>7 DEF Adopt, Adopters, SameHead
  <2>2. CASE UNCHANGED row /\ \E y : Goes(q, y, "orphan") /\ y.run = req[q].run /\ y.late = req[q].late
    <3>1. PICK y : ReqAs(q, y) /\ y.pc = "orphan" /\ y.run = req[q].run
      BY <2>2 DEF Goes
    <3> QED  BY <1>0, <2>1, <2>2, <3>1, CheckConstants, RequestAlone
  <2>3. CASE /\ \E x \in Adopters(q) : row' = [row EXCEPT ![x].run = req[q].run]
             /\ \E y : IsOver(q, y)
    <3>1. PICK x \in Row, i \in Nat : i = req[q].run /\ row[x].run = 0 /\ row' = [row EXCEPT ![x].run = i]
      BY <1>0, <2>1, <2>3
    <3>2. PICK z : /\ RowAs(x, z) /\ z.run = i /\ z.status = row[x].status /\ z.tries = row[x].tries
                   /\ SameFlags(row[x], z)
      BY <1>0, <3>1, RowRunIs
    <3>3. row'[x] = z /\ \A v \in Row : v # x => row'[v] = row[v]
      BY <1>0, <3>2, RowBecomes
    <3>4. \A v \in Row : Lives(v) /\ (row'[v].run \in {row[v].run, 0} \/ (v = x /\ row'[v].run = i))
      BY <3>2, <3>3 DEF Lives
    <3>5. \A v \in Row : UnderWatch(v) => RunsStay(v)
      BY <3>1, <3>2, <3>3 DEF RunsStay, UnderWatch
    <3>6. PICK y : ReqAs(q, y) /\ y.pc = "over" /\ y.run = 0
      BY <2>3 DEF IsOver
    <3> QED  BY <1>0, <2>1, <3>1, <3>4, <3>5, <3>6, CheckConstants, RequestMoves
  <2> QED  BY <1>0, <1>7, <2>2, <2>3, AdoptIs
<1>8. CASE CloseOrphan(q)
  <2>1. UNCHANGED row /\ \E y : IsOver(q, y)
    BY <1>8, OverIs DEF CloseOrphan
  <2> QED  BY <1>o, <2>1
<1> QED  BY <1>1, <1>2, <1>3, <1>4, <1>5, <1>6, <1>7, <1>8 DEF RequestStep

LEMMA SoleHolds == Spec => []Sole
<1>1. Init => Sole
  <2> SUFFICES ASSUME Init PROVE Sole
    OBVIOUS
  <2>1. /\ \A q \in Request : req[q].run = 0 /\ req[q].pc = "none"
        /\ \A w \in Worker : at[w].pc = "idle"
        /\ \A r \in Row : row[r].run = 0
        /\ reaper.pc = "idle"
    BY DEF Init, NoReq, Idle, NoRow, NewRow, Resting
  <2>2. \A r \in Row : \A i : Of(r, i) => i = 0
    BY <2>1 DEF Of, Uses, Working, WorkPc, Point
  <2>3. OneRow /\ StartsUnjudged /\ OwnRuns
    BY <2>1, <2>2 DEF OneRow, StartsUnjudged, OwnRuns
  <2>4. Private /\ Watched /\ ReaperMet
    BY <2>1 DEF Private, Watched, Watches, ReaperMet
  <2> QED  BY <2>3, <2>4 DEF Sole
<1>2. TypeInv /\ Alone /\ Sole /\ [Next]_vars => Sole'
  <2> SUFFICES ASSUME TypeInv, Alone, Sole, [Next]_vars PROVE Sole'
    OBVIOUS
  <2> QED  BY CheckConstants, Steps, RestsKeepsSole, EnvKeepsSole, RequestKeepsSole,
              AttemptKeepsSole, ReaperKeepsSole, SweepKeepsSole
<1> QED  BY <1>1, <1>2, TypesHold, AloneHolds, PTL DEF Spec

-----------------------------------------------------------------------------
(* What is said of a run with a verdict, and by whom.                      *)
Excused(i) ==
  \/ \E w \in Worker : at[w].pc \in {"start", "moved"} /\ at[w].carried = i
  \/ \E w \in Worker : at[w].pc = "stale" /\ i \in at[w].todo
  \/ reaper.pc = "tell" /\ reaper.run = i
Undone(i) == Verdict(i) /\ ~Verdict(i)'

LEMMA AttemptUndoes ==
  ASSUME CheckConstants, TypeInv, Sole, NEW w \in Worker, AttemptStep(w) \/ SettleStep(w)
  PROVE  \A i : Undone(i) => Excused(i)
<1>0. /\ run \in Seq(RunRecord) /\ at[w].carried \in Nat /\ at[w].own \in Nat
      /\ at[w].pc # "idle" => at[w].head \in 1..Heads /\ at[w].r \in Row /\ Ref[at[w].r] \in 1..Heads
      /\ \A i \in at[w].todo : i \in Nat
  BY CheckConstants DEF TypeInv, RunOK, AtOK, AttemptRecord, AttemptsKnow, RunId, CheckConstants
<1>1. ASSUME NoLostVerdict PROVE \A i : Undone(i) => Excused(i)
  BY <1>1 DEF NoLostVerdict, Undone
<1>2. ASSUME UNCHANGED run PROVE NoLostVerdict
  BY <1>2, SameRuns
<1>3. ASSUME NEW i \in Nat, NEW e \in End \ {"verdict"}, run' = EndedIfOpen(i, e) PROVE NoLostVerdict
  BY <1>0, <1>3, ClosingIs
<1>4. ASSUME NEW j \in Nat, NEW e \in {"open"} \cup End, run' = Ended(j, e)
      PROVE  \A i : Undone(i) => i = j /\ e # "verdict"
  BY <1>0, <1>4, EndingIs DEF Undone
<1>e. {"neutral", "cancelled", "failure"} \subseteq End \ {"verdict"} /\ "verdict" \in End
  BY DEF End
<1>5. CASE ReportWithoutRunning(w)
  <2>1. at[w].pc = "start"
    BY <1>5 DEF ReportWithoutRunning
  <2>2. CASE run' = Ended(at[w].carried, "neutral")
    <3>1. PICK j \in Nat : j = at[w].carried
      BY <1>0
    <3> QED  BY <1>4, <1>e, <2>1, <2>2, <3>1 DEF Excused
  <2>3. CASE run' = Append(run, [head |-> Ref[at[w].r], status |-> "neutral"])
    <3>1. PICK h \in 1..Heads : h = Ref[at[w].r]
      BY <1>0, <2>1
    <3> QED  BY <1>0, <1>1, <1>e, <2>3, <3>1, AppendedIs
  <2> QED  BY <1>5, <2>2, <2>3 DEF ReportWithoutRunning
<1>6. CASE Moved(w)
  <2>1. at[w].pc = "moved" /\ (UNCHANGED run \/ run' = Ended(at[w].carried, "neutral"))
    BY <1>6 DEF Moved
  <2>2. PICK j \in Nat : j = at[w].carried
    BY <1>0
  <2> QED  BY <1>1, <1>2, <1>4, <1>e, <2>1, <2>2 DEF Excused
<1>7. ASSUME NEW j \in at[w].todo, Stale(w, j) PROVE \A i : Undone(i) => Excused(i)
  <2>1. /\ at[w].pc = "stale" /\ j \in Nat
        /\ UNCHANGED run \/ \E e \in {"neutral", "cancelled"} : run' = Ended(j, e)
    BY <1>0, <1>7 DEF Stale
  <2> QED  BY <1>1, <1>2, <1>4, <1>e, <2>1 DEF Excused
<1>8. CASE Abandon(w)
  <2>1. PICK j \in Nat : j = at[w].carried
    BY <1>0
  <2> QED  BY <1>1, <1>2, <1>3, <1>8, <1>e, <2>1 DEF Abandon
<1>9. CASE StartRun(w)
  <2>1. at[w].pc = "startrun" /\ (UNCHANGED run \/ run' = Ended(at[w].carried, "open"))
    BY <1>9 DEF StartRun
  <2>2. PICK j \in Nat : j = at[w].carried
    BY <1>0
  <2>3. ~Verdict(j)
    BY <2>1, <2>2 DEF Sole, StartsUnjudged
  <2> QED  BY <1>1, <1>2, <1>4, <2>1, <2>2, <2>3 DEF Undone
<1>10. CASE CreateOwn(w)
  <2>1. UNCHANGED run \/ \E h \in 1..Heads : run' = Opened(h)
    BY <1>0, <1>10 DEF CreateOwn
  <2> QED  BY <1>0, <1>1, <1>2, <2>1, OpeningIs
<1>11. CASE Post(w) \/ Report(w)
  <2>1. UNCHANGED run \/ run' = Ended(at[w].own, "verdict")
    BY <1>11 DEF Post, Report
  <2>2. PICK j \in Nat : j = at[w].own
    BY <1>0
  <2> QED  BY <1>1, <1>2, <1>4, <1>e, <2>1, <2>2
<1>12. CASE Unreported(w)
  <2>1. PICK j \in Nat : j = at[w].carried
    BY <1>0
  <2>2. UNCHANGED run \/ run' = EndedIfOpen(j, "failure")
    BY <1>12, <2>1 DEF Unreported
  <2> QED  BY <1>1, <1>2, <1>3, <1>e, <2>2
<1>13. CASE SettleClose(w)
  <2>1. PICK j \in Nat : j = Attached(w)
    BY <1>0 DEF Attached
  <2> QED  BY <1>1, <1>2, <1>3, <1>13, <1>e, <2>1 DEF SettleClose
<1>14. CASE Unwind(w)
  <2>1. PICK j \in Nat : j = at[w].own
    BY <1>0
  <2>2. UNCHANGED run \/ run' = EndedIfOpen(j, "neutral")
    BY <1>14, <2>1 DEF Unwind
  <2> QED  BY <1>1, <1>2, <1>3, <1>e, <2>2
<1>15. CASE \/ \E r \in Row : Claim(w, r)
            \/ ReadHead(w) \/ RaiseEarly(w) \/ List(w) \/ Listed(w) \/ Probe(w) \/ Record(w)
            \/ Return(w) \/ Finish(w) \/ RequeueMoved(w) \/ Raised(w) \/ Leave(w) \/ SettleWrite(w)
  <2>1. UNCHANGED run
    BY <1>15 DEF Claim, ReadHead, RaiseEarly, List, Listed, Probe, Record, Return, Finish,
                 RequeueMoved, Raised, Leave, SettleWrite
  <2> QED  BY <1>1, <1>2, <2>1
<1> QED  BY <1>5, <1>6, <1>7, <1>8, <1>9, <1>10, <1>11, <1>12, <1>13, <1>14, <1>15
         DEF AttemptStep, SettleStep

LEMMA OthersUndo ==
  ASSUME CheckConstants, TypeInv, Sole,
         \/ \E q \in Request : Receive(q) \/ RequestStep(q)
         \/ ReaperStep
         \/ \E s \in Sweeper : SweepStep(s)
  PROVE  \A i : Undone(i) => Excused(i)
<1>0. /\ run \in Seq(RunRecord) /\ ~Verdict(0)
      /\ reaper.run \in Nat /\ (reaper.pc # "idle" => reaper.end \in End \ {"verdict"} /\ reaper.r \in Row)
      /\ \A r \in Row : Ref[r] \in 1..Heads
      /\ \A q \in Request : req[q].run \in Nat /\ (req[q].pc \notin {"none", "over"} => req[q].d \in Row)
      /\ \A q \in Request : req[q].late = "asked" => req[q].pc \in {"insert", "adopt"}
  BY CheckConstants, NewIsUnused DEF TypeInv, RunOK, ReaperOK, HandOK, HandKnows, HandRecord, RunId, CheckConstants,
     ReqOK, ReqRecord, RequestsKnow, LateIsAsked
<1>1. ASSUME NoLostVerdict PROVE \A i : Undone(i) => Excused(i)
  BY <1>1 DEF NoLostVerdict, Undone
<1>2. ASSUME UNCHANGED run PROVE NoLostVerdict
  BY <1>2, SameRuns
<1>4. ASSUME NEW j \in Nat, NEW e \in {"open"} \cup End, run' = Ended(j, e)
      PROVE  \A i : Undone(i) => i = j
  BY <1>0, <1>4, EndingIs DEF Undone
<1>5. ASSUME NEW q \in Request, Receive(q) \/ RequestStep(q) PROVE \A i : Undone(i) => Excused(i)
  <2>1. CASE Create(q) \/ LateAnswer(q)
    <3>1. \E h \in 1..Heads : run' = Opened(h)
      BY <1>0, <2>1 DEF Create, LateAnswer
    <3> QED  BY <1>0, <1>1, <3>1, OpeningIs
  <2>2. CASE CloseOrphan(q)
    <3>1. PICK j \in Nat : j = req[q].run
      BY <1>0
    <3>2. UNCHANGED run \/ run' = Ended(j, "cancelled")
      BY <2>2, <3>1 DEF CloseOrphan
    <3>3. req[q].pc = "orphan" /\ ~Bound(q)
      BY <2>2 DEF CloseOrphan, Bound, Watches
    <3>4. ~Verdict(j)
      BY <1>0, <3>1, <3>3 DEF Sole, Private
    <3> QED  BY <1>1, <1>2, <1>4, <3>2, <3>4 DEF Undone, End
  <2>3. CASE Receive(q) \/ CreateLate(q) \/ Insert(q) \/ Bind(q) \/ Adopt(q)
    <3>1. UNCHANGED run
      BY <2>3 DEF Receive, CreateLate, Insert, Bind, Adopt
    <3> QED  BY <1>1, <1>2, <3>1
  <2> QED  BY <1>5, <2>1, <2>2, <2>3 DEF RequestStep
<1>6. CASE ReaperStep
  <2>1. CASE ReaperClose
    <3>1. PICK j \in Nat, e \in End \ {"verdict"} : j = reaper.run /\ e = reaper.end
      BY <1>0, <2>1 DEF ReaperClose
    <3>2. UNCHANGED run \/ run' = EndedIfOpen(j, e)
      BY <2>1, <3>1 DEF ReaperClose
    <3> QED  BY <1>0, <1>1, <1>2, <3>2, ClosingIs
  <2>2. CASE Tell
    <3>1. PICK j \in Nat, e \in End \ {"verdict"}, h \in 1..Heads :
            j = reaper.run /\ e = reaper.end /\ h = Ref[reaper.r]
      BY <1>0, <2>2 DEF Tell
    <3>2. UNCHANGED run \/ run' = Ended(j, e) \/ run' = Append(run, [head |-> h, status |-> e])
      BY <2>2, <3>1 DEF Tell
    <3>3. reaper.pc = "tell"
      BY <2>2 DEF Tell
    <3> QED  BY <1>0, <1>1, <1>2, <1>4, <3>1, <3>2, <3>3, AppendedIs DEF Excused
  <2>3. CASE (\E r \in Row : Reap(r) \/ MarkDead(r)) \/ ReaperRequeue
    <3>1. UNCHANGED run
      BY <2>3 DEF Reap, MarkDead, ReaperRequeue
    <3> QED  BY <1>1, <1>2, <3>1
  <2> QED  BY <1>6, <2>1, <2>2, <2>3 DEF ReaperStep
<1>7. ASSUME NEW s \in Sweeper, SweepStep(s) PROVE \A i : Undone(i) => Excused(i)
  BY <1>1, <1>7, EachSweep, CheckConstants DEF SweepMay
<1> QED  BY <1>5, <1>6, <1>7

(* What the review has said stays on its run: no orphan's close, canceller,*)
(* sweep or reaped attempt replaces it, and no attempt starts a run that   *)
(* has its verdict.  The exceptions are those of VerdictStays: the row's   *)
(* own next attempt before it has a run, the dead-letter notice, and a     *)
(* retry that listed the run while it was open.                            *)
THEOREM VerdictsStay == Spec => VerdictStays
<1> DEFINE A == \A i \in DOMAIN run : run[i].status = "verdict" /\ run'[i].status # "verdict" => Excused(i)
<1>1. TypeInv /\ Alone /\ Sole /\ [Next]_vars => [A]_run
  <2> SUFFICES ASSUME TypeInv, Sole, Next, run' # run PROVE \A i : Undone(i) => Excused(i)
    <3>1. (\A i : Undone(i) => Excused(i)) => A
      BY DEF Undone, Verdict
    <3>2. UNCHANGED vars => run' = run
      BY DEF vars
    <3> QED  BY <3>1, <3>2
  <2>1. CASE \E w \in Worker : AttemptStep(w) \/ SettleStep(w)
    BY <2>1, AttemptUndoes, CheckConstants
  <2>2. CASE \/ \E q \in Request : Receive(q) \/ RequestStep(q)
             \/ ReaperStep
             \/ \E s \in Sweeper : SweepStep(s)
    BY <2>2, OthersUndo, CheckConstants
  <2> QED  BY <2>1, <2>2 DEF Next, Push, Cancel, RetryNow, Stop, Die
<1>2. [][A]_run => VerdictStays
  BY PTL DEF VerdictStays, Excused
<1> QED  BY <1>1, <1>2, TypesHold, AloneHolds, SoleHolds, PTL DEF Spec

-----------------------------------------------------------------------------
(* Which runs a step opens.                                                *)
NoneOpens == \A i : Open(i)' => Open(i)
OpensOnly(I) == \A i : Open(i)' => Open(i) \/ i = I

LEMMA OpenExists ==
  ASSUME TypeInv
  PROVE  Len(run) \in Nat /\ DOMAIN run = 1..Len(run) /\ \A i : Open(i) => i \in 1..Len(run)
BY LenProperties DEF TypeInv, RunOK, Open

LEMMA EndingOpens ==
  ASSUME run \in Seq(RunRecord), NEW i \in Nat, NEW e \in {"open"} \cup End, run' = Ended(i, e)
  PROVE  /\ OpensOnly(i)
         /\ e # "open" => NoneOpens
         /\ e # "open" => \A j : j = i => ~Open(j)'
<1>1. /\ DOMAIN run' = DOMAIN run
      /\ \A j \in DOMAIN run : run'[j].status = IF j = i THEN e ELSE run[j].status
  BY EndsThat
<1> QED  BY <1>1 DEF OpensOnly, NoneOpens, Open

LEMMA ClosingOpens ==
  ASSUME run \in Seq(RunRecord), NEW i \in Nat, NEW e \in End, run' = EndedIfOpen(i, e)
  PROVE  NoneOpens /\ \A j : j = i => ~Open(j)'
<1>1. CASE Open(i)
  <2>1. run' = Ended(i, e) /\ e # "open" /\ e \in {"open"} \cup End
    BY <1>1 DEF EndedIfOpen, End
  <2> QED  BY <2>1, EndingOpens
<1>2. CASE ~Open(i)
  BY <1>2 DEF EndedIfOpen, NoneOpens, Open
<1> QED  BY <1>1, <1>2

LEMMA AddingOpens ==
  ASSUME run \in Seq(RunRecord), NEW h \in 1..Heads, NEW e \in {"open"} \cup End,
         run' = Append(run, [head |-> h, status |-> e])
  PROVE  OpensOnly(Len(run) + 1) /\ (e # "open" => NoneOpens)
<1> DEFINE x == [head |-> h, status |-> e]
<1>1. x \in RunRecord /\ x.status = e /\ run' = Append(run, x)
  BY DEF RunRecord
<1> HIDE DEF x
<1>2. Len(run) \in Nat /\ DOMAIN run = 1..Len(run)
  BY LenProperties
<1>3. /\ DOMAIN run' = 1..(Len(run) + 1)
      /\ run'[Len(run) + 1] = x /\ \A i \in 1..Len(run) : run'[i] = run[i]
  BY <1>1, <1>2, AppendProperties, LenProperties
<1>4. \A i : Open(i)' => Open(i) \/ (i = Len(run) + 1 /\ e = "open")
  BY <1>1, <1>2, <1>3 DEF Open
<1> QED  BY <1>4 DEF OpensOnly, NoneOpens

LEMMA SameOpen ==
  ASSUME UNCHANGED run PROVE NoneOpens
BY DEF NoneOpens, Open

-----------------------------------------------------------------------------
(* The invariant.  Until its canceller has written the row an attempt      *)
(* works on the run its row carries, and does not leave an open one for    *)
(* another; where it ends its row the run is closed.                       *)
Here(w) == Working(w) /\ ~at[w].final
InWork(x) == IF x.own = 0 \/ x.pc = "record" THEN x.carried ELSE x.own
AttemptFits(x) ==
  /\ x.pc \in EarlyPc \cup {"record"} => ~x.final /\ x.settle = "none" /\ ~x.closed
  /\ x.pc \in {"record", "review", "posted", "report", "unwind", "leave"} => x.own # 0
  /\ x.settle # "none" /\ x.pc \in WorkPc => x.own # 0 \/ x.pc = "finish"
  /\ x.settle = "write" => x.closed
AttemptKept(w) ==
  /\ AttemptFits(at[w])
  /\ at[w].pc \in {"list", "stale", "create", "record"} /\ Open(at[w].carried) =>
       at[w].pc = "record" /\ at[w].own = at[w].carried
  /\ Here(w) =>
       /\ row[at[w].r].run = InWork(at[w])
       /\ at[w].closed \/ at[w].pc \in {"posted", "finish", "leave"} => ~Open(row[at[w].r].run)

(* A row that nobody looks at again has a run that is closed.              *)
Telling(r) == reaper.pc = "tell" /\ reaper.r = r
Given(r) ==
  row[r].status \in {"done", "left"} \/ row[r].swept \/ (row[r].told /\ ~Telling(r))
RowSettled(r) ==
  /\ row[r].swept => row[r].status \in Retired
  /\ row[r].told => row[r].status = "dead"
  /\ row[r].status = "none" => row[r].run = 0
  /\ Given(r) => ~Open(row[r].run)

(* What the sweep and the dead-letter notice have in hand is still so.     *)
SweepTrue(s) ==
  sweep[s].pc # "idle" =>
    /\ row[sweep[s].r].status \in Retired /\ row[sweep[s].r].run = sweep[s].run
    /\ sweep[s].pc = "mark" => ~Open(sweep[s].run)
TellTrue ==
  reaper.pc = "tell" =>
    row[reaper.r].status = "dead" /\ row[reaper.r].told /\ row[reaper.r].run = reaper.run
RunlessYet(q) ==
  req[q].pc \in {"none", "create"} \/ req[q].late = "asked" => req[q].run = 0

Recording(i) == \E w \in Worker : at[w].pc = "record" /\ at[w].own = i
OnRow(i) == \E r \in Row : row[r].run = i
ToClose(i) == reaper.pc = "close" /\ reaper.run = i
Known(i) == HeldByRequest(i) \/ Recording(i) \/ OnRow(i) \/ ToClose(i)

AttemptsKept == \A w \in Worker : AttemptKept(w)
RowsSettled == \A r \in Row : RowSettled(r)
HandsTrue == TellTrue /\ \A s \in Sweeper : SweepTrue(s)
RunlessAll == \A q \in Request : RunlessYet(q)
AllKnown == \A i : Open(i) => Known(i)
Kept == AttemptsKept /\ RowsSettled /\ HandsTrue /\ RunlessAll /\ AllKnown

(* Where a run is known its row, if it has one, is yet to be looked at.    *)
LEMMA KeptIsEnough ==
  ASSUME TypeInv, Kept PROVE NoRunForgotten
<1> SUFFICES ASSUME NEW i \in DOMAIN run, Open(i)
             PROVE  HeldByRequest(i) \/ HeldByAttempt(i) \/ HeldByRow(i) \/ HeldInHand(i)
  BY DEF NoRunForgotten
<1>1. Known(i) /\ i # 0
  BY OpenExists DEF Kept, AllKnown
<1>2. CASE Recording(i)
  BY <1>2 DEF Recording, HeldByAttempt
<1>3. CASE OnRow(i)
  <2>1. PICK r \in Row : row[r].run = i
    BY <1>3 DEF OnRow
  <2>2. row[r].status \in Status /\ RowSettled(r) /\ TellTrue /\ ~Given(r)
    BY <2>1 DEF Kept, RowsSettled, HandsTrue, RowSettled, TypeInv, RowOK, RowRecord
  <2> QED  BY <1>1, <2>1, <2>2
           DEF RowSettled, Given, Telling, TellTrue, HeldByRow, HeldInHand, Status, Live, Retired
<1> QED  BY <1>1, <1>2, <1>3 DEF Known, ToClose, HeldInHand

-----------------------------------------------------------------------------
(* What a step leaves alone stays kept.                                    *)
LEMMA HereIs ==
  ASSUME TypeInv, Alone, NEW w \in Worker, Here(w)
  PROVE  /\ at[w].r \in Row /\ row[at[w].r].status = "running" /\ row[at[w].r].tries > 0
         /\ at[w].own \in Nat /\ at[w].carried \in Nat
         /\ at[w].pc \in EarlyPc => at[w].own = 0
BY DEF Here, Alone, RowsHeld, HoldsRow, TypeInv, AtOK, AttemptsKnow, Working, WorkPc, Point,
       AttemptRecord, RunId

(* Until it is recorded the row carries the run it was claimed with.       *)
LEMMA LeftBehindIs ==
  ASSUME TypeInv, Alone, Kept, NEW w \in Worker, at[w].pc \in {"list", "stale", "create", "record"}
  PROVE  Here(w) /\ row[at[w].r].run = at[w].carried
<1>1. Here(w)
  BY DEF Kept, AttemptsKept, AttemptKept, AttemptFits, EarlyPc, Here, Working, WorkPc, Point
<1>2. at[w].own = 0 \/ at[w].pc = "record"
  BY <1>1, HereIs DEF EarlyPc
<1> QED  BY <1>1, <1>2 DEF Kept, AttemptsKept, AttemptKept, InWork

(* A run that is not newly opened. *)
Shuts(i) == Open(i)' => Open(i)

(* An attempt that rests, whose row keeps its run.                         *)
LEMMA AttemptStays ==
  ASSUME TypeInv, Alone, Kept, NEW v \in Worker, at'[v] = at[v],
         Here(v) => row'[at[v].r].run = row[at[v].r].run,
         Here(v) => \A i : i = row[at[v].r].run => Shuts(i)
  PROVE  AttemptKept(v)'
<1>1. AttemptFits(at[v]) /\ AttemptFits(at'[v])
  BY DEF Kept, AttemptsKept, AttemptKept
<1>2. ASSUME at[v].pc \in {"list", "stale", "create", "record"}, Open(at[v].carried)'
      PROVE  at[v].pc = "record" /\ at[v].own = at[v].carried
  <2>1. Open(at[v].carried)
    BY <1>2, LeftBehindIs DEF Shuts, Open
  <2> QED  BY <1>2, <2>1 DEF Kept, AttemptsKept, AttemptKept
<1>3. ASSUME Here(v)'
      PROVE  /\ (row[at[v].r].run = InWork(at[v]))'
             /\ (at[v].closed \/ at[v].pc \in {"posted", "finish", "leave"})' => ~Open(row[at[v].r].run)'
  <2>1. Here(v)
    BY <1>3 DEF Here, Working
  <2>2. /\ row[at[v].r].run = InWork(at[v])
        /\ at[v].closed \/ at[v].pc \in {"posted", "finish", "leave"} => ~Open(row[at[v].r].run)
    BY <2>1 DEF Kept, AttemptsKept, AttemptKept
  <2> QED  BY <2>1, <2>2 DEF Shuts, Open, InWork
<1> QED  BY <1>1, <1>2, <1>3 DEF AttemptKept, Open

(* A row that keeps its run and its marks.                                 *)
LEMMA RowStays ==
  ASSUME TypeInv, Kept, NEW r \in Row, SameFlags(row[r], row'[r]), row'[r].run = row[r].run,
         \/ row'[r].status = row[r].status
         \/ /\ row[r].status \in {"queued", "running"}
            /\ row'[r].status \notin {"done", "left", "none"},
         row[r].status # "running" => \A i : i = row[r].run => Shuts(i),
         Telling(r) => Telling(r)'
  PROVE  RowSettled(r)'
<1>1. RowSettled(r)
  BY DEF Kept, RowsSettled
<1>2. row'[r].swept = row[r].swept /\ row'[r].told = row[r].told
  BY DEF SameFlags
<1>3. (~row[r].swept /\ ~row[r].told) \/ row[r].status \notin {"queued", "running"}
  BY <1>1 DEF RowSettled, Retired
<1>4. /\ row'[r].swept => row'[r].status \in Retired
      /\ row'[r].told => row'[r].status = "dead"
      /\ row'[r].status = "none" => row'[r].run = 0
  BY <1>1, <1>2, <1>3 DEF RowSettled
<1>5. ASSUME Given(r)' PROVE ~Open(row[r].run)'
  <2>1. Given(r) /\ row[r].status # "running"
    BY <1>2, <1>3, <1>5 DEF Given
  <2> QED  BY <1>1, <2>1 DEF RowSettled, Shuts, Open
<1> QED  BY <1>4, <1>5 DEF RowSettled

(* What a sweep has in hand, while its row stays retired.                  *)
LEMMA SweepStays ==
  ASSUME TypeInv, Kept, NEW s \in Sweeper, sweep'[s] = sweep[s],
         \A r \in Row : r = sweep[s].r /\ row[r].status \in Retired =>
           /\ row'[r].status \in Retired /\ row'[r].run = row[r].run
           /\ \A i : i = row[r].run => Shuts(i)
  PROVE  SweepTrue(s)'
<1> SUFFICES ASSUME sweep[s].pc # "idle"
             PROVE  /\ row'[sweep[s].r].status \in Retired /\ row'[sweep[s].r].run = sweep[s].run
                    /\ sweep[s].pc = "mark" => ~Open(sweep[s].run)'
  BY DEF SweepTrue, Open
<1>1. SweepTrue(s) /\ sweep[s].r \in Row
  BY DEF Kept, HandsTrue, TypeInv, SweepOK, HandOK, HandKnows
<1> QED  BY <1>1 DEF SweepTrue, Shuts, Open

(* What the notice has in hand, while its row stays dead.                  *)
LEMMA TellStays ==
  ASSUME TypeInv, Kept, reaper' = reaper,
         \A r \in Row : Telling(r) /\ row[r].status = "dead" =>
           row'[r].status = "dead" /\ row'[r].told = row[r].told /\ row'[r].run = row[r].run
  PROVE  TellTrue'
<1> SUFFICES ASSUME reaper.pc = "tell"
             PROVE  /\ row'[reaper.r].status = "dead" /\ row'[reaper.r].told
                    /\ row'[reaper.r].run = reaper.run
  BY DEF TellTrue
<1>1. TellTrue /\ reaper.r \in Row
  BY DEF Kept, HandsTrue, TypeInv, ReaperOK, HandOK, HandKnows
<1> QED  BY <1>1 DEF TellTrue, Telling

LEMMA RowsRest ==
  ASSUME TypeInv, Kept, UNCHANGED <<row, reaper, sweep>>,
         \A r \in Row : row[r].status # "running" => \A i : i = row[r].run => Shuts(i)
  PROVE  RowsSettled' /\ HandsTrue'
<1>1. RowsSettled'
  BY RowStays DEF RowsSettled, SameFlags, Telling
<1>2. \A s \in Sweeper : SweepTrue(s)'
  BY SweepStays DEF Retired
<1>3. TellTrue'
  BY TellStays
<1> QED  BY <1>1, <1>2, <1>3 DEF HandsTrue

LEMMA KnownStays ==
  ASSUME NEW i, Known(i), UNCHANGED <<req, row, reaper>>,
         \A w \in Worker : at[w].pc = "record" /\ at[w].own = i =>
           at'[w].pc = "record" /\ at'[w].own = i
  PROVE  Known(i)'
BY DEF Known, HeldByRequest, Recording, OnRow, ToClose

(* A step of an attempt, or of its canceller, that leaves the rows alone.  *)
LEMMA WithinKeeps ==
  ASSUME TypeInv, Alone, Kept, NEW w \in Worker, NEW y, AtAs(w, y),
         UNCHANGED <<row, req, reaper, sweep>>, NoneOpens,
         at[w].pc # "record", y.pc # "record", AttemptFits(y),
         y.pc \in WorkPc => /\ Working(w) /\ y.r = at[w].r /\ y.own = at[w].own
                            /\ y.carried = at[w].carried /\ (~y.final => ~at[w].final),
         y.pc \in {"list", "stale", "create"} => \A i : i = y.carried => ~Open(i)',
         y.pc \in WorkPc /\ ~y.final /\ (y.closed \/ y.pc \in {"posted", "finish", "leave"}) =>
           \A i : i = row[y.r].run => ~Open(i)'
  PROVE  Kept'
<1>1. at'[w] = y /\ \A v \in Worker : v # w => at'[v] = at[v]
  BY AtBecomes DEF TypeInv, AtOK
<1>2. \A i : Shuts(i)
  BY DEF NoneOpens, Shuts
<1>3. \A v \in Worker : v # w => AttemptKept(v)'
  BY <1>1, <1>2, AttemptStays
<1>4. AttemptKept(w)'
  <2>1. ~(y.pc \in {"list", "stale", "create", "record"} /\ Open(y.carried)')
    BY DEF Open
  <2>2. ASSUME y.pc \in WorkPc, ~y.final
        PROVE  /\ row[y.r].run = InWork(y)
               /\ y.closed \/ y.pc \in {"posted", "finish", "leave"} => ~Open(row[y.r].run)'
    <3>1. Here(w) /\ row[at[w].r].run = InWork(at[w])
      BY <2>2 DEF Here, Kept, AttemptsKept, AttemptKept
    <3> QED  BY <2>2, <3>1 DEF InWork, Open
  <2> QED  BY <1>1, <2>1, <2>2 DEF AttemptKept, Here, Working, Open
<1>5. RowsSettled' /\ HandsTrue'
  BY <1>2, RowsRest
<1>6. RunlessAll'
  BY DEF Kept, RunlessAll, RunlessYet
<1>7. AllKnown'
  BY <1>1, KnownStays DEF Kept, AllKnown, NoneOpens
<1> QED  BY <1>3, <1>4, <1>5, <1>6, <1>7 DEF Kept, AttemptsKept

-----------------------------------------------------------------------------
(* Attempts: steps that only move on.                                      *)
SameJob(x, y) == /\ y.r = x.r /\ y.carried = x.carried /\ y.own = x.own
                 /\ y.settle = x.settle /\ y.closed = x.closed /\ y.final = x.final
MovesTo(w, y, pc) == AtAs(w, y) /\ y.pc = pc /\ SameJob(at[w], y)

LEMMA GoMoves ==
  ASSUME at \in [Worker -> AttemptRecord], NEW w \in Worker, NEW pc \in Point \cup {"idle"}, Go(w, pc)
  PROVE  \E y : MovesTo(w, y, pc)
<1> DEFINE x == at[w]
           y == [x EXCEPT !.pc = pc]
<1>1. at' = [at EXCEPT ![w] = y] /\ x \in AttemptRecord
  BY DEF Go
<1> HIDE DEF x
<1>2. y \in AttemptRecord /\ y.pc = pc /\ SameJob(x, y)
  BY <1>1 DEF AttemptRecord, SameJob
<1> HIDE DEF y
<1> QED  BY <1>1, <1>2 DEF MovesTo, AtAs, x

LEMMA ReadHeadMoves ==
  ASSUME CheckConstants, at \in [Worker -> AttemptRecord], AttemptsKnow, tip \in 1..Heads,
         NEW w \in Worker, ReadHead(w)
  PROVE  \E pc \in {"moved", "probe", "list", "create"} :
           /\ pc \in {"list", "create"} => at[w].carried = 0
           /\ \E y : MovesTo(w, y, pc)
<1>1. at[w].r \in Row
  BY DEF ReadHead, AttemptsKnow
<1>2. PICK h \in {tip, Ref[at[w].r]} :
        at' = [at EXCEPT ![w].head = h, ![w].moved = (h # Ref[at[w].r]),
                         ![w].pc = IF h # Ref[at[w].r] THEN "moved"
                                   ELSE IF at[w].carried # 0 THEN "probe" ELSE BeforeCreate(w)]
  BY DEF ReadHead
<1> DEFINE x == at[w]
           m == (h # Ref[at[w].r])
           pc == IF h # Ref[at[w].r] THEN "moved"
                 ELSE IF at[w].carried # 0 THEN "probe" ELSE BeforeCreate(w)
           y == [x EXCEPT !.head = h, !.moved = m, !.pc = pc]
<1>3. at' = [at EXCEPT ![w] = y] /\ x \in AttemptRecord
  BY <1>2
<1>4. /\ pc \in {"moved", "probe", "list", "create"} /\ (pc \in {"list", "create"} => x.carried = 0)
      /\ m \in BOOLEAN /\ h \in 0..Heads /\ pc \in Point \cup {"idle"}
  BY <1>1 DEF BeforeCreate, CheckConstants, Point
<1> HIDE DEF x, m, pc
<1>5. y \in AttemptRecord /\ y.pc = pc /\ SameJob(x, y)
  BY <1>3, <1>4 DEF AttemptRecord, SameJob
<1> HIDE DEF y
<1>6. MovesTo(w, y, pc)
  BY <1>3, <1>5 DEF MovesTo, AtAs, x
<1> QED  BY <1>4, <1>6 DEF x

LEMMA ListMoves ==
  ASSUME at \in [Worker -> AttemptRecord], run \in Seq(RunRecord), NEW w \in Worker, List(w)
  PROVE  \E y : MovesTo(w, y, "stale")
<1> DEFINE x == at[w]
           t == {i \in DOMAIN run : Open(i) /\ run[i].head = StaleHead(w)}
           y == [x EXCEPT !.pc = "stale", !.todo = t]
<1>1. at' = [at EXCEPT ![w] = y] /\ x \in AttemptRecord
  BY DEF List
<1>2. DOMAIN run \subseteq Nat
  BY LenProperties
<1>3. t \in SUBSET RunId /\ "stale" \in Point
  BY <1>2 DEF RunId, Point
<1> HIDE DEF x, t
<1>4. y \in AttemptRecord /\ y.pc = "stale" /\ SameJob(x, y)
  BY <1>1, <1>3 DEF AttemptRecord, SameJob
<1> HIDE DEF y
<1> QED  BY <1>1, <1>4 DEF MovesTo, AtAs, x

LEMMA StaleMoves ==
  ASSUME at \in [Worker -> AttemptRecord], NEW w \in Worker, NEW i, Stale(w, i)
  PROVE  \E y : MovesTo(w, y, "stale")
<1> DEFINE x == at[w]
           t == x.todo \ {i}
           y == [x EXCEPT !.todo = t]
<1>1. at' = [at EXCEPT ![w] = y] /\ x \in AttemptRecord /\ x.pc = "stale"
  BY DEF Stale
<1>2. t \in SUBSET RunId
  BY <1>1 DEF AttemptRecord
<1> HIDE DEF x, t
<1>3. y \in AttemptRecord /\ y.pc = "stale" /\ SameJob(x, y)
  BY <1>1, <1>2 DEF AttemptRecord, SameJob
<1> HIDE DEF y
<1> QED  BY <1>1, <1>3 DEF MovesTo, AtAs, x

LEMMA ListedMoves ==
  ASSUME at \in [Worker -> AttemptRecord], NEW w \in Worker, Listed(w)
  PROVE  \E pc \in {"list", "create"} : \E y : MovesTo(w, y, pc)
<1> DEFINE x == at[w]
           pc == IF at[w].moved THEN BeforeCreate(w) ELSE "create"
           y == [x EXCEPT !.pc = pc, !.moved = FALSE]
<1>1. at' = [at EXCEPT ![w] = y] /\ x \in AttemptRecord
  BY DEF Listed
<1>2. pc \in {"list", "create"} /\ pc \in Point
  BY DEF BeforeCreate, Point
<1> HIDE DEF x, pc
<1>3. y \in AttemptRecord /\ y.pc = pc /\ SameJob(x, y)
  BY <1>1, <1>2 DEF AttemptRecord, SameJob
<1> HIDE DEF y
<1>4. MovesTo(w, y, pc)
  BY <1>1, <1>3 DEF MovesTo, AtAs, x
<1> QED  BY <1>2, <1>4

LEMMA ReturnMoves ==
  ASSUME CheckConstants, at \in [Worker -> AttemptRecord], tip \in 1..Heads, NEW w \in Worker, Return(w)
  PROVE  \E pc \in {"unwind", "finish", "report"} :
           (pc = "finish" => at[w].pc = "posted") /\ \E y : MovesTo(w, y, pc)
<1> DEFINE x == at[w]
           pc == IF at[w].stopped THEN "unwind"
                 ELSE IF at[w].pc = "posted" THEN "finish" ELSE "report"
           n == IF at[w].stopped \/ tip = at[w].head THEN 0 ELSE tip
           y == [x EXCEPT !.pc = pc, !.next = n]
<1>1. at' = [at EXCEPT ![w] = y] /\ x \in AttemptRecord
  BY DEF Return
<1>2. /\ pc \in {"unwind", "finish", "report"} /\ pc \in Point /\ n \in 0..Heads
      /\ pc = "finish" => at[w].pc = "posted"
  BY DEF Point, CheckConstants
<1> HIDE DEF x, pc, n
<1>3. y \in AttemptRecord /\ y.pc = pc /\ SameJob(x, y)
  BY <1>1, <1>2 DEF AttemptRecord, SameJob
<1> HIDE DEF y
<1>4. MovesTo(w, y, pc)
  BY <1>1, <1>3 DEF MovesTo, AtAs, x
<1> QED  BY <1>2, <1>4

(* A step that changes neither the runs nor what the attempt works on.     *)
LEMMA MovesKeep ==
  ASSUME TypeInv, Alone, Kept, NEW w \in Worker, NEW pc \in WorkPc \ {"record"}, NEW y,
         MovesTo(w, y, pc), Working(w), at[w].pc # "record",
         UNCHANGED <<row, req, reaper, sweep>>, NoneOpens,
         pc \in EarlyPc => at[w].pc \in EarlyPc,
         pc \in {"review", "posted", "report", "unwind", "leave"} => at[w].own # 0,
         at[w].settle # "none" => at[w].own # 0 \/ pc = "finish",
         pc \in {"list", "stale", "create"} => \A i : i = at[w].carried => ~Open(i)',
         pc \in {"posted", "finish", "leave"} /\ ~at[w].final =>
           \A i : i = row[at[w].r].run => ~Open(i)'
  PROVE  Kept'
<1>1. AttemptKept(w) /\ AttemptFits(at[w])
  BY DEF Kept, AttemptsKept, AttemptKept
<1>2. AttemptFits(y)
  BY <1>1 DEF AttemptFits, MovesTo, SameJob
<1>3. ASSUME y.pc \in WorkPc, ~y.final, y.closed \/ y.pc \in {"posted", "finish", "leave"}
      PROVE  \A i : i = row[y.r].run => ~Open(i)'
  <2>1. CASE y.closed
    <3>1. Here(w) /\ at[w].closed
      BY <1>3, <2>1 DEF MovesTo, SameJob, Here
    <3>2. ~Open(row[at[w].r].run)
      BY <1>1, <3>1 DEF AttemptKept
    <3> QED  BY <3>2 DEF NoneOpens, MovesTo, SameJob
  <2>2. CASE y.pc \in {"posted", "finish", "leave"}
    BY <1>3, <2>2 DEF MovesTo, SameJob
  <2> QED  BY <1>3, <2>1, <2>2
<1> QED  BY <1>2, <1>3, WithinKeeps DEF MovesTo, SameJob

LEMMA AttemptFacts ==
  ASSUME TypeInv, Alone, Kept, NEW w \in Worker, Working(w)
  PROVE  /\ at \in [Worker -> AttemptRecord] /\ AttemptsKnow /\ run \in Seq(RunRecord)
         /\ tip \in 1..Heads /\ at[w].r \in Row
         /\ at[w].own \in Nat /\ at[w].carried \in Nat
         /\ at[w].pc \in EarlyPc => /\ at[w].own = 0 /\ at[w].settle = "none" /\ Here(w)
                                    /\ row[at[w].r].run = at[w].carried
         /\ at[w].pc \in {"probe", "startrun"} => at[w].carried # 0
         /\ at[w].pc \in {"review", "posted", "report", "unwind", "leave"} => at[w].own # 0
         /\ at[w].settle # "none" => at[w].own # 0 \/ at[w].pc = "finish"
         /\ Here(w) /\ at[w].own # 0 /\ at[w].pc # "record" => row[at[w].r].run = at[w].own
         /\ ~Open(0)
<1>1. /\ at \in [Worker -> AttemptRecord] /\ AttemptsKnow /\ run \in Seq(RunRecord)
      /\ tip \in 1..Heads /\ at[w].r \in Row /\ at[w].own \in Nat /\ at[w].carried \in Nat
  BY DEF TypeInv, AtOK, RunOK, ClockOK, AttemptsKnow, Working, WorkPc, Point, AttemptRecord, RunId
<1>2. HoldsRow(w)
  BY DEF Alone, RowsHeld
<1>3. AttemptFits(at[w]) /\ (Here(w) => row[at[w].r].run = InWork(at[w]))
  BY DEF Kept, AttemptsKept, AttemptKept
<1>4. at[w].pc \in EarlyPc => Here(w) /\ at[w].own = 0 /\ at[w].settle = "none"
  BY <1>2, <1>3 DEF AttemptFits, HoldsRow, Here
<1>5. ~Open(0)
  BY OpenExists
<1> QED  BY <1>1, <1>2, <1>3, <1>4, <1>5 DEF AttemptFits, HoldsRow, InWork, Working

(* From the head's lookup to the create, a refused close aside.            *)
LEMMA EarlyKeeps ==
  ASSUME CheckConstants, Forgiving, TypeInv, Alone, Kept, NEW w \in Worker,
         \/ ReadHead(w) \/ RaiseEarly(w) \/ Moved(w) \/ List(w) \/ (\E i \in at[w].todo : Stale(w, i))
         \/ Listed(w) \/ Probe(w) \/ Abandon(w)
  PROVE  Kept'
<1>0. /\ Working(w) /\ at[w].pc \in EarlyPc /\ at[w].pc # "record"
      /\ UNCHANGED <<row, req, reaper, sweep>>
  BY DEF ReadHead, RaiseEarly, Moved, List, Stale, Listed, Probe, Abandon, attemptKeeps,
         Working, WorkPc, Point, EarlyPc
<1>f. /\ at \in [Worker -> AttemptRecord] /\ AttemptsKnow /\ run \in Seq(RunRecord)
      /\ tip \in 1..Heads /\ at[w].carried \in Nat /\ at[w].own = 0 /\ at[w].settle = "none"
      /\ ~Open(0) /\ AttemptKept(w)
  BY <1>0, AttemptFacts DEF Kept, AttemptsKept
<1> DEFINE Step(pc) == \E y : MovesTo(w, y, pc)
<1>m. ASSUME NEW pc \in {"moved", "probe", "startrun", "abandon", "raised"}, Step(pc), NoneOpens
      PROVE  Kept'
  BY <1>0, <1>f, <1>m, MovesKeep DEF WorkPc, Point
<1>c. ASSUME NEW pc \in {"list", "stale", "create"}, Step(pc), NoneOpens,
             \A i : i = at[w].carried => ~Open(i)'
      PROVE  Kept'
  BY <1>0, <1>f, <1>c, MovesKeep DEF WorkPc, Point
<1>s. UNCHANGED run => NoneOpens
  BY SameOpen
<1>1. CASE ReadHead(w)
  <2>1. UNCHANGED run
    BY <1>1 DEF ReadHead
  <2>2. PICK pc \in {"moved", "probe", "list", "create"} :
          (pc \in {"list", "create"} => at[w].carried = 0) /\ Step(pc)
    BY <1>1, <1>f, ReadHeadMoves
  <2>3. at[w].carried = 0 => \A i : i = at[w].carried => ~Open(i)'
    BY <1>f, <2>1, <1>s DEF NoneOpens
  <2> HIDE DEF Step
  <2> QED  BY <1>c, <1>m, <1>s, <2>1, <2>2, <2>3
<1>2. CASE RaiseEarly(w)
  <2>1. UNCHANGED run /\ Step("raised")
    BY <1>2, <1>f, GoMoves DEF RaiseEarly, Point
  <2> QED  BY <1>m, <1>s, <2>1
<1>3. CASE Moved(w)
  <2>1. Step("list")
    BY <1>3, <1>f, GoMoves DEF Moved, Point
  <2>2. NoneOpens /\ \A i : i = at[w].carried => ~Open(i)'
    <3>1. CASE at[w].carried # 0
      <4>1. run' = Ended(at[w].carried, "neutral")
        BY <1>3, <3>1 DEF Moved, Refuse, Forgiving, TriedOnce
      <4> QED  BY <1>f, <4>1, EndingOpens DEF End
    <3>2. CASE at[w].carried = 0
      <4>1. UNCHANGED run
        BY <1>3, <3>2 DEF Moved
      <4> QED  BY <1>f, <1>s, <3>2, <4>1 DEF NoneOpens
    <3> QED  BY <3>1, <3>2
  <2> QED  BY <1>c, <2>1, <2>2
<1>4. CASE List(w)
  <2>1. UNCHANGED run /\ Step("stale") /\ at[w].pc = "list"
    BY <1>4, <1>f, ListMoves DEF List
  <2>2. \A i : i = at[w].carried => ~Open(i)'
    BY <1>f, <1>s, <2>1 DEF AttemptKept, NoneOpens
  <2> QED  BY <1>c, <1>s, <2>1, <2>2
<1>5. CASE \E i \in at[w].todo : Stale(w, i)
  <2>1. PICK j \in at[w].todo : Stale(w, j)
    BY <1>5
  <2>2. j \in Nat /\ Step("stale") /\ at[w].pc = "stale"
    BY <2>1, <1>f, StaleMoves DEF Stale, AttemptRecord, RunId
  <2>3. NoneOpens
    <3>1. CASE UNCHANGED run
      BY <1>s, <3>1
    <3>2. CASE \E e \in End : run' = Ended(j, e)
      <4>1. PICK e \in End : run' = Ended(j, e)
        BY <3>2
      <4> QED  BY <1>f, <2>2, <4>1, EndingOpens DEF End
    <3> QED  BY <2>1, <3>1, <3>2 DEF Stale, End
  <2>4. \A i : i = at[w].carried => ~Open(i)'
    BY <1>f, <2>2, <2>3 DEF AttemptKept, NoneOpens
  <2> QED  BY <1>c, <2>2, <2>3, <2>4
<1>6. CASE Listed(w)
  <2>1. UNCHANGED run /\ at[w].pc = "stale"
    BY <1>6 DEF Listed
  <2>2. PICK pc \in {"list", "create"} : Step(pc)
    BY <1>6, <1>f, ListedMoves
  <2>3. \A i : i = at[w].carried => ~Open(i)'
    BY <1>f, <1>s, <2>1 DEF AttemptKept, NoneOpens
  <2> QED  BY <1>c, <1>s, <2>1, <2>2, <2>3
<1>7. CASE Probe(w)
  <2>1. UNCHANGED run
    BY <1>7 DEF Probe
  <2>2. PICK pc \in {"startrun", "list", "create", "abandon"} :
          Go(w, pc) /\ (pc \in {"list", "create"} => ~Open(at[w].carried))
    BY <1>7 DEF Probe, BeforeCreate
  <2>3. Step(pc)
    BY <1>f, <2>2, GoMoves DEF Point
  <2>4. pc \in {"list", "create"} => \A i : i = at[w].carried => ~Open(i)'
    BY <1>s, <2>1, <2>2 DEF NoneOpens
  <2> HIDE DEF Step
  <2> QED  BY <1>c, <1>m, <1>s, <2>1, <2>2, <2>3, <2>4
<1>8. CASE Abandon(w)
  <2>1. PICK pc \in {"list", "create"} : Go(w, pc)
    BY <1>8 DEF Abandon, BeforeCreate
  <2>2. Step(pc)
    BY <1>f, <2>1, GoMoves DEF Point
  <2>3. run' = EndedIfOpen(at[w].carried, "cancelled")
    BY <1>8 DEF Abandon, Refuse, Forgiving, TriedOnce
  <2>4. NoneOpens /\ \A i : i = at[w].carried => ~Open(i)'
    BY <1>f, <2>3, ClosingOpens DEF End
  <2> HIDE DEF Step
  <2> QED  BY <1>c, <2>1, <2>2, <2>4
<1> QED  BY <1>1, <1>2, <1>3, <1>4, <1>5, <1>6, <1>7, <1>8

(* The review's verdict and its report.                                    *)
LEMMA ReviewKeeps ==
  ASSUME CheckConstants, TypeInv, Alone, Kept, NEW w \in Worker,
         Post(w) \/ Return(w) \/ Report(w) \/ ReportWithoutRunning(w)
  PROVE  Kept'
<1>0. /\ Working(w) /\ at[w].pc # "record" /\ UNCHANGED <<row, req, reaper, sweep>>
      /\ at[w].pc \in {"start", "review", "posted", "report"}
  BY DEF Post, Return, Report, ReportWithoutRunning, attemptKeeps, Working, WorkPc, Point
<1>f. /\ at \in [Worker -> AttemptRecord] /\ AttemptsKnow /\ run \in Seq(RunRecord)
      /\ tip \in 1..Heads /\ at[w].own \in Nat /\ at[w].carried \in Nat /\ at[w].r \in Row
      /\ at[w].pc = "start" => at[w].settle = "none" /\ row[at[w].r].run = at[w].carried
      /\ at[w].pc \in {"review", "report"} => at[w].own # 0
      /\ Here(w) /\ at[w].own # 0 /\ at[w].pc # "record" => row[at[w].r].run = at[w].own
      /\ at[w].settle # "none" => at[w].own # 0
      /\ ~Open(0) /\ AttemptKept(w)
  BY <1>0, AttemptFacts DEF Kept, AttemptsKept, EarlyPc
<1>o. at[w].own # 0 \/ at[w].pc \in {"start", "posted"}
  BY <1>0, <1>f
<1> DEFINE Step(pc) == \E y : MovesTo(w, y, pc)
<1>s. UNCHANGED run => NoneOpens
  BY SameOpen
<1>m. ASSUME NEW pc \in {"posted", "finish"}, Step(pc), NoneOpens, pc = "posted" => at[w].own # 0,
             ~at[w].final => \A i : i = row[at[w].r].run => ~Open(i)'
      PROVE  Kept'
  BY <1>0, <1>f, <1>m, MovesKeep DEF WorkPc, Point, EarlyPc
<1>r. ASSUME NEW pc \in {"unwind", "report", "raised"}, Step(pc), NoneOpens,
             pc = "raised" \/ at[w].own # 0
      PROVE  Kept'
  BY <1>0, <1>f, <1>r, MovesKeep DEF WorkPc, Point, EarlyPc
<1>v. ASSUME run' = Ended(at[w].own, "verdict"), at[w].own # 0
      PROVE  NoneOpens /\ (~at[w].final => \A i : i = row[at[w].r].run => ~Open(i)')
  <2>1. NoneOpens /\ \A i : i = at[w].own => ~Open(i)'
    BY <1>f, <1>v, EndingOpens DEF End
  <2> QED  BY <1>0, <1>f, <1>v, <2>1 DEF Here
<1>1. CASE Post(w)
  <2>1. Step("posted") /\ at[w].own # 0 /\ run' = Ended(at[w].own, "verdict")
    BY <1>1, <1>f, GoMoves DEF Post, Point
  <2> QED  BY <1>m, <1>v, <2>1
<1>2. CASE Return(w)
  <2>1. UNCHANGED run /\ at[w].pc \in {"review", "posted"}
    BY <1>2 DEF Return
  <2>2. PICK pc \in {"unwind", "finish", "report"} :
          (pc = "finish" => at[w].pc = "posted") /\ Step(pc)
    BY <1>2, <1>f, ReturnMoves
  <2>3. at[w].own # 0
    BY <1>f, <2>1, AttemptFacts, <1>0
  <2>4. at[w].pc = "posted" /\ ~at[w].final => \A i : i = row[at[w].r].run => ~Open(i)'
    BY <1>0, <1>f, <1>s, <2>1 DEF AttemptKept, Here, NoneOpens
  <2> HIDE DEF Step
  <2> QED  BY <1>m, <1>r, <1>s, <2>1, <2>2, <2>3, <2>4
<1>3. CASE Report(w)
  <2>1. CASE run' = Ended(at[w].own, "verdict") /\ Go(w, "finish")
    <3>1. Step("finish") /\ at[w].own # 0
      BY <1>3, <1>f, <2>1, GoMoves DEF Report, Point
    <3> QED  BY <1>m, <1>v, <2>1, <3>1
  <2>2. CASE Go(w, "raised") /\ UNCHANGED run
    <3>1. Step("raised")
      BY <1>f, <2>2, GoMoves DEF Point
    <3> QED  BY <1>r, <1>s, <2>2, <3>1
  <2> QED  BY <1>3, <2>1, <2>2 DEF Report
<1>4. CASE ReportWithoutRunning(w)
  <2>1. Step("finish") /\ at[w].pc = "start"
    BY <1>4, <1>f, GoMoves DEF ReportWithoutRunning, Point
  <2>2. NoneOpens /\ \A i : i = row[at[w].r].run => ~Open(i)'
    <3>1. CASE at[w].carried # 0
      <4>1. run' = Ended(at[w].carried, "neutral")
        BY <1>4, <3>1 DEF ReportWithoutRunning
      <4> QED  BY <1>f, <2>1, <4>1, EndingOpens DEF End
    <3>2. CASE at[w].carried = 0
      <4> DEFINE h == Ref[at[w].r]
                 e == "neutral"
      <4>1. run' = Append(run, [head |-> h, status |-> e])
        BY <1>4, <3>2 DEF ReportWithoutRunning
      <4>2. h \in 1..Heads /\ e \in {"open"} \cup End /\ e # "open"
        BY <1>f DEF CheckConstants, End
      <4> HIDE DEF h, e
      <4>3. NoneOpens
        BY <1>f, <4>1, <4>2, AddingOpens
      <4> QED  BY <1>f, <2>1, <3>2, <4>3 DEF NoneOpens
    <3> QED  BY <3>1, <3>2
  <2> HIDE DEF Step
  <2> QED  BY <1>m, <2>1, <2>2
<1> QED  BY <1>1, <1>2, <1>3, <1>4

-----------------------------------------------------------------------------
(* Attempts: steps that end the work, and those of the canceller.          *)
FitsAs(w, y) == AtAs(w, y) /\ AttemptFits(y)

LEMMA IdleFits == AttemptFits(Idle)
BY IdleRecord DEF AttemptFits, EarlyPc, WorkPc, Point

LEMMA LeftFits ==
  ASSUME at \in [Worker -> AttemptRecord], NEW w \in Worker, AttemptFits(at[w]), Left(w)
  PROVE  \E y : FitsAs(w, y) /\ y.pc = "idle"
<1>1. CASE at[w].settle = "none"
  <2>1. at' = [at EXCEPT ![w] = Idle]
    BY <1>1 DEF Left
  <2> QED  BY <2>1, IdleRecord, IdleFits DEF AtAs, FitsAs
<1>2. CASE at[w].settle # "none"
  <2> DEFINE x == at[w]
             y == [x EXCEPT !.pc = "idle", !.final = TRUE]
  <2>1. at' = [at EXCEPT ![w] = y] /\ x \in AttemptRecord /\ AttemptFits(x)
    BY <1>2 DEF Left
  <2> HIDE DEF x
  <2>2. y \in AttemptRecord /\ y.pc = "idle" /\ y.settle = x.settle /\ y.closed = x.closed
    BY <2>1 DEF AttemptRecord
  <2> HIDE DEF y
  <2>3. AttemptFits(y)
    BY <2>1, <2>2 DEF AttemptFits, EarlyPc, WorkPc, Point
  <2> QED  BY <2>1, <2>2, <2>3 DEF AtAs, FitsAs
<1> QED  BY <1>1, <1>2

LEMMA FinalFits ==
  ASSUME at \in [Worker -> AttemptRecord], NEW w \in Worker, AttemptFits(at[w]),
         NEW pc \in {"requeue", "unreported"}, at' = [at EXCEPT ![w].final = TRUE, ![w].pc = pc]
  PROVE  \E y : FitsAs(w, y) /\ y.pc = pc
<1> DEFINE x == at[w]
           y == [x EXCEPT !.final = TRUE, !.pc = pc]
<1>1. at' = [at EXCEPT ![w] = y] /\ x \in AttemptRecord /\ AttemptFits(x) /\ pc \in Point
  BY DEF Point
<1> HIDE DEF x
<1>2. y \in AttemptRecord /\ y.pc = pc /\ y.settle = x.settle /\ y.closed = x.closed
  BY <1>1 DEF AttemptRecord
<1> HIDE DEF y
<1>3. AttemptFits(y)
  BY <1>1, <1>2 DEF AttemptFits, EarlyPc, WorkPc, Point
<1> QED  BY <1>1, <1>2, <1>3 DEF AtAs, FitsAs

LEMMA UnwoundFits ==
  ASSUME at \in [Worker -> AttemptRecord], NEW w \in Worker, AttemptFits(at[w]), at[w].pc = "unwind",
         at' = [at EXCEPT ![w].pc = "leave", ![w].closed = @ \/ Open(at[w].own)]
  PROVE  \E y : /\ FitsAs(w, y) /\ y.pc = "leave" /\ y.r = at[w].r /\ y.own = at[w].own
                /\ y.carried = at[w].carried /\ y.final = at[w].final
<1> DEFINE x == at[w]
           c == x.closed \/ Open(x.own)
           y == [x EXCEPT !.pc = "leave", !.closed = c]
<1>1. at' = [at EXCEPT ![w] = y] /\ x \in AttemptRecord /\ AttemptFits(x) /\ x.pc = "unwind"
  OBVIOUS
<1>2. c \in BOOLEAN /\ (x.closed => c) /\ "leave" \in Point
  BY DEF Open, Point
<1> HIDE DEF x, c
<1>3. /\ y \in AttemptRecord /\ y.pc = "leave" /\ y.r = x.r /\ y.own = x.own /\ y.carried = x.carried
      /\ y.final = x.final /\ y.settle = x.settle /\ y.closed = c
  BY <1>1, <1>2 DEF AttemptRecord
<1> HIDE DEF y
<1>4. AttemptFits(y)
  BY <1>1, <1>2, <1>3 DEF AttemptFits, EarlyPc, WorkPc, Point
<1> QED  BY <1>1, <1>3, <1>4 DEF AtAs, FitsAs, x

(* The canceller's steps leave the attempt where it is. *)
AsideTo(w, y) ==
  /\ FitsAs(w, y) /\ y.pc = at[w].pc
  /\ y.pc # "idle" => y.r = at[w].r /\ y.own = at[w].own /\ y.carried = at[w].carried

LEMMA StopFits ==
  ASSUME Forgiving, at \in [Worker -> AttemptRecord], NEW w \in Worker, AttemptFits(at[w]), Stop(w)
  PROVE  \E y : AsideTo(w, y) /\ y.final = at[w].final /\ y.closed = at[w].closed
<1> DEFINE x == at[w]
           y == [x EXCEPT !.stopped = TRUE, !.settle = "close"]
<1>1. /\ at' = [at EXCEPT ![w] = y] /\ x \in AttemptRecord /\ AttemptFits(x)
      /\ x.pc \in {"review", "posted", "report", "finish"}
  BY DEF Stop, Forgiving
<1> HIDE DEF x
<1>2. /\ y \in AttemptRecord /\ y.pc = x.pc /\ y.final = x.final /\ y.r = x.r /\ y.closed = x.closed
      /\ y.carried = x.carried /\ y.own = x.own /\ y.settle = "close"
  BY <1>1 DEF AttemptRecord
<1> HIDE DEF y
<1>3. AttemptFits(y)
  BY <1>1, <1>2 DEF AttemptFits, EarlyPc
<1> QED  BY <1>1, <1>2, <1>3 DEF AtAs, FitsAs, AsideTo, x

LEMMA SettledFits ==
  ASSUME at \in [Worker -> AttemptRecord], NEW w \in Worker, AttemptFits(at[w]),
         at[w].settle # "none", at' = Settled(w)
  PROVE  \E y : AsideTo(w, y) /\ (y.pc # "idle" => y.final = at[w].final /\ y.closed = at[w].closed)
<1>1. CASE at[w].pc = "idle"
  <2>1. at' = [at EXCEPT ![w] = Idle]
    BY <1>1 DEF Settled
  <2> QED  BY <1>1, <2>1, IdleRecord, IdleFits DEF AtAs, FitsAs, AsideTo
<1>2. CASE at[w].pc # "idle"
  <2> DEFINE x == at[w]
             y == [x EXCEPT !.settle = "none"]
  <2>1. at' = [at EXCEPT ![w] = y] /\ x \in AttemptRecord /\ AttemptFits(x) /\ x.settle # "none"
    BY <1>2 DEF Settled
  <2> HIDE DEF x
  <2>2. /\ y \in AttemptRecord /\ y.pc = x.pc /\ y.final = x.final /\ y.r = x.r /\ y.closed = x.closed
        /\ y.carried = x.carried /\ y.own = x.own /\ y.settle = "none"
    BY <2>1 DEF AttemptRecord
  <2> HIDE DEF y
  <2>3. AttemptFits(y)
    BY <2>1, <2>2 DEF AttemptFits
  <2> QED  BY <2>1, <2>2, <2>3 DEF AtAs, FitsAs, AsideTo, x
<1> QED  BY <1>1, <1>2

LEMMA ClosedFits ==
  ASSUME at \in [Worker -> AttemptRecord], NEW w \in Worker, AttemptFits(at[w]),
         at[w].settle = "close", at' = [at EXCEPT ![w].closed = TRUE, ![w].settle = "write"]
  PROVE  \E y : AsideTo(w, y) /\ y.final = at[w].final
<1> DEFINE x == at[w]
           y == [x EXCEPT !.closed = TRUE, !.settle = "write"]
<1>1. at' = [at EXCEPT ![w] = y] /\ x \in AttemptRecord /\ AttemptFits(x) /\ x.settle = "close"
  OBVIOUS
<1> HIDE DEF x
<1>2. /\ y \in AttemptRecord /\ y.pc = x.pc /\ y.final = x.final /\ y.r = x.r /\ y.closed = TRUE
      /\ y.carried = x.carried /\ y.own = x.own /\ y.settle = "write"
  BY <1>1 DEF AttemptRecord
<1> HIDE DEF y
<1>3. AttemptFits(y)
  BY <1>1, <1>2 DEF AttemptFits
<1> QED  BY <1>1, <1>2, <1>3 DEF AtAs, FitsAs, AsideTo, x

LEMMA WrittenFits ==
  ASSUME at \in [Worker -> AttemptRecord], NEW w \in Worker, AttemptFits(at[w]), SettleWrite(w)
  PROVE  \E y : AsideTo(w, y) /\ (y.pc # "idle" => y.final)
<1>1. at[w].settle = "write" /\ at' = [Settled(w) EXCEPT ![w].final = at[w].pc # "idle"]
  BY DEF SettleWrite
<1>2. CASE at[w].pc = "idle"
  <2>1. [Idle EXCEPT !.final = FALSE] = Idle
    BY IdleRecord DEF AttemptRecord
  <2>2. at' = [at EXCEPT ![w] = [Idle EXCEPT !.final = FALSE]]
    BY <1>1, <1>2 DEF Settled
  <2>3. at' = [at EXCEPT ![w] = Idle]
    BY <2>1, <2>2
  <2> QED  BY <1>2, <2>3, IdleRecord, IdleFits DEF AtAs, FitsAs, AsideTo
<1>3. CASE at[w].pc # "idle"
  <2> DEFINE x == at[w]
             y == [x EXCEPT !.settle = "none", !.final = TRUE]
  <2>1. at' = [at EXCEPT ![w] = y] /\ x \in AttemptRecord /\ AttemptFits(x) /\ x.settle = "write"
    BY <1>1, <1>3 DEF Settled
  <2> HIDE DEF x
  <2>2. /\ y \in AttemptRecord /\ y.pc = x.pc /\ y.final = TRUE /\ y.r = x.r /\ y.closed = x.closed
        /\ y.carried = x.carried /\ y.own = x.own /\ y.settle = "none"
    BY <2>1 DEF AttemptRecord
  <2> HIDE DEF y
  <2>3. AttemptFits(y)
    BY <2>1, <2>2 DEF AttemptFits
  <2> QED  BY <2>1, <2>2, <2>3 DEF AtAs, FitsAs, AsideTo, x
<1> QED  BY <1>2, <1>3

-----------------------------------------------------------------------------
(* What a step may do to a row: change what does not matter, make it wait  *)
(* or run anew, or end it where its run is closed.                         *)
Steady(r) ==
  /\ SameFlags(row[r], row'[r]) /\ row'[r].run = row[r].run
  /\ \/ row'[r].status = row[r].status
     \/ /\ row[r].status \in {"queued", "running"}
        /\ row'[r].status \notin {"done", "left", "none"}
Anew(r) ==
  /\ row'[r].status \in {"queued", "running"} /\ ~row'[r].swept /\ ~row'[r].told
  /\ row[r].status \in {"none", "queued", "running"} \/ ~InHand(r)
Closes(r) ==
  /\ SameFlags(row[r], row'[r]) /\ row'[r].run = row[r].run
  /\ row[r].status = "running" /\ row'[r].status # "none"
  /\ \A i : i = row[r].run => ~Open(i)'
RowMay(r) == Steady(r) \/ Anew(r) \/ Closes(r)
RowShuts(r) == \A i : i = row[r].run => Shuts(i)

LEMMA UnflaggedIs ==
  ASSUME Kept, NEW r \in Row, row[r].status \in {"none", "queued", "running", "left", "done"}
  PROVE  ~row[r].swept /\ ~row[r].told
BY DEF Kept, RowsSettled, RowSettled, Retired

(* The rows and what is in hand, after steps of the three kinds.           *)
LEMMA RowsGo ==
  ASSUME TypeInv, Kept, UNCHANGED sweep, \A r \in Row : RowMay(r),
         \A r \in Row : row[r].status # "running" => RowShuts(r),
         reaper' = reaper \/ (reaper.pc # "tell" /\ reaper'.pc # "tell")
  PROVE  RowsSettled' /\ HandsTrue'
<1>1. ASSUME NEW r \in Row PROVE RowSettled(r)'
  <2>1. CASE Steady(r)
    <3>1. Telling(r) => Telling(r)'
      BY DEF Telling
    <3> QED  BY <2>1, <3>1, RowStays DEF Steady, RowShuts
  <2>2. CASE Anew(r)
    BY <2>2 DEF Anew, RowSettled, Given
  <2>3. CASE Closes(r)
    <3>1. ~row'[r].swept /\ ~row'[r].told
      BY <2>3, UnflaggedIs DEF Closes, SameFlags
    <3> QED  BY <2>3, <3>1 DEF Closes, RowSettled, Open
  <2> QED  BY <2>1, <2>2, <2>3 DEF RowMay
<1>2. ASSUME NEW s \in Sweeper PROVE SweepTrue(s)'
  <2>1. ASSUME NEW r \in Row, r = sweep[s].r, row[r].status \in Retired
        PROVE  row'[r].status \in Retired /\ row'[r].run = row[r].run /\ RowShuts(r)
    <3>1. Steady(r) /\ row[r].status \notin {"none", "queued", "running"}
      BY <2>1 DEF RowMay, Anew, Closes, InHand, Retired
    <3> QED  BY <2>1, <3>1 DEF Steady
  <2> QED  BY <2>1, SweepStays DEF RowShuts
<1>3. TellTrue'
  <2>1. CASE reaper'.pc # "tell"
    BY <2>1 DEF TellTrue
  <2>2. CASE reaper' = reaper
    <3>1. ASSUME NEW r \in Row, Telling(r), row[r].status = "dead"
          PROVE  row'[r].status = "dead" /\ row'[r].told = row[r].told /\ row'[r].run = row[r].run
      BY <3>1 DEF RowMay, Anew, Closes, Steady, InHand, Telling, SameFlags
    <3> QED  BY <2>2, <3>1, TellStays
  <2> QED  BY <2>1, <2>2
<1> QED  BY <1>1, <1>2, <1>3 DEF RowsSettled, HandsTrue

(* The same, of a row whose run is not opened.                             *)
LEMMA AttemptsRest ==
  ASSUME TypeInv, Alone, Kept, NEW v \in Worker, at'[v] = at[v],
         Here(v) => row'[at[v].r].run = row[at[v].r].run /\ RowShuts(at[v].r)
  PROVE  AttemptKept(v)'
BY AttemptStays DEF RowShuts

LEMMA OnRowStays ==
  ASSUME NEW i, i # 0, OnRow(i), \A r \in Row : row'[r].run = row[r].run \/ row[r].run \in {0}
  PROVE  OnRow(i)'
BY DEF OnRow

(* An attempt, or its canceller, ends its row. *)
LEMMA EndingKeeps ==
  ASSUME TypeInv, Alone, Kept, NEW w \in Worker, NEW y, FitsAs(w, y), UNCHANGED <<run, req, reaper, sweep>>,
         at[w].pc # "record", y.pc \notin EarlyPc \cup {"record"}, Attended(at[w]), ~at[w].final,
         NEW s \in Status \ {"none"}, Writes(at[w].r, s),
         y.pc \in WorkPc => y.final /\ y.r = at[w].r /\ y.own = at[w].own /\ y.carried = at[w].carried,
         s \in {"done", "left"} => ~Open(row[at[w].r].run)
  PROVE  Kept'
<1>0. /\ at \in [Worker -> AttemptRecord] /\ row \in [Row -> RowRecord] /\ at[w].r \in Row
      /\ AtAs(w, y) /\ AttemptFits(y) /\ Working(w)
      /\ y.pc \notin {"list", "stale", "create", "record"}
  BY DEF TypeInv, AtOK, RowOK, AttemptsKnow, FitsAs, Attended, Alone, EndedForGood, EarlyPc
<1>s. NoneOpens /\ \A i : Shuts(i)
  BY SameOpen DEF NoneOpens, Shuts
<1>1. CASE row' = row
  BY <1>0, <1>1, <1>s, WithinKeeps
<1>2. CASE row' # row
  <2>1. row[at[w].r].status = "running"
    BY <1>2 DEF Writes
  <2>2. PICK z : /\ RowAs(at[w].r, z) /\ z.status = s /\ z.run = row[at[w].r].run
                 /\ z.tries = row[at[w].r].tries /\ SameFlags(row[at[w].r], z)
    BY <1>2 DEF Writes
  <2>3. row'[at[w].r] = z /\ \A x \in Row : x # at[w].r => row'[x] = row[x]
    BY <1>0, <2>2, RowBecomes
  <2>4. \A r \in Row : row'[r].run = row[r].run
    BY <2>2, <2>3
  <2>5. \A r \in Row : RowMay(r)
    <3>1. ASSUME NEW r \in Row, r # at[w].r PROVE RowMay(r)
      BY <2>3, <3>1 DEF RowMay, Steady, SameFlags
    <3>2. RowMay(at[w].r)
      <4>1. s \in {"done", "left"} => \A i : i = row[at[w].r].run => ~Open(i)'
        BY <1>s DEF NoneOpens
      <4> QED  BY <2>1, <2>2, <2>3, <4>1 DEF RowMay, Steady, Closes
    <3> QED  BY <3>1, <3>2
  <2>6. RowsSettled' /\ HandsTrue'
    BY <1>s, <2>5, RowsGo DEF RowShuts
  <2>7. at'[w] = y /\ \A v \in Worker : v # w => at'[v] = at[v]
    BY <1>0, AtBecomes
  <2>8. \A v \in Worker : v # w => AttemptKept(v)'
    <3>1. \A v \in Worker : Here(v) => at[v].r \in Row
      BY HereIs
    <3> QED  BY <1>s, <2>4, <2>7, <3>1, AttemptsRest DEF RowShuts
  <2>9. AttemptKept(w)'
    BY <1>0, <2>7 DEF AttemptKept, Here, Working
  <2>10. RunlessAll'
    BY DEF Kept, RunlessAll, RunlessYet
  <2>11. AllKnown'
    <3> SUFFICES ASSUME NEW i, Open(i) PROVE Known(i)'
      BY <1>s DEF AllKnown, NoneOpens
    <3>1. Known(i)
      BY DEF Kept, AllKnown
    <3> QED  BY <2>4, <2>7, <3>1 DEF Known, HeldByRequest, Recording, OnRow, ToClose
  <2> QED  BY <2>6, <2>8, <2>9, <2>10, <2>11 DEF Kept, AttemptsKept
<1> QED  BY <1>1, <1>2

(* The attempt goes, and leaves its row to others. *)
LEMMA GoneKeeps ==
  ASSUME TypeInv, Alone, Kept, NEW w \in Worker, NEW y, FitsAs(w, y), y.pc \notin WorkPc,
         UNCHANGED <<row, req, reaper, sweep>>, NoneOpens, at[w].pc # "record"
  PROVE  Kept'
<1>1. y.pc \notin {"list", "stale", "create", "record"}
  BY DEF WorkPc, Point
<1> QED  BY <1>1, WithinKeeps DEF FitsAs

(* A job that finishes, raises or leaves ends its row with a closed run.   *)
LEMMA EndsKeep ==
  ASSUME CheckConstants, TypeInv, Alone, Kept, NEW w \in Worker,
         Finish(w) \/ Raised(w) \/ Leave(w) \/ SettleWrite(w)
  PROVE  Kept'
<1>f. /\ at \in [Worker -> AttemptRecord] /\ row \in [Row -> RowRecord] /\ run \in Seq(RunRecord)
      /\ AttemptKept(w) /\ AttemptFits(at[w])
      /\ Attended(at[w]) => at[w].r \in Row
  BY DEF TypeInv, AtOK, RowOK, RunOK, Kept, AttemptsKept, AttemptKept, AttemptsKnow, Attended
<1>s. UNCHANGED run => NoneOpens
  BY SameOpen
<1>p. \A pc \in {"idle", "requeue", "unreported"} : pc \notin WorkPc \cup EarlyPc \cup {"record"}
  BY DEF WorkPc, Point, EarlyPc
<1>k. at[w].pc \in {"finish", "leave"} /\ ~at[w].final => ~Open(row[at[w].r].run)
  BY <1>f DEF AttemptKept, Here, Working, WorkPc, Point
<1>1. CASE Finish(w)
  <2>0. UNCHANGED <<run, req, reaper, sweep>> /\ at[w].pc = "finish" /\ Attended(at[w])
    BY <1>1 DEF Finish, attemptKeeps, Attended
  <2>1. PICK y : FitsAs(w, y) /\ y.pc \in {"idle", "requeue"}
    BY <1>1, <1>f, LeftFits, FinalFits DEF Finish
  <2>2. CASE at[w].final
    <3>1. UNCHANGED row
      BY <1>1, <2>2 DEF Finish
    <3> QED  BY <1>p, <1>s, <2>0, <2>1, <3>1, GoneKeeps
  <2>3. CASE ~at[w].final
    <3>1. PICK s \in {"done"} \cup Failing(at[w].r) : row' = Completed(at[w].r, s)
      BY <1>1, <2>3 DEF Finish
    <3>2. s \in Status \ {"none"} /\ Writes(at[w].r, s)
      BY <1>f, <2>0, <3>1, FailingIs, CompletedIs
    <3> QED  BY <1>k, <1>p, <2>0, <2>1, <2>3, <3>2, EndingKeeps
  <2> QED  BY <2>2, <2>3
<1>2. CASE Raised(w)
  <2>0. UNCHANGED <<run, req, reaper, sweep>> /\ at[w].pc = "raised" /\ Attended(at[w])
    BY <1>2 DEF Raised, attemptKeeps, Attended
  <2>1. PICK y : FitsAs(w, y) /\ y.pc = "unreported"
    BY <1>2, <1>f, FinalFits DEF Raised
  <2>2. CASE at[w].final
    <3>1. UNCHANGED row
      BY <1>2, <2>2 DEF Raised
    <3> QED  BY <1>p, <1>s, <2>0, <2>1, <3>1, GoneKeeps
  <2>3. CASE ~at[w].final
    <3>1. PICK s \in Failing(at[w].r) : row' = Completed(at[w].r, s)
      BY <1>2, <2>3 DEF Raised
    <3>2. s \in Status \ {"none"} /\ s \notin {"done", "left"} /\ Writes(at[w].r, s)
      <4>1. s \in {"failed", "queued", "dead"} /\ s \in Status
        BY <3>1 DEF Failing, Status, Live, Retired
      <4> QED  BY <1>f, <2>0, <3>1, <4>1, CompletedIs
    <3> QED  BY <1>p, <2>0, <2>1, <2>3, <3>2, EndingKeeps
  <2> QED  BY <2>2, <2>3
<1>3. CASE Leave(w)
  <2>0. UNCHANGED <<run, req, reaper, sweep>> /\ at[w].pc = "leave" /\ Attended(at[w])
    BY <1>3 DEF Leave, attemptKeeps, Attended
  <2>1. PICK y : FitsAs(w, y) /\ y.pc = "idle"
    BY <1>3, <1>f, LeftFits DEF Leave
  <2>2. CASE at[w].final
    <3>1. UNCHANGED row
      BY <1>3, <2>2 DEF Leave
    <3> QED  BY <1>p, <1>s, <2>0, <2>1, <3>1, GoneKeeps
  <2>3. CASE ~at[w].final
    <3>1. PICK s \in {"done", "left"} : row' = Completed(at[w].r, s)
      BY <1>3, <2>3 DEF Leave
    <3>2. s \in Status \ {"none"} /\ Writes(at[w].r, s)
      <4>1. s \in Status
        BY DEF Status, Live
      <4> QED  BY <1>f, <2>0, <3>1, <4>1, CompletedIs
    <3> QED  BY <1>k, <1>p, <2>0, <2>1, <2>3, <3>2, EndingKeeps
  <2> QED  BY <2>2, <2>3
<1>4. CASE SettleWrite(w)
  <2>0. /\ UNCHANGED <<run, req, reaper, sweep>> /\ at[w].settle = "write" /\ Attended(at[w])
        /\ at[w].pc \notin EarlyPc \cup {"record"} /\ at[w].closed
    BY <1>4, <1>f DEF SettleWrite, attemptKeeps, Attended, AttemptFits
  <2>1. PICK y : AsideTo(w, y) /\ (y.pc # "idle" => y.final)
    BY <1>4, <1>f, WrittenFits
  <2>2. /\ FitsAs(w, y) /\ y.pc \notin EarlyPc \cup {"record"}
        /\ y.pc \in WorkPc => /\ y.final /\ y.r = at[w].r /\ y.own = at[w].own
                              /\ y.carried = at[w].carried /\ Working(w)
    BY <2>0, <2>1 DEF AsideTo, WorkPc, Point, Working
  <2>3. CASE at[w].final
    <3>1. UNCHANGED row
      BY <1>4, <2>3 DEF SettleWrite
    <3>2. y.pc \notin {"list", "stale", "create", "record"} /\ AtAs(w, y) /\ AttemptFits(y)
      BY <2>2 DEF EarlyPc, FitsAs
    <3> QED  BY <1>s, <2>0, <2>2, <2>3, <3>1, <3>2, WithinKeeps
  <2>4. CASE ~at[w].final
    <3>1. row' = Completed(at[w].r, "done") /\ "done" \in Status \ {"none"}
      BY <1>4, <2>4 DEF SettleWrite, Status
    <3>2. Writes(at[w].r, "done")
      BY <1>f, <2>0, <3>1, CompletedIs
    <3>3. ~Open(row[at[w].r].run)
      <4>1. Here(w)
        BY <2>0, <2>4 DEF Alone, EndedForGood, Here
      <4> QED  BY <1>f, <2>0, <4>1 DEF AttemptKept
    <3> QED  BY <2>0, <2>2, <2>4, <3>1, <3>2, <3>3, EndingKeeps
  <2> QED  BY <2>3, <2>4
<1> QED  BY <1>1, <1>2, <1>3, <1>4

(* The canceller's step leaves the attempt in its work. *)
LEMMA AsideKeeps ==
  ASSUME TypeInv, Alone, Kept, NEW w \in Worker, NEW y, AsideTo(w, y),
         y.pc # "idle" => y.final = at[w].final,
         UNCHANGED <<row, req, reaper, sweep>>, NoneOpens,
         at[w].pc \notin EarlyPc \cup {"record"},
         Here(w) /\ y.closed => at[w].closed \/ \A i : i = row[at[w].r].run => ~Open(i)'
  PROVE  Kept'
<1>1. /\ AtAs(w, y) /\ AttemptFits(y) /\ y.pc \notin {"list", "stale", "create", "record"}
      /\ at[w].pc # "record"
  BY DEF AsideTo, FitsAs, EarlyPc
<1>2. y.pc \in WorkPc => /\ Working(w) /\ y.r = at[w].r /\ y.own = at[w].own
                         /\ y.carried = at[w].carried /\ (~y.final => ~at[w].final)
  BY DEF AsideTo, Working, WorkPc, Point
<1>3. ASSUME y.pc \in WorkPc, ~y.final, y.closed \/ y.pc \in {"posted", "finish", "leave"}
      PROVE  \A i : i = row[y.r].run => ~Open(i)'
  <2>1. Here(w) /\ y.r = at[w].r /\ y.pc = at[w].pc
    BY <1>2, <1>3 DEF Here, AsideTo
  <2>2. at[w].closed \/ at[w].pc \in {"posted", "finish", "leave"} => ~Open(row[at[w].r].run)
    BY <2>1 DEF Kept, AttemptsKept, AttemptKept
  <2> QED  BY <1>3, <2>1, <2>2 DEF NoneOpens
<1> QED  BY <1>1, <1>2, <1>3, WithinKeeps

(* A stop, the canceller's close and write, the worker's unwinding.        *)
LEMMA StopsKeep ==
  ASSUME CheckConstants, Forgiving, TypeInv, Alone, Kept, NEW w \in Worker,
         Stop(w) \/ SettleClose(w) \/ Unwind(w) \/ Unreported(w) \/ Die(w)
  PROVE  Kept'
<1>f. /\ at \in [Worker -> AttemptRecord] /\ run \in Seq(RunRecord)
      /\ at[w].own \in Nat /\ at[w].carried \in Nat
      /\ AttemptKept(w) /\ AttemptFits(at[w]) /\ ~Open(0)
  BY OpenExists DEF TypeInv, AtOK, RunOK, AttemptRecord, RunId, Kept, AttemptsKept, AttemptKept
<1>s. UNCHANGED run => NoneOpens
  BY SameOpen
<1>p. "idle" \notin WorkPc /\ "unreported" \notin WorkPc /\ "unreported" \in Point
  BY DEF WorkPc, Point
<1>r. Here(w) /\ at[w].own # 0 /\ at[w].pc # "record" => row[at[w].r].run = at[w].own
  BY <1>f DEF AttemptKept, InWork
<1>1. CASE Stop(w)
  <2>1. UNCHANGED <<run, row, req, reaper, sweep>> /\ at[w].pc \notin EarlyPc \cup {"record"}
    BY <1>1 DEF Stop, attemptKeeps, Forgiving, EarlyPc
  <2>2. PICK y : AsideTo(w, y) /\ y.final = at[w].final /\ y.closed = at[w].closed
    BY <1>1, <1>f, StopFits
  <2> QED  BY <1>s, <2>1, <2>2, AsideKeeps
<1>2. CASE SettleClose(w)
  <2>0. /\ UNCHANGED <<row, req, reaper, sweep>> /\ at[w].settle = "close"
        /\ at[w].pc \notin EarlyPc \cup {"record"}
        /\ Attached(w) = at[w].own
    BY <1>2, <1>f DEF SettleClose, attemptKeeps, AttemptFits, Attached
  <2>1. NoneOpens /\ (run' = EndedIfOpen(at[w].own, "neutral") => \A i : i = at[w].own => ~Open(i)')
    <3>1. CASE run' = EndedIfOpen(at[w].own, "neutral")
      <4>1. "neutral" \in End
        BY DEF End
      <4> QED  BY <1>f, <3>1, <4>1, ClosingOpens
    <3>2. CASE UNCHANGED run
      <4>1. run' = EndedIfOpen(at[w].own, "neutral") => \A i : i = at[w].own => ~Open(i)'
        <5>1. "neutral" \in End
          BY DEF End
        <5> QED  BY <1>f, <5>1, ClosingOpens
      <4> QED  BY <1>s, <3>2, <4>1
    <3> QED  BY <1>2, <2>0, <3>1, <3>2 DEF SettleClose
  <2>2. CASE at' = Settled(w)
    <3>1. PICK y : AsideTo(w, y) /\ (y.pc # "idle" => y.final = at[w].final /\ y.closed = at[w].closed)
      BY <1>f, <2>0, <2>2, SettledFits
    <3>2. Here(w) => y.pc # "idle"
      BY <1>p, <3>1 DEF AsideTo, Here, Working
    <3> QED  BY <2>0, <2>1, <3>1, <3>2, AsideKeeps
  <2>3. CASE /\ at' = [at EXCEPT ![w].closed = TRUE, ![w].settle = "write"]
             /\ run' = EndedIfOpen(at[w].own, "neutral")
    <3>1. PICK y : AsideTo(w, y) /\ y.final = at[w].final
      BY <1>f, <2>0, <2>3, ClosedFits
    <3>2. ASSUME Here(w) PROVE \A i : i = row[at[w].r].run => ~Open(i)'
      <4>1. CASE at[w].own # 0
        BY <1>r, <2>0, <2>1, <2>3, <3>2, <4>1
      <4>2. CASE at[w].own = 0
        <5>1. at[w].pc = "finish"
          BY <1>f, <2>0, <3>2, <4>2 DEF AttemptFits, Here, Working
        <5>2. ~Open(row[at[w].r].run)
          BY <1>f, <3>2, <5>1 DEF AttemptKept
        <5> QED  BY <2>1, <5>2 DEF NoneOpens
      <4> QED  BY <4>1, <4>2
    <3> QED  BY <2>0, <2>1, <3>1, <3>2, AsideKeeps
  <2> QED  BY <1>2, <2>0, <2>2, <2>3 DEF SettleClose
<1>3. CASE Unwind(w)
  <2>0. UNCHANGED <<row, req, reaper, sweep>> /\ at[w].pc = "unwind" /\ Working(w)
        /\ at[w].own # 0
    BY <1>3, <1>f DEF Unwind, attemptKeeps, Working, WorkPc, Point, AttemptFits
  <2>1. /\ run' = IF at[w].closed THEN run ELSE EndedIfOpen(at[w].own, "neutral")
        /\ at' = [at EXCEPT ![w].pc = "leave", ![w].closed = @ \/ Open(at[w].own)]
    BY <1>3 DEF Unwind, Refuse, Forgiving, TriedOnce
  <2>2. PICK y : /\ FitsAs(w, y) /\ y.pc = "leave" /\ y.r = at[w].r /\ y.own = at[w].own
                 /\ y.carried = at[w].carried /\ y.final = at[w].final
    BY <1>f, <2>0, <2>1, UnwoundFits
  <2>3. NoneOpens /\ (Here(w) => \A i : i = row[at[w].r].run => ~Open(i)')
    <3>1. CASE at[w].closed
      <4>1. UNCHANGED run
        BY <2>1, <3>1
      <4>2. Here(w) => ~Open(row[at[w].r].run)
        BY <1>f, <3>1 DEF AttemptKept
      <4> QED  BY <1>s, <4>1, <4>2 DEF NoneOpens
    <3>2. CASE ~at[w].closed
      <4>1. run' = EndedIfOpen(at[w].own, "neutral") /\ "neutral" \in End
        BY <2>1, <3>2 DEF End
      <4>2. NoneOpens /\ \A i : i = at[w].own => ~Open(i)'
        BY <1>f, <4>1, ClosingOpens
      <4> QED  BY <1>r, <2>0, <4>2
    <3> QED  BY <3>1, <3>2
  <2>4. /\ AtAs(w, y) /\ AttemptFits(y) /\ y.pc \notin {"list", "stale", "create", "record"}
        /\ at[w].pc # "record" /\ (~y.final => Here(w))
    BY <2>0, <2>2 DEF FitsAs, Here
  <2> QED  BY <2>0, <2>2, <2>3, <2>4, WithinKeeps
<1>4. CASE Unreported(w)
  <2>1. UNCHANGED <<row, req, reaper, sweep>> /\ at[w].pc = "unreported" /\ Left(w)
    BY <1>4 DEF Unreported, attemptKeeps
  <2>2. PICK y : FitsAs(w, y) /\ y.pc = "idle"
    BY <1>f, <2>1, LeftFits
  <2>3. NoneOpens
    <3>1. CASE run' = EndedIfOpen(at[w].carried, "failure")
      <4>1. "failure" \in End
        BY DEF End
      <4> QED  BY <1>f, <3>1, <4>1, ClosingOpens
    <3> QED  BY <1>4, <1>s, <3>1 DEF Unreported
  <2> QED  BY <1>p, <2>1, <2>2, <2>3, GoneKeeps
<1>5. CASE Die(w)
  <2>1. UNCHANGED <<run, row, req, reaper, sweep>> /\ at[w].pc # "record"
        /\ at' = [at EXCEPT ![w] = Idle]
    BY <1>5 DEF Die, attemptKeeps, Forgiving
  <2> DEFINE y == Idle
  <2>2. FitsAs(w, y) /\ y.pc = "idle"
    BY <2>1, IdleRecord, IdleFits DEF FitsAs, AtAs
  <2> QED  BY <1>p, <1>s, <2>1, <2>2, GoneKeeps
<1> QED  BY <1>1, <1>2, <1>3, <1>4, <1>5

-----------------------------------------------------------------------------
(* Rows that come into being, and the steps that give an attempt its run.  *)
LEMMA BroughtRows ==
  ASSUME TypeInv, Alone, Kept, NEW R, NEW i, Brings(R, i)
  PROVE  /\ \A r \in Row : RowMay(r)
         /\ \A r \in Row : row'[r].run = row[r].run \/ row[r].run \in {0}
         /\ \A v \in Worker : Here(v) => row'[at[v].r].run = row[at[v].r].run
<1>1. \A r \in Row : row[r].status = "none" => row[r].run = 0
  BY DEF Kept, RowsSettled, RowSettled
<1>2. ASSUME NEW r \in Row
      PROVE  RowMay(r) /\ (row'[r].run = row[r].run \/ row[r].run \in {0})
  <2>1. CASE SameRow(row[r], row'[r]) /\ SameFlags(row[r], row'[r])
    BY <2>1 DEF SameRow, RowMay, Steady
  <2>2. CASE /\ row[r].status = "none" /\ row'[r].status = "queued"
             /\ ~row'[r].swept /\ ~row'[r].told
    BY <1>1, <2>2 DEF RowMay, Anew
  <2>3. CASE /\ row[r].status = "queued" /\ row'[r].status = "superseded"
             /\ row'[r].run = row[r].run /\ SameFlags(row[r], row'[r])
    BY <2>3 DEF RowMay, Steady
  <2> QED  BY <2>1, <2>2, <2>3 DEF Brings
<1>3. ASSUME NEW v \in Worker, Here(v) PROVE row'[at[v].r].run = row[at[v].r].run
  BY <1>3, HereIs, BringsKeeps
<1> QED  BY <1>2, <1>3

LEMMA QueuesKeep ==
  ASSUME CheckConstants, TypeInv, Alone, Kept, NEW w \in Worker, RequeueMoved(w)
  PROVE  Kept'
<1>f. /\ at \in [Worker -> AttemptRecord] /\ row \in [Row -> RowRecord]
      /\ AttemptFits(at[w])
  BY DEF TypeInv, AtOK, RowOK, Kept, AttemptsKept, AttemptKept
<1>0. /\ UNCHANGED <<run, req, reaper, sweep>> /\ at[w].pc = "requeue" /\ Left(w)
      /\ Requeue(at[w].next)
  BY DEF RequeueMoved, attemptKeeps
<1>1. PICK y : FitsAs(w, y) /\ y.pc = "idle"
  BY <1>f, <1>0, LeftFits
<1>2. at'[w] = y /\ AttemptFits(y) /\ \A v \in Worker : v # w => at'[v] = at[v]
  BY <1>f, <1>1, AtBecomes DEF FitsAs
<1>3. Brings(Row \ Delivery, 0)
  BY <1>f, <1>0, RequeueIs
<1>4. /\ \A r \in Row : RowMay(r)
      /\ \A r \in Row : row'[r].run = row[r].run \/ row[r].run \in {0}
      /\ \A v \in Worker : Here(v) => row'[at[v].r].run = row[at[v].r].run
  BY <1>3, BroughtRows
<1>5. NoneOpens /\ \A i : Shuts(i)
  BY <1>0, SameOpen DEF NoneOpens, Shuts
<1>6. RowsSettled' /\ HandsTrue'
  BY <1>0, <1>4, <1>5, RowsGo DEF RowShuts
<1>7. \A v \in Worker : v # w => AttemptKept(v)'
  BY <1>2, <1>4, <1>5, AttemptsRest DEF RowShuts
<1>8. AttemptKept(w)'
  BY <1>1, <1>2 DEF AttemptKept, Here, Working, WorkPc, Point
<1>9. RunlessAll'
  BY <1>0 DEF Kept, RunlessAll, RunlessYet
<1>10. AllKnown'
  <2> SUFFICES ASSUME NEW i, Open(i) PROVE Known(i)'
    BY <1>5 DEF AllKnown, NoneOpens
  <2>1. Known(i) /\ i # 0
    BY OpenExists DEF Kept, AllKnown
  <2>2. OnRow(i) => OnRow(i)'
    BY <1>4, <2>1, OnRowStays
  <2>3. Recording(i) => Recording(i)'
    BY <1>0, <1>2 DEF Recording
  <2> QED  BY <1>0, <2>1, <2>2, <2>3 DEF Known, HeldByRequest, ToClose
<1> QED  BY <1>6, <1>7, <1>8, <1>9, <1>10 DEF Kept, AttemptsKept

(* The row's run is started again: nobody else's row carries it. *)
LEMMA StartKeeps ==
  ASSUME CheckConstants, TypeInv, Alone, Sole, Kept, NEW w \in Worker, StartRun(w)
  PROVE  Kept'
<1>f. /\ at \in [Worker -> AttemptRecord] /\ AttemptsKnow /\ run \in Seq(RunRecord)
      /\ row \in [Row -> RowRecord] /\ at[w].pc = "startrun" /\ Working(w) /\ at[w].pc \in EarlyPc
      /\ UNCHANGED <<row, req, reaper, sweep>>
  BY DEF TypeInv, AtOK, RunOK, RowOK, StartRun, attemptKeeps, Working, WorkPc, Point, EarlyPc
<1>h. /\ Here(w) /\ at[w].r \in Row /\ at[w].carried \in Nat \ {0}
      /\ row[at[w].r].run = at[w].carried
      /\ row[at[w].r].status = "running"
      /\ at[w].settle = "none" /\ ~at[w].final /\ ~at[w].closed
  <2>1. AttemptFits(at[w])
    BY DEF Kept, AttemptsKept, AttemptKept
  <2> QED  BY <1>f, <2>1, AttemptFacts, HereIs DEF AttemptFits, Here
<1>1. CASE UNCHANGED run /\ Go(w, "raised")
  <2>1. NoneOpens
    BY <1>1, SameOpen
  <2>2. "raised" \in Point /\ "raised" \in WorkPc \ {"record"} /\ "raised" \notin EarlyPc
    BY DEF WorkPc, Point, EarlyPc
  <2>3. PICK y : MovesTo(w, y, "raised")
    BY <1>1, <1>f, <2>2, GoMoves
  <2> QED  BY <1>f, <1>h, <2>1, <2>2, <2>3, MovesKeep
<1>2. CASE run' = Ended(at[w].carried, "open") /\ at' = [at EXCEPT ![w].own = at[w].carried, ![w].pc = "record"]
  <2> DEFINE c == at[w].carried
  <2>1. PICK y : AtAs(w, y) /\ Gets(at[w], y, c)
    <3>1. c \in Nat /\ at' = [at EXCEPT ![w].own = c, ![w].pc = "record"]
      BY <1>2, <1>h
    <3> HIDE DEF c
    <3> QED  BY <1>f, <3>1, GetsIs
  <2>2. OpensOnly(c)
    BY <1>2, <1>f, <1>h, EndingOpens
  <2>3. at'[w] = y /\ \A v \in Worker : v # w => at'[v] = at[v]
    BY <1>f, <2>1, AtBecomes
  <2>4. ASSUME NEW r \in Row, r # at[w].r PROVE RowShuts(r)
    <3>1. Of(at[w].r, c)
      BY <1>h DEF Of
    <3>2. row[r].run # c
      BY <1>h, <2>4, <3>1 DEF Sole, OneRow, Of
    <3> QED  BY <2>2, <3>2 DEF RowShuts, Shuts, OpensOnly
  <2>5. RowsSettled' /\ HandsTrue'
    <3>1. \A r \in Row : RowMay(r)
      BY <1>f DEF RowMay, Steady, SameFlags
    <3> QED  BY <1>f, <1>h, <2>4, <3>1, RowsGo
  <2>6. \A v \in Worker : v # w => AttemptKept(v)'
    <3>1. ASSUME NEW v \in Worker, v # w, Here(v) PROVE at[v].r \in Row /\ at[v].r # at[w].r
      BY <1>f, <3>1, HereIs DEF Alone, OnePerRow, Here
    <3> QED  BY <1>f, <2>3, <2>4, <3>1, AttemptsRest
  <2>7. AttemptKept(w)'
    <3>1. AttemptFits(y)
      BY <1>h, <2>1 DEF Gets, AttemptFits, EarlyPc
    <3> QED  BY <1>f, <1>h, <2>1, <2>3, <3>1 DEF AttemptKept, Gets, Here, Working, InWork
  <2>8. RunlessAll'
    BY <1>f DEF Kept, RunlessAll, RunlessYet
  <2>9. AllKnown'
    <3> SUFFICES ASSUME NEW i, Open(i)' PROVE Known(i)'
      BY DEF AllKnown
    <3>1. CASE i = c
      BY <1>f, <1>h, <3>1 DEF Known, OnRow
    <3>2. CASE i # c
      <4>1. Known(i)
        BY <2>2, <3>2 DEF OpensOnly, Kept, AllKnown
      <4>2. at[w].pc # "record"
        BY <1>f
      <4> QED  BY <1>f, <2>3, <4>1, <4>2, KnownStays
    <3> QED  BY <3>1, <3>2
  <2> QED  BY <2>5, <2>6, <2>7, <2>8, <2>9 DEF Kept, AttemptsKept
<1> QED  BY <1>1, <1>2 DEF StartRun

(* A run that is new is on no row. *)
LEMMA NewShuts ==
  ASSUME TypeInv, OpensOnly(Len(run) + 1)
  PROVE  \A r \in Row : RowShuts(r)
<1>1. \A r \in Row : row[r].run \in Nat /\ row[r].run <= Len(run)
  BY DEF TypeInv, RowOK, RowRecord, RunId
<1>2. Len(run) \in Nat
  BY OpenExists
<1> QED  BY <1>1, <1>2 DEF RowShuts, Shuts, OpensOnly

(* A run of its own: the row's is closed, the new one is being recorded.   *)
LEMMA CreateOwnKeeps ==
  ASSUME CheckConstants, TypeInv, Alone, Kept, NEW w \in Worker, CreateOwn(w)
  PROVE  Kept'
<1>f. /\ at \in [Worker -> AttemptRecord] /\ AttemptsKnow /\ run \in Seq(RunRecord)
      /\ row \in [Row -> RowRecord] /\ at[w].pc = "create" /\ Working(w) /\ at[w].pc \in EarlyPc
      /\ UNCHANGED <<row, req, reaper, sweep>> /\ at[w].head \in 1..Heads
      /\ Len(run) \in Nat /\ DOMAIN run = 1..Len(run)
      /\ at[w].carried \in Nat /\ at[w].carried <= Len(run)
  BY LenProperties
     DEF TypeInv, AtOK, RunOK, RowOK, CreateOwn, attemptKeeps, Working, WorkPc, Point, EarlyPc,
         AttemptsKnow, AttemptRecord, RunId
<1>h. /\ Here(w) /\ at[w].r \in Row /\ row[at[w].r].run = at[w].carried
      /\ at[w].settle = "none" /\ ~at[w].final /\ ~at[w].closed /\ ~Open(at[w].carried)
  <2>1. AttemptKept(w) /\ AttemptFits(at[w])
    BY DEF Kept, AttemptsKept, AttemptKept
  <2> QED  BY <1>f, <2>1, AttemptFacts DEF AttemptFits, AttemptKept, Here
<1>1. CASE UNCHANGED run /\ Go(w, "raised")
  <2>1. NoneOpens
    BY <1>1, SameOpen
  <2>2. "raised" \in Point /\ "raised" \in WorkPc \ {"record"} /\ "raised" \notin EarlyPc
    BY DEF WorkPc, Point, EarlyPc
  <2>3. PICK y : MovesTo(w, y, "raised")
    BY <1>1, <1>f, <2>2, GoMoves
  <2> QED  BY <1>f, <1>h, <2>1, <2>2, <2>3, MovesKeep
<1>2. CASE run' = Opened(at[w].head) /\ at' = [at EXCEPT ![w].own = Len(run) + 1, ![w].pc = "record"]
  <2> DEFINE c == Len(run) + 1
             h == at[w].head
             e == "open"
  <2>1. PICK y : AtAs(w, y) /\ Gets(at[w], y, c)
    <3>1. c \in Nat /\ at' = [at EXCEPT ![w].own = c, ![w].pc = "record"]
      BY <1>2, <1>f
    <3> HIDE DEF c
    <3> QED  BY <1>f, <3>1, GetsIs
  <2>c. c # 0
    BY <1>f
  <2>2. OpensOnly(c)
    <3>1. h \in 1..Heads /\ e \in {"open"} \cup End /\ run' = Append(run, [head |-> h, status |-> e])
      BY <1>2, <1>f DEF Opened
    <3> HIDE DEF h, e
    <3> QED  BY <1>f, <3>1, AddingOpens
  <2>3. at'[w] = y /\ \A v \in Worker : v # w => at'[v] = at[v]
    BY <1>f, <2>1, AtBecomes
  <2>4. \A r \in Row : RowShuts(r)
    BY <2>2, NewShuts
  <2>5. RowsSettled' /\ HandsTrue'
    <3>1. \A r \in Row : RowMay(r)
      BY <1>f DEF RowMay, Steady, SameFlags
    <3> QED  BY <1>f, <2>4, <3>1, RowsGo
  <2>6. \A v \in Worker : v # w => AttemptKept(v)'
    <3>1. \A v \in Worker : Here(v) => at[v].r \in Row
      BY HereIs
    <3> QED  BY <1>f, <2>3, <2>4, <3>1, AttemptsRest
  <2>7. AttemptKept(w)'
    <3>1. AttemptFits(y)
      BY <1>h, <2>1, <2>c DEF Gets, AttemptFits, EarlyPc
    <3>2. ~Open(at[w].carried)'
      <4>1. \A i : i = at[w].carried => ~Open(i)'
        BY <1>f, <1>h, <2>2 DEF OpensOnly
      <4>2. at'[w].carried = at[w].carried
        BY <2>1, <2>3 DEF Gets
      <4> QED  BY <4>1, <4>2 DEF Open
    <3> QED  BY <1>f, <1>h, <2>1, <2>3, <3>1, <3>2 DEF AttemptKept, Gets, Here, Working, InWork, Open
  <2>8. RunlessAll'
    BY <1>f DEF Kept, RunlessAll, RunlessYet
  <2>9. AllKnown'
    <3> SUFFICES ASSUME NEW i, Open(i)' PROVE Known(i)'
      BY DEF AllKnown
    <3>1. CASE i = c
      BY <2>1, <2>3, <3>1 DEF Known, Recording, Gets
    <3>2. CASE i # c
      <4>1. Known(i)
        BY <2>2, <3>2 DEF OpensOnly, Kept, AllKnown
      <4>2. at[w].pc # "record"
        BY <1>f
      <4> QED  BY <1>f, <2>3, <4>1, <4>2, KnownStays
    <3> QED  BY <3>1, <3>2
  <2> QED  BY <2>5, <2>6, <2>7, <2>8, <2>9 DEF Kept, AttemptsKept
<1> QED  BY <1>1, <1>2 DEF CreateOwn

(* The row's former run is closed and nobody's, so it may let go of it.    *)
LEMMA RecordKeeps ==
  ASSUME CheckConstants, TypeInv, Alone, Kept, NEW w \in Worker, Record(w)
  PROVE  Kept'
<1>f. /\ at \in [Worker -> AttemptRecord] /\ row \in [Row -> RowRecord]
      /\ at[w].pc = "record" /\ Working(w) /\ Go(w, "review")
      /\ UNCHANGED <<run, req, reaper, sweep>> /\ row' = [row EXCEPT ![at[w].r].run = at[w].own]
      /\ at[w].own \in Nat
  BY DEF TypeInv, AtOK, RowOK, Record, attemptKeeps, Working, WorkPc, Point, AttemptRecord, RunId
<1>h. /\ Here(w) /\ at[w].r \in Row /\ row[at[w].r].run = at[w].carried
      /\ row[at[w].r].status = "running" /\ at[w].own # 0
      /\ at[w].settle = "none" /\ ~at[w].closed
      /\ Open(at[w].carried) => at[w].own = at[w].carried
  <2>1. AttemptKept(w) /\ AttemptFits(at[w])
    BY DEF Kept, AttemptsKept, AttemptKept
  <2> QED  BY <1>f, <2>1, LeftBehindIs, HereIs DEF AttemptFits, AttemptKept
<1> DEFINE r == at[w].r
           c == at[w].own
<1>1. PICK y : MovesTo(w, y, "review")
  <2>1. "review" \in Point
    BY DEF Point
  <2> QED  BY <1>f, <2>1, GoMoves
<1>2. at'[w] = y /\ y.pc = "review" /\ SameJob(at[w], y) /\ \A v \in Worker : v # w => at'[v] = at[v]
  BY <1>f, <1>1, AtBecomes DEF MovesTo
<1>3. PICK z : /\ RowAs(r, z) /\ z.run = c /\ z.status = row[r].status /\ z.tries = row[r].tries
               /\ SameFlags(row[r], z)
  <2>1. r \in Row /\ c \in Nat /\ row' = [row EXCEPT ![r].run = c]
    BY <1>f, <1>h
  <2> HIDE DEF r, c
  <2> QED  BY <1>f, <2>1, RowRunIs
<1>4. row'[r] = z /\ \A x \in Row : x # r => row'[x] = row[x]
  BY <1>f, <1>h, <1>3, RowBecomes
<1>5. NoneOpens /\ \A i : Shuts(i)
  BY <1>f, SameOpen DEF NoneOpens, Shuts
<1>6. RowsSettled' /\ HandsTrue'
  <2>1. RowMay(r)
    <3>1. ~row[r].swept /\ ~row[r].told
      BY <1>h, UnflaggedIs
    <3> QED  BY <1>h, <1>3, <1>4, <3>1 DEF RowMay, Anew, SameFlags
  <2>2. \A x \in Row : x # r => RowMay(x)
    BY <1>4 DEF RowMay, Steady, SameFlags
  <2> QED  BY <1>f, <1>5, <2>1, <2>2, RowsGo DEF RowShuts
<1>7. \A v \in Worker : v # w => AttemptKept(v)'
  <2>1. ASSUME NEW v \in Worker, v # w, Here(v) PROVE row'[at[v].r].run = row[at[v].r].run
    <3>1. at[v].r \in Row /\ at[v].r # r
      BY <1>f, <2>1, HereIs DEF Alone, OnePerRow, Here
    <3> QED  BY <1>4, <3>1
  <2> QED  BY <1>2, <1>5, <2>1, AttemptsRest DEF RowShuts
<1>8. AttemptKept(w)'
  <2>1. AttemptFits(y)
    BY <1>2, <1>h DEF SameJob, AttemptFits, EarlyPc
  <2>2. row'[y.r].run = InWork(y) /\ ~y.closed
    BY <1>2, <1>3, <1>4, <1>h DEF SameJob, InWork
  <2> QED  BY <1>2, <2>1, <2>2 DEF AttemptKept
<1>9. RunlessAll'
  BY <1>f DEF Kept, RunlessAll, RunlessYet
<1>10. AllKnown'
  <2> SUFFICES ASSUME NEW i, Open(i) PROVE Known(i)'
    BY <1>5 DEF AllKnown, NoneOpens
  <2>1. CASE i = c
    BY <1>3, <1>4, <1>h, <2>1 DEF Known, OnRow
  <2>2. CASE i # c
    <3>1. Known(i)
      BY DEF Kept, AllKnown
    <3>2. OnRow(i) => OnRow(i)'
      <4>1. row[r].run # i
        BY <1>h, <2>2
      <4> QED  BY <1>4, <4>1 DEF OnRow
    <3>3. Recording(i) => Recording(i)'
      BY <1>2, <2>2 DEF Recording
    <3> QED  BY <1>f, <3>1, <3>2, <3>3 DEF Known, HeldByRequest, ToClose
  <2> QED  BY <2>1, <2>2
<1> QED  BY <1>6, <1>7, <1>8, <1>9, <1>10 DEF Kept, AttemptsKept

(* The claim takes over the run the row carries.                           *)
LEMMA ClaimKeeps ==
  ASSUME CheckConstants, TypeInv, Alone, Kept, NEW w \in Worker, NEW r \in Row, Claim(w, r)
  PROVE  Kept'
<1>f. /\ at \in [Worker -> AttemptRecord] /\ row \in [Row -> RowRecord]
      /\ UNCHANGED <<run, req, reaper, sweep>> /\ at[w].pc = "idle" /\ row[r].status = "queued"
  BY DEF TypeInv, AtOK, RowOK, Claim, attemptKeeps
<1>1. PICK y : /\ AtAs(w, y) /\ y.pc = "start" /\ y.r = r /\ y.carried = row[r].run
               /\ y.own = 0 /\ y.head \in 1..Heads /\ y.final = FALSE /\ y.settle = "none"
               /\ y.closed = FALSE
  <2>1. row \in [Row -> RowRecord]
    BY <1>f
  <2> QED  BY <2>1, ClaimIs
<1>2. PICK z : /\ RowAs(r, z) /\ z.status = "running" /\ z.run = row[r].run
               /\ row[r].tries < Budget /\ row[r].tries >= 0 /\ z.tries = row[r].tries + 1
               /\ SameFlags(row[r], z)
  BY <1>f, ClaimRowIs
<1>3. at'[w] = y /\ \A v \in Worker : v # w => at'[v] = at[v]
  BY <1>f, <1>1, AtBecomes
<1>4. row'[r] = z /\ \A x \in Row : x # r => row'[x] = row[x]
  BY <1>f, <1>2, RowBecomes
<1>5. NoneOpens /\ \A i : Shuts(i)
  BY <1>f, SameOpen DEF NoneOpens, Shuts
<1>r. \A x \in Row : row'[x].run = row[x].run
  BY <1>2, <1>4
<1>6. RowsSettled' /\ HandsTrue'
  <2>1. \A x \in Row : RowMay(x)
    BY <1>2, <1>4, <1>f DEF RowMay, Steady, SameFlags
  <2> QED  BY <1>f, <1>5, <2>1, RowsGo DEF RowShuts
<1>7. \A v \in Worker : v # w => AttemptKept(v)'
  <2>1. \A v \in Worker : Here(v) => at[v].r \in Row
    BY HereIs
  <2> QED  BY <1>3, <1>5, <1>r, <2>1, AttemptsRest DEF RowShuts
<1>8. AttemptKept(w)'
  <2>1. AttemptFits(y)
    BY <1>1 DEF AttemptFits
  <2> QED  BY <1>1, <1>3, <1>r, <2>1 DEF AttemptKept, Here, InWork
<1>9. RunlessAll'
  BY <1>f DEF Kept, RunlessAll, RunlessYet
<1>10. AllKnown'
  <2> SUFFICES ASSUME NEW i, Open(i) PROVE Known(i)'
    BY <1>5 DEF AllKnown, NoneOpens
  <2>1. Known(i)
    BY DEF Kept, AllKnown
  <2>2. Recording(i) => Recording(i)'
    BY <1>f, <1>3 DEF Recording
  <2> QED  BY <1>f, <1>r, <2>1, <2>2 DEF Known, HeldByRequest, OnRow, ToClose
<1> QED  BY <1>6, <1>7, <1>8, <1>9, <1>10 DEF Kept, AttemptsKept

(* Every step of an attempt and of its canceller.                          *)
LEMMA AttemptKeepsKept ==
  ASSUME CheckConstants, Forgiving, TypeInv, Alone, Sole, Kept, NEW w \in Worker,
         AttemptStep(w) \/ Stop(w) \/ SettleStep(w) \/ Die(w)
  PROVE  Kept'
<1>1. CASE AttemptStep(w)
  BY <1>1, ClaimKeeps, EarlyKeeps, ReviewKeeps, StartKeeps, CreateOwnKeeps, RecordKeeps, EndsKeep,
     QueuesKeep, StopsKeep DEF AttemptStep
<1>2. CASE Stop(w) \/ SettleStep(w) \/ Die(w)
  BY <1>2, EndsKeep, StopsKeep DEF SettleStep
<1> QED  BY <1>1, <1>2

-----------------------------------------------------------------------------
(* Steps of nobody's attempt.                                              *)
LEMMA AttemptsAtRest ==
  ASSUME TypeInv, Alone, Kept, UNCHANGED at, \A r \in Row : RowShuts(r),
         \A v \in Worker : Here(v) => row'[at[v].r].run = row[at[v].r].run
  PROVE  AttemptsKept'
<1>1. \A v \in Worker : Here(v) => at[v].r \in Row
  BY HereIs
<1> QED  BY <1>1, AttemptsRest DEF AttemptsKept

LEMMA NoneShut ==
  ASSUME NoneOpens PROVE \A r \in Row : RowShuts(r)
BY DEF NoneOpens, RowShuts, Shuts

(* A push, an operator's cancel or retry: no hand holds the row retried.   *)
LEMMA EnvironmentKeeps ==
  ASSUME CheckConstants, Forgiving, TypeInv, Alone, Kept,
         UNCHANGED vars \/ Push \/ \E r \in Row : Cancel(r) \/ RetryNow(r)
  PROVE  Kept'
<1>0. UNCHANGED <<run, req, at, reaper, sweep>> /\ row \in [Row -> RowRecord]
  BY DEF vars, Push, Cancel, RetryNow, TypeInv, RowOK
<1>1. (\A r \in Row : RowMay(r)) /\ (\A r \in Row : row'[r].run = row[r].run)
  <2>1. CASE UNCHANGED row
    BY <2>1 DEF RowMay, Steady, SameFlags
  <2>2. ASSUME NEW r \in Row, Cancel(r)
        PROVE  (\A x \in Row : RowMay(x)) /\ (\A x \in Row : row'[x].run = row[x].run)
    <3>1. PICK y : /\ RowAs(r, y) /\ y.run = row[r].run /\ y.tries = row[r].tries
                   /\ SameFlags(row[r], y)
                   /\ \/ y.status = row[r].status
                      \/ row[r].status = "queued" /\ y.status = "cancelled"
      BY <1>0, <2>2, CancelIs
    <3>2. row'[r] = y /\ \A x \in Row : x # r => row'[x] = row[x]
      BY <1>0, <3>1, RowBecomes
    <3> QED  BY <3>1, <3>2 DEF RowMay, Steady, SameFlags
  <2>3. ASSUME NEW r \in Row, RetryNow(r)
        PROVE  (\A x \in Row : RowMay(x)) /\ (\A x \in Row : row'[x].run = row[x].run)
    <3>1. ~InHand(r)
      BY <2>3 DEF RetryNow, Forgiving
    <3>2. PICK y : /\ RowAs(r, y) /\ y.status = "queued" /\ y.run = row[r].run /\ y.tries = 0
                   /\ ~y.swept /\ ~y.told
      BY <1>0, <2>3, RetryIs
    <3>3. row'[r] = y /\ \A x \in Row : x # r => row'[x] = row[x]
      BY <1>0, <3>2, RowBecomes
    <3>4. RowMay(r)
      BY <3>1, <3>2, <3>3 DEF RowMay, Anew
    <3>5. \A x \in Row : x # r => RowMay(x)
      BY <3>3 DEF RowMay, Steady, SameFlags
    <3> QED  BY <3>2, <3>3, <3>4, <3>5
  <2> QED  BY <2>1, <2>2, <2>3 DEF vars, Push
<1>2. NoneOpens /\ \A r \in Row : RowShuts(r)
  BY <1>0, SameOpen, NoneShut
<1>3. RowsSettled' /\ HandsTrue'
  BY <1>0, <1>1, <1>2, RowsGo
<1>4. AttemptsKept'
  BY <1>0, <1>1, <1>2, HereIs, AttemptsAtRest
<1>5. RunlessAll'
  BY <1>0 DEF Kept, RunlessAll, RunlessYet
<1>6. AllKnown'
  <2> SUFFICES ASSUME NEW i, Open(i) PROVE Known(i)'
    BY <1>2 DEF AllKnown, NoneOpens
  <2>1. Known(i)
    BY DEF Kept, AllKnown
  <2> QED  BY <1>0, <1>1, <2>1 DEF Known, HeldByRequest, Recording, OnRow, ToClose
<1> QED  BY <1>3, <1>4, <1>5, <1>6 DEF Kept

(* The sweep completes the run of a retired row, and marks it then.        *)
LEMMA SweepIs ==
  ASSUME TypeInv, NEW s \in Sweeper, NEW h, sweep' = [sweep EXCEPT ![s] = h]
  PROVE  sweep'[s] = h /\ \A x \in Sweeper : x # s => sweep'[x] = sweep[x]
BY DEF TypeInv, SweepOK

LEMMA SweepKeepsKept ==
  ASSUME CheckConstants, TypeInv, Alone, Kept, NEW s \in Sweeper, SweepStep(s)
  PROVE  Kept'
<1>f. /\ row \in [Row -> RowRecord] /\ run \in Seq(RunRecord)
      /\ sweep[s] \in HandRecord /\ sweep[s].run \in Nat
      /\ sweep[s].pc # "idle" => sweep[s].r \in Row /\ sweep[s].end \in End
  BY DEF TypeInv, RowOK, RunOK, SweepOK, HandOK, HandKnows, HandRecord, RunId
<1>0. UNCHANGED <<req, at, reaper>>
  BY DEF SweepStep, SweepRead, SweepClose, SweepMark, sweepKeeps
<1>t. SweepTrue(s)
  BY DEF Kept, HandsTrue
<1> DEFINE RunsSame == \A r \in Row : row'[r].run = row[r].run /\ row'[r].status = row[r].status
<1>m. ASSUME NoneOpens, RunsSame, RowsSettled', SweepTrue(s)',
             \A x \in Sweeper : x # s => sweep'[x] = sweep[x],
             \A r \in Row : row'[r].told = row[r].told
      PROVE  Kept'
  <2>1. \A r \in Row : RowShuts(r)
    BY <1>m, NoneShut
  <2>2. AttemptsKept'
    BY <1>0, <1>m, <2>1, HereIs, AttemptsAtRest
  <2>3. HandsTrue'
    <3>1. \A x \in Sweeper : x # s => SweepTrue(x)'
      BY <1>m, <2>1, SweepStays DEF RowShuts
    <3>2. TellTrue'
      BY <1>0, <1>m, TellStays
    <3> QED  BY <1>m, <3>1, <3>2 DEF HandsTrue
  <2>4. RunlessAll'
    BY <1>0 DEF Kept, RunlessAll, RunlessYet
  <2>5. AllKnown'
    <3> SUFFICES ASSUME NEW i, Open(i) PROVE Known(i)'
      BY <1>m DEF AllKnown, NoneOpens
    <3>1. Known(i)
      BY DEF Kept, AllKnown
    <3> QED  BY <1>0, <1>m, <3>1 DEF Known, HeldByRequest, Recording, OnRow, ToClose
  <2> QED  BY <1>m, <2>2, <2>3, <2>4, <2>5 DEF Kept
<1>r. ASSUME UNCHANGED row, NoneOpens PROVE RowsSettled'
  <2>1. \A r \in Row : RowShuts(r)
    BY <1>r, NoneShut
  <2>2. ASSUME NEW r \in Row PROVE RowSettled(r)'
    BY <1>0, <1>r, <2>1, RowStays DEF SameFlags, Telling, RowShuts
  <2> QED  BY <2>2 DEF RowsSettled
<1>1. ASSUME NEW r \in Row, SweepRead(s, r) PROVE Kept'
  <2> DEFINE e == RetiredEnd(r)
             i == row[r].run
             h == [Resting EXCEPT !.pc = "close", !.r = r, !.run = i, !.end = e]
  <2>1. UNCHANGED <<run, row>> /\ row[r].status \in Retired /\ sweep' = [sweep EXCEPT ![s] = h]
    BY <1>1 DEF SweepRead
  <2>2. h.pc = "close" /\ h.r = r /\ h.run = i
    <3> HIDE DEF e, i
    <3> QED  BY DEF Resting
  <2> HIDE DEF h
  <2>3. sweep'[s] = h /\ \A x \in Sweeper : x # s => sweep'[x] = sweep[x]
    BY <2>1, SweepIs
  <2>4. SweepTrue(s)'
    BY <2>1, <2>2, <2>3 DEF SweepTrue
  <2>5. NoneOpens
    BY <2>1, SameOpen
  <2> QED  BY <1>m, <1>r, <2>1, <2>3, <2>4, <2>5
<1>2. ASSUME SweepClose(s) PROVE Kept'
  <2>1. UNCHANGED row /\ sweep[s].pc = "close"
    BY <1>2 DEF SweepClose
  <2>2. CASE run' = EndedIfOpen(sweep[s].run, sweep[s].end) /\ sweep' = [sweep EXCEPT ![s].pc = "mark"]
    <3>1. NoneOpens /\ \A i : i = sweep[s].run => ~Open(i)'
      <4> DEFINE i == sweep[s].run
                 e == sweep[s].end
      <4>1. i \in Nat /\ e \in End /\ run' = EndedIfOpen(i, e)
        BY <1>f, <2>1, <2>2
      <4> HIDE DEF i, e
      <4>2. NoneOpens /\ \A j : j = i => ~Open(j)'
        BY <1>f, <4>1, ClosingOpens
      <4> QED  BY <4>2 DEF i
    <3> DEFINE x == sweep[s]
               h == [x EXCEPT !.pc = "mark"]
    <3>2. sweep' = [sweep EXCEPT ![s] = h] /\ x \in HandRecord
      BY <1>f, <2>2
    <3>3. h.pc = "mark" /\ h.r = x.r /\ h.run = x.run
      <4> HIDE DEF x
      <4> QED  BY <3>2 DEF HandRecord
    <3> HIDE DEF h
    <3>4. sweep'[s] = h /\ \A v \in Sweeper : v # s => sweep'[v] = sweep[v]
      BY <3>2, SweepIs
    <3>5. SweepTrue(s)'
      BY <1>t, <2>1, <3>1, <3>3, <3>4 DEF SweepTrue
    <3> QED  BY <1>m, <1>r, <2>1, <3>1, <3>4, <3>5
  <2>3. CASE UNCHANGED run /\ sweep' = [sweep EXCEPT ![s] = Resting]
    <3>1. sweep'[s] = Resting /\ \A v \in Sweeper : v # s => sweep'[v] = sweep[v]
      BY <2>3, SweepIs
    <3>2. SweepTrue(s)'
      BY <3>1 DEF SweepTrue, Resting
    <3>3. NoneOpens
      BY <2>3, SameOpen
    <3> QED  BY <1>m, <1>r, <2>1, <3>1, <3>2, <3>3
  <2> QED  BY <1>2, <2>2, <2>3 DEF SweepClose
<1>3. ASSUME SweepMark(s) PROVE Kept'
  <2>r. PICK r \in Row : r = sweep[s].r
    BY <1>3, <1>f DEF SweepMark
  <2>1. UNCHANGED run /\ sweep[s].pc = "mark" /\ row' = [row EXCEPT ![r].swept = TRUE]
        /\ sweep' = [sweep EXCEPT ![s] = Resting]
    BY <1>3, <2>r DEF SweepMark
  <2>2. r \in Row /\ row[r].status \in Retired /\ ~Open(row[r].run)
    BY <1>f, <1>t, <2>1, <2>r DEF SweepTrue
  <2>3. PICK y : RowAs(r, y) /\ SameRow(row[r], y) /\ y.swept /\ y.told = row[r].told
    BY <1>f, <2>1, <2>2, SweptIs
  <2>4. row'[r] = y /\ \A x \in Row : x # r => row'[x] = row[x]
    BY <1>f, <2>2, <2>3, RowBecomes
  <2>5. NoneOpens /\ \A x \in Row : RowShuts(x)
    BY <2>1, SameOpen, NoneShut
  <2>6. RowsSettled'
    <3>1. RowSettled(r)
      BY <2>2 DEF Kept, RowsSettled
    <3>2. row[r].status # "none"
      BY <2>2 DEF Retired
    <3>3. ~Open(row[r].run)'
      <4>1. \A i : i = row[r].run => ~Open(i)'
        BY <2>2, <2>5 DEF NoneOpens
      <4>2. row'[r].run = row[r].run
        BY <2>3, <2>4 DEF SameRow
      <4> QED  BY <4>1, <4>2 DEF Open
    <3>4. RowSettled(r)'
      BY <2>2, <2>3, <2>4, <3>1, <3>2, <3>3 DEF RowSettled, SameRow, Open
    <3>5. \A x \in Row : x # r => RowSettled(x)'
      BY <1>0, <2>4, <2>5, RowStays DEF SameFlags, Telling, RowShuts
    <3> QED  BY <3>4, <3>5 DEF RowsSettled
  <2>7. sweep'[s] = Resting /\ \A v \in Sweeper : v # s => sweep'[v] = sweep[v]
    BY <2>1, SweepIs
  <2>8. SweepTrue(s)'
    BY <2>7 DEF SweepTrue, Resting
  <2>9. RunsSame /\ \A x \in Row : row'[x].told = row[x].told
    BY <2>3, <2>4 DEF SameRow
  <2> QED  BY <1>m, <2>5, <2>6, <2>7, <2>8, <2>9
<1> QED  BY <1>1, <1>2, <1>3 DEF SweepStep

-----------------------------------------------------------------------------
(* The reaper takes the run of a lapsed row in hand as the row lets go of  *)
(* it, and tells a dead letter on the run its row carries.                 *)
LEMMA ReapKeeps ==
  ASSUME CheckConstants, TypeInv, Alone, Kept, NEW r \in Row, Reap(r)
  PROVE  Kept'
<1>f. row \in [Row -> RowRecord] /\ tip \in 1..Heads /\ "cancelled" \in End \ {"verdict"}
  BY DEF TypeInv, RowOK, ClockOK, End
<1>0. UNCHANGED <<run, req, at, sweep>> /\ reaper.pc = "idle"
  BY DEF Reap, reaperKeeps
<1>1. /\ row[r].status = "running" /\ Lapsed(r)
      /\ \E y : /\ RowAs(r, y) /\ y.status \in {"cancelled", "dead", "queued"}
                /\ y.run \in {row[r].run, 0} /\ y.tries = row[r].tries
                /\ SameFlags(row[r], y) /\ (y.status # "queued" => y.run = row[r].run)
      /\ \E n \in 0..Heads : Take(r, "close", "cancelled", n)
  BY <1>f, ReapIs
<1>2. PICK y : /\ RowAs(r, y) /\ y.status \in {"cancelled", "dead", "queued"}
               /\ y.run \in {row[r].run, 0} /\ SameFlags(row[r], y)
               /\ (y.status # "queued" => y.run = row[r].run)
  BY <1>1
<1>3. reaper'.pc = "close" /\ reaper'.run = row[r].run
  <2>1. HandIs(reaper', "close", r, row[r].run)
    BY <1>f, <1>1, TakeIs
  <2> QED  BY <2>1 DEF HandIs
<1>4. row'[r] = y /\ \A x \in Row : x # r => row'[x] = row[x]
  BY <1>f, <1>2, RowBecomes
<1>5. NoneOpens /\ \A x \in Row : RowShuts(x)
  BY <1>0, SameOpen, NoneShut
<1>6. \A x \in Row : RowMay(x)
  <2>1. ~row[r].swept /\ ~row[r].told
    BY <1>1, UnflaggedIs
  <2>2. RowMay(r)
    BY <1>1, <1>2, <1>4, <2>1 DEF RowMay, Steady, Anew, SameFlags
  <2>3. \A x \in Row : x # r => RowMay(x)
    BY <1>4 DEF RowMay, Steady, SameFlags
  <2> QED  BY <2>2, <2>3
<1>7. RowsSettled' /\ HandsTrue'
  BY <1>0, <1>3, <1>5, <1>6, RowsGo
<1>8. AttemptsKept'
  <2>1. \A v \in Worker : Here(v) => at[v].r \in Row /\ at[v].r # r
    BY <1>1, HereIs DEF Lapsed, Here, Working, WorkPc, Point
  <2> QED  BY <1>0, <1>4, <1>5, <2>1, AttemptsAtRest
<1>9. RunlessAll'
  BY <1>0 DEF Kept, RunlessAll, RunlessYet
<1>10. AllKnown'
  <2> SUFFICES ASSUME NEW i, Open(i) PROVE Known(i)'
    BY <1>5 DEF AllKnown, NoneOpens
  <2>1. Known(i)
    BY DEF Kept, AllKnown
  <2>2. OnRow(i) => OnRow(i)' \/ ToClose(i)'
    BY <1>3, <1>4 DEF OnRow, ToClose
  <2> QED  BY <1>0, <2>1, <2>2 DEF Known, HeldByRequest, Recording, ToClose
<1> QED  BY <1>7, <1>8, <1>9, <1>10 DEF Kept

LEMMA ReaperCloseKeeps ==
  ASSUME CheckConstants, Forgiving, TypeInv, Alone, Kept, ReaperClose
  PROVE  Kept'
<1>f. run \in Seq(RunRecord) /\ reaper \in HandRecord /\ reaper.run \in Nat /\ reaper.end \in End
  BY DEF TypeInv, RunOK, ReaperOK, HandOK, HandKnows, HandRecord, RunId, ReaperClose
<1>0. /\ UNCHANGED <<row, req, at, sweep>> /\ reaper.pc = "close"
      /\ run' = EndedIfOpen(reaper.run, reaper.end)
  BY DEF ReaperClose, reaperKeeps, Refuse, Forgiving, TriedOnce
<1>1. reaper'.pc # "tell" /\ reaper'.pc # "close"
  <2>1. CASE reaper' = Resting
    BY <2>1 DEF Resting
  <2>2. CASE reaper' = [reaper EXCEPT !.pc = "requeue"]
    BY <1>f, <2>2 DEF HandRecord
  <2> QED  BY <2>1, <2>2 DEF ReaperClose
<1>2. PICK i \in Nat, e \in End : i = reaper.run /\ run' = EndedIfOpen(i, e)
  BY <1>f, <1>0
<1>3. NoneOpens /\ ~Open(i)' /\ \A x \in Row : RowShuts(x)
  BY <1>f, <1>2, ClosingOpens, NoneShut
<1>4. \A x \in Row : RowMay(x)
  BY <1>0 DEF RowMay, Steady, SameFlags
<1>5. RowsSettled' /\ HandsTrue'
  BY <1>0, <1>1, <1>3, <1>4, RowsGo
<1>6. AttemptsKept'
  BY <1>0, <1>3, AttemptsAtRest
<1>7. RunlessAll'
  BY <1>0 DEF Kept, RunlessAll, RunlessYet
<1>8. AllKnown'
  <2> SUFFICES ASSUME NEW j, Open(j)' PROVE Known(j)'
    BY DEF AllKnown
  <2>1. Known(j) /\ j # i
    BY <1>3 DEF Kept, AllKnown, NoneOpens
  <2> QED  BY <1>0, <1>2, <2>1 DEF Known, HeldByRequest, Recording, OnRow, ToClose
<1> QED  BY <1>5, <1>6, <1>7, <1>8 DEF Kept

LEMMA ReaperRequeueKeeps ==
  ASSUME CheckConstants, TypeInv, Alone, Kept, ReaperRequeue
  PROVE  Kept'
<1>f. row \in [Row -> RowRecord]
  BY DEF TypeInv, RowOK
<1>0. /\ UNCHANGED <<run, req, at, sweep>> /\ reaper.pc = "requeue" /\ Requeue(reaper.next)
      /\ reaper' = Resting
  BY DEF ReaperRequeue, reaperKeeps
<1>1. reaper.pc # "tell" /\ reaper.pc # "close" /\ reaper'.pc # "tell"
  BY <1>0 DEF Resting
<1>2. Brings(Row \ Delivery, 0)
  BY <1>f, <1>0, RequeueIs
<1>3. /\ \A r \in Row : RowMay(r)
      /\ \A r \in Row : row'[r].run = row[r].run \/ row[r].run \in {0}
      /\ \A v \in Worker : Here(v) => row'[at[v].r].run = row[at[v].r].run
  BY <1>2, BroughtRows
<1>4. NoneOpens /\ \A r \in Row : RowShuts(r)
  BY <1>0, SameOpen, NoneShut
<1>5. RowsSettled' /\ HandsTrue'
  BY <1>0, <1>1, <1>3, <1>4, RowsGo
<1>6. AttemptsKept'
  BY <1>0, <1>3, <1>4, AttemptsAtRest
<1>7. RunlessAll'
  BY <1>0 DEF Kept, RunlessAll, RunlessYet
<1>8. AllKnown'
  <2> SUFFICES ASSUME NEW i, Open(i) PROVE Known(i)'
    BY <1>4 DEF AllKnown, NoneOpens
  <2>1. Known(i) /\ i # 0
    BY OpenExists DEF Kept, AllKnown
  <2>2. OnRow(i) => OnRow(i)'
    BY <1>3, <2>1, OnRowStays
  <2> QED  BY <1>0, <1>1, <2>1, <2>2 DEF Known, HeldByRequest, Recording, ToClose
<1> QED  BY <1>5, <1>6, <1>7, <1>8 DEF Kept

LEMMA MarkDeadKeeps ==
  ASSUME CheckConstants, TypeInv, Alone, Kept, NEW r \in Row, MarkDead(r)
  PROVE  Kept'
<1>f. row \in [Row -> RowRecord] /\ "notice" \in End \ {"verdict"} /\ 0 \in 0..Heads
  BY DEF TypeInv, RowOK, End, CheckConstants
<1>0. /\ UNCHANGED <<run, req, at, sweep>> /\ reaper.pc = "idle" /\ row[r].status = "dead"
      /\ row' = [row EXCEPT ![r].told = TRUE] /\ Take(r, "tell", "notice", 0)
  BY DEF MarkDead, reaperKeeps
<1>1. reaper'.pc = "tell" /\ reaper'.r = r /\ reaper'.run = row[r].run
  <2>1. HandIs(reaper', "tell", r, row[r].run)
    BY <1>f, <1>0, TakeIs
  <2> QED  BY <2>1 DEF HandIs
<1>2. PICK y : RowAs(r, y) /\ SameRow(row[r], y) /\ y.told /\ y.swept = row[r].swept
  BY <1>f, <1>0, ToldIs
<1>3. row'[r] = y /\ \A x \in Row : x # r => row'[x] = row[x]
  BY <1>f, <1>2, RowBecomes
<1>4. NoneOpens /\ \A x \in Row : RowShuts(x)
  BY <1>0, SameOpen, NoneShut
<1>5. \A x \in Row : row'[x].run = row[x].run
  BY <1>2, <1>3 DEF SameRow
<1>6. RowsSettled'
  <2>1. RowSettled(r)'
    <3>1. RowSettled(r)
      BY DEF Kept, RowsSettled
    <3> QED  BY <1>0, <1>1, <1>2, <1>3, <3>1
             DEF RowSettled, Given, Telling, SameRow, Retired
  <2>2. ASSUME NEW x \in Row, x # r PROVE RowSettled(x)'
    BY <1>0, <1>3, <1>4, <2>2, RowStays DEF SameFlags, Telling, RowShuts
  <2> QED  BY <2>1, <2>2 DEF RowsSettled
<1>7. HandsTrue'
  <2>1. ASSUME NEW s \in Sweeper PROVE SweepTrue(s)'
    <3>1. \A x \in Row : row[x].status \in Retired => x # r
      BY <1>0 DEF Retired
    <3> QED  BY <1>0, <1>3, <1>4, <3>1, SweepStays DEF RowShuts
  <2>2. TellTrue'
    BY <1>0, <1>1, <1>2, <1>3 DEF TellTrue, SameRow
  <2> QED  BY <2>1, <2>2 DEF HandsTrue
<1>8. AttemptsKept'
  <2>1. \A v \in Worker : Here(v) => at[v].r \in Row
    BY HereIs
  <2> QED  BY <1>0, <1>4, <1>5, <2>1, AttemptsAtRest
<1>9. RunlessAll'
  BY <1>0 DEF Kept, RunlessAll, RunlessYet
<1>10. AllKnown'
  <2> SUFFICES ASSUME NEW i, Open(i) PROVE Known(i)'
    BY <1>4 DEF AllKnown, NoneOpens
  <2>1. Known(i)
    BY DEF Kept, AllKnown
  <2> QED  BY <1>0, <1>5, <2>1 DEF Known, HeldByRequest, Recording, OnRow, ToClose
<1> QED  BY <1>6, <1>7, <1>8, <1>9, <1>10 DEF Kept

LEMMA TellKeeps ==
  ASSUME CheckConstants, Forgiving, TypeInv, Alone, Kept, Tell
  PROVE  Kept'
<1>0. /\ UNCHANGED <<req, at, sweep>> /\ reaper.pc = "tell" /\ reaper' = Resting
      /\ run' = IF reaper.run # 0 THEN Ended(reaper.run, reaper.end)
                ELSE Append(run, [head |-> Ref[reaper.r], status |-> reaper.end])
      /\ row' = IF reaper.run # 0 THEN row ELSE [row EXCEPT ![reaper.r].run = Len(run) + 1]
  BY DEF Tell, reaperKeeps, Refuse, Forgiving, TriedOnce
<1>1. PICK r \in Row, e \in End, i \in Nat, h \in 1..Heads :
        r = reaper.r /\ e = reaper.end /\ i = reaper.run /\ h = Ref[reaper.r] /\ e # "open"
  <2>1. /\ reaper.r \in Row /\ reaper.end \in End /\ reaper.run \in Nat /\ reaper.end # "open"
        /\ Ref[reaper.r] \in 1..Heads
    BY <1>0 DEF TypeInv, ReaperOK, HandOK, HandKnows, HandRecord, RunId, End, CheckConstants
  <2> QED  BY <2>1
<1>2. /\ row[r].status = "dead" /\ row[r].told /\ row[r].run = i /\ ~row[r].swept
  BY <1>0, <1>1 DEF Kept, HandsTrue, TellTrue, RowsSettled, RowSettled, Retired
<1>3. row \in [Row -> RowRecord] /\ run \in Seq(RunRecord) /\ e \in {"open"} \cup End
  BY DEF TypeInv, RowOK, RunOK
<1>4. /\ NoneOpens /\ ~Open(row[r].run)'
      /\ SameFlags(row[r], row'[r]) /\ row'[r].status = "dead" /\ (i # 0 => row'[r].run = i)
      /\ \A x \in Row : x # r => row'[x] = row[x]
  <2>1. CASE i # 0
    <3>1. UNCHANGED row /\ run' = Ended(i, e)
      BY <1>0, <1>1, <2>1
    <3>2. NoneOpens /\ \A j : j = i => ~Open(j)'
      BY <1>1, <1>3, <3>1, EndingOpens
    <3> QED  BY <1>2, <3>1, <3>2 DEF SameFlags, Open
  <2>2. CASE i = 0
    <3>1. PICK n \in Nat : n = Len(run) + 1
      BY OpenExists
    <3>2. /\ run' = Append(run, [head |-> h, status |-> e])
          /\ row' = [row EXCEPT ![r].run = n]
      BY <1>0, <1>1, <2>2, <3>1
    <3>3. NoneOpens
      BY <1>1, <1>3, <3>2, AddingOpens
    <3>4. ~Open(n)'
      BY <3>1, <3>3, OpenExists DEF NoneOpens
    <3>5. PICK y : /\ RowAs(r, y) /\ y.run = n /\ y.status = row[r].status /\ SameFlags(row[r], y)
      BY <1>3, <3>2, RowRunIs
    <3>6. row'[r] = y /\ \A x \in Row : x # r => row'[x] = row[x]
      BY <1>3, <3>5, RowBecomes
    <3> QED  BY <1>2, <2>2, <3>3, <3>4, <3>5, <3>6 DEF Open
  <2> QED  BY <2>1, <2>2
<1>5. (\A x \in Row : RowShuts(x)) /\ reaper'.pc = "idle"
  BY <1>0, <1>4, NoneShut DEF Resting
<1>6. RowsSettled'
  <2>1. RowSettled(r)'
    BY <1>2, <1>4 DEF RowSettled, SameFlags, Open
  <2>2. ASSUME NEW x \in Row, x # r PROVE RowSettled(x)'
    BY <1>1, <1>4, <1>5, <2>2, RowStays DEF SameFlags, Telling, RowShuts
  <2> QED  BY <2>1, <2>2 DEF RowsSettled
<1>7. HandsTrue'
  <2>1. ASSUME NEW s \in Sweeper PROVE SweepTrue(s)'
    <3>1. \A x \in Row : row[x].status \in Retired => x # r
      BY <1>2 DEF Retired
    <3> QED  BY <1>0, <1>4, <1>5, <3>1, SweepStays DEF RowShuts
  <2>2. TellTrue'
    BY <1>5 DEF TellTrue
  <2> QED  BY <2>1, <2>2 DEF HandsTrue
<1>8. AttemptsKept'
  <2>1. \A v \in Worker : Here(v) => at[v].r \in Row /\ at[v].r # r
    BY <1>2, HereIs
  <2> QED  BY <1>0, <1>4, <1>5, <2>1, AttemptsAtRest
<1>9. RunlessAll'
  BY <1>0 DEF Kept, RunlessAll, RunlessYet
<1>10. AllKnown'
  <2> SUFFICES ASSUME NEW j, Open(j) PROVE Known(j)'
    BY <1>4 DEF AllKnown, NoneOpens
  <2>1. Known(j) /\ j # 0
    BY OpenExists DEF Kept, AllKnown
  <2>2. \A x \in Row : row'[x].run = row[x].run \/ row[x].run \in {0}
    BY <1>2, <1>4
  <2>3. OnRow(j) => OnRow(j)'
    BY <2>1, <2>2, OnRowStays
  <2> QED  BY <1>0, <2>1, <2>3 DEF Known, HeldByRequest, Recording, ToClose
<1> QED  BY <1>6, <1>7, <1>8, <1>9, <1>10 DEF Kept

LEMMA ReaperKeepsKept ==
  ASSUME CheckConstants, Forgiving, TypeInv, Alone, Kept, ReaperStep
  PROVE  Kept'
BY ReapKeeps, ReaperCloseKeeps, ReaperRequeueKeeps, MarkDeadKeeps, TellKeeps DEF ReaperStep

-----------------------------------------------------------------------------
(* A request lets go of its run where a row carries it or it is closed.    *)
LEMMA AsksKeep ==
  ASSUME TypeInv, Alone, Kept, NEW q \in Request, NEW y, ReqAs(q, y), UNCHANGED <<at, reaper, sweep>>,
         \A r \in Row : RowMay(r) /\ RowShuts(r) /\ (row'[r].run = row[r].run \/ row[r].run \in {0}),
         \A v \in Worker : Here(v) => row'[at[v].r].run = row[at[v].r].run,
         y.pc \in {"none", "create"} \/ y.late = "asked" => y.run = 0,
         \A i : Open(i)' => Open(i) \/ (y.run = i /\ y.pc # "over"),
         \A i : Open(i) /\ Open(i)' /\ req[q].run = i /\ req[q].pc # "over" =>
           (y.run = i /\ y.pc # "over") \/ OnRow(i)'
  PROVE  Kept'
<1>1. req'[q] = y /\ \A p \in Request : p # q => req'[p] = req[p]
  BY ReqBecomes DEF TypeInv, ReqOK
<1>2. RowsSettled' /\ HandsTrue'
  BY RowsGo
<1>3. AttemptsKept'
  BY AttemptsAtRest
<1>4. RunlessAll'
  BY <1>1 DEF Kept, RunlessAll, RunlessYet
<1>5. AllKnown'
  <2> SUFFICES ASSUME NEW i, Open(i)' PROVE Known(i)'
    BY DEF AllKnown
  <2>1. CASE y.run = i /\ y.pc # "over"
    BY <1>1, <2>1 DEF Known, HeldByRequest
  <2>2. CASE ~(y.run = i /\ y.pc # "over")
    <3>1. Open(i) /\ Known(i) /\ i # 0
      BY <2>2, OpenExists DEF Kept, AllKnown
    <3>2. OnRow(i) => OnRow(i)'
      BY <3>1, OnRowStays
    <3>3. HeldByRequest(i) => HeldByRequest(i)' \/ OnRow(i)'
      BY <1>1, <2>2, <3>1 DEF HeldByRequest
    <3> QED  BY <3>1, <3>2, <3>3 DEF Known, Recording, ToClose
  <2> QED  BY <2>1, <2>2
<1> QED  BY <1>2, <1>3, <1>4, <1>5 DEF Kept

LEMMA RowsAlike ==
  ASSUME UNCHANGED row
  PROVE  /\ \A r \in Row : RowMay(r) /\ (row'[r].run = row[r].run \/ row[r].run \in {0})
         /\ \A v \in Worker : Here(v) => row'[at[v].r].run = row[at[v].r].run
BY DEF RowMay, Steady, SameFlags

(* From the create to the row that carries the run, or to its close.       *)
LEMMA RequestKeepsKept ==
  ASSUME CheckConstants, Forgiving, TypeInv, Alone, Kept, NEW q \in Request, Receive(q) \/ RequestStep(q)
  PROVE  Kept'
<1>f. /\ req \in [Request -> ReqRecord] /\ row \in [Row -> RowRecord] /\ run \in Seq(RunRecord)
      /\ scenario \in Scenarios /\ req[q].run \in Nat /\ RunlessYet(q) /\ Len(run) \in Nat
      /\ req[q].pc \notin {"none", "over"} => req[q].d \in Row /\ Ref[req[q].d] \in 1..Heads
      /\ req[q].late = "asked" => req[q].pc \in {"insert", "adopt"}
      /\ ~Open(0)
  BY OpenExists DEF TypeInv, ReqOK, RowOK, RunOK, ClockOK, RequestsKnow, LateIsAsked, ReqRecord, RunId,
     CheckConstants, Kept, RunlessAll
<1>0. UNCHANGED <<at, reaper, sweep>>
  BY DEF Receive, RequestStep, Create, CreateLate, LateAnswer, Insert, Bind, Adopt, CloseOrphan,
     ingressKeeps
<1>r. ASSUME UNCHANGED run PROVE NoneOpens /\ \A r \in Row : RowShuts(r)
  BY <1>r, SameOpen, NoneShut
<1>1. CASE Receive(q)
  <2>1. UNCHANGED <<run, row>>
    BY <1>1 DEF Receive
  <2>2. PICK y : /\ req[q].pc = "none" /\ ReqAs(q, y) /\ y.pc \in {"create", "insert"}
                 /\ y.run = 0 /\ y.late = "no"
    BY <1>1, <1>f, ReceiveIs
  <2>3. \A i : Open(i) => req[q].run # i
    BY <1>f, <2>2 DEF RunlessYet
  <2> QED  BY <1>0, <1>r, <2>1, <2>2, <2>3, RowsAlike, AsksKeep DEF NoneOpens
<1>2. CASE Create(q) \/ LateAnswer(q)
  <2>1. UNCHANGED row /\ run' = Opened(Ref[req[q].d])
    BY <1>2 DEF Create, LateAnswer
  <2>2. PICK y : /\ ReqAs(q, y) /\ y.pc \in {"insert", "adopt"} /\ y.run = Len(run) + 1
                 /\ y.late # "asked"
    <3>1. CASE Create(q)
      <4>1. PICK y : Goes(q, y, "insert") /\ y.run = Len(run) + 1 /\ y.late = req[q].late
        BY <1>f, <3>1, CreateIs
      <4>2. req[q].late # "asked"
        BY <1>f, <3>1 DEF Create
      <4> QED  BY <4>1, <4>2 DEF Goes
    <3>2. CASE LateAnswer(q)
      <4>1. PICK y : Goes(q, y, req[q].pc) /\ y.run = Len(run) + 1 /\ y.late = "made"
        BY <1>f, <3>2, LateAnswerIs
      <4>2. req[q].pc \in {"insert", "adopt"}
        BY <1>f, <3>2 DEF LateAnswer
      <4> QED  BY <4>1, <4>2 DEF Goes
    <3> QED  BY <1>2, <3>1, <3>2
  <2>3. req[q].run = 0
    BY <1>2, <1>f DEF Create, LateAnswer, RunlessYet
  <2>4. OpensOnly(Len(run) + 1)
    <3>1. PICK h \in 1..Heads : run' = Append(run, [head |-> h, status |-> "open"])
      BY <1>2, <1>f, <2>1 DEF Opened, Create, LateAnswer
    <3> QED  BY <1>f, <3>1, AddingOpens
  <2>5. \A r \in Row : RowShuts(r)
    BY <2>4, NewShuts
  <2>6. \A i : Open(i)' => Open(i) \/ (y.run = i /\ y.pc # "over")
    BY <2>2, <2>4 DEF OpensOnly
  <2>7. \A i : Open(i) => req[q].run # i
    BY <1>f, <2>3
  <2>8. ~(y.pc \in {"none", "create"} \/ y.late = "asked")
    BY <2>2
  <2>9. \A r \in Row : RowMay(r) /\ RowShuts(r) /\ (row'[r].run = row[r].run \/ row[r].run \in {0})
    BY <2>1, <2>5, RowsAlike
  <2>10. \A v \in Worker : Here(v) => row'[at[v].r].run = row[at[v].r].run
    BY <2>1
  <2> QED  BY <1>0, <2>2, <2>6, <2>7, <2>8, <2>9, <2>10, AsksKeep
<1>3. CASE CreateLate(q)
  <2>1. UNCHANGED <<run, row>> /\ req[q].pc = "create"
    BY <1>3 DEF CreateLate
  <2>2. PICK y : Goes(q, y, "insert") /\ y.run = req[q].run /\ y.late \in {"no", "asked"}
    BY <1>3, <1>f, CreateLateIs
  <2>3. req[q].run = 0 /\ ReqAs(q, y) /\ y.run = 0
    BY <1>f, <2>1, <2>2 DEF RunlessYet, Goes
  <2>4. \A i : Open(i) => req[q].run # i
    BY <1>f, <2>3
  <2> QED  BY <1>0, <1>r, <2>1, <2>3, <2>4, RowsAlike, AsksKeep DEF NoneOpens
<1>4. CASE Insert(q)
  <2> DEFINE d == req[q].d
             i == IF req[q].late = "no" THEN req[q].run ELSE 0
  <2>1. /\ UNCHANGED run /\ req[q].pc = "insert"
        /\ row' = IF Fresh(d) THEN Inserted(d, i) ELSE row
    BY <1>4 DEF Insert
  <2>2. /\ \A r \in Row : RowMay(r) /\ (row'[r].run = row[r].run \/ row[r].run \in {0})
        /\ \A v \in Worker : Here(v) => row'[at[v].r].run = row[at[v].r].run
    <3>1. d \in Row /\ i \in Nat
      BY <1>f, <2>1
    <3> HIDE DEF d, i
    <3>2. CASE Fresh(d)
      <4>1. Brings({d}, i)
        BY <1>f, <2>1, <3>1, <3>2, InsertedIs
      <4> QED  BY <4>1, BroughtRows
    <3>3. CASE ~Fresh(d)
      BY <2>1, <3>3, RowsAlike
    <3> QED  BY <3>2, <3>3
  <2>3. PICK y : /\ ReqAs(q, y)
                 /\ \/ req[q].run = 0 /\ y.run = 0 /\ y.pc = "over" /\ y.late = "no"
                    \/ y.pc \in {"bind", "adopt"} /\ y.run = req[q].run /\ y.late = req[q].late
    BY <1>4, <1>f, InsertIs DEF IsOver, Goes
  <2>4. \A j : Open(j) => j # 0
    BY <1>f
  <2>5. y.pc \in {"none", "create"} \/ y.late = "asked" => y.run = 0
    BY <1>f, <2>3 DEF RunlessYet
  <2> HIDE DEF d, i
  <2> QED  BY <1>0, <1>r, <2>1, <2>2, <2>3, <2>4, <2>5, AsksKeep DEF NoneOpens
<1>5. CASE Bind(q)
  <2>1. UNCHANGED <<run, row>> /\ req[q].pc = "bind" /\ req[q].d \in Row
    BY <1>5, <1>f DEF Bind
  <2>2. PICK y : /\ ReqAs(q, y)
                 /\ \/ row[req[q].d].run = req[q].run /\ y.run = 0
                    \/ y.pc \in {"orphan", "adopt"} /\ y.run = req[q].run /\ y.late = req[q].late
    BY <1>5, <1>f, BindIs DEF IsOver, Goes
  <2>3. \A i : i = req[q].run /\ row[req[q].d].run = i => OnRow(i)'
    BY <2>1 DEF OnRow
  <2>4. y.pc \in {"none", "create"} \/ y.late = "asked" => y.run = 0
    BY <1>f, <2>1, <2>2 DEF RunlessYet
  <2> QED  BY <1>0, <1>r, <2>1, <2>2, <2>3, <2>4, RowsAlike, AsksKeep DEF NoneOpens
<1>6. CASE Adopt(q)
  <2>1. UNCHANGED run /\ req[q].pc = "adopt" /\ req[q].late # "asked"
    BY <1>6 DEF Adopt
  <2>2. CASE UNCHANGED row /\ \E y : Goes(q, y, "orphan") /\ y.run = req[q].run /\ y.late = req[q].late
    <3>1. PICK y : Goes(q, y, "orphan") /\ y.run = req[q].run /\ y.late = req[q].late
      BY <2>2
    <3> QED  BY <1>0, <1>r, <2>1, <2>2, <3>1, RowsAlike, AsksKeep DEF NoneOpens, Goes
  <2>3. CASE (\E x \in Adopters(q) : row' = [row EXCEPT ![x].run = req[q].run]) /\ \E y : IsOver(q, y)
    <3>1. PICK x \in Row, i \in Nat : /\ i = req[q].run /\ row[x].status = "queued" /\ row[x].run = 0
                                      /\ row' = [row EXCEPT ![x].run = i]
      BY <1>f, <2>1, <2>3 DEF Adopters, SameHead
    <3>2. PICK z : /\ RowAs(x, z) /\ z.run = i /\ z.status = row[x].status
                   /\ SameFlags(row[x], z)
      BY <1>f, <3>1, RowRunIs
    <3>3. row'[x] = z /\ \A r \in Row : r # x => row'[r] = row[r]
      BY <1>f, <3>2, RowBecomes
    <3>4. RowMay(x)
      <4>1. ~row[x].swept /\ ~row[x].told
        BY <3>1, UnflaggedIs
      <4> QED  BY <3>1, <3>2, <3>3, <4>1 DEF RowMay, Anew, SameFlags
    <3>5. \A r \in Row : RowMay(r) /\ (row'[r].run = row[r].run \/ row[r].run \in {0})
      BY <3>1, <3>3, <3>4 DEF RowMay, Steady, SameFlags
    <3>6. \A v \in Worker : Here(v) => row'[at[v].r].run = row[at[v].r].run
      BY <3>1, <3>3, HereIs
    <3>7. \A j : j = req[q].run => OnRow(j)'
      BY <3>1, <3>2, <3>3 DEF OnRow
    <3>8. PICK y : ReqAs(q, y) /\ y.run = 0
      BY <2>3 DEF IsOver
    <3> QED  BY <1>0, <1>r, <2>1, <3>5, <3>6, <3>7, <3>8, AsksKeep DEF NoneOpens
  <2> QED  BY <1>6, <1>f, <2>2, <2>3, AdoptIs
<1>7. CASE CloseOrphan(q)
  <2>1. UNCHANGED row /\ run' = Ended(req[q].run, "cancelled") /\ req' = [req EXCEPT ![q] = Over]
    BY <1>7 DEF CloseOrphan, Refuse, Forgiving, TriedOnce
  <2>2. PICK i \in Nat, e \in {"open"} \cup End : i = req[q].run /\ e # "open" /\ run' = Ended(i, e)
    BY <1>f, <2>1 DEF End
  <2>3. NoneOpens /\ ~Open(i)'
    BY <1>f, <2>2, EndingOpens
  <2>4. PICK y : ReqAs(q, y) /\ y.run = 0
    BY <2>1, OverIs DEF IsOver
  <2>5. \A r \in Row : RowShuts(r)
    BY <2>3, NoneShut
  <2> QED  BY <1>0, <2>1, <2>2, <2>3, <2>4, <2>5, RowsAlike, AsksKeep DEF NoneOpens
<1> QED  BY <1>1, <1>2, <1>3, <1>4, <1>5, <1>6, <1>7 DEF RequestStep

-----------------------------------------------------------------------------
(* The calls nobody makes up for answered, every open run is somebody's.   *)
LEMMA KeptHolds == ASSUME Forgiving PROVE Spec => []Kept
<1>1. Init => Kept
  <2> SUFFICES ASSUME Init PROVE Kept
    OBVIOUS
  <2>1. /\ \A q \in Request : req[q].run = 0
        /\ \A r \in Row : row[r] = NoRow
        /\ reaper = Resting /\ \A s \in Sweeper : sweep[s] = Resting
        /\ \A w \in Worker : at[w] = Idle
        /\ \A i : ~Open(i)
    BY DEF Init, NoReq, Open
  <2>2. RowsSettled
    BY <2>1 DEF RowsSettled, RowSettled, NoRow, NewRow
  <2>3. AttemptsKept
    BY <2>1, IdleFits DEF AttemptsKept, AttemptKept, Here, Working, WorkPc, Point, Idle
  <2>4. HandsTrue /\ RunlessAll /\ AllKnown
    BY <2>1 DEF HandsTrue, TellTrue, SweepTrue, Resting, RunlessAll, RunlessYet, AllKnown
  <2> QED  BY <2>2, <2>3, <2>4 DEF Kept
<1>2. TypeInv /\ Alone /\ Sole /\ Kept /\ [Next]_vars => Kept'
  <2> SUFFICES ASSUME TypeInv, Alone, Sole, Kept, [Next]_vars PROVE Kept'
    OBVIOUS
  <2>1. CASE UNCHANGED vars \/ Push \/ \E r \in Row : Cancel(r) \/ RetryNow(r)
    BY <2>1, CheckConstants, EnvironmentKeeps
  <2>2. ASSUME NEW q \in Request, Receive(q) \/ RequestStep(q) PROVE Kept'
    BY <2>2, CheckConstants, RequestKeepsKept
  <2>3. ASSUME NEW w \in Worker, AttemptStep(w) \/ Stop(w) \/ SettleStep(w) \/ Die(w) PROVE Kept'
    BY <2>3, CheckConstants, AttemptKeepsKept
  <2>4. CASE ReaperStep
    BY <2>4, CheckConstants, ReaperKeepsKept
  <2>5. ASSUME NEW s \in Sweeper, SweepStep(s) PROVE Kept'
    BY <2>5, CheckConstants, SweepKeepsKept
  <2> QED  BY <2>1, <2>2, <2>3, <2>4, <2>5 DEF Next
<1> QED  BY <1>1, <1>2, TypesHold, AloneHolds, SoleHolds, PTL DEF Spec

(* An open Check Run is always somebody's to complete (NoRunForgotten),    *)
(* for any number of rows, requests, attempts and failures, where the      *)
(* calls that nobody makes again succeed and no run is left before it is   *)
(* recorded or attached (Forgiving).                                       *)
THEOREM RunsRemembered == ASSUME Forgiving PROVE Spec => []NoRunForgotten
<1>1. TypeInv /\ Kept => NoRunForgotten
  BY KeptIsEnough
<1> QED  BY <1>1, KeptHolds, TypesHold, PTL
=============================================================================
