-------------------------- MODULE DurableRunProofs --------------------------
(***************************************************************************)
(* A durable run for every set of tasks, every scenario and any number of  *)
(* faults: type correctness, then what an ended task and a pull request's  *)
(* head can no longer lose.  One lemma for each helper, one for each       *)
(* action or group of actions that writes the same variables.              *)
(***************************************************************************)
EXTENDS DurableRun, FiniteSetTheorems, SequenceTheorems, WellFoundedInduction, TLAPS

(* The engine numbers a session's turns by counting them, so the sets it   *)
(* counts must be finite.                                                  *)
FiniteTurns == \A t \in TaskId : IsFiniteSet(bought[t])

TurnOK == TurnTypeOK /\ FiniteTurns

-----------------------------------------------------------------------------
(* Attempts                                                                *)

Slots == [Slot -> Attempt \cup {None}]

LEMMA OnTyped ==
  ASSUME TurnTypeOK, NEW t \in TaskId, NEW x \in Slot, attempt[t][x] # None
  PROVE  attempt[t][x] \in Attempt
  BY DEF TurnTypeOK

LEMMA FirstTyped ==
  ASSUME NEW in \in Input
  PROVE  FirstAttempt(in) \in Attempt
  BY DEF FirstAttempt, Attempt, Pc, NoTurn, At

LEMMA AfterTyped ==
  ASSUME TurnTypeOK, NEW t \in TaskId, NEW slots \in Slots, slots["live"] # None
  PROVE  After(t, slots) \in Slots
<1>1. slots["live"] \in Attempt
  BY DEF Slots, Slot
<1>2. FirstAttempt(slots["live"].in) \in Attempt
  BY <1>1, FirstTyped DEF Attempt
<1>. QED
  BY <1>2 DEF After, Slots, Slot

LEMMA TriesTyped ==
  ASSUME TurnTypeOK, NEW t \in TaskId
  PROVE  (IF tries[t] < ActivityTries THEN tries[t] + 1 ELSE tries[t]) \in 0..ActivityTries
  BY TurnConstants DEF TurnTypeOK

LEMMA FailTyped ==
  ASSUME TurnTypeOK, NEW t \in TaskId, NEW x \in Slot, attempt[t][x] # None, Fail(t, x)
  PROVE  attempt' \in [TaskId -> Slots] /\ tries' \in [TaskId -> 0..ActivityTries]
<1>1. CASE x = "stale"
  <2>1. attempt' = [attempt EXCEPT ![t] = [attempt[t] EXCEPT !["stale"] = None]] /\ tries' = tries
    BY <1>1 DEF Fail
  <2>. QED
    BY <2>1 DEF TurnTypeOK, Slots, Slot
<1>2. CASE x # "stale"
  <2>1. After(t, attempt[t]) \in Slots
    BY <1>2, AfterTyped DEF TurnTypeOK, Slots, Slot
  <2>2. attempt' = [attempt EXCEPT ![t] = After(t, attempt[t])]
    BY <1>2 DEF Fail
  <2>3. tries' = [tries EXCEPT ![t] = IF tries[t] < ActivityTries THEN tries[t] + 1 ELSE tries[t]]
    BY <1>2 DEF Fail
  <2>4. attempt' \in [TaskId -> Slots]
    BY <2>1, <2>2 DEF TurnTypeOK, Slots
  <2>5. tries' \in [TaskId -> 0..ActivityTries]
    BY <2>3, TriesTyped DEF TurnTypeOK
  <2>. QED
    BY <2>4, <2>5
<1>. QED
  BY <1>1, <1>2

LEMMA MoveTyped ==
  ASSUME TurnTypeOK, NEW t \in TaskId, NEW x \in Slot, NEW a \in Attempt, MoveTo(t, x, a)
  PROVE  attempt' \in [TaskId -> Slots] /\ tries' \in [TaskId -> 0..ActivityTries]
  BY DEF MoveTo, TurnTypeOK, Slots

LEMMA SpendTyped ==
  ASSUME TurnTypeOK, NEW f \in Fault, Spend(f)
  PROVE  left' \in [Fault -> Nat]
  BY DEF Spend, TurnTypeOK

-----------------------------------------------------------------------------
(* The ledger and the engine                                               *)

LEMMA LeastNat ==
  ASSUME NEW S \in SUBSET Nat, S # {}
  PROVE  \E i \in S : \A h \in S : i <= h
<1>. DEFINE R == {p \in Nat \X Nat : p[1] < p[2]}
<1>1. IsWellFoundedOn(R, Nat)
  BY NatLessThanWellFounded DEF OpToRel
<1>2. \A x, y \in Nat : <<y, x>> \in R <=> y < x
  OBVIOUS
<1>. HIDE DEF R
<1>3. \E x \in S : \A y \in S : ~(<<y, x>> \in R)
  BY <1>1, WFMin
<1>4. PICK x \in S : \A y \in S : ~(<<y, x>> \in R)
  BY <1>3
<1>5. \A y \in S : ~(y < x) /\ x \in Nat /\ y \in Nat
  BY <1>2, <1>4
<1>6. \A y \in S : x <= y
  BY <1>5
<1>. QED
  BY <1>6

(* The record that a retry adopts is one of the key's records. *)
LEMMA FirstStartIs ==
  ASSUME TurnTypeOK, NEW t \in TaskId, NEW k, Recorded(t, k)
  PROVE  \E i \in Starts(t, k) : FirstStart(t, k) = started[t][i].at
<1>1. Starts(t, k) \in SUBSET Nat /\ Starts(t, k) # {}
  BY DEF TurnTypeOK, Starts, Recorded
<1>2. \E i \in Starts(t, k) : \A h \in Starts(t, k) : i <= h
  BY <1>1, LeastNat
<1>. DEFINE first == CHOOSE i \in Starts(t, k) : \A h \in Starts(t, k) : i <= h
<1>3. first \in Starts(t, k)
  BY <1>2, Zenon
<1>. QED
  BY <1>3 DEF FirstStart

LEMMA FirstStartTyped ==
  ASSUME TurnTypeOK, NEW t \in TaskId, NEW k, Recorded(t, k)
  PROVE  FirstStart(t, k) \in At
<1>1. PICK i \in Starts(t, k) : FirstStart(t, k) = started[t][i].at
  BY FirstStartIs
<1>2. started[t][i] \in StartRecord
  BY ElementOfSeq DEF TurnTypeOK, Starts
<1>. QED
  BY <1>1, <1>2 DEF StartRecord

LEMMA PlaceTyped ==
  ASSUME TurnOK, NEW t \in TaskId, NEW in \in Input
  PROVE  Place(t, in) \in At
<1>1. SessionFor(t, in) \in Nat
  BY DEF SessionFor, Input, TurnOK, TurnTypeOK
<1>2. /\ TurnsOf(t, SessionFor(t, in)) \subseteq bought[t]
      /\ bought[t] \subseteq Turn
  BY DEF TurnsOf, TurnOK, TurnTypeOK
<1>3. Cardinality(TurnsOf(t, SessionFor(t, in))) \in Nat
  BY <1>2, FS_Subset, FS_CardinalityType DEF TurnOK, FiniteTurns
<1>. QED
  BY <1>1, <1>2, <1>3 DEF Place, At, Turn

LEMMA SessionTyped ==
  ASSUME TurnTypeOK, NEW t \in TaskId, NEW in \in Input
  PROVE  SessionFor(t, in) \in Nat
  BY DEF SessionFor, Input, TurnTypeOK

LEMMA OpenTyped ==
  ASSUME TurnTypeOK, NEW t \in TaskId, NEW s \in Nat, OpenSession(t, s)
  PROVE  opened' \in [TaskId -> Nat] /\ held' \in [TaskId -> SUBSET Nat]
  BY DEF OpenSession, TurnTypeOK

LEMMA PostTyped ==
  ASSUME TurnOK, NEW t \in TaskId, NEW in \in Input, Post(t, in)
  PROVE  /\ opened' \in [TaskId -> Nat] /\ held' \in [TaskId -> SUBSET Nat]
         /\ bought' \in [TaskId -> SUBSET Turn] /\ FiniteTurns'
<1>1. Place(t, in) \in At /\ Place(t, in).session \in Nat
  BY PlaceTyped DEF At
<1>2. opened' \in [TaskId -> Nat] /\ held' \in [TaskId -> SUBSET Nat]
  BY <1>1, OpenTyped DEF Post, TurnOK
<1>. DEFINE u == [at |-> Place(t, in), key |-> in.seq + 1, how |-> "running", usage |-> 0]
<1>3. u \in Turn
  BY <1>1 DEF Turn, Input
<1>4. bought' = bought \/ bought' = [bought EXCEPT ![t] = bought[t] \cup {u}]
  BY DEF Post
<1>. HIDE DEF u
<1>5. bought' \in [TaskId -> SUBSET Turn]
  <2>1. bought \in [TaskId -> SUBSET Turn]
    BY DEF TurnOK, TurnTypeOK
  <2>2. bought[t] \cup {u} \subseteq Turn
    BY <1>3, <2>1
  <2>. QED
    BY <1>4, <2>1, <2>2
<1>6. IsFiniteSet(bought[t] \cup {u})
  BY FS_AddElement DEF TurnOK, FiniteTurns
<1>7. \A s \in TaskId : bought'[s] = bought[s] \/ bought'[s] = bought[t] \cup {u}
  BY <1>4 DEF TurnOK, TurnTypeOK
<1>8. FiniteTurns'
  BY <1>6, <1>7 DEF FiniteTurns, TurnOK
<1>. QED
  BY <1>2, <1>5, <1>8

LEMMA EndsTyped ==
  ASSUME TurnOK, NEW t \in TaskId, NEW u \in bought[t], NEW how \in TurnEnd, NEW cost \in Nat,
         EndsAs(t, u, how, cost)
  PROVE  /\ bought' \in [TaskId -> SUBSET Turn] /\ FiniteTurns'
         /\ \E w \in Turn : /\ w.at = u.at /\ w.key = u.key /\ w.how = how
                            /\ bought' = [bought EXCEPT ![t] = (bought[t] \ {u}) \cup {w}]
<1>. u \in Turn /\ bought[t] \subseteq Turn
  BY DEF TurnOK, TurnTypeOK
<1>1. PICK used \in {0} \cup {v.usage : v \in TurnsOf(t, u.at.session)} :
        bought' = [bought EXCEPT ![t] =
                     (bought[t] \ {u}) \cup {[u EXCEPT !.how = how, !.usage = used + cost]}]
  BY DEF EndsAs
<1>2. used + cost \in Nat
  BY <1>1 DEF TurnsOf, Turn
<1>. DEFINE sum == used + cost
            w == [u EXCEPT !.how = how, !.usage = sum]
<1>3. sum \in Nat
  BY <1>2
<1>. HIDE DEF sum
<1>4. w \in Turn /\ w.at = u.at /\ w.key = u.key /\ w.how = how
  BY <1>3 DEF Turn
<1>. HIDE DEF w
<1>5. bought' = [bought EXCEPT ![t] = (bought[t] \ {u}) \cup {w}]
  BY <1>1 DEF w, sum
<1>6. bought' \in [TaskId -> SUBSET Turn]
  BY <1>4, <1>5 DEF TurnOK, TurnTypeOK
<1>7. IsFiniteSet((bought[t] \ {u}) \cup {w})
  BY FS_AddElement, FS_RemoveElement DEF FiniteTurns, TurnOK
<1>8. \A s \in TaskId : bought'[s] = bought[s] \/ bought'[s] = (bought[t] \ {u}) \cup {w}
  BY <1>5 DEF TurnOK, TurnTypeOK
<1>9. FiniteTurns'
  BY <1>7, <1>8 DEF FiniteTurns, TurnOK
<1>. QED
  BY <1>4, <1>5, <1>6, <1>9

-----------------------------------------------------------------------------
(* The actions of a turn                                                   *)

LEMMA ScanTyped ==
  ASSUME TurnOK, NEW t \in TaskId, NEW x \in Slot,
         ScanFinished(t, x) \/ ScanInFlight(t, x) \/ ScanUnbought(t, x)
  PROVE  TurnOK'
<1>. DEFINE a == attempt[t][x]
<1>. USE DEF TurnOK
<1>1. attempt[t][x] # None /\ a \in Attempt
  BY OnTyped DEF ScanFinished, ScanInFlight, ScanUnbought, On
<1>. HIDE DEF a
<1>2. attempt' \in [TaskId -> Slots] /\ tries' \in [TaskId -> 0..ActivityTries]
  <2>1. CASE ScanFinished(t, x)
    <3>1. Recorded(t, Key(a)) /\ FirstStart(t, Key(a)) \in At
      BY <2>1, FirstStartTyped DEF ScanFinished, a
    <3>2. PICK f \in Completions(t, FirstStart(t, Key(a))) :
            MoveTo(t, x, [a EXCEPT !.pc = "return", !.at = FirstStart(t, Key(a)), !.cost = f.cost,
                                   !.ask = f.ask, !.resumed = TRUE])
      BY <2>1 DEF ScanFinished, a
    <3>3. f \in FinishRecord
      BY DEF Completions, TurnTypeOK
    <3>4. [a EXCEPT !.pc = "return", !.at = FirstStart(t, Key(a)), !.cost = f.cost,
                    !.ask = f.ask, !.resumed = TRUE] \in Attempt
      BY <1>1, <3>1, <3>3 DEF Attempt, Pc, FinishRecord
    <3>. QED
      BY <3>2, <3>4, MoveTyped
  <2>2. CASE ScanInFlight(t, x)
    <3>1. Recorded(t, Key(a)) /\ FirstStart(t, Key(a)) \in At
      BY <2>2, FirstStartTyped DEF ScanInFlight, a
    <3>2. \/ MoveTo(t, x, [a EXCEPT !.pc = "stream", !.at = FirstStart(t, Key(a)),
                                    !.resumed = TRUE])
          \/ Fail(t, x)
      BY <2>2 DEF ScanInFlight, a
    <3>3. [a EXCEPT !.pc = "stream", !.at = FirstStart(t, Key(a)), !.resumed = TRUE] \in Attempt
      BY <1>1, <3>1 DEF Attempt, Pc
    <3>. QED
      BY <1>1, <3>2, <3>3, MoveTyped, FailTyped
  <2>3. CASE ScanUnbought(t, x)
    <3>1. [a EXCEPT !.pc = "post"] \in Attempt
      BY <1>1 DEF Attempt, Pc
    <3>. QED
      BY <2>3, <3>1, MoveTyped DEF ScanUnbought, a
  <2>. QED
    BY <2>1, <2>2, <2>3
<1>3. UNCHANGED <<engine, ledger, exposed, left>>
  BY DEF ScanFinished, ScanInFlight, ScanUnbought
<1>. QED
  BY <1>2, <1>3 DEF TurnTypeOK, FiniteTurns, Slots, engine, ledger

LEMMA BuyTyped ==
  ASSUME TurnOK, NEW t \in TaskId, NEW x \in Slot,
         Buy(t, x) \/ BuyUnanswered(t, x) \/ BuyRefused(t, x)
  PROVE  TurnOK'
<1>. USE DEF TurnOK
<1>1. attempt[t][x] # None /\ attempt[t][x] \in Attempt
  BY OnTyped DEF Buy, BuyUnanswered, BuyRefused, On
<1>2. attempt[t][x].in \in Input /\ Key(attempt[t][x]) \in Nat
  BY <1>1 DEF Attempt, Input, Key
<1>3. CASE Buy(t, x)
  <2>1. Post(t, attempt[t][x].in)
    BY <1>3 DEF Buy
  <2>2. [attempt[t][x] EXCEPT !.pc = "record", !.at = Place(t, attempt[t][x].in)] \in Attempt
    BY <1>1, <1>2, PlaceTyped DEF Attempt, Pc
  <2>3. attempt' \in [TaskId -> Slots] /\ tries' \in [TaskId -> 0..ActivityTries]
    BY <1>3, <2>2, MoveTyped DEF Buy
  <2>. QED
    BY <1>2, <1>3, <2>1, <2>3, PostTyped DEF Buy, TurnTypeOK, Slots, ledger
<1>4. CASE BuyUnanswered(t, x)
  <2>1. /\ opened' \in [TaskId -> Nat] /\ held' \in [TaskId -> SUBSET Nat]
        /\ bought' \in [TaskId -> SUBSET Turn] /\ FiniteTurns'
    BY <1>2, <1>4, PostTyped DEF BuyUnanswered
  <2>2. attempt' \in [TaskId -> Slots] /\ tries' \in [TaskId -> 0..ActivityTries]
    BY <1>1, <1>4, FailTyped DEF BuyUnanswered
  <2>3. left' \in [Fault -> Nat] /\ exposed' \in [TaskId -> SUBSET Nat]
    BY <1>2, <1>4, SpendTyped DEF BuyUnanswered, TurnTypeOK, Fault
  <2>. QED
    BY <1>4, <2>1, <2>2, <2>3 DEF BuyUnanswered, TurnTypeOK, Slots, ledger
<1>5. CASE BuyRefused(t, x)
  <2>1. attempt' \in [TaskId -> Slots] /\ tries' \in [TaskId -> 0..ActivityTries]
    BY <1>1, <1>5, FailTyped DEF BuyRefused
  <2>2. left' \in [Fault -> Nat]
    BY <1>5, SpendTyped DEF BuyRefused, Fault
  <2>3. opened' \in [TaskId -> Nat] /\ held' \in [TaskId -> SUBSET Nat]
    BY <1>2, <1>5, SessionTyped, OpenTyped DEF BuyRefused, TurnTypeOK
  <2>. QED
    BY <1>5, <2>1, <2>2, <2>3 DEF BuyRefused, TurnTypeOK, FiniteTurns, Slots, ledger
<1>. QED
  BY <1>3, <1>4, <1>5

LEMMA RecordTyped ==
  ASSUME TurnOK, NEW t \in TaskId, NEW x \in Slot, RecordStart(t, x) \/ RecordFinish(t, x)
  PROVE  TurnOK'
<1>. USE DEF TurnOK
<1>1. attempt[t][x] # None /\ attempt[t][x] \in Attempt
  BY OnTyped DEF RecordStart, RecordFinish, On
<1>2. CASE RecordStart(t, x)
  <2>1. [key |-> Key(attempt[t][x]), at |-> attempt[t][x].at] \in StartRecord
    BY <1>1 DEF StartRecord, Attempt, Input, Key
  <2>2. started' \in [TaskId -> Seq(StartRecord)]
    <3>1. Append(started[t], [key |-> Key(attempt[t][x]), at |-> attempt[t][x].at])
            \in Seq(StartRecord)
      BY <2>1, AppendProperties DEF TurnTypeOK
    <3>. QED
      BY <1>2, <3>1 DEF RecordStart, TurnTypeOK
  <2>3. [attempt[t][x] EXCEPT !.pc = "stream"] \in Attempt
    BY <1>1 DEF Attempt, Pc
  <2>4. attempt' \in [TaskId -> Slots] /\ tries' \in [TaskId -> 0..ActivityTries]
    BY <1>2, <2>3, MoveTyped DEF RecordStart
  <2>. QED
    BY <1>2, <2>2, <2>4 DEF RecordStart, TurnTypeOK, FiniteTurns, Slots, engine
<1>3. CASE RecordFinish(t, x)
  <2>1. [at |-> attempt[t][x].at, cost |-> attempt[t][x].cost, ask |-> attempt[t][x].ask]
          \in FinishRecord
    BY <1>1 DEF FinishRecord, Attempt
  <2>2. finished' \in [TaskId -> SUBSET FinishRecord]
    BY <1>3, <2>1 DEF RecordFinish, TurnTypeOK
  <2>3. [attempt[t][x] EXCEPT !.pc = "return"] \in Attempt
    BY <1>1 DEF Attempt, Pc
  <2>4. attempt' \in [TaskId -> Slots] /\ tries' \in [TaskId -> 0..ActivityTries]
    BY <1>3, <2>3, MoveTyped DEF RecordFinish
  <2>. QED
    BY <1>3, <2>2, <2>4 DEF RecordFinish, TurnTypeOK, FiniteTurns, Slots, engine
<1>. QED
  BY <1>2, <1>3

LEMMA SpendIs ==
  ASSUME NEW u \in Turn, NEW in \in Input
  PROVE  SpendFromEvent(u, in) \in Nat
  BY DEF SpendFromEvent, Turn, Input

LEMMA StreamTyped ==
  ASSUME TurnOK, NEW t \in TaskId, NEW x \in Slot, NEW cost \in Nat,
         ReadEnd(t, x) \/ StreamLost(t, x) \/ Aborts(t, x, cost)
  PROVE  TurnOK'
<1>. USE DEF TurnOK
<1>1. attempt[t][x] # None /\ attempt[t][x] \in Attempt
  BY OnTyped DEF ReadEnd, StreamLost, Aborts, On
<1>2. CASE ReadEnd(t, x)
  <2>1. logged' \in [TaskId -> SUBSET At]
    BY <1>1, <1>2 DEF ReadEnd, TurnTypeOK, Attempt
  <2>. DEFINE a == attempt[t][x]
              b(u) == [a EXCEPT !.pc = "finish", !.cost = SpendFromEvent(u, a.in),
                                !.ask = (u.how = "ask")]
  <2>2. PICK u \in bought[t] : MoveTo(t, x, b(u)) \/ Fail(t, x)
    BY <1>2 DEF ReadEnd
  <2>3. u \in Turn /\ a.in \in Input
    BY <1>1 DEF TurnTypeOK, Attempt
  <2>4. SpendFromEvent(u, a.in) \in Nat
    BY <2>3, SpendIs
  <2>5. b(u) \in Attempt
    BY <1>1, <2>4 DEF Attempt, Pc
  <2>6. attempt' \in [TaskId -> Slots] /\ tries' \in [TaskId -> 0..ActivityTries]
    BY <1>1, <2>2, <2>5, MoveTyped, FailTyped
  <2>. QED
    BY <1>2, <2>1, <2>6 DEF ReadEnd, TurnTypeOK, FiniteTurns, Slots, engine
<1>3. CASE StreamLost(t, x)
  BY <1>1, <1>3, FailTyped DEF StreamLost, TurnTypeOK, FiniteTurns, Slots, engine, ledger
<1>4. CASE Aborts(t, x, cost)
  <2>1. PICK u \in bought[t] : EndsAs(t, u, "aborted", cost)
    BY <1>4 DEF Aborts
  <2>2. bought' \in [TaskId -> SUBSET Turn] /\ FiniteTurns'
    BY <2>1, EndsTyped DEF TurnEnd
  <2>3. attempt' \in [TaskId -> Slots]
    BY <1>4 DEF Aborts, TurnTypeOK, Slots
  <2>. QED
    BY <1>4, <2>2, <2>3 DEF Aborts, TurnTypeOK, Slots, ledger
<1>. QED
  BY <1>2, <1>3, <1>4

LEMMA EngineTyped ==
  ASSUME TurnOK,
         \/ EngineRestart
         \/ \E t \in TaskId, cost \in Nat :
              \E u \in bought[t], how \in TurnEnd \ {"aborted"} : TurnEnds(t, u, how, cost)
  PROVE  TurnOK'
<1>. USE DEF TurnOK
<1>1. CASE EngineRestart
  <2>1. left' \in [Fault -> Nat]
    BY <1>1, SpendTyped DEF EngineRestart, Fault
  <2>. QED
    BY <1>1, <2>1 DEF EngineRestart, TurnTypeOK, FiniteTurns, ledger
<1>2. ASSUME NEW t \in TaskId, NEW cost \in Nat, NEW u \in bought[t], NEW how \in TurnEnd,
             TurnEnds(t, u, how, cost)
      PROVE  TurnOK'
  BY <1>2, EndsTyped DEF TurnEnds, TurnTypeOK, ledger
<1>. QED
  BY <1>1, <1>2

LEMMA CrashTyped == TurnOK /\ WorkerCrash => TurnOK'
<1>. SUFFICES ASSUME TurnOK, WorkerCrash PROVE TurnOK'
  OBVIOUS
<1>. USE DEF TurnOK
<1>1. left' \in [Fault -> Nat]
  BY SpendTyped DEF WorkerCrash, Fault
<1>2. attempt' \in [TaskId -> Slots]
  <2>. SUFFICES ASSUME NEW t \in TaskId
       PROVE  [x \in Slot |-> IF x = "live" /\ attempt[t][x] # None
                             THEN After(t, attempt[t])[x] ELSE None] \in Slots
    BY DEF WorkerCrash
  <2>1. attempt[t] \in Slots
    BY DEF TurnTypeOK, Slots
  <2>2. attempt[t]["live"] # None => After(t, attempt[t]) \in Slots
    BY <2>1, AfterTyped
  <2>. QED
    BY <2>2 DEF Slots
<1>3. tries' \in [TaskId -> 0..ActivityTries]
  BY TurnConstants DEF WorkerCrash, TurnTypeOK
<1>4. exposed' \in [TaskId -> SUBSET Nat]
  <2>. SUFFICES ASSUME NEW t \in TaskId, NEW x \in Slot, On(t, x, "record")
       PROVE  Key(attempt[t][x]) \in Nat
    BY DEF WorkerCrash, TurnTypeOK
  <2>. QED
    BY OnTyped DEF On, Key, Attempt, Input
<1>. QED
  BY <1>1, <1>2, <1>3, <1>4 DEF WorkerCrash, TurnTypeOK, FiniteTurns, Slots, engine, ledger

LEMMA StallTyped ==
  ASSUME TurnOK, NEW t \in TaskId, Stall(t)
  PROVE  TurnOK'
<1>. USE DEF TurnOK
<1>1. left' \in [Fault -> Nat]
  BY SpendTyped DEF Stall, Fault
<1>2. attempt[t]["live"] \in Attempt /\ attempt[t] \in Slots /\ attempt[t]["live"] # None
  BY OnTyped DEF Stall, Slot, TurnTypeOK, Slots
<1>3. [After(t, attempt[t]) EXCEPT !["stale"] = attempt[t]["live"]] \in Slots
  BY <1>2, AfterTyped DEF Slots
<1>4. attempt' \in [TaskId -> Slots]
  BY <1>3 DEF Stall, TurnTypeOK, Slots
<1>5. tries' \in [TaskId -> 0..ActivityTries]
  BY TriesTyped DEF Stall, TurnTypeOK
<1>6. Key(attempt[t]["live"]) \in Nat
  BY <1>2 DEF Key, Attempt, Input
<1>7. exposed' \in [TaskId -> SUBSET Nat]
  BY <1>6 DEF Stall, TurnTypeOK
<1>. QED
  BY <1>1, <1>4, <1>5, <1>7 DEF Stall, TurnTypeOK, FiniteTurns, Slots, engine, ledger

LEMMA HandoverTyped ==
  ASSUME TurnOK, NEW t \in TaskId,
         StaleReturns(t) \/ Regressed(t) \/ TurnReturns(t)
           \/ \E in \in Input : ScheduleTurn(t, in)
  PROVE  TurnOK'
<1>. USE DEF TurnOK
<1>1. CASE StaleReturns(t)
  BY <1>1, FailTyped DEF StaleReturns, On, Slot, TurnTypeOK, FiniteTurns, Slots, engine, ledger
<1>2. CASE Regressed(t)
  BY <1>2, FailTyped DEF Regressed, On, Slot, TurnTypeOK, FiniteTurns, Slots, engine, ledger
<1>3. CASE TurnReturns(t)
  <2>1. attempt' \in [TaskId -> Slots]
    BY <1>3 DEF TurnReturns, TurnTypeOK, Slots
  <2>. QED
    BY <1>3, <2>1 DEF TurnReturns, TurnTypeOK, FiniteTurns, Slots, engine, ledger
<1>4. ASSUME NEW in \in Input, ScheduleTurn(t, in)
      PROVE  TurnOK'
  <2>1. attempt' \in [TaskId -> Slots]
    BY <1>4, FirstTyped DEF ScheduleTurn, TurnTypeOK, Slots
  <2>2. tries' \in [TaskId -> 0..ActivityTries]
    BY <1>4, TurnConstants DEF ScheduleTurn, TurnTypeOK
  <2>. QED
    BY <1>4, <2>1, <2>2 DEF ScheduleTurn, TurnTypeOK, FiniteTurns, Slots, engine, ledger
<1>. QED
  BY <1>1, <1>2, <1>3, <1>4

-----------------------------------------------------------------------------
(* The walk of a task                                                      *)

TasksOK == task \in [TaskId -> TaskType]
GithubOK ==
  /\ pull \in [Branch -> PrHead \cup {None}]
  /\ checks \in [Branch -> {"none", "pending", "green", "red", "infrastructure"}]

LEMMA BecomeTyped ==
  ASSUME TasksOK, NEW t \in TaskId, NEW s \in TaskType, Become(t, s)
  PROVE  TasksOK'
  BY DEF TasksOK, Become

LEMMA NodeTyped ==
  ASSUME NEW s \in TaskType, NEW n \in Node
  PROVE  [s EXCEPT !.node = n] \in TaskType
  BY DEF TaskType

LEMMA RoutersTyped ==
  ASSUME NEW s \in TaskType
  PROVE  AfterPlan(s) \in Node /\ AfterVerify(s) \in Node /\ AfterReview(s) \in Node
  BY DEF AfterPlan, AfterVerify, AfterReview, AgainOrPark, Node, Paid, Unpaid

LEMMA AfterTurnTyped ==
  ASSUME NEW s \in TaskType, NEW a \in Attempt
  PROVE  /\ AfterTurn(s, a) \in TaskType
         /\ AfterPlanTurn(s, a) \in TaskType /\ AfterImplementTurn(s, a) \in TaskType
<1>. DEFINE asked == s.ask \/ a.ask
            clear == ~a.ask
            u == AfterTurn(s, a)
            done == [u EXCEPT !.plans = u.plans + 1, !.planned = clear]
            more == [u EXCEPT !.implements = u.implements + 1]
<1>1. /\ asked \in BOOLEAN /\ clear \in BOOLEAN
      /\ a.cost \in Nat /\ a.at.n \in Nat /\ a.at.session \in Nat
  BY DEF Attempt, At, TaskType
<1>2. /\ AfterPlanTurn(s, a) = [done EXCEPT !.node = AfterPlan(done)]
      /\ AfterImplementTurn(s, a) = [more EXCEPT !.node = "checkpoint"]
  BY Zenon DEF AfterPlanTurn, AfterImplementTurn
<1>3. u \in TaskType
  <2>1. s.seq + 1 \in Nat /\ s.spent + a.cost \in Nat /\ s.cost + a.cost \in Nat
    BY <1>1 DEF TaskType
  <2>. DEFINE v == [s EXCEPT !.busy = FALSE, !.last = a.at.n, !.seq = s.seq + 1]
              w == [v EXCEPT !.session = a.at.session, !.spent = s.spent + a.cost]
  <2>2. v \in TaskType
    BY <1>1, <2>1 DEF TaskType
  <2>3. u = [w EXCEPT !.cost = s.cost + a.cost, !.ask = asked]
    BY Zenon DEF AfterTurn
  <2>. HIDE DEF asked, clear, u, v
  <2>4. w \in TaskType
    BY <1>1, <2>1, <2>2 DEF TaskType
  <2>. HIDE DEF w
  <2>. QED
    BY <1>1, <2>1, <2>3, <2>4 DEF TaskType
<1>. HIDE DEF asked, clear, u
<1>4. done \in TaskType
  <2>1. u.plans + 1 \in Nat
    BY <1>3 DEF TaskType
  <2>. QED
    BY <1>1, <1>3, <2>1 DEF TaskType
<1>5. more \in TaskType
  <2>1. u.implements + 1 \in Nat
    BY <1>3 DEF TaskType
  <2>. QED
    BY <1>3, <2>1 DEF TaskType
<1>. HIDE DEF done, more
<1>6. [done EXCEPT !.node = AfterPlan(done)] \in TaskType
  BY <1>4, NodeTyped, RoutersTyped
<1>7. [more EXCEPT !.node = "checkpoint"] \in TaskType
  BY <1>5, NodeTyped DEF Node, Unpaid
<1>. QED
  BY <1>2, <1>3, <1>6, <1>7 DEF u

LEMMA NewTaskTyped ==
  ASSUME NEW budget \in Nat
  PROVE  NewTask(budget) \in TaskType
  BY WalkConstants DEF NewTask, Off, TaskType, Node, Paid, Outcome

(* What a task's own action writes is typed, whichever action it is. *)
LEMMA TaskStepTyped ==
  ASSUME TurnOK, TasksOK, NEW t \in TaskId, TaskStep(t) \/ TaskFault(t)
  PROVE  TasksOK'
<1>. DEFINE s == task[t]
<1>1. s \in TaskType
  BY DEF TasksOK
<1>. HIDE DEF s
<1>2. CASE StopHere(t) \/ BeginTurn(t)
  <2>1. /\ [s EXCEPT !.node = "done", !.outcome = "stopped"] \in TaskType
        /\ [s EXCEPT !.busy = TRUE] \in TaskType
    BY <1>1 DEF TaskType, Node, Ended, Outcome
  <2>. QED
    BY <1>2, <2>1, BecomeTyped DEF StopHere, BeginTurn, s
<1>3. CASE EndTurn(t)
  <2>1. attempt[t]["live"] \in Attempt
    BY <1>3, OnTyped DEF EndTurn, TurnReturns, On, Slot, TurnOK
  <2>2. \/ Become(t, AfterPlanTurn(s, attempt[t]["live"]))
        \/ Become(t, AfterImplementTurn(s, attempt[t]["live"]))
    BY <1>3 DEF EndTurn, s
  <2>. QED
    BY <1>1, <2>1, <2>2, AfterTurnTyped, BecomeTyped
<1>4. CASE TurnGivenUp(t) \/ StepFails(t) \/ Park(t)
  <2>1. /\ [s EXCEPT !.node = "failed"] \in TaskType
        /\ [s EXCEPT !.node = "parked", !.decision = "none"] \in TaskType
    BY <1>1 DEF TaskType, Node, Ended
  <2>. QED
    BY <1>4, <2>1, BecomeTyped DEF TurnGivenUp, StepFails, Park, s
<1>5. CASE Checkpoint(t)
  <2>1. [s EXCEPT !.checkpoint = s.seq, !.node = "verify"] \in TaskType
    BY <1>1 DEF TaskType, Node, Unpaid
  <2>. QED
    BY <1>5, <2>1, BecomeTyped DEF Checkpoint, s
<1>6. CASE Verify(t)
  <2>1. ASSUME NEW p \in BOOLEAN
        PROVE  [s EXCEPT !.passed = IF p THEN s.seq ELSE 0] \in TaskType
    BY <1>1 DEF TaskType
  <2>. QED
    BY <1>6, <2>1, RoutersTyped, NodeTyped, BecomeTyped DEF Verify, s
<1>7. CASE Review(t)
  <2>1. ASSUME NEW p \in BOOLEAN
        PROVE  [s EXCEPT !.approved = IF p THEN s.seq ELSE 0] \in TaskType
    BY <1>1 DEF TaskType
  <2>. QED
    BY <1>7, <2>1, RoutersTyped, NodeTyped, BecomeTyped DEF Review, s
<1>8. CASE OpenPr(t) \/ OpenPrAgain(t)
  <2>1. [s EXCEPT !.pr = TRUE, !.node = "wait_for_human"] \in TaskType
    BY <1>1 DEF TaskType, Node
  <2>. QED
    BY <1>8, <2>1, BecomeTyped DEF OpenPr, OpenPrAgain, s, TasksOK
<1>9. CASE Unpark(t)
  <2>1. ASSUME NEW o \in Outcome
        PROVE  [s EXCEPT !.node = "done", !.outcome = o] \in TaskType
    BY <1>1 DEF TaskType, Node, Ended
  <2>. QED
    BY <1>9, <2>1, BecomeTyped DEF Unpark, Outcome, s
<1>10. CASE PauseTask(t) \/ StopTask(t)
  <2>1. /\ [s EXCEPT !.paused = TRUE] \in TaskType
        /\ [s EXCEPT !.stopped = TRUE, !.paused = FALSE] \in TaskType
    BY <1>1 DEF TaskType
  <2>. QED
    BY <1>10, <2>1, BecomeTyped DEF PauseTask, StopTask, s
<1>. QED
  BY <1>2, <1>3, <1>4, <1>5, <1>6, <1>7, <1>8, <1>9, <1>10 DEF TaskStep, TaskFault

(* It hands the turn on, spends a fault, or leaves the turns alone. *)
LEMMA TaskStepTurns ==
  ASSUME TurnOK, TasksOK, NEW t \in TaskId, TaskStep(t) \/ TaskFault(t)
  PROVE  TurnOK'
<1>1. CASE BeginTurn(t)
  <2>1. InputOf(task[t]) \in Input
    BY DEF InputOf, Input, TasksOK, TaskType
  <2>. QED
    BY <1>1, <2>1, HandoverTyped DEF BeginTurn
<1>2. CASE EndTurn(t)
  BY <1>2, HandoverTyped DEF EndTurn
<1>3. CASE OpenPrAgain(t) \/ StepFails(t) \/ PauseTask(t) \/ StopTask(t)
  <2>1. left' \in [Fault -> Nat]
    BY <1>3, SpendTyped DEF OpenPrAgain, StepFails, PauseTask, StopTask, Fault, TurnOK
  <2>2. UNCHANGED <<engine, ledger, attempt, tries, exposed>>
    BY <1>3 DEF OpenPrAgain, StepFails, PauseTask, StopTask
  <2>. QED
    BY <2>1, <2>2 DEF TurnOK, TurnTypeOK, FiniteTurns, engine, ledger
<1>4. CASE UNCHANGED turnVars
  BY <1>4 DEF TurnOK, TurnTypeOK, FiniteTurns, turnVars, engine, ledger
<1>. QED
  BY <1>1, <1>2, <1>3, <1>4
     DEF TaskStep, TaskFault, StopHere, TurnGivenUp, Checkpoint, Verify, Review, OpenPr, Park, Unpark

LEMMA TaskStepGithub ==
  ASSUME TasksOK, GithubOK, NEW t \in TaskId, TaskStep(t) \/ TaskFault(t)
  PROVE  GithubOK'
<1>1. CASE Push(t)
  <2>1. BranchOf[t] \in Branch /\ [by |-> t, turn |-> task[t].checkpoint] \in PrHead
    BY WalkConstants DEF PrHead, TasksOK, TaskType
  <2>. QED
    BY <1>1, <2>1 DEF Push, GithubOK, github
<1>2. CASE UNCHANGED github
  BY <1>2 DEF GithubOK, github
<1>. QED
  BY <1>1, <1>2
     DEF TaskStep, TaskFault, StopHere, BeginTurn, EndTurn, TurnGivenUp, Checkpoint, Verify, Review,
         OpenPr, Park, Unpark, OpenPrAgain, StepFails, PauseTask, StopTask

LEMMA OutsideTyped ==
  ASSUME TurnOK, TasksOK, GithubOK, Outside
  PROVE  TurnOK' /\ TasksOK' /\ GithubOK'
<1>1. ASSUME NEW t \in TaskId, ResumeTask(t) \/ \E d \in {"approve", "reject"} : Decide(t, d)
      PROVE  TasksOK'
  <2>. DEFINE s == task[t]
  <2>1. s \in TaskType
    BY DEF TasksOK
  <2>. HIDE DEF s
  <2>2. ASSUME NEW d \in {"approve", "reject"}
        PROVE  [s EXCEPT !.paused = FALSE] \in TaskType /\ [s EXCEPT !.decision = d] \in TaskType
    BY <2>1 DEF TaskType
  <2>. QED
    BY <1>1, <2>1, <2>2, BecomeTyped DEF ResumeTask, Decide, s
<1>2. ASSUME NEW b \in Branch, NEW r \in {"green", "red", "infrastructure"}, CiReports(b, r)
      PROVE  TasksOK' /\ GithubOK'
  BY <1>2 DEF CiReports, GithubOK, TasksOK
<1>3. UNCHANGED turnVars
  BY DEF Outside, ResumeTask, Decide, CiReports
<1>4. TurnOK'
  BY <1>3 DEF TurnOK, TurnTypeOK, FiniteTurns, turnVars, engine, ledger
<1>. QED
  BY <1>1, <1>2, <1>4 DEF Outside, ResumeTask, Decide, GithubOK, github
-----------------------------------------------------------------------------
(* The run                                                                 *)

Tasks == {scenario.tasks[i] : i \in DOMAIN scenario.tasks}
Pending == {run.pending[i] : i \in DOMAIN run.pending}

(* What the run's control point says of the children it waits for; in goal *)
(* mode the CI gate is reached with none of them pending.                  *)
RunShape ==
  /\ run.todo \subseteq DOMAIN scenario.tasks
  /\ run.at = "fill" => run.todo # {} \/ run.pending # <<>>
  /\ run.at = "waiting" => run.pending # <<>>
  /\ run.at \in {"boundary", "fill", "waiting"} => Pending \subseteq Tasks
  /\ scenario.window = 1 => Len(run.pending) <= 1 /\ (run.at = "boundary" => run.pending = <<>>)
  /\ run.at \in {"gate", "fixing"} => Goal /\ run.of \in Tasks /\ run.child \in TaskId
  /\ run.at = "gate" => run.pending = <<>>
  /\ run.at = "fixing" => /\ run.ciTried \in DOMAIN FixOf[run.of]
                          /\ run.pending = <<FixOf[run.of][run.ciTried]>>

RunOK == run \in RunType /\ scenario \in Scenarios /\ RunShape

LEMMA ScenarioTyped ==
  ASSUME RunOK
  PROVE  /\ scenario.tasks \in Seq(TaskId) /\ Tasks \subseteq TaskId
         /\ scenario.window \in Nat \ {0} /\ scenario.cap \in Nat /\ scenario.maxCi \in Nat
         /\ Goal \in BOOLEAN /\ scenario.maxTasks \in Nat /\ scenario.renew \in Nat \ {0}
         /\ scenario.price \subseteq Nat
         /\ Goal => /\ scenario.window = 1
                    /\ \A u \in Tasks : scenario.maxCi <= Len(FixOf[u])
         /\ \A i, j \in DOMAIN scenario.tasks : scenario.tasks[i] = scenario.tasks[j] => i = j
         /\ \A u \in Tasks, t \in TaskId : \A j \in DOMAIN FixOf[t] : u # FixOf[t][j]
<1>1. scenario \in Scenarios /\ scenario \in Scenario
  BY RunConstants DEF RunOK
<1>2. /\ scenario.tasks \in Seq(TaskId) /\ scenario.window \in Nat \ {0} /\ scenario.cap \in Nat
      /\ scenario.maxCi \in Nat /\ scenario.goal \in BOOLEAN /\ scenario.maxTasks \in Nat
      /\ scenario.renew \in Nat \ {0} /\ scenario.price \subseteq Nat
  BY <1>1 DEF Scenario
<1>3. Tasks \subseteq TaskId
  BY <1>2, ElementOfSeq DEF Tasks
<1>4. /\ scenario.goal => scenario.window = 1
      /\ scenario.goal => \A i \in DOMAIN scenario.tasks : Len(FixOf[scenario.tasks[i]]) >= scenario.maxCi
      /\ \A i, j \in DOMAIN scenario.tasks : scenario.tasks[i] = scenario.tasks[j] => i = j
      /\ \A i \in DOMAIN scenario.tasks, t \in TaskId :
           \A j \in DOMAIN FixOf[t] : scenario.tasks[i] # FixOf[t][j]
  BY <1>1, RunConstants
<1>5. \A u \in TaskId : Len(FixOf[u]) \in Nat
  BY RunConstants, LenProperties
<1>6. Goal => \A u \in Tasks : scenario.maxCi <= Len(FixOf[u])
  BY <1>2, <1>3, <1>4, <1>5 DEF Goal, Tasks
<1>7. \A u \in Tasks, t \in TaskId : \A j \in DOMAIN FixOf[t] : u # FixOf[t][j]
  BY <1>4 DEF Tasks
<1>. QED
  BY <1>2, <1>3, <1>4, <1>6, <1>7 DEF Goal

LEMMA FinishTyped ==
  ASSUME TurnOK, TasksOK, GithubOK, RunOK, NEW o \in RunOutcome, Finish(o)
  PROVE  TurnOK' /\ TasksOK' /\ GithubOK' /\ RunOK'
<1>1. TasksOK'
  <2>1. \A t \in TaskId : [task[t] EXCEPT !.node = "terminated"] \in TaskType
    BY NodeTyped DEF TasksOK, Node, Ended
  <2>. QED
    BY <2>1 DEF Finish, TasksOK
<1>2. run' \in RunType
  <2>1. run \in RunType /\ <<>> \in Seq(TaskId)
    BY DEF RunOK
  <2>. QED
    BY <2>1 DEF Finish, RunType
<1>3. RunShape'
  <2>1. run'.at = "done" /\ run'.pending = <<>> /\ run'.todo = run.todo /\ scenario' = scenario
    BY DEF Finish, RunOK, RunType
  <2>. QED
    BY <2>1 DEF RunShape, RunOK
<1>. QED
  BY <1>1, <1>2, <1>3
     DEF Finish, RunOK, TurnOK, TurnTypeOK, FiniteTurns, GithubOK, turnVars, engine, ledger, github

(* The steps that move the workflow on without starting a child or taking  *)
(* a result.                                                               *)
LEMMA MoveOnTyped ==
  ASSUME RunOK, ContinueAsNew \/ Fill \/ Filled \/ NoPullRequest \/ WatchCi \/ RunSignal
  PROVE  RunOK'
<1>. DEFINE r == run
<1>1. r \in RunType /\ scenario' = scenario
  BY DEF RunOK, ContinueAsNew, Fill, Filled, NoPullRequest, WatchCi, PassGate, RunSignal,
         PauseRun, ResumeRun, StopRun, WatchCiUnread
<1>. Tasks' = Tasks /\ Goal' = Goal
  BY <1>1 DEF Tasks, Goal
<1>2. CASE ContinueAsNew
  <2>1. Remaining \subseteq DOMAIN scenario.tasks /\ Remaining \in SUBSET (Nat \ {0})
    BY ScenarioTyped DEF Remaining
  <2>2. run' = [r EXCEPT !.todo = Remaining, !.started = 0, !.paused = FALSE] /\ r.at = "boundary"
    BY <1>2 DEF ContinueAsNew, AtRunBoundary
  <2>. HIDE DEF r
  <2>3. run' \in RunType
    BY <1>1, <2>1, <2>2 DEF RunType
  <2>4. run'.at = r.at /\ run'.todo = Remaining /\ run'.pending = r.pending
    BY <1>1, <2>2 DEF RunType
  <2>5. Pending' = Pending
    BY <2>4 DEF Pending, r
  <2>6. RunShape'
    BY <1>1, <2>1, <2>2, <2>4, <2>5 DEF RunOK, RunShape, r
  <2>. QED
    BY <1>1, <2>3, <2>6 DEF RunOK
<1>3. CASE Fill \/ Filled
  <2>1. PICK p \in {"fill", "waiting"} : run' = [r EXCEPT !.at = p]
    BY <1>3 DEF Fill, Filled
  <2>2. r.at \in {"boundary", "fill"}
    BY <1>3 DEF Fill, Filled, AtRunBoundary
  <2>. HIDE DEF r
  <2>3. run' \in RunType
    BY <1>1, <2>1 DEF RunType
  <2>4. run'.at = p /\ run'.todo = r.todo /\ run'.pending = r.pending
    BY <1>1, <2>1 DEF RunType
  <2>5. p = "fill" => r.todo # {} \/ r.pending # <<>>
    BY <1>3, <2>1, <1>1 DEF Fill, Filled, r, RunType
  <2>6. p = "waiting" => r.pending # <<>>
    <3>1. p = "waiting" => Filled
      BY <1>1, <1>3, <2>4 DEF Fill, r, RunType
    <3>2. scenario.window \in Nat /\ scenario.window > 0
      BY ScenarioTyped
    <3>3. ~(Len(r.pending) >= scenario.window) \/ r.pending # <<>>
      BY <3>2
    <3>. QED
      BY <3>1, <3>3 DEF Filled, RunOK, RunShape, r
  <2>7. Pending' = Pending
    BY <2>4 DEF Pending, r
  <2>8. RunShape'
    BY <1>1, <2>2, <2>4, <2>5, <2>6, <2>7 DEF RunOK, RunShape, r
  <2>. QED
    BY <1>1, <2>3, <2>8 DEF RunOK
<1>4. CASE NoPullRequest \/ WatchCi \/ WatchCiUnread
  <2>1. PICK c \in CiState : run' = [r EXCEPT !.at = "boundary", !.ci = c, !.of = None, !.child = None]
    BY <1>1, <1>4 DEF NoPullRequest, WatchCi, WatchCiUnread, PassGate, ReadCi, CiState, RunType
  <2>2. r.at = "gate"
    BY <1>4 DEF NoPullRequest, WatchCi, WatchCiUnread
  <2>. HIDE DEF r
  <2>3. run' \in RunType
    BY <1>1, <2>1 DEF RunType
  <2>4. run'.at = "boundary" /\ run'.todo = r.todo /\ run'.pending = r.pending
    BY <1>1, <2>1 DEF RunType
  <2>5. r.pending = <<>> /\ r.todo \subseteq DOMAIN scenario.tasks
    BY <2>2 DEF RunOK, RunShape, r
  <2>6. Len(r.pending) = 0 /\ Pending' = {}
    BY <2>4, <2>5 DEF Pending
  <2>. QED
    BY <1>1, <2>3, <2>4, <2>5, <2>6 DEF RunOK, RunShape
<1>5. CASE PauseRun \/ ResumeRun \/ StopRun
  <2>1. PICK p, q \in BOOLEAN : run' = [r EXCEPT !.paused = p, !.stopped = q]
    <3>1. r.paused \in BOOLEAN /\ r.stopped \in BOOLEAN
      BY <1>1 DEF RunType
    <3>3. \/ run' = [r EXCEPT !.paused = TRUE, !.stopped = r.stopped]
          \/ run' = [r EXCEPT !.paused = FALSE, !.stopped = r.stopped]
          \/ run' = [r EXCEPT !.paused = FALSE, !.stopped = TRUE]
      BY <1>1, <1>5 DEF PauseRun, ResumeRun, StopRun, RunType
    <3>. QED
      BY <3>1, <3>3
  <2>. HIDE DEF r
  <2>3. run' \in RunType
    BY <1>1, <2>1 DEF RunType
  <2>4. /\ run'.at = r.at /\ run'.todo = r.todo /\ run'.pending = r.pending /\ run'.of = r.of
        /\ run'.child = r.child /\ run'.ciTried = r.ciTried
    BY <1>1, <2>1 DEF RunType
  <2>5. Pending' = Pending
    BY <2>4 DEF Pending, r
  <2>6. RunShape'
    BY <1>1, <2>4, <2>5 DEF RunOK, RunShape, r
  <2>. QED
    BY <1>1, <2>3, <2>6 DEF RunOK
<1>. QED
  BY <1>2, <1>3, <1>4, <1>5 DEF RunSignal

LEMMA StartTyped ==
  ASSUME TurnOK, TasksOK, GithubOK, RunOK, RunTask \/ RunCiFix
  PROVE  TurnOK' /\ TasksOK' /\ GithubOK' /\ RunOK'
<1>. DEFINE r == run
<1>1. /\ r \in RunType /\ scenario' = scenario /\ UNCHANGED <<turnVars, github>>
      /\ scenario.cap \in Nat /\ scenario.window \in Nat \ {0} /\ Goal \in BOOLEAN
      /\ scenario.tasks \in Seq(TaskId) /\ Tasks \subseteq TaskId
      /\ Goal => scenario.window = 1
  BY ScenarioTyped DEF RunOK, RunTask, RunCiFix
<1>. Tasks' = Tasks /\ Goal' = Goal
  BY <1>1 DEF Tasks, Goal
<1>2. NewTask(BudgetLeft) \in TaskType
  <2>1. BudgetLeft > 0
    BY DEF RunTask, RunCiFix
  <2>2. run.spent \in Nat
    BY <1>1 DEF RunType
  <2>3. BudgetLeft \in Nat
    BY <1>1, <2>1, <2>2 DEF BudgetLeft
  <2>. QED
    BY <2>3, NewTaskTyped
<1>3. TurnOK' /\ GithubOK'
  BY <1>1 DEF TurnOK, TurnTypeOK, FiniteTurns, GithubOK, turnVars, engine, ledger, github
<1>4. CASE RunTask
  <2>1. PICK i \in r.todo :
          /\ StartTask(scenario.tasks[i])
          /\ run' = [r EXCEPT !.todo = r.todo \ {i}, !.pending = Append(r.pending, scenario.tasks[i]),
                              !.started = r.started + 1]
    BY <1>4 DEF RunTask
  <2>2. i \in DOMAIN scenario.tasks /\ r.todo \in SUBSET (Nat \ {0})
    BY <1>1 DEF RunOK, RunShape, RunType
  <2>3. scenario.tasks[i] \in TaskId /\ scenario.tasks[i] \in Tasks
    BY <1>1, <2>2, ElementOfSeq DEF Tasks
  <2>4. TasksOK'
    BY <1>2, <2>1, <2>3 DEF StartTask, TasksOK
  <2>. DEFINE p == Append(r.pending, scenario.tasks[i])
  <2>5. /\ r.pending \in Seq(TaskId) /\ r.started + 1 \in Nat /\ p \in Seq(TaskId)
        /\ Len(p) = Len(r.pending) + 1 /\ Len(r.pending) \in Nat
        /\ \A j \in DOMAIN p : p[j] = scenario.tasks[i] \/ (j \in DOMAIN r.pending /\ p[j] = r.pending[j])
    BY <1>1, <2>3, AppendProperties, LenProperties DEF RunType
  <2>6. r.at = "fill" /\ Len(r.pending) < scenario.window /\ Pending \subseteq Tasks
    BY <1>4 DEF RunTask, Room, RunOK, RunShape
  <2>. HIDE DEF r, p
  <2>7. run' \in RunType /\ run'.at = r.at /\ run'.todo = r.todo \ {i} /\ run'.pending = p
    BY <1>1, <2>1, <2>2, <2>5 DEF RunType, p
  <2>8. Pending' \subseteq Tasks
    BY <2>3, <2>5, <2>6, <2>7 DEF Pending, r
  <2>9. run'.pending # <<>>
    BY <2>5, <2>7, EmptySeq
  <2>10. scenario.window = 1 => Len(run'.pending) <= 1
    BY <2>5, <2>6, <2>7
  <2>11. run'.todo \subseteq DOMAIN scenario.tasks
    BY <2>7 DEF RunOK, RunShape, r
  <2>12. RunShape'
    BY <1>1, <2>6, <2>7, <2>8, <2>9, <2>10, <2>11 DEF RunShape
  <2>. QED
    BY <1>1, <1>3, <2>4, <2>7, <2>12 DEF RunOK
<1>5. CASE RunCiFix
  <2>. DEFINE fix == FixOf[r.of][r.ciTried + 1]
  <2>1. /\ StartTask(fix) /\ r.at = "gate" /\ r.ciTried < scenario.maxCi
        /\ run' = [r EXCEPT !.at = "fixing", !.ci = "failed", !.ciTried = r.ciTried + 1,
                            !.pending = <<fix>>]
    BY <1>5 DEF RunCiFix
  <2>2. Goal /\ r.of \in Tasks /\ r.child \in TaskId /\ r.ciTried \in Nat
    BY <1>1, <2>1 DEF RunOK, RunShape, RunType
  <2>3. FixOf[r.of] \in Seq(TaskId) /\ r.ciTried + 1 \in DOMAIN FixOf[r.of]
    BY <1>1, <2>1, <2>2, ScenarioTyped, RunConstants, LenProperties
  <2>4. fix \in TaskId
    BY <2>3, ElementOfSeq
  <2>5. TasksOK'
    BY <1>2, <2>1, <2>4 DEF StartTask, TasksOK
  <2>6. <<fix>> \in Seq(TaskId) /\ Len(<<fix>>) = 1
    BY <2>4
  <2>. HIDE DEF r, fix
  <2>7. /\ run' \in RunType /\ run'.at = "fixing" /\ run'.todo = r.todo /\ run'.pending = <<fix>>
        /\ run'.of = r.of /\ run'.child = r.child /\ run'.ciTried = r.ciTried + 1
    <3>1. r.ciTried + 1 \in Nat /\ "failed" \in CiState
      BY <2>2 DEF CiState
    <3>. QED
      BY <1>1, <2>1, <2>6, <3>1 DEF RunType
  <2>8. RunShape'
    BY <1>1, <2>2, <2>3, <2>6, <2>7 DEF RunOK, RunShape, r, fix
  <2>. QED
    BY <1>1, <1>3, <2>5, <2>7, <2>8 DEF RunOK
<1>. QED
  BY <1>4, <1>5

LEMMA ResultTyped ==
  ASSUME TasksOK, RunOK, TakeResult \/ FixEnds
  PROVE  RunOK'
<1>. DEFINE r == run
            child == Head(r.pending)
<1>1. /\ r \in RunType /\ scenario' = scenario /\ Goal \in BOOLEAN /\ Tasks \subseteq TaskId
      /\ Goal => scenario.window = 1
  BY ScenarioTyped DEF RunOK, TakeResult, FixEnds
<1>. Tasks' = Tasks /\ Goal' = Goal
  BY <1>1 DEF Tasks, Goal
<1>2. r.pending \in Seq(TaskId) /\ r.pending # <<>>
  <2>1. r.at = "fixing" => r.pending = <<FixOf[r.of][r.ciTried]>>
    BY DEF RunOK, RunShape
  <2>2. r.at = "waiting" => r.pending # <<>>
    BY DEF RunOK, RunShape
  <2>. QED
    BY <1>1, <2>1, <2>2 DEF TakeResult, FixEnds, RunType
<1>3. /\ child \in TaskId /\ Tail(r.pending) \in Seq(TaskId) /\ 1 \in DOMAIN r.pending
      /\ Len(Tail(r.pending)) = Len(r.pending) - 1 /\ child = r.pending[1] /\ Len(r.pending) \in Nat
      /\ \A i \in DOMAIN Tail(r.pending) : i + 1 \in DOMAIN r.pending /\ Tail(r.pending)[i] = r.pending[i + 1]
  BY <1>2, HeadTailProperties
<1>4. r.spent + task[child].cost \in Nat /\ Append(r.completed, child) \in Seq(TaskId)
  <2>1. r.spent \in Nat /\ r.completed \in Seq(TaskId) /\ task[child].cost \in Nat
    BY <1>1, <1>3 DEF RunType, TasksOK, TaskType
  <2>. QED
    BY <1>3, <2>1, AppendProperties
<1>5. CASE TakeResult
  <2>1. /\ run' = [r EXCEPT !.pending = Tail(r.pending), !.completed = Append(r.completed, child),
                            !.spent = r.spent + task[child].cost,
                            !.at = IF Goal THEN "gate" ELSE "boundary",
                            !.of = IF Goal THEN child ELSE None, !.child = IF Goal THEN child ELSE None]
        /\ r.at = "waiting"
    BY <1>5 DEF TakeResult
  <2>2. child \in Tasks /\ Pending \subseteq Tasks
    BY <1>3, <2>1 DEF RunOK, RunShape, Pending
  <2>3. r.todo \subseteq DOMAIN scenario.tasks /\ (scenario.window = 1 => Len(r.pending) <= 1)
    BY DEF RunOK, RunShape
  <2>. HIDE DEF r, child
  <2>4. /\ run' \in RunType /\ run'.at = (IF Goal THEN "gate" ELSE "boundary")
        /\ run'.todo = r.todo /\ run'.pending = Tail(r.pending)
        /\ run'.of = (IF Goal THEN child ELSE None) /\ run'.child = (IF Goal THEN child ELSE None)
    BY <1>1, <1>3, <1>4, <2>1 DEF RunType
  <2>5. Pending' \subseteq Pending
    BY <1>3, <2>4 DEF Pending, r
  <2>6. scenario.window = 1 => run'.pending = <<>>
    BY <1>3, <2>3, <2>4, EmptySeq
  <2>7. scenario.window = 1 => Len(run'.pending) <= 1
    BY <1>3, <2>3, <2>4
  <2>8. RunShape'
    BY <1>1, <1>3, <2>2, <2>3, <2>4, <2>5, <2>6, <2>7 DEF RunShape
  <2>. QED
    BY <1>1, <2>4, <2>8 DEF RunOK
<1>6. CASE FixEnds
  <2>1. /\ r.at = "fixing"
        /\ \/ run' = [r EXCEPT !.at = "gate", !.pending = <<>>, !.child = child,
                               !.completed = Append(r.completed, child),
                               !.spent = r.spent + task[child].cost]
           \/ run' = [r EXCEPT !.at = "gate", !.pending = <<>>]
    BY <1>6 DEF FixEnds
  <2>2. Goal /\ r.of \in Tasks /\ r.child \in TaskId /\ r.todo \subseteq DOMAIN scenario.tasks
    BY <2>1 DEF RunOK, RunShape
  <2>. HIDE DEF r, child
  <2>3. /\ run' \in RunType /\ run'.at = "gate" /\ run'.todo = r.todo /\ run'.pending = <<>>
        /\ run'.of = r.of /\ run'.child \in {r.child, child}
    <3>1. <<>> \in Seq(TaskId)
      OBVIOUS
    <3>2. CASE run' = [r EXCEPT !.at = "gate", !.pending = <<>>]
      BY <1>1, <3>1, <3>2 DEF RunType
    <3>3. CASE run' = [r EXCEPT !.at = "gate", !.pending = <<>>, !.child = child,
                               !.completed = Append(r.completed, child),
                               !.spent = r.spent + task[child].cost]
      BY <1>1, <1>3, <1>4, <3>1, <3>3 DEF RunType
    <3>. QED
      BY <2>1, <3>2, <3>3
  <2>4. RunShape'
    BY <1>1, <1>3, <2>2, <2>3, EmptySeq DEF RunShape
  <2>. QED
    BY <1>1, <2>3, <2>4 DEF RunOK
<1>. QED
  BY <1>5, <1>6

-----------------------------------------------------------------------------
(* Type correctness                                                        *)

TypeInv == TurnOK /\ TasksOK /\ GithubOK /\ RunOK

LEMMA Kept ==
  /\ TurnOK /\ UNCHANGED turnVars => TurnOK'
  /\ TasksOK /\ GithubOK /\ UNCHANGED walkVars => TasksOK' /\ GithubOK'
  /\ RunOK /\ UNCHANGED <<run, scenario>> => RunOK'
<1>1. TurnOK /\ UNCHANGED turnVars => TurnOK'
  BY DEF TurnOK, TurnTypeOK, FiniteTurns, turnVars, engine, ledger
<1>2. TasksOK /\ GithubOK /\ UNCHANGED walkVars => TasksOK' /\ GithubOK'
  BY DEF TasksOK, GithubOK, walkVars, github
<1>3. ASSUME RunOK, UNCHANGED <<run, scenario>> PROVE RunOK'
  <2>1. Pending' = Pending /\ Tasks' = Tasks /\ Goal' = Goal
    BY <1>3 DEF Pending, Tasks, Goal
  <2>2. RunShape'
    BY <1>3, <2>1 DEF RunOK, RunShape
  <2>. QED
    BY <1>3, <2>2 DEF RunOK
<1>. QED
  BY <1>1, <1>2, <1>3

LEMMA InitTyped == Init => TypeInv
<1>. SUFFICES ASSUME Init PROVE TypeInv
  OBVIOUS
<1>1. scenario \in Scenario
  BY RunConstants DEF Init
<1>2. Off \in TaskType /\ [x \in Slot |-> None] \in Slots
  BY DEF Off, TaskType, Node, Outcome, Slots
<1>3. TurnOK
  <2>1. FiniteTurns
    BY FS_EmptySet DEF Init, FiniteTurns
  <2>2. left \in [Fault -> Nat] /\ 0 \in 0..ActivityTries
    BY <1>1, TurnConstants DEF Init, Scenario
  <2>. QED
    BY <1>2, <2>1, <2>2 DEF Init, TurnOK, TurnTypeOK, Slots
<1>4. TasksOK /\ GithubOK
  BY <1>2 DEF Init, TasksOK, GithubOK
<1>5. run \in RunType
  <2>1. DOMAIN scenario.tasks \in SUBSET (Nat \ {0})
    BY <1>1 DEF Scenario
  <2>2. "none" \in CiState /\ "none" \in RunOutcome /\ <<>> \in Seq(TaskId)
    BY DEF CiState, RunOutcome
  <2>. QED
    BY <2>1, <2>2 DEF Init, RunType
<1>6. RunShape
  <2>1. run.at = "boundary" /\ run.pending = <<>> /\ run.todo = DOMAIN scenario.tasks
    BY DEF Init
  <2>2. Pending = {} /\ Len(run.pending) = 0
    BY <2>1 DEF Pending
  <2>. QED
    BY <2>1, <2>2 DEF RunShape
<1>. QED
  BY <1>3, <1>4, <1>5, <1>6 DEF TypeInv, RunOK, Init

LEMMA RunStepTyped == TypeInv /\ RunStep => TypeInv'
<1>. SUFFICES ASSUME TypeInv, RunStep PROVE TypeInv'
  OBVIOUS
<1>. USE DEF TypeInv
<1>1. CASE RunStopped \/ AllDone \/ RunOutOfBudget \/ RunOutOfGoal \/ ChildFailed
  <2>1. \E o \in RunOutcome : Finish(o)
    BY <1>1 DEF RunStopped, AllDone, RunOutOfBudget, RunOutOfGoal, ChildFailed, RunOutcome
  <2>. QED
    BY <2>1, FinishTyped
<1>2. CASE RunTask \/ RunCiFix
  BY <1>2, StartTyped
<1>3. CASE ContinueAsNew \/ Fill \/ Filled \/ NoPullRequest \/ WatchCi \/ TakeResult \/ FixEnds
  <2>1. UNCHANGED <<turnVars, walkVars>>
    BY <1>3 DEF ContinueAsNew, Fill, Filled, NoPullRequest, WatchCi, TakeResult, FixEnds, PassGate
  <2>2. RunOK'
    BY <1>3, MoveOnTyped, ResultTyped
  <2>. QED
    BY <2>1, <2>2, Kept
<1>. QED
  BY <1>1, <1>2, <1>3 DEF RunStep

LEMMA TurnStepTyped ==
  ASSUME TurnOK, scenario.price \subseteq Nat, TurnStep \/ TurnFault
  PROVE  TurnOK'
<1>1. ASSUME NEW t \in TaskId, NEW x \in Slot, AttemptStep(t, x) \/ AttemptFault(t, x)
      PROVE  TurnOK'
  <2>1. CASE ReadEnd(t, x) \/ StreamLost(t, x)
    <3>1. 0 \in Nat
      OBVIOUS
    <3>. QED
      BY <2>1, <3>1, StreamTyped
  <2>. QED
    BY <1>1, <2>1, ScanTyped, BuyTyped, RecordTyped DEF AttemptStep, AttemptFault
<1>2. ASSUME NEW t \in TaskId, StaleReturns(t) \/ Regressed(t) \/ Stall(t)
      PROVE  TurnOK'
  BY <1>2, HandoverTyped, StallTyped
<1>3. CASE EngineRestart \/ WorkerCrash
  BY <1>3, EngineTyped, CrashTyped
<1>4. ASSUME NEW t \in TaskId, NEW cost \in scenario.price,
             \/ \E u \in bought[t], how \in TurnEnd \ {"aborted"} : TurnEnds(t, u, how, cost)
             \/ Aborts(t, "stale", cost) \/ Aborts(t, "live", cost)
      PROVE  TurnOK'
  <2>1. cost \in Nat
    OBVIOUS
  <2>. QED
    BY <1>4, <2>1, EngineTyped, StreamTyped DEF Slot
<1>. QED
  BY <1>1, <1>2, <1>3, <1>4 DEF TurnStep, TurnFault

LEMMA NextTyped == TypeInv /\ [Next]_vars => TypeInv'
<1>. SUFFICES ASSUME TypeInv, [Next]_vars PROVE TypeInv'
  OBVIOUS
<1>. USE DEF TypeInv
<1>1. CASE RunStep
  BY <1>1, RunStepTyped
<1>2. CASE TurnStep \/ TurnFault
  <2>1. TurnOK'
    BY <1>2, TurnStepTyped, ScenarioTyped
  <2>2. UNCHANGED <<walkVars, run, scenario>>
    BY <1>2 DEF TurnStep, TurnFault
  <2>. QED
    BY <2>1, <2>2, Kept
<1>3. CASE WalkStep \/ WalkFault
  <2>1. TurnOK' /\ TasksOK' /\ GithubOK'
    BY <1>3, TaskStepTyped, TaskStepTurns, TaskStepGithub DEF WalkStep, WalkFault
  <2>2. UNCHANGED <<run, scenario>>
    BY <1>3 DEF WalkStep, WalkFault
  <2>. QED
    BY <2>1, <2>2, Kept
<1>4. CASE Outside
  <2>1. TurnOK' /\ TasksOK' /\ GithubOK'
    BY <1>4, OutsideTyped
  <2>2. UNCHANGED <<run, scenario>>
    BY <1>4 DEF Outside
  <2>. QED
    BY <2>1, <2>2, Kept
<1>5. CASE RunSignal
  <2>1. RunOK'
    BY <1>5, MoveOnTyped
  <2>2. left' \in [Fault -> Nat] /\ UNCHANGED <<engine, ledger, attempt, tries, exposed, walkVars>>
    BY <1>5, SpendTyped
       DEF RunSignal, PauseRun, ResumeRun, StopRun, WatchCiUnread, Fault, TurnOK, TurnTypeOK, turnVars
  <2>. QED
    BY <2>1, <2>2, Kept DEF TurnOK, TurnTypeOK, FiniteTurns, engine, ledger
<1>6. CASE UNCHANGED vars
  BY <1>6, Kept DEF vars
<1>. QED
  BY <1>1, <1>2, <1>3, <1>4, <1>5, <1>6 DEF Next, SystemStep

LEMMA Typed == Spec => []TypeInv
<1>. QED
  BY InitTyped, NextTyped, PTL DEF Spec

(* Every variable of the turns, the walk and the run keeps its type,       *)
(* whatever the scenario: in particular the CI gate never asks for a fix   *)
(* task the run has not, and never awaits a child when it has none.        *)
THEOREM RunTypeCorrect == Spec => []TypeOK
<1>1. TypeInv => TypeOK
  BY DEF TypeInv, TypeOK, TurnOK, TasksOK, GithubOK, WalkTypeOK, RunOK
<1>. QED
  BY <1>1, Typed, PTL

-----------------------------------------------------------------------------
(* A task starts once                                                      *)

(* Until the run is done, a task that is neither pending nor completed has *)
(* not started, and neither has any that the run still means to start.     *)
NoneAhead == \A u \in Tasks : task[u].node = "off" \/ u \in Completed \cup Pending
TodoOff == \A i \in run.todo : task[scenario.tasks[i]].node = "off"
FixesOff ==
  \A t \in TaskId : \A j \in DOMAIN FixOf[t] : j > run.ciTried => task[FixOf[t][j]].node = "off"

StartsOnce == run.at # "done" => NoneAhead /\ TodoOff /\ FixesOff

StartInv == TypeInv /\ StartsOnce

LEMMA AppendAdds ==
  ASSUME NEW S, NEW q \in Seq(S), NEW e \in S
  PROVE  {Append(q, e)[i] : i \in DOMAIN Append(q, e)} = {q[i] : i \in DOMAIN q} \cup {e}
<1>1. /\ DOMAIN q = 1..Len(q) /\ Len(q) \in Nat /\ DOMAIN Append(q, e) = 1..(Len(q) + 1)
      /\ \A i \in 1..Len(q) : Append(q, e)[i] = q[i]
      /\ Append(q, e)[Len(q) + 1] = e
  BY AppendProperties, LenProperties
<1>. QED
  BY <1>1

LEMMA TailDropsHead ==
  ASSUME NEW S, NEW q \in Seq(S), q # <<>>
  PROVE  {q[i] : i \in DOMAIN q} = {Tail(q)[i] : i \in DOMAIN Tail(q)} \cup {Head(q)}
<1>1. /\ DOMAIN q = 1..Len(q) /\ Len(q) \in Nat \ {0} /\ DOMAIN Tail(q) = 1..(Len(q) - 1)
      /\ \A i \in 1..(Len(q) - 1) : Tail(q)[i] = q[i + 1]
      /\ Head(q) = q[1]
  BY HeadTailProperties, LenProperties, EmptySeq
<1>2. ASSUME NEW i \in DOMAIN q, i # 1
      PROVE  i - 1 \in DOMAIN Tail(q) /\ Tail(q)[i - 1] = q[i]
  BY <1>1, <1>2
<1>3. ASSUME NEW i \in DOMAIN Tail(q)
      PROVE  i + 1 \in DOMAIN q /\ Tail(q)[i] = q[i + 1]
  BY <1>1
<1>4. 1 \in DOMAIN q /\ Head(q) = q[1]
  BY <1>1
<1>. DEFINE rest == {Tail(q)[i] : i \in DOMAIN Tail(q)}
            all == {q[i] : i \in DOMAIN q}
<1>5. ASSUME NEW i \in DOMAIN q
      PROVE  q[i] \in rest \cup {Head(q)}
  BY <1>2, <1>4
<1>6. ASSUME NEW i \in DOMAIN Tail(q)
      PROVE  Tail(q)[i] \in all
  BY <1>3
<1>7. Head(q) \in all
  BY <1>4
<1>. QED
  BY <1>5, <1>6, <1>7

LEMMA OnlyLiveMove ==
  ASSUME TypeInv, NEW u \in TaskId, ~Live(u),
         WalkStep \/ WalkFault \/ Outside \/ \E o \in RunOutcome : Finish(o)
  PROVE  task'[u] = task[u]
<1>. USE DEF TypeInv
<1>1. ASSUME NEW t \in TaskId, Live(t), \E s : Become(t, s)
      PROVE  task'[u] = task[u]
  BY <1>1 DEF Become, TasksOK
<1>2. ASSUME NEW t \in TaskId, TaskStep(t)
      PROVE  task'[u] = task[u]
  <2>1. Live(t) /\ \E s : Become(t, s)
    BY <1>2 DEF TaskStep, StopHere, BeginTurn, EndTurn, TurnGivenUp, Checkpoint, Verify, Review,
                OpenPr, Park, Unpark, Ready, AtBoundary, Live, Paid, Unpaid, Ended
  <2>. QED
    BY <1>1, <2>1
<1>3. ASSUME NEW t \in TaskId, TaskFault(t) \/ ResumeTask(t) \/ \E d \in {"approve", "reject"} : Decide(t, d)
      PROVE  task'[u] = task[u]
  <2>1. task' = task \/ (Live(t) /\ \E s : Become(t, s))
    BY <1>3 DEF TaskFault, OpenPrAgain, StepFails, PauseTask, StopTask, ResumeTask, Decide, Ready,
                AtBoundary, Live, Unpaid, Ended
  <2>. QED
    BY <1>1, <2>1
<1>4. ASSUME NEW b \in Branch, NEW r, CiReports(b, r)
      PROVE  task'[u] = task[u]
  BY <1>4 DEF CiReports
<1>5. ASSUME NEW o, Finish(o)
      PROVE  task'[u] = task[u]
  BY <1>5 DEF Finish
<1>. QED
  BY <1>2, <1>3, <1>4, <1>5 DEF WalkStep, WalkFault, Outside

LEMMA StartsWhat ==
  ASSUME StartInv, RunTask \/ RunCiFix
  PROVE  \E u \in TaskId, s \in TaskType :
           /\ task' = [task EXCEPT ![u] = s] /\ task[u].node = "off" /\ s = NewTask(BudgetLeft)
           /\ \A v \in TaskId : v # u => task'[v] = task[v]
           /\ \/ \E i \in run.todo : /\ u = scenario.tasks[i] /\ run'.todo = run.todo \ {i}
                                     /\ Pending' = Pending \cup {u} /\ run'.ciTried = run.ciTried
              \/ /\ u = FixOf[run.of][run.ciTried + 1] /\ run'.ciTried = run.ciTried + 1
                 /\ run.of \in TaskId /\ run.ciTried + 1 \in DOMAIN FixOf[run.of]
                 /\ Pending = {} /\ run'.todo = run.todo
           /\ Completed' = Completed /\ run'.at # "done" /\ UNCHANGED scenario
<1>. USE DEF StartInv, TypeInv
<1>1. TypeInv' /\ run \in RunType /\ run.at # "done"
  BY NextTyped DEF RunOK, Next, SystemStep, RunStep, RunTask, RunCiFix, Room
<1>2. CASE RunTask
  <2>1. PICK i \in run.todo :
          /\ StartTask(scenario.tasks[i])
          /\ run' = [run EXCEPT !.todo = @ \ {i}, !.pending = Append(@, scenario.tasks[i]),
                                !.started = @ + 1]
    BY <1>2 DEF RunTask
  <2>. DEFINE u == scenario.tasks[i]
              s == NewTask(BudgetLeft)
  <2>2. i \in DOMAIN scenario.tasks /\ u \in TaskId
    BY ScenarioTyped, ElementOfSeq DEF RunOK, RunShape
  <2>3. task' = [task EXCEPT ![u] = s]
    BY <2>1 DEF StartTask
  <2>4. s \in TaskType
    BY <1>1, <2>2, <2>3 DEF TasksOK
  <2>5. run.pending \in Seq(TaskId)
    BY <1>1 DEF RunType
  <2>6. /\ run'.todo = run.todo \ {i} /\ run'.pending = Append(run.pending, u)
        /\ run'.completed = run.completed /\ run'.ciTried = run.ciTried /\ run'.at = run.at
    BY <1>1, <2>1 DEF RunType
  <2>7. Pending' = Pending \cup {u}
    BY <2>2, <2>5, <2>6, AppendProperties, LenProperties DEF Pending
  <2>8. task[u].node = "off"
    BY <1>1, <2>1 DEF StartsOnce, TodoOff
  <2>9. Completed' = Completed /\ scenario' = scenario
    BY <1>2, <2>6 DEF RunTask, Completed
  <2>10. u = scenario.tasks[i] /\ s = NewTask(BudgetLeft) /\ \A v \in TaskId : v # u => task'[v] = task[v]
    BY <2>3 DEF TasksOK
  <2>. HIDE DEF u, s
  <2>. QED
    BY <1>1, <2>2, <2>3, <2>4, <2>6, <2>7, <2>8, <2>9, <2>10
<1>3. CASE RunCiFix
  <2>. DEFINE u == FixOf[run.of][run.ciTried + 1]
              s == NewTask(BudgetLeft)
  <2>1. /\ task' = [task EXCEPT ![u] = s] /\ run.at = "gate"
        /\ run' = [run EXCEPT !.at = "fixing", !.ci = "failed", !.ciTried = run.ciTried + 1,
                              !.pending = <<u>>]
    BY <1>3 DEF RunCiFix, StartTask
  <2>2. /\ run'.ciTried = run.ciTried + 1 /\ run'.todo = run.todo /\ run'.completed = run.completed
        /\ run'.at = "fixing" /\ run'.of = run.of /\ scenario' = scenario
    BY <1>1, <1>3, <2>1 DEF RunType, RunCiFix
  <2>3. run.of \in TaskId /\ run.ciTried + 1 \in DOMAIN FixOf[run.of]
    BY <1>1, <2>1, <2>2, ScenarioTyped DEF RunOK, RunShape
  <2>4. u \in TaskId
    BY <2>3, RunConstants, ElementOfSeq
  <2>5. s \in TaskType
    BY <1>1, <2>1, <2>4 DEF TasksOK
  <2>6. Pending = {}
    BY <2>1 DEF RunOK, RunShape, Pending
  <2>7. task[u].node = "off"
    BY <1>1, <2>3 DEF StartsOnce, FixesOff, RunType
  <2>8. Completed' = Completed
    BY <2>2 DEF Completed
  <2>9. /\ u = FixOf[run.of][run.ciTried + 1] /\ s = NewTask(BudgetLeft)
        /\ \A v \in TaskId : v # u => task'[v] = task[v]
    BY <2>1 DEF TasksOK
  <2>. HIDE DEF u, s
  <2>. QED
    BY <2>1, <2>2, <2>3, <2>4, <2>5, <2>6, <2>7, <2>8, <2>9
<1>. QED
  BY <1>2, <1>3

LEMMA StartsInit == Init => StartInv
<1>. SUFFICES ASSUME Init PROVE StartInv
  OBVIOUS
<1>1. TypeInv
  BY InitTyped
<1>2. \A u \in TaskId : task[u].node = "off"
  BY DEF Init, Off
<1>3. Tasks \subseteq TaskId /\ scenario.tasks \in Seq(TaskId) /\ run.todo = DOMAIN scenario.tasks
  BY <1>1, ScenarioTyped DEF TypeInv, Init
<1>4. \A t \in TaskId : \A j \in DOMAIN FixOf[t] : FixOf[t][j] \in TaskId
  BY RunConstants, ElementOfSeq
<1>5. NoneAhead /\ FixesOff
  BY <1>2, <1>3, <1>4 DEF NoneAhead, FixesOff
<1>6. TodoOff
  BY <1>2, <1>3, ElementOfSeq DEF TodoOff
<1>. QED
  BY <1>1, <1>5, <1>6 DEF StartInv, StartsOnce

(* What holds of tasks that have not started goes on holding while the run *)
(* starts none.                                                            *)
LEMMA StartsStill ==
  ASSUME StartInv, run.at # "done", scenario' = scenario,
         \A u \in TaskId : task[u].node = "off" => task'[u].node = "off"
  PROVE  /\ Completed \cup Pending \subseteq Completed' \cup Pending' => NoneAhead'
         /\ run'.todo = run.todo => TodoOff'
         /\ run'.ciTried = run.ciTried => FixesOff'
<1>. USE DEF StartInv, TypeInv
<1>1. Tasks' = Tasks /\ Tasks \subseteq TaskId /\ scenario.tasks \in Seq(TaskId)
  BY ScenarioTyped DEF Tasks
<1>2. Completed \cup Pending \subseteq Completed' \cup Pending' => NoneAhead'
  BY <1>1 DEF StartsOnce, NoneAhead
<1>3. \A i \in run.todo : scenario.tasks[i] \in TaskId
  BY <1>1, ElementOfSeq DEF RunOK, RunShape
<1>4. run'.todo = run.todo => TodoOff'
  BY <1>3 DEF StartsOnce, TodoOff
<1>5. \A t \in TaskId : \A j \in DOMAIN FixOf[t] : FixOf[t][j] \in TaskId
  BY RunConstants, ElementOfSeq
<1>6. run'.ciTried = run.ciTried => FixesOff'
  BY <1>5 DEF StartsOnce, FixesOff
<1>. QED
  BY <1>2, <1>4, <1>6

LEMMA StartsNext == StartInv /\ [Next]_vars => StartInv'
<1>. SUFFICES ASSUME StartInv, [Next]_vars PROVE StartInv'
  OBVIOUS
<1>1. TypeInv /\ TypeInv' /\ run \in RunType
  BY NextTyped DEF StartInv, TypeInv, RunOK
<1>2. SUFFICES ASSUME run'.at # "done" PROVE NoneAhead' /\ TodoOff' /\ FixesOff'
  BY <1>1 DEF StartInv, StartsOnce
<1>3. CASE RunTask \/ RunCiFix
  <2>1. PICK u \in TaskId, s \in TaskType :
          /\ task[u].node = "off"
          /\ \A v \in TaskId : v # u => task'[v] = task[v]
          /\ \/ \E i \in run.todo : /\ u = scenario.tasks[i] /\ run'.todo = run.todo \ {i}
                                    /\ Pending' = Pending \cup {u} /\ run'.ciTried = run.ciTried
             \/ /\ u = FixOf[run.of][run.ciTried + 1] /\ run'.ciTried = run.ciTried + 1
                /\ run.of \in TaskId /\ run.ciTried + 1 \in DOMAIN FixOf[run.of]
                /\ Pending = {} /\ run'.todo = run.todo
          /\ Completed' = Completed /\ UNCHANGED scenario
    BY <1>3, StartsWhat
  <2>2. run.at # "done"
    BY <1>3 DEF RunTask, RunCiFix, Room
  <2>3. /\ Tasks' = Tasks /\ Tasks \subseteq TaskId /\ scenario.tasks \in Seq(TaskId)
        /\ run.todo \subseteq DOMAIN scenario.tasks
    BY <1>1, <2>1, ScenarioTyped DEF Tasks, TypeInv, RunOK, RunShape
  <2>4. \A t \in TaskId : \A j \in DOMAIN FixOf[t] : FixOf[t][j] \in TaskId /\ j \in Nat
    BY RunConstants, ElementOfSeq
  <2>5. \A v \in Tasks : v # u => v \in Completed' \cup Pending' \/ task'[v].node = "off"
    BY <2>1, <2>2, <2>3 DEF StartInv, StartsOnce, NoneAhead
  <2>6. CASE \E i \in run.todo : /\ u = scenario.tasks[i] /\ run'.todo = run.todo \ {i}
                                 /\ Pending' = Pending \cup {u} /\ run'.ciTried = run.ciTried
    <3>1. PICK i \in run.todo : u = scenario.tasks[i] /\ run'.todo = run.todo \ {i}
      BY <2>6
    <3>2. i \in DOMAIN scenario.tasks /\ u \in Tasks
      BY <2>3, <3>1 DEF Tasks
    <3>3. \A j \in run.todo \ {i} : scenario.tasks[j] # u /\ scenario.tasks[j] \in TaskId
      BY <1>1, <2>3, <3>1, <3>2, ScenarioTyped, ElementOfSeq DEF TypeInv
    <3>4. TodoOff'
      BY <2>1, <2>2, <3>1, <3>3 DEF StartInv, StartsOnce, TodoOff
    <3>5. \A t \in TaskId : \A j \in DOMAIN FixOf[t] : FixOf[t][j] # u
      BY <1>1, <3>2, ScenarioTyped DEF TypeInv
    <3>6. FixesOff'
      BY <2>1, <2>2, <2>4, <2>6, <3>5 DEF StartInv, StartsOnce, FixesOff
    <3>7. NoneAhead'
      BY <2>3, <2>5, <2>6 DEF NoneAhead
    <3>. QED
      BY <3>4, <3>6, <3>7
  <2>7. CASE /\ u = FixOf[run.of][run.ciTried + 1] /\ run'.ciTried = run.ciTried + 1
             /\ run.of \in TaskId /\ run.ciTried + 1 \in DOMAIN FixOf[run.of]
             /\ Pending = {} /\ run'.todo = run.todo
    <3>1. \A v \in Tasks : v # u
      BY <1>1, <2>7, ScenarioTyped DEF TypeInv
    <3>2. NoneAhead'
      BY <2>3, <2>5, <3>1 DEF NoneAhead
    <3>3. \A i \in run.todo : scenario.tasks[i] \in Tasks
      BY <2>3 DEF Tasks
    <3>4. TodoOff'
      BY <2>1, <2>2, <2>3, <2>7, <3>1, <3>3 DEF StartInv, StartsOnce, TodoOff
    <3>5. ASSUME NEW t \in TaskId, NEW j \in DOMAIN FixOf[t], j > run'.ciTried
          PROVE  task'[FixOf[t][j]].node = "off"
      <4>1. run.ciTried \in Nat /\ j \in Nat
        BY <1>1, <2>4 DEF RunType
      <4>2. FixOf[t][j] # u
        BY <2>7, <3>5, <4>1, RunConstants
      <4>. QED
        BY <2>1, <2>2, <2>4, <2>7, <3>5, <4>1, <4>2 DEF StartInv, StartsOnce, FixesOff
    <3>. QED
      BY <3>2, <3>4, <3>5 DEF FixesOff
  <2>. QED
    BY <2>1, <2>6, <2>7
<1>4. CASE ContinueAsNew
  <2>1. /\ run.at = "boundary" /\ scenario.window = 1 /\ task' = task /\ scenario' = scenario
        /\ run' = [run EXCEPT !.todo = Remaining, !.started = 0, !.paused = FALSE]
    BY <1>4 DEF ContinueAsNew, AtRunBoundary, walkVars
  <2>2. /\ run'.pending = run.pending /\ run'.completed = run.completed /\ run'.ciTried = run.ciTried
        /\ run'.todo = Remaining
    BY <1>1, <2>1 DEF RunType
  <2>3. Pending = {} /\ Pending' = Pending /\ Completed' = Completed
    BY <1>1, <2>1, <2>2 DEF TypeInv, RunOK, RunShape, Pending, Completed
  <2>4. NoneAhead' /\ FixesOff'
    BY <2>1, <2>2, <2>3, StartsStill
  <2>5. TodoOff'
    BY <2>1, <2>2, <2>3 DEF StartInv, StartsOnce, NoneAhead, TodoOff, Remaining, Tasks
  <2>. QED
    BY <2>4, <2>5
<1>5. CASE TakeResult
  <2>1. /\ task' = task /\ scenario' = scenario /\ run.at = "waiting"
        /\ run'.pending = Tail(run.pending) /\ run'.completed = Append(run.completed, Head(run.pending))
        /\ run'.todo = run.todo /\ run'.ciTried = run.ciTried
    BY <1>1, <1>5 DEF TakeResult, walkVars, RunType
  <2>2. run.pending \in Seq(TaskId) /\ run.pending # <<>> /\ run.completed \in Seq(TaskId)
    BY <1>1, <2>1 DEF TypeInv, RunOK, RunShape, RunType
  <2>3. Head(run.pending) \in TaskId
    BY <2>2, HeadTailProperties
  <2>4. Completed' = Completed \cup {Head(run.pending)}
    <3>. DEFINE q == run.completed
                e == Head(run.pending)
    <3>1. Completed' = {Append(q, e)[i] : i \in DOMAIN Append(q, e)}
      BY <2>1 DEF Completed
    <3>2. Completed = {q[i] : i \in DOMAIN q}
      BY DEF Completed
    <3>3. q \in Seq(TaskId) /\ e \in TaskId
      BY <2>2, <2>3
    <3>. HIDE DEF q, e
    <3>4. {Append(q, e)[i] : i \in DOMAIN Append(q, e)} = {q[i] : i \in DOMAIN q} \cup {e}
      BY <3>3, AppendAdds
    <3>. QED
      BY <3>1, <3>2, <3>4 DEF e
  <2>5. Pending = Pending' \cup {Head(run.pending)}
    BY <2>1, <2>2, TailDropsHead DEF Pending
  <2>. QED
    BY <2>1, <2>4, <2>5, StartsStill
<1>6. CASE FixEnds
  <2>1. /\ task' = task /\ scenario' = scenario /\ run.at = "fixing"
        /\ run'.todo = run.todo /\ run'.ciTried = run.ciTried
        /\ \/ run'.completed = Append(run.completed, Head(run.pending))
           \/ run'.completed = run.completed
    BY <1>1, <1>6 DEF FixEnds, walkVars, RunType
  <2>2. /\ run.of \in TaskId /\ run.ciTried \in DOMAIN FixOf[run.of] /\ run.completed \in Seq(TaskId)
        /\ run.pending = <<FixOf[run.of][run.ciTried]>>
    BY <1>1, <2>1, ScenarioTyped DEF TypeInv, RunOK, RunShape, RunType
  <2>. DEFINE fix == FixOf[run.of][run.ciTried]
  <2>3. Pending = {fix} /\ Head(run.pending) = fix /\ fix \in TaskId
    BY <2>2, RunConstants, ElementOfSeq DEF Pending
  <2>4. Completed \subseteq Completed'
    BY <2>1, <2>2, <2>3, AppendProperties, LenProperties DEF Completed
  <2>5. \A u \in Tasks : u # fix
    BY <1>1, <2>2, ScenarioTyped DEF TypeInv
  <2>6. NoneAhead'
    BY <2>1, <2>3, <2>4, <2>5 DEF StartInv, StartsOnce, NoneAhead, Tasks
  <2>. QED
    BY <2>1, <2>6, StartsStill
<1>7. CASE Fill \/ Filled \/ NoPullRequest \/ WatchCi \/ RunSignal
  <2>1. /\ task' = task /\ scenario' = scenario /\ run.at # "done"
        /\ run'.pending = run.pending /\ run'.completed = run.completed
        /\ run'.todo = run.todo /\ run'.ciTried = run.ciTried
    BY <1>1, <1>7
       DEF Fill, Filled, NoPullRequest, WatchCi, RunSignal, PauseRun, ResumeRun, StopRun,
           WatchCiUnread, PassGate, AtRunBoundary, walkVars, RunType
  <2>2. Pending' = Pending /\ Completed' = Completed
    BY <2>1 DEF Pending, Completed
  <2>. QED
    BY <2>1, <2>2, StartsStill
<1>8. CASE WalkStep \/ WalkFault \/ Outside
  <2>1. UNCHANGED <<run, scenario>> /\ run.at # "done"
    BY <1>2, <1>8 DEF WalkStep, WalkFault, Outside
  <2>2. \A u \in TaskId : task[u].node = "off" => task'[u].node = "off"
    BY <1>1, <1>8, OnlyLiveMove DEF Live
  <2>3. Pending' = Pending /\ Completed' = Completed
    BY <2>1 DEF Pending, Completed
  <2>. QED
    BY <2>1, <2>2, <2>3, StartsStill
<1>9. CASE TurnStep \/ TurnFault \/ UNCHANGED vars
  <2>1. UNCHANGED <<task, run, scenario>> /\ run.at # "done"
    BY <1>2, <1>9 DEF TurnStep, TurnFault, vars, walkVars
  <2>2. Pending' = Pending /\ Completed' = Completed
    BY <2>1 DEF Pending, Completed
  <2>. QED
    BY <2>1, <2>2, StartsStill
<1>10. ASSUME NEW o \in RunOutcome, Finish(o) PROVE FALSE
  BY <1>1, <1>2, <1>10 DEF Finish, RunType
<1>. QED
  BY <1>3, <1>4, <1>5, <1>6, <1>7, <1>8, <1>9, <1>10
     DEF Next, SystemStep, RunStep, RunStopped, AllDone, RunOutOfBudget, RunOutOfGoal, ChildFailed,
         RunOutcome

LEMMA Started == Spec => []StartInv
<1>. QED
  BY StartsInit, StartsNext, PTL DEF Spec

(* A task that has ended does not run again: not after a continue-as-new,  *)
(* which works out anew what remains, and not for a second CI fix.         *)
THEOREM EndedTasksStay == Spec => EndedStaysEnded
<1>1. StartInv /\ [Next]_vars
        => [\A t \in TaskId : task[t].node \in Ended => task'[t] = task[t]]_vars
  <2>. SUFFICES ASSUME StartInv, Next, NEW t \in TaskId, task[t].node \in Ended
       PROVE  task'[t] = task[t]
    OBVIOUS
  <2>1. TypeInv /\ ~Live(t) /\ task[t].node # "off"
    BY DEF StartInv, Live, Ended
  <2>2. CASE RunTask \/ RunCiFix
    BY <2>1, <2>2, StartsWhat
  <2>3. CASE RunStopped \/ AllDone \/ RunOutOfBudget \/ RunOutOfGoal \/ ChildFailed
    <3>1. \E o \in RunOutcome : Finish(o)
      BY <2>3 DEF RunStopped, AllDone, RunOutOfBudget, RunOutOfGoal, ChildFailed, RunOutcome
    <3>. QED
      BY <2>1, <3>1, OnlyLiveMove
  <2>4. CASE WalkStep \/ WalkFault \/ Outside
    BY <2>1, <2>4, OnlyLiveMove
  <2>5. CASE UNCHANGED task
    BY <2>5
  <2>. QED
    BY <2>2, <2>3, <2>4, <2>5
       DEF Next, SystemStep, RunStep, TurnStep, TurnFault, RunSignal, PauseRun, ResumeRun, StopRun,
           WatchCiUnread, ContinueAsNew, Fill, Filled, TakeResult, NoPullRequest, WatchCi, FixEnds,
           PassGate, walkVars
<1>. QED
  BY <1>1, Started, PTL DEF Spec, EndedStaysEnded

-----------------------------------------------------------------------------
(* What a pull request carries                                             *)

(* The flags a step may rely on when its node is reached; a question ends  *)
(* the paid turns.                                                         *)
TaskShape(s) ==
  /\ s.node = "off" => s = Off
  /\ s.busy => s.node \in Paid \cup Ended
  /\ s.node \in {"verify", "review", "open_pr"} => s.checkpoint = s.seq
  /\ s.node \in {"review", "open_pr"} => s.passed = s.seq
  /\ s.node = "open_pr" => s.approved = s.seq
  /\ s.ask => s.node \notin Paid /\ ~s.busy

(* A task past its last turn, which was turn n in every respect. *)
Settled(s, n) ==
  /\ s.node \in {"open_pr", "wait_for_human", "parked"} \cup Ended
  /\ s.seq = n /\ s.checkpoint = n /\ s.passed = n /\ s.approved = n

ShapeInv ==
  /\ StartInv
  /\ \A t \in TaskId : TaskShape(task[t])
  /\ \A b \in Branch : pull[b] # None => Settled(task[pull[b].by], pull[b].turn)

(* What a turn's outcome leaves in the state of its task. *)
TurnTaken(s, a, p) ==
  /\ p.busy = FALSE /\ p.seq = s.seq + 1 /\ p.session = a.at.session /\ p.last = a.at.n
  /\ p.spent = s.spent + a.cost /\ p.cost = s.cost + a.cost /\ (p.ask <=> s.ask \/ a.ask)
  /\ p.node \in Paid \cup {"wait_for_human", "checkpoint"} /\ (p.ask => p.node \notin Paid)

LEMMA OutcomeTaken ==
  ASSUME NEW s \in TaskType, NEW a \in Attempt
  PROVE  TurnTaken(s, a, AfterPlanTurn(s, a)) /\ TurnTaken(s, a, AfterImplementTurn(s, a))
<1>. DEFINE asked == s.ask \/ a.ask
            clear == ~a.ask
            u == AfterTurn(s, a)
            done == [u EXCEPT !.plans = u.plans + 1, !.planned = clear]
            p == [done EXCEPT !.node = AfterPlan(done)]
            q == [u EXCEPT !.implements = u.implements + 1, !.node = "checkpoint"]
<1>1. AfterPlanTurn(s, a) = p /\ AfterImplementTurn(s, a) = q
  BY Zenon DEF AfterPlanTurn, AfterImplementTurn
<1>2. /\ u.busy = FALSE /\ u.seq = s.seq + 1 /\ u.session = a.at.session /\ u.last = a.at.n
      /\ u.spent = s.spent + a.cost /\ u.cost = s.cost + a.cost /\ u.ask = asked
      /\ DOMAIN u = DOMAIN s
  <2>1. u = [s EXCEPT !.busy = FALSE, !.last = a.at.n, !.seq = s.seq + 1, !.session = a.at.session,
                      !.spent = s.spent + a.cost, !.cost = s.cost + a.cost, !.ask = asked]
    BY Zenon DEF AfterTurn
  <2>. HIDE DEF u, asked
  <2>. QED
    BY <2>1 DEF TaskType
<1>3. u \in TaskType /\ done \in TaskType
  <2>1. u \in TaskType
    BY AfterTurnTyped
  <2>2. clear \in BOOLEAN /\ u.plans + 1 \in Nat
    BY <2>1 DEF TaskType
  <2>. HIDE DEF u, clear
  <2>. QED
    BY <2>1, <2>2 DEF TaskType
<1>. HIDE DEF u, asked, clear
<1>4. /\ done.busy = u.busy /\ done.seq = u.seq /\ done.session = u.session /\ done.last = u.last
      /\ done.spent = u.spent /\ done.cost = u.cost /\ done.ask = u.ask
  BY <1>3 DEF TaskType
<1>5. /\ q.busy = u.busy /\ q.seq = u.seq /\ q.session = u.session /\ q.last = u.last
      /\ q.spent = u.spent /\ q.cost = u.cost /\ q.ask = u.ask /\ q.node = "checkpoint"
  BY <1>3 DEF TaskType
<1>. HIDE DEF done
<1>6. /\ p.busy = done.busy /\ p.seq = done.seq /\ p.session = done.session /\ p.last = done.last
      /\ p.spent = done.spent /\ p.cost = done.cost /\ p.ask = done.ask /\ p.node = AfterPlan(done)
  BY <1>3 DEF TaskType
<1>7. /\ AfterPlan(done) \in Paid \cup {"wait_for_human"}
      /\ done.ask => AfterPlan(done) = "wait_for_human"
  BY DEF AfterPlan, Paid
<1>. HIDE DEF p, q
<1>8. TurnTaken(s, a, p)
  BY <1>2, <1>4, <1>6, <1>7 DEF TurnTaken, Paid, asked
<1>9. TurnTaken(s, a, q)
  BY <1>2, <1>5 DEF TurnTaken, Paid, asked
<1>. QED
  BY <1>1, <1>8, <1>9

(* No action of a task, of the operator or of the reviewer breaks its      *)
(* shape, or takes a settled task back to its turns.                       *)
Reshaped(s, p) == TaskShape(p) /\ \A n \in Nat : Settled(s, n) => Settled(p, n)

LEMMA WalkReshapes ==
  ASSUME TurnOK, TasksOK, NEW t \in TaskId, TaskShape(task[t]),
         \/ TaskStep(t) \/ TaskFault(t)
         \/ ResumeTask(t) \/ \E d \in {"approve", "reject"} : Decide(t, d)
  PROVE  Reshaped(task[t], task'[t])
<1>. DEFINE s == task[t]
            p == task'[t]
<1>1. s \in TaskType /\ TaskShape(s)
  BY DEF TasksOK
<1>2. \A r : Become(t, r) => p = r
  BY DEF Become, TasksOK
<1>. SUFFICES Reshaped(s, p)
  OBVIOUS
<1>. HIDE DEF s, p
<1>. USE DEF Paid, Unpaid, Ended
<1>3. CASE StopHere(t) \/ BeginTurn(t)
  <2>1. /\ \/ p = [s EXCEPT !.node = "done", !.outcome = "stopped"]
           \/ p = [s EXCEPT !.busy = TRUE] /\ s.node \in Paid
        /\ ~s.busy
    BY <1>2, <1>3 DEF StopHere, BeginTurn, AtBoundary, Ready, s
  <2>2. CASE p = [s EXCEPT !.busy = TRUE] /\ s.node \in Paid
    <3>1. /\ p.node = s.node /\ p.ask = s.ask /\ p.checkpoint = s.checkpoint /\ p.seq = s.seq
          /\ p.passed = s.passed /\ p.approved = s.approved
      BY <1>1, <2>2 DEF TaskType
    <3>. QED
      BY <1>1, <2>2, <3>1 DEF Reshaped, TaskShape, Settled
  <2>3. CASE p = [s EXCEPT !.node = "done", !.outcome = "stopped"]
    <3>1. /\ p.node = "done" /\ p.busy = s.busy /\ p.checkpoint = s.checkpoint /\ p.seq = s.seq
          /\ p.passed = s.passed /\ p.approved = s.approved
      BY <1>1, <2>3 DEF TaskType
    <3>. QED
      BY <1>1, <2>1, <3>1 DEF Reshaped, TaskShape, Settled
  <2>. QED
    BY <2>1, <2>2, <2>3
<1>4. CASE EndTurn(t)
  <2>1. attempt[t]["live"] \in Attempt
    BY <1>4, OnTyped DEF EndTurn, TurnReturns, On, Slot, TurnOK
  <2>2. TurnTaken(s, attempt[t]["live"], p) /\ s.node \in Paid
    BY <1>1, <1>2, <1>4, <2>1, OutcomeTaken DEF EndTurn, s
  <2>. QED
    BY <2>2 DEF TurnTaken, Reshaped, TaskShape, Settled
<1>5. CASE TurnGivenUp(t) \/ StepFails(t)
  <2>1. /\ p = [s EXCEPT !.node = "failed"]
        /\ s.busy \/ s.node \in Unpaid
    BY <1>2, <1>5 DEF TurnGivenUp, StepFails, s
  <2>2. /\ p.node = "failed" /\ p.busy = s.busy /\ p.checkpoint = s.checkpoint /\ p.seq = s.seq
        /\ p.passed = s.passed /\ p.approved = s.approved /\ p.ask = s.ask
    BY <1>1, <2>1 DEF TaskType
  <2>. QED
    BY <1>1, <2>2 DEF Reshaped, TaskShape, Settled
<1>6. CASE Checkpoint(t)
  <2>1. p = [s EXCEPT !.checkpoint = s.seq, !.node = "verify"] /\ s.node = "checkpoint"
    BY <1>2, <1>6 DEF Checkpoint, s
  <2>2. p.node = "verify" /\ p.busy = s.busy /\ p.checkpoint = s.seq /\ p.seq = s.seq
    BY <1>1, <2>1 DEF TaskType
  <2>. QED
    BY <1>1, <2>1, <2>2 DEF Reshaped, TaskShape, Settled
<1>7. CASE Verify(t)
  <2>1. PICK b \in BOOLEAN :
          Become(t, [[s EXCEPT !.passed = IF b THEN s.seq ELSE 0]
                       EXCEPT !.node = AfterVerify([s EXCEPT !.passed = IF b THEN s.seq ELSE 0])])
    BY <1>7 DEF Verify, s
  <2>. DEFINE v == [s EXCEPT !.passed = IF b THEN s.seq ELSE 0]
  <2>2. p = [v EXCEPT !.node = AfterVerify(v)] /\ s.node = "verify"
    BY <1>2, <1>7, <2>1 DEF Verify, Ready, s
  <2>3. /\ v \in TaskType /\ v.passed \in {s.seq, 0} /\ v.busy = s.busy /\ v.checkpoint = s.checkpoint
        /\ v.seq = s.seq /\ v.ask = s.ask
    BY <1>1 DEF TaskType
  <2>. HIDE DEF v
  <2>4. /\ p.node = AfterVerify(v) /\ p.passed = v.passed /\ p.busy = v.busy /\ p.ask = v.ask
        /\ p.checkpoint = v.checkpoint /\ p.seq = v.seq
    BY <2>2, <2>3 DEF TaskType
  <2>5. /\ AfterVerify(v) \in {"wait_for_human", "implement", "review"}
        /\ v.ask => AfterVerify(v) = "wait_for_human"
        /\ AfterVerify(v) = "review" => v.passed # 0
    BY DEF AfterVerify, AgainOrPark
  <2>. QED
    BY <1>1, <2>2, <2>3, <2>4, <2>5 DEF Reshaped, TaskShape, Settled
<1>8. CASE Review(t)
  <2>1. PICK b \in BOOLEAN :
          Become(t, [[s EXCEPT !.approved = IF b THEN s.seq ELSE 0]
                       EXCEPT !.node = AfterReview([s EXCEPT !.approved = IF b THEN s.seq ELSE 0])])
    BY <1>8 DEF Review, s
  <2>. DEFINE v == [s EXCEPT !.approved = IF b THEN s.seq ELSE 0]
  <2>2. p = [v EXCEPT !.node = AfterReview(v)] /\ s.node = "review"
    BY <1>2, <1>8, <2>1 DEF Review, Ready, s
  <2>3. /\ v \in TaskType /\ v.approved \in {s.seq, 0} /\ v.busy = s.busy /\ v.passed = s.passed
        /\ v.checkpoint = s.checkpoint /\ v.seq = s.seq /\ v.ask = s.ask
    BY <1>1 DEF TaskType
  <2>. HIDE DEF v
  <2>4. /\ p.node = AfterReview(v) /\ p.approved = v.approved /\ p.passed = v.passed
        /\ p.busy = v.busy /\ p.ask = v.ask /\ p.checkpoint = v.checkpoint /\ p.seq = v.seq
    BY <2>2, <2>3 DEF TaskType
  <2>5. /\ AfterReview(v) \in {"wait_for_human", "implement", "open_pr"}
        /\ v.ask => AfterReview(v) = "wait_for_human"
        /\ AfterReview(v) = "open_pr" => v.approved # 0
    BY DEF AfterReview, AgainOrPark
  <2>. QED
    BY <1>1, <2>2, <2>3, <2>4, <2>5 DEF Reshaped, TaskShape, Settled
<1>9. CASE OpenPr(t) \/ Park(t) \/ Unpark(t)
  <2>1. /\ \/ p = [s EXCEPT !.pr = TRUE, !.node = "wait_for_human"]
           \/ p = [s EXCEPT !.node = "parked", !.decision = "none"]
           \/ \E o : p = [s EXCEPT !.node = "done", !.outcome = o]
        /\ s.node \in {"open_pr", "wait_for_human", "parked"}
    BY <1>2, <1>9 DEF OpenPr, Park, Unpark, Ready, s
  <2>2. /\ p.node \in {"wait_for_human", "parked", "done"} /\ p.busy = s.busy
        /\ p.checkpoint = s.checkpoint /\ p.seq = s.seq
        /\ p.passed = s.passed /\ p.approved = s.approved
    BY <1>1, <2>1 DEF TaskType
  <2>. QED
    BY <1>1, <2>1, <2>2 DEF Reshaped, TaskShape, Settled
<1>10. CASE PauseTask(t) \/ StopTask(t) \/ ResumeTask(t) \/ \E d \in {"approve", "reject"} : Decide(t, d)
  <2>1. /\ \/ p = [s EXCEPT !.paused = TRUE]
           \/ p = [s EXCEPT !.paused = FALSE]
           \/ p = [s EXCEPT !.stopped = TRUE, !.paused = FALSE]
           \/ \E d : p = [s EXCEPT !.decision = d]
        /\ s.node # "off"
    BY <1>2, <1>10 DEF PauseTask, StopTask, ResumeTask, Decide, Live, s
  <2>2. /\ p.node = s.node /\ p.busy = s.busy /\ p.checkpoint = s.checkpoint /\ p.seq = s.seq
        /\ p.passed = s.passed /\ p.approved = s.approved /\ p.ask = s.ask
    BY <1>1, <2>1 DEF TaskType
  <2>. QED
    BY <1>1, <2>1, <2>2 DEF Reshaped, TaskShape, Settled
<1>11. CASE OpenPrAgain(t)
  BY <1>1, <1>11 DEF OpenPrAgain, Reshaped, s, p
<1>. QED
  BY <1>3, <1>4, <1>5, <1>6, <1>7, <1>8, <1>9, <1>10, <1>11 DEF TaskStep, TaskFault, s, p

(* Only a task's own actions and its owner's start and end change it. *)
LEMMA WalkMoves ==
  ASSUME TypeInv, NEW t \in TaskId,
         \/ TaskStep(t) \/ TaskFault(t)
         \/ ResumeTask(t) \/ \E d \in {"approve", "reject"} : Decide(t, d)
  PROVE  \A v \in TaskId : v # t => task'[v] = task[v]
<1>1. task' = task \/ \E s : Become(t, s)
  BY DEF TaskStep, TaskFault, StopHere, BeginTurn, EndTurn, TurnGivenUp, Checkpoint, Verify, Review,
         OpenPr, Park, Unpark, OpenPrAgain, StepFails, PauseTask, StopTask, ResumeTask, Decide
<1>. QED
  BY <1>1 DEF Become, TypeInv, TasksOK

LEMMA ShapeWalk ==
  ASSUME ShapeInv, NEW t \in TaskId,
         \/ TaskStep(t) \/ TaskFault(t)
         \/ ResumeTask(t) \/ \E d \in {"approve", "reject"} : Decide(t, d)
  PROVE  /\ \A v \in TaskId : TaskShape(task'[v])
         /\ \A b \in Branch : pull'[b] # None => Settled(task'[pull'[b].by], pull'[b].turn)
<1>1. TypeInv /\ TurnOK /\ TasksOK /\ GithubOK
  BY DEF ShapeInv, StartInv, TypeInv
<1>2. Reshaped(task[t], task'[t]) /\ \A v \in TaskId : v # t => task'[v] = task[v]
  BY <1>1, WalkReshapes, WalkMoves DEF ShapeInv
<1>3. \A v \in TaskId : TaskShape(task'[v])
  BY <1>2 DEF ShapeInv, Reshaped
<1>4. ASSUME NEW v \in TaskId, NEW n \in Nat, Settled(task[v], n)
      PROVE  Settled(task'[v], n)
  BY <1>2, <1>4 DEF Reshaped
<1>5. ASSUME NEW b \in Branch, pull[b] # None
      PROVE  Settled(task'[pull[b].by], pull[b].turn)
  <2>1. pull[b].by \in TaskId /\ pull[b].turn \in Nat
    BY <1>1, <1>5 DEF GithubOK, PrHead
  <2>. QED
    BY <1>4, <1>5, <2>1 DEF ShapeInv
<1>6. CASE UNCHANGED pull
  BY <1>3, <1>5, <1>6
<1>7. CASE Push(t) /\ task[t].node = "open_pr"
  <2>1. task[t].checkpoint \in Nat /\ task[t] \in TaskType
    BY <1>1 DEF TasksOK, TaskType
  <2>2. Settled(task[t], task[t].checkpoint)
    BY <1>7 DEF ShapeInv, TaskShape, Settled
  <2>3. Settled(task'[t], task[t].checkpoint)
    BY <1>4, <2>1, <2>2
  <2>4. \A b \in Branch : \/ pull'[b] = pull[b]
                          \/ pull'[b] = [by |-> t, turn |-> task[t].checkpoint]
    BY <1>1, <1>7 DEF Push, GithubOK, github
  <2>. QED
    BY <1>3, <1>5, <2>3, <2>4
<1>. QED
  BY <1>6, <1>7
     DEF TaskStep, TaskFault, StopHere, BeginTurn, EndTurn, TurnGivenUp, Checkpoint, Verify, Review,
         OpenPr, Park, Unpark, OpenPrAgain, StepFails, PauseTask, StopTask, ResumeTask, Decide, github,
         Ready

LEMMA ShapeRun ==
  ASSUME ShapeInv, RunTask \/ RunCiFix \/ \E o \in RunOutcome : Finish(o)
  PROVE  /\ \A v \in TaskId : TaskShape(task'[v])
         /\ \A b \in Branch : pull'[b] # None => Settled(task'[pull'[b].by], pull'[b].turn)
<1>1. StartInv /\ TypeInv /\ TasksOK /\ GithubOK /\ UNCHANGED pull
  BY DEF ShapeInv, StartInv, TypeInv, RunTask, RunCiFix, Finish, github
<1>2. \A b \in Branch : pull[b] # None => pull[b].by \in TaskId
  BY <1>1 DEF GithubOK, PrHead
<1>3. CASE RunTask \/ RunCiFix
  <2>1. PICK u \in TaskId :
          /\ task[u].node = "off" /\ task'[u] = NewTask(BudgetLeft)
          /\ \A v \in TaskId : v # u => task'[v] = task[v]
    <3>1. PICK u \in TaskId, s \in TaskType :
            /\ task' = [task EXCEPT ![u] = s] /\ task[u].node = "off" /\ s = NewTask(BudgetLeft)
            /\ \A v \in TaskId : v # u => task'[v] = task[v]
      BY <1>1, <1>3, StartsWhat
    <3>. QED
      BY <1>1, <3>1 DEF TasksOK
  <2>2. TaskShape(task'[u])
    BY <2>1 DEF NewTask, Off, TaskShape, Paid
  <2>3. \A n : ~Settled(task[u], n)
    BY <2>1 DEF Settled, Ended
  <2>. QED
    BY <1>1, <1>2, <2>1, <2>2, <2>3 DEF ShapeInv
<1>4. CASE \E o \in RunOutcome : Finish(o)
  <2>1. ASSUME NEW v \in TaskId
        PROVE  TaskShape(task'[v]) /\ \A n : Settled(task[v], n) => Settled(task'[v], n)
    <3>. DEFINE s == task[v]
                p == task'[v]
    <3>1. p = s \/ (p = [s EXCEPT !.node = "terminated"] /\ s.node # "off")
      BY <1>4 DEF Finish, Live
    <3>2. s \in TaskType /\ TaskShape(s)
      BY <1>1 DEF ShapeInv, TasksOK
    <3>. SUFFICES TaskShape(p) /\ \A n : Settled(s, n) => Settled(p, n)
      OBVIOUS
    <3>. HIDE DEF s, p
    <3>3. CASE p = [s EXCEPT !.node = "terminated"]
      <4>1. /\ p.node = "terminated" /\ p.busy = s.busy /\ p.ask = s.ask /\ p.seq = s.seq
            /\ p.checkpoint = s.checkpoint /\ p.passed = s.passed /\ p.approved = s.approved
        BY <3>2, <3>3 DEF TaskType
      <4>. QED
        BY <3>2, <4>1 DEF TaskShape, Settled, Paid, Ended
    <3>. QED
      BY <3>1, <3>2, <3>3
  <2>. QED
    BY <1>1, <1>2, <2>1 DEF ShapeInv
<1>. QED
  BY <1>3, <1>4

LEMMA Shaped == Spec => []ShapeInv
<1>1. Init => ShapeInv
  BY StartsInit DEF Init, ShapeInv, TaskShape, Off, Paid
<1>2. ShapeInv /\ [Next]_vars => ShapeInv'
  <2>. SUFFICES ASSUME ShapeInv, [Next]_vars PROVE ShapeInv'
    OBVIOUS
  <2>1. StartInv'
    BY StartsNext DEF ShapeInv
  <2>2. CASE WalkStep \/ WalkFault
    BY <2>1, <2>2, ShapeWalk DEF WalkStep, WalkFault, ShapeInv
  <2>3. ASSUME NEW t \in TaskId, ResumeTask(t) \/ \E d \in {"approve", "reject"} : Decide(t, d)
        PROVE  ShapeInv'
    BY <2>1, <2>3, ShapeWalk DEF ShapeInv
  <2>4. CASE RunTask \/ RunCiFix
    BY <2>1, <2>4, ShapeRun DEF ShapeInv
  <2>5. CASE RunStopped \/ AllDone \/ RunOutOfBudget \/ RunOutOfGoal \/ ChildFailed
    <3>1. \E o \in RunOutcome : Finish(o)
      BY <2>5 DEF RunStopped, AllDone, RunOutOfBudget, RunOutOfGoal, ChildFailed, RunOutcome
    <3>. QED
      BY <2>1, <3>1, ShapeRun DEF ShapeInv
  <2>6. CASE UNCHANGED <<task, pull>>
    BY <2>1, <2>6 DEF ShapeInv
  <2>. QED
    BY <2>2, <2>3, <2>4, <2>5, <2>6
       DEF Next, SystemStep, RunStep, TurnStep, TurnFault, RunSignal, PauseRun, ResumeRun, StopRun,
           WatchCiUnread, ContinueAsNew, Fill, Filled, TakeResult, NoPullRequest, WatchCi, FixEnds,
           PassGate, walkVars, github, Outside, CiReports, vars
<1>. QED
  BY <1>1, <1>2, PTL DEF Spec

(* The head of a pull request was checkpointed, verified and approved, as  *)
(* the same turn, by the task that pushed it, and that task takes no       *)
(* further turn: whatever a retried open_pr, a second task of the branch   *)
(* or a stop does in between.                                              *)
THEOREM PushedWasApproved == Spec => []PushedIsApproved
<1>1. ShapeInv => PushedIsApproved
  BY DEF ShapeInv, PushedIsApproved, Settled
<1>. QED
  BY <1>1, Shaped, PTL
=============================================================================
