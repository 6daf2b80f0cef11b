--------------------------- MODULE PaidTurnProofs --------------------------
(***************************************************************************)
(* The money side of a durable run, for every scenario and any number of   *)
(* faults: what the engine has been paid for, what the ledger knows of it, *)
(* and what a task believes it has spent.  Seen from one task every step   *)
(* of the run is one of a few effects (EachTask); the invariants are then  *)
(* proved of one task at a time, effect by effect.                         *)
(***************************************************************************)
EXTENDS DurableRunProofs

-----------------------------------------------------------------------------
(* What a step does to one task's turns                                    *)

(* The part of the task's state that its turns read and write. *)
SameView(s, p) ==
  /\ p.busy = s.busy /\ p.seq = s.seq /\ p.ask = s.ask /\ p.session = s.session
  /\ p.last = s.last /\ p.spent = s.spent /\ p.cost = s.cost

(* No turn is bought or recorded. *)
Still(t) ==
  /\ opened'[t] = opened[t] /\ bought'[t] = bought[t]
  /\ started'[t] = started[t] /\ finished'[t] = finished[t]

(* An attempt ends, starts over or becomes the stale one; what it had not  *)
(* recorded, or may not, is exposed.                                       *)
Unsettled == {"scan", "post", "record"}
Lost(t) ==
  /\ \/ attempt'[t]["live"] = attempt[t]["live"]
     \/ /\ \/ attempt'[t]["live"] = None
           \/ /\ attempt[t]["live"] # None
              /\ attempt'[t]["live"] = FirstAttempt(attempt[t]["live"].in)
        /\ On(t, "live", "record") => Key(attempt[t]["live"]) \in exposed'[t]
  /\ \/ attempt'[t]["stale"] = attempt[t]["stale"]
     \/ attempt'[t]["stale"] = None
     \/ /\ attempt'[t]["stale"] = attempt[t]["live"] /\ attempt[t]["live"] # None
        /\ attempt[t]["live"].pc \in Unsettled => Key(attempt[t]["live"]) \in exposed'[t]

(* Sessions may be lost, and a refused attempt may leave a new one behind. *)
Drops(t) ==
  /\ bought'[t] = bought[t] /\ started'[t] = started[t] /\ finished'[t] = finished[t]
  /\ opened[t] <= opened'[t] /\ held'[t] \subseteq held[t] \cup (1..opened'[t])
  /\ Lost(t) /\ exposed[t] \subseteq exposed'[t]

(* One attempt moves on with what it was handed. *)
Moves(t, x, a) ==
  /\ attempt'[t][x] = a /\ a \in Attempt /\ a.in = attempt[t][x].in
  /\ \A y \in Slot : y # x => attempt'[t][y] = attempt[t][y]
  /\ exposed'[t] = exposed[t]

Adopts(t, x, a) ==
  /\ On(t, x, "scan") /\ Still(t) /\ Moves(t, x, a) /\ held'[t] = held[t]
  /\ Recorded(t, Key(a)) /\ a.at = FirstStart(t, Key(a))
  /\ \/ a.pc = "stream"
     \/ /\ a.pc = "return"
        /\ \E f \in finished[t] : f.at = a.at /\ f.cost = a.cost /\ f.ask = a.ask

Unbought(t, x, a) ==
  /\ On(t, x, "scan") /\ Still(t) /\ Moves(t, x, a) /\ held'[t] = held[t]
  /\ a.pc = "post" /\ ~Recorded(t, Key(a))

(* Post, seen from the task. *)
Posts(t, in) ==
  LET at == Place(t, in)
  IN /\ opened'[t] = (IF at.session > opened[t] THEN at.session ELSE opened[t])
     /\ held'[t] = held[t] \cup {at.session}
     /\ \/ bought'[t] = bought[t] /\ \E u \in bought[t] : u.at = at
        \/ /\ \A u \in bought[t] : u.at # at
           /\ bought'[t] = bought[t] \cup
                {[at |-> at, key |-> in.seq + 1, how |-> "running", usage |-> 0]}
     /\ started'[t] = started[t] /\ finished'[t] = finished[t]

Buys(t, x, a) ==
  /\ On(t, x, "post") /\ Moves(t, x, a) /\ Posts(t, a.in)
  /\ a.pc = "record" /\ a.at = Place(t, a.in)

BuysUnheard(t, x) ==
  /\ On(t, x, "post") /\ Lost(t) /\ Posts(t, attempt[t][x].in)
  /\ exposed'[t] = exposed[t] \cup {Key(attempt[t][x])}

Records(t, x, a) ==
  /\ On(t, x, "record") /\ Moves(t, x, a) /\ held'[t] = held[t]
  /\ a.pc = "stream" /\ a.at = attempt[t][x].at
  /\ started'[t] = Append(started[t], [key |-> Key(a), at |-> a.at])
  /\ opened'[t] = opened[t] /\ bought'[t] = bought[t] /\ finished'[t] = finished[t]

Reads(t, x, a) ==
  /\ On(t, x, "stream") /\ Still(t) /\ Moves(t, x, a) /\ held'[t] = held[t]
  /\ a.pc = "finish" /\ a.at = attempt[t][x].at
  /\ \E u \in bought[t] : /\ u.at = a.at /\ u.how = IF a.ask THEN "ask" ELSE "completed"
                         /\ a.cost = SpendFromEvent(u, a.in)

Finishes(t, x, a) ==
  /\ On(t, x, "finish") /\ Moves(t, x, a) /\ held'[t] = held[t]
  /\ a.pc = "return" /\ a.at = attempt[t][x].at
  /\ a.cost = attempt[t][x].cost /\ a.ask = attempt[t][x].ask
  /\ finished'[t] = finished[t] \cup {[at |-> a.at, cost |-> a.cost, ask |-> a.ask]}
  /\ opened'[t] = opened[t] /\ bought'[t] = bought[t] /\ started'[t] = started[t]

(* A running turn ends. *)
Over(t, u, v) ==
  /\ u \in bought[t] /\ u.how = "running" /\ bought'[t] = (bought[t] \ {u}) \cup {v}
  /\ v \in Turn /\ v.at = u.at /\ v.key = u.key /\ v.how # "running"
  /\ Lost(t) /\ opened'[t] = opened[t] /\ held'[t] = held[t] /\ exposed'[t] = exposed[t]
  /\ started'[t] = started[t] /\ finished'[t] = finished[t]

Begins(t) ==
  /\ Still(t) /\ held'[t] = held[t] /\ exposed'[t] = exposed[t]
  /\ ~task[t].busy /\ task[t].node \in Paid
  /\ attempt'[t]["live"] = FirstAttempt(InputOf(task[t]))
  /\ attempt'[t]["stale"] = attempt[t]["stale"]
  /\ task'[t].busy = TRUE /\ InputOf(task'[t]) = InputOf(task[t])
  /\ task'[t].ask = task[t].ask /\ task'[t].cost = task[t].cost

Ends(t) ==
  /\ Still(t) /\ held'[t] = held[t] /\ exposed'[t] = exposed[t]
  /\ On(t, "live", "return") /\ task[t].busy
  /\ attempt'[t]["live"] = None /\ attempt'[t]["stale"] = attempt[t]["stale"]
  /\ TurnTaken(task[t], attempt[t]["live"], task'[t])

Turns(t) ==
  \/ Drops(t)
  \/ \E x \in Slot : BuysUnheard(t, x) \/ \E a \in Attempt :
       \/ Adopts(t, x, a) \/ Unbought(t, x, a) \/ Buys(t, x, a)
       \/ Records(t, x, a) \/ Reads(t, x, a) \/ Finishes(t, x, a)
  \/ \E u, v : Over(t, u, v)

Effect(t) == (Turns(t) /\ SameView(task[t], task'[t])) \/ Begins(t) \/ Ends(t)

-----------------------------------------------------------------------------
(* Every step is one of these effects on every task                        *)

Unmoved(t) ==
  /\ Still(t) /\ held'[t] = held[t] /\ exposed'[t] = exposed[t] /\ attempt'[t] = attempt[t]

LEMMA UnmovedDrops ==
  ASSUME TurnTypeOK, NEW t \in TaskId, Unmoved(t)
  PROVE  Drops(t)
  BY DEF Unmoved, Still, Drops, Lost, TurnTypeOK

LEMMA FailLoses ==
  ASSUME TurnTypeOK, NEW t \in TaskId, NEW x \in Slot, attempt[t][x] # None, Fail(t, x),
         attempt[t][x].pc # "record"
  PROVE  Lost(t) /\ \A v \in TaskId : v # t => attempt'[v] = attempt[v]
<1>1. attempt[t] \in Slots
  BY DEF TurnTypeOK, Slots
<1>2. CASE x = "stale"
  <2>1. attempt' = [attempt EXCEPT ![t] = [attempt[t] EXCEPT !["stale"] = None]]
    BY <1>2 DEF Fail
  <2>2. attempt'[t]["live"] = attempt[t]["live"] /\ attempt'[t]["stale"] = None
    BY <1>1, <2>1 DEF TurnTypeOK, Slots, Slot
  <2>. QED
    BY <2>1, <2>2 DEF Lost, TurnTypeOK
<1>3. CASE x = "live"
  <2>1. attempt' = [attempt EXCEPT ![t] = After(t, attempt[t])]
    BY <1>3 DEF Fail
  <2>2. /\ attempt'[t]["live"] \in {FirstAttempt(attempt[t]["live"].in), None}
        /\ attempt'[t]["stale"] = attempt[t]["stale"]
    BY <1>1, <2>1 DEF After, TurnTypeOK, Slots, Slot
  <2>3. ~On(t, "live", "record") /\ attempt[t]["live"] # None
    BY <1>3 DEF On
  <2>. QED
    BY <2>1, <2>2, <2>3 DEF Lost, TurnTypeOK
<1>. QED
  BY <1>2, <1>3 DEF Slot

LEMMA MoveMoves ==
  ASSUME TurnTypeOK, NEW t \in TaskId, NEW x \in Slot, NEW a \in Attempt, MoveTo(t, x, a),
         a.in = attempt[t][x].in, UNCHANGED exposed
  PROVE  Moves(t, x, a) /\ \A v \in TaskId : v # t => attempt'[v] = attempt[v]
<1>1. attempt' = [attempt EXCEPT ![t] = [attempt[t] EXCEPT ![x] = a]]
  BY DEF MoveTo
<1>2. attempt[t] \in Slots
  BY DEF TurnTypeOK, Slots
<1>. QED
  BY <1>1, <1>2 DEF Moves, TurnTypeOK, Slots

LEMMA PostPosts ==
  ASSUME TurnOK, NEW t \in TaskId, NEW in \in Input, Post(t, in), UNCHANGED <<started, finished>>
  PROVE  /\ Posts(t, in)
         /\ \A v \in TaskId : v # t => /\ opened'[v] = opened[v] /\ held'[v] = held[v]
                                       /\ bought'[v] = bought[v]
<1>. DEFINE at == Place(t, in)
            u == [at |-> at, key |-> in.seq + 1, how |-> "running", usage |-> 0]
<1>1. /\ opened' = [opened EXCEPT ![t] = IF at.session > opened[t] THEN at.session ELSE opened[t]]
      /\ held' = [held EXCEPT ![t] = held[t] \cup {at.session}]
      /\ bought' = IF \E w \in bought[t] : w.at = at THEN bought
                   ELSE [bought EXCEPT ![t] = bought[t] \cup {u}]
  BY DEF Post, OpenSession
<1>2. /\ opened'[t] = (IF at.session > opened[t] THEN at.session ELSE opened[t])
      /\ held'[t] = held[t] \cup {at.session}
      /\ \/ bought'[t] = bought[t] /\ \E w \in bought[t] : w.at = at
         \/ (\A w \in bought[t] : w.at # at) /\ bought'[t] = bought[t] \cup {u}
  BY <1>1 DEF TurnOK, TurnTypeOK
<1>3. \A v \in TaskId : v # t => /\ opened'[v] = opened[v] /\ held'[v] = held[v]
                                 /\ bought'[v] = bought[v]
  BY <1>1 DEF TurnOK, TurnTypeOK
<1>. QED
  BY <1>2, <1>3 DEF Posts

LEMMA ScanEffect ==
  ASSUME TurnOK, NEW t \in TaskId, NEW x \in Slot,
         ScanFinished(t, x) \/ ScanInFlight(t, x) \/ ScanUnbought(t, x)
  PROVE  Turns(t) /\ \A v \in TaskId : v # t => Unmoved(v)
<1>. DEFINE a == attempt[t][x]
            at == FirstStart(t, Key(a))
<1>1. On(t, x, "scan") /\ a \in Attempt /\ TurnTypeOK /\ a # None
  BY OnTyped DEF ScanFinished, ScanInFlight, ScanUnbought, On, TurnOK
<1>2. UNCHANGED <<held, opened, bought, started, finished, exposed>>
  BY DEF ScanFinished, ScanInFlight, ScanUnbought, engine, ledger
<1>3. SUFFICES Turns(t) /\ \A v \in TaskId : v # t => attempt'[v] = attempt[v]
  BY <1>2 DEF Unmoved, Still
<1>4. CASE ScanFinished(t, x)
  <2>1. PICK f \in Completions(t, at) :
          MoveTo(t, x, [a EXCEPT !.pc = "return", !.at = at, !.cost = f.cost,
                                 !.ask = f.ask, !.resumed = TRUE])
    BY <1>4 DEF ScanFinished
  <2>. DEFINE b == [a EXCEPT !.pc = "return", !.at = at, !.cost = f.cost, !.ask = f.ask,
                             !.resumed = TRUE]
  <2>2. Recorded(t, Key(a)) /\ at \in At
    BY <1>1, <1>4, FirstStartTyped DEF ScanFinished
  <2>3. f \in finished[t] /\ f.at = at /\ f \in FinishRecord
    BY <1>1 DEF Completions, TurnTypeOK
  <2>. HIDE DEF at, a
  <2>4. /\ b \in Attempt /\ b.in = a.in /\ b.pc = "return" /\ b.at = at /\ b.cost = f.cost
        /\ b.ask = f.ask
    BY <1>1, <2>2, <2>3 DEF Attempt, Pc, FinishRecord
  <2>. HIDE DEF b
  <2>5. Moves(t, x, b) /\ \A v \in TaskId : v # t => attempt'[v] = attempt[v]
    BY <1>1, <1>2, <2>1, <2>4, MoveMoves DEF a, b
  <2>6. Key(b) = Key(a)
    BY <2>4 DEF Key
  <2>7. Adopts(t, x, b)
    BY <1>1, <1>2, <2>2, <2>3, <2>4, <2>5, <2>6 DEF Adopts, Still, at
  <2>. QED
    BY <2>4, <2>5, <2>7 DEF Turns
<1>5. CASE ScanInFlight(t, x)
  <2>. DEFINE b == [a EXCEPT !.pc = "stream", !.at = at, !.resumed = TRUE]
  <2>1. Recorded(t, Key(a)) /\ at \in At /\ (MoveTo(t, x, b) \/ Fail(t, x))
    BY <1>1, <1>5, FirstStartTyped DEF ScanInFlight
  <2>2. CASE Fail(t, x)
    <3>1. a.pc # "record"
      BY <1>1 DEF On
    <3>2. Lost(t) /\ \A v \in TaskId : v # t => attempt'[v] = attempt[v]
      BY <1>1, <2>2, <3>1, FailLoses
    <3>3. opened[t] <= opened'[t]
      BY <1>1, <1>2 DEF TurnTypeOK
    <3>. QED
      BY <1>2, <3>2, <3>3 DEF Turns, Drops, Still
  <2>3. CASE MoveTo(t, x, b)
    <3>. HIDE DEF at, a
    <3>1. b \in Attempt /\ b.in = a.in /\ b.pc = "stream" /\ b.at = at
      BY <1>1, <2>1 DEF Attempt, Pc
    <3>. HIDE DEF b
    <3>2. Moves(t, x, b) /\ \A v \in TaskId : v # t => attempt'[v] = attempt[v]
      BY <1>1, <1>2, <2>3, <3>1, MoveMoves DEF a
    <3>3. Key(b) = Key(a)
      BY <3>1 DEF Key
    <3>4. Adopts(t, x, b)
      BY <1>1, <1>2, <2>1, <3>1, <3>2, <3>3 DEF Adopts, Still, at
    <3>. QED
      BY <3>1, <3>2, <3>4 DEF Turns
  <2>. QED
    BY <2>1, <2>2, <2>3
<1>6. CASE ScanUnbought(t, x)
  <2>. DEFINE b == [a EXCEPT !.pc = "post"]
  <2>1. ~Recorded(t, Key(a)) /\ MoveTo(t, x, b)
    BY <1>6 DEF ScanUnbought
  <2>. HIDE DEF a
  <2>2. b \in Attempt /\ b.in = a.in /\ b.pc = "post"
    BY <1>1 DEF Attempt, Pc
  <2>. HIDE DEF b
  <2>3. Moves(t, x, b) /\ \A v \in TaskId : v # t => attempt'[v] = attempt[v]
    BY <1>1, <1>2, <2>1, <2>2, MoveMoves DEF a
  <2>4. Key(b) = Key(a)
    BY <2>2 DEF Key
  <2>5. Unbought(t, x, b)
    BY <1>1, <1>2, <2>1, <2>2, <2>3, <2>4 DEF Unbought, Still
  <2>. QED
    BY <2>2, <2>3, <2>5 DEF Turns
<1>. QED
  BY <1>4, <1>5, <1>6

LEMMA OpensWhat ==
  ASSUME TurnTypeOK, NEW t \in TaskId, NEW in \in Input,
         UNCHANGED <<held, opened>> \/ OpenSession(t, SessionFor(t, in))
  PROVE  /\ opened[t] <= opened'[t] /\ held'[t] \subseteq held[t] \cup (1..opened'[t])
         /\ \A v \in TaskId : v # t => opened'[v] = opened[v] /\ held'[v] = held[v]
<1>1. opened[t] \in Nat
  BY DEF TurnTypeOK
<1>2. CASE UNCHANGED <<held, opened>>
  BY <1>1, <1>2
<1>3. CASE OpenSession(t, SessionFor(t, in))
  <2>. DEFINE s == SessionFor(t, in)
  <2>1. s \in Nat /\ (s \in held[t] \/ s = opened[t] + 1)
    BY SessionTyped DEF SessionFor
  <2>. HIDE DEF s
  <2>2. /\ opened' = [opened EXCEPT ![t] = IF s > opened[t] THEN s ELSE opened[t]]
        /\ held' = [held EXCEPT ![t] = held[t] \cup {s}]
    BY <1>3 DEF OpenSession, s
  <2>3. /\ opened'[t] = (IF s > opened[t] THEN s ELSE opened[t]) /\ held'[t] = held[t] \cup {s}
        /\ \A v \in TaskId : v # t => opened'[v] = opened[v] /\ held'[v] = held[v]
    BY <2>2 DEF TurnTypeOK
  <2>. QED
    BY <1>1, <2>1, <2>3
<1>. QED
  BY <1>2, <1>3

LEMMA BuyEffect ==
  ASSUME TurnOK, NEW t \in TaskId, NEW x \in Slot,
         Buy(t, x) \/ BuyUnanswered(t, x) \/ BuyRefused(t, x)
  PROVE  Turns(t) /\ \A v \in TaskId : v # t => Unmoved(v)
<1>. DEFINE a == attempt[t][x]
<1>1. On(t, x, "post") /\ a \in Attempt /\ TurnTypeOK /\ a # None /\ a.pc # "record"
  BY OnTyped DEF Buy, BuyUnanswered, BuyRefused, On, TurnOK
<1>2. a.in \in Input /\ UNCHANGED <<started, finished>>
  BY <1>1 DEF Attempt, Buy, BuyUnanswered, BuyRefused, ledger
<1>3. CASE Buy(t, x)
  <2>. DEFINE at == Place(t, a.in)
              b == [a EXCEPT !.pc = "record", !.at = at]
  <2>1. Post(t, a.in) /\ MoveTo(t, x, b) /\ UNCHANGED exposed
    BY <1>3 DEF Buy
  <2>2. at \in At
    BY <1>2, PlaceTyped
  <2>. HIDE DEF at, a
  <2>3. b \in Attempt /\ b.in = a.in /\ b.pc = "record" /\ b.at = at
    BY <1>1, <2>2 DEF Attempt, Pc
  <2>. HIDE DEF b
  <2>4. Moves(t, x, b) /\ \A v \in TaskId : v # t => attempt'[v] = attempt[v]
    BY <1>1, <2>1, <2>3, MoveMoves DEF a
  <2>5. /\ Posts(t, b.in)
        /\ \A v \in TaskId : v # t => /\ opened'[v] = opened[v] /\ held'[v] = held[v]
                                      /\ bought'[v] = bought[v]
    BY <1>2, <2>1, <2>3, PostPosts
  <2>6. Buys(t, x, b)
    BY <1>1, <2>3, <2>4, <2>5 DEF Buys, at
  <2>. QED
    BY <1>2, <2>1, <2>3, <2>4, <2>5, <2>6 DEF Turns, Unmoved, Still
<1>4. CASE BuyUnanswered(t, x)
  <2>1. /\ Post(t, a.in) /\ Fail(t, x)
        /\ exposed' = [exposed EXCEPT ![t] = exposed[t] \cup {Key(a)}]
    BY <1>4 DEF BuyUnanswered
  <2>2. /\ exposed'[t] = exposed[t] \cup {Key(a)}
        /\ \A v \in TaskId : v # t => exposed'[v] = exposed[v]
    BY <1>1, <2>1 DEF TurnTypeOK
  <2>3. Lost(t) /\ \A v \in TaskId : v # t => attempt'[v] = attempt[v]
    BY <1>1, <2>1, FailLoses
  <2>4. /\ Posts(t, a.in)
        /\ \A v \in TaskId : v # t => /\ opened'[v] = opened[v] /\ held'[v] = held[v]
                                      /\ bought'[v] = bought[v]
    BY <1>2, <2>1, PostPosts
  <2>. QED
    BY <1>1, <1>2, <2>2, <2>3, <2>4 DEF Turns, BuysUnheard, Unmoved, Still
<1>5. CASE BuyRefused(t, x)
  <2>1. Fail(t, x) /\ UNCHANGED <<bought, exposed>>
    BY <1>5 DEF BuyRefused
  <2>2. Lost(t) /\ \A v \in TaskId : v # t => attempt'[v] = attempt[v]
    BY <1>1, <2>1, FailLoses
  <2>3. /\ opened[t] <= opened'[t] /\ held'[t] \subseteq held[t] \cup (1..opened'[t])
        /\ \A v \in TaskId : v # t => opened'[v] = opened[v] /\ held'[v] = held[v]
    BY <1>1, <1>2, <1>5, OpensWhat DEF BuyRefused
  <2>. QED
    BY <1>2, <2>1, <2>2, <2>3 DEF Turns, Drops, Unmoved, Still
<1>. QED
  BY <1>3, <1>4, <1>5

LEMMA RecordEffect ==
  ASSUME TurnOK, NEW t \in TaskId, NEW x \in Slot, RecordStart(t, x) \/ RecordFinish(t, x)
  PROVE  Turns(t) /\ \A v \in TaskId : v # t => Unmoved(v)
<1>. DEFINE a == attempt[t][x]
<1>1. a \in Attempt /\ TurnTypeOK /\ a # None
  BY OnTyped DEF RecordStart, RecordFinish, On, TurnOK
<1>2. UNCHANGED <<held, opened, bought, exposed>>
  BY DEF RecordStart, RecordFinish, engine
<1>3. CASE RecordStart(t, x)
  <2>. DEFINE b == [a EXCEPT !.pc = "stream"]
  <2>1. /\ On(t, x, "record") /\ MoveTo(t, x, b) /\ UNCHANGED finished
        /\ started' = [started EXCEPT ![t] = Append(started[t], [key |-> Key(a), at |-> a.at])]
    BY <1>3 DEF RecordStart
  <2>2. /\ started'[t] = Append(started[t], [key |-> Key(a), at |-> a.at])
        /\ \A v \in TaskId : v # t => started'[v] = started[v]
    BY <1>1, <2>1 DEF TurnTypeOK
  <2>. HIDE DEF a
  <2>3. b \in Attempt /\ b.in = a.in /\ b.pc = "stream" /\ b.at = a.at
    BY <1>1 DEF Attempt, Pc
  <2>. HIDE DEF b
  <2>4. Moves(t, x, b) /\ \A v \in TaskId : v # t => attempt'[v] = attempt[v]
    BY <1>1, <1>2, <2>1, <2>3, MoveMoves DEF a
  <2>5. Key(b) = Key(a)
    BY <2>3 DEF Key
  <2>6. Records(t, x, b)
    BY <1>2, <2>1, <2>2, <2>3, <2>4, <2>5 DEF Records, a
  <2>. QED
    BY <1>2, <2>1, <2>2, <2>3, <2>4, <2>6 DEF Turns, Unmoved, Still
<1>4. CASE RecordFinish(t, x)
  <2>. DEFINE b == [a EXCEPT !.pc = "return"]
  <2>1. /\ On(t, x, "finish") /\ MoveTo(t, x, b) /\ UNCHANGED started
        /\ finished' = [finished EXCEPT ![t] =
                          finished[t] \cup {[at |-> a.at, cost |-> a.cost, ask |-> a.ask]}]
    BY <1>4 DEF RecordFinish
  <2>2. /\ finished'[t] = finished[t] \cup {[at |-> a.at, cost |-> a.cost, ask |-> a.ask]}
        /\ \A v \in TaskId : v # t => finished'[v] = finished[v]
    BY <1>1, <2>1 DEF TurnTypeOK
  <2>. HIDE DEF a
  <2>3. /\ b \in Attempt /\ b.in = a.in /\ b.pc = "return" /\ b.at = a.at /\ b.cost = a.cost
        /\ b.ask = a.ask
    BY <1>1 DEF Attempt, Pc
  <2>. HIDE DEF b
  <2>4. Moves(t, x, b) /\ \A v \in TaskId : v # t => attempt'[v] = attempt[v]
    BY <1>1, <1>2, <2>1, <2>3, MoveMoves DEF a
  <2>5. Finishes(t, x, b)
    BY <1>2, <2>1, <2>2, <2>3, <2>4 DEF Finishes, a
  <2>. QED
    BY <1>2, <2>1, <2>2, <2>3, <2>4, <2>5 DEF Turns, Unmoved, Still
<1>. QED
  BY <1>3, <1>4

LEMMA ReadEffect ==
  ASSUME TurnOK, NEW t \in TaskId, NEW x \in Slot, ReadEnd(t, x) \/ StreamLost(t, x)
  PROVE  Turns(t) /\ \A v \in TaskId : v # t => Unmoved(v)
<1>. DEFINE a == attempt[t][x]
<1>1. On(t, x, "stream") /\ a \in Attempt /\ TurnTypeOK /\ a # None /\ a.pc # "record"
  BY OnTyped DEF ReadEnd, StreamLost, On, TurnOK
<1>2. UNCHANGED <<held, opened, bought, started, finished, exposed>>
  BY DEF ReadEnd, StreamLost, engine, ledger
<1>3. CASE Fail(t, x)
  <2>1. Lost(t) /\ \A v \in TaskId : v # t => attempt'[v] = attempt[v]
    BY <1>1, <1>3, FailLoses
  <2>2. opened[t] <= opened'[t]
    BY <1>1, <1>2 DEF TurnTypeOK
  <2>. QED
    BY <1>2, <2>1, <2>2 DEF Turns, Drops, Unmoved, Still
<1>4. CASE ReadEnd(t, x) /\ ~Fail(t, x)
  <2>1. PICK u \in bought[t] :
          /\ u.at = a.at /\ u.how \in {"completed", "ask"}
          /\ MoveTo(t, x, [a EXCEPT !.pc = "finish", !.cost = SpendFromEvent(u, a.in),
                                    !.ask = (u.how = "ask")])
    BY <1>4 DEF ReadEnd
  <2>. DEFINE asked == (u.how = "ask")
              cost == SpendFromEvent(u, a.in)
              b == [a EXCEPT !.pc = "finish", !.cost = cost, !.ask = asked]
  <2>2. cost \in Nat /\ asked \in BOOLEAN
    BY <1>1, SpendIs DEF Attempt, TurnTypeOK
  <2>3. MoveTo(t, x, b)
    BY <2>1
  <2>. HIDE DEF a, asked, cost
  <2>4. /\ b \in Attempt /\ b.in = a.in /\ b.pc = "finish" /\ b.at = a.at /\ b.cost = cost
        /\ b.ask = asked
    BY <1>1, <2>2 DEF Attempt, Pc
  <2>. HIDE DEF b
  <2>5. Moves(t, x, b) /\ \A v \in TaskId : v # t => attempt'[v] = attempt[v]
    BY <1>1, <1>2, <2>3, <2>4, MoveMoves DEF a
  <2>6. /\ u.at = b.at /\ u.how = (IF b.ask THEN "ask" ELSE "completed")
        /\ b.cost = SpendFromEvent(u, b.in)
    BY <2>1, <2>4 DEF asked, cost
  <2>7. Reads(t, x, b)
    BY <1>1, <1>2, <2>4, <2>5, <2>6 DEF Reads, Still, a
  <2>. QED
    BY <1>2, <2>4, <2>5, <2>7 DEF Turns, Unmoved, Still
<1>. QED
  BY <1>3, <1>4 DEF StreamLost

LEMMA OverEffect ==
  ASSUME TurnOK, NEW t \in TaskId, NEW u \in bought[t], NEW how \in TurnEnd, u.how = "running",
         NEW cost \in Nat, EndsAs(t, u, how, cost), UNCHANGED <<held, opened, started, finished, exposed>>,
         \/ UNCHANGED attempt
         \/ \E x \in Slot : On(t, x, "stream") /\ attempt' = [attempt EXCEPT ![t][x] = None]
  PROVE  Turns(t) /\ \A v \in TaskId : v # t => Unmoved(v)
<1>1. u \in Turn /\ TurnTypeOK
  BY DEF TurnOK, TurnTypeOK
<1>2. PICK w \in Turn : /\ w.at = u.at /\ w.key = u.key /\ w.how = how
                        /\ bought' = [bought EXCEPT ![t] = (bought[t] \ {u}) \cup {w}]
  BY EndsTyped
<1>3. w.how # "running"
  BY <1>2 DEF TurnEnd
<1>4. /\ bought'[t] = (bought[t] \ {u}) \cup {w}
      /\ \A v \in TaskId : v # t => bought'[v] = bought[v]
  BY <1>1, <1>2 DEF TurnTypeOK
<1>5. Lost(t) /\ \A v \in TaskId : v # t => attempt'[v] = attempt[v]
  <2>1. CASE UNCHANGED attempt
    BY <2>1 DEF Lost
  <2>2. ASSUME NEW x \in Slot, On(t, x, "stream"), attempt' = [attempt EXCEPT ![t][x] = None]
        PROVE  Lost(t) /\ \A v \in TaskId : v # t => attempt'[v] = attempt[v]
    <3>1. attempt'[t] = [attempt[t] EXCEPT ![x] = None] /\ attempt[t] \in Slots
      BY <1>1, <2>2 DEF TurnTypeOK, Slots
    <3>2. \A y \in Slot : attempt'[t][y] = IF y = x THEN None ELSE attempt[t][y]
      BY <3>1 DEF Slots
    <3>3. x = "live" => ~On(t, "live", "record")
      BY <2>2 DEF On
    <3>. QED
      BY <1>1, <2>2, <3>2, <3>3 DEF Lost, TurnTypeOK, Slot
  <2>. QED
    BY <2>1, <2>2
<1>6. Over(t, u, w)
  BY <1>2, <1>3, <1>4, <1>5 DEF Over
<1>. QED
  BY <1>4, <1>5, <1>6 DEF Turns, Unmoved, Still

LEMMA CrashEffect == TurnOK /\ (WorkerCrash \/ EngineRestart) => \A t \in TaskId : Drops(t)
<1>. SUFFICES ASSUME TurnOK, WorkerCrash \/ EngineRestart, NEW t \in TaskId
     PROVE  Drops(t)
  OBVIOUS
<1>1. CASE EngineRestart
  BY <1>1 DEF EngineRestart, Drops, Lost, ledger, TurnOK, TurnTypeOK
<1>2. CASE WorkerCrash
  <2>1. attempt[t] \in Slots /\ exposed[t] \in SUBSET Nat
    BY DEF TurnOK, TurnTypeOK, Slots
  <2>2. /\ attempt'[t] = [x \in Slot |-> IF x = "live" /\ attempt[t][x] # None
                                         THEN After(t, attempt[t])[x] ELSE None]
        /\ exposed'[t] = exposed[t] \cup {Key(attempt[t][x]) : x \in {y \in Slot : On(t, y, "record")}}
    BY <1>2 DEF WorkerCrash
  <2>3. attempt'[t]["stale"] = None
    BY <2>2 DEF Slot
  <2>4. \/ attempt'[t]["live"] = None
        \/ attempt[t]["live"] # None /\ attempt'[t]["live"] = FirstAttempt(attempt[t]["live"].in)
    BY <2>1, <2>2 DEF Slot, Slots, After
  <2>5. On(t, "live", "record") => Key(attempt[t]["live"]) \in exposed'[t]
    BY <2>2 DEF Slot
  <2>. QED
    BY <1>2, <2>2, <2>3, <2>4, <2>5
       DEF WorkerCrash, Drops, Lost, engine, ledger, TurnOK, TurnTypeOK
<1>. QED
  BY <1>1, <1>2

LEMMA OvertakenEffect ==
  ASSUME TurnOK, NEW t \in TaskId, Stall(t) \/ StaleReturns(t) \/ Regressed(t)
  PROVE  Turns(t) /\ \A v \in TaskId : v # t => Unmoved(v)
<1>1. TurnTypeOK
  BY DEF TurnOK
<1>2. UNCHANGED <<held, opened, bought, started, finished>>
  BY DEF Stall, StaleReturns, Regressed, engine, ledger
<1>. opened[t] <= opened'[t]
  BY <1>1, <1>2 DEF TurnTypeOK
<1>3. CASE Stall(t)
  <2>. DEFINE a == attempt[t]["live"]
  <2>1. /\ attempt' = [attempt EXCEPT ![t] = [After(t, attempt[t]) EXCEPT !["stale"] = a]]
        /\ a # None
        /\ exposed' = [exposed EXCEPT ![t] =
                         IF a.pc \in Unsettled THEN exposed[t] \cup {Key(a)} ELSE exposed[t]]
    BY <1>3 DEF Stall, Unsettled
  <2>2. attempt[t] \in Slots /\ After(t, attempt[t]) \in Slots
    BY <1>1, <2>1, AfterTyped DEF TurnTypeOK, Slots
  <2>3. /\ attempt'[t]["stale"] = a
        /\ attempt'[t]["live"] \in {FirstAttempt(a.in), None}
    BY <1>1, <2>1, <2>2 DEF TurnTypeOK, Slots, Slot, After
  <2>4. /\ exposed[t] \subseteq exposed'[t] /\ (a.pc \in Unsettled => Key(a) \in exposed'[t])
        /\ \A v \in TaskId : v # t => exposed'[v] = exposed[v] /\ attempt'[v] = attempt[v]
    BY <1>1, <2>1 DEF TurnTypeOK
  <2>5. Lost(t)
    BY <2>1, <2>3, <2>4 DEF Lost, On, Unsettled
  <2>. QED
    BY <1>2, <2>4, <2>5 DEF Turns, Drops, Unmoved, Still
<1>4. CASE StaleReturns(t) \/ Regressed(t)
  <2>1. PICK x \in Slot : On(t, x, "return") /\ Fail(t, x)
    BY <1>4 DEF StaleReturns, Regressed, Slot
  <2>2. Lost(t) /\ \A v \in TaskId : v # t => attempt'[v] = attempt[v]
    BY <1>1, <2>1, FailLoses DEF On
  <2>3. UNCHANGED exposed
    BY <1>4 DEF StaleReturns, Regressed
  <2>. QED
    BY <1>2, <2>2, <2>3 DEF Turns, Drops, Unmoved, Still
<1>. QED
  BY <1>3, <1>4

LEMMA TurnStepEffect ==
  ASSUME TurnOK, scenario.price \subseteq Nat, TurnStep \/ TurnFault
  PROVE  \A v \in TaskId : Turns(v)
<1>1. ASSUME NEW t \in TaskId, Turns(t) /\ \A v \in TaskId : v # t => Unmoved(v)
      PROVE  \A v \in TaskId : Turns(v)
  BY <1>1, UnmovedDrops DEF Turns, TurnOK
<1>2. ASSUME NEW t \in TaskId, NEW x \in Slot, AttemptStep(t, x) \/ AttemptFault(t, x)
      PROVE  \A v \in TaskId : Turns(v)
  BY <1>1, <1>2, ScanEffect, BuyEffect, RecordEffect, ReadEffect DEF AttemptStep, AttemptFault
<1>3. ASSUME NEW t \in TaskId, StaleReturns(t) \/ Regressed(t) \/ Stall(t)
      PROVE  \A v \in TaskId : Turns(v)
  BY <1>1, <1>3, OvertakenEffect
<1>4. ASSUME NEW t \in TaskId, NEW x \in Slot, NEW cost \in scenario.price, Aborts(t, x, cost)
      PROVE  \A v \in TaskId : Turns(v)
  <2>1. PICK u \in bought[t] : u.how = "running" /\ EndsAs(t, u, "aborted", cost)
    BY <1>4 DEF Aborts
  <2>2. "aborted" \in TurnEnd /\ UNCHANGED <<held, opened, started, finished, exposed>>
    BY <1>4 DEF Aborts, TurnEnd, ledger
  <2>3. \E y \in Slot : On(t, y, "stream") /\ attempt' = [attempt EXCEPT ![t][y] = None]
    BY <1>4 DEF Aborts
  <2>. QED
    BY <1>1, <2>1, <2>2, <2>3, OverEffect
<1>5. ASSUME NEW t \in TaskId, NEW u \in bought[t], NEW how \in TurnEnd,
             NEW cost \in scenario.price, TurnEnds(t, u, how, cost)
      PROVE  \A v \in TaskId : Turns(v)
  BY <1>1, <1>5, OverEffect DEF TurnEnds, ledger
<1>6. CASE WorkerCrash \/ EngineRestart
  BY <1>6, CrashEffect DEF Turns
<1>. QED
  BY <1>2, <1>3, <1>4, <1>5, <1>6 DEF TurnStep, TurnFault, Slot

(* Whatever else a task's walk does, it leaves alone what its turns use. *)
LEMMA WalkView ==
  ASSUME TurnOK, TasksOK, NEW t \in TaskId,
         \/ TaskStep(t) \/ TaskFault(t)
         \/ ResumeTask(t) \/ \E d \in {"approve", "reject"} : Decide(t, d),
         ~BeginTurn(t), ~EndTurn(t)
  PROVE  SameView(task[t], task'[t])
<1>. DEFINE s == task[t]
            p == task'[t]
<1>1. s \in TaskType
  BY DEF TasksOK
<1>2. \A r : Become(t, r) => p = r
  BY DEF Become, TasksOK
<1>3. \/ p = s
      \/ \E n, o : p = [s EXCEPT !.node = n, !.outcome = o]
      \/ \E n : p = [s EXCEPT !.node = n]
      \/ \E n, o : p = [s EXCEPT !.node = n, !.decision = o]
      \/ \E n, o : p = [s EXCEPT !.checkpoint = o, !.node = n]
      \/ \E n, o : p = [[s EXCEPT !.passed = o] EXCEPT !.node = n]
      \/ \E n, o : p = [[s EXCEPT !.approved = o] EXCEPT !.node = n]
      \/ \E n, o : p = [s EXCEPT !.pr = o, !.node = n]
      \/ \E o : p = [s EXCEPT !.paused = o]
      \/ \E n, o : p = [s EXCEPT !.stopped = n, !.paused = o]
      \/ \E o : p = [s EXCEPT !.decision = o]
  <2>1. CASE TaskStep(t)
    BY <1>2, <2>1 DEF TaskStep, StopHere, TurnGivenUp, Checkpoint, Verify, Review, OpenPr, Park, Unpark
  <2>2. CASE TaskFault(t) \/ ResumeTask(t) \/ \E d \in {"approve", "reject"} : Decide(t, d)
    BY <1>2, <2>2 DEF TaskFault, OpenPrAgain, StepFails, PauseTask, StopTask, ResumeTask, Decide
  <2>. QED
    BY <2>1, <2>2
<1>. SUFFICES SameView(s, p)
  OBVIOUS
<1>. HIDE DEF s, p
<1>. QED
  BY <1>1, <1>3 DEF TaskType, SameView

LEMMA BeginEffect ==
  ASSUME TurnOK, TasksOK, NEW t \in TaskId, BeginTurn(t)
  PROVE  Begins(t) /\ \A v \in TaskId : v # t => Unmoved(v) /\ task'[v] = task[v]
<1>. DEFINE s == task[t]
<1>1. /\ attempt' = [attempt EXCEPT ![t] = [attempt[t] EXCEPT !["live"] = FirstAttempt(InputOf(s))]]
      /\ UNCHANGED <<held, opened, bought, started, finished, exposed>>
      /\ task' = [task EXCEPT ![t] = [s EXCEPT !.busy = TRUE]]
      /\ s.node \in Paid /\ ~s.busy /\ s \in TaskType
  BY DEF BeginTurn, ScheduleTurn, Become, Ready, AtBoundary, engine, ledger, TasksOK
<1>2. attempt[t] \in Slots
  BY DEF TurnOK, TurnTypeOK, Slots
<1>3. /\ attempt'[t]["live"] = FirstAttempt(InputOf(s)) /\ attempt'[t]["stale"] = attempt[t]["stale"]
      /\ \A v \in TaskId : v # t => attempt'[v] = attempt[v] /\ task'[v] = task[v]
  BY <1>1, <1>2 DEF TurnOK, TurnTypeOK, TasksOK, Slots, Slot
<1>4. task'[t] = [s EXCEPT !.busy = TRUE]
  BY <1>1 DEF TasksOK
<1>5. \A p : p = [s EXCEPT !.busy = TRUE] =>
        p.busy = TRUE /\ InputOf(p) = InputOf(s) /\ p.ask = s.ask /\ p.cost = s.cost
  <2>. HIDE DEF s
  <2>. QED
    BY <1>1 DEF TaskType, InputOf
<1>. QED
  BY <1>1, <1>3, <1>4, <1>5 DEF Begins, Unmoved, Still

LEMMA EndEffect ==
  ASSUME TurnOK, TasksOK, NEW t \in TaskId, EndTurn(t)
  PROVE  Ends(t) /\ \A v \in TaskId : v # t => Unmoved(v) /\ task'[v] = task[v]
<1>. DEFINE s == task[t]
            a == attempt[t]["live"]
<1>1. /\ attempt' = [attempt EXCEPT ![t] = [attempt[t] EXCEPT !["live"] = None]]
      /\ UNCHANGED <<held, opened, bought, started, finished, exposed>>
      /\ Become(t, AfterPlanTurn(s, a)) \/ Become(t, AfterImplementTurn(s, a))
      /\ On(t, "live", "return") /\ s.busy /\ s \in TaskType
  BY DEF EndTurn, TurnReturns, engine, ledger, TasksOK
<1>2. attempt[t] \in Slots /\ a \in Attempt
  BY <1>1, OnTyped DEF TurnOK, TurnTypeOK, Slots, Slot, On
<1>3. /\ attempt'[t]["live"] = None /\ attempt'[t]["stale"] = attempt[t]["stale"]
      /\ \A v \in TaskId : v # t => attempt'[v] = attempt[v] /\ task'[v] = task[v]
  BY <1>1, <1>2 DEF TurnOK, TurnTypeOK, TasksOK, Slots, Slot, Become
<1>4. task'[t] = AfterPlanTurn(s, a) \/ task'[t] = AfterImplementTurn(s, a)
  BY <1>1 DEF Become, TasksOK
<1>5. TurnTaken(s, a, task'[t])
  BY <1>1, <1>2, <1>4, OutcomeTaken
<1>. QED
  BY <1>1, <1>3, <1>5 DEF Ends, Unmoved, Still

LEMMA EachTask ==
  ASSUME ShapeInv, [Next]_vars, NEW v \in TaskId
  PROVE  Effect(v)
<1>1. TypeInv /\ TurnOK /\ TasksOK /\ StartInv
  BY DEF ShapeInv, StartInv, TypeInv
<1>2. ASSUME UNCHANGED <<held, opened, bought, started, finished, exposed, attempt>>
      PROVE  Turns(v)
  BY <1>1, <1>2, UnmovedDrops DEF Unmoved, Still, Turns, TurnOK
<1>3. CASE TurnStep \/ TurnFault
  <2>1. task' = task
    BY <1>3 DEF TurnStep, TurnFault, walkVars
  <2>. QED
    BY <1>1, <1>3, <2>1, TurnStepEffect, ScenarioTyped DEF Effect, SameView, TypeInv
<1>4. ASSUME NEW t \in TaskId,
             \/ TaskStep(t) \/ TaskFault(t)
             \/ ResumeTask(t) \/ \E d \in {"approve", "reject"} : Decide(t, d)
      PROVE  Effect(v)
  <2>1. CASE BeginTurn(t) \/ EndTurn(t)
    BY <1>1, <2>1, BeginEffect, EndEffect, UnmovedDrops DEF Effect, Turns, SameView, TurnOK
  <2>2. CASE ~BeginTurn(t) /\ ~EndTurn(t)
    <3>1. UNCHANGED <<held, opened, bought, started, finished, exposed, attempt>>
      BY <1>4, <2>2
         DEF TaskStep, TaskFault, StopHere, TurnGivenUp, Checkpoint, Verify, Review, OpenPr, Park,
             Unpark, OpenPrAgain, StepFails, PauseTask, StopTask, ResumeTask, Decide, turnVars, engine,
             ledger
    <3>2. SameView(task[v], task'[v])
      BY <1>1, <1>4, <2>2, WalkView, WalkMoves DEF SameView
    <3>. QED
      BY <1>2, <3>1, <3>2 DEF Effect
  <2>. QED
    BY <2>1, <2>2
<1>5. CASE RunTask \/ RunCiFix
  <2>1. UNCHANGED <<held, opened, bought, started, finished, exposed, attempt>>
    BY <1>5 DEF RunTask, RunCiFix, turnVars, engine, ledger
  <2>2. PICK u \in TaskId, s \in TaskType :
          /\ task' = [task EXCEPT ![u] = s] /\ task[u].node = "off" /\ s = NewTask(BudgetLeft)
          /\ \A w \in TaskId : w # u => task'[w] = task[w]
    BY <1>1, <1>5, StartsWhat
  <2>3. task[u] = Off /\ task'[u] = NewTask(BudgetLeft)
    BY <1>1, <2>2 DEF ShapeInv, TaskShape, TasksOK
  <2>4. SameView(task[u], task'[u])
    BY <2>3 DEF SameView, NewTask, Off
  <2>. QED
    BY <1>2, <2>1, <2>2, <2>4 DEF Effect, SameView
<1>6. ASSUME NEW o, Finish(o)
      PROVE  Effect(v)
  <2>1. UNCHANGED <<held, opened, bought, started, finished, exposed, attempt>>
    BY <1>6 DEF Finish, turnVars, engine, ledger
  <2>2. task'[v] = task[v] \/ task'[v] = [task[v] EXCEPT !.node = "terminated"]
    BY <1>6 DEF Finish
  <2>3. ASSUME NEW s \in TaskType
        PROVE  SameView(s, s) /\ SameView(s, [s EXCEPT !.node = "terminated"])
    BY DEF TaskType, SameView
  <2>. QED
    BY <1>1, <1>2, <2>1, <2>2, <2>3 DEF Effect, TasksOK
<1>7. CASE RunSignal \/ (\E b \in Branch : \E r \in {"green", "red", "infrastructure"} : CiReports(b, r))
        \/ ContinueAsNew \/ Fill \/ Filled \/ TakeResult \/ NoPullRequest \/ WatchCi \/ FixEnds
        \/ UNCHANGED vars
  <2>1. UNCHANGED <<held, opened, bought, started, finished, exposed, attempt, task>>
    BY <1>7 DEF RunSignal, PauseRun, ResumeRun, StopRun, WatchCiUnread, CiReports, ContinueAsNew, Fill,
                Filled, TakeResult, NoPullRequest, WatchCi, FixEnds, PassGate, vars, turnVars, engine,
                ledger, walkVars
  <2>. QED
    BY <1>2, <2>1 DEF Effect, SameView
<1>. QED
  BY <1>3, <1>4, <1>5, <1>6, <1>7
     DEF Next, SystemStep, RunStep, WalkStep, WalkFault, Outside, RunStopped, AllDone, RunOutOfBudget,
         RunOutOfGoal, ChildFailed

-----------------------------------------------------------------------------
(* One turn per key                                                        *)

LiveIsBusy(t) == attempt[t]["live"] # None => task[t].busy

(* An overtaken attempt that may yet buy is exposed. *)
StaleIsExposed(t) ==
  \A pc \in Unsettled : On(t, "stale", pc) => Key(attempt[t]["stale"]) \in exposed[t]

(* What is paid for is in the ledger, or about to be, or exposed. *)
Known(t, k) ==
  k \in exposed[t] \/ Recorded(t, k) \/ (On(t, "live", "record") /\ Key(attempt[t]["live"]) = k)
AllKnown(t) == \A u \in bought[t] : Known(t, u.key)

PostIsNew(t) ==
  On(t, "live", "post") =>
    \/ Key(attempt[t]["live"]) \in exposed[t]
    \/ \A u \in bought[t] : u.key # Key(attempt[t]["live"])

OnceEach(t) == \A u, v \in bought[t] : u.key = v.key /\ u # v => u.key \in exposed[t]

OnceInv(t) ==
  LiveIsBusy(t) /\ StaleIsExposed(t) /\ AllKnown(t) /\ PostIsNew(t) /\ OnceEach(t)

LEMMA FirstIs ==
  ASSUME NEW in \in Input
  PROVE  /\ FirstAttempt(in).pc = "scan" /\ FirstAttempt(in).in = in
         /\ FirstAttempt(in) \in Attempt /\ FirstAttempt(in) # None
  BY FirstTyped, NoneIsNoAttempt DEF FirstAttempt

(* What an end of an attempt leaves in its task's slots. *)
LEMMA LostIs ==
  ASSUME TurnTypeOK, NEW t \in TaskId, Lost(t)
  PROVE  /\ \/ attempt'[t]["live"] = attempt[t]["live"]
            \/ /\ \A pc \in {"post", "record", "stream", "finish", "return"} : ~On(t, "live", pc)'
               /\ attempt'[t]["live"] # None =>
                    /\ attempt[t]["live"] # None
                    /\ attempt'[t]["live"] \in Attempt
                    /\ attempt'[t]["live"].in = attempt[t]["live"].in
               /\ On(t, "live", "record") => Key(attempt[t]["live"]) \in exposed'[t]
         /\ \/ attempt'[t]["stale"] = attempt[t]["stale"]
            \/ attempt'[t]["stale"] = None
            \/ /\ attempt'[t]["stale"] = attempt[t]["live"] /\ attempt[t]["live"] # None
               /\ \A pc \in Unsettled : On(t, "stale", pc)' => Key(attempt[t]["live"]) \in exposed'[t]
<1>1. attempt[t]["live"] # None => attempt[t]["live"].in \in Input
  BY OnTyped DEF Slot, Attempt
<1>. QED
  BY <1>1, FirstIs DEF Lost, On, Unsettled

LEMMA RecordedStays ==
  ASSUME TurnTypeOK, NEW t \in TaskId, NEW k,
         started'[t] = started[t] \/ \E r : started'[t] = Append(started[t], r),
         Recorded(t, k)
  PROVE  Recorded(t, k)'
<1>1. started[t] \in Seq(StartRecord)
  BY DEF TurnTypeOK
<1>2. PICK i \in DOMAIN started[t] : started[t][i].key = k
  BY DEF Recorded, Starts
<1>3. i \in DOMAIN started'[t] /\ started'[t][i] = started[t][i]
  BY <1>1, <1>2
<1>. QED
  BY <1>2, <1>3 DEF Recorded, Starts

LEMMA OnceDrops ==
  ASSUME TurnTypeOK, NEW t \in TaskId, OnceInv(t), Drops(t), SameView(task[t], task'[t])
  PROVE  OnceInv(t)'
<1>1. \A k : Recorded(t, k) => Recorded(t, k)'
  BY RecordedStays DEF Drops, Still
<1>2. LiveIsBusy(t)' /\ StaleIsExposed(t)'
  BY LostIs DEF Drops, OnceInv, LiveIsBusy, StaleIsExposed, SameView, On, Unsettled
<1>3. AllKnown(t)'
  BY <1>1, LostIs DEF Drops, Still, OnceInv, AllKnown, Known, On
<1>4. PostIsNew(t)' /\ OnceEach(t)'
  BY LostIs DEF Drops, Still, OnceInv, PostIsNew, OnceEach, On
<1>. QED
  BY <1>2, <1>3, <1>4 DEF OnceInv

(* Steps of an attempt that buy nothing. *)
LEMMA OnceMoves ==
  ASSUME TurnTypeOK, NEW t \in TaskId, OnceInv(t), SameView(task[t], task'[t]),
         NEW x \in Slot, NEW a \in Attempt,
         \/ Adopts(t, x, a) \/ Unbought(t, x, a) \/ Records(t, x, a) \/ Reads(t, x, a)
         \/ Finishes(t, x, a)
  PROVE  OnceInv(t)'
<1>. DEFINE b == attempt[t][x]
<1>1. /\ attempt'[t][x] = a /\ a.in = b.in /\ exposed'[t] = exposed[t] /\ bought'[t] = bought[t]
      /\ \A y \in Slot : y # x => attempt'[t][y] = attempt[t][y]
      /\ b # None /\ a # None /\ Key(a) = Key(b)
  BY NoneIsNoAttempt DEF Adopts, Unbought, Records, Reads, Finishes, Moves, Still, On, Key
<1>2. \A k : Recorded(t, k) => Recorded(t, k)'
  <2>1. started'[t] = started[t] \/ \E r : started'[t] = Append(started[t], r)
    BY DEF Adopts, Unbought, Records, Reads, Finishes, Still
  <2>. QED
    BY <2>1, RecordedStays
<1>3. LiveIsBusy(t)'
  BY <1>1 DEF OnceInv, LiveIsBusy, SameView, Slot
<1>4. StaleIsExposed(t)'
  <2>1. a.pc \in Unsettled => a.pc = "post" /\ b.pc = "scan"
    BY DEF Adopts, Unbought, Records, Reads, Finishes, Unsettled, On
  <2>. QED
    BY <1>1, <2>1 DEF OnceInv, StaleIsExposed, On, Unsettled, Slot, Key
<1>5. AllKnown(t)'
  <2>1. CASE x = "live" /\ b.pc = "record"
    <3>1. Records(t, x, a)
      BY <2>1 DEF Adopts, Unbought, Records, Reads, Finishes, On
    <3>2. Recorded(t, Key(a))'
      <4>1. started[t] \in Seq(StartRecord) /\ started'[t] = Append(started[t], [key |-> Key(a), at |-> a.at])
        BY <3>1 DEF Records, TurnTypeOK
      <4>2. /\ Len(started[t]) + 1 \in DOMAIN started'[t]
            /\ started'[t][Len(started[t]) + 1] = [key |-> Key(a), at |-> a.at]
        BY <4>1
      <4>. QED
        BY <4>2 DEF Recorded, Starts
    <3>. QED
      BY <1>1, <1>2, <2>1, <3>2 DEF OnceInv, AllKnown, Known
  <2>2. CASE ~(x = "live" /\ b.pc = "record")
    BY <1>1, <1>2, <2>2 DEF OnceInv, AllKnown, Known, On, Slot
  <2>. QED
    BY <2>1, <2>2
<1>6. PostIsNew(t)'
  <2>1. CASE x = "live" /\ a.pc = "post"
    <3>1. Unbought(t, x, a)
      BY <2>1 DEF Adopts, Unbought, Records, Reads, Finishes
    <3>2. ~Recorded(t, Key(a)) /\ ~On(t, "live", "record")
      BY <2>1, <3>1 DEF Unbought, On
    <3>3. \A u \in bought[t] : u.key = Key(a) => u.key \in exposed[t]
      BY <3>2 DEF OnceInv, AllKnown, Known
    <3>. QED
      BY <1>1, <2>1, <3>3 DEF PostIsNew, On
  <2>2. CASE ~(x = "live" /\ a.pc = "post")
    BY <1>1, <2>2 DEF OnceInv, PostIsNew, On, Slot
  <2>. QED
    BY <2>1, <2>2
<1>7. OnceEach(t)'
  BY <1>1 DEF OnceInv, OnceEach
<1>. QED
  BY <1>3, <1>4, <1>5, <1>6, <1>7 DEF OnceInv

(* A key is posted once unless it is exposed. *)
LEMMA OnceBuys ==
  ASSUME TurnTypeOK, NEW t \in TaskId, OnceInv(t), SameView(task[t], task'[t]),
         NEW x \in Slot, BuysUnheard(t, x) \/ \E a \in Attempt : Buys(t, x, a)
  PROVE  OnceInv(t)'
<1>. DEFINE b == attempt[t][x]
            k == Key(b)
<1>1. On(t, x, "post") /\ b # None /\ b \in Attempt
  BY OnTyped DEF BuysUnheard, Buys, On
<1>2. /\ started'[t] = started[t]
      /\ \/ bought'[t] = bought[t]
         \/ \E u : u.key = k /\ bought'[t] = bought[t] \cup {u}
  BY DEF BuysUnheard, Buys, Posts, Moves, Key
<1>3. \A v \in bought[t] : v.key = k => k \in exposed[t]
  BY <1>1 DEF OnceInv, PostIsNew, StaleIsExposed, Unsettled, On, Slot
<1>4. exposed[t] \subseteq exposed'[t]
  BY DEF BuysUnheard, Buys, Moves
<1>5. OnceEach(t)'
  BY <1>2, <1>3, <1>4 DEF OnceInv, OnceEach
<1>6. \A j : Recorded(t, j) => Recorded(t, j)'
  BY <1>2, RecordedStays
<1>7. CASE BuysUnheard(t, x)
  <2>1. Lost(t) /\ k \in exposed'[t]
    BY <1>7 DEF BuysUnheard
  <2>2. LiveIsBusy(t)' /\ StaleIsExposed(t)'
    BY <1>4, <2>1, LostIs DEF OnceInv, LiveIsBusy, StaleIsExposed, SameView, On, Unsettled
  <2>3. \A j : Known(t, j) => Known(t, j)'
    BY <1>4, <1>6, <2>1, LostIs DEF Known, On
  <2>4. AllKnown(t)'
    <3>1. \A j : j = k => Known(t, j)'
      BY <2>1 DEF Known
    <3>. QED
      BY <1>2, <2>3, <3>1 DEF OnceInv, AllKnown
  <2>5. PostIsNew(t)'
    BY <1>2, <1>4, <2>1, LostIs DEF OnceInv, PostIsNew, On
  <2>. QED
    BY <1>5, <2>2, <2>4, <2>5 DEF OnceInv
<1>8. ASSUME NEW a \in Attempt, Buys(t, x, a)
      PROVE  OnceInv(t)'
  <2>1. /\ attempt'[t][x] = a /\ a.in = b.in /\ exposed'[t] = exposed[t] /\ a.pc = "record"
        /\ \A y \in Slot : y # x => attempt'[t][y] = attempt[t][y]
        /\ a # None /\ Key(a) = k
    BY <1>8, NoneIsNoAttempt DEF Buys, Moves, Key
  <2>2. LiveIsBusy(t)'
    BY <1>1, <2>1 DEF OnceInv, LiveIsBusy, SameView, Slot
  <2>3. StaleIsExposed(t)'
    BY <1>1, <2>1 DEF OnceInv, StaleIsExposed, On, Unsettled, Slot
  <2>4. \A j : Known(t, j) => Known(t, j)'
    BY <1>1, <1>6, <2>1 DEF Known, On, Slot
  <2>5. \A j : j = k => Known(t, j)'
    BY <1>1, <2>1 DEF OnceInv, StaleIsExposed, Unsettled, Known, On, Slot
  <2>6. AllKnown(t)'
    BY <1>2, <2>4, <2>5 DEF OnceInv, AllKnown
  <2>7. PostIsNew(t)'
    <3>1. x = "live" => ~On(t, "live", "post")'
      BY <2>1 DEF On
    <3>2. CASE x = "stale"
      <4>1. k \in exposed[t]
        BY <1>1, <3>2 DEF OnceInv, StaleIsExposed, Unsettled
      <4>. QED
        BY <1>2, <2>1, <3>2, <4>1 DEF OnceInv, PostIsNew, On, Slot
    <3>. QED
      BY <3>1, <3>2 DEF PostIsNew, Slot
  <2>. QED
    BY <1>5, <2>2, <2>3, <2>6, <2>7 DEF OnceInv
<1>. QED
  BY <1>7, <1>8

LEMMA OnceOver ==
  ASSUME TurnTypeOK, NEW t \in TaskId, OnceInv(t), SameView(task[t], task'[t]),
         NEW u, NEW v, Over(t, u, v)
  PROVE  OnceInv(t)'
<1>1. /\ exposed'[t] = exposed[t] /\ Lost(t) /\ started'[t] = started[t]
      /\ bought'[t] = (bought[t] \ {u}) \cup {v} /\ u \in bought[t] /\ v.key = u.key
  BY DEF Over
<1>2. \A k : Recorded(t, k) => Recorded(t, k)'
  BY <1>1, RecordedStays
<1>3. LiveIsBusy(t)' /\ StaleIsExposed(t)'
  BY <1>1, LostIs DEF OnceInv, LiveIsBusy, StaleIsExposed, SameView, On, Unsettled
<1>4. \A k : Known(t, k) => Known(t, k)'
  BY <1>1, <1>2, LostIs DEF Known, On
<1>5. AllKnown(t)' /\ OnceEach(t)'
  BY <1>1, <1>4 DEF OnceInv, AllKnown, OnceEach
<1>6. PostIsNew(t)'
  BY <1>1, LostIs DEF OnceInv, PostIsNew, On
<1>. QED
  BY <1>3, <1>5, <1>6 DEF OnceInv

LEMMA OnceHandsOver ==
  ASSUME TurnTypeOK, TasksOK, NEW t \in TaskId, OnceInv(t), Begins(t) \/ Ends(t)
  PROVE  OnceInv(t)'
<1>1. /\ exposed'[t] = exposed[t] /\ Still(t) /\ attempt'[t]["stale"] = attempt[t]["stale"]
  BY DEF Begins, Ends
<1>2. attempt'[t]["live"] = None \/ (attempt'[t]["live"].pc = "scan" /\ task'[t].busy)
  BY DEF Begins, Ends, FirstAttempt
<1>3. ~On(t, "live", "record")
  BY DEF Begins, Ends, OnceInv, LiveIsBusy, On
<1>4. \A k : Recorded(t, k) => Recorded(t, k)'
  BY <1>1, RecordedStays DEF Still
<1>5. LiveIsBusy(t)' /\ StaleIsExposed(t)' /\ PostIsNew(t)'
  BY <1>1, <1>2 DEF OnceInv, LiveIsBusy, StaleIsExposed, PostIsNew, On
<1>6. AllKnown(t)' /\ OnceEach(t)'
  BY <1>1, <1>3, <1>4 DEF OnceInv, AllKnown, Known, OnceEach, Still
<1>. QED
  BY <1>5, <1>6 DEF OnceInv

LEMMA OnceStep ==
  ASSUME ShapeInv, [Next]_vars, NEW t \in TaskId, OnceInv(t)
  PROVE  OnceInv(t)'
<1>1. TurnTypeOK /\ TasksOK /\ Effect(t)
  BY EachTask DEF ShapeInv, StartInv, TypeInv, TurnOK
<1>. QED
  BY <1>1, OnceDrops, OnceMoves, OnceBuys, OnceOver, OnceHandsOver DEF Effect, Turns

LEMMA OnceInit == Init => \A t \in TaskId : OnceInv(t)
  BY DEF Init, OnceInv, LiveIsBusy, StaleIsExposed, AllKnown, PostIsNew, OnceEach, On, Slot

(* No key is paid for twice, for any number of crashes, restarts of the    *)
(* engine, lost answers and timeouts, unless the key is exposed: an        *)
(* attempt at it died, was overtaken or got no answer before its           *)
(* turn.started.                                                           *)
THEOREM NoKeyPaidTwice == Spec => []BoughtOnce
<1>. DEFINE Inv == \A t \in TaskId : OnceInv(t)
<1>1. Init => Inv
  BY OnceInit
<1>2. ShapeInv /\ Inv /\ [Next]_vars => Inv'
  BY OnceStep
<1>3. Inv => BoughtOnce
  BY DEF OnceInv, OnceEach, BoughtOnce
<1>. QED
  BY <1>1, <1>2, <1>3, Shaped, PTL DEF Spec

-----------------------------------------------------------------------------
(* How the engine numbers its turns                                        *)

AtUnique(t) == \A u, v \in bought[t] : u.at = v.at => u = v
KeyOnce(t) == \A u, v \in bought[t] : u.key = v.key /\ u.at.session = v.at.session => u = v
Numbered(t) ==
  \A u \in bought[t] : /\ u.at.session \in 1..opened[t]
                       /\ u.at.n \in 1..Cardinality(TurnsOf(t, u.at.session))
HeldOpened(t) == held[t] \subseteq 1..opened[t]

EngineInv(t) == AtUnique(t) /\ KeyOnce(t) /\ Numbered(t) /\ HeldOpened(t)

LEMMA TurnsOfCount ==
  ASSUME TurnOK, NEW t \in TaskId, NEW s
  PROVE  IsFiniteSet(TurnsOf(t, s)) /\ Cardinality(TurnsOf(t, s)) \in Nat
<1>1. TurnsOf(t, s) \subseteq bought[t] /\ IsFiniteSet(bought[t])
  BY DEF TurnsOf, TurnOK, FiniteTurns
<1>. QED
  BY <1>1, FS_Subset, FS_CardinalityType

(* A key is replayed within its session; otherwise it gets the next number *)
(* of the session the task remembers, or the first of a new one.           *)
LEMMA PlaceIs ==
  ASSUME TurnOK, NEW t \in TaskId, EngineInv(t), NEW in \in Input
  PROVE  LET at == Place(t, in)
         IN /\ at.session \in 1..(opened[t] + 1)
            /\ at.session = SessionFor(t, in)
            /\ \/ \E u \in bought[t] : u.at = at /\ u.key = in.seq + 1
               \/ /\ at.n = Cardinality(TurnsOf(t, at.session)) + 1
                  /\ \A u \in bought[t] : u.at.session = at.session => u.key # in.seq + 1
<1>. DEFINE s == SessionFor(t, in)
            same == {u \in TurnsOf(t, s) : u.key = in.seq + 1}
            n == Cardinality(TurnsOf(t, s)) + 1
            at == Place(t, in)
<1>1. s \in 1..(opened[t] + 1)
  BY DEF SessionFor, EngineInv, HeldOpened, TurnOK, TurnTypeOK
<1>2. CASE same # {}
  <2>1. at = (CHOOSE u \in same : TRUE).at
    BY <1>2 DEF Place
  <2>2. PICK u \in same : at = u.at
    BY <1>2, <2>1
  <2>3. u \in bought[t] /\ u.key = in.seq + 1 /\ at.session = s
    BY <2>2 DEF TurnsOf
  <2>. QED
    BY <1>1, <2>2, <2>3
<1>3. CASE same = {}
  <2>1. at = [session |-> s, n |-> n]
    BY <1>3 DEF Place
  <2>2. \A u \in bought[t] : u.at.session = s => u.key # in.seq + 1
    BY <1>3 DEF TurnsOf
  <2>. HIDE DEF s, n, at
  <2>3. at.session = s /\ at.n = n
    BY <2>1
  <2>. QED
    BY <1>1, <2>2, <2>3 DEF s, n, at
<1>. QED
  BY <1>2, <1>3

IsTurn(t, at, k) == \E u \in bought[t] : u.at = at /\ u.key = k

(* A turn that is new to the engine. *)
Fresh(t, u) ==
  /\ u \in Turn /\ u.how = "running" /\ bought'[t] = bought[t] \cup {u}
  /\ u.at.session \in 1..opened'[t] /\ u.at.n = Cardinality(TurnsOf(t, u.at.session)) + 1
  /\ \A v \in bought[t] : /\ v.at # u.at
                          /\ v.at.session = u.at.session => v.key # u.key

LEMMA PostIs ==
  ASSUME TurnOK, NEW t \in TaskId, NEW in \in Input, EngineInv(t), Posts(t, in)
  PROVE  /\ opened[t] <= opened'[t] /\ held'[t] \subseteq 1..opened'[t]
         /\ \/ bought'[t] = bought[t] /\ IsTurn(t, Place(t, in), in.seq + 1)
            \/ \E u : Fresh(t, u) /\ u.at = Place(t, in) /\ u.key = in.seq + 1
<1>. DEFINE at == Place(t, in)
            u == [at |-> at, key |-> in.seq + 1, how |-> "running", usage |-> 0]
<1>1. /\ at \in At /\ at.session \in 1..(opened[t] + 1)
      /\ \/ IsTurn(t, at, in.seq + 1)
         \/ /\ at.n = Cardinality(TurnsOf(t, at.session)) + 1
            /\ \A v \in bought[t] : v.at.session = at.session => v.key # in.seq + 1
  BY PlaceIs, PlaceTyped DEF IsTurn
<1>2. /\ opened'[t] = (IF at.session > opened[t] THEN at.session ELSE opened[t])
      /\ held'[t] = held[t] \cup {at.session}
      /\ \/ bought'[t] = bought[t] /\ \E v \in bought[t] : v.at = at
         \/ (\A v \in bought[t] : v.at # at) /\ bought'[t] = bought[t] \cup {u}
  BY DEF Posts
<1>. HIDE DEF at
<1>3. opened[t] \in Nat /\ held[t] \subseteq 1..opened[t]
  BY DEF TurnOK, TurnTypeOK, EngineInv, HeldOpened
<1>4. opened[t] <= opened'[t] /\ at.session \in 1..opened'[t] /\ held'[t] \subseteq 1..opened'[t]
  BY <1>1, <1>2, <1>3
<1>5. CASE \E v \in bought[t] : v.at = at
  <2>1. PICK v \in bought[t] : v.at = at
    BY <1>5
  <2>2. v.at.n \in 1..Cardinality(TurnsOf(t, v.at.session)) /\ Cardinality(TurnsOf(t, v.at.session)) \in Nat
    BY TurnsOfCount DEF EngineInv, Numbered
  <2>3. IsTurn(t, at, in.seq + 1)
    BY <1>1, <2>1, <2>2
  <2>. QED
    BY <1>2, <1>4, <1>5, <2>3 DEF at
<1>6. CASE \A v \in bought[t] : v.at # at
  <2>1. ~IsTurn(t, at, in.seq + 1)
    BY <1>6 DEF IsTurn
  <2>2. u \in Turn /\ u.at = at /\ u.key = in.seq + 1 /\ u.how = "running"
    BY <1>1 DEF Turn, Input
  <2>3. bought'[t] = bought[t] \cup {u}
    BY <1>2, <1>6
  <2>. HIDE DEF u
  <2>4. Fresh(t, u)
    BY <1>1, <1>4, <1>6, <2>1, <2>2, <2>3 DEF Fresh
  <2>. QED
    BY <1>4, <2>2, <2>4 DEF at
<1>. QED
  BY <1>5, <1>6

LEMMA EngineFresh ==
  ASSUME TurnOK, NEW t \in TaskId, EngineInv(t), NEW u, Fresh(t, u),
         opened'[t] \in Nat, opened[t] <= opened'[t], held'[t] \subseteq 1..opened'[t]
  PROVE  EngineInv(t)'
<1>1. AtUnique(t)' /\ KeyOnce(t)' /\ HeldOpened(t)'
  BY DEF Fresh, EngineInv, AtUnique, KeyOnce, HeldOpened
<1>2. Numbered(t)'
  <2>. SUFFICES ASSUME NEW v \in bought'[t]
       PROVE  v.at.session \in 1..opened'[t] /\ v.at.n \in 1..Cardinality(TurnsOf(t, v.at.session)')
    BY DEF Numbered
  <2>. DEFINE s == v.at.session
              old == TurnsOf(t, s)
              new == TurnsOf(t, s)'
  <2>1. new = IF u.at.session = s THEN old \cup {u} ELSE old
    BY DEF Fresh, TurnsOf
  <2>2. u \notin old
    BY DEF Fresh, TurnsOf
  <2>3. IsFiniteSet(old) /\ Cardinality(old) \in Nat
    BY TurnsOfCount
  <2>4. v \in bought[t] => v.at.session \in 1..opened[t] /\ v.at.n \in 1..Cardinality(old)
    BY DEF EngineInv, Numbered
  <2>5. v \notin bought[t] => v = u
    BY DEF Fresh
  <2>6. u.at.session \in 1..opened'[t] /\ u.at.n = Cardinality(TurnsOf(t, u.at.session)) + 1
    BY DEF Fresh
  <2>7. opened[t] \in Nat
    BY DEF TurnOK, TurnTypeOK
  <2>. HIDE DEF old, new
  <2>8. Cardinality(new) = IF u.at.session = s THEN Cardinality(old) + 1 ELSE Cardinality(old)
    BY <2>1, <2>2, <2>3, FS_AddElement
  <2>9. v = u => v.at.n = Cardinality(old) + 1
    BY <2>6 DEF old
  <2>10. v.at.n \in 1..Cardinality(new)
    BY <2>3, <2>4, <2>5, <2>8, <2>9
  <2>. QED
    BY <2>4, <2>5, <2>6, <2>7, <2>10 DEF new
<1>. QED
  BY <1>1, <1>2 DEF EngineInv

LEMMA EngineOver ==
  ASSUME TurnOK, NEW t \in TaskId, EngineInv(t), NEW u, NEW w, Over(t, u, w)
  PROVE  EngineInv(t)'
<1>1. /\ u \in bought[t] /\ u.how = "running" /\ bought'[t] = (bought[t] \ {u}) \cup {w}
      /\ w.at = u.at /\ w.key = u.key /\ w.how # "running"
      /\ opened'[t] = opened[t] /\ held'[t] = held[t]
  BY DEF Over
<1>2. AtUnique(t)' /\ KeyOnce(t)' /\ HeldOpened(t)'
  BY <1>1 DEF EngineInv, AtUnique, KeyOnce, HeldOpened
<1>3. Numbered(t)'
  <2>. SUFFICES ASSUME NEW v \in bought'[t]
       PROVE  v.at.session \in 1..opened[t] /\ v.at.n \in 1..Cardinality(TurnsOf(t, v.at.session)')
    BY <1>1 DEF Numbered
  <2>. DEFINE s == v.at.session
              old == TurnsOf(t, s)
              new == TurnsOf(t, s)'
  <2>1. new = IF u.at.session = s THEN (old \ {u}) \cup {w} ELSE old
    BY <1>1 DEF TurnsOf
  <2>2. u.at.session = s => u \in old
    BY <1>1 DEF TurnsOf
  <2>3. w \notin old
    BY <1>1 DEF TurnsOf, EngineInv, AtUnique
  <2>4. IsFiniteSet(old) /\ Cardinality(old) \in Nat
    BY TurnsOfCount
  <2>5. v.at.session \in 1..opened[t] /\ v.at.n \in 1..Cardinality(old)
    BY <1>1 DEF EngineInv, Numbered
  <2>. HIDE DEF old, new, s
  <2>6. IsFiniteSet(old \ {u}) /\ (u \in old => Cardinality(old \ {u}) = Cardinality(old) - 1)
    BY <2>4, FS_RemoveElement
  <2>7. u \in old => Cardinality((old \ {u}) \cup {w}) = Cardinality(old)
    <3>. DEFINE rest == old \ {u}
    <3>1. w \notin rest
      BY <2>3
    <3>. HIDE DEF rest
    <3>2. Cardinality(rest \cup {w}) = Cardinality(rest) + 1
      BY <2>6, <3>1, FS_AddElement DEF rest
    <3>. QED
      BY <2>4, <2>6, <3>2 DEF rest
  <2>8. Cardinality(new) = Cardinality(old)
    BY <2>1, <2>2, <2>7
  <2>. QED
    BY <2>5, <2>8 DEF new, s
<1>. QED
  BY <1>2, <1>3 DEF EngineInv

LEMMA EngineStill ==
  ASSUME TurnOK, TurnOK', NEW t \in TaskId, EngineInv(t), opened[t] <= opened'[t],
         bought'[t] = bought[t], held'[t] \subseteq held[t] \cup (1..opened'[t])
  PROVE  EngineInv(t)'
<1>. opened[t] \in Nat /\ opened'[t] \in Nat
  BY DEF TurnOK, TurnTypeOK
<1>1. \A s : TurnsOf(t, s)' = TurnsOf(t, s)
  BY DEF TurnsOf
<1>2. AtUnique(t)' /\ KeyOnce(t)' /\ HeldOpened(t)'
  BY DEF EngineInv, AtUnique, KeyOnce, HeldOpened
<1>3. Numbered(t)'
  <2>1. \A n \in 1..opened[t] : n \in 1..opened'[t]
    OBVIOUS
  <2>. QED
    BY <1>1, <2>1 DEF EngineInv, Numbered
<1>. QED
  BY <1>2, <1>3 DEF EngineInv

LEMMA EnginePosts ==
  ASSUME TurnOK, TurnOK', NEW t \in TaskId, NEW in \in Input, EngineInv(t), Posts(t, in)
  PROVE  EngineInv(t)'
<1>1. opened'[t] \in Nat /\ opened[t] \in Nat
  BY DEF TurnOK, TurnTypeOK
<1>2. opened[t] <= opened'[t] /\ held'[t] \subseteq 1..opened'[t]
  BY PostIs
<1>3. CASE \E u : Fresh(t, u)
  BY <1>1, <1>2, <1>3, EngineFresh
<1>4. CASE bought'[t] = bought[t]
  <2>1. \A s : TurnsOf(t, s)' = TurnsOf(t, s)
    BY <1>4 DEF TurnsOf
  <2>2. AtUnique(t)' /\ KeyOnce(t)' /\ HeldOpened(t)'
    BY <1>2, <1>4 DEF EngineInv, AtUnique, KeyOnce, HeldOpened
  <2>3. Numbered(t)'
    <3>1. \A n \in 1..opened[t] : n \in 1..opened'[t]
      BY <1>1, <1>2
    <3>. QED
      BY <1>4, <2>1, <3>1 DEF EngineInv, Numbered
  <2>. QED
    BY <2>2, <2>3 DEF EngineInv
<1>. QED
  BY <1>3, <1>4, PostIs

(* What a step of an attempt that posts hands the engine. *)
LEMMA PostInput ==
  ASSUME TurnTypeOK, NEW t \in TaskId, NEW x \in Slot,
         BuysUnheard(t, x) \/ \E a \in Attempt : Buys(t, x, a)
  PROVE  /\ attempt[t][x] # None /\ attempt[t][x] \in Attempt /\ attempt[t][x].in \in Input
         /\ Posts(t, attempt[t][x].in) /\ attempt[t][x].pc = "post"
<1>1. attempt[t][x] # None /\ attempt[t][x] \in Attempt /\ attempt[t][x].in \in Input
  BY OnTyped DEF BuysUnheard, Buys, On, Attempt
<1>. QED
  BY <1>1 DEF BuysUnheard, Buys, Moves, On

LEMMA EngineStep ==
  ASSUME TurnOK, TurnOK', NEW t \in TaskId, EngineInv(t), Effect(t)
  PROVE  EngineInv(t)'
<1>. opened[t] <= opened[t]
  BY DEF TurnOK, TurnTypeOK
<1>1. ASSUME NEW x \in Slot, BuysUnheard(t, x) \/ \E a \in Attempt : Buys(t, x, a)
      PROVE  EngineInv(t)'
  BY <1>1, PostInput, EnginePosts DEF TurnOK
<1>2. ASSUME NEW u, NEW v, Over(t, u, v)
      PROVE  EngineInv(t)'
  BY <1>2, EngineOver
<1>3. ASSUME NEW x \in Slot, NEW a \in Attempt,
             \/ Adopts(t, x, a) \/ Unbought(t, x, a) \/ Records(t, x, a) \/ Reads(t, x, a)
             \/ Finishes(t, x, a)
      PROVE  EngineInv(t)'
  BY <1>3, EngineStill DEF Adopts, Unbought, Records, Reads, Finishes, Still
<1>4. CASE Drops(t) \/ Begins(t) \/ Ends(t)
  BY <1>4, EngineStill DEF Drops, Begins, Ends, Still
<1>. QED
  BY <1>1, <1>2, <1>3, <1>4 DEF Effect, Turns

-----------------------------------------------------------------------------
(* What the attempts and the ledger say is true of the engine's turns      *)

(* An attempt was handed the state before its turn, and a turn is under    *)
(* way as long as an attempt at the current one is.                        *)
HandedTo(t) ==
  \A x \in Slot : attempt[t][x] # None =>
    /\ attempt[t][x].in.seq <= task[t].seq
    /\ x = "live" => attempt[t][x].in.seq = task[t].seq
    /\ attempt[t][x].in.seq = task[t].seq =>
         attempt[t][x].in = InputOf(task[t]) /\ task[t].busy

KeysIn(t) == \A u \in bought[t] : u.key \in 1..(IF task[t].busy THEN task[t].seq + 1 ELSE task[t].seq)

Answer(ask) == IF ask THEN "ask" ELSE "completed"
Says(t, at, ask) == \E u \in bought[t] : u.at = at /\ u.how = Answer(ask)

AttemptsBought(t) ==
  \A x \in Slot : \A pc \in {"record", "stream", "finish", "return"} :
    On(t, x, pc) => IsTurn(t, attempt[t][x].at, Key(attempt[t][x]))
StartsBought(t) ==
  \A i \in DOMAIN started[t] : IsTurn(t, started[t][i].at, started[t][i].key)
AttemptsSay(t) ==
  \A x \in Slot : \A pc \in {"finish", "return"} :
    On(t, x, pc) => Says(t, attempt[t][x].at, attempt[t][x].ask)
FinishesSay(t) == \A f \in finished[t] : Says(t, f.at, f.ask)

TruthInv(t) ==
  /\ EngineInv(t) /\ HandedTo(t) /\ KeysIn(t)
  /\ AttemptsBought(t) /\ StartsBought(t) /\ AttemptsSay(t) /\ FinishesSay(t)

MovesOn(t, x, a) ==
  \/ Adopts(t, x, a) \/ Unbought(t, x, a) \/ Buys(t, x, a)
  \/ Records(t, x, a) \/ Reads(t, x, a) \/ Finishes(t, x, a)

LEMMA LostFrom ==
  ASSUME TurnTypeOK, NEW t \in TaskId, Lost(t), NEW x \in Slot, attempt'[t][x] # None
  PROVE  \E y \in Slot : /\ attempt[t][y] # None /\ (x = "live" => y = "live")
                         /\ attempt'[t][x].in = attempt[t][y].in
                         /\ attempt'[t][x].pc = "scan" \/ attempt'[t][x] = attempt[t][y]
<1>1. attempt[t]["live"] # None => attempt[t]["live"].in \in Input
  BY OnTyped DEF Slot, Attempt
<1>2. CASE x = "live"
  BY <1>1, <1>2, FirstIs DEF Lost, Slot
<1>3. CASE x = "stale"
  BY <1>1, <1>3, FirstIs DEF Lost, Slot
<1>. QED
  BY <1>2, <1>3 DEF Slot

(* An attempt after a step is an attempt from before it, starts over, or   *)
(* has moved on; its input was an attempt's or is the task's state.        *)
LEMMA AttemptFrom ==
  ASSUME TurnTypeOK, NEW t \in TaskId, Turns(t), NEW x \in Slot, attempt'[t][x] # None
  PROVE  \E y \in Slot : /\ attempt[t][y] # None /\ (x = "live" => y = "live")
                         /\ attempt'[t][x].in = attempt[t][y].in
                         /\ \/ attempt'[t][x].pc = "scan" \/ attempt'[t][x] = attempt[t][y]
                            \/ y = x /\ \E a \in Attempt : MovesOn(t, x, a) /\ attempt'[t][x] = a
<1>1. CASE Lost(t)
  BY <1>1, LostFrom
<1>2. ASSUME NEW z \in Slot, NEW a \in Attempt, MovesOn(t, z, a)
      PROVE  \E y \in Slot : /\ attempt[t][y] # None /\ (x = "live" => y = "live")
                             /\ attempt'[t][x].in = attempt[t][y].in
                             /\ \/ attempt'[t][x].pc = "scan" \/ attempt'[t][x] = attempt[t][y]
                                \/ y = x /\ \E b \in Attempt : MovesOn(t, x, b) /\ attempt'[t][x] = b
  <2>1. Moves(t, z, a) /\ attempt[t][z] # None
    BY <1>2 DEF MovesOn, Adopts, Unbought, Buys, Records, Reads, Finishes, On
  <2>. QED
    BY <1>2, <2>1 DEF Moves
<1>. QED
  BY <1>1, <1>2 DEF Turns, Drops, BuysUnheard, Over, MovesOn

(* Turns stay what they were sold as, and what has ended stays so.         *)
LEMMA TurnsStay ==
  ASSUME NEW t \in TaskId, Effect(t), NEW at
  PROVE  /\ \A k : IsTurn(t, at, k) => IsTurn(t, at, k)'
         /\ \A ask \in BOOLEAN : Says(t, at, ask) => Says(t, at, ask)'
<1>1. CASE bought[t] \subseteq bought'[t]
  BY <1>1 DEF IsTurn, Says
<1>2. ASSUME NEW u, NEW v, Over(t, u, v)
      PROVE  /\ \A k : IsTurn(t, at, k) => IsTurn(t, at, k)'
             /\ \A ask \in BOOLEAN : Says(t, at, ask) => Says(t, at, ask)'
  <2>1. /\ bought'[t] = (bought[t] \ {u}) \cup {v} /\ v.at = u.at /\ v.key = u.key
        /\ u.how = "running"
    BY <1>2 DEF Over
  <2>. QED
    BY <2>1 DEF IsTurn, Says, Answer
<1>. QED
  BY <1>1, <1>2 DEF Effect, Turns, Drops, Begins, Ends, Still, BuysUnheard, Adopts, Unbought, Buys,
                    Records, Reads, Finishes, Posts

LEMMA HandedStep ==
  ASSUME TurnTypeOK, TasksOK, NEW t \in TaskId, HandedTo(t), Effect(t)
  PROVE  HandedTo(t)'
<1>1. CASE Turns(t) /\ SameView(task[t], task'[t])
  <2>1. /\ task'[t].seq = task[t].seq /\ task'[t].busy = task[t].busy
        /\ InputOf(task'[t]) = InputOf(task[t])
    BY <1>1 DEF SameView, InputOf
  <2>. QED
    BY <1>1, <2>1, AttemptFrom DEF HandedTo
<1>2. CASE Begins(t)
  <2>1. InputOf(task[t]) \in Input /\ task[t].seq \in Nat
    BY DEF TasksOK, TaskType, InputOf, Input
  <2>2. task'[t].seq = task[t].seq /\ InputOf(task'[t]) = InputOf(task[t]) /\ task'[t].busy
    <3>1. InputOf(task'[t]) = InputOf(task[t])
      BY <1>2 DEF Begins
    <3>2. InputOf(task'[t]).seq = task'[t].seq /\ InputOf(task[t]).seq = task[t].seq
      BY DEF InputOf
    <3>. QED
      BY <1>2, <3>1, <3>2 DEF Begins
  <2>3. attempt'[t]["live"].in = InputOf(task[t]) /\ attempt'[t]["stale"] = attempt[t]["stale"]
    BY <1>2 DEF Begins, FirstAttempt
  <2>4. InputOf(task[t]).seq = task[t].seq /\ ~task[t].busy
    BY <1>2 DEF InputOf, Begins
  <2>. QED
    BY <2>1, <2>2, <2>3, <2>4 DEF HandedTo, Slot
<1>3. CASE Ends(t)
  <2>1. /\ attempt'[t]["live"] = None /\ attempt'[t]["stale"] = attempt[t]["stale"]
        /\ task'[t].seq = task[t].seq + 1 /\ task[t].seq \in Nat
    BY <1>3 DEF Ends, TurnTaken, TasksOK, TaskType
  <2>2. attempt[t]["stale"] # None => attempt[t]["stale"].in.seq \in Nat
    BY OnTyped DEF Slot, Attempt, Input
  <2>. QED
    BY <2>1, <2>2 DEF HandedTo, Slot
<1>. QED
  BY <1>1, <1>2, <1>3 DEF Effect

LEMMA KeysStep ==
  ASSUME TurnOK, TurnOK', TasksOK, TasksOK', NEW t \in TaskId, EngineInv(t), HandedTo(t), KeysIn(t),
         Effect(t)
  PROVE  KeysIn(t)'
<1>. DEFINE top == IF task[t].busy THEN task[t].seq + 1 ELSE task[t].seq
            top2 == IF task'[t].busy THEN task'[t].seq + 1 ELSE task'[t].seq
<1>1. top \in Nat /\ top2 \in Nat /\ top <= top2 /\ task[t].seq \in Nat
  <2>1. task[t].seq \in Nat /\ task'[t].seq \in Nat /\ task[t].busy \in BOOLEAN /\ task'[t].busy \in BOOLEAN
    BY DEF TasksOK, TaskType
  <2>2. CASE Begins(t)
    <3>1. task'[t].seq = task[t].seq
      BY <2>2 DEF Begins, InputOf
    <3>. QED
      BY <2>1, <2>2, <3>1 DEF Begins
  <2>3. CASE Ends(t)
    <3>1. task[t].busy /\ ~task'[t].busy /\ task'[t].seq = task[t].seq + 1
      BY <2>3 DEF Ends, TurnTaken
    <3>. QED
      BY <2>1, <3>1
  <2>4. CASE SameView(task[t], task'[t])
    <3>1. task'[t].busy = task[t].busy /\ task'[t].seq = task[t].seq
      BY <2>4 DEF SameView
    <3>. QED
      BY <2>1, <3>1
  <2>. QED
    BY <2>2, <2>3, <2>4 DEF Effect
<1>2. \A u \in bought[t] : u.key \in 1..top2
  BY <1>1 DEF KeysIn
<1>. HIDE DEF top2
<1>3. ASSUME NEW x \in Slot, BuysUnheard(t, x) \/ \E a \in Attempt : Buys(t, x, a),
             SameView(task[t], task'[t])
      PROVE  \A u \in bought'[t] : u.key \in 1..top2
  <2>. DEFINE in == attempt[t][x].in
  <2>1. attempt[t][x] # None /\ in \in Input /\ Posts(t, in)
    BY <1>3, PostInput DEF TurnOK
  <2>2. bought'[t] = bought[t] \/ \E u : bought'[t] = bought[t] \cup {u} /\ u.key = in.seq + 1
    BY <2>1, PostIs DEF Fresh
  <2>3. in.seq \in Nat /\ in.seq <= task[t].seq /\ (in.seq = task[t].seq => task[t].busy)
    BY <2>1 DEF HandedTo, Input
  <2>4. in.seq + 1 \in 1..top2
    BY <1>1, <2>3
  <2>. QED
    BY <1>2, <2>2, <2>4
<1>4. ASSUME NEW u, NEW v, Over(t, u, v)
      PROVE  \A w \in bought'[t] : w.key \in 1..top2
  BY <1>2, <1>4 DEF Over
<1>5. \A u \in bought'[t] : u.key \in 1..top2
  <2>1. CASE bought'[t] = bought[t]
    BY <1>2, <2>1
  <2>. QED
    BY <1>3, <1>4, <2>1 DEF Effect, Turns, Drops, Begins, Ends, Still, Adopts, Unbought, Records, Reads,
                            Finishes
<1>. QED
  BY <1>5 DEF KeysIn, top2

LEMMA AdoptsWhat ==
  ASSUME TurnTypeOK, NEW t \in TaskId, StartsBought(t), NEW x, NEW a, Adopts(t, x, a)
  PROVE  IsTurn(t, a.at, Key(a))
<1>1. PICK i \in Starts(t, Key(a)) : a.at = started[t][i].at
  BY FirstStartIs DEF Adopts
<1>. QED
  BY <1>1 DEF StartsBought, Starts

LEMMA AttemptsBoughtStep ==
  ASSUME TurnOK, TurnOK', NEW t \in TaskId, TruthInv(t), Effect(t)
  PROVE  AttemptsBought(t)'
<1>. SUFFICES ASSUME NEW x \in Slot, attempt'[t][x] # None,
                     attempt'[t][x].pc \in {"record", "stream", "finish", "return"}
     PROVE  \E u \in bought'[t] : u.at = attempt'[t][x].at /\ u.key = Key(attempt'[t][x])
  BY DEF AttemptsBought, On, IsTurn, Key
<1>. DEFINE b == attempt'[t][x]
<1>1. SUFFICES \E at, k : at = b.at /\ k = Key(b) /\ (IsTurn(t, at, k) \/ IsTurn(t, at, k)')
  BY TurnsStay DEF IsTurn
<1>2. ASSUME NEW y \in Slot, attempt[t][y] # None, attempt[t][y] = b
      PROVE  IsTurn(t, b.at, Key(b))
  BY <1>2 DEF TruthInv, AttemptsBought, On, Key
<1>3. ASSUME NEW a \in Attempt, MovesOn(t, x, a), b = a
      PROVE  \E at, k : at = b.at /\ k = Key(b) /\ (IsTurn(t, at, k) \/ IsTurn(t, at, k)')
  <2>1. CASE Adopts(t, x, a)
    BY <1>3, <2>1, AdoptsWhat DEF TruthInv, TurnOK
  <2>2. CASE Buys(t, x, a)
    <3>1. a.in \in Input /\ Posts(t, a.in) /\ a.at = Place(t, a.in) /\ Key(a) = a.in.seq + 1
      BY <2>2 DEF Buys, Attempt, Key
    <3>2. \E at, k : at = Place(t, a.in) /\ k = a.in.seq + 1 /\ (IsTurn(t, at, k) \/ IsTurn(t, at, k)')
      BY <3>1, PostIs DEF TruthInv, Fresh, IsTurn
    <3>. QED
      BY <1>3, <3>1, <3>2
  <2>3. CASE Records(t, x, a) \/ Reads(t, x, a) \/ Finishes(t, x, a)
    <3>1. /\ \E pc \in {"record", "stream", "finish", "return"} : On(t, x, pc)
          /\ a.at = attempt[t][x].at /\ Key(a) = Key(attempt[t][x])
      BY <2>3 DEF Records, Reads, Finishes, Moves, Key
    <3>. QED
      BY <1>3, <3>1 DEF TruthInv, AttemptsBought
  <2>. QED
    BY <1>3, <2>1, <2>2, <2>3 DEF MovesOn, Unbought
<1>4. CASE Turns(t)
  <2>1. b.pc # "scan"
    OBVIOUS
  <2>2. \/ \E y \in Slot : attempt[t][y] # None /\ b = attempt[t][y]
        \/ \E a \in Attempt : MovesOn(t, x, a) /\ b = a
    BY <1>4, <2>1, AttemptFrom DEF TurnOK
  <2>. QED
    BY <1>2, <1>3, <2>2
<1>5. CASE Begins(t) \/ Ends(t)
  <2>1. b = attempt[t][x]
    BY <1>5 DEF Begins, Ends, Slot, FirstAttempt
  <2>. QED
    BY <1>2, <2>1
<1>. QED
  BY <1>4, <1>5 DEF Effect

LEMMA AttemptsSayStep ==
  ASSUME TurnOK, TurnOK', NEW t \in TaskId, TruthInv(t), Effect(t)
  PROVE  AttemptsSay(t)'
<1>. SUFFICES ASSUME NEW x \in Slot, attempt'[t][x] # None, attempt'[t][x].pc \in {"finish", "return"}
     PROVE  \E u \in bought'[t] : u.at = attempt'[t][x].at /\ u.how = Answer(attempt'[t][x].ask)
  BY DEF AttemptsSay, On, Says, Answer
<1>. DEFINE b == attempt'[t][x]
<1>1. SUFFICES Says(t, b.at, b.ask)
  <2>1. b.ask \in BOOLEAN
    BY DEF TurnOK, TurnTypeOK, Attempt
  <2>. QED
    BY <2>1, TurnsStay DEF Says
<1>2. ASSUME NEW y \in Slot, attempt[t][y] # None, attempt[t][y] = b
      PROVE  Says(t, b.at, b.ask)
  BY <1>2 DEF TruthInv, AttemptsSay, On
<1>3. ASSUME NEW a \in Attempt, MovesOn(t, x, a), b = a
      PROVE  Says(t, b.at, b.ask)
  <2>1. CASE Adopts(t, x, a)
    BY <1>3, <2>1 DEF Adopts, TruthInv, FinishesSay
  <2>2. CASE Reads(t, x, a)
    BY <1>3, <2>2 DEF Reads, Answer, Says
  <2>3. CASE Finishes(t, x, a)
    BY <1>3, <2>3 DEF Finishes, TruthInv, AttemptsSay
  <2>. QED
    BY <1>3, <2>1, <2>2, <2>3 DEF MovesOn, Unbought, Buys, Records
<1>4. CASE Turns(t)
  <2>1. b.pc # "scan"
    OBVIOUS
  <2>2. \/ \E y \in Slot : attempt[t][y] # None /\ b = attempt[t][y]
        \/ \E a \in Attempt : MovesOn(t, x, a) /\ b = a
    BY <1>4, <2>1, AttemptFrom DEF TurnOK
  <2>. QED
    BY <1>2, <1>3, <2>2
<1>5. CASE Begins(t) \/ Ends(t)
  <2>1. b = attempt[t][x]
    BY <1>5 DEF Begins, Ends, Slot, FirstAttempt
  <2>. QED
    BY <1>2, <2>1
<1>. QED
  BY <1>4, <1>5 DEF Effect

LEMMA StartsBoughtStep ==
  ASSUME TurnOK, NEW t \in TaskId, TruthInv(t), Effect(t)
  PROVE  StartsBought(t)'
<1>. DEFINE Real(r) == \E u \in bought'[t] : u.at = r.at /\ u.key = r.key
<1>1. ASSUME NEW at, NEW k, IsTurn(t, at, k)
      PROVE  \E u \in bought'[t] : u.at = at /\ u.key = k
  BY <1>1, TurnsStay DEF IsTurn
<1>2. started[t] \in Seq(StartRecord)
  BY DEF TurnOK, TurnTypeOK
<1>3. \A i \in DOMAIN started[t] : Real(started[t][i])
  BY <1>1 DEF TruthInv, StartsBought
<1>. SUFFICES \A i \in DOMAIN started'[t] : Real(started'[t][i])
  BY DEF StartsBought, IsTurn
<1>4. ASSUME NEW x \in Slot, NEW a \in Attempt, Records(t, x, a)
      PROVE  \A i \in DOMAIN started'[t] : Real(started'[t][i])
  <2>. DEFINE r == [key |-> Key(a), at |-> a.at]
  <2>1. IsTurn(t, a.at, Key(a))
    BY <1>4 DEF Records, Moves, Key, TruthInv, AttemptsBought
  <2>2. Real(r)
    BY <1>1, <2>1
  <2>. HIDE DEF Real, r
  <2>3. started'[t] = Append(started[t], r)
    BY <1>4 DEF Records, r
  <2>. QED
    BY <1>2, <1>3, <2>2, <2>3
<1>5. CASE started'[t] = started[t]
  BY <1>3, <1>5
<1>. QED
  BY <1>4, <1>5 DEF Effect, Turns, Drops, Begins, Ends, Still, BuysUnheard, Over, Adopts, Unbought, Buys,
                    Reads, Finishes, Posts

LEMMA FinishesSayStep ==
  ASSUME TurnOK, NEW t \in TaskId, TruthInv(t), Effect(t)
  PROVE  FinishesSay(t)'
<1>. DEFINE Real(f) == \E u \in bought'[t] : u.at = f.at /\ u.how = Answer(f.ask)
<1>1. ASSUME NEW at, NEW ask \in BOOLEAN, Says(t, at, ask)
      PROVE  \E u \in bought'[t] : u.at = at /\ u.how = Answer(ask)
  BY <1>1, TurnsStay DEF Says, Answer
<1>2. \A f \in finished[t] : Real(f)
  <2>1. \A f \in finished[t] : f.ask \in BOOLEAN
    BY DEF TurnOK, TurnTypeOK, FinishRecord
  <2>. QED
    BY <1>1, <2>1 DEF TruthInv, FinishesSay
<1>. SUFFICES \A f \in finished'[t] : Real(f)
  BY DEF FinishesSay, Says, Answer
<1>3. ASSUME NEW x \in Slot, NEW a \in Attempt, Finishes(t, x, a)
      PROVE  \A f \in finished'[t] : Real(f)
  <2>. DEFINE r == [at |-> a.at, cost |-> a.cost, ask |-> a.ask]
  <2>1. Says(t, a.at, a.ask) /\ a.ask \in BOOLEAN
    BY <1>3 DEF Finishes, TruthInv, AttemptsSay, Attempt
  <2>2. Real(r)
    BY <1>1, <2>1
  <2>. HIDE DEF Real, r
  <2>3. finished'[t] = finished[t] \cup {r}
    BY <1>3 DEF Finishes, r
  <2>. QED
    BY <1>2, <2>2, <2>3
<1>4. CASE finished'[t] = finished[t]
  BY <1>2, <1>4
<1>. QED
  BY <1>3, <1>4 DEF Effect, Turns, Drops, Begins, Ends, Still, BuysUnheard, Over, Adopts, Unbought, Buys,
                    Records, Reads, Posts

LEMMA TruthStep ==
  ASSUME ShapeInv, [Next]_vars, NEW t \in TaskId, TruthInv(t)
  PROVE  TruthInv(t)'
<1>1. TurnOK /\ TasksOK /\ TurnTypeOK /\ Effect(t) /\ TypeInv
  BY EachTask DEF ShapeInv, StartInv, TypeInv, TurnOK
<1>2. TurnOK' /\ TasksOK'
  BY <1>1, NextTyped DEF TypeInv
<1>3. EngineInv(t)' /\ HandedTo(t)' /\ KeysIn(t)'
  BY <1>1, <1>2, EngineStep, HandedStep, KeysStep DEF TruthInv
<1>4. AttemptsBought(t)' /\ StartsBought(t)' /\ AttemptsSay(t)' /\ FinishesSay(t)'
  BY <1>1, <1>2, AttemptsBoughtStep, StartsBoughtStep, AttemptsSayStep, FinishesSayStep
<1>. QED
  BY <1>3, <1>4 DEF TruthInv

LEMMA TruthInit == Init => \A t \in TaskId : TruthInv(t)
  BY DEF Init, TruthInv, EngineInv, AtUnique, KeyOnce, Numbered, HeldOpened, HandedTo, KeysIn,
         AttemptsBought, StartsBought, AttemptsSay, FinishesSay, On, Slot

-----------------------------------------------------------------------------
(* A question is the last thing paid for                                   *)

(* Of the turns the task has consumed, unless they are exposed, all were   *)
(* completed but the last, which may have ended on a question the task     *)
(* knows of.                                                               *)
Heard(t) ==
  \A u \in bought[t] : u.key \notin exposed[t] /\ u.key <= task[t].seq =>
    u.how = "completed" \/ (u.how = "ask" /\ u.key = task[t].seq /\ task[t].ask)

MoneyInv == ShapeInv /\ \A t \in TaskId : OnceInv(t) /\ TruthInv(t) /\ Heard(t)

(* The turn that the returning attempt saw is the one the engine was paid  *)
(* for with that key.                                                      *)
LEMMA ReturnsWhat ==
  ASSUME TurnOK, NEW t \in TaskId, TruthInv(t), On(t, "live", "return"), NEW u \in bought[t],
         OnceEach(t), u.key = Key(attempt[t]["live"]), u.key \notin exposed[t]
  PROVE  u.at = attempt[t]["live"].at /\ u.how = Answer(attempt[t]["live"].ask)
<1>. DEFINE a == attempt[t]["live"]
<1>1. PICK v \in bought[t] : v.at = a.at /\ v.key = Key(a)
  BY DEF TruthInv, AttemptsBought, IsTurn, Slot
<1>2. PICK w \in bought[t] : w.at = a.at /\ w.how = Answer(a.ask)
  BY DEF TruthInv, AttemptsSay, Says, Slot
<1>3. v = w
  BY <1>1, <1>2 DEF TruthInv, EngineInv, AtUnique
<1>4. u = v
  BY <1>1 DEF OnceEach
<1>. QED
  BY <1>2, <1>3, <1>4

LEMMA HeardStep ==
  ASSUME TurnOK, TasksOK, NEW t \in TaskId, TaskShape(task[t]), OnceInv(t), TruthInv(t), Heard(t),
         Effect(t)
  PROVE  Heard(t)'
<1>. DEFINE s == task[t]
            p == task'[t]
<1>1. s \in TaskType /\ s.seq \in Nat
  BY DEF TasksOK, TaskType
<1>2. CASE /\ bought'[t] = bought[t] /\ exposed[t] \subseteq exposed'[t]
           /\ p.seq = s.seq /\ p.ask = s.ask
  BY <1>2 DEF Heard
<1>3. ASSUME NEW x \in Slot, BuysUnheard(t, x) \/ \E a \in Attempt : Buys(t, x, a), SameView(s, p)
      PROVE  Heard(t)'
  <2>. DEFINE b == attempt[t][x]
              k == b.in.seq + 1
  <2>1. b # None /\ b.in \in Input /\ Posts(t, b.in) /\ b.pc = "post"
    BY <1>3, PostInput DEF TurnOK
  <2>2. bought'[t] = bought[t] \/ \E u : bought'[t] = bought[t] \cup {u} /\ u.key = k
    BY <2>1, PostIs DEF Fresh, TruthInv
  <2>3. k > s.seq \/ k \in exposed[t]
    <3>1. CASE x = "live"
      BY <1>1, <2>1, <3>1 DEF TruthInv, HandedTo
    <3>2. CASE x = "stale"
      BY <2>1, <3>2 DEF OnceInv, StaleIsExposed, On, Unsettled, Key
    <3>. QED
      BY <3>1, <3>2 DEF Slot
  <2>4. exposed[t] \subseteq exposed'[t] /\ p.seq = s.seq /\ p.ask = s.ask
    BY <1>3 DEF BuysUnheard, Buys, Moves, SameView
  <2>5. k \in Nat
    BY <2>1 DEF Input
  <2>6. \A u \in bought'[t] : u \in bought[t] \/ u.key > s.seq \/ u.key \in exposed'[t]
    BY <2>2, <2>3, <2>4
  <2>. HIDE DEF s, p
  <2>7. \A u \in bought'[t] : u.key \in Nat
    BY <2>2, <2>5 DEF TurnOK, TurnTypeOK, Turn
  <2>8. \A u \in bought'[t] : u.key \notin exposed'[t] /\ u.key <= p.seq =>
          u.how = "completed" \/ (u.how = "ask" /\ u.key = p.seq /\ p.ask)
    BY <1>1, <2>4, <2>6, <2>7 DEF Heard, s
  <2>. QED
    BY <2>8 DEF Heard, p
<1>4. ASSUME NEW u, NEW v, Over(t, u, v), SameView(s, p)
      PROVE  Heard(t)'
  <2>1. /\ u \in bought[t] /\ u.how = "running" /\ bought'[t] = (bought[t] \ {u}) \cup {v}
        /\ v.key = u.key /\ exposed'[t] = exposed[t] /\ p.seq = s.seq /\ p.ask = s.ask
    BY <1>4 DEF Over, SameView
  <2>. QED
    BY <2>1 DEF Heard
<1>5. CASE Ends(t)
  <2>. DEFINE a == attempt[t]["live"]
  <2>1. /\ bought'[t] = bought[t] /\ exposed'[t] = exposed[t] /\ s.busy /\ On(t, "live", "return")
        /\ p.seq = s.seq + 1 /\ (p.ask <=> s.ask \/ a.ask)
    BY <1>5 DEF Ends, Still, TurnTaken
  <2>2. ~s.ask
    BY <2>1 DEF TaskShape
  <2>3. Key(a) = s.seq + 1
    BY <2>1 DEF TruthInv, HandedTo, Key, On, Slot
  <2>4. ASSUME NEW u \in bought[t], u.key \notin exposed[t], u.key <= s.seq + 1
        PROVE  u.how = "completed" \/ (u.how = "ask" /\ u.key = s.seq + 1 /\ p.ask)
    <3>1. u.key \in Nat
      BY DEF TurnOK, TurnTypeOK, Turn
    <3>2. CASE u.key <= s.seq
      BY <2>2, <2>4, <3>2 DEF Heard
    <3>3. CASE u.key = s.seq + 1
      <4>1. u.how = Answer(a.ask)
        BY <2>1, <2>3, <2>4, <3>3, ReturnsWhat DEF OnceInv
      <4>. QED
        BY <2>1, <3>3, <4>1 DEF Answer
    <3>. QED
      BY <1>1, <2>4, <3>1, <3>2, <3>3
  <2>. QED
    BY <2>1, <2>4 DEF Heard
<1>6. CASE Begins(t)
  <2>1. /\ InputOf(p) = InputOf(s) /\ p.ask = s.ask /\ bought'[t] = bought[t]
        /\ exposed'[t] = exposed[t]
    BY <1>6 DEF Begins, Still
  <2>2. p.seq = s.seq
    BY <2>1 DEF InputOf
  <2>. QED
    BY <1>2, <2>1, <2>2
<1>7. CASE Turns(t) /\ SameView(s, p)
  <2>1. p.seq = s.seq /\ p.ask = s.ask
    BY <1>7 DEF SameView
  <2>. QED
    BY <1>2, <1>3, <1>4, <1>7, <2>1
       DEF Turns, Drops, Still, Adopts, Unbought, Records, Reads, Finishes, Moves
<1>. QED
  BY <1>5, <1>6, <1>7 DEF Effect

LEMMA MoneyKept == Spec => []MoneyInv
<1>. DEFINE Inv == \A t \in TaskId : OnceInv(t) /\ TruthInv(t) /\ Heard(t)
<1>1. Init => Inv
  BY OnceInit, TruthInit DEF Init, Heard
<1>2. ShapeInv /\ Inv /\ [Next]_vars => Inv'
  <2>. SUFFICES ASSUME ShapeInv, Inv, [Next]_vars, NEW t \in TaskId
       PROVE  OnceInv(t)' /\ TruthInv(t)' /\ Heard(t)'
    OBVIOUS
  <2>1. TurnOK /\ TasksOK /\ TaskShape(task[t]) /\ Effect(t)
    BY EachTask DEF ShapeInv, StartInv, TypeInv
  <2>. QED
    BY <2>1, OnceStep, TruthStep, HeardStep
<1>. QED
  BY <1>1, <1>2, Shaped, PTL DEF Spec, MoneyInv

(* A turn that stopped on a question stays the last the task pays for: no  *)
(* attempt that finds it in the ledger, and no workflow that adopts it,    *)
(* goes on to buy another, unless the key of that turn is exposed.         *)
THEOREM NothingAfterAQuestion == Spec => []AskIsLast
<1>1. MoneyInv => AskIsLast
  <2>. SUFFICES ASSUME MoneyInv, NEW t \in TaskId, NEW f \in finished[t], NEW u \in bought[t],
                       f.ask, f.at = u.at, u.key \notin exposed[t], NEW v \in bought[t]
       PROVE  v.key <= u.key
    BY DEF AskIsLast
  <2>. DEFINE s == task[t]
  <2>1. TaskShape(s) /\ OnceInv(t) /\ TruthInv(t) /\ Heard(t) /\ TasksOK
    BY DEF MoneyInv, ShapeInv, StartInv, TypeInv
  <2>2. PICK w \in bought[t] : w.at = f.at /\ w.how = Answer(f.ask)
    BY <2>1 DEF TruthInv, FinishesSay, Says
  <2>3. u.how = "ask"
    BY <2>1, <2>2 DEF TruthInv, EngineInv, AtUnique, Answer
  <2>4. s.seq \in Nat /\ s.busy \in BOOLEAN
    BY <2>1 DEF TasksOK, TaskType
  <2>5. /\ u.key \in 1..(IF s.busy THEN s.seq + 1 ELSE s.seq)
        /\ v.key \in 1..(IF s.busy THEN s.seq + 1 ELSE s.seq)
    BY <2>1 DEF TruthInv, KeysIn
  <2>6. CASE u.key <= s.seq
    <3>1. u.key = s.seq /\ s.ask
      BY <2>1, <2>3, <2>6 DEF Heard
    <3>2. ~s.busy
      BY <2>1, <3>1 DEF TaskShape
    <3>. QED
      BY <2>4, <2>5, <3>1, <3>2
  <2>7. CASE ~(u.key <= s.seq)
    BY <2>4, <2>5, <2>7
  <2>. QED
    BY <2>6, <2>7
<1>. QED
  BY <1>1, MoneyKept, PTL

-----------------------------------------------------------------------------
(* What a task reports as its cost                                         *)

(* The cost of a turn that ends with the session's usage at n, for a task  *)
(* that accounts for `spent`.                                              *)
Charge(n, spent) == IF n > spent THEN n - spent ELSE 0
Charged(t, at, spent, cost) ==
  \E u \in bought[t] : u.at = at /\ u.how # "running" /\ cost = Charge(u.usage, spent)

AttemptsCost(t) ==
  \A x \in Slot : \A pc \in {"finish", "return"} :
    On(t, x, pc) /\ attempt[t][x].in.seq = task[t].seq =>
      Charged(t, attempt[t][x].at, task[t].spent, attempt[t][x].cost)
FinishesCost(t) ==
  \A f \in finished[t] :
    IsTurn(t, f.at, task[t].seq + 1) => Charged(t, f.at, task[t].spent, f.cost)
SpentIs(t) ==
  /\ task[t].cost = task[t].spent
  /\ task[t].spent = 0 \/ \E u \in bought[t] : u.how # "running" /\ u.usage = task[t].spent

(* While the task has had one session, each key it consumed was sold, and  *)
(* what that session charged for those keys is accounted for.              *)
OneSession(t) ==
  opened[t] <= 1 =>
    /\ \A k \in 1..task[t].seq : \E u \in bought[t] : u.key = k
    /\ \A u \in bought[t] : u.key <= task[t].seq => u.how # "running" /\ u.usage <= task[t].spent

CostInv(t) == AttemptsCost(t) /\ FinishesCost(t) /\ SpentIs(t) /\ OneSession(t)

(* A step sells no turn where one was sold before. *)
LEMMA TurnsAreOld ==
  ASSUME TurnOK, NEW t \in TaskId, EngineInv(t), Effect(t), NEW at, NEW k,
         \E u \in bought[t] : u.at = at, IsTurn(t, at, k)'
  PROVE  IsTurn(t, at, k)
<1>1. CASE bought'[t] = bought[t]
  BY <1>1 DEF IsTurn
<1>2. ASSUME NEW x \in Slot, BuysUnheard(t, x) \/ \E a \in Attempt : Buys(t, x, a)
      PROVE  IsTurn(t, at, k)
  <2>1. attempt[t][x].in \in Input /\ Posts(t, attempt[t][x].in)
    BY <1>2, PostInput DEF TurnOK
  <2>2. bought'[t] = bought[t] \/ \E u : bought'[t] = bought[t] \cup {u} /\ \A v \in bought[t] : v.at # u.at
    BY <2>1, PostIs DEF Fresh
  <2>. QED
    BY <2>2 DEF IsTurn
<1>3. ASSUME NEW u, NEW v, Over(t, u, v)
      PROVE  IsTurn(t, at, k)
  BY <1>3 DEF Over, IsTurn
<1>. QED
  BY <1>1, <1>2, <1>3 DEF Effect, Turns, Drops, Begins, Ends, Still, Adopts, Unbought, Records, Reads,
                          Finishes

(* What has ended stays as it ended. *)
LEMMA ChargedStays ==
  ASSUME NEW t \in TaskId, Effect(t), NEW u \in bought[t], u.how # "running"
  PROVE  u \in bought'[t]
<1>1. CASE bought[t] \subseteq bought'[t]
  BY <1>1
<1>2. ASSUME NEW v, NEW w, Over(t, v, w)
      PROVE  u \in bought'[t]
  BY <1>2 DEF Over
<1>. QED
  BY <1>1, <1>2 DEF Effect, Turns, Drops, Begins, Ends, Still, BuysUnheard, Adopts, Unbought, Buys,
                    Records, Reads, Finishes, Posts

LEMMA CostMoves ==
  ASSUME TurnOK, NEW t \in TaskId, TruthInv(t), CostInv(t), Turns(t), SameView(task[t], task'[t])
  PROVE  AttemptsCost(t)'
<1>. DEFINE s == task[t]
<1>1. task'[t].seq = s.seq /\ task'[t].spent = s.spent /\ Effect(t)
  BY DEF SameView, Effect
<1>. SUFFICES ASSUME NEW x \in Slot, attempt'[t][x] # None, attempt'[t][x].pc \in {"finish", "return"},
                     attempt'[t][x].in.seq = s.seq
     PROVE  Charged(t, attempt'[t][x].at, s.spent, attempt'[t][x].cost)
  BY <1>1, ChargedStays DEF AttemptsCost, On, Charged, Charge
<1>. DEFINE b == attempt'[t][x]
<1>2. ASSUME NEW y \in Slot, attempt[t][y] # None, attempt[t][y] = b
      PROVE  Charged(t, b.at, s.spent, b.cost)
  BY <1>2 DEF CostInv, AttemptsCost, On
<1>3. ASSUME NEW a \in Attempt, MovesOn(t, x, a), b = a
      PROVE  Charged(t, b.at, s.spent, b.cost)
  <2>1. CASE Adopts(t, x, a)
    <3>1. PICK f \in finished[t] : f.at = a.at /\ f.cost = a.cost
      BY <1>3, <2>1 DEF Adopts
    <3>2. IsTurn(t, f.at, s.seq + 1)
      BY <1>3, <2>1, <3>1, AdoptsWhat DEF TruthInv, TurnOK, Key
    <3>. QED
      BY <1>3, <3>1, <3>2 DEF CostInv, FinishesCost
  <2>2. CASE Reads(t, x, a)
    <3>1. attempt[t][x] # None /\ a.in = attempt[t][x].in
      BY <2>2 DEF Reads, Moves, On
    <3>2. a.in.spent = s.spent
      BY <1>3, <3>1 DEF TruthInv, HandedTo, InputOf
    <3>3. PICK u \in bought[t] : /\ u.at = a.at /\ u.how = IF a.ask THEN "ask" ELSE "completed"
                                 /\ a.cost = SpendFromEvent(u, a.in)
      BY <2>2 DEF Reads
    <3>. QED
      BY <1>3, <3>2, <3>3 DEF SpendFromEvent, Charged, Charge
  <2>3. CASE Finishes(t, x, a)
    <3>1. /\ On(t, x, "finish") /\ a.in = attempt[t][x].in /\ a.at = attempt[t][x].at
          /\ a.cost = attempt[t][x].cost
      BY <2>3 DEF Finishes, Moves
    <3>. QED
      BY <1>3, <3>1 DEF CostInv, AttemptsCost
  <2>. QED
    BY <1>3, <2>1, <2>2, <2>3 DEF MovesOn, Unbought, Buys, Records
<1>4. b.pc # "scan"
  OBVIOUS
<1>5. \/ \E y \in Slot : attempt[t][y] # None /\ b = attempt[t][y]
      \/ \E a \in Attempt : MovesOn(t, x, a) /\ b = a
  BY <1>4, AttemptFrom DEF TurnOK
<1>. QED
  BY <1>2, <1>3, <1>5

LEMMA CostFinishes ==
  ASSUME TurnOK, TasksOK, NEW t \in TaskId, TruthInv(t), CostInv(t), Turns(t), SameView(task[t], task'[t])
  PROVE  FinishesCost(t)'
<1>. DEFINE s == task[t]
            k == s.seq + 1
<1>1. task'[t].seq = s.seq /\ task'[t].spent = s.spent /\ s.seq \in Nat
  BY DEF SameView, TasksOK, TaskType
<1>2. Effect(t)
  BY DEF Effect
<1>. SUFFICES ASSUME NEW f \in finished'[t], NEW j, j = k, IsTurn(t, f.at, j)'
     PROVE  Charged(t, f.at, s.spent, f.cost)
  BY <1>1, <1>2, ChargedStays DEF FinishesCost, IsTurn, Charged, Charge
<1>3. CASE f \in finished[t]
  <2>1. \E u \in bought[t] : u.at = f.at
    BY <1>3 DEF TruthInv, FinishesSay, Says
  <2>2. IsTurn(t, f.at, j)
    BY <1>2, <2>1, TurnsAreOld DEF TruthInv
  <2>. QED
    BY <1>3, <2>2 DEF CostInv, FinishesCost
<1>4. ASSUME NEW x \in Slot, NEW a \in Attempt, Finishes(t, x, a), f \notin finished[t]
      PROVE  Charged(t, f.at, s.spent, f.cost)
  <2>. DEFINE b == attempt[t][x]
  <2>1. /\ On(t, x, "finish") /\ f.at = b.at /\ f.cost = b.cost /\ b \in Attempt
    BY <1>4, OnTyped DEF Finishes, On, TurnOK
  <2>2. IsTurn(t, b.at, Key(b))
    BY <2>1 DEF TruthInv, AttemptsBought
  <2>3. IsTurn(t, b.at, j)
    BY <1>2, <2>1, <2>2, TurnsAreOld DEF TruthInv, IsTurn
  <2>4. Key(b) = j
    BY <2>2, <2>3 DEF IsTurn, TruthInv, EngineInv, AtUnique
  <2>5. b.in.seq \in Nat
    BY <2>1 DEF Attempt, Input
  <2>6. b.in.seq = s.seq
    BY <1>1, <2>4, <2>5 DEF Key
  <2>. QED
    BY <2>1, <2>6 DEF CostInv, AttemptsCost
<1>. QED
  BY <1>3, <1>4 DEF Turns, Drops, Still, BuysUnheard, Over, Adopts, Unbought, Buys, Records, Reads, Posts

LEMMA CostSpent ==
  ASSUME NEW t \in TaskId, CostInv(t), Turns(t), SameView(task[t], task'[t])
  PROVE  SpentIs(t)'
<1>1. task'[t].cost = task[t].cost /\ task'[t].spent = task[t].spent /\ Effect(t)
  BY DEF SameView, Effect
<1>. QED
  BY <1>1, ChargedStays DEF CostInv, SpentIs

(* In the only session a key is sold once, and the keys up to the task's   *)
(* have been: only the next one can be new.                                *)
LEMMA CostSession ==
  ASSUME TurnOK, TurnOK', TasksOK, NEW t \in TaskId, TruthInv(t), CostInv(t), Turns(t),
         SameView(task[t], task'[t])
  PROVE  OneSession(t)'
<1>. DEFINE s == task[t]
            Sold(b) == \A k \in 1..s.seq : \E u \in b : u.key = k
            Settles(b) == \A u \in b : u.key <= s.seq => u.how # "running" /\ u.usage <= s.spent
<1>1. task'[t].seq = s.seq /\ task'[t].spent = s.spent /\ s.seq \in Nat
  BY DEF SameView, TasksOK, TaskType
<1>2. opened[t] \in Nat /\ opened'[t] \in Nat /\ OneSession(t)
  BY DEF TurnOK, TurnTypeOK, CostInv
<1>. SUFFICES ASSUME opened'[t] <= 1
     PROVE  Sold(bought'[t]) /\ Settles(bought'[t])
  BY <1>1 DEF OneSession
<1>3. opened[t] <= 1 => Sold(bought[t]) /\ Settles(bought[t])
  BY <1>2 DEF OneSession
<1>4. ASSUME NEW x \in Slot, BuysUnheard(t, x) \/ \E a \in Attempt : Buys(t, x, a)
      PROVE  Sold(bought'[t]) /\ Settles(bought'[t])
  <2>. DEFINE in == attempt[t][x].in
  <2>1. in \in Input /\ Posts(t, in) /\ in.seq \in Nat
    BY <1>4, PostInput DEF TurnOK, Input
  <2>. HIDE DEF in
  <2>2. /\ opened[t] <= opened'[t]
        /\ bought'[t] = bought[t] \/ \E u : Fresh(t, u) /\ u.key = in.seq + 1
    BY <2>1, PostIs DEF TruthInv
  <2>3. Sold(bought[t]) /\ Settles(bought[t])
    BY <1>2, <1>3, <2>2
  <2>4. ASSUME NEW u, Fresh(t, u), u.key = in.seq + 1
        PROVE  Sold(bought'[t]) /\ Settles(bought'[t])
    <3>1. bought'[t] = bought[t] \cup {u} /\ u.at.session = 1
      BY <1>2, <2>4 DEF Fresh
    <3>2. \A v \in bought[t] : v.at.session = 1
      BY <1>2, <2>2 DEF TruthInv, EngineInv, Numbered
    <3>3. \A v \in bought[t] : v.key # u.key
      BY <2>4, <3>1, <3>2 DEF Fresh
    <3>4. ~(u.key <= s.seq)
      BY <1>1, <2>1, <2>3, <2>4, <3>3
    <3>. QED
      BY <2>3, <3>1, <3>4
  <2>. QED
    BY <2>2, <2>3, <2>4
<1>5. ASSUME NEW u, NEW v, Over(t, u, v)
      PROVE  Sold(bought'[t]) /\ Settles(bought'[t])
  <2>1. /\ bought'[t] = (bought[t] \ {u}) \cup {v} /\ u \in bought[t] /\ v.key = u.key
        /\ u.how = "running" /\ opened'[t] = opened[t]
    BY <1>5 DEF Over
  <2>2. Sold(bought[t]) /\ Settles(bought[t])
    BY <1>3, <2>1
  <2>. QED
    BY <2>1, <2>2
<1>6. CASE bought'[t] = bought[t] /\ opened[t] <= opened'[t]
  BY <1>2, <1>3, <1>6
<1>7. Still(t) => bought'[t] = bought[t] /\ opened[t] <= opened'[t]
  BY <1>2 DEF Still
<1>8. Drops(t) => bought'[t] = bought[t] /\ opened[t] <= opened'[t]
  BY DEF Drops
<1>. HIDE DEF s, Sold, Settles
<1>9. ASSUME NEW x \in Slot, NEW a \in Attempt,
             \/ Adopts(t, x, a) \/ Unbought(t, x, a) \/ Records(t, x, a)
             \/ Reads(t, x, a) \/ Finishes(t, x, a)
      PROVE  bought'[t] = bought[t] /\ opened[t] <= opened'[t]
  BY <1>2, <1>7, <1>9 DEF Adopts, Unbought, Records, Reads, Finishes
<1>. QED
  BY <1>4, <1>5, <1>6, <1>8, <1>9 DEF Turns

LEMMA CostBegins ==
  ASSUME TurnOK, NEW t \in TaskId, CostInv(t), Begins(t)
  PROVE  CostInv(t)'
<1>1. /\ InputOf(task'[t]) = InputOf(task[t]) /\ task'[t].cost = task[t].cost
      /\ opened'[t] = opened[t] /\ bought'[t] = bought[t] /\ finished'[t] = finished[t]
      /\ attempt'[t]["live"].pc = "scan" /\ attempt'[t]["stale"] = attempt[t]["stale"]
  BY DEF Begins, Still, FirstAttempt
<1>2. task'[t].seq = task[t].seq /\ task'[t].spent = task[t].spent
  BY <1>1 DEF InputOf
<1>3. AttemptsCost(t)'
  BY <1>1, <1>2 DEF CostInv, AttemptsCost, On, Slot, Charged, Charge
<1>4. FinishesCost(t)'
  BY <1>1, <1>2 DEF CostInv, FinishesCost, IsTurn, Charged, Charge
<1>5. SpentIs(t)' /\ OneSession(t)'
  BY <1>1, <1>2 DEF CostInv, SpentIs, OneSession
<1>. QED
  BY <1>3, <1>4, <1>5 DEF CostInv

LEMMA CostEnds ==
  ASSUME TurnOK, TasksOK, NEW t \in TaskId, TruthInv(t), CostInv(t), Ends(t)
  PROVE  CostInv(t)'
<1>. DEFINE s == task[t]
            p == task'[t]
            a == attempt[t]["live"]
<1>1. /\ bought'[t] = bought[t] /\ opened'[t] = opened[t] /\ finished'[t] = finished[t]
      /\ attempt'[t]["live"] = None /\ attempt'[t]["stale"] = attempt[t]["stale"]
      /\ On(t, "live", "return") /\ s.busy
      /\ p.seq = s.seq + 1 /\ p.spent = s.spent + a.cost /\ p.cost = s.cost + a.cost
  BY DEF Ends, Still, TurnTaken
<1>2. s.seq \in Nat /\ s.spent \in Nat /\ s.cost \in Nat /\ opened[t] \in Nat /\ bought[t] \subseteq Turn
  BY DEF TasksOK, TaskType, TurnOK, TurnTypeOK
<1>3. \A u \in bought[t] : u.key \in 1..(s.seq + 1)
  BY <1>1 DEF TruthInv, KeysIn
<1>4. a # None /\ a.in.seq = s.seq /\ Key(a) = s.seq + 1
  BY <1>1 DEF TruthInv, HandedTo, On, Key, Slot
<1>5. PICK u \in bought[t] : u.at = a.at /\ u.key = s.seq + 1
  BY <1>1, <1>4 DEF TruthInv, AttemptsBought, IsTurn, Slot
<1>6. u.how # "running" /\ a.cost = Charge(u.usage, s.spent) /\ u.usage \in Nat
  <2>1. PICK w \in bought[t] : w.at = a.at /\ w.how # "running" /\ a.cost = Charge(w.usage, s.spent)
    BY <1>1, <1>4 DEF CostInv, AttemptsCost, Charged, Slot
  <2>2. w = u
    BY <1>5, <2>1 DEF TruthInv, EngineInv, AtUnique
  <2>. QED
    BY <1>2, <2>1, <2>2 DEF Turn
<1>7. p.spent = IF u.usage > s.spent THEN u.usage ELSE s.spent
  BY <1>1, <1>2, <1>6 DEF Charge
<1>8. AttemptsCost(t)'
  <2>1. attempt[t]["stale"] # None => attempt[t]["stale"].in.seq \in Nat /\ attempt[t]["stale"].in.seq <= s.seq
    BY OnTyped DEF TruthInv, HandedTo, Slot, TurnOK, Attempt, Input
  <2>. QED
    BY <1>1, <1>2, <2>1 DEF AttemptsCost, On, Slot
<1>9. FinishesCost(t)'
  BY <1>1, <1>2, <1>3 DEF FinishesCost, IsTurn
<1>10. SpentIs(t)'
  <2>1. p.cost = p.spent
    BY <1>1 DEF CostInv, SpentIs
  <2>2. p.spent = 0 \/ \E w \in bought[t] : w.how # "running" /\ w.usage = p.spent
    BY <1>6, <1>7 DEF CostInv, SpentIs
  <2>. QED
    BY <1>1, <2>1, <2>2 DEF SpentIs
<1>11. OneSession(t)'
  <2>. SUFFICES ASSUME opened[t] <= 1
       PROVE  /\ \A k \in 1..p.seq : \E v \in bought[t] : v.key = k
              /\ \A v \in bought[t] : v.key <= p.seq => v.how # "running" /\ v.usage <= p.spent
    BY <1>1 DEF OneSession
  <2>1. /\ \A k \in 1..s.seq : \E v \in bought[t] : v.key = k
        /\ \A v \in bought[t] : v.key <= s.seq => v.how # "running" /\ v.usage <= s.spent
    BY DEF CostInv, OneSession
  <2>2. \A k \in 1..p.seq : k \in 1..s.seq \/ k = s.seq + 1
    BY <1>1, <1>2
  <2>3. ASSUME NEW v \in bought[t]
        PROVE  v.how # "running" /\ v.usage <= p.spent
    <3>1. v.usage \in Nat /\ v.key \in 1..(s.seq + 1)
      BY <1>2, <1>3 DEF Turn
    <3>2. CASE v.key <= s.seq
      BY <1>2, <1>6, <1>7, <2>1, <3>1, <3>2
    <3>3. CASE v.key = s.seq + 1
      <4>1. v.at.session = 1 /\ u.at.session = 1
        BY <1>2 DEF TruthInv, EngineInv, Numbered
      <4>2. v = u
        BY <1>5, <3>3, <4>1 DEF TruthInv, EngineInv, KeyOnce
      <4>. QED
        BY <1>2, <1>6, <1>7, <4>2
    <3>. QED
      BY <1>2, <3>1, <3>2, <3>3
  <2>. QED
    BY <1>5, <2>1, <2>2, <2>3
<1>. QED
  BY <1>8, <1>9, <1>10, <1>11 DEF CostInv

LEMMA CostStep ==
  ASSUME MoneyInv, [Next]_vars, NEW t \in TaskId, CostInv(t)
  PROVE  CostInv(t)'
<1>1. TurnOK /\ TasksOK /\ TruthInv(t) /\ Effect(t) /\ TypeInv
  BY EachTask DEF MoneyInv, ShapeInv, StartInv, TypeInv
<1>2. TurnOK'
  BY <1>1, NextTyped DEF TypeInv
<1>3. CASE Turns(t) /\ SameView(task[t], task'[t])
  BY <1>1, <1>2, <1>3, CostMoves, CostFinishes, CostSpent, CostSession DEF CostInv
<1>. QED
  BY <1>1, <1>3, CostBegins, CostEnds DEF Effect

(* What a task reports as its cost is what the engine had charged at the   *)
(* end of one of its turns, and all it charged while the first session     *)
(* lived on.                                                               *)
THEOREM CostsWhatItBought == Spec => []CostIsReal
<1>. DEFINE Inv == \A t \in TaskId : CostInv(t)
<1>1. Init => Inv
  BY DEF Init, CostInv, AttemptsCost, FinishesCost, SpentIs, OneSession, On, Slot, Off
<1>2. MoneyInv /\ Inv /\ [Next]_vars => Inv'
  BY CostStep
<1>3. MoneyInv /\ Inv => CostIsReal
  <2>. SUFFICES ASSUME MoneyInv, Inv, NEW t \in TaskId
       PROVE  /\ task[t].cost = 0 \/ \E u \in bought[t] : u.usage = task[t].cost
              /\ opened[t] <= 1 /\ ~task[t].busy => \A u \in bought[t] : u.usage <= task[t].cost
    BY DEF CostIsReal
  <2>1. SpentIs(t) /\ OneSession(t)
    BY DEF CostInv
  <2>2. task[t].seq \in Nat /\ (~task[t].busy => \A u \in bought[t] : u.key \in 1..task[t].seq)
    BY DEF MoneyInv, TruthInv, KeysIn, ShapeInv, StartInv, TypeInv, TasksOK, TaskType
  <2>. QED
    BY <2>1, <2>2 DEF SpentIs, OneSession
<1>. QED
  BY <1>1, <1>2, <1>3, MoneyKept, PTL DEF Spec
=============================================================================
