------------------------------ MODULE PaidTurn ------------------------------
(***************************************************************************)
(* The paid turn of a durable task: drive_turn, run by a worker as a       *)
(* Temporal activity, against the run's ledger (an append-only file that   *)
(* outlives every process) and the sidecar engine (whose sessions live in  *)
(* its process).  A turn is bought by a POST that carries the key          *)
(* run:task:seq; a retry of the activity is handed the same input, so what *)
(* it knows of the earlier attempts is what the ledger says.               *)
(*                                                                         *)
(* A server that misses heartbeats starts the next attempt while the       *)
(* previous one may still run: every task has a live attempt and, after a  *)
(* stall, a stale one, whose result nobody takes.  Each ledger append,     *)
(* each request to the engine and the reading of the terminal event is a   *)
(* step; a turn has one event, its terminal one, so an event's index is    *)
(* its turn's number in the session.  That event carries the usage of the  *)
(* whole session so far; what one turn adds to it is known only once it    *)
(* is over, and is bounded by nothing the task decides.  Heartbeats,       *)
(* prompts and the checkout are left out.  This module has the actions;    *)
(* TaskWalk and DurableRun schedule them.                                  *)
(***************************************************************************)
EXTENDS Naturals, Sequences, FiniteSets

CONSTANTS
  TaskId,         \* the tasks of the run and its CI-fix tasks
  ActivityTries,  \* attempts Temporal gives an activity (ACTIVITY_RETRIES)
  None

ASSUME TurnConstants == ActivityTries \in Nat \ {0} /\ None \notin TaskId

VARIABLES
  held,      \* [TaskId -> the sessions the engine's process still holds]
  opened,    \* [TaskId -> how many sessions were ever created]
  bought,    \* [TaskId -> turns the engine has accepted]
  started,   \* [TaskId -> the ledger's turn.started records, in order]
  logged,    \* [TaskId -> turns whose terminal event the ledger has]
  finished,  \* [TaskId -> the ledger's turn.finished records]
  attempt,   \* [TaskId -> [Slot -> attempt or None]]
  tries,     \* [TaskId -> attempts of the current activity so far]
  exposed,   \* [TaskId -> keys an attempt left, or may leave, unrecorded]
  left       \* how many faults of each kind may still happen

engine == <<held, opened, bought>>
ledger == <<started, logged, finished>>
turnVars == <<engine, ledger, attempt, tries, exposed, left>>

Slot == {"live", "stale"}
At == [session : Nat, n : Nat]
TurnEnd == {"completed", "ask", "failed", "aborted"}
(* usage: the session's cumulative usage as the terminal event reports it, *)
(* 0 while the turn runs.                                                  *)
Turn == [at : At, key : Nat, how : TurnEnd \cup {"running"}, usage : Nat]
StartRecord == [key : Nat, at : At]
FinishRecord == [at : At, cost : Nat, ask : BOOLEAN]

(* What the activity is handed: the part of the pre-turn TaskState that    *)
(* drive_turn reads.  Session 0 is none.                                   *)
Input == [seq : Nat, session : Nat, last : Nat, spent : Nat]
Pc == {"scan", "post", "record", "stream", "finish", "return"}
Attempt == [pc : Pc, in : Input, at : At, resumed : BOOLEAN, cost : Nat, ask : BOOLEAN]
Fault == {"crash", "restart", "stall", "unanswered", "refused", "step", "pause", "stop"}

ASSUME NoneIsNoAttempt == None \notin Attempt

NoTurn == [session |-> 0, n |-> 0]
FirstAttempt(in) ==
  [pc |-> "scan", in |-> in, at |-> NoTurn, resumed |-> FALSE, cost |-> 0, ask |-> FALSE]
Key(a) == a.in.seq + 1
On(t, x, pc) == attempt[t][x] # None /\ attempt[t][x].pc = pc

(* The first turn.started of a key is the one every later attempt adopts.  *)
Starts(t, k) == {i \in DOMAIN started[t] : started[t][i].key = k}
(* Mutant of Recorded: only a turn known to be finished counts as bought.  *)
RecordedFinished(t, k) ==
  \E i \in Starts(t, k) : \E f \in finished[t] : f.at = started[t][i].at

Recorded(t, k) == Starts(t, k) # {}
FirstStart(t, k) ==
  started[t][CHOOSE i \in Starts(t, k) : \A h \in Starts(t, k) : i <= h].at
Completions(t, at) == {f \in finished[t] : f.at = at}

-----------------------------------------------------------------------------
(* Ends of an attempt                                                      *)

(* A failed live attempt is retried with the same input until the tries    *)
(* are used up; then the activity has failed.  Nobody retries a stale one. *)
After(t, slots) ==
  [slots EXCEPT !["live"] = IF tries[t] < ActivityTries
                            THEN FirstAttempt(slots["live"].in) ELSE None]

Fail(t, x) ==
  IF x = "stale"
  THEN attempt' = [attempt EXCEPT ![t]["stale"] = None] /\ UNCHANGED tries
  ELSE /\ attempt' = [attempt EXCEPT ![t] = After(t, @)]
       /\ tries' = [tries EXCEPT ![t] = IF @ < ActivityTries THEN @ + 1 ELSE @]

MoveTo(t, x, a) == attempt' = [attempt EXCEPT ![t][x] = a] /\ UNCHANGED tries

Spend(f) == left[f] > 0 /\ left' = [left EXCEPT ![f] = @ - 1]

-----------------------------------------------------------------------------
(* Look before you POST                                                    *)

(* Mutant of ScanFinished: the rebuilt outcome forgets the question.       *)
ScanFinishedNoAsk(t, x) ==
  /\ On(t, x, "scan")
  /\ LET a == attempt[t][x]
         at == FirstStart(t, Key(a))
     IN /\ Recorded(t, Key(a))
        /\ \E f \in Completions(t, at) :
             MoveTo(t, x, [a EXCEPT !.pc = "return", !.at = at, !.cost = f.cost,
                                    !.resumed = TRUE])
  /\ UNCHANGED <<engine, ledger, exposed, left>>

(* The turn is complete in the ledger: its record is the outcome.          *)
ScanFinished(t, x) ==
  /\ On(t, x, "scan")
  /\ LET a == attempt[t][x]
         at == FirstStart(t, Key(a))
     IN /\ Recorded(t, Key(a))
        /\ \E f \in Completions(t, at) :
             MoveTo(t, x, [a EXCEPT !.pc = "return", !.at = at, !.cost = f.cost,
                                    !.ask = f.ask, !.resumed = TRUE])
  /\ UNCHANGED <<engine, ledger, exposed, left>>

(* The turn was bought and is not complete: attach to it again, or fail if *)
(* its session is gone.                                                    *)
ScanInFlight(t, x) ==
  /\ On(t, x, "scan")
  /\ LET a == attempt[t][x]
         at == FirstStart(t, Key(a))
     IN /\ Recorded(t, Key(a)) /\ Completions(t, at) = {}
        /\ IF at.session \in held[t]
           THEN MoveTo(t, x, [a EXCEPT !.pc = "stream", !.at = at, !.resumed = TRUE])
           ELSE Fail(t, x)
  /\ UNCHANGED <<engine, ledger, exposed, left>>

ScanUnbought(t, x) ==
  /\ On(t, x, "scan") /\ ~Recorded(t, Key(attempt[t][x]))
  /\ MoveTo(t, x, [attempt[t][x] EXCEPT !.pc = "post"])
  /\ UNCHANGED <<engine, ledger, exposed, left>>

-----------------------------------------------------------------------------
(* Buy it                                                                  *)

(* The session the state remembers if the engine still has it, else a new  *)
(* one.                                                                    *)
SessionFor(t, in) == IF in.session \in held[t] THEN in.session ELSE opened[t] + 1
TurnsOf(t, s) == {u \in bought[t] : u.at.session = s}

(* The engine replays a key it has seen in this session and otherwise      *)
(* starts the session's next turn.                                         *)
Place(t, in) ==
  LET s == SessionFor(t, in)
      same == {u \in TurnsOf(t, s) : u.key = in.seq + 1}
  IN IF same # {} THEN (CHOOSE u \in same : TRUE).at
     ELSE [session |-> s, n |-> Cardinality(TurnsOf(t, s)) + 1]

(* POST /sessions *)
OpenSession(t, s) ==
  /\ opened' = [opened EXCEPT ![t] = IF s > @ THEN s ELSE @]
  /\ held' = [held EXCEPT ![t] = @ \cup {s}]

(* POST /sessions, then POST /turns with the key. *)
Post(t, in) ==
  LET at == Place(t, in)
  IN /\ OpenSession(t, at.session)
     /\ bought' = IF \E u \in bought[t] : u.at = at THEN bought
                  ELSE [bought EXCEPT ![t] =
                          @ \cup {[at |-> at, key |-> in.seq + 1, how |-> "running", usage |-> 0]}]

Buy(t, x) ==
  /\ On(t, x, "post")
  /\ LET a == attempt[t][x]
     IN Post(t, a.in) /\ MoveTo(t, x, [a EXCEPT !.pc = "record", !.at = Place(t, a.in)])
  /\ UNCHANGED <<ledger, exposed, left>>

(* The engine starts the turn and its answer is lost: the attempt fails    *)
(* and the ledger knows nothing.                                           *)
BuyUnanswered(t, x) ==
  /\ On(t, x, "post") /\ Spend("unanswered")
  /\ Post(t, attempt[t][x].in)
  /\ Fail(t, x)
  /\ exposed' = [exposed EXCEPT ![t] = @ \cup {Key(attempt[t][x])}]
  /\ UNCHANGED ledger

(* Either request is refused: the second one once the session is there.    *)
BuyRefused(t, x) ==
  /\ On(t, x, "post") /\ Spend("refused")
  /\ \/ UNCHANGED <<held, opened>>
     \/ OpenSession(t, SessionFor(t, attempt[t][x].in))
  /\ Fail(t, x)
  /\ UNCHANGED <<bought, ledger, exposed>>

RecordStart(t, x) ==
  /\ On(t, x, "record")
  /\ LET a == attempt[t][x]
     IN /\ started' = [started EXCEPT ![t] = Append(@, [key |-> Key(a), at |-> a.at])]
        /\ MoveTo(t, x, [a EXCEPT !.pc = "stream"])
  /\ UNCHANGED <<engine, logged, finished, exposed, left>>

-----------------------------------------------------------------------------
(* Stream it to its end                                                    *)

Running(t, at) == \E u \in bought[t] : u.at = at /\ u.how = "running"

(* The stream of a turn just bought starts after the last event of the     *)
(* task's state, one that is attached to again after the ledger's last     *)
(* event of its session.                                                   *)
Delivered(t, a) == IF a.resumed THEN a.at \notin logged[t] ELSE a.at.n > a.in.last

(* Mutant of SpendFromEvent: the session's usage is taken for the turn's.  *)
SpendCumulative(u, in) == u.usage

(* This turn's cost: the session's usage less what the state accounts for. *)
(* An event that carries no price adds nothing, here as in the code.       *)
SpendFromEvent(u, in) == IF u.usage > in.spent THEN u.usage - in.spent ELSE 0

(* The terminal event is appended to the ledger; only a completed turn     *)
(* lets the attempt go on.                                                 *)
ReadEnd(t, x) ==
  /\ On(t, x, "stream")
  /\ LET a == attempt[t][x]
     IN /\ a.at.session \in held[t] /\ Delivered(t, a)
        /\ logged' = [logged EXCEPT ![t] = @ \cup {a.at}]
        /\ \E u \in bought[t] :
             /\ u.at = a.at /\ u.how # "running"
             /\ IF u.how \in {"completed", "ask"}
                THEN MoveTo(t, x, [a EXCEPT !.pc = "finish", !.cost = SpendFromEvent(u, a.in),
                                            !.ask = (u.how = "ask")])
                ELSE Fail(t, x)
  /\ UNCHANGED <<engine, started, finished, exposed, left>>

(* The session is gone, or the turn is over and what it emitted is not     *)
(* after the point the stream was asked for: sidecar_stream_lost.          *)
StreamLost(t, x) ==
  /\ On(t, x, "stream")
  /\ LET a == attempt[t][x]
     IN a.at.session \notin held[t] \/ (~Running(t, a.at) /\ ~Delivered(t, a))
  /\ Fail(t, x)
  /\ UNCHANGED <<engine, ledger, exposed, left>>

RecordFinish(t, x) ==
  /\ On(t, x, "finish")
  /\ LET a == attempt[t][x]
     IN /\ finished' = [finished EXCEPT ![t] =
                          @ \cup {[at |-> a.at, cost |-> a.cost, ask |-> a.ask]}]
        /\ MoveTo(t, x, [a EXCEPT !.pc = "return"])
  /\ UNCHANGED <<engine, started, logged, exposed, left>>

(* A stale attempt's result is not taken. *)
StaleReturns(t) ==
  /\ On(t, "stale", "return")
  /\ Fail(t, "stale")
  /\ UNCHANGED <<engine, ledger, exposed, left>>

(* A turn ends and has added `cost` to what its session has used.          *)
EndsAs(t, u, how, cost) ==
  \E used \in {0} \cup {v.usage : v \in TurnsOf(t, u.at.session)} :
    /\ \A v \in TurnsOf(t, u.at.session) : v.usage <= used
    /\ bought' = [bought EXCEPT ![t] =
                    (@ \ {u}) \cup {[u EXCEPT !.how = how, !.usage = used + cost]}]

(* An attempt whose activity was timed out, or whose workflow ended, finds *)
(* out while it streams, and tells the engine to abort the session's turn. *)
Aborts(t, x, cost) ==
  /\ On(t, x, "stream")
  /\ LET a == attempt[t][x]
     IN /\ a.at.session \in held[t]
        /\ \E u \in bought[t] :
             u.at = a.at /\ u.how = "running" /\ EndsAs(t, u, "aborted", cost)
  /\ attempt' = [attempt EXCEPT ![t][x] = None]
  /\ UNCHANGED <<held, opened, ledger, tries, exposed, left>>

-----------------------------------------------------------------------------
(* The engine, and what goes wrong                                         *)

TurnEnds(t, u, how, cost) ==
  /\ u.how = "running" /\ u.at.session \in held[t]
  /\ EndsAs(t, u, how, cost)
  /\ UNCHANGED <<held, opened, ledger, attempt, tries, exposed, left>>

EngineRestart ==
  /\ Spend("restart")
  /\ held' = [t \in TaskId |-> {}]
  /\ UNCHANGED <<opened, bought, ledger, attempt, tries, exposed>>

(* The worker's process dies with every attempt in it. *)
WorkerCrash ==
  /\ Spend("crash") /\ \E t \in TaskId : attempt[t]["live"] # None
  /\ attempt' = [t \in TaskId |->
       [x \in Slot |-> IF x = "live" /\ attempt[t][x] # None
                       THEN After(t, attempt[t])[x] ELSE None]]
  /\ tries' = [t \in TaskId |->
       IF attempt[t]["live"] # None /\ tries[t] < ActivityTries THEN tries[t] + 1 ELSE tries[t]]
  /\ exposed' = [t \in TaskId |->
       exposed[t] \cup {Key(attempt[t][x]) : x \in {y \in Slot : On(t, y, "record")}}]
  /\ UNCHANGED <<engine, ledger>>

(* The server hears nothing of an attempt for the heartbeat timeout and    *)
(* starts the next, or gives the activity up; the attempt goes on.         *)
Stall(t) ==
  /\ Spend("stall") /\ attempt[t]["live"] # None /\ attempt[t]["stale"] = None
  /\ LET a == attempt[t]["live"]
     IN /\ attempt' = [attempt EXCEPT ![t] = [After(t, @) EXCEPT !["stale"] = a]]
        /\ tries' = [tries EXCEPT ![t] = IF @ < ActivityTries THEN @ + 1 ELSE @]
        /\ exposed' = [exposed EXCEPT ![t] =
                         IF a.pc \in {"scan", "post", "record"} THEN @ \cup {Key(a)} ELSE @]
  /\ UNCHANGED <<engine, ledger>>

AttemptStep(t, x) ==
  \/ ScanFinished(t, x) \/ ScanInFlight(t, x) \/ ScanUnbought(t, x)
  \/ Buy(t, x) \/ RecordStart(t, x)
  \/ ReadEnd(t, x) \/ StreamLost(t, x) \/ RecordFinish(t, x)

AttemptFault(t, x) == BuyUnanswered(t, x) \/ BuyRefused(t, x)

-----------------------------------------------------------------------------
(* What the workflow asks of the turn                                      *)

ScheduleTurn(t, in) ==
  /\ attempt' = [attempt EXCEPT ![t]["live"] = FirstAttempt(in)]
  /\ tries' = [tries EXCEPT ![t] = 1]
  /\ UNCHANGED <<engine, ledger, exposed, left>>

(* An outcome whose event index is behind the state's is refused           *)
(* (event_index_regressed).                                                *)
Regressed(t) ==
  /\ On(t, "live", "return") /\ attempt[t]["live"].at.n < attempt[t]["live"].in.last
  /\ Fail(t, "live")
  /\ UNCHANGED <<engine, ledger, exposed, left>>

TurnReturns(t) ==
  /\ On(t, "live", "return") /\ attempt[t]["live"].at.n >= attempt[t]["live"].in.last
  /\ attempt' = [attempt EXCEPT ![t]["live"] = None]
  /\ UNCHANGED <<engine, ledger, tries, exposed, left>>
=============================================================================
