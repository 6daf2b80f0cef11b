------------------------------ MODULE JobQueue ------------------------------
(***************************************************************************)
(* What a queue backend promises about the jobs it has accepted, without   *)
(* saying how: a job is accepted once, waits, runs, and ends; only a       *)
(* waiting job starts; at most one job is live for a pull request head; an *)
(* ended job comes back only through a revival that finds its head free.   *)
(*                                                                         *)
(* PgQueue implements this specification.                                  *)
(***************************************************************************)
EXTENDS TLAPS

CONSTANTS Row,          \* queue rows, one per delivery id
          HeadOf,       \* [Row -> what the row is about, or NoHead]
          NoHead        \* a row the one-live-head rule does not speak of

VARIABLE state          \* [Row -> State]

State == {"absent", "waiting", "running", "ended"}
LiveState == {"waiting", "running"}

SameHead(r, x) == HeadOf[r] # NoHead /\ HeadOf[r] = HeadOf[x]

(* No other live row is about r's head. *)
HeadFree(r) == \A x \in Row \ {r} : SameHead(r, x) => state[x] \notin LiveState

Init == state = [r \in Row |-> "absent"]

(* A new row is accepted; waiting rows (the older heads of its pull        *)
(* request) may be ended in the same step.                                 *)
Accept(r) ==
  /\ state[r] = "absent" /\ HeadFree(r)
  /\ state' \in [Row -> State]
  /\ state'[r] = "waiting"
  /\ \A x \in Row \ {r} : \/ state'[x] = state[x]
                          \/ state[x] = "waiting" /\ state'[x] = "ended"

Start(r) ==
  /\ state[r] = "waiting"
  /\ state' = [state EXCEPT ![r] = "running"]

(* Running rows go back to waiting or end: one of them when a worker or    *)
(* the reaper speaks, several when a machine recovers.                     *)
Stop ==
  /\ state' \in [Row -> State]
  /\ \A x \in Row : \/ state'[x] = state[x]
                    \/ state[x] = "running" /\ state'[x] \in {"waiting", "ended"}

Retire(r) ==
  /\ state[r] = "waiting"
  /\ state' = [state EXCEPT ![r] = "ended"]

Revive(r) ==
  /\ state[r] = "ended" /\ HeadFree(r)
  /\ state' = [state EXCEPT ![r] = "waiting"]

Next ==
  \/ \E r \in Row : Accept(r) \/ Start(r) \/ Retire(r) \/ Revive(r)
  \/ Stop

Spec == Init /\ [][Next]_state

(* The rule the rest of the system leans on: two live rows are never about *)
(* the same head.                                                          *)
OneLiveHead ==
  \A r, x \in Row : r # x /\ SameHead(r, x)
                    => ~(state[r] \in LiveState /\ state[x] \in LiveState)

-----------------------------------------------------------------------------
LEMMA InitRule == Init => state \in [Row -> State] /\ OneLiveHead
  BY DEF Init, State, LiveState, OneLiveHead

(* A step makes at most one row live, and only when its head is free. *)
LEMMA NextRule ==
  ASSUME state \in [Row -> State], OneLiveHead, Next
  PROVE  state' \in [Row -> State] /\ OneLiveHead'
<1>1. ASSUME NEW r \in Row, Accept(r) PROVE state' \in [Row -> State] /\ OneLiveHead'
  BY <1>1 DEF Accept, HeadFree, SameHead, State, LiveState, OneLiveHead
<1>2. ASSUME NEW r \in Row, Start(r) PROVE state' \in [Row -> State] /\ OneLiveHead'
  BY <1>2 DEF Start, SameHead, State, LiveState, OneLiveHead
<1>3. ASSUME NEW r \in Row, Retire(r) PROVE state' \in [Row -> State] /\ OneLiveHead'
  BY <1>3 DEF Retire, SameHead, State, LiveState, OneLiveHead
<1>4. ASSUME NEW r \in Row, Revive(r) PROVE state' \in [Row -> State] /\ OneLiveHead'
  BY <1>4 DEF Revive, HeadFree, SameHead, State, LiveState, OneLiveHead
<1>5. ASSUME Stop PROVE state' \in [Row -> State] /\ OneLiveHead'
  BY <1>5 DEF Stop, SameHead, State, LiveState, OneLiveHead
<1>. QED
  BY <1>1, <1>2, <1>3, <1>4, <1>5 DEF Next

(* The promise keeps its rule: no behaviour of this specification has two  *)
(* live rows about one head.                                               *)
THEOREM OneLive == Spec => []OneLiveHead
<1>. DEFINE Inv == state \in [Row -> State] /\ OneLiveHead
<1>1. Init => Inv
  BY InitRule
<1>2. Inv /\ [Next]_state => Inv'
  BY NextRule DEF OneLiveHead, SameHead, LiveState
<1>. QED
  BY <1>1, <1>2, PTL DEF Spec
=============================================================================
