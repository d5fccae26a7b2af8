------------------------------ MODULE EventLog ------------------------------
(***************************************************************************)
(* What the durable event log promises (internal/state/store.go, the table  *)
(* events), whoever handles the events and whatever they do: an event that  *)
(* is in the log stays there; it is complete only when a goroutine that     *)
(* found it not to be has served it successfully since; events are served   *)
(* one at a time. A goroutine may forget the event it has in hand, when its *)
(* process dies or a statement fails: then the log still has it.            *)
(***************************************************************************)
CONSTANTS
  Worker,   \* goroutines that handle events
  Event,    \* CloudEvent ids
  None      \* no event

VARIABLES
  log,      \* the status of each event, "none" before it is known
  hand      \* the event each goroutine has in hand, and how far it is

logVars == <<log, hand>>

Stage == {"none", "taken", "serving", "ok", "error"}
Empty == [ev |-> None, stage |-> "none"]
Serving(w) == hand[w].stage \in {"serving", "ok", "error"}
Reach(w, stage) == hand' = [hand EXCEPT ![w].stage = stage]

Start ==
  /\ log = [e \in Event |-> "none"]
  /\ hand = [w \in Worker |-> Empty]

\* An event that is new, or not complete, is taken; the status says queued at
\* once for a new one, later for another, even if it has been completed by then.
Take(w, e) ==
  /\ hand[w] = Empty
  /\ hand' = [hand EXCEPT ![w] = [ev |-> e, stage |-> "taken"]]
  /\ \/ log[e] = "none" /\ log' = [log EXCEPT ![e] = "queued"]
     \/ log[e] \in {"queued", "failed"} /\ UNCHANGED log

Queue(w) ==
  /\ hand[w].stage = "taken"
  /\ log' = [log EXCEPT ![hand[w].ev] = "queued"]
  /\ UNCHANGED hand

Serve(w) ==
  /\ hand[w].stage = "taken"
  /\ \A v \in Worker : ~Serving(v)
  /\ Reach(w, "serving")
  /\ UNCHANGED log

Served(w, result) ==
  /\ hand[w].stage = "serving"
  /\ Reach(w, result)
  /\ UNCHANGED log

Close(w) ==
  /\ \/ hand[w].stage = "ok" /\ log' = [log EXCEPT ![hand[w].ev] = "complete"]
     \/ hand[w].stage = "error" /\ log' = [log EXCEPT ![hand[w].ev] = "failed"]
  /\ hand' = [hand EXCEPT ![w] = Empty]

Forget(W) ==
  /\ hand' = [w \in Worker |-> IF w \in W THEN Empty ELSE hand[w]]
  /\ UNCHANGED log

Next ==
  \/ \E w \in Worker :
       \/ \E e \in Event : Take(w, e)
       \/ Queue(w) \/ Serve(w) \/ Close(w)
       \/ \E result \in {"ok", "error"} : Served(w, result)
  \/ \E W \in SUBSET Worker : Forget(W)

Spec == Start /\ [][Next]_logVars
=============================================================================
