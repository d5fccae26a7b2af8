----------------------------- MODULE TargetCall -----------------------------
(***************************************************************************)
(* What sink.Sink promises the coordinator about calls on one record of the *)
(* target catalog (internal/sink/sink.go), and all that Harvest assumes:    *)
(* an acknowledged call was executed while it lasted, a failed one may have *)
(* been, and nothing else changes the record.                               *)
(*                                                                         *)
(* With Late, a request that was given up may still arrive at any time.     *)
(* Harvest is about a target where it does not.                             *)
(***************************************************************************)
CONSTANTS
  Caller,    \* goroutines that call the target
  Record,    \* records they put
  None,      \* no record
  Never,     \* not executed yet
  Late       \* a request may outlive the call that gave it up

VARIABLES
  record,    \* the record in the catalog
  op,        \* what each caller's newest call asks for
  outcome,   \* "pending" while it lasts, then what it returned
  seen,      \* the record as its newest execution left or found it
  late       \* requests given up that may still arrive

promiseVars == <<record, op, outcome, seen, late>>

Op == [method : {"get", "delete"}, body : {None}] \cup
      [method : {"put"}, body : Record]

NoOp == [method |-> "get", body |-> None]

\* What an execution of the request makes of the record.
Effect(o, rec) ==
  CASE o.method = "get"    -> rec
    [] o.method = "put"    -> o.body
    [] o.method = "delete" -> None

Quiet ==
  /\ record \in Record \cup {None}
  /\ op = [c \in Caller |-> NoOp]
  /\ outcome = [c \in Caller |-> "none"]
  /\ seen = [c \in Caller |-> Never]
  /\ late = {}

Call(c, o) ==
  /\ outcome[c] # "pending"
  /\ op' = [op EXCEPT ![c] = o]
  /\ outcome' = [outcome EXCEPT ![c] = "pending"]
  /\ seen' = [seen EXCEPT ![c] = Never]
  /\ UNCHANGED <<record, late>>

\* The target executes the call, perhaps not for the first time.
Execute(c) ==
  /\ outcome[c] = "pending"
  /\ record' = Effect(op[c], record)
  /\ seen' = [seen EXCEPT ![c] = record']
  /\ UNCHANGED <<op, outcome, late>>

\* The call returns, perhaps leaving a request behind.
Return(c, result) ==
  /\ outcome[c] = "pending"
  /\ result = "ok" => seen[c] # Never
  /\ outcome' = [outcome EXCEPT ![c] = result]
  /\ \/ UNCHANGED late
     \/ Late /\ late' = late \cup {op[c]}
  /\ UNCHANGED <<record, op, seen>>

\* It leaves one behind and goes on.
Abandon(c) ==
  /\ outcome[c] = "pending"
  /\ Late
  /\ late' = late \cup {op[c]}
  /\ UNCHANGED <<record, op, outcome, seen>>

\* A request nobody waits for arrives, or never will.
Arrive(o) ==
  /\ o \in late
  /\ record' \in {record, Effect(o, record)}
  /\ late' \in {late, late \ {o}}
  /\ UNCHANGED <<op, outcome, seen>>

Next ==
  \/ \E c \in Caller :
       \/ \E o \in Op : Call(c, o)
       \/ Execute(c)
       \/ \E result \in {"ok", "failed"} : Return(c, result)
       \/ Abandon(c)
  \/ \E o \in late : Arrive(o)

Spec == Quiet /\ [][Next]_promiseVars
=============================================================================
