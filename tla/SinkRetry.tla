----------------------------- MODULE SinkRetry ------------------------------
(***************************************************************************)
(* The target client (internal/sink/sink.go): Get, Put and Delete on one    *)
(* record over doJSON, which asks up to four times, between a client and a  *)
(* target that answer, fall silent and lose each other's messages.          *)
(*                                                                         *)
(*   idle -> send -> await -> idle                                          *)
(*             ^        |                                                   *)
(*             +- wait <+                                                   *)
(***************************************************************************)
EXTENDS Naturals

CONSTANTS
  Caller,    \* goroutines that call the target
  Record,    \* records they put
  None,      \* no record
  Never,     \* not executed yet
  Late       \* a request may outlive the call that gave it up

ASSUME NoRecordAssumption == None \notin Record
ASSUME NeverAssumption == Never \notin Record \cup {None}
ASSUME LateAssumption == Late \in BOOLEAN

VARIABLES
  record,    \* the record in the catalog
  op,        \* what each caller's newest call asks for
  outcome,   \* "pending" while it lasts, then what it returned
  seen,      \* history: the record as its newest execution left or found it
  late,      \* requests given up that are still on their way
  pc,        \* where in doJSON the caller is
  attempt,   \* doJSON's loop counter
  flight     \* the attempt's request: on its way, or the answer to it

Promise == INSTANCE TargetCall

server == <<record, late>>
client == <<op, outcome, pc, attempt>>
vars == <<server, client, seen, flight>>

-----------------------------------------------------------------------------
LastAttempt == 3

\* The statuses doJSON tells apart: 2xx, 404, 429 and 5xx, the others.
Answer == {"done", "missing", "busy", "refused"}

Pc == {"idle", "send", "await", "wait"}

Init ==
  /\ Promise!Quiet
  /\ pc = [c \in Caller |-> "idle"]
  /\ attempt = [c \in Caller |-> 0]
  /\ flight = [c \in Caller |-> "none"]

\* Get, Put or Delete calls doJSON.
Begin(c, o) ==
  /\ pc[c] = "idle"
  /\ op' = [op EXCEPT ![c] = o]
  /\ outcome' = [outcome EXCEPT ![c] = "pending"]
  /\ seen' = [seen EXCEPT ![c] = Never]
  /\ pc' = [pc EXCEPT ![c] = "send"]
  /\ attempt' = [attempt EXCEPT ![c] = 0]
  /\ UNCHANGED <<server, flight>>

Send(c) ==
  /\ pc[c] = "send"
  /\ pc' = [pc EXCEPT ![c] = "await"]
  /\ flight' = [flight EXCEPT ![c] = "sent"]
  /\ UNCHANGED <<server, op, outcome, attempt, seen>>

-----------------------------------------------------------------------------
(* The target.                                                             *)

\* It executes the request.  A gateway may answer 5xx all the same.
Serve(c) ==
  /\ flight[c] = "sent"
  /\ record' = Promise!Effect(op[c], record)
  /\ seen' = [seen EXCEPT ![c] = record']
  /\ \E answer \in {"done", "busy"} :
       flight' = [flight EXCEPT ![c] =
         IF answer = "done" /\ record = None /\ op[c].method # "put"
         THEN "missing" ELSE answer]
  /\ UNCHANGED <<client, late>>

\* It does not.  A PUT may be told that there is no such collection.
Decline(c) ==
  /\ flight[c] = "sent"
  /\ \E answer \in {"busy", "refused"} \cup
                   (IF op[c].method = "put" THEN {"missing"} ELSE {}) :
       flight' = [flight EXCEPT ![c] = answer]
  /\ UNCHANGED <<server, client, seen>>

\* A request nobody waits for any more is executed, again or for the last
\* time, or is lost.
ServeLate(o) ==
  /\ o \in late
  /\ \/ /\ record' = Promise!Effect(o, record)
        /\ late' \in {late, late \ {o}}
     \/ /\ late' = late \ {o}
        /\ UNCHANGED record
  /\ UNCHANGED <<client, seen, flight>>

-----------------------------------------------------------------------------
(* The client again.                                                       *)

Finish(c, result) ==
  /\ pc' = [pc EXCEPT ![c] = "idle"]
  /\ outcome' = [outcome EXCEPT ![c] = result]
  /\ flight' = [flight EXCEPT ![c] = "none"]
  /\ UNCHANGED <<op, attempt>>

\* Mutant of Retry: one attempt too many.
RetryOnceMore(c) ==
  /\ attempt[c] <= LastAttempt
  /\ pc' = [pc EXCEPT ![c] = "wait"]
  /\ attempt' = [attempt EXCEPT ![c] = @ + 1]
  /\ flight' = [flight EXCEPT ![c] = "none"]
  /\ UNCHANGED <<op, outcome>>

\* Mutant of Retry: the attempts are not counted.
RetryForEver(c) ==
  /\ pc' = [pc EXCEPT ![c] = "wait"]
  /\ flight' = [flight EXCEPT ![c] = "none"]
  /\ UNCHANGED <<op, outcome, attempt>>

\* wait, and around the loop.
Retry(c) ==
  /\ attempt[c] < LastAttempt
  /\ pc' = [pc EXCEPT ![c] = "wait"]
  /\ attempt' = [attempt EXCEPT ![c] = @ + 1]
  /\ flight' = [flight EXCEPT ![c] = "none"]
  /\ UNCHANGED <<op, outcome>>

\* Mutant of Succeeded: after the last attempt a 5xx falls out of the loop
\* without an error.
SucceededInTheEnd(c) ==
  \/ flight[c] = "done"
  \/ flight[c] = "missing" /\ op[c].method # "put"
  \/ flight[c] = "busy" /\ attempt[c] = LastAttempt

\* A 404 says what Get wants to know and what Delete wants to bring about.
Succeeded(c) ==
  \/ flight[c] = "done"
  \/ flight[c] = "missing" /\ op[c].method # "put"

Receive(c) ==
  /\ pc[c] = "await"
  /\ flight[c] \in Answer
  /\ \/ Succeeded(c) /\ Finish(c, "ok")
     \/ ~Succeeded(c) /\ flight[c] = "busy" /\ Retry(c)
     \/ /\ ~Succeeded(c)
        /\ flight[c] = "busy" => attempt[c] = LastAttempt
        /\ Finish(c, "failed")
  /\ UNCHANGED <<server, seen>>

\* The answer is cut off or is no JSON: no retry, whatever its status was.
Garbled(c) ==
  /\ pc[c] = "await"
  /\ flight[c] \in Answer
  /\ Finish(c, "failed")
  /\ UNCHANGED <<server, seen>>

\* A request that is given up while it is on its way.
LeaveBehind(c) ==
  \/ UNCHANGED late
  \/ Late /\ flight[c] = "sent" /\ late' = late \cup {op[c]}

\* The connection breaks, or the client's timeout is over.
Break(c) ==
  /\ pc[c] = "await"
  /\ \/ Retry(c)
     \/ attempt[c] = LastAttempt /\ Finish(c, "failed")
  /\ LeaveBehind(c)
  /\ UNCHANGED <<record, seen>>

\* wait's timer fires.
Wake(c) ==
  /\ pc[c] = "wait"
  /\ pc' = [pc EXCEPT ![c] = "send"]
  /\ UNCHANGED <<server, op, outcome, attempt, seen, flight>>

\* The caller's context is cancelled: the request, or wait, returns at once.
Cancel(c) ==
  /\ pc[c] # "idle"
  /\ Finish(c, "failed")
  /\ LeaveBehind(c)
  /\ UNCHANGED <<record, seen>>

ClientStep(c) == Send(c) \/ Receive(c) \/ Break(c) \/ Wake(c)

Next ==
  \/ \E c \in Caller :
       \/ \E o \in Promise!Op : Begin(c, o)
       \/ Serve(c) \/ Decline(c)
       \/ ClientStep(c)
       \/ Garbled(c) \/ Cancel(c)
  \/ \E o \in late : ServeLate(o)

Spec == Init /\ [][Next]_vars

\* The scheduler runs the caller, timers fire: http.Client.Timeout ends a
\* silent request, and wait's timer a wait.  Nothing is assumed of the target.
FairSpec == Spec /\ \A c \in Caller : WF_vars(ClientStep(c))

-----------------------------------------------------------------------------
\* The type of the state; the loop of doJSON always returns from within, its
\* "retry loop exhausted" is never reached.
TypeOK ==
  /\ record \in Record \cup {None}
  /\ op \in [Caller -> Promise!Op]
  /\ outcome \in [Caller -> {"none", "pending", "ok", "failed"}]
  /\ seen \in [Caller -> Record \cup {None, Never}]
  /\ late \subseteq Promise!Op
  /\ pc \in [Caller -> Pc]
  /\ attempt \in [Caller -> 0 .. LastAttempt]
  /\ flight \in [Caller -> Answer \cup {"none", "sent"}]

\* What an answer stands for, and when there is one: the induction behind
\* KeepsPromise.
Accounted ==
  \A c \in Caller :
    /\ outcome[c] = "pending" <=> pc[c] # "idle"
    /\ flight[c] # "none" => pc[c] = "await"
    /\ Succeeded(c) => seen[c] # Never

\* Over all attempts, lost requests, lost and ambiguous answers and retries of
\* what was done already, the calls keep the promise the coordinator relies
\* on: acknowledged means executed during the call, and only calls write.
KeepsPromise == Promise!Spec

\* What the only caller of a target that forgets abandoned requests knows
\* between its newest execution and its next call.
Alone ==
  \A c \in Caller :
    Caller = {c} /\ ~Late =>
      /\ late = {}
      /\ seen[c] # Never =>
           record = seen[c] /\ record = Promise!Effect(op[c], record)
      /\ outcome[c] = "ok" => seen[c] # Never

\* It finds what an acknowledged call said: the record it put, none after a
\* delete, what a get returned.
AcknowledgedHolds ==
  \A c \in Caller :
    Caller = {c} /\ ~Late /\ outcome[c] = "ok" =>
      /\ record = Promise!Effect(op[c], record)
      /\ record = seen[c]

\* However silent or busy the target is, the call returns.
CallReturns ==
  \A c \in Caller : pc[c] # "idle" ~> pc[c] = "idle"
=============================================================================
