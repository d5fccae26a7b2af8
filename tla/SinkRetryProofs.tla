-------------------------- MODULE SinkRetryProofs ---------------------------
(***************************************************************************)
(* doJSON keeps the promise of TargetCall, for any callers and records and  *)
(* whether abandoned requests may arrive late or not.                       *)
(*                                                                         *)
(* The refinement is the identity on the variables of TargetCall.  It needs *)
(* Accounted: an answer that counts as success was given by an execution    *)
(* within the call, because no attempt leaves its answer to the next.       *)
(***************************************************************************)
EXTENDS SinkRetry, TLAPS

Inv == TypeOK /\ Accounted

\* Executing a request leaves a record or none.
LEMMA EffectType ==
  ASSUME NEW o \in Promise!Op, NEW rec \in Record \cup {None}
  PROVE  Promise!Effect(o, rec) \in Record \cup {None}
  BY DEF Promise!Effect, Promise!Op

\* Before the first call everything is at rest.
LEMMA InitInv == Init => Inv
<1> SUFFICES ASSUME Init PROVE Inv
  OBVIOUS
<1>1. TypeOK
  BY DEF Init, Promise!Quiet, Promise!NoOp, Promise!Op, TypeOK, Pc, LastAttempt
<1>2. Accounted
  BY DEF Init, Promise!Quiet, Accounted, Succeeded
<1>3. QED
  BY <1>1, <1>2 DEF Inv

\* Every step of client, target and network keeps the types and accounts for
\* its answers.
LEMMA NextInv == Inv /\ [Next]_vars => Inv'
<1> SUFFICES ASSUME Inv, [Next]_vars PROVE Inv'
  OBVIOUS
<1> USE DEF Inv, TypeOK, Accounted, server, client
<1>1. ASSUME NEW c \in Caller, NEW o \in Promise!Op, Begin(c, o)
      PROVE  Inv'
  BY <1>1 DEF Begin, Pc, LastAttempt, Succeeded
<1>2. ASSUME NEW c \in Caller, Send(c)
      PROVE  Inv'
  BY <1>2 DEF Send, Pc, Succeeded
<1>3. ASSUME NEW c \in Caller, Serve(c)
      PROVE  Inv'
  <2>1. record' \in Record \cup {None}
    BY <1>3, EffectType DEF Serve
  <2>2. record' # Never
    BY <2>1, NeverAssumption
  <2>3. QED
    BY <1>3, <2>1, <2>2 DEF Serve, Answer, Succeeded
<1>4. ASSUME NEW c \in Caller, Decline(c)
      PROVE  Inv'
  BY <1>4 DEF Decline, Answer, Succeeded
<1>5. ASSUME NEW o \in late, ServeLate(o)
      PROVE  Inv'
  BY <1>5, EffectType DEF ServeLate, Succeeded
<1>6. ASSUME NEW c \in Caller, NEW result \in {"ok", "failed"},
             Finish(c, result), late' \subseteq Promise!Op,
             UNCHANGED <<record, seen>>
      PROVE  Inv'
  BY <1>6 DEF Finish, Pc, Succeeded
<1>7. ASSUME NEW c \in Caller, Retry(c), pc[c] = "await",
             late' \subseteq Promise!Op, UNCHANGED <<record, seen>>
      PROVE  Inv'
  BY <1>7 DEF Retry, Pc, LastAttempt, Succeeded
<1>8. ASSUME NEW c \in Caller, LeaveBehind(c)
      PROVE  late' \subseteq Promise!Op
  BY <1>8 DEF LeaveBehind
<1>9. ASSUME NEW c \in Caller, Receive(c) \/ Garbled(c)
      PROVE  Inv'
  BY <1>6, <1>7, <1>9 DEF Receive, Garbled
<1>10. ASSUME NEW c \in Caller, Break(c) \/ Cancel(c)
       PROVE  Inv'
  BY <1>6, <1>7, <1>8, <1>10 DEF Break, Cancel
<1>11. ASSUME NEW c \in Caller, Wake(c)
       PROVE  Inv'
  BY <1>11 DEF Wake, Pc, Succeeded
<1>12. CASE UNCHANGED vars
  BY <1>12 DEF vars, Succeeded
<1>13. QED
  BY <1>1, <1>2, <1>3, <1>4, <1>5, <1>9, <1>10, <1>11, <1>12
  DEF Next, ClientStep

\* Every step is one of the promise, or none it tells of.
LEMMA NextKeeps ==
  Inv /\ [Next]_vars => [Promise!Next]_(Promise!promiseVars)
<1> SUFFICES ASSUME Inv, [Next]_vars
             PROVE  [Promise!Next]_(Promise!promiseVars)
  OBVIOUS
<1> USE DEF Inv, TypeOK, Accounted, server, client, Promise!promiseVars
<1>1. ASSUME NEW c \in Caller, NEW o \in Promise!Op, Begin(c, o)
      PROVE  Promise!Next
  <2>1. Promise!Call(c, o)
    BY <1>1 DEF Begin, Promise!Call
  <2>2. QED
    BY <2>1 DEF Promise!Next
<1>2. ASSUME NEW c \in Caller, Serve(c)
      PROVE  Promise!Next
  <2>1. Promise!Execute(c)
    BY <1>2 DEF Serve, Promise!Execute
  <2>2. QED
    BY <2>1 DEF Promise!Next
<1>3. ASSUME NEW o \in late, ServeLate(o)
      PROVE  Promise!Next
  <2>1. Promise!Arrive(o)
    BY <1>3 DEF ServeLate, Promise!Arrive
  <2>2. QED
    BY <2>1 DEF Promise!Next
<1>4. ASSUME NEW c \in Caller, NEW result \in {"ok", "failed"},
             Finish(c, result), pc[c] # "idle",
             result = "ok" => Succeeded(c), LeaveBehind(c),
             UNCHANGED <<record, seen>>
      PROVE  Promise!Next
  <2>1. Promise!Return(c, result)
    BY <1>4 DEF Finish, LeaveBehind, Promise!Return
  <2>2. QED
    BY <2>1 DEF Promise!Next
<1>5. ASSUME NEW c \in Caller, Retry(c), pc[c] = "await", LeaveBehind(c),
             UNCHANGED <<record, seen>>
      PROVE  Promise!Next \/ UNCHANGED Promise!promiseVars
  <2>1. CASE UNCHANGED late
    BY <1>5, <2>1 DEF Retry
  <2>2. CASE ~ UNCHANGED late
    <3>1. Promise!Abandon(c)
      BY <1>5, <2>2 DEF Retry, LeaveBehind, Promise!Abandon
    <3>2. QED
      BY <3>1 DEF Promise!Next
  <2>3. QED
    BY <2>1, <2>2
<1>6. ASSUME NEW c \in Caller, Receive(c) \/ Garbled(c)
      PROVE  Promise!Next \/ UNCHANGED Promise!promiseVars
  <2>1. pc[c] = "await" /\ LeaveBehind(c) /\ UNCHANGED <<record, seen>>
    BY <1>6 DEF Receive, Garbled, LeaveBehind
  <2>2. QED
    BY <1>4, <1>5, <1>6, <2>1 DEF Receive, Garbled
<1>7. ASSUME NEW c \in Caller, Break(c) \/ Cancel(c)
      PROVE  Promise!Next \/ UNCHANGED Promise!promiseVars
  BY <1>4, <1>5, <1>7 DEF Break, Cancel
<1>8. ASSUME NEW c \in Caller, Send(c) \/ Decline(c) \/ Wake(c)
      PROVE  UNCHANGED Promise!promiseVars
  BY <1>8 DEF Send, Decline, Wake
<1>9. CASE UNCHANGED vars
  BY <1>9 DEF vars
<1>10. QED
  BY <1>1, <1>2, <1>3, <1>6, <1>7, <1>8, <1>9 DEF Next, ClientStep

-----------------------------------------------------------------------------
\* An execution leaves what it says: executing it once more changes nothing.
LEMMA EffectIdempotent ==
  ASSUME NEW o \in Promise!Op, NEW rec
  PROVE  Promise!Effect(o, Promise!Effect(o, rec)) = Promise!Effect(o, rec)
  BY DEF Promise!Effect, Promise!Op

\* What the only caller knows stays true.
LEMMA NextAlone == Inv /\ Alone /\ [Next]_vars => Alone'
<1> SUFFICES ASSUME Inv, Alone, [Next]_vars,
                    NEW c \in Caller, Caller = {c}, ~Late
             PROVE  /\ late' = {}
                    /\ seen'[c] # Never =>
                         /\ record' = seen'[c]
                         /\ record' = Promise!Effect(op'[c], record')
                    /\ outcome'[c] = "ok" => seen'[c] # Never
  BY DEF Alone
<1> USE DEF Inv, TypeOK, Accounted, Alone, server, client
<1>1. late = {}
  OBVIOUS
<1>2. CASE UNCHANGED vars
  BY <1>2 DEF vars
<1>3. ASSUME NEW o \in Promise!Op, Begin(c, o)
      PROVE  late' = {} /\ seen'[c] = Never /\ outcome'[c] = "pending"
  BY <1>1, <1>3 DEF Begin
<1>4. CASE Serve(c)
  <2>1. record' = Promise!Effect(op[c], record) /\ seen'[c] = record'
    BY <1>4 DEF Serve
  <2>2. record' = Promise!Effect(op[c], record')
    BY <2>1, EffectIdempotent
  <2>3. record' # Never
    BY <2>1, EffectType, NeverAssumption
  <2>4. QED
    BY <1>1, <1>4, <2>1, <2>2, <2>3 DEF Serve
<1>5. CASE Send(c) \/ Decline(c) \/ Wake(c)
  BY <1>1, <1>5 DEF Send, Decline, Wake
<1>6. CASE Receive(c) \/ Garbled(c) \/ Break(c) \/ Cancel(c)
  <2>1. late' = {} /\ UNCHANGED <<record, op, seen>>
    BY <1>1, <1>6 DEF Receive, Garbled, Break, Cancel, LeaveBehind, Finish, Retry
  <2>2. outcome'[c] = "ok" => outcome[c] = "ok" \/ (Receive(c) /\ Succeeded(c))
    BY <1>6 DEF Receive, Garbled, Break, Cancel, Finish, Retry
  <2>3. QED
    BY <2>1, <2>2
<1>7. QED
  BY <1>1, <1>2, <1>3, <1>4, <1>5, <1>6 DEF Next, ClientStep

-----------------------------------------------------------------------------
\* The inductive invariant of the retry loop.
THEOREM SpecInv == Spec => []Inv
  BY InitInv, NextInv, PTL DEF Spec

\* Every state of any callers has its type: the loop counter never passes the
\* last attempt, so that doJSON returns from within its loop.
THEOREM SpecTypeOK == Spec => []TypeOK
<1>1. Inv => TypeOK
  BY DEF Inv
<1>2. QED
  BY <1>1, SpecInv, PTL

\* Get, Put and Delete keep the promise Harvest is built on: acknowledged
\* means executed during the call, failed may mean either, nothing else writes.
THEOREM SpecKeepsPromise == Spec => KeepsPromise
<1>1. Init => Promise!Quiet
  BY DEF Init
<1>2. QED
  BY <1>1, NextKeeps, SpecInv, PTL DEF Spec, Promise!Spec, KeepsPromise

\* An acknowledged call of the only caller tells what the catalog holds, as
\* Harvest takes it, over whatever its attempts went through.
THEOREM SpecAcknowledgedHolds == Spec => []AcknowledgedHolds
<1>1. Init => Alone
  BY DEF Init, Promise!Quiet, Alone
<1>2. Alone => AcknowledgedHolds
  BY DEF Alone, AcknowledgedHolds
<1>3. QED
  BY <1>1, <1>2, NextAlone, SpecInv, PTL DEF Spec
=============================================================================
