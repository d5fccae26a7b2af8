-------------------------- MODULE ScriptPoolProofs --------------------------
(***************************************************************************)
(* However many goroutines share however many runtimes, and whenever timer  *)
(* callbacks are scheduled, no two goroutines have the same runtime.        *)
(*                                                                         *)
(* The types need Held: the callback of an armed timer has a runtime to     *)
(* interrupt.  The exclusion needs nothing but itself: the pool holds no    *)
(* runtime that is in use, so what it hands out is in nobody else's hands,  *)
(* and a runtime pool.New makes is none of those that are alive.            *)
(*                                                                         *)
(* That a deadline stops one call at most is a count for each runtime: what *)
(* it has stopped, what is still on its way to stop something, and the flag *)
(* that has not stopped anything yet are no more than the timers that fired *)
(* (DeadlinesCounted).  That nobody else has the runtime makes a flag stop  *)
(* one call, not two.                                                      *)
(***************************************************************************)
EXTENDS ScriptPool, TLAPS

PoolInv == TypeOK /\ Held /\ OneGoroutinePerRuntime

\* No runtime exists before the first call.
LEMMA InitPool == Init => PoolInv
<1> SUFFICES ASSUME Init PROVE PoolInv
  OBVIOUS
<1>1. TypeOK
  BY MaxCallsAssumption DEF Init, TypeOK, Pc
<1>2. Held /\ OneGoroutinePerRuntime
  BY DEF Init, Held, OneGoroutinePerRuntime
<1>3. QED
  BY <1>1, <1>2 DEF PoolInv

\* A goroutine takes a runtime from the pool, or a new one: nobody has it.
LEMMA GetPool ==
  ASSUME PoolInv, NEW g \in Goroutine, NEW r \in Runtime, Get(g, r)
  PROVE  PoolInv'
<1> USE DEF PoolInv
<1>1. calls' \in 0 .. MaxCalls
  BY MaxCallsAssumption DEF Get, TypeOK
<1>2. r # None
  BY NoRuntimeAssumption
<1>3. ASSUME NEW h \in Goroutine PROVE uses[h] # r
  BY <1>2 DEF Get, Alive, InUse, OneGoroutinePerRuntime
<1>4. TypeOK'
  BY <1>1 DEF Get, Go, TypeOK, Pc, history
<1>5. Held'
  BY <1>2 DEF Get, Go, TypeOK, Held
<1>6. OneGoroutinePerRuntime'
  BY <1>3 DEF Get, TypeOK, OneGoroutinePerRuntime
<1>7. QED
  BY <1>4, <1>5, <1>6

\* Nothing in the middle of a call gives or takes a runtime.
LEMMA CallPool ==
  ASSUME PoolInv, NEW g \in Goroutine,
         GetFails(g) \/ Unknown(g) \/ Run(g) \/ Finish(g) \/ Interrupted(g)
           \/ Stop(g)
  PROVE  PoolInv'
<1> USE DEF PoolInv, TypeOK, Held, OneGoroutinePerRuntime, Go, Pc,
            runtimes, history
<1>1. CASE GetFails(g)
  <2>1. calls' \in 0 .. MaxCalls
    BY <1>1, MaxCallsAssumption DEF GetFails
  <2>2. QED
    BY <1>1, <2>1 DEF GetFails
<1>2. CASE Unknown(g)
  BY <1>2 DEF Unknown
<1>3. CASE Run(g)
  BY <1>3 DEF Run
<1>4. CASE Finish(g)
  BY <1>4 DEF Finish
<1>5. CASE Interrupted(g)
  BY <1>5 DEF Interrupted
<1>6. CASE Stop(g)
  BY <1>6 DEF Stop
<1>7. QED
  BY <1>1, <1>2, <1>3, <1>4, <1>5, <1>6

\* A runtime goes back into the pool in the step that takes it off the
\* goroutine.
LEMMA ReleasePool ==
  ASSUME PoolInv, NEW g \in Goroutine, Release(g)
  PROVE  PoolInv'
<1> USE DEF PoolInv, Go, Pc, history
<1>1. CASE Go(g, "clear", "put")
  BY <1>1 DEF Release, TypeOK, Held, OneGoroutinePerRuntime
<1>2. CASE Go(g, "put", "idle")
  <2>1. /\ free' = free \cup ({uses[g]} \ {None})
        /\ uses' = [uses EXCEPT ![g] = None]
        /\ UNCHANGED <<endless, timer, result, flag, callbacks, calls,
                       history>>
    BY <1>2 DEF Release, TypeOK
  <2>2. TypeOK'
    BY <1>2, <2>1 DEF TypeOK
  <2>3. Held'
    BY <1>2, <2>1 DEF TypeOK, Held
  <2>4. OneGoroutinePerRuntime'
    BY <2>1 DEF TypeOK, OneGoroutinePerRuntime
  <2>5. QED
    BY <2>2, <2>3, <2>4
<1>3. QED
  BY <1>1, <1>2 DEF Release

\* A callback starts with the runtime of its call.
LEMMA FirePool ==
  ASSUME PoolInv, NEW g \in Goroutine, Fire(g)
  PROVE  PoolInv'
<1> USE DEF PoolInv
<1>1. uses[g] \in Runtime
  BY DEF Fire, TypeOK, Held
<1>2. QED
  BY <1>1 DEF Fire, TypeOK, Held, OneGoroutinePerRuntime

\* Timers and the garbage collector hand out nothing.
LEMMA OutsidePool ==
  ASSUME PoolInv, NEW r \in Runtime, Interrupt(r) \/ Drop(r)
  PROVE  PoolInv'
<1> USE DEF PoolInv, TypeOK, Held, OneGoroutinePerRuntime, goroutines, history
<1>1. CASE Interrupt(r)
  BY <1>1 DEF Interrupt
<1>2. CASE Drop(r)
  BY <1>2 DEF Drop
<1>3. QED
  BY <1>1, <1>2

\* Every step keeps the invariant.
LEMMA NextPool == PoolInv /\ [Next]_vars => PoolInv'
<1> SUFFICES ASSUME PoolInv, [Next]_vars PROVE PoolInv'
  OBVIOUS
<1>1. CASE UNCHANGED vars
  BY <1>1 DEF vars, goroutines, runtimes, history, PoolInv, TypeOK, Held,
              OneGoroutinePerRuntime
<1>2. ASSUME NEW g \in Goroutine,
             (\E r \in Runtime : Get(g, r)) \/ GetFails(g) \/ Step(g) \/ Fire(g)
      PROVE  PoolInv'
  BY <1>2, GetPool, CallPool, ReleasePool, FirePool DEF Step
<1>3. QED
  BY <1>1, <1>2, OutsidePool DEF Next

\* The types, who holds a runtime where, and that nobody else does.
THEOREM SpecPool == Spec => []PoolInv
<1>1. QED
  BY InitPool, NextPool, PTL DEF Spec

\* The state stays within its type: a callback always has a runtime.
THEOREM SpecPoolTypeOK == Spec => []TypeOK
<1>1. PoolInv => TypeOK
  BY DEF PoolInv
<1>2. QED
  BY <1>1, SpecPool, PTL

\* The pool, and New when it is empty, never give a runtime to two goroutines
\* at once.
THEOREM SpecOneGoroutine == Spec => []OneGoroutinePerRuntime
<1>1. PoolInv => OneGoroutinePerRuntime
  BY DEF PoolInv
<1>2. QED
  BY <1>1, SpecPool, PTL

-----------------------------------------------------------------------------
(* Deadlines.                                                              *)

\* A step in which no timer fires and no call is interrupted, which sets no
\* flag, and after which a flag that has stopped a call still has, or is cleared.
LEMMA CountedFrame ==
  ASSUME PoolInv, NEW r \in Runtime, Counted(r),
         UNCHANGED <<expired, interrupted>>,
         callbacks'[r] = callbacks[r],
         r \in flag' => r \in flag, Spent(r) => Spent(r)' \/ r \notin flag'
  PROVE  Counted(r)'
<1>1. /\ expired[r] \in Nat /\ interrupted[r] \in Nat
      /\ callbacks[r] \in Nat
  BY DEF PoolInv, TypeOK
<1>2. MayStop(r)' <= MayStop(r) /\ MayStop(r) \in 0 .. 1 /\ MayStop(r)' \in 0 .. 1
  BY DEF MayStop
<1>3. QED
  BY <1>1, <1>2 DEF Counted

\* Before the first call there is nothing to count.
LEMMA InitCounted == Init => DeadlinesCounted
  BY DEF Init, DeadlinesCounted, Counted, MayStop

\* The steps of a call that leave the flags alone.
LEMMA CallCounted ==
  ASSUME PoolInv, DeadlinesCounted, NEW g \in Goroutine,
         GetFails(g) \/ Unknown(g) \/ Run(g) \/ Finish(g) \/ Stop(g)
  PROVE  DeadlinesCounted'
<1>1. UNCHANGED <<uses, flag, callbacks, expired, interrupted>>
  BY DEF GetFails, Unknown, Run, Finish, Stop, runtimes, history
<1>2. /\ \A h \in Goroutine \ {g} : pc'[h] = pc[h] /\ result'[h] = result[h]
      /\ pc[g] \in {"stop", "clear"} =>
           pc'[g] \in {"stop", "clear"} /\ result'[g] = result[g]
  BY DEF GetFails, Unknown, Run, Finish, Stop, Go, PoolInv, TypeOK
<1>3. ASSUME NEW r \in Runtime PROVE Spent(r) => Spent(r)'
  BY <1>1, <1>2 DEF Spent
<1>4. QED
  BY <1>1, <1>3, CountedFrame DEF DeadlinesCounted

\* A call is interrupted by a flag that had stopped nothing: the flag's
\* runtime is its own, so that it would have been this call.
LEMMA InterruptedCounted ==
  ASSUME PoolInv, DeadlinesCounted, NEW g \in Goroutine, Interrupted(g)
  PROVE  DeadlinesCounted'
<1> DEFINE j == uses[g]
<1>1. j \in Runtime /\ j # None
  BY DEF Interrupted, Go, PoolInv, Held, TypeOK
<1>2. UNCHANGED <<uses, flag, callbacks, expired>>
  BY DEF Interrupted, runtimes
<1>3. /\ \A h \in Goroutine \ {g} : pc'[h] = pc[h] /\ result'[h] = result[h]
      /\ pc[g] = "run" /\ pc'[g] = "stop" /\ result'[g] = "interrupted"
      /\ interrupted' = [interrupted EXCEPT ![j] = @ + 1] /\ j \in flag
  BY DEF Interrupted, Go, PoolInv, TypeOK
<1>4. \A h \in Goroutine : uses[h] = j => h = g
  BY <1>1 DEF PoolInv, OneGoroutinePerRuntime
<1>5. ~Spent(j) /\ Spent(j)'
  BY <1>2, <1>3, <1>4 DEF Spent
<1>6. Counted(j)'
  <2>1. MayStop(j) = 1 /\ MayStop(j)' = 0
    BY <1>2, <1>3, <1>5 DEF MayStop
  <2>2. Counted(j) /\ interrupted'[j] = interrupted[j] + 1
    BY <1>1, <1>3 DEF DeadlinesCounted, PoolInv, TypeOK
  <2>3. /\ expired[j] \in Nat /\ interrupted[j] \in Nat
        /\ callbacks[j] \in Nat
    BY <1>1 DEF PoolInv, TypeOK
  <2>4. QED
    BY <1>2, <2>1, <2>2, <2>3 DEF Counted
<1>7. ASSUME NEW r \in Runtime, r # j PROVE Counted(r)'
  <2>1. Spent(r) <=> Spent(r)'
    BY <1>2, <1>3, <1>7 DEF Spent
  <2>2. interrupted'[r] = interrupted[r]
    BY <1>3, <1>7 DEF PoolInv, TypeOK
  <2>3. QED
    BY <1>2, <2>1, <2>2 DEF DeadlinesCounted, Counted, MayStop
<1>8. QED
  BY <1>2, <1>6, <1>7 DEF DeadlinesCounted

\* Taking a runtime sets no flag, and who takes it has stopped nothing yet.
LEMMA GetCounted ==
  ASSUME PoolInv, DeadlinesCounted, NEW g \in Goroutine, NEW q \in Runtime,
         Get(g, q)
  PROVE  DeadlinesCounted'
<1>1. /\ UNCHANGED <<callbacks, expired, interrupted>>
      /\ flag' \subseteq flag /\ pc[g] = "idle"
      /\ \A h \in Goroutine \ {g} :
           pc'[h] = pc[h] /\ result'[h] = result[h] /\ uses'[h] = uses[h]
  BY DEF Get, Go, history, PoolInv, TypeOK
<1>2. ASSUME NEW r \in Runtime PROVE Spent(r) => Spent(r)'
  BY <1>1 DEF Spent
<1>3. QED
  BY <1>1, <1>2, CountedFrame DEF DeadlinesCounted

\* A call that was stopped has cleared its flag when it gives back the runtime.
LEMMA ReleaseCounted ==
  ASSUME PoolInv, DeadlinesCounted, NEW g \in Goroutine, Release(g)
  PROVE  DeadlinesCounted'
<1>1. /\ UNCHANGED <<callbacks, expired, interrupted, result>>
      /\ flag' \subseteq flag
      /\ \A h \in Goroutine \ {g} : pc'[h] = pc[h] /\ uses'[h] = uses[h]
      /\ pc[g] = "clear" => flag' = flag \ {uses[g]}
      /\ pc[g] \in {"clear", "put"}
  BY DEF Release, Go, history, PoolInv, TypeOK
<1>2. ASSUME NEW r \in Runtime PROVE Spent(r) => Spent(r)' \/ r \notin flag'
  BY <1>1 DEF Spent
<1>3. QED
  BY <1>1, <1>2, CountedFrame DEF DeadlinesCounted

\* A deadline that is over is one callback; the callback is one flag, or none
\* when the flag is set already.
LEMMA CallbackCounted ==
  ASSUME PoolInv, DeadlinesCounted,
         \/ \E g \in Goroutine : Fire(g)
         \/ \E r \in Runtime : Interrupt(r) \/ Drop(r)
  PROVE  DeadlinesCounted'
<1>a. /\ expired \in [Runtime -> Nat] /\ interrupted \in [Runtime -> Nat]
      /\ callbacks \in [Runtime -> Nat]
  BY DEF PoolInv, TypeOK
<1>1. ASSUME NEW g \in Goroutine, Fire(g) PROVE DeadlinesCounted'
  <2>1. UNCHANGED <<pc, uses, result, flag, interrupted>>
    BY <1>1 DEF Fire
  <2>2. \A r \in Runtime : MayStop(r)' = MayStop(r)
    BY <2>1 DEF MayStop, Spent
  <2>3. \A r \in Runtime : MayStop(r) \in 0 .. 1
    BY DEF MayStop
  <2>4. \A r \in Runtime : callbacks'[r] - callbacks[r] = expired'[r] - expired[r]
    BY <1>1, <1>a DEF Fire
  <2>5. \A r \in Runtime : callbacks'[r] \in Nat /\ expired'[r] \in Nat
    BY <1>1, <1>a DEF Fire
  <2>6. QED
    BY <1>a, <2>1, <2>2, <2>3, <2>4, <2>5 DEF DeadlinesCounted, Counted
<1>2. ASSUME NEW q \in Runtime, Interrupt(q) PROVE DeadlinesCounted'
  <2>1. UNCHANGED <<pc, uses, result, expired, interrupted>>
    BY <1>2 DEF Interrupt, goroutines, history
  <2>2. \A r \in Runtime : Spent(r)' <=> Spent(r)
    BY <2>1 DEF Spent
  <2>3. /\ MayStop(q) \in 0 .. 1 /\ MayStop(q)' \in 0 .. 1
        /\ callbacks'[q] = callbacks[q] - 1
    BY <1>2, <1>a DEF Interrupt, MayStop
  <2>4. Counted(q)'
    BY <1>a, <2>1, <2>3 DEF DeadlinesCounted, Counted
  <2>5. ASSUME NEW r \in Runtime, r # q PROVE Counted(r)'
    BY <1>2, <1>a, <2>1, <2>2, <2>5
    DEF Interrupt, DeadlinesCounted, Counted, MayStop
  <2>6. QED
    BY <2>4, <2>5 DEF DeadlinesCounted
<1>3. ASSUME NEW q \in Runtime, Drop(q) PROVE DeadlinesCounted'
  BY <1>3
  DEF Drop, goroutines, history, DeadlinesCounted, Counted, MayStop, Spent
<1>4. QED
  BY <1>1, <1>2, <1>3

\* Every step keeps the count.
LEMMA NextCounted == PoolInv /\ DeadlinesCounted /\ [Next]_vars => DeadlinesCounted'
<1> SUFFICES ASSUME PoolInv, DeadlinesCounted, [Next]_vars
             PROVE  DeadlinesCounted'
  OBVIOUS
<1>1. CASE UNCHANGED vars
  BY <1>1
  DEF vars, goroutines, runtimes, history, DeadlinesCounted, Counted, MayStop,
      Spent
<1>2. ASSUME NEW g \in Goroutine,
             (\E r \in Runtime : Get(g, r)) \/ GetFails(g) \/ Step(g)
      PROVE  DeadlinesCounted'
  BY <1>2, GetCounted, CallCounted, InterruptedCounted, ReleaseCounted DEF Step
<1>3. QED
  BY <1>1, <1>2, CallbackCounted DEF Next

\* However late the callbacks are, a deadline that is over costs one call on
\* its runtime at most.
THEOREM SpecDeadlineStopsOneCall == Spec => []DeadlineStopsOneCall
<1>1. PoolInv /\ DeadlinesCounted => DeadlineStopsOneCall
  <2> SUFFICES ASSUME PoolInv, DeadlinesCounted, NEW r \in Runtime
               PROVE  interrupted[r] <= expired[r]
    BY DEF DeadlineStopsOneCall
  <2>1. /\ expired[r] \in Nat /\ interrupted[r] \in Nat
        /\ callbacks[r] \in Nat /\ MayStop(r) \in Nat
    BY DEF PoolInv, TypeOK, MayStop
  <2>2. QED
    BY <2>1 DEF DeadlinesCounted, Counted
<1>2. QED
  BY <1>1, InitCounted, NextCounted, SpecPool, PTL DEF Spec
=============================================================================
