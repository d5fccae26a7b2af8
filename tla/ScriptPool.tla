----------------------------- MODULE ScriptPool -----------------------------
(***************************************************************************)
(* The JavaScript runtimes of the mapping engine (callJS and newRuntime in  *)
(* internal/mapping/engine.go): a sync.Pool of runtimes that goroutines     *)
(* take turns with, and a timer for each call whose callback interrupts the *)
(* runtime from a goroutine of its own.                                    *)
(*                                                                         *)
(*   idle -> got -> run -> stop -> clear -> put -> idle                     *)
(*                                                                         *)
(* A runtime keeps its interrupt flag until ClearInterrupt, also while      *)
(* nothing runs; whatever runs next then stops at once.                     *)
(***************************************************************************)
EXTENDS Naturals

CONSTANTS
  Goroutine,   \* callers of Engine.Map
  Runtime,     \* runtimes that exist at the same time
  None,        \* no runtime
  MaxCalls     \* bound: calls in a behaviour

ASSUME NoRuntimeAssumption == None \notin Runtime
ASSUME MaxCallsAssumption == MaxCalls \in Nat

VARIABLES
  pc,           \* where in callJS the goroutine is
  uses,         \* the runtime it has
  endless,      \* the function it calls does not return by itself
  timer,        \* its call's timer
  result,       \* how its newest call ended
  free,         \* runtimes in the pool
  flag,         \* runtimes that are told to stop
  callbacks,    \* timer callbacks on each runtime that have yet to interrupt it
  calls,        \* calls so far
  expired,      \* history: timers that fired for calls on each runtime
  interrupted   \* history: calls on each runtime that were interrupted

goroutines == <<pc, uses, endless, timer, result>>
runtimes == <<free, flag, callbacks>>
history == <<expired, interrupted>>
vars == <<goroutines, runtimes, calls, history>>

Pc == {"idle", "got", "run", "stop", "clear", "put"}

InUse == {uses[g] : g \in Goroutine} \ {None}

\* A runtime the pool has dropped lives on while a callback holds it.
Alive == free \cup InUse \cup {r \in Runtime : callbacks[r] > 0}

Go(g, from, to) ==
  /\ pc[g] = from
  /\ pc' = [pc EXCEPT ![g] = to]

Init ==
  /\ pc = [g \in Goroutine |-> "idle"]
  /\ uses = [g \in Goroutine |-> None]
  /\ endless = [g \in Goroutine |-> FALSE]
  /\ timer = [g \in Goroutine |-> "off"]
  /\ result = [g \in Goroutine |-> "none"]
  /\ free = {}
  /\ flag = {}
  /\ callbacks = [r \in Runtime |-> 0]
  /\ calls = 0
  /\ expired = [r \in Runtime |-> 0]
  /\ interrupted = [r \in Runtime |-> 0]

-----------------------------------------------------------------------------
\* pool.Get: one of the pool, or pool.New's.
Get(g, r) ==
  /\ Go(g, "idle", "got")
  /\ calls < MaxCalls
  /\ calls' = calls + 1
  /\ \/ r \in free /\ UNCHANGED flag
     \/ r \notin Alive /\ flag' = flag \ {r}
  /\ free' = free \ {r}
  /\ uses' = [uses EXCEPT ![g] = r]
  /\ result' = [result EXCEPT ![g] = "none"]
  /\ UNCHANGED <<endless, timer, callbacks, history>>

\* pool.New fails to load a script; its error takes the runtime's place.
GetFails(g) ==
  /\ Go(g, "idle", "clear")
  /\ calls < MaxCalls
  /\ calls' = calls + 1
  /\ result' = [result EXCEPT ![g] = "error"]
  /\ UNCHANGED <<uses, endless, timer, runtimes, history>>

\* The runtime has no function of that name.
Unknown(g) ==
  /\ Go(g, "got", "clear")
  /\ result' = [result EXCEPT ![g] = "error"]
  /\ UNCHANGED <<uses, endless, timer, runtimes, calls, history>>

\* Mutant of Run: no deadline.
RunUntimed(g) ==
  /\ Go(g, "got", "run")
  /\ endless' \in {[endless EXCEPT ![g] = b] : b \in BOOLEAN}
  /\ UNCHANGED <<uses, timer, result, runtimes, calls, history>>

\* time.AfterFunc, then the call.
Run(g) ==
  /\ Go(g, "got", "run")
  /\ timer' = [timer EXCEPT ![g] = "armed"]
  /\ endless' \in {[endless EXCEPT ![g] = b] : b \in BOOLEAN}
  /\ UNCHANGED <<uses, result, runtimes, calls, history>>

\* The function returns or throws.
Finish(g) ==
  /\ Go(g, "run", "stop")
  /\ ~endless[g]
  /\ uses[g] \notin flag
  /\ \E how \in {"value", "error"} : result' = [result EXCEPT ![g] = how]
  /\ UNCHANGED <<uses, endless, timer, runtimes, calls, history>>

\* It is stopped by the flag of its runtime.
Interrupted(g) ==
  /\ Go(g, "run", "stop")
  /\ uses[g] \in flag
  /\ result' = [result EXCEPT ![g] = "interrupted"]
  /\ interrupted' = [interrupted EXCEPT ![uses[g]] = @ + 1]
  /\ UNCHANGED <<uses, endless, timer, runtimes, calls, expired>>

\* The deferred timer.Stop does not wait for a callback that has started.
Stop(g) ==
  /\ Go(g, "stop", "clear")
  /\ timer' = [timer EXCEPT ![g] = "off"]
  /\ UNCHANGED <<uses, endless, result, runtimes, calls, history>>

\* Mutant of Release: the runtime goes back before its flag is cleared.
ReleaseFirst(g) ==
  \/ /\ Go(g, "clear", "put")
     /\ free' = free \cup ({uses[g]} \ {None})
     /\ UNCHANGED <<uses, endless, timer, result, flag, callbacks, calls,
                   history>>
  \/ /\ Go(g, "put", "idle")
     /\ flag' = flag \ {uses[g]}
     /\ uses' = [uses EXCEPT ![g] = None]
     /\ UNCHANGED <<endless, timer, result, free, callbacks, calls, history>>

\* Mutant of Release: the flag is not cleared.
ReleaseFlagged(g) ==
  \/ /\ Go(g, "clear", "put")
     /\ UNCHANGED <<uses, endless, timer, result, runtimes, calls, history>>
  \/ /\ Go(g, "put", "idle")
     /\ free' = free \cup ({uses[g]} \ {None})
     /\ uses' = [uses EXCEPT ![g] = None]
     /\ UNCHANGED <<endless, timer, result, flag, callbacks, calls, history>>

\* Mutant of Release: whatever pool.Get returned goes into the pool.
ReleaseAnything(g) ==
  \/ /\ Go(g, "clear", "put")
     /\ flag' = flag \ {uses[g]}
     /\ UNCHANGED <<uses, endless, timer, result, free, callbacks, calls,
                   history>>
  \/ /\ Go(g, "put", "idle")
     /\ free' = free \cup {uses[g]}
     /\ uses' = [uses EXCEPT ![g] = None]
     /\ UNCHANGED <<endless, timer, result, flag, callbacks, calls, history>>

\* The other deferred function: ClearInterrupt, then pool.Put, if there is a
\* runtime.
Release(g) ==
  \/ /\ Go(g, "clear", "put")
     /\ flag' = flag \ {uses[g]}
     /\ UNCHANGED <<uses, endless, timer, result, free, callbacks, calls,
                   history>>
  \/ /\ Go(g, "put", "idle")
     /\ free' = free \cup ({uses[g]} \ {None})
     /\ uses' = [uses EXCEPT ![g] = None]
     /\ UNCHANGED <<endless, timer, result, flag, callbacks, calls, history>>

-----------------------------------------------------------------------------
\* 100 ms are over: the callback starts in a goroutine of its own,
Fire(g) ==
  /\ timer[g] = "armed"
  /\ timer' = [timer EXCEPT ![g] = "fired"]
  /\ callbacks' = [callbacks EXCEPT ![uses[g]] = @ + 1]
  /\ expired' = [expired EXCEPT ![uses[g]] = @ + 1]
  /\ UNCHANGED <<pc, uses, endless, result, free, flag, calls, interrupted>>

\* which gets to Interrupt whenever it is scheduled.
Interrupt(r) ==
  /\ callbacks[r] > 0
  /\ flag' = flag \cup {r}
  /\ callbacks' = [callbacks EXCEPT ![r] = @ - 1]
  /\ UNCHANGED <<goroutines, free, calls, history>>

\* The garbage collector empties a sync.Pool.
Drop(r) ==
  /\ r \in free
  /\ free' = free \ {r}
  /\ UNCHANGED <<goroutines, flag, callbacks, calls, history>>

Step(g) ==
  \/ Unknown(g) \/ Run(g)
  \/ Finish(g) \/ Interrupted(g)
  \/ Stop(g) \/ Release(g)

Next ==
  \/ \E g \in Goroutine :
       \/ \E r \in Runtime : Get(g, r)
       \/ GetFails(g)
       \/ Step(g)
       \/ Fire(g)
  \/ \E r \in Runtime : Interrupt(r) \/ Drop(r)

Spec == Init /\ [][Next]_vars

\* The scheduler runs every goroutine, a callback's too, and timers fire.
FairSpec ==
  /\ Spec
  /\ \A g \in Goroutine : WF_vars(Step(g)) /\ WF_vars(Fire(g))
  /\ \A r \in Runtime : WF_vars(Interrupt(r))

-----------------------------------------------------------------------------
\* The type of the state.
TypeOK ==
  /\ pc \in [Goroutine -> Pc]
  /\ uses \in [Goroutine -> Runtime \cup {None}]
  /\ endless \in [Goroutine -> BOOLEAN]
  /\ timer \in [Goroutine -> {"off", "armed", "fired"}]
  /\ result \in [Goroutine -> {"none", "value", "error", "interrupted"}]
  /\ free \subseteq Runtime
  /\ flag \subseteq Runtime
  /\ callbacks \in [Runtime -> Nat]
  /\ calls \in 0 .. MaxCalls
  /\ expired \in [Runtime -> Nat]
  /\ interrupted \in [Runtime -> Nat]

\* A runtime is not safe for use by two goroutines: whoever has one has it
\* alone, and it is not in the pool meanwhile.
OneGoroutinePerRuntime ==
  \A g, h \in Goroutine :
    uses[g] # None => uses[g] \notin free /\ (uses[h] = uses[g] => h = g)

\* Who holds a runtime where, and when a timer is armed.
Held ==
  \A g \in Goroutine :
    /\ pc[g] \in {"got", "run", "stop"} => uses[g] # None
    /\ timer[g] = "armed" => pc[g] \in {"run", "stop"}

\* A deadline that is over stops one call of its runtime at most, its own or a
\* later one that the late callback hits: clearing the flag on return keeps a
\* runtime from failing every call after it.
DeadlineStopsOneCall == \A r \in Runtime : interrupted[r] <= expired[r]

\* The flag of a runtime has stopped a call already that has yet to clear it.
Spent(r) ==
  \E g \in Goroutine :
    uses[g] = r /\ pc[g] \in {"stop", "clear"} /\ result[g] = "interrupted"

\* What makes it inductive: the callbacks that have yet to interrupt the
\* runtime, and a flag that has stopped nothing yet, may still stop a call each.
MayStop(r) == IF r \in flag /\ ~Spent(r) THEN 1 ELSE 0

Counted(r) == interrupted[r] + callbacks[r] + MayStop(r) <= expired[r]

DeadlinesCounted == \A r \in Runtime : Counted(r)

\* A call is stopped by its own deadline only.
OnlyOwnDeadline ==
  \A g \in Goroutine :
    pc[g] = "stop" /\ result[g] = "interrupted" => timer[g] = "fired"

\* Every call returns, though the function it calls never would.
CallsReturn ==
  \A g \in Goroutine : pc[g] # "idle" ~> pc[g] = "idle"
=============================================================================
