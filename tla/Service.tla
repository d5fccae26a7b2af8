------------------------------ MODULE Service ------------------------------
(* Processes of the program over one state file: opening and closing the     *)
(* store, SIGTERM, the MQTT subscriptions and the goroutines they start, the *)
(* loop of Coordinator.Run, and Sync over several sources: a goroutine per   *)
(* source, at most Concurrency at a time, the mutex of each source, its      *)
(* kinds one after the other, the cancellation of the rest when one fails.   *)
(* What a crawl or an event does to the ledger and the catalog is the        *)
(* subject of Harvest; here it is work that succeeds or fails.               *)
EXTENDS Naturals, FiniteSets

CONSTANTS
  Process,      \* processes started over the same state file
  Daemon,       \* those started with the run command, the others with sync
  Source,       \* the configured sources
  Kind,         \* the resource kinds
  Disabled,     \* <<source, kind>> pairs whose mode is disabled
  Concurrency,  \* runtime.concurrency: sources crawled at a time
  Filters,      \* what a sync command asks for: sets of <<source, kind>> pairs
  MQTT,         \* sources whose MQTT is not disabled
  MaxFaults,    \* bound: failures, crashes and signals
  Nobody        \* not a process

ASSUME ServiceAssumption ==
  /\ Concurrency \in Nat \ {0} /\ MaxFaults \in Nat
  /\ Disabled \subseteq Source \X Kind /\ MQTT \subseteq Source
  /\ Daemon \subseteq Process /\ Nobody \notin Process
  /\ Filters \subseteq SUBSET (Source \X Kind)

VARIABLES
  flock,   \* the process that holds the lock on the state file
  proc,    \* the processes
  faults   \* failures so far

vars == <<flock, proc, faults>>

MainPc == {"down", "locked", "subscribing", "serving", "closing", "unsubscribed",
           "closed", "unlocked"}
RunPc == {"none", "check", "sync", "retry", "lock", "work", "reconcile", "idle", "over"}
CrawlPc == {"none", "queued", "lock", "kinds", "crawl", "done"}

CrawlState == [pc : CrawlPc, left : SUBSET Kind, failed : BOOLEAN]
NoCrawl == [pc |-> "none", left |-> {}, failed |-> FALSE]

Proc ==
  [main : MainPc,                  \* where the command is
   db : BOOLEAN,                   \* its database is open
   stop : BOOLEAN,                 \* its context is done
   pending : SUBSET MQTT,          \* sources subscribe has yet to connect
   clients : SUBSET MQTT,          \* sources whose MQTT client is alive
   subscribed : SUBSET MQTT,       \* those the command will close
   run : RunPc,                    \* Coordinator.Run, or Sync of the command
   todo : SUBSET Source,           \* events RetryEvents has yet to handle
   waits : SUBSET Source,          \* whose mutex it waits for or holds
   crawl : [Source -> CrawlState],      \* the goroutine of each source in Sync
   cancelled : BOOLEAN,            \* Sync's group context is cancelled
   asked : SUBSET (Source \X Kind),    \* what Sync has to crawl
   crawled : SUBSET (Source \X Kind),  \* what it has crawled completely
   result : {"none", "ok", "error"},   \* what it returned
   mutex : [Source -> {"free", "crawl", "handler", "run"}],
   handler : [Source -> {"none", "enqueue", "lock", "work"}]]

Down ==
  [main |-> "down", db |-> FALSE, stop |-> FALSE,
   pending |-> {}, clients |-> {}, subscribed |-> {}, run |-> "none", todo |-> {}, waits |-> {},
   crawl |-> [s \in Source |-> NoCrawl], cancelled |-> FALSE,
   asked |-> {}, crawled |-> {}, result |-> "none",
   mutex |-> [s \in Source |-> "free"], handler |-> [s \in Source |-> "none"]]

Init == flock = Nobody /\ proc = [p \in Process |-> Down] /\ faults = 0

Fault == faults < MaxFaults /\ faults' = faults + 1

(* A step of p alone.                                                        *)
Becomes(p, x) == proc' = [proc EXCEPT ![p] = x] /\ UNCHANGED flock
Steps(p, x) == Becomes(p, x) /\ UNCHANGED faults

----------------------------------------------------------------------------
(* Open takes the lock, or fails and leaves everything as it is.             *)
Lock(p) ==
  /\ proc[p].main = "down" /\ flock = Nobody
  /\ flock' = p
  /\ proc' = [proc EXCEPT ![p].main = "locked"]
  /\ UNCHANGED faults

\* Mutant of ToSubscribe: mqtt.enabled is not looked at.
ToSubscribeAll == Source

ToSubscribe == MQTT

(* sql.Open and migrate. The run command goes on to subscribe, the sync      *)
(* command, for the sources and kinds it is asked for, to check the target.  *)
OpenDB(p) ==
  /\ proc[p].main = "locked"
  /\ IF p \in Daemon
     THEN Steps(p, [proc[p] EXCEPT !.db = TRUE, !.main = "subscribing", !.pending = ToSubscribe])
     ELSE \E A \in Filters :
            Steps(p, [proc[p] EXCEPT !.db = TRUE, !.main = "serving", !.run = "check",
                                     !.asked = A \ Disabled])

(* migrate, mapping.New or sink.NewHTTP fails: the store is closed.          *)
OpenFails(p) ==
  /\ proc[p].main = "locked" /\ Fault
  /\ Becomes(p, [proc[p] EXCEPT !.main = "unsubscribed"])

(* events.Subscribe: messages arrive from now on.                            *)
Connect(p, s) ==
  /\ proc[p].main = "subscribing" /\ s \in proc[p].pending
  /\ Steps(p, [proc[p] EXCEPT !.pending = @ \ {s}, !.clients = @ \cup {s},
                              !.subscribed = @ \cup {s}])

(* It fails, or times out: then its client goes on to connect, and nothing   *)
(* will close it. Where MQTT is required the command returns, without        *)
(* closing the subscriptions it has.                                         *)
ConnectFails(p, s) ==
  /\ proc[p].main = "subscribing" /\ s \in proc[p].pending /\ Fault
  /\ \E leaked \in SUBSET {s} :
       \/ Becomes(p, [proc[p] EXCEPT !.pending = @ \ {s}, !.clients = @ \cup leaked])
       \/ Becomes(p, [proc[p] EXCEPT !.pending = {}, !.clients = @ \cup leaked,
                                     !.subscribed = {}, !.main = "closing"])

StartRun(p) ==
  /\ proc[p].main = "subscribing" /\ proc[p].pending = {}
  /\ Steps(p, [proc[p] EXCEPT !.main = "serving", !.run = "check"])

(* NotifyContext, in the run command only.                                   *)
Sigterm(p) ==
  /\ p \in Daemon /\ proc[p].main \in {"subscribing", "serving"}
  /\ ~proc[p].stop /\ Fault
  /\ Becomes(p, [proc[p] EXCEPT !.stop = TRUE])

(* The select of the run command, and the end of the sync command: Run has   *)
(* returned; or the HTTP server has failed, and Run has not.                 *)
MainReturns(p) ==
  /\ proc[p].main = "serving"
  /\ \/ proc[p].run = "over" /\ UNCHANGED faults
     \/ p \in Daemon /\ ~proc[p].stop /\ Fault
  /\ Becomes(p, [proc[p] EXCEPT !.main = "closing"])

(* The deferred calls, the last one first.                                   *)
Unsubscribe(p) ==
  /\ proc[p].main = "closing"
  /\ Steps(p, [proc[p] EXCEPT !.main = "unsubscribed", !.subscribed = {},
                              !.clients = @ \ proc[p].subscribed])

\* Mutant of CloseDB: Close gives up the lock first.
CloseDBLast(p) ==
  /\ proc[p].main = "unsubscribed"
  /\ flock' = Nobody
  /\ proc' = [proc EXCEPT ![p].main = "closed"]
  /\ UNCHANGED faults

CloseDB(p) ==
  /\ proc[p].main = "unsubscribed"
  /\ Steps(p, [proc[p] EXCEPT !.main = "closed", !.db = FALSE])

Unlock(p) ==
  /\ proc[p].main = "closed"
  /\ flock' = IF flock = p THEN Nobody ELSE flock
  /\ proc' = [proc EXCEPT ![p].main = "unlocked"]
  /\ UNCHANGED faults

(* The process is gone, and with it its goroutines; the kernel unlocks.      *)
Gone(p) ==
  /\ flock' = IF flock = p THEN Nobody ELSE flock
  /\ proc' = [proc EXCEPT ![p] = Down]

Exit(p) == proc[p].main = "unlocked" /\ Gone(p) /\ UNCHANGED faults

(* A crash, or a signal to a command that does not ask to be told.           *)
Crash(p) == proc[p].main # "down" /\ Gone(p) /\ Fault

----------------------------------------------------------------------------
(* A message: the callback starts a goroutine and returns. It has a context  *)
(* of its own, so only the end of the process stops it. One per source.      *)
Message(p, s) ==
  /\ s \in proc[p].clients /\ proc[p].handler[s] = "none"
  /\ Steps(p, [proc[p] EXCEPT !.handler[s] = "enqueue"])

(* EnqueueEvent: the event is new, or it was handled before, or the database *)
(* is closed.                                                                *)
Enqueue(p, s) ==
  /\ proc[p].handler[s] = "enqueue"
  /\ \/ proc[p].db /\ Steps(p, [proc[p] EXCEPT !.handler[s] = "lock"])
     \/ Steps(p, [proc[p] EXCEPT !.handler[s] = "none"])

\* Mutant of HandlerLocks: the mutex is not waited for.
HandlerBarges(p, s) ==
  /\ proc[p].handler[s] = "lock"
  /\ Steps(p, [proc[p] EXCEPT !.handler[s] = "work", !.mutex[s] = "handler"])

HandlerLocks(p, s) ==
  /\ proc[p].handler[s] = "lock" /\ proc[p].mutex[s] = "free"
  /\ Steps(p, [proc[p] EXCEPT !.handler[s] = "work", !.mutex[s] = "handler"])

\* Mutant of HandlerReturns: the mutex is not given back.
HandlerKeepsMutex(p, s) ==
  /\ proc[p].handler[s] = "work"
  /\ Steps(p, [proc[p] EXCEPT !.handler[s] = "none"])

HandlerReturns(p, s) ==
  /\ proc[p].handler[s] = "work"
  /\ Steps(p, [proc[p] EXCEPT !.handler[s] = "none", !.mutex[s] = "free"])

----------------------------------------------------------------------------
(* Sync. The group starts a goroutine per source, in whatever order here,    *)
(* when fewer than Concurrency of them run.                                  *)
Running(p) == {s \in Source : proc[p].crawl[s].pc \in {"lock", "kinds", "crawl"}}
Ended(p) == proc[p].stop \/ proc[p].cancelled

\* Mutant of StartSync: the context of the group that failed is used again.
StartSyncCancelled(p, A) ==
  [proc[p] EXCEPT
     !.run = "sync", !.asked = A, !.crawled = {}, !.result = "none",
     !.crawl = [s \in Source |->
       [NoCrawl EXCEPT !.pc = IF \E k \in Kind : <<s, k>> \in A THEN "queued" ELSE "none",
                       !.left = {k \in Kind : <<s, k>> \in A}]]]

StartSync(p, A) ==
  [proc[p] EXCEPT
     !.run = "sync", !.asked = A, !.crawled = {}, !.result = "none", !.cancelled = FALSE,
     !.crawl = [s \in Source |->
       [NoCrawl EXCEPT !.pc = IF \E k \in Kind : <<s, k>> \in A THEN "queued" ELSE "none",
                       !.left = {k \in Kind : <<s, k>> \in A}]]]

Everything == (Source \X Kind) \ Disabled

(* CheckTarget: without it neither command does anything.                    *)
CheckTarget(p) ==
  /\ proc[p].run = "check" /\ ~proc[p].stop
  /\ Steps(p, StartSync(p, IF p \in Daemon THEN Everything ELSE proc[p].asked))

CheckTargetFails(p) ==
  /\ proc[p].run = "check"
  /\ IF proc[p].stop THEN UNCHANGED faults ELSE Fault
  /\ Becomes(p, [proc[p] EXCEPT !.run = "over"])

StartSource(p, s) ==
  /\ proc[p].crawl[s].pc = "queued" /\ Cardinality(Running(p)) < Concurrency
  /\ Steps(p, [proc[p] EXCEPT !.crawl[s].pc = "lock"])

SourceLocks(p, s) ==
  /\ proc[p].crawl[s].pc = "lock" /\ proc[p].mutex[s] = "free"
  /\ Steps(p, [proc[p] EXCEPT !.crawl[s].pc = "kinds", !.mutex[s] = "crawl"])

(* source.New fails: none of the kinds is crawled.                           *)
NewFails(p, s) ==
  /\ proc[p].crawl[s].pc = "kinds"
  /\ ~proc[p].crawl[s].failed /\ ~\E k \in Kind : <<s, k>> \in proc[p].crawled
  /\ Fault
  /\ Becomes(p, [proc[p] EXCEPT !.crawl[s].left = {}, !.crawl[s].failed = TRUE])

(* crawlKind of the next kind: BeginRun needs the context and the database.  *)
BeginKind(p, s) ==
  /\ proc[p].crawl[s].pc = "kinds" /\ proc[p].crawl[s].left # {}
  /\ ~Ended(p) /\ proc[p].db
  /\ Steps(p, [proc[p] EXCEPT !.crawl[s].pc = "crawl"])

(* The crawl is complete and the sweep is over. It may be, although the      *)
(* context has ended in the meantime.                                        *)
KindCrawled(p, s, k) ==
  /\ proc[p].crawl[s].pc = "crawl" /\ k \in proc[p].crawl[s].left /\ proc[p].db
  /\ Steps(p, [proc[p] EXCEPT !.crawl[s].pc = "kinds", !.crawl[s].left = @ \ {k},
                              !.crawled = @ \cup {<<s, k>>}])

\* Mutant of KindFails: the error of one kind is only logged.
KindFailsUnheard(p, s, k) ==
  /\ proc[p].crawl[s].pc \in {"kinds", "crawl"} /\ k \in proc[p].crawl[s].left
  /\ Ended(p) \/ ~proc[p].db \/ proc[p].crawl[s].pc = "crawl"
  /\ IF Ended(p) \/ ~proc[p].db THEN UNCHANGED faults ELSE Fault
  /\ Becomes(p, [proc[p] EXCEPT !.crawl[s].pc = "kinds", !.crawl[s].left = @ \ {k}])

(* A statement, a request or a record fails the crawl of the kind; the next  *)
(* kind is tried all the same.                                               *)
KindFails(p, s, k) ==
  /\ proc[p].crawl[s].pc \in {"kinds", "crawl"} /\ k \in proc[p].crawl[s].left
  /\ IF Ended(p) \/ ~proc[p].db THEN UNCHANGED faults ELSE Fault
  /\ Becomes(p, [proc[p] EXCEPT !.crawl[s].pc = "kinds", !.crawl[s].left = @ \ {k},
                                !.crawl[s].failed = TRUE])

(* syncSource returns; an error cancels the group's context.                 *)
SourceReturns(p, s) ==
  /\ proc[p].crawl[s].pc = "kinds" /\ proc[p].crawl[s].left = {}
  /\ Steps(p, [proc[p] EXCEPT !.crawl[s].pc = "done", !.mutex[s] = "free",
                              !.cancelled = @ \/ proc[p].crawl[s].failed])

(* group.Wait. The daemon goes on with RetryEvents, whatever the result.     *)
SyncReturns(p) ==
  /\ proc[p].run = "sync"
  /\ \A s \in Source : proc[p].crawl[s].pc \in {"none", "done"}
  /\ \E events \in SUBSET (IF p \in Daemon THEN MQTT ELSE {}) :
       Steps(p, [proc[p] EXCEPT
         !.result = IF proc[p].cancelled THEN "error" ELSE "ok",
         !.run = IF p \in Daemon THEN "retry" ELSE "over",
         !.todo = events, !.crawl = Down.crawl])

----------------------------------------------------------------------------
(* RetryEvents handles what the log has, an event of each source here, on    *)
(* the goroutine of Run: once more enqueued, then under the mutex. Waiting   *)
(* for a mutex ends for no context.                                          *)
RetryEnqueues(p, s) ==
  /\ proc[p].run = "retry" /\ s \in proc[p].todo /\ ~proc[p].stop /\ proc[p].db
  /\ Steps(p, [proc[p] EXCEPT !.run = "lock", !.waits = {s}, !.todo = @ \ {s}])

RetryLocks(p, s) ==
  /\ proc[p].run = "lock" /\ s \in proc[p].waits /\ proc[p].mutex[s] = "free"
  /\ Steps(p, [proc[p] EXCEPT !.run = "work", !.mutex[s] = "run"])

RetryReturns(p, s) ==
  /\ proc[p].run = "work" /\ s \in proc[p].waits
  /\ Steps(p, [proc[p] EXCEPT !.run = "retry", !.mutex[s] = "free", !.waits = {}])

RetryEnds(p) ==
  /\ proc[p].run = "retry" /\ (proc[p].todo = {} \/ proc[p].stop \/ ~proc[p].db)
  /\ Steps(p, [proc[p] EXCEPT !.run = "idle", !.todo = {}])

ReconcileReturns(p) ==
  /\ proc[p].run = "reconcile"
  /\ Steps(p, [proc[p] EXCEPT !.run = "idle"])

(* The select of Run: one of the channels that are ready, at random.         *)
Poll(p) == proc[p].run = "idle" /\ Steps(p, StartSync(p, Everything))

Tick(p) ==
  /\ proc[p].run = "idle"
  /\ \/ Steps(p, [proc[p] EXCEPT !.run = "reconcile"])
     \/ \E events \in SUBSET MQTT :
          Steps(p, [proc[p] EXCEPT !.run = "retry", !.todo = events])

RunReturns(p) ==
  /\ proc[p].run = "idle" /\ proc[p].stop
  /\ Steps(p, [proc[p] EXCEPT !.run = "over"])

----------------------------------------------------------------------------
Command(p) ==
  \/ OpenDB(p) \/ StartRun(p) \/ MainReturns(p) \/ Unsubscribe(p) \/ CloseDB(p)
  \/ Unlock(p) \/ Exit(p) \/ \E s \in Source : Connect(p, s)

Looping(p) ==
  \/ CheckTarget(p) \/ CheckTargetFails(p) \/ SyncReturns(p)
  \/ RetryEnds(p) \/ ReconcileReturns(p) \/ RunReturns(p)
  \/ \E s \in Source : RetryEnqueues(p, s) \/ RetryReturns(p, s)

Crawling(p, s) ==
  \/ StartSource(p, s) \/ NewFails(p, s) \/ BeginKind(p, s) \/ SourceReturns(p, s)
  \/ \E k \in Kind : KindCrawled(p, s, k) \/ KindFails(p, s, k)

Handling(p, s) == Enqueue(p, s) \/ HandlerReturns(p, s)

Next ==
  \E p \in Process :
    \/ Lock(p)
    \/ OpenFails(p) \/ Sigterm(p) \/ Crash(p)
    \/ Command(p) \/ Looping(p) \/ Poll(p) \/ Tick(p)
    \/ \E s \in Source :
         \/ ConnectFails(p, s) \/ Message(p, s) \/ RetryLocks(p, s)
         \/ HandlerLocks(p, s) \/ SourceLocks(p, s)
         \/ Crawling(p, s) \/ Handling(p, s)

Spec == Init /\ [][Next]_vars

(* Calls return: every request and statement has a time limit. A sync.Mutex  *)
(* is not withheld for ever from who waits for it, select chooses at random  *)
(* among the channels that are ready, and a supervisor starts the daemon     *)
(* again, which gets the lock some time between two other commands.          *)
Waits(p) ==
  \/ \E s \in MQTT : RetryLocks(p, s)
  \/ \E s \in Source : SourceLocks(p, s)

Fairness ==
  /\ \A p \in Daemon :
       /\ WF_vars(Command(p)) /\ WF_vars(Looping(p))
       /\ WF_vars(\E s \in Source : Crawling(p, s))
       /\ WF_vars(\E s \in MQTT : Handling(p, s))
       /\ SF_vars(\E s \in MQTT : RetryLocks(p, s))
       /\ \A s \in Source : SF_vars(SourceLocks(p, s))
       /\ SF_vars(Poll(p)) /\ SF_vars(RunReturns(p)) /\ SF_vars(Lock(p))
  /\ \A p \in Process \ Daemon :
       WF_vars(Command(p) \/ Looping(p) \/ Waits(p) \/ \E s \in Source : Crawling(p, s))

FairSpec == Spec /\ Fairness

----------------------------------------------------------------------------
(* Types: among them, only sources whose MQTT is not disabled have a client. *)
TypeOK ==
  /\ flock \in Process \cup {Nobody}
  /\ proc \in [Process -> Proc]
  /\ faults \in 0..MaxFaults

(* A source is worked on by one goroutine of the process at a time: its      *)
(* crawl, an MQTT handler, or the retry of its events.                       *)
MutexHeldByWorker ==
  \A p \in Process, s \in Source :
    /\ (proc[p].crawl[s].pc \in {"kinds", "crawl"}) = (proc[p].mutex[s] = "crawl")
    /\ (proc[p].handler[s] = "work") = (proc[p].mutex[s] = "handler")
    /\ (proc[p].run = "work" /\ s \in proc[p].waits) = (proc[p].mutex[s] = "run")

Works(p) ==
  \/ proc[p].run = "reconcile"
  \/ \E s \in Source : proc[p].mutex[s] # "free"

(* An open database belongs to the owner of the lock, so that the ledger has *)
(* one writer. Its goroutines outlive it: two processes may be at work on    *)
(* the catalog, but only while one of them has given up the lock and has but *)
(* to exit.                                                                  *)
LedgerHasOneOwner ==
  /\ \A p \in Process : proc[p].db => flock = p
  /\ \A p, q \in Process :
       p # q /\ Works(p) /\ Works(q) => "unlocked" \in {proc[p].main, proc[q].main}

(* Sync reports success only if every source and kind it was asked for was   *)
(* crawled completely, although a kind that fails does not keep the others   *)
(* from being crawled, and a source that fails may or may not stop the rest. *)
SyncTellsTheTruth ==
  \A p \in Process :
    proc[p].result = "ok" => proc[p].crawled = proc[p].asked

(* A daemon that is told to stop ends, whatever its goroutines are doing.    *)
ShutdownEnds == \A p \in Process : proc[p].stop ~> proc[p].main = "down"

(* Once nothing fails any more, every source is crawled completely, all its  *)
(* kinds in one Sync, again and again: no source, message, event in the log  *)
(* or other command keeps it from its turn.                                  *)
Crawled(p, s) ==
  /\ proc[p].run = "sync" /\ \E k \in Kind : <<s, k>> \in proc[p].crawled
  /\ \A k \in Kind : <<s, k>> \in Everything => <<s, k>> \in proc[p].crawled

EverySourceCrawled == \A s \in Source : []<>(\E p \in Process : Crawled(p, s))

============================================================================
