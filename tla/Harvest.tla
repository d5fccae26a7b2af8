------------------------------ MODULE Harvest ------------------------------
(***************************************************************************)
(* The coordinator (internal/harvest/coordinator.go) keeping one kind of    *)
(* one source materialized in the target catalog, with the state database   *)
(* it keeps its ledger in and the commands that drive it (cmd/hronir).      *)
(*                                                                         *)
(* Every call that leaves the process - a page or subject fetch, a target   *)
(* GET, PUT or DELETE, an SQL statement - is a step of its own, since any   *)
(* goroutine may run, and the process may die, between two of them.         *)
(*                                                                         *)
(* The main goroutine (Loop) runs one task of the command at a time; every  *)
(* MQTT message runs in a goroutine of its own (Handler).  A worker's       *)
(* record holds what the goroutine has in hand:                             *)
(*                                                                         *)
(*   requeue -> lock -> fetch -> read | delete | done | failed      events  *)
(*   read -> saveSame | put | saveFailed          put -> saveNew            *)
(*   delete -> mark                               done, failed -> idle      *)
(***************************************************************************)
EXTENDS Ledger, FiniteSets, Sequences

CONSTANTS
  Resource,      \* resource ids of the kind
  Profile,       \* mapping configurations the command may be started with
  Mapping,       \* mapper.Map: the record of a content, None when it fails
  Handler,       \* goroutines MQTT messages run in
  Loop,          \* the main goroutine
  Event,         \* CloudEvent ids
  Subject,       \* the resource an event is about
  Concurrency,   \* Runtime.Concurrency
  Commands,      \* the hronir commands an operator uses
  Limit          \* how often each kind of disturbance may happen

Worker == Handler \cup {Loop}

Disturbance == {"change", "drift", "crash", "fault", "storeFault"}

ASSUME LoopAssumption == Loop \notin Handler
ASSUME NobodyAssumption ==
  None \notin Worker \cup Resource \cup Event
ASSUME MappingAssumption ==
  Mapping \in [Profile -> [Version -> Record \cup {None}]]
ASSUME SubjectAssumption == Subject \in [Event -> Resource]
ASSUME ConcurrencyAssumption == Concurrency \in Nat \ {0}
ASSUME CommandsAssumption ==
  Commands \subseteq {"run", "sync", "remap", "retry", "prune"}
ASSUME LimitAssumption == Limit \in [Disturbance -> Nat]

VARIABLES
  source,     \* what the source serves for each resource, None: 404
  target,     \* the record in the target catalog, None: none
  rows,       \* table resources
  events,     \* status column of table events, "none": no row
  cmd,        \* the running hronir command, "down": no process
  profile,    \* the mapping the command was started with
  plan,       \* tasks the command still has to start, in order
  task,       \* what the main goroutine is doing
  batch,      \* the items the task still has to handle
  unlisted,   \* resources the crawl has not asked the source for
  lock,       \* holder of the source's mutex
  work,       \* what each worker has in hand
  recon,      \* ReconcileTarget's goroutines, one for each row
  cancelled,  \* their errgroup's context is cancelled
  budget,     \* disturbances left
  suspect,    \* history: a call on the resource went unacknowledged,
              \* overlapped another one, or was undone in the target
  reported,   \* history: resources the current crawl has listed
  absent,     \* history: complete crawls in a row that did not list it
  swallowed   \* history: the loss of its failure row was ignored

store == <<rows, events>>
command == <<cmd, profile, plan, task>>
process == <<command, batch, unlisted, lock>>
reconciler == <<recon, cancelled>>
outside == <<source, target>>
crawled == <<reported, absent, swallowed>>
history == <<suspect, crawled>>
vars == <<outside, store, process, work, reconciler, budget, history>>

-----------------------------------------------------------------------------
Tasks == {"crawl", "event", "recon", "retry", "prune"}

\* The tasks a command starts with; "run" then goes on for ever.
RunPlan == <<"crawl", "event">>
SyncPlan == <<"crawl">>
RemapPlan == <<"retry", "recon">>
RetryPlan == <<"retry">>
PrunePlan == <<"prune">>

PlanOf(c) ==
  CASE c = "run"   -> RunPlan
    [] c = "sync"  -> SyncPlan
    [] c = "remap" -> RemapPlan
    [] c = "retry" -> RetryPlan
    [] c = "prune" -> PrunePlan

\* mapper.Map: the record of a content under the profile in force, None if
\* it cannot be made.
Map(v) == Mapping[profile][v]

\* What a worker may be about to do with a resource in hand.
HandPc == {"read", "put", "saveSame", "saveNew", "saveFailed", "delete", "mark"}

WorkPc == HandPc \cup {"idle", "requeue", "lock", "fetch", "done", "failed"}

Work == [pc   : WorkPc,
         res  : Resource \cup {None},
         ver  : Version \cup {None},
         ev   : Event \cup {None},
         prev : Row]

Resting == [pc |-> "idle", res |-> None, ver |-> None, ev |-> None,
            prev |-> NoRow]

\* An item of a batch: a listed or cached content, a candidate, or an event.
Item == [res : Resource \cup {None},
         ver : Version \cup {None},
         ev  : Event \cup {None}]

ReconPc == {"idle", "wait", "put", "save"}

Recon == [pc : ReconPc, row : Row]

ReconIdle == [pc |-> "idle", row |-> NoRow]

InHand(w, r) == work[w].pc \in HandPc /\ work[w].res = r

\* It has looked at the row already and acts on what it saw.
Committed(w, r) == InHand(w, r) /\ work[w].pc # "read"

\* The target has the record of ReconcileTarget's Put, the row not yet.
Refreshing(r) == recon[r].pc = "save"

Spend(kind) ==
  /\ budget[kind] > 0
  /\ budget' = [budget EXCEPT ![kind] = @ - 1]

Become(w, pc) == work' = [work EXCEPT ![w].pc = pc]

Init ==
  /\ source \in [Resource -> Version \cup {None}]
  /\ target = [r \in Resource |-> None]
  /\ rows = [r \in Resource |-> NoRow]
  /\ events = [e \in Event |-> "none"]
  /\ cmd = "down"
  /\ profile \in Profile
  /\ plan = << >>
  /\ task = "idle"
  /\ batch = {}
  /\ unlisted = {}
  /\ lock = None
  /\ work = [w \in Worker |-> Resting]
  /\ recon = [r \in Resource |-> ReconIdle]
  /\ cancelled = FALSE
  /\ budget = Limit
  /\ suspect = {}
  /\ reported = {}
  /\ absent = [r \in Resource |-> 0]
  /\ swallowed = {}

-----------------------------------------------------------------------------
(* The source's and the target's other users.                              *)

SourceChanges(r, v) ==
  /\ v # source[r]
  /\ Spend("change")
  /\ source' = [source EXCEPT ![r] = v]
  /\ UNCHANGED <<target, store, process, work, reconciler, history>>

TargetDrifts(r, rec) ==
  /\ rec # target[r]
  /\ Spend("drift")
  /\ target' = [target EXCEPT ![r] = rec]
  /\ suspect' = suspect \cup {r}
  /\ UNCHANGED <<source, store, process, work, reconciler, crawled>>

-----------------------------------------------------------------------------
(* The process.                                                            *)

StartCommand(c, p) ==
  /\ cmd = "down"
  /\ cmd' = c
  /\ profile' = p
  /\ plan' = PlanOf(c)
  /\ UNCHANGED <<outside, store, task, batch, unlisted, lock, work,
                reconciler, budget, history>>

Exit ==
  /\ cmd \notin {"down", "run"}
  /\ task = "idle"
  /\ plan = << >>
  /\ cmd' = "down"
  /\ UNCHANGED <<outside, store, profile, plan, task, batch, unlisted, lock,
                work, reconciler, budget, history>>

\* Only the database survives.  A write whose second half is lost leaves the
\* ledger and the target apart.
Crash ==
  /\ cmd # "down"
  /\ Spend("crash")
  /\ cmd' = "down"
  /\ plan' = << >>
  /\ task' = "idle"
  /\ batch' = {}
  /\ unlisted' = {}
  /\ lock' = None
  /\ work' = [w \in Worker |-> Resting]
  /\ recon' = [r \in Resource |-> ReconIdle]
  /\ cancelled' = FALSE
  /\ suspect' = suspect \cup
       {r \in Resource :
          \/ Refreshing(r)
          \/ \E w \in Worker : /\ work[w].pc \in {"saveNew", "mark"}
                               /\ work[w].res = r}
  /\ UNCHANGED <<outside, store, profile, crawled>>

\* Mutant of Due: the daemon's reconcile ticker is forgotten.
DueNoReconcile(t) ==
  /\ cmd # "down"
  /\ task = "idle"
  /\ IF plan # << >> THEN t = Head(plan)
                     ELSE cmd = "run" /\ t \in {"crawl", "event"}

\* The tasks that may start now: the plan's next one, or after the plan
\* whichever ticker of Run's select fires.
Due(t) ==
  /\ cmd # "down"
  /\ task = "idle"
  /\ IF plan # << >> THEN t = Head(plan)
                     ELSE cmd = "run" /\ t \in {"crawl", "event", "recon"}

RestOfPlan == IF plan # << >> THEN Tail(plan) ELSE << >>

Start(t) ==
  /\ Due(t)
  /\ task' = t
  /\ plan' = RestOfPlan
  /\ UNCHANGED <<cmd, profile>>

\* The task returns.  "run" logs an error and goes on, the other commands
\* give up; syncSource's lock is released.
EndTask(ok) ==
  /\ task' = "idle"
  /\ plan' = IF ok \/ cmd = "run" THEN plan ELSE << >>
  /\ batch' = {}
  /\ unlisted' = {}
  /\ lock' = IF lock = Loop THEN None ELSE lock
  /\ UNCHANGED <<cmd, profile>>

\* The first statement of a task fails and nothing has been done.
TaskFailsAtStart(t) ==
  /\ Due(t)
  /\ Spend("storeFault")
  /\ plan' = IF cmd = "run" THEN RestOfPlan ELSE << >>
  /\ UNCHANGED <<outside, store, cmd, profile, task, batch, unlisted, lock,
                work, reconciler, history>>

-----------------------------------------------------------------------------
(* What every worker does with the resource it has in hand.                *)

\* markSeen: only the crawl says it has seen the resource.
Marks(w) == w = Loop /\ task = "crawl"

\* materialize, or the deletion of one record, returns to its caller.
Return(w, ok) ==
  IF w # Loop \/ task = "event"
  THEN /\ work' = [work EXCEPT ![w] = [Resting EXCEPT
                     !.pc = IF ok THEN "done" ELSE "failed",
                     !.ev = work[w].ev]]
       /\ UNCHANGED process
  ELSE /\ work' = [work EXCEPT ![w] = Resting]
       /\ IF ok THEN UNCHANGED process ELSE EndTask(FALSE)

\* materialize: store.Get, Map, and the choice of what to do.
Read(w) ==
  /\ work[w].pc = "read"
  /\ LET r    == work[w].res
         prev == rows[r]
         rec  == Map(work[w].ver)
     IN  /\ work' = [work EXCEPT
              ![w].prev = prev,
              ![w].pc = IF rec = None THEN "saveFailed"
                        ELSE IF UpToDate(prev, work[w].ver, rec)
                        THEN "saveSame" ELSE "put"]
         /\ suspect' = IF Refreshing(r) THEN suspect \cup {r} ELSE suspect
  /\ UNCHANGED <<outside, store, process, reconciler, budget, crawled>>

\* The target acknowledges the PUT.
Put(w) ==
  /\ work[w].pc = "put"
  /\ LET r == work[w].res
     IN  /\ target' = [target EXCEPT ![r] = Map(work[w].ver)]
         /\ suspect' = IF Refreshing(r) THEN suspect ELSE suspect \ {r}
  /\ Become(w, "saveNew")
  /\ UNCHANGED <<source, store, process, reconciler, budget, crawled>>

\* sink.Put gives up.  Its last request may have been applied all the same.
PutFails(w) ==
  /\ work[w].pc = "put"
  /\ Spend("fault")
  /\ LET r == work[w].res
     IN  \/ UNCHANGED <<target, suspect>>
         \/ /\ target' = [target EXCEPT ![r] = Map(work[w].ver)]
            /\ suspect' = suspect \cup {r}
  /\ Become(w, "saveFailed")
  /\ UNCHANGED <<source, store, process, reconciler, crawled>>

SavedRow(w) ==
  LET ver  == work[w].ver
      prev == work[w].prev
  IN  CASE work[w].pc = "saveSame"   -> SameRow(prev, Marks(w))
        [] work[w].pc = "saveNew"    ->
             NewRow(prev, ver, Map(ver), Marks(w))
        [] work[w].pc = "saveFailed" -> FailedRow(prev, ver, Marks(w))

Save(w) ==
  /\ work[w].pc \in {"saveSame", "saveNew", "saveFailed"}
  /\ rows' = [rows EXCEPT ![work[w].res] = SavedRow(w)]
  /\ swallowed' = IF w = Loop THEN swallowed \ {work[w].res} ELSE swallowed
  /\ Return(w, TRUE)
  /\ UNCHANGED <<outside, events, reconciler, budget, suspect, reported,
                absent>>

\* An error of store.Save is returned, except that of a failure row.
SaveFails(w) ==
  /\ work[w].pc \in {"saveSame", "saveNew", "saveFailed"}
  /\ Spend("storeFault")
  /\ LET r == work[w].res
     IN  /\ suspect' = IF work[w].pc = "saveNew" THEN suspect \cup {r}
                                                 ELSE suspect
         /\ swallowed' = IF work[w].pc = "saveFailed" /\ Marks(w)
                         THEN swallowed \cup {r} ELSE swallowed
  /\ Return(w, work[w].pc = "saveFailed")
  /\ UNCHANGED <<outside, store, reconciler, reported, absent>>

\* store.Get fails.
ReadFails(w) ==
  /\ work[w].pc = "read"
  /\ Spend("storeFault")
  /\ Return(w, FALSE)
  /\ UNCHANGED <<outside, store, reconciler, history>>

\* The target acknowledges the DELETE; a 404 counts as one.
Delete(w) ==
  /\ work[w].pc = "delete"
  /\ LET r == work[w].res
     IN  /\ target' = [target EXCEPT ![r] = None]
         /\ suspect' = IF Refreshing(r) THEN suspect ELSE suspect \ {r}
  /\ Become(w, "mark")
  /\ UNCHANGED <<source, store, process, reconciler, budget, crawled>>

DeleteFails(w) ==
  /\ work[w].pc = "delete"
  /\ Spend("fault")
  /\ LET r == work[w].res
     IN  \/ UNCHANGED <<target, suspect>>
         \/ /\ target' = [target EXCEPT ![r] = None]
            /\ suspect' = suspect \cup {r}
  /\ Return(w, FALSE)
  /\ UNCHANGED <<source, store, reconciler, crawled>>

\* store.MarkDeleted
Mark(w) ==
  /\ work[w].pc = "mark"
  /\ rows' = [rows EXCEPT ![work[w].res] = MarkedDeleted(@)]
  /\ Return(w, TRUE)
  /\ UNCHANGED <<outside, events, reconciler, budget, history>>

MarkFails(w) ==
  /\ work[w].pc = "mark"
  /\ Spend("storeFault")
  /\ suspect' = suspect \cup {work[w].res}
  /\ Return(w, FALSE)
  /\ UNCHANGED <<outside, store, reconciler, crawled>>

-----------------------------------------------------------------------------
(* Sync: the crawl of the kind, then its sweep.                            *)

\* syncSource locks the source, crawlKind begins a run.
StartCrawl ==
  /\ Start("crawl")
  /\ lock = None
  /\ lock' = Loop
  /\ rows' = [r \in Resource |-> Unseen(rows[r])]
  /\ unlisted' = Resource
  /\ reported' = {}
  /\ UNCHANGED <<outside, events, batch, work, reconciler, budget, suspect,
                absent, swallowed>>

\* A page of the collection arrives; the crawl materializes what it lists.
FetchPage(P) ==
  /\ task = "crawl"
  /\ work[Loop].pc = "idle"
  /\ batch = {}
  /\ LET listed == {r \in P : source[r] # None}
     IN  /\ batch' = {[res |-> r, ver |-> source[r], ev |-> None] :
                        r \in listed}
         /\ reported' = reported \cup listed
  /\ unlisted' = unlisted \ P
  /\ UNCHANGED <<outside, store, command, lock, work, reconciler, budget,
                suspect, absent, swallowed>>

\* A page fails, or its path is not offered (404): no sweep either way.
CrawlStops(skipped) ==
  /\ task = "crawl"
  /\ work[Loop].pc = "idle"
  /\ batch = {}
  /\ unlisted # {}
  /\ Spend("fault")
  /\ EndTask(skipped)
  /\ UNCHANGED <<outside, store, work, reconciler, history>>

\* Mutant of CrawlComplete: an unfinished crawl counts.
CrawlAnyhow ==
  /\ task = "crawl"
  /\ work[Loop].pc = "idle"
  /\ batch = {}

CrawlComplete ==
  /\ task = "crawl"
  /\ work[Loop].pc = "idle"
  /\ batch = {}
  /\ unlisted = {}

CountAbsence ==
  absent' = [r \in Resource |->
               IF r \in reported THEN 0
               ELSE IF r \notin unlisted /\ absent[r] < Threshold
               THEN absent[r] + 1
               ELSE absent[r]]

\* store.CandidatesForDeletion counts the misses and picks the candidates.
Sweep ==
  /\ CrawlComplete
  /\ rows' = [r \in Resource |-> MissCounted(rows[r])]
  /\ batch' = {[res |-> r, ver |-> None, ev |-> None] :
                 r \in {q \in Resource : IsCandidate(rows'[q])}}
  /\ task' = "sweep"
  /\ CountAbsence
  /\ UNCHANGED <<outside, events, cmd, profile, plan, unlisted, lock, work,
                reconciler, budget, suspect, reported, swallowed>>

\* Its UPDATE or its SELECT fails.
SweepFails ==
  /\ CrawlComplete
  /\ Spend("storeFault")
  /\ \/ UNCHANGED rows
     \/ rows' = [r \in Resource |-> MissCounted(rows[r])]
  /\ CountAbsence
  /\ EndTask(FALSE)
  /\ UNCHANGED <<outside, events, work, reconciler, suspect, reported,
                swallowed>>

-----------------------------------------------------------------------------
(* RetryFailures and Prune: rows selected once, handled one by one.        *)

StartRetryFailures ==
  /\ Start("retry")
  /\ batch' = {[res |-> r, ver |-> rows[r].version, ev |-> None] :
                 r \in {q \in Resource : IsFailed(rows[q])}}
  /\ UNCHANGED <<outside, store, unlisted, lock, work, reconciler, budget,
                history>>

StartPrune ==
  /\ Start("prune")
  /\ batch' = {[res |-> r, ver |-> None, ev |-> None] :
                 r \in {q \in Resource : IsActive(rows[q])}}
  /\ UNCHANGED <<outside, store, unlisted, lock, work, reconciler, budget,
                history>>

\* The main goroutine takes the next resource of its batch.
NextItem(i) ==
  /\ i \in batch
  /\ work[Loop].pc = "idle"
  /\ task \in {"crawl", "retry", "sweep", "prune"}
  /\ batch' = batch \ {i}
  /\ work' = [work EXCEPT ![Loop] = [Resting EXCEPT
                !.pc = IF task \in {"crawl", "retry"} THEN "read"
                                                      ELSE "delete",
                !.res = i.res,
                !.ver = i.ver]]
  /\ UNCHANGED <<outside, store, command, unlisted, lock, reconciler, budget,
                history>>

BatchDone ==
  /\ task \in {"retry", "sweep", "prune", "event"}
  /\ work[Loop].pc = "idle"
  /\ batch = {}
  /\ EndTask(TRUE)
  /\ UNCHANGED <<outside, store, work, reconciler, budget, history>>

-----------------------------------------------------------------------------
(* CloudEvents: HandleCloudEvent, called from MQTT and from RetryEvents.   *)

\* Mutant of Enqueue: a completed event is queued again, too.
EnqueueCompleted(w, e) ==
  \/ /\ events[e] = "none"
     /\ events' = [events EXCEPT ![e] = "queued"]
     /\ work' = [work EXCEPT ![w] = [Resting EXCEPT !.pc = "lock", !.ev = e]]
  \/ /\ events[e] # "none"
     /\ work' = [work EXCEPT ![w] = [Resting EXCEPT !.pc = "requeue",
                                                    !.ev = e]]
     /\ UNCHANGED events

\* EnqueueEvent's INSERT OR IGNORE and, for a known id, its SELECT.
Enqueue(w, e) ==
  \/ /\ events[e] = "none"
     /\ events' = [events EXCEPT ![e] = "queued"]
     /\ work' = [work EXCEPT ![w] = [Resting EXCEPT !.pc = "lock", !.ev = e]]
  \/ /\ events[e] \in {"queued", "failed"}
     /\ work' = [work EXCEPT ![w] = [Resting EXCEPT !.pc = "requeue",
                                                    !.ev = e]]
     /\ UNCHANGED events
  \/ /\ events[e] = "complete"
     /\ UNCHANGED <<events, work>>

\* A broker delivers a message, perhaps again.
DeliverEvent(h, e) ==
  /\ cmd = "run"
  /\ work[h].pc = "idle"
  /\ Enqueue(h, e)
  /\ UNCHANGED <<outside, rows, process, reconciler, budget, history>>

\* Mutant of StartRetryEvents: events a crash left queued are passed over.
StartRetryFailedEvents ==
  /\ Start("event")
  /\ batch' = {[res |-> None, ver |-> None, ev |-> e] :
                 e \in {x \in Event : events[x] = "failed"}}
  /\ UNCHANGED <<outside, store, unlisted, lock, work, reconciler, budget,
                history>>

StartRetryEvents ==
  /\ Start("event")
  /\ batch' = {[res |-> None, ver |-> None, ev |-> e] :
                 e \in {x \in Event : events[x] \in {"queued", "failed"}}}
  /\ UNCHANGED <<outside, store, unlisted, lock, work, reconciler, budget,
                history>>

NextEvent(i) ==
  /\ i \in batch
  /\ task = "event"
  /\ work[Loop].pc = "idle"
  /\ Enqueue(Loop, i.ev)
  /\ batch' = batch \ {i}
  /\ UNCHANGED <<outside, rows, command, unlisted, lock, reconciler, budget,
                history>>

\* EnqueueEvent's UPDATE, whatever became of the row since the SELECT.
Requeue(w) ==
  /\ work[w].pc = "requeue"
  /\ events' = [events EXCEPT ![work[w].ev] = "queued"]
  /\ Become(w, "lock")
  /\ UNCHANGED <<outside, rows, process, reconciler, budget, history>>

RequeueFails(w) ==
  /\ work[w].pc = "requeue"
  /\ Spend("storeFault")
  /\ work' = [work EXCEPT ![w] = Resting]
  /\ UNCHANGED <<outside, store, process, reconciler, history>>

\* Mutant of AcquireLock: the mutex does not exclude.
AcquireHeldLock(w) ==
  /\ work[w].pc = "lock"
  /\ lock' = w
  /\ Become(w, "fetch")
  /\ UNCHANGED <<outside, store, command, batch, unlisted, reconciler,
                budget, history>>

AcquireLock(w) ==
  /\ work[w].pc = "lock"
  /\ lock = None
  /\ lock' = w
  /\ Become(w, "fetch")
  /\ UNCHANGED <<outside, store, command, batch, unlisted, reconciler,
                budget, history>>

\* GetSubject finds the resource, or a 404 and GetByURL decide.
FetchSubject(w) ==
  /\ work[w].pc = "fetch"
  /\ LET r    == Subject[work[w].ev]
         gone == source[r] = None
     IN  /\ work' = [work EXCEPT ![w] =
              IF gone /\ ~Found(rows[r])
              THEN [@ EXCEPT !.pc = "done"]
              ELSE [@ EXCEPT !.pc = IF gone THEN "delete" ELSE "read",
                             !.res = r,
                             !.ver = source[r]]]
         /\ suspect' = IF gone /\ Found(rows[r]) /\ Refreshing(r)
                       THEN suspect \cup {r} ELSE suspect
  /\ UNCHANGED <<outside, store, process, reconciler, budget, crawled>>

FetchFails(w) ==
  /\ work[w].pc = "fetch"
  /\ Spend("fault")
  /\ Become(w, "failed")
  /\ UNCHANGED <<outside, store, process, reconciler, history>>

\* CompleteEvent, whose own error is ignored, and the deferred unlock.
Complete(w) ==
  /\ work[w].pc \in {"done", "failed"}
  /\ \/ /\ events' = [events EXCEPT ![work[w].ev] =
                        IF work[w].pc = "done" THEN "complete" ELSE "failed"]
        /\ UNCHANGED budget
     \/ /\ Spend("storeFault")
        /\ UNCHANGED events
  /\ lock' = None
  /\ work' = [work EXCEPT ![w] = Resting]
  /\ UNCHANGED <<outside, rows, command, batch, unlisted, reconciler, history>>

-----------------------------------------------------------------------------
(* ReconcileTarget: a goroutine for each row of one snapshot, no lock.     *)

StartReconcile ==
  /\ Start("recon")
  /\ recon' = [r \in Resource |->
                 IF IsActive(rows[r]) THEN [pc |-> "wait", row |-> rows[r]]
                                      ELSE ReconIdle]
  /\ cancelled' = FALSE
  /\ UNCHANGED <<outside, store, batch, unlisted, lock, work, budget, history>>

ReconRecord(r) == Map(recon[r].row.version)

\* errgroup.SetLimit
SlotFree ==
  Cardinality({r \in Resource : recon[r].pc \in {"put", "save"}}) < Concurrency

\* Mutant of ReconGet: any record will do, its hash is not compared.
ReconGetAny(r) ==
  /\ recon[r].pc = "wait"
  /\ SlotFree
  /\ ~cancelled
  /\ ReconRecord(r) # None
  /\ recon' = [recon EXCEPT ![r] =
                 IF target[r] # None THEN ReconIdle
                                     ELSE [@ EXCEPT !.pc = "put"]]
  /\ UNCHANGED <<outside, store, process, work, cancelled, budget, history>>

\* Map, then sink.Get: nothing to do when the target has the record.
ReconGet(r) ==
  /\ recon[r].pc = "wait"
  /\ SlotFree
  /\ ~cancelled
  /\ ReconRecord(r) # None
  /\ recon' = [recon EXCEPT ![r] =
                 IF target[r] = ReconRecord(r) THEN ReconIdle
                                               ELSE [@ EXCEPT !.pc = "put"]]
  /\ UNCHANGED <<outside, store, process, work, cancelled, budget, history>>

ReconPut(r) ==
  /\ recon[r].pc = "put"
  /\ ~cancelled
  /\ target' = [target EXCEPT ![r] = ReconRecord(r)]
  /\ recon' = [recon EXCEPT ![r].pc = "save"]
  /\ suspect' = IF \E w \in Worker : Committed(w, r)
                THEN suspect \cup {r}
                ELSE suspect \ {r}
  /\ UNCHANGED <<source, store, process, work, cancelled, budget, crawled>>

ReconSave(r) ==
  /\ Refreshing(r)
  /\ ~cancelled
  /\ rows' = [rows EXCEPT ![r] = RefreshedRow(recon[r].row, ReconRecord(r))]
  /\ recon' = [recon EXCEPT ![r] = ReconIdle]
  /\ UNCHANGED <<outside, events, process, work, cancelled, budget, history>>

\* One goroutine's error cancels the context of all the others.
ReconFails(r) ==
  /\ \/ /\ recon[r].pc = "wait"
        /\ \/ cancelled /\ UNCHANGED budget
           \/ ReconRecord(r) = None /\ UNCHANGED budget
           \/ SlotFree /\ Spend("fault")
        /\ UNCHANGED <<target, suspect>>
     \/ /\ recon[r].pc = "put"
        /\ \/ cancelled /\ UNCHANGED budget
           \/ Spend("fault")
        /\ \/ UNCHANGED <<target, suspect>>
           \/ /\ target' = [target EXCEPT ![r] = ReconRecord(r)]
              /\ suspect' = suspect \cup {r}
     \/ /\ recon[r].pc = "save"
        /\ \/ cancelled /\ UNCHANGED budget
           \/ Spend("storeFault")
        /\ suspect' = suspect \cup {r}
        /\ UNCHANGED target
  /\ cancelled' = TRUE
  /\ recon' = [recon EXCEPT ![r] = ReconIdle]
  /\ UNCHANGED <<source, store, process, work, crawled>>

\* group.Wait
ReconDone ==
  /\ task = "recon"
  /\ \A r \in Resource : recon[r].pc = "idle"
  /\ EndTask(~cancelled)
  /\ cancelled' = FALSE
  /\ UNCHANGED <<outside, store, work, recon, budget, history>>

-----------------------------------------------------------------------------
WorkerStep(w) ==
  \/ Read(w) \/ ReadFails(w)
  \/ Put(w) \/ PutFails(w)
  \/ Save(w) \/ SaveFails(w)
  \/ Delete(w) \/ DeleteFails(w)
  \/ Mark(w) \/ MarkFails(w)
  \/ Requeue(w) \/ RequeueFails(w)
  \/ AcquireLock(w)
  \/ FetchSubject(w) \/ FetchFails(w)
  \/ Complete(w)

LoopStep ==
  \/ \E P \in SUBSET unlisted \ {{}} : FetchPage(P)
  \/ \E skipped \in BOOLEAN : CrawlStops(skipped)
  \/ Sweep \/ SweepFails
  \/ \E i \in batch : NextItem(i) \/ NextEvent(i)
  \/ BatchDone

ReconStep(r) ==
  ReconGet(r) \/ ReconPut(r) \/ ReconSave(r) \/ ReconFails(r)

Next ==
  \/ \E r \in Resource, v \in Version \cup {None} : SourceChanges(r, v)
  \/ \E r \in Resource, rec \in Record \cup {None} : TargetDrifts(r, rec)
  \/ \E c \in Commands, p \in Profile : StartCommand(c, p)
  \/ Exit
  \/ Crash
  \/ \E t \in Tasks : TaskFailsAtStart(t)
  \/ StartCrawl
  \/ StartRetryFailures
  \/ StartPrune
  \/ StartRetryEvents
  \/ StartReconcile
  \/ LoopStep
  \/ \E w \in Worker : WorkerStep(w)
  \/ \E h \in Handler, e \in Event : DeliverEvent(h, e)
  \/ \E r \in Resource : ReconStep(r)
  \/ ReconDone

Spec == Init /\ [][Next]_vars
-----------------------------------------------------------------------------
(* Fairness.  The process is restarted when it dies; the scheduler runs     *)
(* every goroutine; select picks among ready tickers at random and          *)
(* sync.Mutex hands itself to a waiter it has kept waiting, so neither      *)
(* passes over one of them for ever.  Nothing is assumed of the brokers,    *)
(* the source, the target or the operator.                                  *)

Fairness ==
  /\ WF_vars(\E p \in Profile : StartCommand("run", p))
  /\ SF_vars(StartCrawl)
  /\ SF_vars(StartRetryEvents)
  /\ SF_vars(StartReconcile)
  /\ WF_vars(LoopStep)
  /\ WF_vars(ReconDone)
  /\ \A w \in Worker : WF_vars(WorkerStep(w)) /\ SF_vars(AcquireLock(w))
  /\ \A r \in Resource : WF_vars(ReconStep(r))

FairSpec == Spec /\ Fairness

-----------------------------------------------------------------------------
(* Properties.                                                             *)

\* The type of the state.
TypeOK ==
  /\ source \in [Resource -> Version \cup {None}]
  /\ target \in [Resource -> Record \cup {None}]
  /\ rows \in [Resource -> Row]
  /\ events \in [Event -> {"none", "queued", "failed", "complete"}]
  /\ cmd \in Commands \cup {"down"}
  /\ profile \in Profile
  /\ plan \in Seq(Tasks)
  /\ task \in Tasks \cup {"idle", "sweep"}
  /\ batch \subseteq Item
  /\ unlisted \subseteq Resource
  /\ lock \in Worker \cup {None}
  /\ work \in [Worker -> Work]
  /\ recon \in [Resource -> Recon]
  /\ cancelled \in BOOLEAN
  /\ budget \in [Disturbance -> Nat]
  /\ suspect \subseteq Resource
  /\ reported \subseteq Resource
  /\ absent \in [Resource -> 0 .. Threshold]
  /\ swallowed \subseteq Resource

\* The ledger tells the truth about the catalog: but for a resource a write
\* of which went unacknowledged, was cut in two by a crash or raced another
\* one, or whose record somebody else changed, the target holds exactly the
\* record the row says - the last good one, after a mapping or a write
\* failed - and none for a resource without a row or with a deleted one.
\* While a goroutine is between the two halves of a write they may differ.
LedgerMirrorsCatalog ==
  \A r \in Resource \ suspect :
    \/ target[r] = Believed(rows[r])
    \/ Refreshing(r)
    \/ \E w \in Worker : InHand(w, r) /\ work[w].pc \in {"saveNew", "mark"}

\* A resource is in the hands of one worker at a time: what materialize read
\* from the ledger is still there when it saves (the source's mutex, and
\* commands without one that run alone).
OneWorkerPerResource ==
  \A r \in Resource : \A v, w \in Worker :
    InHand(v, r) /\ InHand(w, r) => v = w

\* The sweep deletes a resource only when as many complete crawls in a row
\* as the threshold asks for did not list it - unless the row that would
\* have said a crawl did list it was lost and the loss ignored.
SweepIsEarned ==
  \A r \in Resource :
    task = "sweep" /\ InHand(Loop, r) =>
      absent[r] = Threshold \/ r \in swallowed

\* The same without the excuse: performs mark/sweep only after a complete
\* crawl, with a threshold of complete misses.
SweepOnlyAfterMisses ==
  \A r \in Resource :
    task = "sweep" /\ InHand(Loop, r) => absent[r] = Threshold

\* EnqueueEvent returns false for an event that was completed: it is never
\* taken up again.
CompletedNeverRequeued ==
  [][\A e \in Event : events[e] = "complete" => events'[e] = "complete"]_vars

\* The event log's promise, kept: where each goroutine is with its event, as
\* EventLog tells it.  Serving is what the holder of the mutex does.
InLog(w) ==
  LET job   == work[w]
      stage ==
        IF job.pc \in {"requeue", "lock"} THEN "taken"
        ELSE IF job.pc = "idle" \/ job.ev = None \/ lock # w THEN "none"
        ELSE IF job.pc = "done" THEN "ok"
        ELSE IF job.pc = "failed" THEN "error"
        ELSE "serving"
  IN  [ev |-> IF stage = "none" THEN None ELSE job.ev, stage |-> stage]

Log == INSTANCE EventLog WITH
         Worker <- Worker, Event <- Event, None <- None,
         log <- events, hand <- [w \in Worker |-> InLog(w)]

\* Over crashes, duplicate deliveries, retries and failing statements the
\* events of Harvest are handled as EventLog promises: taken up only while not
\* complete, served one at a time, complete only once served.
EventsAsPromised == Log!Spec

\* Semantic no-ops are not written: no PUT is about to send the record that
\* the catalog has and that an active row has for the very same content.
UnchangedNotRewritten ==
  \A r \in Resource \ suspect : \A w \in Worker :
    InHand(w, r) /\ work[w].pc = "put" =>
      \/ target[r] # Map(work[w].ver)
      \/ ~IsActive(rows[r])
      \/ rows[r].version # work[w].ver

\* hronir remap reapplies the mapping to the cache: when its second task is
\* through without an error, the catalog has for every active row the record
\* the new profile makes of the cached content - those that had failed before
\* and were retried by the first task included.
RemapApplies ==
  /\ cmd = "remap"
  /\ task = "recon"
  /\ ~cancelled
  /\ \A r \in Resource : recon[r].pc = "idle"
  => \A r \in Resource \ suspect :
       IsActive(rows[r]) => target[r] = Map(rows[r].version)

Mapped(r) ==
  IF source[r] = None THEN None ELSE Map(source[r])

\* Whatever happened before, a resource the source keeps serving unchanged
\* and the profile can map ends up in the catalog as it is mapped now.
PresentConverges ==
  \A r \in Resource, rec \in Record :
    <>[](Mapped(r) = rec) => <>[](target[r] = rec)

\* An orphan: a record in the catalog that no live row stands for, so that
\* no later crawl or reconciliation looks at it.
Orphan(r) == r \in suspect /\ ~Live(rows[r])

\* A resource the source keeps not serving ends up out of the catalog,
\* unless a lost or raced write has left its record without a live row.
AbsentConverges ==
  \A r \in Resource :
    <>[](source[r] = None) => <>[](target[r] = None \/ Orphan(r))

\* An event in the log is completed in the end, over crashes and failures.
EventsComplete ==
  \A e \in Event :
    events[e] \in {"queued", "failed"} ~> events[e] = "complete"
=============================================================================
