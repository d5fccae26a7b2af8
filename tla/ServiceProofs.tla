--------------------------- MODULE ServiceProofs ---------------------------
(* Theorems about Service, for any number of processes, sources and kinds,   *)
(* whatever is disabled, filtered or bounded.                                *)
(*                                                                           *)
(* The inductive invariant says of each process, besides what its mutexes    *)
(* tell, that one without a database has done nothing yet, that the main     *)
(* loop waits for one mutex at a time and that no crawl outlives its Sync;   *)
(* and of the lock on the state file, which part of a command it covers.     *)
EXTENDS Service, TLAPS

(* What the type and the mutexes say, of the record x of one process.        *)
MutexHeld(x) ==
  \A s \in Source :
    /\ (x.crawl[s].pc \in {"kinds", "crawl"}) = (x.mutex[s] = "crawl")
    /\ (x.handler[s] = "work") = (x.mutex[s] = "handler")
    /\ (x.run = "work" /\ s \in x.waits) = (x.mutex[s] = "run")

(* A process without a database has done nothing yet.                        *)
Fresh(x) ==
  /\ x.run = "none" /\ x.result = "none" /\ ~x.db /\ x.clients = {}
  /\ \A s \in Source : x.handler[s] = "none"

(* Where a command holds the lock on the state file.                         *)
Owner == {"locked", "subscribing", "serving", "closing", "unsubscribed", "closed"}

Shape(x) ==
  /\ x.main \in {"down", "locked"} => Fresh(x)
  /\ x.db => x.main \in Owner \ {"locked", "closed"}
  /\ x.main = "subscribing" => x.run = "none"
  /\ x.run # "sync" => \A s \in Source : x.crawl[s].pc = "none"
  /\ \A s, t \in x.waits : s = t

(* What Sync was asked for is done, still to do, or in a source that failed; *)
(* and the failure of a source that is done is known.                        *)
SyncShape(x) ==
  /\ x.result = "ok" => x.run # "sync" /\ x.crawled = x.asked
  /\ x.run = "sync" =>
       /\ x.crawled \subseteq x.asked
       /\ \A s \in Source :
            /\ \A k \in Kind :
                 /\ k \in x.crawl[s].left => <<s, k>> \in x.asked
                 /\ <<s, k>> \in x.asked =>
                      \/ k \in x.crawl[s].left
                      \/ <<s, k>> \in x.crawled
                      \/ x.crawl[s].failed
            /\ x.crawl[s].pc \in {"none", "done"} => x.crawl[s].left = {}
            /\ x.crawl[s].failed =>
                 x.crawl[s].pc \in {"kinds", "crawl"} \/ x.cancelled

Good(x) == x \in Proc /\ MutexHeld(x) /\ Shape(x) /\ SyncShape(x)

OwnerHasLock == \A p \in Process : (flock = p) = (proc[p].main \in Owner)

Inv == TypeOK /\ OwnerHasLock /\ \A p \in Process : Good(proc[p])

----------------------------------------------------------------------------
(* A process that is not there.                                              *)
LEMMA DownGood == Good(Down)
<1>1. NoCrawl \in CrawlState
  BY DEF NoCrawl, CrawlState, CrawlPc
<1>2. Down \in Proc
  BY <1>1 DEF Down, Proc, MainPc, RunPc
<1>3. Down.main = "down"
  BY DEF Down
<1>4. Fresh(Down)
  BY DEF Fresh, Down
<1>5. MutexHeld(Down) /\ Shape(Down) /\ SyncShape(Down)
  BY <1>4 DEF MutexHeld, Shape, SyncShape, Down, NoCrawl
<1>6. QED
  BY <1>2, <1>5 DEF Good

(* The command: opening, subscribing, closing.                               *)
LEMMA CommandGood ==
  ASSUME TypeOK, NEW p \in Process, Good(proc[p]),
         \/ Lock(p) \/ OpenDB(p) \/ OpenFails(p) \/ StartRun(p) \/ Sigterm(p)
         \/ MainReturns(p) \/ Unsubscribe(p) \/ CloseDB(p) \/ Unlock(p)
         \/ \E s \in Source : Connect(p, s) \/ ConnectFails(p, s)
  PROVE  Good(proc'[p])
<1> DEFINE x == proc[p]
<1> DEFINE y == proc'[p]
<1>a. x \in Proc /\ MutexHeld(x) /\ Shape(x) /\ SyncShape(x)
  BY DEF Good, y
<1>1. CASE Lock(p) \/ OpenFails(p) \/ MainReturns(p) \/ Unlock(p)
  <2>1. PICK m \in MainPc :
           /\ y = [x EXCEPT !.main = m]
           /\ m = "locked" => x.main = "down"
           /\ m \notin {"down", "subscribing"}
           /\ x.db => m \in {"closing", "unsubscribed"}
    BY <1>a, <1>1, ServiceAssumption
    DEF Lock, OpenFails, MainReturns, Unlock, MainPc, Shape, Fresh, Owner,
        TypeOK, Steps, Becomes
  <2> HIDE DEF x, y
  <2>2. y \in Proc
    BY <1>a, <2>1 DEF Proc
  <2>3. MutexHeld(y)
    BY <1>a, <2>1 DEF MutexHeld, Proc
  <2>4. Shape(y)
    BY <1>a, <2>1 DEF Shape, Fresh, Owner, Proc
  <2>5. SyncShape(y)
    BY <1>a, <2>1 DEF SyncShape, Proc
  <2>6. QED
    BY <2>2, <2>3, <2>4, <2>5 DEF Good, y
<1>2. CASE OpenDB(p) /\ p \in Daemon
  <2>1. /\ x.main = "locked"
        /\ y = [x EXCEPT !.db = TRUE, !.main = "subscribing", !.pending = MQTT]
    BY <1>a, <1>2, ServiceAssumption
    DEF OpenDB, ToSubscribe, TypeOK, Steps, Becomes
  <2> HIDE DEF x, y
  <2>2. y \in Proc
    BY <1>a, <2>1 DEF Proc, MainPc
  <2>3. MutexHeld(y)
    BY <1>a, <2>1 DEF MutexHeld, Proc, Shape, Fresh
  <2>4. Shape(y)
    BY <1>a, <2>1 DEF Shape, Fresh, Owner, Proc
  <2>5. SyncShape(y)
    BY <1>a, <2>1 DEF SyncShape, Proc
  <2>6. QED
    BY <2>2, <2>3, <2>4, <2>5 DEF Good, y
<1>3. CASE OpenDB(p) /\ p \notin Daemon
  <2>1. PICK A \in SUBSET (Source \X Kind) :
           /\ x.main = "locked"
           /\ y = [x EXCEPT !.db = TRUE, !.main = "serving", !.run = "check",
                           !.asked = A]
    BY <1>a, <1>3, ServiceAssumption
    DEF OpenDB, TypeOK, Steps, Becomes
  <2> HIDE DEF x, y
  <2>2. y \in Proc
    BY <1>a, <2>1 DEF Proc, MainPc, RunPc
  <2>3. MutexHeld(y)
    BY <1>a, <2>1 DEF MutexHeld, Proc, Shape, Fresh
  <2>4. Shape(y)
    BY <1>a, <2>1 DEF Shape, Fresh, Owner, Proc, MainPc
  <2>5. SyncShape(y)
    BY <1>a, <2>1 DEF SyncShape, Proc, Shape, Fresh
  <2>6. QED
    BY <2>2, <2>3, <2>4, <2>5 DEF Good, y
<1>4. CASE \E s \in Source : Connect(p, s)
  <2>1. PICK s \in Source :
           /\ s \in x.pending
           /\ y = [x EXCEPT !.pending = @ \ {s}, !.clients = @ \cup {s},
                           !.subscribed = @ \cup {s}]
           /\ x.main = "subscribing"
    BY <1>a, <1>4, ServiceAssumption
    DEF Connect, TypeOK, Steps, Becomes
  <2> HIDE DEF x, y
  <2>2. y \in Proc
    BY <1>a, <2>1 DEF Proc
  <2>3. MutexHeld(y)
    BY <1>a, <2>1 DEF MutexHeld, Proc
  <2>4. Shape(y)
    BY <1>a, <2>1 DEF Shape, Fresh, Owner, Proc
  <2>5. SyncShape(y)
    BY <1>a, <2>1 DEF SyncShape, Proc
  <2>6. QED
    BY <2>2, <2>3, <2>4, <2>5 DEF Good, y
<1>5. ASSUME NEW s \in x.pending, NEW C \in SUBSET {s}, x.main = "subscribing",
             Becomes(p, [x EXCEPT !.pending = @ \ {s}, !.clients = @ \cup C])
      PROVE  Good(y)
  <2>1. y = [x EXCEPT !.pending = @ \ {s}, !.clients = @ \cup C]
        /\ s \in x.pending /\ x.main = "subscribing"
    BY <1>5 DEF TypeOK, Becomes
  <2> HIDE DEF x, y
  <2>2. y \in Proc
    BY <1>a, <2>1 DEF Proc
  <2>3. MutexHeld(y)
    BY <1>a, <2>1 DEF MutexHeld, Proc
  <2>4. Shape(y)
    BY <1>a, <2>1 DEF Shape, Fresh, Owner, Proc
  <2>5. SyncShape(y)
    BY <1>a, <2>1 DEF SyncShape, Proc
  <2>6. QED
    BY <2>2, <2>3, <2>4, <2>5 DEF Good, y
<1>6. ASSUME NEW s \in x.pending, NEW C \in SUBSET {s}, x.main = "subscribing",
             Becomes(p, [x EXCEPT !.pending = {}, !.clients = @ \cup C,
                                  !.subscribed = {}, !.main = "closing"])
      PROVE  Good(y)
  <2>1. y = [x EXCEPT !.pending = {}, !.clients = @ \cup C, !.subscribed = {},
                      !.main = "closing"]
        /\ s \in x.pending /\ x.main = "subscribing"
    BY <1>6 DEF TypeOK, Becomes
  <2> HIDE DEF x, y
  <2>2. y \in Proc
    <3>1. x.clients \cup C \in SUBSET MQTT /\ {} \in SUBSET MQTT
      BY <1>a, <2>1 DEF Proc
    <3>2. "closing" \in MainPc
      BY DEF MainPc
    <3>3. y = [x EXCEPT !.pending = {}, !.clients = x.clients \cup C,
                        !.subscribed = {}, !.main = "closing"]
      BY <2>1
    <3>4. QED
      BY <1>a, <3>1, <3>2, <3>3 DEF Proc
  <2>3. MutexHeld(y)
    BY <1>a, <2>1 DEF MutexHeld, Proc
  <2>4. Shape(y)
    BY <1>a, <2>1 DEF Shape, Fresh, Owner, Proc
  <2>5. SyncShape(y)
    BY <1>a, <2>1 DEF SyncShape, Proc
  <2>6. QED
    BY <2>2, <2>3, <2>4, <2>5 DEF Good, y
<1>7. CASE StartRun(p)
  <2>1. x.main = "subscribing" /\ y = [x EXCEPT !.main = "serving", !.run = "check"]
    BY <1>a, <1>7, ServiceAssumption
    DEF StartRun, TypeOK, Steps, Becomes
  <2> HIDE DEF x, y
  <2>2. y \in Proc
    BY <1>a, <2>1 DEF Proc, MainPc, RunPc
  <2>3. MutexHeld(y)
    BY <1>a, <2>1 DEF MutexHeld, Proc, Shape
  <2>4. Shape(y)
    BY <1>a, <2>1 DEF Shape, Fresh, Owner, Proc
  <2>5. SyncShape(y)
    BY <1>a, <2>1 DEF SyncShape, Proc, Shape
  <2>6. QED
    BY <2>2, <2>3, <2>4, <2>5 DEF Good, y
<1>8. CASE Sigterm(p)
  <2>1. y = [x EXCEPT !.stop = TRUE]
    BY <1>a, <1>8, ServiceAssumption
    DEF Sigterm, TypeOK, Steps, Becomes
  <2> HIDE DEF x, y
  <2>2. y \in Proc
    BY <1>a, <2>1 DEF Proc
  <2>3. MutexHeld(y)
    BY <1>a, <2>1 DEF MutexHeld, Proc
  <2>4. Shape(y)
    BY <1>a, <2>1 DEF Shape, Fresh, Owner, Proc
  <2>5. SyncShape(y)
    BY <1>a, <2>1 DEF SyncShape, Proc
  <2>6. QED
    BY <2>2, <2>3, <2>4, <2>5 DEF Good, y
<1>9. CASE Unsubscribe(p)
  <2>1. /\ x.main = "closing"
        /\ y = [x EXCEPT !.main = "unsubscribed", !.subscribed = {},
                        !.clients = @ \ x.subscribed]
    BY <1>a, <1>9, ServiceAssumption
    DEF Unsubscribe, TypeOK, Steps, Becomes
  <2> HIDE DEF x, y
  <2>2. y \in Proc
    BY <1>a, <2>1 DEF Proc, MainPc
  <2>3. MutexHeld(y)
    BY <1>a, <2>1 DEF MutexHeld, Proc
  <2>4. Shape(y)
    BY <1>a, <2>1 DEF Shape, Fresh, Owner, Proc
  <2>5. SyncShape(y)
    BY <1>a, <2>1 DEF SyncShape, Proc
  <2>6. QED
    BY <2>2, <2>3, <2>4, <2>5 DEF Good, y
<1>10. CASE CloseDB(p)
  <2>1. y = [x EXCEPT !.main = "closed", !.db = FALSE]
    BY <1>a, <1>10, ServiceAssumption
    DEF CloseDB, TypeOK, Steps, Becomes
  <2> HIDE DEF x, y
  <2>2. y \in Proc
    BY <1>a, <2>1 DEF Proc, MainPc
  <2>3. MutexHeld(y)
    BY <1>a, <2>1 DEF MutexHeld, Proc
  <2>4. Shape(y)
    BY <1>a, <2>1 DEF Shape, Fresh, Owner, Proc
  <2>5. SyncShape(y)
    BY <1>a, <2>1 DEF SyncShape, Proc
  <2>6. QED
    BY <2>2, <2>3, <2>4, <2>5 DEF Good, y
<1>11. ASSUME NEW s \in Source, ConnectFails(p, s)
       PROVE  Good(y)
  BY <1>5, <1>6, <1>11 DEF ConnectFails
<1>12. QED
  BY <1>1, <1>2, <1>3, <1>4, <1>7, <1>8, <1>9, <1>10, <1>11

(* The goroutine of a message.                                               *)
LEMMA HandlerGood ==
  ASSUME TypeOK, NEW p \in Process, Good(proc[p]), NEW s \in Source,
         \/ Message(p, s) \/ Enqueue(p, s) \/ HandlerLocks(p, s)
         \/ HandlerReturns(p, s)
  PROVE  Good(proc'[p])
<1> DEFINE x == proc[p]
<1> DEFINE y == proc'[p]
<1>a. x \in Proc /\ MutexHeld(x) /\ Shape(x) /\ SyncShape(x)
  BY DEF Good, y
<1>1. CASE Message(p, s) \/ Enqueue(p, s)
  <2>1. PICK h \in {"none", "enqueue", "lock"} :
           /\ y = [x EXCEPT !.handler[s] = h] /\ x.handler[s] # "work"
           /\ x.clients # {} \/ x.handler[s] # "none"
    BY <1>a, <1>1, ServiceAssumption
    DEF Message, Enqueue, TypeOK, Steps, Becomes
  <2> HIDE DEF x, y
  <2>2. y \in Proc
    BY <1>a, <2>1 DEF Proc
  <2>3. MutexHeld(y)
    BY <1>a, <2>1 DEF MutexHeld, Proc
  <2>4. Shape(y)
    BY <1>a, <2>1 DEF Shape, Fresh, Owner, Proc
  <2>5. SyncShape(y)
    BY <1>a, <2>1 DEF SyncShape, Proc
  <2>6. QED
    BY <2>2, <2>3, <2>4, <2>5 DEF Good, y
<1>2. CASE HandlerLocks(p, s) \/ HandlerReturns(p, s)
  <2>1. PICK h \in {"work", "none"}, m \in {"handler", "free"} :
           /\ y = [x EXCEPT !.handler[s] = h, !.mutex[s] = m]
           /\ x.handler[s] # "none" /\ (h = "work") = (m = "handler")
           /\ x.mutex[s] \in {"free", "handler"}
    BY <1>a, <1>2, ServiceAssumption
    DEF HandlerLocks, HandlerReturns, MutexHeld, TypeOK, Steps, Becomes
  <2> HIDE DEF x, y
  <2>2. y \in Proc
    BY <1>a, <2>1 DEF Proc
  <2>3. MutexHeld(y)
    BY <1>a, <2>1 DEF MutexHeld, Proc
  <2>4. Shape(y)
    BY <1>a, <2>1 DEF Shape, Fresh, Owner, Proc
  <2>5. SyncShape(y)
    BY <1>a, <2>1 DEF SyncShape, Proc
  <2>6. QED
    BY <2>2, <2>3, <2>4, <2>5 DEF Good, y
<1>3. QED
  BY <1>1, <1>2

(* Coordinator.Run between its calls of Sync.                                *)
LEMMA LoopGood ==
  ASSUME TypeOK, NEW p \in Process, Good(proc[p]),
         \/ CheckTargetFails(p) \/ RetryEnds(p) \/ ReconcileReturns(p)
         \/ Tick(p) \/ RunReturns(p)
         \/ \E s \in Source :
              RetryEnqueues(p, s) \/ RetryLocks(p, s) \/ RetryReturns(p, s)
  PROVE  Good(proc'[p])
<1> DEFINE x == proc[p]
<1> DEFINE y == proc'[p]
<1>a. x \in Proc /\ MutexHeld(x) /\ Shape(x) /\ SyncShape(x)
  BY DEF Good, y
<1>1. CASE CheckTargetFails(p) \/ ReconcileReturns(p) \/ RunReturns(p)
  <2>1. PICK r \in {"idle", "over"} :
           /\ y = [x EXCEPT !.run = r]
           /\ x.run \in {"check", "idle", "reconcile"}
    BY <1>a, <1>1, ServiceAssumption
    DEF CheckTargetFails, ReconcileReturns, RunReturns, TypeOK, Steps, Becomes
  <2> HIDE DEF x, y
  <2>2. y \in Proc
    BY <1>a, <2>1 DEF Proc, RunPc
  <2>3. MutexHeld(y)
    BY <1>a, <2>1 DEF MutexHeld, Proc
  <2>4. Shape(y)
    BY <1>a, <2>1 DEF Shape, Fresh, Owner, Proc
  <2>5. SyncShape(y)
    BY <1>a, <2>1 DEF SyncShape, Proc
  <2>6. QED
    BY <2>2, <2>3, <2>4, <2>5 DEF Good, y
<1>2. CASE RetryEnds(p)
  <2>1. /\ x.run = "retry"
        /\ y = [x EXCEPT !.run = "idle", !.todo = {}]
    BY <1>a, <1>2, ServiceAssumption
    DEF RetryEnds, TypeOK, Steps, Becomes
  <2> HIDE DEF x, y
  <2>2. y \in Proc
    BY <1>a, <2>1 DEF Proc, RunPc
  <2>3. MutexHeld(y)
    BY <1>a, <2>1 DEF MutexHeld, Proc
  <2>4. Shape(y)
    BY <1>a, <2>1 DEF Shape, Fresh, Owner, Proc
  <2>5. SyncShape(y)
    BY <1>a, <2>1 DEF SyncShape, Proc
  <2>6. QED
    BY <2>2, <2>3, <2>4, <2>5 DEF Good, y
<1>3. ASSUME x.run = "idle", Becomes(p, [x EXCEPT !.run = "reconcile"])
      PROVE  Good(y)
  <2>1. x.run = "idle" /\ y = [x EXCEPT !.run = "reconcile"]
    BY <1>3 DEF TypeOK, Becomes
  <2> HIDE DEF x, y
  <2>2. y \in Proc
    BY <1>a, <2>1 DEF Proc, RunPc
  <2>3. MutexHeld(y)
    BY <1>a, <2>1 DEF MutexHeld, Proc
  <2>4. Shape(y)
    BY <1>a, <2>1 DEF Shape, Fresh, Owner, Proc
  <2>5. SyncShape(y)
    BY <1>a, <2>1 DEF SyncShape, Proc
  <2>6. QED
    BY <2>2, <2>3, <2>4, <2>5 DEF Good, y
<1>4. ASSUME x.run = "idle", NEW T \in SUBSET MQTT,
             Becomes(p, [x EXCEPT !.run = "retry", !.todo = T])
      PROVE  Good(y)
  <2>1. x.run = "idle" /\ y = [x EXCEPT !.run = "retry", !.todo = T]
        /\ T \in SUBSET Source
    BY <1>a, <1>4, ServiceAssumption
    DEF TypeOK, Becomes
  <2> HIDE DEF x, y
  <2>2. y \in Proc
    BY <1>a, <2>1 DEF Proc, RunPc
  <2>3. MutexHeld(y)
    BY <1>a, <2>1 DEF MutexHeld, Proc
  <2>4. Shape(y)
    BY <1>a, <2>1 DEF Shape, Fresh, Owner, Proc
  <2>5. SyncShape(y)
    BY <1>a, <2>1 DEF SyncShape, Proc
  <2>6. QED
    BY <2>2, <2>3, <2>4, <2>5 DEF Good, y
<1>5. CASE \E s \in Source : RetryEnqueues(p, s)
  <2>1. PICK s \in Source :
           /\ x.run = "retry"
           /\ y = [x EXCEPT !.run = "lock", !.waits = {s}, !.todo = @ \ {s}]
    BY <1>a, <1>5, ServiceAssumption
    DEF RetryEnqueues, TypeOK, Steps, Becomes
  <2> HIDE DEF x, y
  <2>2. y \in Proc
    BY <1>a, <2>1 DEF Proc, RunPc
  <2>3. MutexHeld(y)
    BY <1>a, <2>1 DEF MutexHeld, Proc
  <2>4. Shape(y)
    BY <1>a, <2>1 DEF Shape, Fresh, Owner, Proc
  <2>5. SyncShape(y)
    BY <1>a, <2>1 DEF SyncShape, Proc
  <2>6. QED
    BY <2>2, <2>3, <2>4, <2>5 DEF Good, y
<1>6. CASE \E s \in Source : RetryLocks(p, s)
  <2>1. PICK s \in Source :
           /\ x.run = "lock" /\ s \in x.waits /\ x.mutex[s] = "free"
           /\ y = [x EXCEPT !.run = "work", !.mutex[s] = "run"]
    BY <1>a, <1>6, ServiceAssumption
    DEF RetryLocks, TypeOK, Steps, Becomes
  <2> HIDE DEF x, y
  <2>2. y \in Proc
    BY <1>a, <2>1 DEF Proc, RunPc
  <2>3. MutexHeld(y)
    BY <1>a, <2>1 DEF MutexHeld, Proc, Shape
  <2>4. Shape(y)
    BY <1>a, <2>1 DEF Shape, Fresh, Owner, Proc
  <2>5. SyncShape(y)
    BY <1>a, <2>1 DEF SyncShape, Proc
  <2>6. QED
    BY <2>2, <2>3, <2>4, <2>5 DEF Good, y
<1>7. CASE \E s \in Source : RetryReturns(p, s)
  <2>1. PICK s \in Source :
           /\ x.run = "work" /\ s \in x.waits
           /\ y = [x EXCEPT !.run = "retry", !.mutex[s] = "free", !.waits = {}]
    BY <1>a, <1>7, ServiceAssumption
    DEF RetryReturns, TypeOK, Steps, Becomes
  <2> HIDE DEF x, y
  <2>2. y \in Proc
    BY <1>a, <2>1 DEF Proc, RunPc
  <2>3. MutexHeld(y)
    BY <1>a, <2>1 DEF MutexHeld, Proc, Shape
  <2>4. Shape(y)
    BY <1>a, <2>1 DEF Shape, Fresh, Owner, Proc
  <2>5. SyncShape(y)
    BY <1>a, <2>1 DEF SyncShape, Proc
  <2>6. QED
    BY <2>2, <2>3, <2>4, <2>5 DEF Good, y
<1>8. Tick(p) => Good(y)
  BY <1>3, <1>4 DEF Tick, Steps
<1>9. QED
  BY <1>1, <1>2, <1>5, <1>6, <1>7, <1>8

(* The goroutine of a source in Sync: it holds the mutex of its source from  *)
(* the first kind to the last, and forgets no kind and no failure.           *)
LEMMA CrawlGood ==
  ASSUME TypeOK, NEW p \in Process, Good(proc[p]), NEW s \in Source,
         Crawling(p, s) \/ SourceLocks(p, s)
  PROVE  Good(proc'[p])
<1> DEFINE x == proc[p]
<1> DEFINE y == proc'[p]
<1>a. x \in Proc /\ MutexHeld(x) /\ Shape(x) /\ SyncShape(x)
  BY DEF Good
<1>1. CASE StartSource(p, s)
  <2> DEFINE C == [x.crawl EXCEPT ![s].pc = "lock"]
  <2>1. x.run = "sync" /\ x.crawl[s].pc = "queued"
    BY <1>a, <1>1 DEF StartSource, MutexHeld, Shape
  <2>2. y = [x EXCEPT !.crawl = C]
    BY <1>1 DEF StartSource, TypeOK, Steps, Becomes
  <2>3. C \in [Source -> CrawlState]
    BY <1>a, <2>1 DEF Proc, CrawlState, CrawlPc
  <2> HIDE DEF x, y
  <2>4. y \in Proc
    BY <1>a, <2>1, <2>2, <2>3 DEF Proc
  <2>5. MutexHeld(y)
    BY <1>a, <2>1, <2>2 DEF MutexHeld, Proc, CrawlState
  <2>6. Shape(y)
    BY <1>a, <2>1, <2>2 DEF Shape, Fresh, Owner, Proc, CrawlState
  <2>7. SyncShape(y)
    BY <1>a, <2>1, <2>2 DEF SyncShape, Proc, CrawlState
  <2>8. QED
    BY <2>4, <2>5, <2>6, <2>7 DEF Good, y
<1>2. CASE SourceLocks(p, s)
  <2> DEFINE C == [x.crawl EXCEPT ![s].pc = "kinds"]
  <2>1. x.run = "sync" /\ x.crawl[s].pc = "lock" /\ x.mutex[s] = "free"
    BY <1>a, <1>2 DEF SourceLocks, MutexHeld, Shape
  <2>2. y = [x EXCEPT !.crawl = C, !.mutex[s] = "crawl"]
    BY <1>2 DEF SourceLocks, TypeOK, Steps, Becomes
  <2>3. C \in [Source -> CrawlState]
    BY <1>a, <2>1 DEF Proc, CrawlState, CrawlPc
  <2> HIDE DEF x, y
  <2>4. y \in Proc
    BY <1>a, <2>1, <2>2, <2>3 DEF Proc
  <2>5. MutexHeld(y)
    BY <1>a, <2>1, <2>2 DEF MutexHeld, Proc, CrawlState
  <2>6. Shape(y)
    BY <1>a, <2>1, <2>2 DEF Shape, Fresh, Owner, Proc, CrawlState
  <2>7. SyncShape(y)
    BY <1>a, <2>1, <2>2 DEF SyncShape, Proc, CrawlState
  <2>8. QED
    BY <2>4, <2>5, <2>6, <2>7 DEF Good, y
<1>3. CASE NewFails(p, s)
  <2> DEFINE C == [x.crawl EXCEPT ![s].left = {}, ![s].failed = TRUE]
  <2>1. x.run = "sync" /\ x.crawl[s].pc = "kinds"
    BY <1>a, <1>3 DEF NewFails, MutexHeld, Shape
  <2>2. y = [x EXCEPT !.crawl = C]
    BY <1>3 DEF NewFails, TypeOK, Steps, Becomes
  <2>3. C \in [Source -> CrawlState]
    <3>1. x.crawl[s] \in CrawlState /\ x.crawl \in [Source -> CrawlState]
      BY <1>a DEF Proc
    <3>2. [x.crawl[s] EXCEPT !.left = {}, !.failed = TRUE] \in CrawlState
      BY <3>1 DEF CrawlState, CrawlPc
    <3>3. QED
      BY <3>1, <3>2
  <2> HIDE DEF x, y
  <2>4. y \in Proc
    BY <1>a, <2>1, <2>2, <2>3 DEF Proc
  <2>5. MutexHeld(y)
    BY <1>a, <2>1, <2>2 DEF MutexHeld, Proc, CrawlState
  <2>6. Shape(y)
    BY <1>a, <2>1, <2>2 DEF Shape, Fresh, Owner, Proc, CrawlState
  <2>7. SyncShape(y)
    BY <1>a, <2>1, <2>2 DEF SyncShape, Proc, CrawlState
  <2>8. QED
    BY <2>4, <2>5, <2>6, <2>7 DEF Good, y
<1>4. CASE BeginKind(p, s)
  <2> DEFINE C == [x.crawl EXCEPT ![s].pc = "crawl"]
  <2>1. x.run = "sync" /\ x.crawl[s].pc = "kinds"
    BY <1>a, <1>4 DEF BeginKind, MutexHeld, Shape
  <2>2. y = [x EXCEPT !.crawl = C]
    BY <1>4 DEF BeginKind, TypeOK, Steps, Becomes
  <2>3. C \in [Source -> CrawlState]
    BY <1>a, <2>1 DEF Proc, CrawlState, CrawlPc
  <2> HIDE DEF x, y
  <2>4. y \in Proc
    BY <1>a, <2>1, <2>2, <2>3 DEF Proc
  <2>5. MutexHeld(y)
    BY <1>a, <2>1, <2>2 DEF MutexHeld, Proc, CrawlState
  <2>6. Shape(y)
    BY <1>a, <2>1, <2>2 DEF Shape, Fresh, Owner, Proc, CrawlState
  <2>7. SyncShape(y)
    BY <1>a, <2>1, <2>2 DEF SyncShape, Proc, CrawlState
  <2>8. QED
    BY <2>4, <2>5, <2>6, <2>7 DEF Good, y
<1>5. ASSUME NEW k \in Kind, KindCrawled(p, s, k)
      PROVE  Good(y)
  <2> DEFINE C == [x.crawl EXCEPT ![s].pc = "kinds", ![s].left = @ \ {k}]
  <2>1. x.run = "sync" /\ x.crawl[s].pc = "crawl" /\ k \in x.crawl[s].left
    BY <1>a, <1>5 DEF KindCrawled, MutexHeld, Shape
  <2> DEFINE D == x.crawled \cup {<<s, k>>}
  <2>2. y = [x EXCEPT !.crawl = C, !.crawled = D]
    <3>1. y = [x EXCEPT !.crawl[s].pc = "kinds", !.crawl[s].left = @ \ {k},
                        !.crawled = D]
      BY <1>5 DEF KindCrawled, TypeOK, Steps, Becomes
    <3> HIDE DEF D
    <3>2. QED
      BY <3>1
  <2>3. C \in [Source -> CrawlState]
    BY <1>a, <2>1 DEF Proc, CrawlState, CrawlPc
  <2> HIDE DEF x, y
  <2>4. y \in Proc
    <3>1. D \in SUBSET (Source \X Kind)
      BY <1>a DEF Proc
    <3> HIDE DEF C, D
    <3>2. QED
      BY <1>a, <2>2, <2>3, <3>1 DEF Proc
  <2>5. MutexHeld(y)
    BY <1>a, <2>1, <2>2 DEF MutexHeld, Proc, CrawlState
  <2>6. Shape(y)
    BY <1>a, <2>1, <2>2 DEF Shape, Fresh, Owner, Proc, CrawlState
  <2>7. SyncShape(y)
    BY <1>a, <2>1, <2>2 DEF SyncShape, Proc, CrawlState
  <2>8. QED
    BY <2>4, <2>5, <2>6, <2>7 DEF Good, y
<1>6. ASSUME NEW k \in Kind, KindFails(p, s, k)
      PROVE  Good(y)
  <2> DEFINE C == [x.crawl EXCEPT ![s].pc = "kinds", ![s].left = @ \ {k},
                                  ![s].failed = TRUE]
  <2>1. x.run = "sync" /\ x.crawl[s].pc \in {"kinds", "crawl"}
    BY <1>a, <1>6 DEF KindFails, MutexHeld, Shape
  <2>2. y = [x EXCEPT !.crawl = C]
    BY <1>6 DEF KindFails, TypeOK, Steps, Becomes
  <2>3. C \in [Source -> CrawlState]
    <3>1. x.crawl[s] \in CrawlState /\ x.crawl \in [Source -> CrawlState]
      BY <1>a DEF Proc
    <3>2. [x.crawl[s] EXCEPT !.pc = "kinds", !.left = @ \ {k}, !.failed = TRUE]
            \in CrawlState
      BY <3>1 DEF CrawlState, CrawlPc
    <3>3. QED
      BY <3>1, <3>2
  <2> HIDE DEF x, y
  <2>4. y \in Proc
    BY <1>a, <2>1, <2>2, <2>3 DEF Proc
  <2>5. MutexHeld(y)
    BY <1>a, <2>1, <2>2 DEF MutexHeld, Proc, CrawlState
  <2>6. Shape(y)
    BY <1>a, <2>1, <2>2 DEF Shape, Fresh, Owner, Proc, CrawlState
  <2>7. SyncShape(y)
    BY <1>a, <2>1, <2>2 DEF SyncShape, Proc, CrawlState
  <2>8. QED
    BY <2>4, <2>5, <2>6, <2>7 DEF Good, y
<1>7. CASE SourceReturns(p, s)
  <2> DEFINE C == [x.crawl EXCEPT ![s].pc = "done"]
  <2>1. x.run = "sync" /\ x.crawl[s].pc = "kinds" /\ x.crawl[s].left = {}
    BY <1>a, <1>7 DEF SourceReturns, MutexHeld, Shape
  <2>2. y = [x EXCEPT !.crawl = C, !.mutex[s] = "free",
                        !.cancelled = @ \/ x.crawl[s].failed]
    BY <1>7 DEF SourceReturns, TypeOK, Steps, Becomes
  <2>3. C \in [Source -> CrawlState]
    BY <1>a, <2>1 DEF Proc, CrawlState, CrawlPc
  <2> HIDE DEF x, y
  <2>4. y \in Proc
    BY <1>a, <2>1, <2>2, <2>3 DEF Proc
  <2>5. MutexHeld(y)
    BY <1>a, <2>1, <2>2 DEF MutexHeld, Proc, CrawlState
  <2>6. Shape(y)
    BY <1>a, <2>1, <2>2 DEF Shape, Fresh, Owner, Proc, CrawlState
  <2>7. SyncShape(y)
    BY <1>a, <2>1, <2>2 DEF SyncShape, Proc, CrawlState
  <2>8. QED
    BY <2>4, <2>5, <2>6, <2>7 DEF Good, y
<1>8. QED
  BY <1>1, <1>2, <1>3, <1>4, <1>5, <1>6, <1>7 DEF Crawling

(* Sync begins: each source asked for has all its kinds before it.           *)
LEMMA StartGood ==
  ASSUME TypeOK, NEW p \in Process, Good(proc[p]),
         NEW A \in SUBSET (Source \X Kind), proc[p].run \in {"check", "idle"},
         proc' = [proc EXCEPT ![p] = StartSync(p, A)]
  PROVE  Good(proc'[p])
<1> DEFINE x == proc[p]
<1> DEFINE y == proc'[p]
<1> DEFINE Left(s) == {k \in Kind : <<s, k>> \in A}
<1> DEFINE C == [s \in Source |->
             [NoCrawl EXCEPT !.pc = IF \E k \in Kind : <<s, k>> \in A
                                    THEN "queued" ELSE "none",
                             !.left = Left(s)]]
<1>a. x \in Proc /\ MutexHeld(x) /\ Shape(x) /\ SyncShape(x)
  BY DEF Good
<1>1. y = [x EXCEPT !.run = "sync", !.asked = A, !.crawled = {},
                    !.result = "none", !.cancelled = FALSE, !.crawl = C]
  BY DEF StartSync, TypeOK
<1>2. \A s \in Source :
        /\ C[s] \in CrawlState /\ C[s].left = Left(s) /\ ~C[s].failed
        /\ C[s].pc \in {"queued", "none"} /\ (C[s].pc = "none" => Left(s) = {})
  BY DEF NoCrawl, CrawlState, CrawlPc
<1>3. C \in [Source -> CrawlState]
  BY <1>2
<1>4. x.run \in {"check", "idle"}
  OBVIOUS
<1> HIDE DEF C, x, y
<1>5. y \in Proc
  BY <1>a, <1>1, <1>3 DEF Proc, RunPc
<1>6. MutexHeld(y)
  BY <1>a, <1>1, <1>2, <1>4 DEF MutexHeld, Shape, Proc
<1>7. Shape(y)
  BY <1>a, <1>1, <1>4 DEF Shape, Fresh, Proc
<1>8. SyncShape(y)
  <2>1. \A s \in Source, k \in Kind : k \in C[s].left <=> <<s, k>> \in A
    BY <1>2
  <2>2. /\ y.run = "sync" /\ y.asked = A /\ y.crawled = {} /\ y.result = "none"
        /\ y.crawl = C
    BY <1>a, <1>1 DEF Proc
  <2>3. QED
    BY <1>2, <2>1, <2>2 DEF SyncShape
<1>9. QED
  BY <1>5, <1>6, <1>7, <1>8 DEF Good, y

(* Sync returns: with no failure, nothing it was asked for is left.          *)
LEMMA SyncGood ==
  ASSUME TypeOK, NEW p \in Process, Good(proc[p]), SyncReturns(p)
  PROVE  Good(proc'[p])
<1> DEFINE x == proc[p]
<1> DEFINE y == proc'[p]
<1>a. x \in Proc /\ MutexHeld(x) /\ Shape(x) /\ SyncShape(x)
  BY DEF Good
<1>1. PICK T \in SUBSET Source, r \in {"retry", "over"} :
        y = [x EXCEPT !.result = IF x.cancelled THEN "error" ELSE "ok",
                      !.run = r, !.todo = T, !.crawl = Down.crawl]
  BY ServiceAssumption DEF SyncReturns, Steps, Becomes, TypeOK
<1>2. x.run = "sync" /\ \A s \in Source : x.crawl[s].pc \in {"none", "done"}
  BY DEF SyncReturns
<1>3. Down.crawl \in [Source -> CrawlState]
      /\ \A s \in Source : Down.crawl[s].pc = "none"
  BY DEF Down, NoCrawl, CrawlState, CrawlPc
<1> HIDE DEF x, y
<1>4. y \in Proc
  BY <1>a, <1>1, <1>3 DEF Proc, RunPc
<1>5. MutexHeld(y)
  BY <1>a, <1>1, <1>2, <1>3 DEF MutexHeld, Proc
<1>6. Shape(y)
  BY <1>a, <1>1, <1>2, <1>3 DEF Shape, Fresh, Proc
<1>7. x.cancelled \/ x.crawled = x.asked
  <2> SUFFICES ASSUME ~x.cancelled, NEW pair \in x.asked
               PROVE  pair \in x.crawled
    BY <1>a, <1>2 DEF SyncShape
  <2>1. PICK s \in Source, k \in Kind : pair = <<s, k>>
    BY <1>a DEF Proc
  <2>2. QED
    BY <1>a, <1>2, <2>1 DEF SyncShape
<1>8. SyncShape(y)
  BY <1>a, <1>1, <1>7 DEF SyncShape, Proc
<1>9. QED
  BY <1>4, <1>5, <1>6, <1>8 DEF Good, y

----------------------------------------------------------------------------
(* What is said of one process is enough: the others stay as they are, and   *)
(* of the lock on the state file.                                            *)
LEMMA InvFrom ==
  ASSUME Inv, NEW p \in Process, Good(proc'[p]),
         proc' = [proc EXCEPT ![p] = proc'[p]],
         flock' \in Process \cup {Nobody},
         (flock' = p) = (proc'[p].main \in Owner),
         \A q \in Process \ {p} : (flock' = q) = (flock = q),
         UNCHANGED faults \/ Fault
  PROVE  Inv'
<1>1. faults' \in 0..MaxFaults
  BY ServiceAssumption DEF Inv, TypeOK, Fault
<1>2. proc' \in [Process -> Proc]
  BY DEF Inv, TypeOK, Good
<1>3. \A q \in Process \ {p} : proc'[q] = proc[q]
  BY DEF Inv, TypeOK
<1>4. OwnerHasLock'
  BY <1>3 DEF Inv, OwnerHasLock
<1>5. \A q \in Process : Good(proc'[q])
  BY <1>3 DEF Inv
<1>6. QED
  BY <1>1, <1>2, <1>4, <1>5 DEF Inv, TypeOK

(* Most steps leave the lock alone, and the command where it had or had not  *)
(* taken it.                                                                 *)
LEMMA InvFromStep ==
  ASSUME Inv, NEW p \in Process, Good(proc'[p]), NEW x, Becomes(p, x),
         (x.main \in Owner) = (proc[p].main \in Owner),
         UNCHANGED faults \/ Fault
  PROVE  Inv'
<1>1. proc'[p] = x /\ proc' = [proc EXCEPT ![p] = x] /\ flock' = flock
  BY DEF Inv, TypeOK, Becomes
<1>2. flock \in Process \cup {Nobody} /\ (flock = p) = (proc[p].main \in Owner)
  BY DEF Inv, TypeOK, OwnerHasLock
<1>3. QED
  BY <1>1, <1>2, InvFrom

LEMMA InitInv == Init => Inv
<1> SUFFICES ASSUME Init PROVE Inv
  OBVIOUS
<1>1. \A p \in Process : proc[p] = Down /\ proc[p].main = "down"
  BY DEF Init, Down
<1>2. TypeOK
  BY DownGood, ServiceAssumption DEF Init, TypeOK, Good
<1>3. OwnerHasLock
  BY <1>1, ServiceAssumption DEF Init, OwnerHasLock, Owner
<1>4. QED
  BY <1>1, <1>2, <1>3, DownGood DEF Inv

LEMMA NextInv == Inv /\ [Next]_vars => Inv'
<1> SUFFICES ASSUME Inv, [Next]_vars PROVE Inv'
  OBVIOUS
<1>1. CASE UNCHANGED vars
  BY <1>1 DEF vars, Inv, TypeOK, OwnerHasLock
<1>2. TypeOK /\ \A p \in Process : Good(proc[p])
  BY DEF Inv
<1>3. \A p \in Process : (flock = p) = (proc[p].main \in Owner)
  BY DEF Inv, OwnerHasLock
<1>4. ASSUME NEW p \in Process, Lock(p)
      PROVE  Inv'
  <2>1. Good(proc'[p])
    BY <1>2, <1>4, CommandGood
  <2>2. /\ flock = Nobody /\ flock' = p /\ UNCHANGED faults
        /\ proc' = [proc EXCEPT ![p] = proc'[p]] /\ proc'[p].main = "locked"
    BY <1>2, <1>4 DEF Lock, TypeOK, Proc
  <2>3. QED
    BY <2>1, <2>2, ServiceAssumption, InvFrom DEF Owner
<1>5. ASSUME NEW p \in Process, Unlock(p)
      PROVE  Inv'
  <2>1. Good(proc'[p])
    BY <1>2, <1>5, CommandGood
  <2>2. flock = p
    BY <1>3, <1>5 DEF Unlock, Owner
  <2>3. /\ flock' = Nobody /\ UNCHANGED faults
        /\ proc' = [proc EXCEPT ![p] = proc'[p]] /\ proc'[p].main = "unlocked"
    BY <1>2, <1>5, <2>2 DEF Unlock, TypeOK, Proc
  <2>4. QED
    BY <2>1, <2>2, <2>3, ServiceAssumption, InvFrom DEF Owner
<1>6. ASSUME NEW p \in Process, Exit(p) \/ Crash(p)
      PROVE  Inv'
  <2>1. /\ proc' = [proc EXCEPT ![p] = proc'[p]] /\ proc'[p] = Down
        /\ UNCHANGED faults \/ Fault
    BY <1>2, <1>6 DEF Exit, Crash, Gone, TypeOK
  <2>2. flock' = IF flock = p THEN Nobody ELSE flock
    BY <1>6 DEF Exit, Crash, Gone
  <2>3. Down.main = "down"
    BY DEF Down
  <2>4. flock \in Process \cup {Nobody}
    BY <1>2 DEF TypeOK
  <2>5. /\ flock' \in Process \cup {Nobody} /\ flock' # p
        /\ \A q \in Process \ {p} : (flock' = q) = (flock = q)
    BY <2>2, <2>4, ServiceAssumption
  <2>6. Good(proc'[p]) /\ proc'[p].main \notin Owner
    BY <2>1, <2>3, DownGood DEF Owner
  <2>7. QED
    BY <2>1, <2>5, <2>6, InvFrom
<1>7. ASSUME NEW p \in Process,
             \/ OpenDB(p) \/ OpenFails(p) \/ StartRun(p) \/ Sigterm(p)
             \/ MainReturns(p) \/ Unsubscribe(p) \/ CloseDB(p)
             \/ \E s \in Source : Connect(p, s) \/ ConnectFails(p, s)
      PROVE  Inv'
  <2>1. Good(proc'[p])
    BY <1>2, <1>7, CommandGood
  <2>2. proc[p] \in Proc
    BY <1>2 DEF Good
  <2>3. ASSUME NEW x, Becomes(p, x), x.main \in Owner,
               proc[p].main \in Owner, UNCHANGED faults \/ Fault
        PROVE  Inv'
    BY <2>1, <2>3, InvFromStep
  <2>4. CASE OpenDB(p)
    BY <2>2, <2>3, <2>4 DEF OpenDB, Steps, Proc, Owner
  <2>5. CASE OpenFails(p) \/ StartRun(p) \/ Sigterm(p)
    BY <2>2, <2>3, <2>5 DEF OpenFails, StartRun, Sigterm, Steps, Proc, Owner
  <2>6. CASE MainReturns(p) \/ Unsubscribe(p) \/ CloseDB(p)
    BY <2>2, <2>3, <2>6 DEF MainReturns, Unsubscribe, CloseDB, Steps, Proc, Owner
  <2>7. ASSUME NEW s \in Source, Connect(p, s)
        PROVE  Inv'
    BY <2>2, <2>3, <2>7 DEF Connect, Steps, Proc, Owner
  <2>8. ASSUME NEW s \in Source, ConnectFails(p, s)
        PROVE  Inv'
    BY <2>2, <2>3, <2>8 DEF ConnectFails, Proc, Owner
  <2>9. QED
    BY <1>7, <2>4, <2>5, <2>6, <2>7, <2>8
<1>8. ASSUME NEW p \in Process, NEW s \in Source,
             Message(p, s) \/ Handling(p, s) \/ HandlerLocks(p, s)
      PROVE  Inv'
  <2>1. Good(proc'[p])
    BY <1>2, <1>8, HandlerGood DEF Handling
  <2>2. proc[p] \in Proc
    BY <1>2 DEF Good
  <2>3. \E x : Becomes(p, x) /\ x.main = proc[p].main /\ UNCHANGED faults
    BY <1>8, <2>2
    DEF Message, Handling, Enqueue, HandlerLocks, HandlerReturns, Steps, Proc
  <2>4. QED
    BY <2>1, <2>3, InvFromStep
<1>9. ASSUME NEW p \in Process, NEW s \in Source,
             Crawling(p, s) \/ SourceLocks(p, s)
      PROVE  Inv'
  <2>1. Good(proc'[p])
    BY <1>2, <1>9, CrawlGood
  <2>2. proc[p] \in Proc
    BY <1>2 DEF Good
  <2>3. \E x : /\ Becomes(p, x) /\ x.main = proc[p].main
               /\ UNCHANGED faults \/ Fault
    BY <1>9, <2>2
    DEF Crawling, SourceLocks, StartSource, NewFails, BeginKind, SourceReturns,
        KindCrawled, KindFails, Steps, Proc
  <2>4. QED
    BY <2>1, <2>3, InvFromStep
<1>10. ASSUME NEW p \in Process, CheckTarget(p) \/ Poll(p)
       PROVE  Inv'
  <2>1. PICK A \in SUBSET (Source \X Kind) : Steps(p, StartSync(p, A))
    BY <1>2, <1>10 DEF CheckTarget, Poll, Everything, Good, Proc
  <2>2. proc[p].run \in {"check", "idle"} /\ proc[p] \in Proc
    BY <1>2, <1>10 DEF CheckTarget, Poll, Good
  <2>3. Good(proc'[p])
    BY <1>2, <2>1, <2>2, StartGood DEF Steps, Becomes
  <2>4. StartSync(p, A).main = proc[p].main
    BY <2>2 DEF StartSync, Proc
  <2>5. QED
    BY <2>1, <2>3, <2>4, InvFromStep DEF Steps
<1>11. ASSUME NEW p \in Process,
              \/ CheckTargetFails(p) \/ RetryEnds(p) \/ ReconcileReturns(p)
              \/ Tick(p) \/ RunReturns(p)
              \/ \E s \in Source :
                   RetryEnqueues(p, s) \/ RetryLocks(p, s) \/ RetryReturns(p, s)
       PROVE  Inv'
  <2>1. Good(proc'[p])
    BY <1>2, <1>11, LoopGood
  <2>2. proc[p] \in Proc
    BY <1>2 DEF Good
  <2>3. \E x : /\ Becomes(p, x) /\ x.main = proc[p].main
               /\ UNCHANGED faults \/ Fault
    BY <1>11, <2>2
    DEF CheckTargetFails, RetryEnds, ReconcileReturns, Tick, RunReturns,
        RetryEnqueues, RetryLocks, RetryReturns, Steps, Proc
  <2>4. QED
    BY <2>1, <2>3, InvFromStep
<1>12. ASSUME NEW p \in Process, SyncReturns(p)
       PROVE  Inv'
  <2>1. Good(proc'[p])
    BY <1>2, <1>12, SyncGood
  <2>2. proc[p] \in Proc
    BY <1>2 DEF Good
  <2>3. \E x : Becomes(p, x) /\ x.main = proc[p].main /\ UNCHANGED faults
    BY <1>12, <2>2 DEF SyncReturns, Steps, Proc
  <2>4. QED
    BY <2>1, <2>3, InvFromStep
<1>13. QED
  BY <1>1, <1>4, <1>5, <1>6, <1>7, <1>8, <1>9, <1>10, <1>11, <1>12
  DEF Next, Command, Looping

THEOREM SpecInv == Spec => []Inv
  BY InitInv, NextInv, PTL DEF Spec

(* Every state of every process has its type: among it, that only sources    *)
(* whose MQTT is not disabled have a client.                                 *)
THEOREM SpecTypeOK == Spec => []TypeOK
<1>1. Inv => TypeOK
  BY DEF Inv
<1>2. QED
  BY <1>1, SpecInv, PTL

(* However many sources there are and however many of them Sync crawls at a  *)
(* time, a source's mutex is held by the one goroutine that works on it.     *)
THEOREM SpecMutexHeldByWorker == Spec => []MutexHeldByWorker
<1>1. Inv => MutexHeldByWorker
  BY DEF Inv, Good, MutexHeld, MutexHeldByWorker
<1>2. QED
  BY <1>1, SpecInv, PTL

(* However many processes are started over one state file, its database is   *)
(* open in one of them, and at most one that has not yet to exit but is at   *)
(* work.                                                                     *)
THEOREM SpecLedgerHasOneOwner == Spec => []LedgerHasOneOwner
<1>1. Inv => LedgerHasOneOwner
  <2> SUFFICES ASSUME Inv PROVE LedgerHasOneOwner
    OBVIOUS
  <2>1. ASSUME NEW p \in Process PROVE proc[p].db => flock = p
    BY DEF Inv, Good, Shape, OwnerHasLock
  <2>2. ASSUME NEW p \in Process, Works(p)
        PROVE  flock = p \/ proc[p].main = "unlocked"
    <3>1. proc[p].main # "down"
      <4> SUFFICES ASSUME proc[p].main = "down" PROVE FALSE
        OBVIOUS
      <4>1. Fresh(proc[p]) /\ MutexHeld(proc[p]) /\ Shape(proc[p])
        BY DEF Inv, Good, Shape
      <4>2. /\ proc[p].run = "none"
            /\ \A s \in Source : /\ proc[p].handler[s] = "none"
                                 /\ proc[p].crawl[s].pc = "none"
        BY <4>1 DEF Fresh, Shape
      <4>3. \A s \in Source : proc[p].mutex[s] \notin {"crawl", "handler", "run"}
        BY <4>1, <4>2 DEF MutexHeld
      <4>4. proc[p] \in Proc
        BY DEF Inv, Good
      <4>5. QED
        BY <2>2, <4>2, <4>3, <4>4 DEF Works, Proc
    <3>2. proc[p].main \in MainPc
      BY DEF Inv, TypeOK, Proc
    <3>3. QED
      BY <3>1, <3>2 DEF Inv, OwnerHasLock, Owner, MainPc
  <2>3. QED
    BY <2>1, <2>2 DEF LedgerHasOneOwner
<1>2. QED
  BY <1>1, SpecInv, PTL

(* For any sources, kinds, filters and concurrency, and whichever of the     *)
(* goroutines of Sync is cancelled when, its success is no lie.              *)
THEOREM SpecSyncTellsTheTruth == Spec => []SyncTellsTheTruth
<1>1. Inv => SyncTellsTheTruth
  BY DEF Inv, Good, SyncShape, SyncTellsTheTruth
<1>2. QED
  BY <1>1, SpecInv, PTL
=============================================================================
