---------------------------- MODULE HarvestProofs ----------------------------
(***************************************************************************)
(* Theorems about Harvest, for every value of its constants.                *)
(*                                                                         *)
(* The inductive invariant is Discipline: the types, and the shape of the   *)
(* process - which task is running, what each goroutine has in hand and     *)
(* which lock it holds.  The types alone are not inductive: that a saved    *)
(* row has a content, or that an event has a subject, follows from where    *)
(* the worker stands.  That one worker at a time has a resource in hand     *)
(* follows from the discipline of the locks. The second part shows that     *)
(* Harvest implements EventLog.                                             *)
(*                                                                         *)
(* The third part: what the ledger says is true, of the catalog (Mirror),   *)
(* of the crawls (Sweep), and of a new profile (Remap).                     *)
(*                                                                         *)
(* LedgerMirrorsCatalog is not inductive: that the row a worker saves is    *)
(* true needs that the row it read is still there, and that the target has  *)
(* what it wrote.  MirrorInv says so for each resource that is not suspect  *)
(* (Agrees); together with Discipline, which keeps a second worker away,    *)
(* every step preserves it.                                                *)
(*                                                                         *)
(* SweepInv: as long as no failure row of a resource was lost (swallowed),  *)
(* its row counts at most as many misses as there were complete crawls in a *)
(* row that did not list it, because whatever a crawl listed has been       *)
(* marked by the time the crawl is complete.                                *)
(*                                                                         *)
(* RemapInv: while ReconcileTarget runs under remap nobody else writes, so  *)
(* that its snapshot of the rows stays true.                                *)
(***************************************************************************)
EXTENDS HarvestInvariants, TLAPS

\* The record of a content is always the mapping the constants give.
USE DEF Map

\* Every row an SQL statement or materialize makes of a row is a row: the
\* state database never holds anything else.
LEMMA RowTypes ==
  ASSUME NEW row \in Row, NEW ver \in Version \cup {None},
         NEW rec \in Record \cup {None}, NEW marks \in BOOLEAN
  PROVE  /\ Unseen(row) \in Row
         /\ MissCounted(row) \in Row
         /\ MarkedDeleted(row) \in Row
         /\ SameRow(row, marks) \in Row
         /\ FailedRow(row, ver, marks) \in Row
         /\ NewRow(row, ver, rec, marks) \in Row
         /\ RefreshedRow(row, rec) \in Row
<1>1. 0 \in 0 .. Threshold
  BY ThresholdAssumption
<1>2. row.misses < Threshold => row.misses + 1 \in 0 .. Threshold
  BY ThresholdAssumption DEF Row
<1>3. Unseen(row) \in Row
  BY DEF Unseen, Row
<1>4. MissCounted(row) \in Row
  BY <1>2 DEF MissCounted, Row
<1>5. MarkedDeleted(row) \in Row
  BY DEF MarkedDeleted, Row, Status
<1>6. SameRow(row, marks) \in Row
  BY <1>1 DEF SameRow, Row
<1>7. FailedRow(row, ver, marks) \in Row
  BY <1>1 DEF FailedRow, Row, Status
<1>8. NewRow(row, ver, rec, marks) \in Row
  BY <1>1 DEF NewRow, Row, Status
<1>9. RefreshedRow(row, rec) \in Row
  BY DEF RefreshedRow, Row
<1>10. QED
  BY <1>3, <1>4, <1>5, <1>6, <1>7, <1>8, <1>9

\* A goroutine with nothing in hand, and the zero state.Resource, are typed.
LEMMA RestingType == Resting \in Work /\ NoRow \in Row /\ ReconIdle \in Recon
  BY ThresholdAssumption
  DEF Resting, Work, WorkPc, NoRow, Row, Status, ReconIdle, Recon, ReconPc

\* mapper.Map makes a record of every content, or fails.
LEMMA MappingType ==
  ASSUME NEW p \in Profile, NEW v \in Version
  PROVE  Mapping[p][v] \in Record \cup {None}
  BY MappingAssumption

-----------------------------------------------------------------------------
(* Type correctness.                                                       *)

\* The part of the type invariant that is about the main goroutine's task.
ProcessType ==
  /\ cmd \in Commands \cup {"down"}
  /\ profile \in Profile
  /\ plan \in Seq(Tasks)
  /\ task \in Tasks \cup {"idle", "sweep"}
  /\ batch \subseteq Item
  /\ unlisted \subseteq Resource
  /\ lock \in Worker \cup {None}

\* Every command of cmd/hronir plans tasks the coordinator has.
LEMMA PlanType ==
  ASSUME NEW c \in Commands
  PROVE  PlanOf(c) \in Seq(Tasks)
<1>1. \A t \in Tasks : <<t>> \in Seq(Tasks)
  OBVIOUS
<1>2. \A t, u \in Tasks : <<t, u>> \in Seq(Tasks)
  OBVIOUS
<1>3. /\ "crawl" \in Tasks /\ "event" \in Tasks /\ "retry" \in Tasks
      /\ "recon" \in Tasks /\ "prune" \in Tasks
  BY DEF Tasks
<1>4. c \in {"run", "sync", "remap", "retry", "prune"}
  BY CommandsAssumption
<1>5. CASE c \in {"run", "remap"}
  BY <1>2, <1>3, <1>5 DEF PlanOf, RunPlan, RemapPlan
<1>6. CASE c \in {"sync", "retry", "prune"}
  BY <1>1, <1>3, <1>6 DEF PlanOf, SyncPlan, RetryPlan, PrunePlan
<1>7. QED
  BY <1>4, <1>5, <1>6

\* A task that returns leaves the main goroutine typed.
LEMMA EndTaskType ==
  ASSUME ProcessType, NEW ok \in BOOLEAN, EndTask(ok)
  PROVE  ProcessType'
  BY DEF ProcessType, EndTask

\* So does materialize, or a deletion, when it returns to its caller.
LEMMA ReturnType ==
  ASSUME ProcessType, work \in [Worker -> Work],
         NEW w \in Worker, NEW ok \in BOOLEAN, Return(w, ok)
  PROVE  ProcessType' /\ work' \in [Worker -> Work]
<1>1. CASE w # Loop \/ task = "event"
  <2>1. [Resting EXCEPT !.pc = IF ok THEN "done" ELSE "failed",
                        !.ev = work[w].ev] \in Work
    BY RestingType DEF Work, WorkPc
  <2>2. QED
    BY <1>1, <2>1 DEF Return, process, command, ProcessType
<1>2. CASE ~(w # Loop \/ task = "event")
  <2>1. work' \in [Worker -> Work]
    BY <1>2, RestingType DEF Return
  <2>2. ProcessType'
    BY <1>2, EndTaskType DEF Return, process, command, ProcessType
  <2>3. QED
    BY <2>1, <2>2
<1>3. QED
  BY <1>1, <1>2

\* A task of the plan, or of a ticker, that starts is one of the tasks.
LEMMA StartType ==
  ASSUME ProcessType, NEW t \in Tasks, Start(t)
  PROVE  /\ cmd' \in Commands \cup {"down"}
         /\ profile' \in Profile
         /\ plan' \in Seq(Tasks)
         /\ task' \in Tasks \cup {"idle", "sweep"}
  BY DEF ProcessType, Start, RestOfPlan

\* The budget of disturbances is spent down to zero and no further.
LEMMA SpendType ==
  ASSUME budget \in [Disturbance -> Nat], NEW kind \in Disturbance, Spend(kind)
  PROVE  budget' \in [Disturbance -> Nat]
  BY DEF Spend

\* A worker that goes on to another program point stays typed.
LEMMA BecomeType ==
  ASSUME work \in [Worker -> Work], NEW w \in Worker, NEW pc \in WorkPc,
         Become(w, pc)
  PROVE  work' \in [Worker -> Work]
  BY DEF Become, Work

\* What materialize saves is a row: with a content, and a record or none.
LEMMA SavedRowType ==
  ASSUME TypeOK, WorkWellFormed, NEW w \in Worker,
         work[w].pc \in {"saveSame", "saveNew", "saveFailed"}
  PROVE  SavedRow(w) \in Row
<1>1. work[w].prev \in Row /\ Marks(w) \in BOOLEAN
  BY DEF TypeOK, Work, Marks
<1>2. work[w].ver \in Version
  BY DEF WorkWellFormed, HandPc
<1>3. Mapping[profile][work[w].ver] \in Record \cup {None}
  BY <1>2, MappingType DEF TypeOK
<1>4. QED
  BY <1>1, <1>2, <1>3, RowTypes DEF SavedRow

\* The state before the first command is typed.
LEMMA InitType == Init => TypeOK
<1> SUFFICES ASSUME Init PROVE TypeOK
  OBVIOUS
<1>1. 0 \in 0 .. Threshold
  BY ThresholdAssumption
<1>2. << >> \in Seq(Tasks)
  OBVIOUS
<1>3. QED
  BY <1>1, <1>2, RestingType, LimitAssumption DEF Init, TypeOK

\* No step of a command, a handler, the source or the target breaks the
\* types.
LEMMA NextType == Discipline /\ [Next]_vars => TypeOK'
<1> SUFFICES ASSUME Discipline, [Next]_vars PROVE TypeOK'
  OBVIOUS
<1> USE DEF Discipline, Shape
<1> USE DEF outside, store, process, command, reconciler, history, crawled
<1>a. ProcessType
  BY DEF TypeOK, ProcessType
<1>b. /\ "change" \in Disturbance /\ "drift" \in Disturbance
      /\ "crash" \in Disturbance /\ "fault" \in Disturbance
      /\ "storeFault" \in Disturbance
  BY DEF Disturbance
<1>c. CountAbsence => absent' \in [Resource -> 0 .. Threshold]
  BY ThresholdAssumption DEF CountAbsence, TypeOK
<1>d. ASSUME NEW w \in Worker, NEW e \in Event, Enqueue(w, e)
      PROVE  /\ events' \in [Event -> {"none", "queued", "failed", "complete"}]
             /\ work' \in [Worker -> Work]
  <2>1. \A pc \in {"lock", "requeue"} :
          [Resting EXCEPT !.pc = pc, !.ev = e] \in Work
    BY RestingType DEF Work, WorkPc
  <2>2. QED
    BY <1>d, <2>1 DEF Enqueue, TypeOK
<1>e. ASSUME NEW w \in Worker,
             work[w].pc \in {"read", "put", "saveSame", "saveNew", "saveFailed"}
      PROVE  /\ work[w].res \in Resource
             /\ work[w].ver \in Version
             /\ Mapping[profile][work[w].ver] \in Record \cup {None}
  BY <1>e, MappingType DEF WorkWellFormed, HandPc, TypeOK
<1>f. ASSUME NEW w \in Worker, work[w].pc \in {"delete", "mark"}
      PROVE  work[w].res \in Resource
  BY <1>f DEF WorkWellFormed, HandPc
<1>g. ASSUME NEW r \in Resource, recon[r].pc # "idle"
      PROVE  ReconRecord(r) \in Record \cup {None}
  BY <1>g, MappingType DEF ReconWellFormed, ReconRecord, TypeOK
<1>h. << >> \in Seq(Tasks)
  OBVIOUS
<1>1. ASSUME NEW r \in Resource, NEW v \in Version \cup {None},
             SourceChanges(r, v)
      PROVE  TypeOK'
  BY <1>1, <1>b, SpendType DEF SourceChanges, TypeOK
<1>2. ASSUME NEW r \in Resource, NEW rec \in Record \cup {None},
             TargetDrifts(r, rec)
      PROVE  TypeOK'
  BY <1>2, <1>b, SpendType DEF TargetDrifts, TypeOK
<1>3. ASSUME NEW c \in Commands, NEW p \in Profile, StartCommand(c, p)
      PROVE  TypeOK'
  BY <1>3, PlanType DEF StartCommand, TypeOK
<1>4. CASE Exit
  BY <1>4 DEF Exit, TypeOK
<1>5. CASE Crash
  <2>1. budget' \in [Disturbance -> Nat]
    BY <1>5, <1>b, SpendType DEF Crash, TypeOK
  <2>2. suspect' \subseteq Resource
    BY <1>5 DEF Crash, TypeOK
  <2>3. QED
    BY <1>5, <1>h, <2>1, <2>2, RestingType DEF Crash, TypeOK
<1>6. ASSUME NEW t \in Tasks, TaskFailsAtStart(t)
      PROVE  TypeOK'
  BY <1>6, <1>b, SpendType DEF TaskFailsAtStart, RestOfPlan, TypeOK
<1>7. CASE StartCrawl
  BY <1>7, <1>a, StartType, RowTypes DEF StartCrawl, TypeOK, Tasks, Worker
<1>8. CASE StartRetryFailures
  BY <1>8, <1>a, StartType DEF StartRetryFailures, TypeOK, Tasks, Item, Row
<1>9. CASE StartPrune
  BY <1>9, <1>a, StartType DEF StartPrune, TypeOK, Tasks, Item
<1>10. CASE StartRetryEvents
  BY <1>10, <1>a, StartType DEF StartRetryEvents, TypeOK, Tasks, Item
<1>11. CASE StartReconcile
  BY <1>11, <1>a, StartType, RestingType
  DEF StartReconcile, TypeOK, Tasks, Recon, ReconPc
<1>12. ASSUME NEW P \in SUBSET unlisted, FetchPage(P)
       PROVE  TypeOK'
  BY <1>12 DEF FetchPage, TypeOK, Item
<1>13. ASSUME NEW skipped \in BOOLEAN, CrawlStops(skipped)
       PROVE  TypeOK'
  BY <1>13, <1>a, <1>b, SpendType, EndTaskType
  DEF CrawlStops, TypeOK, ProcessType
<1>14. CASE Sweep
  <2>1. rows' \in [Resource -> Row]
    BY <1>14, RowTypes DEF Sweep, TypeOK
  <2>2. batch' \subseteq Item
    BY <1>14 DEF Sweep, Item
  <2>3. QED
    BY <1>14, <1>c, <2>1, <2>2 DEF Sweep, TypeOK
<1>15. CASE SweepFails
  BY <1>15, <1>a, <1>b, <1>c, SpendType, EndTaskType, RowTypes
  DEF SweepFails, TypeOK, ProcessType
<1>16. ASSUME NEW i \in batch, NextItem(i)
       PROVE  TypeOK'
  BY <1>16, RestingType
  DEF NextItem, TypeOK, Item, Work, WorkPc, HandPc, Worker
<1>17. ASSUME NEW i \in batch, NextEvent(i)
       PROVE  TypeOK'
  <2>1. i.ev \in Event /\ Loop \in Worker
    BY <1>17 DEF NextEvent, BatchWellFormed, Worker
  <2>2. QED
    BY <1>17, <1>d, <2>1 DEF NextEvent, TypeOK
<1>18. CASE BatchDone
  BY <1>18, <1>a, EndTaskType DEF BatchDone, TypeOK, ProcessType
<1>19. ASSUME NEW w \in Worker, WorkerStep(w)
       PROVE  TypeOK'
  <2>1. CASE Read(w)
    <3>1. rows[work[w].res] \in Row
      BY <2>1, <1>e DEF Read, TypeOK
    <3>2. ASSUME NEW prev \in Row,
                 NEW pc \in {"saveFailed", "saveSame", "put"}
          PROVE  [work[w] EXCEPT !.prev = prev, !.pc = pc] \in Work
      <4>1. work[w] \in Work
        BY DEF TypeOK
      <4>2. pc \in WorkPc
        BY <3>2 DEF WorkPc, HandPc
      <4>3. QED
        BY <3>2, <4>1, <4>2 DEF Work
    <3>3. work' \in [Worker -> Work]
      BY <2>1, <3>1, <3>2 DEF Read, TypeOK
    <3>4. suspect' \subseteq Resource
      BY <2>1, <1>e DEF Read, TypeOK
    <3>5. QED
      BY <2>1, <3>3, <3>4 DEF Read, TypeOK
  <2>2. CASE ReadFails(w)
    BY <2>2, <1>a, <1>b, SpendType, ReturnType
    DEF ReadFails, TypeOK, ProcessType
  <2>3. CASE Put(w)
    BY <2>3, <1>e, BecomeType DEF Put, TypeOK, WorkPc, HandPc
  <2>4. CASE PutFails(w)
    <3>1. budget' \in [Disturbance -> Nat]
      BY <2>4, <1>b, SpendType DEF PutFails, TypeOK
    <3>2. target' \in [Resource -> Record \cup {None}]
          /\ suspect' \subseteq Resource
      BY <2>4, <1>e DEF PutFails, TypeOK
    <3>3. work' \in [Worker -> Work]
      BY <2>4, BecomeType DEF PutFails, TypeOK, WorkPc, HandPc
    <3>4. QED
      BY <2>4, <3>1, <3>2, <3>3 DEF PutFails, TypeOK
  <2>5. CASE Save(w)
    BY <2>5, <1>a, ReturnType, SavedRowType DEF Save, TypeOK, ProcessType
  <2>6. CASE SaveFails(w)
    <3>1. budget' \in [Disturbance -> Nat]
      BY <2>6, <1>b, SpendType DEF SaveFails, TypeOK
    <3>2. suspect' \subseteq Resource /\ swallowed' \subseteq Resource
      BY <2>6, <1>e DEF SaveFails, TypeOK
    <3>3. ProcessType' /\ work' \in [Worker -> Work]
      BY <2>6, <1>a, ReturnType DEF SaveFails, TypeOK
    <3>4. QED
      BY <2>6, <3>1, <3>2, <3>3 DEF SaveFails, TypeOK, ProcessType
  <2>7. CASE Delete(w)
    BY <2>7, <1>f, BecomeType DEF Delete, TypeOK, WorkPc, HandPc
  <2>8. CASE DeleteFails(w)
    BY <2>8, <1>a, <1>b, <1>f, SpendType, ReturnType
    DEF DeleteFails, TypeOK, ProcessType
  <2>9. CASE Mark(w)
    BY <2>9, <1>a, ReturnType, RowTypes DEF Mark, TypeOK, ProcessType, Work
  <2>10. CASE MarkFails(w)
    BY <2>10, <1>a, <1>b, <1>f, SpendType, ReturnType
    DEF MarkFails, TypeOK, ProcessType
  <2>11. CASE Requeue(w)
    BY <2>11, BecomeType DEF Requeue, TypeOK, WorkPc
  <2>12. CASE RequeueFails(w)
    BY <2>12, <1>b, SpendType, RestingType DEF RequeueFails, TypeOK
  <2>13. CASE AcquireLock(w)
    BY <2>13, BecomeType DEF AcquireLock, TypeOK, WorkPc
  <2>14. CASE FetchSubject(w)
    <3>1. Subject[work[w].ev] \in Resource
      BY <2>14, SubjectAssumption DEF FetchSubject, WorkWellFormed, EventPc
    <3>2. ASSUME NEW res \in Resource, NEW ver \in Version \cup {None},
                 NEW pc \in {"done", "delete", "read"}
          PROVE  /\ [work[w] EXCEPT !.pc = pc] \in Work
                 /\ [work[w] EXCEPT !.pc = pc, !.res = res, !.ver = ver]
                      \in Work
      <4>1. pc \in WorkPc
        BY DEF WorkPc, HandPc
      <4>2. work[w] \in Work
        BY DEF TypeOK
      <4>3. QED
        BY <4>1, <4>2 DEF Work
    <3>3. work' \in [Worker -> Work]
      BY <2>14, <3>1, <3>2 DEF FetchSubject, TypeOK
    <3>4. QED
      BY <2>14, <3>1, <3>3 DEF FetchSubject, TypeOK
  <2>15. CASE FetchFails(w)
    BY <2>15, <1>b, SpendType, BecomeType DEF FetchFails, TypeOK, WorkPc
  <2>16. CASE Complete(w)
    BY <2>16, <1>b, SpendType, RestingType DEF Complete, TypeOK, Work
  <2>17. QED
    BY <1>19, <2>1, <2>2, <2>3, <2>4, <2>5, <2>6, <2>7, <2>8, <2>9, <2>10,
       <2>11, <2>12, <2>13, <2>14, <2>15, <2>16 DEF WorkerStep
<1>20. ASSUME NEW h \in Handler, NEW e \in Event, DeliverEvent(h, e)
       PROVE  TypeOK'
  BY <1>20, <1>d DEF DeliverEvent, TypeOK, Worker
<1>21. ASSUME NEW r \in Resource, ReconStep(r)
       PROVE  TypeOK'
  <2>1. CASE ReconGet(r)
    BY <2>1, RestingType DEF ReconGet, TypeOK, Recon, ReconPc
  <2>2. CASE ReconPut(r)
    <3>1. [recon[r] EXCEPT !.pc = "save"] \in Recon
      BY DEF TypeOK, Recon, ReconPc
    <3>2. target' \in [Resource -> Record \cup {None}]
      BY <2>2, <1>g DEF ReconPut, TypeOK
    <3>3. QED
      BY <2>2, <3>1, <3>2 DEF ReconPut, TypeOK
  <2>3. CASE ReconSave(r)
    <3>1. RefreshedRow(recon[r].row, ReconRecord(r)) \in Row
      BY <2>3, <1>g, RowTypes DEF ReconSave, Refreshing, TypeOK, Recon
    <3>2. QED
      BY <2>3, <3>1, RestingType DEF ReconSave, TypeOK
  <2>4. CASE ReconFails(r)
    <3>1. budget' \in [Disturbance -> Nat]
      BY <2>4, <1>b, SpendType DEF ReconFails, TypeOK
    <3>2. target' \in [Resource -> Record \cup {None}]
      BY <2>4, <1>g DEF ReconFails, TypeOK
    <3>3. QED
      BY <2>4, <3>1, <3>2, RestingType DEF ReconFails, TypeOK
  <2>5. QED
    BY <1>21, <2>1, <2>2, <2>3, <2>4 DEF ReconStep
<1>22. CASE ReconDone
  BY <1>22, <1>a, EndTaskType DEF ReconDone, TypeOK, ProcessType
<1>23. CASE UNCHANGED vars
  BY <1>23 DEF vars, TypeOK
<1>24. QED
  BY <1>1, <1>2, <1>3, <1>4, <1>5, <1>6, <1>7, <1>8, <1>9, <1>10, <1>11,
     <1>12, <1>13, <1>14, <1>15, <1>16, <1>17, <1>18, <1>19, <1>20, <1>21,
     <1>22, <1>23 DEF Next, LoopStep
-----------------------------------------------------------------------------
(* Who has what in hand, within which task and under which lock.           *)

\* BeginRun, CandidatesForDeletion and MarkDeleted change neither whether a
\* row exists nor the content it caches.
LEMMA RowVersions ==
  ASSUME NEW row \in Row
  PROVE  /\ Found(Unseen(row)) <=> Found(row)
         /\ Unseen(row).version = row.version
         /\ Found(MissCounted(row)) <=> Found(row)
         /\ MissCounted(row).version = row.version
         /\ Found(MarkedDeleted(row)) <=> Found(row)
         /\ MarkedDeleted(row).version = row.version
  BY DEF Found, Unseen, MissCounted, MarkedDeleted, Row

\* The daemon starts with a crawl and the event log, nothing else.
LEMMA PlanShape ==
  ASSUME NEW c \in Commands, c = "run"
  PROVE  PlanOf(c) \in Seq({"crawl", "event"})
  BY DEF PlanOf, RunPlan

\* Before the first command nobody has anything in hand.
LEMMA InitShape == Init => Shape
  BY DEF Init, Shape, RowsWellFormed, WorkWellFormed, BatchWellFormed,
         ReconWellFormed, TaskDiscipline, LockDiscipline, Found, NoRow,
         Resting, ReconIdle, HandPc, EventPc, Worker

\* What the steps that only touch a worker or end a task preserve.
HandsShape ==
  WorkWellFormed /\ BatchWellFormed /\ ReconWellFormed /\ TaskDiscipline /\
  LockDiscipline

\* group.Wait: outside ReconcileTarget none of its goroutines is left.
LEMMA ReconIdleOutside ==
  ASSUME Discipline, task # "recon", NEW r \in Resource
  PROVE  recon[r].pc = "idle"
  BY DEF Discipline, Shape, ReconWellFormed

\* When a task returns, the main goroutine has nothing in hand and no lock.
LEMMA EndTaskShape ==
  ASSUME Discipline, NEW ok \in BOOLEAN, EndTask(ok),
         work'[Loop].pc = "idle", \A h \in Handler : work'[h] = work[h],
         \A r \in Resource : recon'[r].pc = "idle"
  PROVE  HandsShape'
<1> USE DEF Discipline, Shape
<1>1. \A w \in Worker : w = Loop \/ (w \in Handler /\ w # Loop)
  BY LoopAssumption DEF Worker
<1>2. WorkWellFormed'
  BY <1>1 DEF WorkWellFormed, ForEvent, HandPc, EventPc, Worker
<1>3. BatchWellFormed'
  BY DEF EndTask, BatchWellFormed
<1>4. ReconWellFormed'
  BY DEF ReconWellFormed
<1>5. TaskDiscipline'
  BY DEF EndTask, TaskDiscipline, EventPc
<1>6. LockDiscipline'
  <2>1. ASSUME NEW w \in Worker,
               \/ work'[w].pc \in {"fetch", "done", "failed"}
               \/ work'[w].pc \in HandPc
        PROVE  lock' = w
    <3>1. w \in Handler /\ w # Loop /\ work'[w] = work[w]
      BY <1>1, <2>1 DEF HandPc
    <3>2. lock = w
      BY <2>1, <3>1 DEF LockDiscipline, ForEvent, Worker
    <3>3. QED
      BY <3>1, <3>2 DEF EndTask
  <2>2. QED
    BY <2>1 DEF LockDiscipline, EndTask
<1>7. QED
  BY <1>2, <1>3, <1>4, <1>5, <1>6 DEF HandsShape

\* When materialize or a deletion returns, an event still has its worker and
\* its lock, and a command that gives up has let go of everything.
LEMMA ReturnShape ==
  ASSUME Discipline, NEW w \in Worker, work[w].pc \in HandPc,
         NEW ok \in BOOLEAN, Return(w, ok), UNCHANGED recon
  PROVE  HandsShape'
<1> USE DEF Discipline, Shape
<1>1. CASE w # Loop \/ task = "event"
  <2>1. /\ work' = [work EXCEPT ![w] = [Resting EXCEPT
                      !.pc = IF ok THEN "done" ELSE "failed",
                      !.ev = work[w].ev]]
        /\ UNCHANGED process
    BY <1>1 DEF Return
  <2>2. work \in [Worker -> Work] /\ work[w].ev \in Event /\ lock = w
    BY <1>1 DEF TypeOK, WorkWellFormed, LockDiscipline, ForEvent
  <2>3. /\ work'[w].pc \in {"done", "failed"} /\ work'[w].ev \in Event
        /\ \A v \in Worker \ {w} : work'[v] = work[v]
    BY <2>1, <2>2 DEF Resting
  <2>4. UNCHANGED <<cmd, plan, task, batch, lock>>
    BY <2>1 DEF process, command
  <2>5. WorkWellFormed'
    BY <2>3, <2>4 DEF WorkWellFormed, ForEvent, HandPc, EventPc
  <2>6. BatchWellFormed' /\ ReconWellFormed'
    BY <2>4 DEF BatchWellFormed, ReconWellFormed
  <2>7. TaskDiscipline'
    BY <1>1, <2>3, <2>4, LoopAssumption
    DEF TaskDiscipline, EventPc, HandPc, Worker
  <2>8. LockDiscipline'
    BY <2>2, <2>3, <2>4 DEF LockDiscipline, ForEvent, HandPc
  <2>9. QED
    BY <2>5, <2>6, <2>7, <2>8 DEF HandsShape
<1>2. CASE w = Loop /\ task # "event"
  <2>1. work' = [work EXCEPT ![w] = Resting]
    BY <1>2 DEF Return
  <2>2. /\ work'[Loop].pc = "idle"
        /\ \A h \in Handler : work'[h] = work[h]
    BY <1>2, <2>1, LoopAssumption DEF TypeOK, Worker, Resting
  <2>3. task \notin {"idle", "recon"}
    BY <1>2 DEF TaskDiscipline, HandPc
  <2>4. \A r \in Resource : recon'[r].pc = "idle"
    BY <2>3, ReconIdleOutside
  <2>5. CASE UNCHANGED process
    <3>1. UNCHANGED <<cmd, plan, task, batch, lock>>
      BY <2>5 DEF process, command
    <3>2. WorkWellFormed'
      BY <2>2, <3>1 DEF WorkWellFormed, ForEvent, HandPc, EventPc, Worker
    <3>3. BatchWellFormed' /\ ReconWellFormed'
      BY <2>4, <3>1 DEF BatchWellFormed, ReconWellFormed
    <3>4. TaskDiscipline'
      BY <2>2, <2>3, <3>1 DEF TaskDiscipline, EventPc
    <3>5. LockDiscipline'
      BY <2>2, <3>1 DEF LockDiscipline, ForEvent, HandPc, Worker
    <3>6. QED
      BY <3>2, <3>3, <3>4, <3>5 DEF HandsShape
  <2>6. CASE EndTask(FALSE)
    BY <2>2, <2>4, <2>6, EndTaskShape
  <2>7. QED
    BY <1>2, <2>5, <2>6 DEF Return
<1>3. QED
  BY <1>1, <1>2

\* A task starts in a command that runs, with nothing left of the last one.
LEMMA StartShape ==
  ASSUME Discipline, NEW t \in Tasks, Start(t)
  PROVE  /\ task = "idle" /\ task' = t /\ cmd' = cmd /\ cmd # "down"
         /\ work[Loop].pc = "idle"
         /\ batch = {}
         /\ \A r \in Resource : recon[r].pc = "idle"
         /\ cmd = "run" => plan' \in Seq({"crawl", "event"})
         /\ t \in {"retry", "prune"} => cmd # "run"
<1> USE DEF Discipline, Shape
<1>1. task = "idle" /\ task' = t /\ cmd' = cmd /\ cmd # "down"
  BY DEF Start, Due
<1>2. \A r \in Resource : recon[r].pc = "idle"
  BY <1>1, ReconIdleOutside
<1>3. cmd = "run" /\ plan # << >> =>
        Head(plan) \in {"crawl", "event"} /\ Tail(plan) \in Seq({"crawl", "event"})
  BY DEF TaskDiscipline
<1>4. cmd = "run" => plan' \in Seq({"crawl", "event"})
  BY <1>3 DEF Start, RestOfPlan, TaskDiscipline
<1>5. t \in {"retry", "prune"} => cmd # "run"
  BY <1>3 DEF Start, Due
<1>6. QED
  BY <1>1, <1>2, <1>4, <1>5 DEF TaskDiscipline

\* A worker goes on with what it has in hand.
LEMMA GoOnShape ==
  ASSUME Discipline, NEW w \in Worker, work[w].pc \in HandPc,
         NEW pc \in HandPc \ {"read", "saveSame"}, Become(w, pc),
         work[w].pc \in {"delete", "mark"} => pc \in {"delete", "mark"},
         UNCHANGED <<process, recon>>
  PROVE  HandsShape'
<1> USE DEF Discipline, Shape
<1>1. UNCHANGED <<cmd, plan, task, batch, lock, recon>>
  BY DEF process, command
<1>2. /\ work'[w].pc = pc /\ work'[w].res = work[w].res
      /\ work'[w].ver = work[w].ver /\ work'[w].ev = work[w].ev
      /\ \A v \in Worker \ {w} : work'[v] = work[v]
  BY DEF Become, TypeOK, Work
<1>3. WorkWellFormed'
  BY <1>1, <1>2 DEF WorkWellFormed, ForEvent, HandPc, EventPc
<1>4. BatchWellFormed' /\ ReconWellFormed'
  BY <1>1 DEF BatchWellFormed, ReconWellFormed
<1>5. TaskDiscipline'
  BY <1>1, <1>2 DEF TaskDiscipline, HandPc, EventPc, Worker
<1>6. LockDiscipline'
  BY <1>1, <1>2 DEF LockDiscipline, ForEvent, HandPc
<1>7. QED
  BY <1>3, <1>4, <1>5, <1>6 DEF HandsShape

\* What the row and the rest of the state keep when they are left alone.
LEMMA Frame ==
  ASSUME Shape
  PROVE  /\ UNCHANGED rows => RowsWellFormed'
         /\ UNCHANGED <<work, task>> => WorkWellFormed'
         /\ UNCHANGED <<batch, task>> => BatchWellFormed'
         /\ UNCHANGED <<recon, task>> => ReconWellFormed'
         /\ UNCHANGED <<cmd, plan, task, batch, work>> => TaskDiscipline'
         /\ UNCHANGED <<task, lock, work>> => LockDiscipline'
  BY DEF Shape, RowsWellFormed, WorkWellFormed, BatchWellFormed,
         ReconWellFormed, TaskDiscipline, LockDiscipline, ForEvent

\* No step breaks the discipline of tasks, hands and locks: the source's mutex
\* in HandleCloudEvent and syncSource, and the commands that run alone.
LEMMA NextShape == Discipline /\ [Next]_vars => Shape'
<1> SUFFICES ASSUME Discipline, [Next]_vars PROVE Shape'
  OBVIOUS
<1> USE DEF outside, store, process, command, reconciler, history, crawled
<1>a. TypeOK /\ Shape
  BY DEF Discipline
<1>b. HandsShape' /\ RowsWellFormed' => Shape'
  BY DEF HandsShape, Shape
<1>1. ASSUME NEW r \in Resource, NEW v \in Version \cup {None},
             SourceChanges(r, v)
      PROVE  Shape'
  BY <1>1, <1>a, Frame DEF SourceChanges, Shape
<1>2. ASSUME NEW r \in Resource, NEW rec \in Record \cup {None},
             TargetDrifts(r, rec)
      PROVE  Shape'
  BY <1>2, <1>a, Frame DEF TargetDrifts, Shape
<1>3. ASSUME NEW c \in Commands, NEW p \in Profile, StartCommand(c, p)
      PROVE  Shape'
  <2>1. TaskDiscipline'
    BY <1>3, <1>a, PlanShape DEF StartCommand, TaskDiscipline, Shape
  <2>2. QED
    BY <1>3, <1>a, <2>1, Frame DEF StartCommand, Shape
<1>4. CASE Exit
  <2>1. TaskDiscipline'
    BY <1>4, <1>a DEF Exit, TaskDiscipline, Shape
  <2>2. QED
    BY <1>4, <1>a, <2>1, Frame DEF Exit, Shape
<1>5. CASE Crash
  <2>1. \A w \in Worker : work'[w] = Resting /\ Resting.pc = "idle"
    BY <1>5 DEF Crash, Resting
  <2>2. Loop \in Worker /\ Handler \subseteq Worker
    BY DEF Worker
  <2>3. WorkWellFormed' /\ LockDiscipline'
    BY <1>5, <2>1
    DEF Crash, WorkWellFormed, LockDiscipline, HandPc, EventPc
  <2>4. TaskDiscipline'
    BY <1>5, <2>1, <2>2 DEF Crash, TaskDiscipline, EventPc
  <2>5. BatchWellFormed' /\ ReconWellFormed'
    BY <1>5 DEF Crash, BatchWellFormed, ReconWellFormed, ReconIdle
  <2>6. RowsWellFormed'
    BY <1>5, <1>a, Frame DEF Crash
  <2>7. QED
    BY <2>3, <2>4, <2>5, <2>6 DEF Shape
<1>6. ASSUME NEW t \in Tasks, TaskFailsAtStart(t)
      PROVE  Shape'
  <2>1. TaskDiscipline'
    BY <1>6, <1>a DEF TaskFailsAtStart, RestOfPlan, Due, TaskDiscipline, Shape
  <2>2. QED
    BY <1>6, <1>a, <2>1, Frame DEF TaskFailsAtStart, Shape
<1>7. CASE StartCrawl
  <2>1. Start("crawl") /\ "crawl" \in Tasks
    BY <1>7 DEF StartCrawl, Tasks
  <2>2. TaskDiscipline'
    BY <1>7, <1>a, <2>1, StartShape DEF StartCrawl, TaskDiscipline, EventPc, Discipline, Shape
  <2>3. WorkWellFormed'
    BY <1>7, <1>a, <2>1, StartShape
    DEF StartCrawl, WorkWellFormed, ForEvent, HandPc, EventPc, Shape
  <2>7. \A w \in Worker : work[w].pc \notin {"fetch", "done", "failed"}
    BY <1>7, <1>a, NobodyAssumption DEF StartCrawl, LockDiscipline, Shape
  <2>8. \A w \in Worker : work[w].pc \in HandPc => w = Loop
    BY <1>7, <1>a, NobodyAssumption
    DEF StartCrawl, LockDiscipline, ForEvent, Shape
  <2>9. LockDiscipline'
    BY <1>7, <2>7, <2>8 DEF StartCrawl, LockDiscipline
  <2>4. BatchWellFormed' /\ ReconWellFormed'
    BY <1>7, <1>a, <2>1, StartShape DEF StartCrawl, BatchWellFormed, ReconWellFormed, Discipline
  <2>5. RowsWellFormed'
    BY <1>7, <1>a, RowVersions DEF StartCrawl, RowsWellFormed, Shape, TypeOK
  <2>6. QED
    BY <2>2, <2>3, <2>4, <2>5, <2>9 DEF Shape
<1>d. ASSUME NEW t \in Tasks \ {"crawl"}, Start(t), UNCHANGED <<rows, lock, work>>
      PROVE  RowsWellFormed' /\ WorkWellFormed' /\ LockDiscipline' /\
             (t # "recon" \/ batch' = {} => TaskDiscipline')
  <2>1. /\ task' \notin {"crawl", "sweep"} /\ work[Loop].pc = "idle"
        /\ task = "idle"
    BY <1>d, StartShape DEF Tasks
  <2>4. WorkWellFormed'
    BY <1>d, <1>a, <2>1
    DEF WorkWellFormed, ForEvent, HandPc, EventPc, Shape
  <2>5. LockDiscipline'
    BY <1>d, <1>a, <2>1 DEF LockDiscipline, ForEvent, HandPc, Shape
  <2>2. t # "recon" \/ batch' = {} => TaskDiscipline'
    BY <1>d, <1>a, StartShape DEF TaskDiscipline, EventPc, Shape, Tasks
  <2>3. QED
    BY <1>d, <1>a, <2>2, <2>4, <2>5, Frame
<1>8. CASE StartRetryFailures
  <2>1. Start("retry") /\ "retry" \in Tasks
    BY <1>8 DEF StartRetryFailures, Tasks
  <2>2. BatchWellFormed' /\ ReconWellFormed'
    BY <1>8, <1>a, <2>1, StartShape
    DEF StartRetryFailures, BatchWellFormed, ReconWellFormed, RowsWellFormed,
        Found, IsFailed, Shape
  <2>3. QED
    BY <1>8, <1>d, <2>1, <2>2 DEF StartRetryFailures, Shape
<1>9. CASE StartPrune
  <2>1. Start("prune") /\ "prune" \in Tasks
    BY <1>9 DEF StartPrune, Tasks
  <2>2. BatchWellFormed' /\ ReconWellFormed'
    BY <1>9, <1>a, <2>1, StartShape
    DEF StartPrune, BatchWellFormed, ReconWellFormed, Shape
  <2>3. QED
    BY <1>9, <1>d, <2>1, <2>2 DEF StartPrune, Shape
<1>10. CASE StartRetryEvents
  <2>1. Start("event") /\ "event" \in Tasks
    BY <1>10 DEF StartRetryEvents, Tasks
  <2>2. BatchWellFormed' /\ ReconWellFormed'
    BY <1>10, <1>a, <2>1, StartShape
    DEF StartRetryEvents, BatchWellFormed, ReconWellFormed, Shape
  <2>3. QED
    BY <1>10, <1>d, <2>1, <2>2 DEF StartRetryEvents, Shape
<1>11. CASE StartReconcile
  <2>1. Start("recon") /\ "recon" \in Tasks
    BY <1>11 DEF StartReconcile, Tasks
  <2>2. BatchWellFormed' /\ ReconWellFormed' /\ batch' = {}
    BY <1>11, <1>a, <2>1, StartShape
    DEF StartReconcile, BatchWellFormed, ReconWellFormed, RowsWellFormed,
        Found, IsActive, ReconIdle, Shape
  <2>3. QED
    BY <1>11, <1>d, <2>1, <2>2 DEF StartReconcile, Shape
<1>12. ASSUME NEW P \in SUBSET unlisted, FetchPage(P)
       PROVE  Shape'
  <2>1. BatchWellFormed'
    BY <1>12, <1>a DEF FetchPage, BatchWellFormed, TypeOK
  <2>2. TaskDiscipline'
    BY <1>12, <1>a DEF FetchPage, TaskDiscipline, Shape
  <2>3. QED
    BY <1>12, <1>a, <2>1, <2>2, Frame DEF FetchPage, Shape
<1>13. ASSUME NEW skipped \in BOOLEAN, CrawlStops(skipped)
       PROVE  Shape'
  BY <1>13, <1>a, <1>b, EndTaskShape, ReconIdleOutside, Frame
  DEF CrawlStops, Worker
<1>e. \A r \in Resource : rows[r] \in Row
  BY <1>a DEF TypeOK
<1>f. rows' = [r \in Resource |-> MissCounted(rows[r])] => RowsWellFormed'
  BY <1>a, <1>e, RowVersions DEF RowsWellFormed, Shape
<1>14. CASE Sweep
  <2>1. WorkWellFormed'
    BY <1>14, <1>a DEF Sweep, CrawlComplete, WorkWellFormed, ForEvent, HandPc, EventPc, Shape
  <2>2. BatchWellFormed'
    BY <1>14 DEF Sweep, BatchWellFormed
  <2>3. ReconWellFormed'
    BY <1>14, <1>a, ReconIdleOutside DEF Sweep, CrawlComplete, ReconWellFormed, Discipline
  <2>4. TaskDiscipline'
    BY <1>14, <1>a DEF Sweep, CrawlComplete, TaskDiscipline, EventPc, Shape
  <2>5. LockDiscipline'
    BY <1>14, <1>a DEF Sweep, CrawlComplete, LockDiscipline, ForEvent, HandPc, Shape
  <2>6. QED
    BY <1>14, <1>f, <2>1, <2>2, <2>3, <2>4, <2>5 DEF Sweep, Shape
<1>15. CASE SweepFails
  <2>1. HandsShape'
    BY <1>15, <1>a, EndTaskShape, ReconIdleOutside
    DEF SweepFails, CrawlComplete, Worker
  <2>2. RowsWellFormed'
    BY <1>15, <1>a, <1>f, Frame DEF SweepFails
  <2>3. QED
    BY <1>b, <2>1, <2>2
<1>16. ASSUME NEW i \in batch, NextItem(i)
       PROVE  Shape'
  <2>1. /\ work'[Loop].pc = IF task \in {"crawl", "retry"} THEN "read"
                                                          ELSE "delete"
        /\ work'[Loop].res = i.res /\ work'[Loop].ver = i.ver
        /\ \A h \in Worker \ {Loop} : work'[h] = work[h]
    BY <1>16, <1>a DEF NextItem, TypeOK, Worker, Resting
  <2>2. WorkWellFormed'
    BY <1>16, <1>a, <2>1
    DEF NextItem, WorkWellFormed, BatchWellFormed, ForEvent, HandPc, EventPc, Shape
  <2>3. BatchWellFormed'
    BY <1>16, <1>a DEF NextItem, BatchWellFormed, Shape
  <2>4. TaskDiscipline'
    BY <1>16, <1>a, <2>1, LoopAssumption DEF NextItem, TaskDiscipline, EventPc, Worker, Shape
  <2>5. LockDiscipline'
    BY <1>16, <1>a, <2>1 DEF NextItem, LockDiscipline, ForEvent, HandPc, Shape
  <2>6. QED
    BY <1>16, <1>a, <2>2, <2>3, <2>4, <2>5, Frame DEF NextItem, Shape
<1>g. ASSUME NEW w \in Worker, NEW e \in Event, Enqueue(w, e),
             work[w].pc = "idle", UNCHANGED <<cmd, plan, task, lock>>,
             w = Loop => task = "event", w # Loop => cmd = "run",
             batch' \subseteq batch
      PROVE  WorkWellFormed' /\ TaskDiscipline' /\ LockDiscipline'
  <2>1. /\ \A v \in Worker \ {w} : work'[v] = work[v]
        /\ \/ work'[w] = work[w]
           \/ work'[w].pc \in {"lock", "requeue"} /\ work'[w].ev = e
    BY <1>g, <1>a DEF Enqueue, TypeOK, Resting
  <2>2. WorkWellFormed'
    BY <1>g, <1>a, <2>1 DEF WorkWellFormed, ForEvent, HandPc, EventPc, Shape
  <2>3. TaskDiscipline'
    BY <1>g, <1>a, <2>1, LoopAssumption
    DEF TaskDiscipline, EventPc, Worker, Shape
  <2>4. LockDiscipline'
    BY <1>g, <1>a, <2>1 DEF LockDiscipline, ForEvent, HandPc, Shape
  <2>5. QED
    BY <2>2, <2>3, <2>4
<1>17. ASSUME NEW i \in batch, NextEvent(i)
       PROVE  Shape'
  <2>1. i.ev \in Event /\ Loop \in Worker
    BY <1>17, <1>a DEF NextEvent, BatchWellFormed, Worker, Shape
  <2>2. BatchWellFormed'
    BY <1>17, <1>a DEF NextEvent, BatchWellFormed, Shape
  <2>3. QED
    BY <1>17, <1>a, <1>g, <2>1, <2>2, Frame DEF NextEvent, Shape
<1>18. CASE BatchDone
  BY <1>18, <1>a, <1>b, EndTaskShape, ReconIdleOutside, Frame
  DEF BatchDone, Worker
<1>19. ASSUME NEW w \in Worker, WorkerStep(w)
       PROVE  Shape'
  <2>a. work[w] \in Work /\ work \in [Worker -> Work]
    BY <1>a DEF TypeOK
  <2>1. CASE Read(w)
    <3>1. /\ work'[w].pc \in {"saveFailed", "saveSame", "put"}
          /\ work'[w].res = work[w].res /\ work'[w].ver = work[w].ver
          /\ work'[w].ev = work[w].ev
          /\ work'[w].prev = rows[work[w].res]
          /\ work'[w].pc = "saveSame" =>
               UpToDate(rows[work[w].res], work[w].ver,
                        Mapping[profile][work[w].ver])
          /\ \A v \in Worker \ {w} : work'[v] = work[v]
      BY <2>1, <2>a DEF Read, Work
    <3>2. work[w].res \in Resource
      BY <2>1, <1>a DEF Read, WorkWellFormed, HandPc, Shape
    <3>7. work'[w].pc = "saveSame" =>
            Found(work'[w].prev) /\ work'[w].prev.version \in Version
      BY <1>a, <3>1, <3>2
      DEF RowsWellFormed, UpToDate, IsActive, Found, Shape
    <3>8. UNCHANGED task /\ work[w].pc = "read"
      BY <2>1 DEF Read
    <3>3. WorkWellFormed'
      BY <1>a, <3>1, <3>7, <3>8
      DEF WorkWellFormed, ForEvent, HandPc, EventPc, Shape
    <3>4. TaskDiscipline'
      BY <2>1, <1>a, <3>1 DEF Read, TaskDiscipline, EventPc, Worker, Shape
    <3>5. LockDiscipline'
      BY <2>1, <1>a, <3>1 DEF Read, LockDiscipline, ForEvent, HandPc, Shape
    <3>6. QED
      BY <2>1, <1>a, <3>3, <3>4, <3>5, Frame DEF Read, Shape
  <2>2. CASE ReadFails(w)
    BY <2>2, <1>a, <1>b, ReturnShape, Frame DEF ReadFails, HandPc
  <2>3. CASE Put(w)
    BY <2>3, <1>a, <1>b, GoOnShape, Frame DEF Put, HandPc
  <2>4. CASE PutFails(w)
    BY <2>4, <1>a, <1>b, GoOnShape, Frame DEF PutFails, HandPc
  <2>5. CASE Save(w)
    <3>1. HandsShape'
      BY <2>5, ReturnShape DEF Save, HandPc
    <3>2. work[w].res \in Resource /\ SavedRow(w).version \in Version
      BY <2>5, <1>a
      DEF Save, SavedRow, SameRow, NewRow, FailedRow, WorkWellFormed, HandPc,
          Shape, Work, Row, TypeOK
    <3>3. RowsWellFormed'
      BY <2>5, <1>a, <3>2 DEF Save, RowsWellFormed, Shape, TypeOK
    <3>4. QED
      BY <1>b, <3>1, <3>3
  <2>6. CASE SaveFails(w)
    BY <2>6, <1>a, <1>b, ReturnShape, Frame DEF SaveFails, HandPc
  <2>7. CASE Delete(w)
    BY <2>7, <1>a, <1>b, GoOnShape, Frame DEF Delete, HandPc
  <2>8. CASE DeleteFails(w)
    BY <2>8, <1>a, <1>b, ReturnShape, Frame DEF DeleteFails, HandPc
  <2>9. CASE Mark(w)
    <3>1. HandsShape'
      BY <2>9, ReturnShape DEF Mark, HandPc
    <3>2. work[w].res \in Resource
      BY <2>9, <1>a DEF Mark, WorkWellFormed, HandPc, Shape
    <3>3. RowsWellFormed'
      BY <2>9, <1>a, <1>e, <3>2, RowVersions
      DEF Mark, RowsWellFormed, Shape, TypeOK
    <3>4. QED
      BY <1>b, <3>1, <3>3
  <2>10. CASE MarkFails(w)
    BY <2>10, <1>a, <1>b, ReturnShape, Frame DEF MarkFails, HandPc
  <2>b. ASSUME NEW job \in Work, work' = [work EXCEPT ![w] = job],
               job.pc \in EventPc \cup {"idle"}, work[w].pc \in EventPc,
               job.pc # "idle" => job.ev = work[w].ev,
               UNCHANGED <<cmd, plan, task, batch>>
        PROVE  WorkWellFormed' /\ TaskDiscipline'
    <3>1. work'[w] = job /\ \A v \in Worker \ {w} : work'[v] = work[v]
      BY <2>a, <2>b
    <3>2. WorkWellFormed'
      BY <1>a, <2>b, <3>1
      DEF WorkWellFormed, ForEvent, HandPc, EventPc, Shape
    <3>3. TaskDiscipline'
      BY <1>a, <2>b, <3>1 DEF TaskDiscipline, EventPc, Worker, Shape
    <3>4. QED
      BY <3>2, <3>3
  <2>c. ASSUME NEW pc \in {"lock", "fetch", "failed"}
        PROVE  [work[w] EXCEPT !.pc = pc] \in Work
    BY <2>a DEF Work, WorkPc
  <2>11. CASE Requeue(w)
    <3>1. WorkWellFormed' /\ TaskDiscipline'
      BY <2>11, <2>a, <2>b, <2>c DEF Requeue, Become, EventPc, Work
    <3>2. LockDiscipline'
      BY <2>11, <1>a, <2>a
      DEF Requeue, Become, LockDiscipline, ForEvent, HandPc, Shape
    <3>3. QED
      BY <2>11, <1>a, <3>1, <3>2, Frame DEF Requeue, Shape
  <2>12. CASE RequeueFails(w)
    <3>1. WorkWellFormed' /\ TaskDiscipline'
      BY <2>12, <2>b, RestingType DEF RequeueFails, Resting, EventPc
    <3>2. LockDiscipline'
      BY <2>12, <1>a, <2>a
      DEF RequeueFails, Resting, LockDiscipline, ForEvent, HandPc, Shape
    <3>3. QED
      BY <2>12, <1>a, <3>1, <3>2, Frame DEF RequeueFails, Shape
  <2>13. CASE AcquireLock(w)
    <3>1. WorkWellFormed' /\ TaskDiscipline'
      BY <2>13, <2>a, <2>b, <2>c DEF AcquireLock, Become, EventPc, Work
    <3>2. \A v \in Worker : v # lock
      BY <2>13, NobodyAssumption DEF AcquireLock
    <3>3. LockDiscipline'
      BY <2>13, <1>a, <2>a, <3>2
      DEF AcquireLock, Become, LockDiscipline, ForEvent, HandPc, Shape, Worker
    <3>4. QED
      BY <2>13, <1>a, <3>1, <3>3, Frame DEF AcquireLock, Shape
  <2>14. CASE FetchSubject(w)
    <3>1. /\ work'[w].pc \in {"done", "delete", "read"}
          /\ work'[w].ev = work[w].ev
          /\ work'[w].pc \in {"delete", "read"} =>
               work'[w].res = Subject[work[w].ev]
          /\ work'[w].pc = "read" =>
               /\ work'[w].ver = source[Subject[work[w].ev]]
               /\ work'[w].ver # None
          /\ \A v \in Worker \ {w} : work'[v] = work[v]
      BY <2>14, <2>a DEF FetchSubject, Work
    <3>2. work[w].ev \in Event /\ lock = w /\ ForEvent(w)
      BY <2>14, <1>a
      DEF FetchSubject, WorkWellFormed, LockDiscipline, TaskDiscipline,
          ForEvent, EventPc, Shape
    <3>3. Subject[work[w].ev] \in Resource
      BY <3>2, SubjectAssumption
    <3>4. source[Subject[work[w].ev]] \in Version \cup {None}
      BY <1>a, <3>3 DEF TypeOK
    <3>5. WorkWellFormed'
      BY <2>14, <1>a, <3>1, <3>2, <3>3, <3>4
      DEF FetchSubject, WorkWellFormed, ForEvent, HandPc, EventPc, Shape
    <3>6. TaskDiscipline'
      BY <2>14, <1>a, <3>1, <3>2
      DEF FetchSubject, TaskDiscipline, ForEvent, EventPc, Worker, Shape
    <3>7. LockDiscipline'
      BY <2>14, <1>a, <3>1, <3>2
      DEF FetchSubject, LockDiscipline, ForEvent, HandPc, Shape
    <3>8. QED
      BY <2>14, <1>a, <3>5, <3>6, <3>7, Frame DEF FetchSubject, Shape
  <2>15. CASE FetchFails(w)
    <3>1. WorkWellFormed' /\ TaskDiscipline'
      BY <2>15, <2>a, <2>b, <2>c DEF FetchFails, Become, EventPc, Work
    <3>2. LockDiscipline'
      BY <2>15, <1>a, <2>a
      DEF FetchFails, Become, LockDiscipline, ForEvent, HandPc, Shape
    <3>3. QED
      BY <2>15, <1>a, <3>1, <3>2, Frame DEF FetchFails, Shape
  <2>16. CASE Complete(w)
    <3>1. WorkWellFormed' /\ TaskDiscipline'
      BY <2>16, <2>b, RestingType DEF Complete, Resting, EventPc
    <3>2. lock = w /\ (w = Loop => task = "event")
      BY <2>16, <1>a
      DEF Complete, LockDiscipline, TaskDiscipline, EventPc, Shape
    <3>3. /\ work'[w].pc = "idle"
          /\ \A v \in Worker \ {w} : work'[v] = work[v]
      BY <2>16, <2>a DEF Complete, Resting
    <3>4. task' \notin {"crawl", "sweep"}
      BY <2>16, <1>a, <3>2 DEF Complete, LockDiscipline, Shape
    <3>5. LockDiscipline'
      BY <2>16, <1>a, <3>2, <3>3, <3>4
      DEF Complete, LockDiscipline, ForEvent, HandPc, Shape
    <3>6. QED
      BY <2>16, <1>a, <3>1, <3>5, Frame DEF Complete, Shape
  <2>17. QED
    BY <1>19, <2>1, <2>2, <2>3, <2>4, <2>5, <2>6, <2>7, <2>8, <2>9, <2>10,
       <2>11, <2>12, <2>13, <2>14, <2>15, <2>16 DEF WorkerStep
<1>20. ASSUME NEW h \in Handler, NEW e \in Event, DeliverEvent(h, e)
       PROVE  Shape'
  BY <1>20, <1>a, <1>g, LoopAssumption, Frame DEF DeliverEvent, Worker, Shape
<1>21. ASSUME NEW r \in Resource, ReconStep(r)
       PROVE  Shape'
  <2>1. CASE ReconGet(r)
    <3>1. ReconWellFormed'
      BY <2>1, <1>a DEF ReconGet, ReconWellFormed, ReconIdle, Shape, TypeOK, Recon
    <3>2. QED
      BY <2>1, <1>a, <3>1, Frame DEF ReconGet, Shape
  <2>2. CASE ReconPut(r)
    <3>1. ReconWellFormed'
      BY <2>2, <1>a DEF ReconPut, ReconWellFormed, Shape, TypeOK, Recon
    <3>2. QED
      BY <2>2, <1>a, <3>1, Frame DEF ReconPut, Shape
  <2>3. CASE ReconSave(r)
    <3>1. ReconWellFormed'
      BY <2>3, <1>a DEF ReconSave, ReconWellFormed, ReconIdle, Shape, TypeOK, Recon
    <3>2. RefreshedRow(recon[r].row, ReconRecord(r)).version \in Version
      BY <2>3, <1>a
      DEF ReconSave, Refreshing, RefreshedRow, ReconWellFormed, Shape, TypeOK, Recon, Row
    <3>3. RowsWellFormed'
      BY <2>3, <1>a, <3>2 DEF ReconSave, RowsWellFormed, Shape, TypeOK
    <3>4. QED
      BY <2>3, <1>a, <3>1, <3>3, Frame DEF ReconSave, Shape
  <2>4. CASE ReconFails(r)
    <3>1. ReconWellFormed'
      BY <2>4, <1>a DEF ReconFails, ReconWellFormed, ReconIdle, Shape, TypeOK, Recon
    <3>2. QED
      BY <2>4, <1>a, <3>1, Frame DEF ReconFails, Shape
  <2>5. QED
    BY <1>21, <2>1, <2>2, <2>3, <2>4 DEF ReconStep
<1>22. CASE ReconDone
  <2>1. work'[Loop].pc = "idle"
    BY <1>22, <1>a DEF ReconDone, TaskDiscipline, Shape
  <2>2. QED
    BY <1>22, <1>a, <1>b, <2>1, EndTaskShape, Frame DEF ReconDone, Worker
<1>23. CASE UNCHANGED vars
  BY <1>23, <1>a, Frame DEF vars, Shape
<1>24. QED
  BY <1>1, <1>2, <1>3, <1>4, <1>5, <1>6, <1>7, <1>8, <1>9, <1>10, <1>11,
     <1>12, <1>13, <1>14, <1>15, <1>16, <1>17, <1>18, <1>19, <1>20, <1>21,
     <1>22, <1>23 DEF Next, LoopStep

-----------------------------------------------------------------------------
(* Consequences the other proofs cite.                                     *)

\* Nobody works on a resource while the source's mutex is free or the crawl
\* has it, and the main goroutine has nothing in hand.
LEMMA NobodyCommitted ==
  ASSUME Discipline, lock \in {None, Loop}, work[Loop].pc = "idle"
  PROVE  \A w \in Worker : work[w].pc \notin HandPc
<1>1. ASSUME NEW w \in Worker, work[w].pc \in HandPc
      PROVE  FALSE
  <2>1. w # Loop
    BY <1>1 DEF HandPc
  <2>2. lock = w
    BY <1>1, <2>1 DEF Discipline, Shape, LockDiscipline, ForEvent
  <2>3. QED
    BY <2>1, <2>2, NobodyAssumption
<1>2. QED
  BY <1>1

\* Nor does anybody when no command is running.
LEMMA NobodyWhenDown ==
  ASSUME Discipline, cmd = "down"
  PROVE  /\ \A w \in Worker : work[w].pc = "idle"
         /\ \A r \in Resource : recon[r].pc = "idle"
<1>1. task = "idle" /\ work[Loop].pc = "idle"
  BY DEF Discipline, Shape, TaskDiscipline
<1>2. \A h \in Handler : work[h].pc = "idle"
  BY DEF Discipline, Shape, TaskDiscipline
<1>3. QED
  BY <1>1, <1>2, ReconIdleOutside DEF Worker

\* When a worker returns it lets go of the resource; the others keep theirs.
LEMMA ReturnLetsGo ==
  ASSUME Discipline, NEW w \in Worker, NEW ok \in BOOLEAN, Return(w, ok)
  PROVE  /\ work'[w].pc \notin HandPc
         /\ \A v \in Worker \ {w} : work'[v] = work[v]
         /\ profile' = profile
<1>1. work \in [Worker -> Work]
  BY DEF Discipline, TypeOK
<1>2. profile' = profile
  BY DEF Return, EndTask, process, command
<1>3. work'[w].pc \in {"idle", "done", "failed"}
  <2>1. CASE w # Loop \/ task = "event"
    BY <1>1, <2>1 DEF Return, Resting
  <2>2. CASE ~(w # Loop \/ task = "event")
    BY <1>1, <2>2 DEF Return, Resting
  <2>3. QED
    BY <2>1, <2>2
<1>4. QED
  BY <1>1, <1>2, <1>3 DEF Return, HandPc

\* A worker that goes on changes its program point and nothing else.
LEMMA BecomeKeeps ==
  ASSUME Discipline, NEW w \in Worker, NEW pc, Become(w, pc)
  PROVE  /\ work'[w].pc = pc
         /\ work'[w].res = work[w].res /\ work'[w].ver = work[w].ver
         /\ work'[w].prev = work[w].prev
         /\ \A v \in Worker \ {w} : work'[v] = work[v]
  BY DEF Become, Discipline, TypeOK, Work

-----------------------------------------------------------------------------
\* The inductive invariant: the types, and who has which resource or event in
\* hand, within which task and under which lock.
THEOREM SpecDiscipline == Spec => []Discipline
<1>1. Init => Discipline
  BY InitType, InitShape DEF Discipline
<1>2. Discipline /\ [Next]_vars => Discipline'
  BY NextType, NextShape DEF Discipline
<1>3. QED
  BY <1>1, <1>2, PTL DEF Spec

\* Every state of every run of the commands has its type, for any resources,
\* contents, mapping, handlers, threshold and number of crashes or faults.
THEOREM SpecTypeOK == Spec => []TypeOK
<1>1. Discipline => TypeOK
  BY DEF Discipline
<1>2. QED
  BY <1>1, SpecDiscipline, PTL

\* The discipline of the locks keeps two goroutines off one resource.
LEMMA DisciplineOneWorker == Discipline => OneWorkerPerResource
<1> SUFFICES ASSUME Discipline, NEW r \in Resource,
                    NEW v \in Worker, NEW w \in Worker,
                    InHand(v, r), InHand(w, r)
             PROVE  v = w
  BY DEF OneWorkerPerResource
<1>1. ASSUME NEW h \in Worker, InHand(h, r), InHand(Loop, r),
             h # Loop, task # "event"
      PROVE  FALSE
  <2>1. lock = h
    BY <1>1 DEF Discipline, Shape, LockDiscipline, InHand, ForEvent
  <2>2. task \in {"retry", "prune"}
    BY <1>1, <2>1
    DEF Discipline, Shape, LockDiscipline, TaskDiscipline, TypeOK, Tasks,
        InHand, HandPc
  <2>3. QED
    BY <1>1, <2>2
    DEF Discipline, Shape, TaskDiscipline, InHand, HandPc, Worker
<1>2. CASE ForEvent(v) /\ ForEvent(w)
  BY <1>2 DEF Discipline, Shape, LockDiscipline, InHand
<1>3. CASE ~(ForEvent(v) /\ ForEvent(w))
  BY <1>1, <1>3 DEF ForEvent
<1>4. QED
  BY <1>2, <1>3

\* No two goroutines ever materialize or delete the same resource at the same
\* time: the source's mutex covers the crawl and every event, and the commands
\* that take no mutex run with no handler beside them.
THEOREM SpecOneWorker == Spec => []OneWorkerPerResource
  BY DisciplineOneWorker, SpecDiscipline, PTL

-----------------------------------------------------------------------------
(* Harvest keeps the promise of EventLog: its initial states map to          *)
(* EventLog's, and every step maps to a step of EventLog or leaves what it   *)
(* maps to alone. Discipline tells who holds the source's mutex, which is    *)
(* why events are served one at a time.                                      *)

\* The state of the event log as EventLog sees it.
Hand == [w \in Worker |-> InLog(w)]

Nothing == [ev |-> None, stage |-> "none"]

\* Nobody is no worker, and no event.
LEMMA NoneApart == None \notin Worker /\ None \notin Event /\ Loop \in Worker
  BY NobodyAssumption DEF Worker

\* What a goroutine has in hand depends on its own record and on whether it
\* holds the mutex.
LEMMA InLogFrame ==
  ASSUME NEW v \in Worker, work'[v] = work[v], (lock' = v) = (lock = v)
  PROVE  InLog(v)' = InLog(v)
  BY DEF InLog

\* Who has nothing in hand, before and after, shows nothing,
LEMMA InLogIdle ==
  ASSUME NEW v \in Worker, work[v].pc = "idle", work'[v].pc = "idle"
  PROVE  InLog(v)' = InLog(v)
  BY DEF InLog

\* and what happens between the fetch of a subject and the last statement is
\* one stage.
LEMMA InLogServing ==
  ASSUME NEW v \in Worker,
         work[v].pc \in HandPc \cup {"fetch"},
         work'[v].pc \in HandPc \cup {"fetch"},
         work'[v].ev = work[v].ev, lock' = lock
  PROVE  InLog(v)' = InLog(v)
  BY DEF InLog, HandPc

\* A step that changes no status and nobody's hand is a stutter.
LEMMA Stutters ==
  ASSUME UNCHANGED events, \A v \in Worker : InLog(v)' = InLog(v)
  PROVE  UNCHANGED Log!logVars
  BY DEF Log!logVars

\* A step after which some goroutine has nothing in hand, and that changes
\* nothing else, has forgotten.
LEMMA Forgets ==
  ASSUME NEW W \in SUBSET Worker, UNCHANGED events,
         \A v \in W : InLog(v)' = Nothing,
         \A v \in Worker \ W : InLog(v)' = InLog(v)
  PROVE  Log!Next
<1>1. Log!Forget(W)
  BY DEF Log!Forget, Log!Empty, Nothing
<1>2. QED
  BY <1>1 DEF Log!Next

\* A step that moves one goroutine's event from one stage to another.
LEMMA Reaches ==
  ASSUME NEW w \in Worker, NEW e, NEW from, NEW to,
         InLog(w) = [ev |-> e, stage |-> from],
         InLog(w)' = [ev |-> e, stage |-> to],
         \A v \in Worker \ {w} : InLog(v)' = InLog(v)
  PROVE  [v \in Worker |-> InLog(v)]' =
           [[v \in Worker |-> InLog(v)] EXCEPT ![w].stage = to]
<1>1. InLog(w)' = [InLog(w) EXCEPT !.stage = to]
  OBVIOUS
<1> HIDE DEF InLog
<1>2. QED
  BY <1>1

\* Who serves an event, as EventLog sees it, holds the mutex.
LEMMA ServingHoldsLock ==
  ASSUME NEW w \in Worker, InLog(w).stage \in {"serving", "ok", "error"}
  PROVE  lock = w
  BY DEF InLog

\* materialize, or a deletion, returns: within an event it was served, and
\* otherwise the log is not concerned.
LEMMA ReturnLog ==
  ASSUME Discipline, NEW w \in Worker, NEW ok \in BOOLEAN,
         work[w].pc \in HandPc, Return(w, ok), UNCHANGED events
  PROVE  Log!Next
<1> USE DEF Discipline, Shape
<1>1. CASE ForEvent(w)
  <2>1. work[w].ev \in Event /\ lock = w
    BY <1>1 DEF WorkWellFormed, LockDiscipline
  <2>2. lock' = lock /\ \A v \in Worker \ {w} : work'[v] = work[v]
    BY <1>1 DEF Return, ForEvent, process, TypeOK
  <2>3. InLog(w) = [ev |-> work[w].ev, stage |-> "serving"]
    BY <2>1, NoneApart DEF InLog, HandPc
  <2> DEFINE result == IF ok THEN "ok" ELSE "error"
  <2>4. work'[w].ev = work[w].ev
        /\ work'[w].pc = IF ok THEN "done" ELSE "failed"
    BY <1>1 DEF Return, ForEvent, TypeOK, Resting
  <2>5. InLog(w)' = [ev |-> work[w].ev, stage |-> result]
    BY <2>1, <2>2, <2>4, NoneApart DEF InLog
  <2>6. \A v \in Worker \ {w} : InLog(v)' = InLog(v)
    BY <2>2, InLogFrame
  <2>7. Log!Served(w, result)
    BY <2>3, <2>5, <2>6, Reaches DEF Log!Served, Log!Reach
  <2>8. QED
    BY <2>7 DEF Log!Next
<1>2. CASE ~ForEvent(w)
  <2>1. w = Loop /\ work'[w] = Resting
    BY <1>2 DEF Return, ForEvent, TypeOK
  <2>2. \A v \in Worker \ {w} : work'[v] = work[v]
    BY <1>2 DEF Return, ForEvent, TypeOK
  <2>3. lock' = lock \/ (lock = Loop /\ lock' = None)
    BY <1>2 DEF Return, ForEvent, process, EndTask
  <2>4. InLog(w)' = Nothing
    BY <2>1 DEF InLog, Resting, Nothing
  <2>5. \A v \in Worker \ {w} : InLog(v)' = InLog(v)
    BY <2>1, <2>2, <2>3, InLogFrame, NoneApart
  <2>6. {w} \in SUBSET Worker /\ (\A v \in {w} : InLog(v)' = Nothing)
    BY <2>4
  <2>7. QED
    BY <2>5, <2>6, Forgets
<1>3. QED
  BY <1>1, <1>2

\* A step of a goroutine between the fetch and its last statement, the rest of
\* the process being as it was.
LEMMA ServingLog ==
  ASSUME Discipline, NEW w \in Worker,
         work[w].pc \in HandPc \cup {"fetch"},
         work'[w].pc \in HandPc \cup {"fetch"}, work'[w].ev = work[w].ev,
         \A v \in Worker \ {w} : work'[v] = work[v],
         lock' = lock, UNCHANGED events
  PROVE  UNCHANGED Log!logVars
<1>1. \A v \in Worker \ {w} : InLog(v)' = InLog(v)
  BY InLogFrame
<1>2. InLog(w)' = InLog(w)
  BY InLogServing
<1>3. QED
  BY <1>1, <1>2, Stutters

\* A step of the main goroutine between two items: it has no event in hand
\* before and after.
LEMMA IdleLog ==
  ASSUME Discipline, UNCHANGED <<work, events>>,
         work[Loop].pc = "idle",
         lock' = lock \/ {lock, lock'} = {Loop, None}
  PROVE  UNCHANGED Log!logVars
<1>1. InLog(Loop)' = InLog(Loop)
  BY InLogIdle, NoneApart
<1>2. \A v \in Worker \ {Loop} : InLog(v)' = InLog(v)
  BY InLogFrame, NoneApart
<1>3. QED
  BY <1>1, <1>2, Stutters

\* EnqueueEvent takes up what is new or not complete.
LEMMA EnqueueLog ==
  ASSUME Discipline, NEW w \in Worker, NEW e \in Event,
         work[w].pc = "idle", Enqueue(w, e), UNCHANGED lock
  PROVE  Log!Next \/ UNCHANGED Log!logVars
<1> USE DEF Discipline, TypeOK
<1>1. CASE events[e] = "complete"
  <2>1. UNCHANGED <<events, work>>
    BY <1>1 DEF Enqueue
  <2>2. QED
    BY <2>1, InLogFrame, Stutters
<1>2. CASE events[e] # "complete"
  <2>1. \/ events[e] = "none" /\ events' = [events EXCEPT ![e] = "queued"]
        \/ events[e] \in {"queued", "failed"} /\ UNCHANGED events
    BY <1>2 DEF Enqueue
  <2>2. /\ work'[w].pc \in {"requeue", "lock"} /\ work'[w].ev = e
        /\ \A v \in Worker \ {w} : work'[v] = work[v]
    BY <1>2 DEF Enqueue, Resting
  <2>3. InLog(w) = Nothing /\ InLog(w)' = [ev |-> e, stage |-> "taken"]
    BY <2>2 DEF InLog, Nothing
  <2>4. \A v \in Worker \ {w} : InLog(v)' = InLog(v)
    BY <2>2, InLogFrame
  <2> HIDE DEF InLog
  <2>5. Log!Take(w, e)
    BY <2>1, <2>3, <2>4 DEF Log!Take, Log!Empty, Nothing
  <2>6. QED
    BY <2>5 DEF Log!Next
<1>3. QED
  BY <1>1, <1>2

\* EnqueueEvent's UPDATE.
LEMMA RequeueLog ==
  ASSUME Discipline, NEW w \in Worker, Requeue(w)
  PROVE  Log!Next
<1> USE DEF Discipline, TypeOK
<1>1. /\ events' = [events EXCEPT ![work[w].ev] = "queued"]
      /\ \A v \in Worker \ {w} : work'[v] = work[v]
      /\ lock' = lock
  BY DEF Requeue, Become, process
<1>2. work[w].pc = "requeue" /\ work'[w].pc = "lock"
      /\ work'[w].ev = work[w].ev
  BY DEF Requeue, Become, Work
<1>3. InLog(w) = [ev |-> work[w].ev, stage |-> "taken"] /\ InLog(w)' = InLog(w)
  BY <1>2 DEF InLog
<1>4. \A v \in Worker \ {w} : InLog(v)' = InLog(v)
  BY <1>1, InLogFrame
<1> HIDE DEF InLog
<1>5. \A v \in Worker : InLog(v)' = InLog(v)
  BY <1>3, <1>4
<1>6. InLog(w).stage = "taken" /\ InLog(w).ev = work[w].ev
  BY <1>3
<1>7. Log!Queue(w)
  BY <1>1, <1>5, <1>6 DEF Log!Queue
<1>8. QED
  BY <1>7 DEF Log!Next

\* The mutex is free when it is taken: nobody else is serving.
LEMMA AcquireLog ==
  ASSUME Discipline, NEW w \in Worker, AcquireLock(w)
  PROVE  Log!Next
<1> USE DEF Discipline, Shape, TypeOK
<1>1. /\ lock = None /\ lock' = w /\ UNCHANGED events
      /\ \A v \in Worker \ {w} : work'[v] = work[v]
  BY DEF AcquireLock, Become, store
<1>2. /\ work[w].pc = "lock" /\ work'[w].pc = "fetch"
      /\ work'[w].ev = work[w].ev
  BY DEF AcquireLock, Become, Work
<1>3. work[w].ev \in Event
  BY <1>2 DEF WorkWellFormed, EventPc
<1>4. InLog(w) = [ev |-> work[w].ev, stage |-> "taken"]
      /\ InLog(w)' = [ev |-> work[w].ev, stage |-> "serving"]
  BY <1>1, <1>2, <1>3, NoneApart DEF InLog
<1>5. \A v \in Worker \ {w} : InLog(v)' = InLog(v)
  BY <1>1, NoneApart, InLogFrame
<1>6. \A v \in Worker : InLog(v).stage \notin {"serving", "ok", "error"}
  BY <1>1, NoneApart, ServingHoldsLock
<1> HIDE DEF Discipline, Shape, TypeOK
<1>7. Log!Reach(w, "serving")
  BY <1>4, <1>5, Reaches DEF Log!Reach
<1>8. InLog(w).stage = "taken"
  BY <1>4
<1>9. Log!Serve(w)
  BY <1>1, <1>6, <1>7, <1>8 DEF Log!Serve, Log!Serving
<1>10. QED
  BY <1>9 DEF Log!Next

\* HandleCloudEvent has its answer without a call to the target.
LEMMA FetchedLog ==
  ASSUME Discipline, NEW w \in Worker, NEW result \in {"ok", "error"},
         work[w].pc = "fetch", work'[w].ev = work[w].ev,
         work'[w].pc = IF result = "ok" THEN "done" ELSE "failed",
         \A v \in Worker \ {w} : work'[v] = work[v],
         lock' = lock, UNCHANGED events
  PROVE  Log!Next
<1>1. work[w].ev \in Event /\ lock = w
  BY DEF Discipline, Shape, WorkWellFormed, LockDiscipline, EventPc
<1>2. InLog(w) = [ev |-> work[w].ev, stage |-> "serving"]
      /\ InLog(w)' = [ev |-> work[w].ev, stage |-> result]
  BY <1>1, NoneApart DEF InLog
<1>3. \A v \in Worker \ {w} : InLog(v)' = InLog(v)
  BY InLogFrame
<1>4. Log!Served(w, result)
  BY <1>2, <1>3, Reaches DEF Log!Served, Log!Reach
<1>5. QED
  BY <1>4 DEF Log!Next

\* CompleteEvent closes the event; when it fails, the log keeps it as it was.
LEMMA CompleteLog ==
  ASSUME Discipline, NEW w \in Worker, Complete(w)
  PROVE  Log!Next
<1> USE DEF Discipline, Shape, TypeOK
<1>1. /\ work[w].pc \in {"done", "failed"} /\ lock = w /\ lock' = None
      /\ work[w].ev \in Event
  BY DEF Complete, WorkWellFormed, LockDiscipline, EventPc
<1>2. work'[w] = Resting /\ \A v \in Worker \ {w} : work'[v] = work[v]
  BY DEF Complete
<1>3. InLog(w)' = Nothing
  BY <1>2 DEF InLog, Resting, Nothing
<1>4. \A v \in Worker \ {w} : InLog(v)' = InLog(v)
  BY <1>1, <1>2, NoneApart, InLogFrame
<1>5. InLog(w) = [ev |-> work[w].ev,
                  stage |-> IF work[w].pc = "done" THEN "ok" ELSE "error"]
  BY <1>1, NoneApart DEF InLog
<1>6. CASE UNCHANGED events
  <2>1. {w} \in SUBSET Worker /\ (\A v \in {w} : InLog(v)' = Nothing)
    BY <1>3
  <2>2. QED
    BY <1>4, <1>6, <2>1, Forgets
<1>7. CASE events' = [events EXCEPT ![work[w].ev] =
                        IF work[w].pc = "done" THEN "complete" ELSE "failed"]
  <2>1. InLog(w).ev = work[w].ev
        /\ InLog(w).stage = IF work[w].pc = "done" THEN "ok" ELSE "error"
    BY <1>5
  <2>2. [v \in Worker |-> InLog(v)]' =
          [[v \in Worker |-> InLog(v)] EXCEPT ![w] = Nothing]
    BY <1>3, <1>4
  <2>3. Log!Close(w)
    BY <1>1, <1>7, <2>1, <2>2 DEF Log!Close, Log!Empty, Nothing
  <2>4. QED
    BY <2>3 DEF Log!Next
<1>8. QED
  BY <1>6, <1>7 DEF Complete

-----------------------------------------------------------------------------
\* Every step of Harvest is a step of EventLog or leaves it alone.
LEMMA NextLog ==
  Discipline /\ [Next]_vars => [Log!Next]_(Log!logVars)
<1> SUFFICES ASSUME Discipline, [Next]_vars
             PROVE  Log!Next \/ UNCHANGED Log!logVars
  OBVIOUS
<1> USE DEF Discipline, Shape
<1>1. ASSUME UNCHANGED <<work, lock, events>>
      PROVE  UNCHANGED Log!logVars
  BY <1>1, InLogFrame, Stutters
<1>2. CASE \/ \E r \in Resource, v \in Version \cup {None} : SourceChanges(r, v)
           \/ \E r \in Resource, rec \in Record \cup {None} : TargetDrifts(r, rec)
           \/ \E c \in Commands, p \in Profile : StartCommand(c, p)
           \/ Exit
           \/ \E t \in Tasks : TaskFailsAtStart(t)
           \/ StartRetryFailures \/ StartPrune \/ StartRetryEvents
           \/ StartReconcile
           \/ \E P \in SUBSET unlisted \ {{}} : FetchPage(P)
           \/ Sweep
           \/ \E r \in Resource : ReconStep(r)
           \/ UNCHANGED vars
  <2>1. UNCHANGED <<work, lock, events>>
    BY <1>2
    DEF SourceChanges, TargetDrifts, StartCommand, Exit, TaskFailsAtStart,
        StartRetryFailures, StartPrune, StartRetryEvents, StartReconcile,
        FetchPage, Sweep, ReconStep, ReconGet, ReconPut, ReconSave, ReconFails,
        store, process, vars
  <2>2. QED
    BY <2>1, <1>1
<1>3. CASE \/ StartCrawl \/ SweepFails \/ BatchDone \/ ReconDone
           \/ \E skipped \in BOOLEAN : CrawlStops(skipped)
  <2>1. UNCHANGED <<work, events>>
    BY <1>3 DEF StartCrawl, SweepFails, BatchDone, ReconDone, CrawlStops, store
  <2>2. lock' = lock \/ {lock, lock'} = {Loop, None}
    BY <1>3
    DEF StartCrawl, SweepFails, BatchDone, ReconDone, CrawlStops, EndTask
  <2>3. work[Loop].pc = "idle"
    BY <1>3
    DEF StartCrawl, Start, Due, SweepFails, CrawlComplete, BatchDone,
        ReconDone, CrawlStops, TaskDiscipline
  <2>4. QED
    BY <2>1, <2>2, <2>3, IdleLog
<1>4. CASE Crash
  <2>1. \A v \in Worker : InLog(v)' = Nothing
    BY <1>4 DEF Crash, InLog, Resting, Nothing
  <2>2. UNCHANGED events
    BY <1>4 DEF Crash, store
  <2>3. QED
    BY <2>1, <2>2, Forgets
<1>5. ASSUME NEW i \in batch, NextItem(i)
      PROVE  UNCHANGED Log!logVars
  <2>1. /\ UNCHANGED <<lock, events>>
        /\ work[Loop].pc = "idle"
        /\ work'[Loop].pc \in {"read", "delete"} /\ work'[Loop].ev = None
        /\ \A v \in Worker \ {Loop} : work'[v] = work[v]
    BY <1>5, NoneApart DEF NextItem, Resting, store, TypeOK
  <2>2. InLog(Loop)' = InLog(Loop)
    BY <2>1 DEF InLog
  <2>3. QED
    BY <2>1, <2>2, InLogFrame, Stutters
<1>6. ASSUME NEW i \in batch, NextEvent(i)
      PROVE  Log!Next \/ UNCHANGED Log!logVars
  <2>1. i.ev \in Event
    BY <1>6 DEF NextEvent, BatchWellFormed
  <2>2. QED
    BY <1>6, <2>1, NoneApart, EnqueueLog DEF NextEvent
<1>7. ASSUME NEW h \in Handler, NEW e \in Event, DeliverEvent(h, e)
      PROVE  Log!Next \/ UNCHANGED Log!logVars
  BY <1>7, EnqueueLog DEF DeliverEvent, process, Worker
<1>8. ASSUME NEW w \in Worker, WorkerStep(w)
      PROVE  Log!Next \/ UNCHANGED Log!logVars
  <2>1. CASE Read(w) \/ Put(w) \/ PutFails(w) \/ Delete(w)
    <3>1. /\ work[w].pc \in HandPc /\ work'[w].pc \in HandPc
          /\ work'[w].ev = work[w].ev
          /\ \A v \in Worker \ {w} : work'[v] = work[v]
      BY <2>1 DEF Read, Put, PutFails, Delete, Become, HandPc, TypeOK, Work
    <3>2. UNCHANGED <<lock, events>>
      BY <2>1 DEF Read, Put, PutFails, Delete, store, process
    <3>3. QED
      BY <3>1, <3>2, ServingLog
  <2>2. ASSUME NEW ok \in BOOLEAN, work[w].pc \in HandPc, Return(w, ok),
               UNCHANGED events
        PROVE  Log!Next
    BY <2>2, ReturnLog
  <2>3. CASE \/ ReadFails(w) \/ Save(w) \/ SaveFails(w)
             \/ DeleteFails(w) \/ Mark(w) \/ MarkFails(w)
    <3>1. work[w].pc \in HandPc /\ UNCHANGED events
      BY <2>3
      DEF ReadFails, Save, SaveFails, DeleteFails, Mark, MarkFails, HandPc,
          store
    <3>2. \E ok \in BOOLEAN : Return(w, ok)
      BY <2>3 DEF ReadFails, Save, SaveFails, DeleteFails, Mark, MarkFails
    <3>3. QED
      BY <2>2, <3>1, <3>2
  <2>4. CASE Requeue(w)
    BY <2>4, RequeueLog
  <2>5. CASE RequeueFails(w)
    <3>1. /\ UNCHANGED <<lock, events>> /\ work'[w] = Resting
          /\ \A v \in Worker \ {w} : work'[v] = work[v]
      BY <2>5 DEF RequeueFails, store, process, TypeOK
    <3>2. InLog(w)' = Nothing
      BY <3>1 DEF InLog, Resting, Nothing
    <3>3. {w} \in SUBSET Worker /\ (\A v \in {w} : InLog(v)' = Nothing)
      BY <3>2
    <3>4. QED
      BY <3>1, <3>3, InLogFrame, Forgets
  <2>6. CASE AcquireLock(w)
    BY <2>6, AcquireLog
  <2>7. CASE FetchSubject(w)
    <3>1. /\ work[w].pc = "fetch" /\ work'[w].pc \in {"done", "delete", "read"}
          /\ work'[w].ev = work[w].ev
          /\ \A v \in Worker \ {w} : work'[v] = work[v]
      BY <2>7 DEF FetchSubject, TypeOK, Work
    <3>2. UNCHANGED <<lock, events>>
      BY <2>7 DEF FetchSubject, store, process
    <3>3. CASE work'[w].pc = "done"
      BY <3>1, <3>2, <3>3, FetchedLog
    <3>4. CASE work'[w].pc \in {"delete", "read"}
      BY <3>1, <3>2, <3>4, ServingLog DEF HandPc
    <3>5. QED
      BY <3>1, <3>3, <3>4
  <2>8. CASE FetchFails(w)
    <3>1. /\ work[w].pc = "fetch" /\ work'[w].pc = "failed"
          /\ work'[w].ev = work[w].ev
          /\ \A v \in Worker \ {w} : work'[v] = work[v]
      BY <2>8 DEF FetchFails, Become, TypeOK, Work
    <3>2. UNCHANGED <<lock, events>>
      BY <2>8 DEF FetchFails, store, process
    <3>3. QED
      BY <3>1, <3>2, FetchedLog
  <2>9. CASE Complete(w)
    BY <2>9, CompleteLog
  <2>10. QED
    BY <1>8, <2>1, <2>3, <2>4, <2>5, <2>6, <2>7, <2>8, <2>9 DEF WorkerStep
<1>9. QED
  BY <1>2, <1>3, <1>4, <1>5, <1>6, <1>7, <1>8 DEF Next, LoopStep

\* The initial state has no event in the log or in hand.
LEMMA InitLog == Init => Log!Start
  BY DEF Init, Log!Start, Log!Empty, InLog, Resting

\* Whatever the broker delivers, however often, and whenever the process dies
\* or a statement fails, events are taken up only while they are not complete,
\* served one at a time and completed only when served.
THEOREM SpecEventsAsPromised == Spec => EventsAsPromised
  BY InitLog, NextLog, SpecDiscipline, PTL
  DEF Spec, EventsAsPromised, Log!Spec

-----------------------------------------------------------------------------
(* Mirror.                                                                 *)

\* BeginRun and CandidatesForDeletion do not touch what a row says of the
\* catalog; MarkDeleted leaves a row that says the record is gone.
LEMMA BelievedKept ==
  ASSUME NEW row \in Row
  PROVE  /\ Believed(Unseen(row)) = Believed(row)
         /\ Believed(MissCounted(row)) = Believed(row)
         /\ Believed(MarkedDeleted(row)) = None
  BY DEF Believed, Live, Found, Unseen, MissCounted, MarkedDeleted, Row

\* The rows materialize saves say what they should: the no-op and the failure
\* row what the row before said - the last known good record - and the third
\* the new record.
LEMMA BelievedSaved ==
  ASSUME NEW prev \in Row, NEW ver \in Version,
         NEW rec \in Record \cup {None}, NEW marks \in BOOLEAN
  PROVE  /\ Believed(SameRow(prev, marks)) = Believed(prev)
         /\ Believed(NewRow(prev, ver, rec, marks)) = rec
         /\ (~Found(prev) => prev.record = None) =>
              Believed(FailedRow(prev, ver, marks)) = Believed(prev)
  BY DEF Believed, Live, Found, IsActive, SameRow, NewRow, FailedRow, Row

\* What is not touched still agrees: a step that leaves the row, the record
\* and the snapshot of a resource alone, and every worker committed to it.
LEMMA AgreesFrame ==
  ASSUME NEW r \in Resource, Agrees(r),
         target'[r] = target[r], rows'[r] = rows[r], recon'[r] = recon[r],
         profile' = profile,
         \A w \in Worker : \/ work'[w] = work[w]
                           \/ ~Committed(w, r) /\ ~(Committed(w, r)')
  PROVE  Agrees(r)'
<1>1. LedgerAgrees(r)'
  BY DEF Agrees, LedgerAgrees, Committed, InHand, Refreshing, HandPc
<1>2. \A w \in Worker : HandAgrees(w, r)'
  BY DEF Agrees, HandAgrees, Committed, InHand, Refreshing
<1>3. RefreshAgrees(r)'
  BY DEF Agrees, RefreshAgrees, Refreshing, ReconRecord
<1>4. QED
  BY <1>1, <1>2, <1>3 DEF Agrees

\* A row changed in what it does not say of the catalog still agrees, when no
\* worker is committed to it.
LEMMA AgreesAnew ==
  ASSUME NEW r \in Resource, Agrees(r),
         target'[r] = target[r], Believed(rows'[r]) = Believed(rows[r]),
         recon'[r] = recon[r], profile' = profile, UNCHANGED work,
         \A w \in Worker : ~Committed(w, r)
  PROVE  Agrees(r)'
<1>1. LedgerAgrees(r)'
  BY DEF Agrees, LedgerAgrees, Committed, InHand, Refreshing, HandPc
<1>2. \A w \in Worker : HandAgrees(w, r)'
  BY DEF HandAgrees, Committed, InHand
<1>3. RefreshAgrees(r)'
  BY DEF Agrees, RefreshAgrees, Refreshing, ReconRecord
<1>4. QED
  BY <1>1, <1>2, <1>3 DEF Agrees

-----------------------------------------------------------------------------
\* The steps of a worker keep a resource that is not suspect afterwards in
\* agreement: each half of a write is followed by the other, and a call that
\* is lost or raced makes the resource suspect.
LEMMA WorkerAgrees ==
  ASSUME Discipline, MirrorInv, NEW w \in Worker, WorkerStep(w),
         NEW r \in Resource, r \notin suspect'
  PROVE  Agrees(r)'
<1> USE DEF outside, store, process, command, reconciler, history, crawled
<1>a. /\ work \in [Worker -> Work] /\ rows \in [Resource -> Row]
      /\ target \in [Resource -> Record \cup {None}]
      /\ work[w] \in Work /\ rows[r] \in Row
      /\ profile \in Profile
  BY DEF Discipline, TypeOK
<1>b. r \notin suspect => Agrees(r)
  BY DEF MirrorInv
<1>c. \A v \in Worker : InHand(v, r) /\ InHand(w, r) => v = w
  BY DisciplineOneWorker DEF OneWorkerPerResource
<1>d. work[w].pc \in HandPc => work[w].res \in Resource
  BY DEF Discipline, Shape, WorkWellFormed
<1>e. work[w].pc \in {"put", "saveSame", "saveNew", "saveFailed"} =>
        /\ work[w].ver \in Version
        /\ work[w].prev \in Row
        /\ Mapping[profile][work[w].ver] \in Record \cup {None}
  BY <1>a, MappingType DEF Discipline, Shape, WorkWellFormed, HandPc, Work
\* A step that touches nothing but a worker that is not at r, before or after.
<1>f. ASSUME r \notin suspect, UNCHANGED <<target, rows, recon, profile>>,
             \A v \in Worker \ {w} : work'[v] = work[v],
             ~Committed(w, r), ~(Committed(w, r)')
      PROVE  Agrees(r)'
  BY <1>b, <1>f, AgreesFrame
\* A worker that returns from r without having changed anything.
<1>g. ASSUME r \notin suspect, UNCHANGED <<target, rows, recon, profile>>,
             \A v \in Worker \ {w} : work'[v] = work[v],
             work'[w].pc \notin HandPc, work[w].pc \notin {"saveNew", "mark"}
      PROVE  Agrees(r)'
  <2>1. Agrees(r)
    BY <1>b, <1>g
  <2>2. LedgerAgrees(r)'
    BY <1>g, <2>1 DEF Agrees, LedgerAgrees, InHand, Refreshing
  <2>3. \A v \in Worker : HandAgrees(v, r)'
    BY <1>g, <2>1 DEF Agrees, HandAgrees, Committed, InHand, Refreshing
  <2>4. RefreshAgrees(r)'
    BY <1>g, <2>1 DEF Agrees, RefreshAgrees, Refreshing, ReconRecord
  <2>5. QED
    BY <2>2, <2>3, <2>4 DEF Agrees
<1>1. CASE Read(w)
  <2>1. /\ work'[w].res = work[w].res
        /\ work'[w].pc \in {"put", "saveSame", "saveFailed"}
        /\ work'[w].prev = rows[work[w].res]
        /\ \A v \in Worker \ {w} : work'[v] = work[v]
    BY <1>1, <1>a DEF Read, Work
  <2>2. r \notin suspect
    BY <1>1 DEF Read
  <2>3. CASE work[w].res # r
    BY <1>1, <1>f, <2>1, <2>2, <2>3 DEF Read, Committed, InHand
  <2>4. CASE work[w].res = r
    <3>1. ~Refreshing(r)
      BY <1>1, <2>4 DEF Read
    <3>2. InHand(w, r)
      BY <1>1, <2>4 DEF Read, InHand, HandPc
    <3>3. LedgerAgrees(r)'
      BY <1>1, <1>b, <1>c, <2>1, <2>2, <3>1, <3>2
      DEF Read, Agrees, LedgerAgrees, InHand, Refreshing
    <3>4. HandAgrees(w, r)'
      BY <1>1, <2>1, <2>4, <3>1 DEF Read, HandAgrees, Committed, Refreshing
    <3>5. \A v \in Worker \ {w} : HandAgrees(v, r)'
      BY <1>c, <2>1, <3>2 DEF HandAgrees, Committed, InHand
    <3>6. RefreshAgrees(r)'
      BY <1>1, <3>1 DEF Read, RefreshAgrees, Refreshing
    <3>7. QED
      BY <3>3, <3>4, <3>5, <3>6 DEF Agrees
  <2>5. QED
    BY <2>3, <2>4
<1>2. CASE ReadFails(w)
  BY <1>2, <1>g, ReturnLetsGo DEF ReadFails
<1>3. CASE Put(w)
  <2>1. /\ work'[w].pc = "saveNew"
        /\ work'[w].res = work[w].res /\ work'[w].ver = work[w].ver
        /\ \A v \in Worker \ {w} : work'[v] = work[v]
    BY <1>3, BecomeKeeps DEF Put
  <2>2. CASE work[w].res # r
    <3>1. target'[r] = target[r] /\ r \notin suspect
      BY <1>3, <1>a, <2>2 DEF Put
    <3>2. \A v \in Worker : \/ work'[v] = work[v]
                            \/ ~Committed(v, r) /\ ~(Committed(v, r)')
      BY <2>1, <2>2 DEF Committed, InHand
    <3>3. QED
      BY <1>3, <1>b, <3>1, <3>2, AgreesFrame DEF Put
  <2>3. CASE work[w].res = r
    <3>1. InHand(w, r) /\ Committed(w, r)
      BY <1>3, <2>3 DEF Put, InHand, Committed, HandPc
    <3>2. ~Refreshing(r)
      BY <1>3, <1>b, <2>3, <3>1 DEF Put, Agrees, HandAgrees
    <3>3. target'[r] = Mapping[profile][work[w].ver]
      BY <1>3, <1>a, <2>3 DEF Put
    <3>4. LedgerAgrees(r)'
      BY <1>3, <2>1, <2>3 DEF LedgerAgrees, InHand, HandPc
    <3>5. HandAgrees(w, r)'
      BY <1>3, <2>1, <3>2, <3>3 DEF Put, HandAgrees, Refreshing
    <3>6. \A v \in Worker \ {w} : HandAgrees(v, r)'
      BY <1>c, <2>1, <3>1 DEF HandAgrees, Committed, InHand
    <3>7. RefreshAgrees(r)'
      BY <1>3, <3>2 DEF Put, RefreshAgrees, Refreshing
    <3>8. QED
      BY <3>4, <3>5, <3>6, <3>7 DEF Agrees
  <2>4. QED
    BY <2>2, <2>3
<1>4. CASE PutFails(w)
  <2>1. /\ work'[w].pc = "saveFailed"
        /\ work'[w].res = work[w].res /\ work'[w].prev = work[w].prev
        /\ \A v \in Worker \ {w} : work'[v] = work[v]
    BY <1>4, BecomeKeeps DEF PutFails
  <2>2. r \notin suspect /\ target'[r] = target[r]
    BY <1>4, <1>a, <1>d DEF PutFails, HandPc
  <2>3. CASE work[w].res # r
    <3>1. \A v \in Worker : \/ work'[v] = work[v]
                            \/ ~Committed(v, r) /\ ~(Committed(v, r)')
      BY <2>1, <2>3 DEF Committed, InHand
    <3>2. QED
      BY <1>4, <1>b, <2>2, <3>1, AgreesFrame DEF PutFails
  <2>4. CASE work[w].res = r
    <3>1. InHand(w, r) /\ Committed(w, r)
      BY <1>4, <2>4 DEF PutFails, InHand, Committed, HandPc
    <3>2. ~Refreshing(r) /\ work[w].prev = rows[r]
      BY <1>4, <1>b, <2>2, <3>1 DEF PutFails, Agrees, HandAgrees
    <3>3. LedgerAgrees(r)'
      BY <1>4, <1>b, <1>c, <2>1, <2>2, <3>1, <3>2
      DEF PutFails, Agrees, LedgerAgrees, InHand, Refreshing
    <3>4. HandAgrees(w, r)'
      BY <1>4, <2>1, <3>2 DEF PutFails, HandAgrees, Refreshing
    <3>5. \A v \in Worker \ {w} : HandAgrees(v, r)'
      BY <1>c, <2>1, <3>1 DEF HandAgrees, Committed, InHand
    <3>6. RefreshAgrees(r)'
      BY <1>4, <3>2 DEF PutFails, RefreshAgrees, Refreshing
    <3>7. QED
      BY <3>3, <3>4, <3>5, <3>6 DEF Agrees
  <2>5. QED
    BY <2>3, <2>4
<1>5. CASE Save(w)
  <2>1. /\ work'[w].pc \notin HandPc
        /\ \A v \in Worker \ {w} : work'[v] = work[v]
        /\ profile' = profile
    BY <1>5, ReturnLetsGo DEF Save
  <2>2. r \notin suspect /\ Agrees(r)
    BY <1>5, <1>b DEF Save
  <2>3. CASE work[w].res # r
    <3>1. rows'[r] = rows[r]
      BY <1>5, <1>a, <2>3 DEF Save
    <3>2. \A v \in Worker : \/ work'[v] = work[v]
                            \/ ~Committed(v, r) /\ ~(Committed(v, r)')
      BY <2>1, <2>3 DEF Committed, InHand
    <3>3. QED
      BY <1>5, <2>1, <2>2, <3>1, <3>2, AgreesFrame DEF Save
  <2>4. CASE work[w].res = r
    <3>1. InHand(w, r) /\ Committed(w, r)
      BY <1>5, <2>4 DEF Save, InHand, Committed, HandPc
    <3>2. /\ ~Refreshing(r)
          /\ work[w].pc \in {"saveSame", "saveFailed"} =>
               work[w].prev = rows[r]
          /\ work[w].pc = "saveNew" =>
               target[r] = Mapping[profile][work[w].ver]
      BY <2>2, <3>1 DEF Agrees, HandAgrees
    <3>3. work[w].pc # "saveNew" => target[r] = Believed(rows[r])
      BY <1>5, <1>c, <2>2, <3>1, <3>2 DEF Save, Agrees, LedgerAgrees, InHand
    <3>4. rows'[r] = SavedRow(w)
      BY <1>5, <1>a, <2>4 DEF Save
    <3>5. ~Found(rows[r]) => rows[r].record = None
      BY DEF MirrorInv, NoRowNoRecord
    <3>6. Marks(w) \in BOOLEAN
      BY DEF Marks
    <3>7. target[r] = Believed(SavedRow(w))
      <4>1. CASE work[w].pc = "saveSame"
        BY <1>e, <3>2, <3>3, <3>6, <4>1, BelievedSaved DEF SavedRow
      <4>2. CASE work[w].pc = "saveNew"
        BY <1>e, <3>2, <3>6, <4>2, BelievedSaved DEF SavedRow
      <4>3. CASE work[w].pc = "saveFailed"
        BY <1>e, <3>2, <3>3, <3>5, <3>6, <4>3, BelievedSaved DEF SavedRow
      <4>4. QED
        BY <1>5, <4>1, <4>2, <4>3 DEF Save
    <3>8. LedgerAgrees(r)'
      BY <1>5, <3>4, <3>7 DEF Save, LedgerAgrees
    <3>9. \A v \in Worker : HandAgrees(v, r)'
      BY <1>c, <2>1, <3>1 DEF HandAgrees, Committed, InHand
    <3>10. RefreshAgrees(r)'
      BY <1>5, <3>2 DEF Save, RefreshAgrees, Refreshing
    <3>11. QED
      BY <3>8, <3>9, <3>10 DEF Agrees
  <2>5. QED
    BY <2>3, <2>4
<1>6. CASE SaveFails(w)
  <2>1. /\ work'[w].pc \notin HandPc
        /\ \A v \in Worker \ {w} : work'[v] = work[v]
        /\ profile' = profile
    BY <1>6, ReturnLetsGo DEF SaveFails
  <2>2. CASE work[w].pc = "saveNew"
    <3>1. work[w].res # r /\ r \notin suspect
      BY <1>6, <2>2 DEF SaveFails
    <3>2. ~Committed(w, r) /\ ~(Committed(w, r)')
      BY <2>1, <3>1 DEF Committed, InHand
    <3>3. QED
      BY <1>6, <1>f, <2>1, <3>1, <3>2 DEF SaveFails
  <2>3. CASE work[w].pc # "saveNew"
    BY <1>6, <1>g, <2>1, <2>3 DEF SaveFails
  <2>4. QED
    BY <2>2, <2>3
<1>7. CASE Delete(w)
  <2>1. /\ work'[w].pc = "mark"
        /\ work'[w].res = work[w].res
        /\ \A v \in Worker \ {w} : work'[v] = work[v]
    BY <1>7, BecomeKeeps DEF Delete
  <2>2. CASE work[w].res # r
    <3>1. target'[r] = target[r] /\ r \notin suspect
      BY <1>7, <1>a, <2>2 DEF Delete
    <3>2. \A v \in Worker : \/ work'[v] = work[v]
                            \/ ~Committed(v, r) /\ ~(Committed(v, r)')
      BY <2>1, <2>2 DEF Committed, InHand
    <3>3. QED
      BY <1>7, <1>b, <3>1, <3>2, AgreesFrame DEF Delete
  <2>3. CASE work[w].res = r
    <3>1. InHand(w, r) /\ Committed(w, r)
      BY <1>7, <2>3 DEF Delete, InHand, Committed, HandPc
    <3>2. ~Refreshing(r)
      BY <1>7, <1>b, <2>3, <3>1 DEF Delete, Agrees, HandAgrees
    <3>3. target'[r] = None
      BY <1>7, <1>a, <2>3 DEF Delete
    <3>4. LedgerAgrees(r)'
      BY <1>7, <2>1, <2>3 DEF LedgerAgrees, InHand, HandPc
    <3>5. HandAgrees(w, r)'
      BY <1>7, <2>1, <3>2, <3>3 DEF Delete, HandAgrees, Refreshing
    <3>6. \A v \in Worker \ {w} : HandAgrees(v, r)'
      BY <1>c, <2>1, <3>1 DEF HandAgrees, Committed, InHand
    <3>7. RefreshAgrees(r)'
      BY <1>7, <3>2 DEF Delete, RefreshAgrees, Refreshing
    <3>8. QED
      BY <3>4, <3>5, <3>6, <3>7 DEF Agrees
  <2>4. QED
    BY <2>2, <2>3
<1>8. CASE DeleteFails(w)
  <2>1. /\ work'[w].pc \notin HandPc
        /\ \A v \in Worker \ {w} : work'[v] = work[v]
        /\ profile' = profile
    BY <1>8, ReturnLetsGo DEF DeleteFails
  <2>2. r \notin suspect /\ target'[r] = target[r]
    BY <1>8, <1>a DEF DeleteFails
  <2>3. CASE work[w].res # r
    <3>1. \A v \in Worker : \/ work'[v] = work[v]
                            \/ ~Committed(v, r) /\ ~(Committed(v, r)')
      BY <2>1, <2>3 DEF Committed, InHand
    <3>2. QED
      BY <1>8, <1>b, <2>1, <2>2, <3>1, AgreesFrame DEF DeleteFails
  <2>4. CASE work[w].res = r
    <3>1. UNCHANGED target
      BY <1>8, <2>4 DEF DeleteFails
    <3>2. QED
      BY <1>8, <1>g, <2>1, <2>2, <3>1 DEF DeleteFails
  <2>5. QED
    BY <2>3, <2>4
<1>9. CASE Mark(w)
  <2>1. /\ work'[w].pc \notin HandPc
        /\ \A v \in Worker \ {w} : work'[v] = work[v]
        /\ profile' = profile
    BY <1>9, ReturnLetsGo DEF Mark
  <2>2. r \notin suspect /\ Agrees(r)
    BY <1>9, <1>b DEF Mark
  <2>3. CASE work[w].res # r
    <3>1. rows'[r] = rows[r]
      BY <1>9, <1>a, <2>3 DEF Mark
    <3>2. \A v \in Worker : \/ work'[v] = work[v]
                            \/ ~Committed(v, r) /\ ~(Committed(v, r)')
      BY <2>1, <2>3 DEF Committed, InHand
    <3>3. QED
      BY <1>9, <2>1, <2>2, <3>1, <3>2, AgreesFrame DEF Mark
  <2>4. CASE work[w].res = r
    <3>1. InHand(w, r) /\ Committed(w, r)
      BY <1>9, <2>4 DEF Mark, InHand, Committed, HandPc
    <3>2. ~Refreshing(r) /\ target[r] = None
      BY <1>9, <2>2, <3>1 DEF Mark, Agrees, HandAgrees
    <3>3. rows'[r] = MarkedDeleted(rows[r])
      BY <1>9, <1>a, <2>4 DEF Mark
    <3>4. LedgerAgrees(r)'
      BY <1>9, <1>a, <3>2, <3>3, BelievedKept DEF Mark, LedgerAgrees
    <3>5. \A v \in Worker : HandAgrees(v, r)'
      BY <1>c, <2>1, <3>1 DEF HandAgrees, Committed, InHand
    <3>6. RefreshAgrees(r)'
      BY <1>9, <3>2 DEF Mark, RefreshAgrees, Refreshing
    <3>7. QED
      BY <3>4, <3>5, <3>6 DEF Agrees
  <2>5. QED
    BY <2>3, <2>4
<1>10. CASE MarkFails(w)
  <2>1. /\ work'[w].pc \notin HandPc
        /\ \A v \in Worker \ {w} : work'[v] = work[v]
        /\ profile' = profile
    BY <1>10, ReturnLetsGo DEF MarkFails
  <2>2. work[w].res # r /\ r \notin suspect
    BY <1>10 DEF MarkFails
  <2>3. ~Committed(w, r) /\ ~(Committed(w, r)')
    BY <2>1, <2>2 DEF Committed, InHand
  <2>4. QED
    BY <1>10, <1>f, <2>1, <2>2, <2>3 DEF MarkFails
<1>11. CASE Requeue(w) \/ AcquireLock(w) \/ FetchFails(w)
  <2>1. /\ work[w].pc \notin HandPc /\ work'[w].pc \notin HandPc
        /\ \A v \in Worker \ {w} : work'[v] = work[v]
    BY <1>11, <1>a DEF Requeue, AcquireLock, FetchFails, Become, HandPc, Work
  <2>2. QED
    BY <1>11, <1>f, <2>1
    DEF Requeue, AcquireLock, FetchFails, Committed, InHand
<1>12. CASE RequeueFails(w) \/ Complete(w)
  <2>1. /\ work[w].pc \notin HandPc /\ work'[w].pc \notin HandPc
        /\ \A v \in Worker \ {w} : work'[v] = work[v]
    BY <1>12, <1>a DEF RequeueFails, Complete, Resting, HandPc
  <2>2. QED
    BY <1>12, <1>f, <2>1 DEF RequeueFails, Complete, Committed, InHand
<1>13. CASE FetchSubject(w)
  <2>1. /\ work[w].pc \notin HandPc
        /\ work'[w].pc \in {"done", "delete", "read"}
        /\ work'[w].pc = "delete" =>
             /\ work'[w].res = Subject[work[w].ev]
             /\ Refreshing(Subject[work[w].ev]) =>
                  suspect' = suspect \cup {Subject[work[w].ev]}
        /\ \A v \in Worker \ {w} : work'[v] = work[v]
    BY <1>13, <1>a DEF FetchSubject, HandPc, Work
  <2>2. r \notin suspect
    BY <1>13 DEF FetchSubject
  <2>3. CASE ~(Committed(w, r)')
    <3>1. ~Committed(w, r)
      BY <2>1 DEF Committed, InHand
    <3>2. QED
      BY <1>13, <1>f, <2>1, <2>2, <2>3, <3>1 DEF FetchSubject
  <2>4. CASE Committed(w, r)'
    <3>1. work'[w].pc = "delete" /\ work'[w].res = r
      BY <2>1, <2>4 DEF Committed, InHand, HandPc
    <3>2. ~Refreshing(r)
      BY <2>1, <3>1
    <3>3. Agrees(r)
      BY <1>b, <2>2
    <3>4. LedgerAgrees(r)'
      BY <1>13, <2>1, <3>3
      DEF FetchSubject, Agrees, LedgerAgrees, InHand, Refreshing
    <3>5. HandAgrees(w, r)'
      BY <1>13, <3>1, <3>2 DEF FetchSubject, HandAgrees, Refreshing
    <3>6. \A v \in Worker \ {w} : HandAgrees(v, r)'
      BY <1>13, <2>1, <3>3
      DEF FetchSubject, Agrees, HandAgrees, Committed, InHand, Refreshing
    <3>7. RefreshAgrees(r)'
      BY <1>13, <3>2 DEF FetchSubject, RefreshAgrees, Refreshing
    <3>8. QED
      BY <3>4, <3>5, <3>6, <3>7 DEF Agrees
  <2>5. QED
    BY <2>3, <2>4
<1>14. QED
  BY <1>1, <1>2, <1>3, <1>4, <1>5, <1>6, <1>7, <1>8, <1>9, <1>10, <1>11,
     <1>12, <1>13 DEF WorkerStep

\* The steps of ReconcileTarget's goroutines do, too: one that overlaps a
\* worker committed to the same resource makes it suspect.
LEMMA ReconAgrees ==
  ASSUME Discipline, MirrorInv, NEW q \in Resource, ReconStep(q),
         NEW r \in Resource, r \notin suspect'
  PROVE  Agrees(r)'
<1> USE DEF outside, store, process, command, reconciler, history, crawled
<1>a. /\ recon \in [Resource -> Recon] /\ rows \in [Resource -> Row]
      /\ target \in [Resource -> Record \cup {None}]
      /\ profile \in Profile
  BY DEF Discipline, TypeOK
<1>b. r \notin suspect => Agrees(r)
  BY DEF MirrorInv
<1>c. UNCHANGED <<work, profile>>
  BY DEF ReconStep, ReconGet, ReconPut, ReconSave, ReconFails
<1>d. CASE q # r
  <2>1. /\ target'[r] = target[r] /\ rows'[r] = rows[r]
        /\ recon'[r] = recon[r] /\ r \notin suspect
    BY <1>a, <1>d DEF ReconStep, ReconGet, ReconPut, ReconSave, ReconFails
  <2>2. QED
    BY <1>b, <1>c, <2>1, AgreesFrame
<1>e. CASE q = r /\ ~Refreshing(r) /\ ~(Refreshing(r)') /\ r \notin suspect
           /\ UNCHANGED <<target, rows>>
  <2>1. Agrees(r)
    BY <1>b, <1>e
  <2>2. LedgerAgrees(r)'
    BY <1>c, <1>e, <2>1 DEF Agrees, LedgerAgrees, InHand
  <2>3. \A w \in Worker : HandAgrees(w, r)'
    BY <1>c, <1>e, <2>1 DEF Agrees, HandAgrees, Committed, InHand
  <2>4. RefreshAgrees(r)'
    BY <1>e DEF RefreshAgrees
  <2>5. QED
    BY <2>2, <2>3, <2>4 DEF Agrees
<1>1. CASE q = r /\ ReconGet(q)
  BY <1>a, <1>e, <1>1 DEF ReconGet, Refreshing, ReconIdle, Recon
<1>2. CASE q = r /\ ReconPut(q)
  <2>1. \A w \in Worker : ~Committed(w, r)
    BY <1>2 DEF ReconPut
  <2>2. /\ recon'[r].pc = "save" /\ recon'[r].row = recon[r].row
        /\ target'[r] = ReconRecord(r)
    BY <1>a, <1>2 DEF ReconPut, Recon
  <2>3. LedgerAgrees(r)'
    BY <2>2 DEF LedgerAgrees, Refreshing
  <2>4. \A w \in Worker : HandAgrees(w, r)'
    BY <1>c, <2>1 DEF HandAgrees, Committed, InHand
  <2>5. RefreshAgrees(r)'
    BY <1>c, <2>2 DEF RefreshAgrees, ReconRecord
  <2>6. QED
    BY <2>3, <2>4, <2>5 DEF Agrees
<1>3. CASE q = r /\ ReconSave(q)
  <2>1. r \notin suspect /\ Agrees(r) /\ Refreshing(r)
    BY <1>b, <1>3 DEF ReconSave
  <2>2. \A w \in Worker : ~Committed(w, r)
    BY <2>1 DEF Agrees, HandAgrees
  <2>3. target[r] = ReconRecord(r)
    BY <2>1 DEF Agrees, RefreshAgrees
  <2>4. /\ IsActive(recon[r].row) /\ recon[r].row.version \in Version
        /\ recon[r].row \in Row
    BY <1>a, <2>1
    DEF Discipline, Shape, ReconWellFormed, Refreshing, Recon
  <2>5. ReconRecord(r) \in Record \cup {None}
    BY <1>a, <2>4, MappingType DEF ReconRecord
  <2>6. rows'[r] = RefreshedRow(recon[r].row, ReconRecord(r))
    BY <1>a, <1>3 DEF ReconSave
  <2>7. Believed(rows'[r]) = ReconRecord(r)
    BY <2>4, <2>6
    DEF Believed, Live, Found, IsActive, RefreshedRow, Row
  <2>8. recon'[r] = ReconIdle
    BY <1>a, <1>3 DEF ReconSave
  <2>9. LedgerAgrees(r)'
    BY <1>3, <2>3, <2>7 DEF ReconSave, LedgerAgrees
  <2>10. \A w \in Worker : HandAgrees(w, r)'
    BY <1>c, <2>2 DEF HandAgrees, Committed, InHand
  <2>11. RefreshAgrees(r)'
    BY <2>8 DEF RefreshAgrees, Refreshing, ReconIdle
  <2>12. QED
    BY <2>9, <2>10, <2>11 DEF Agrees
<1>4. CASE q = r /\ ReconFails(q)
  <2>1. recon[r].pc \in {"wait", "put"} /\ r \notin suspect
    BY <1>4 DEF ReconFails
  <2>2. UNCHANGED <<target, rows>> /\ recon'[r] = ReconIdle
    BY <1>a, <1>4, <2>1 DEF ReconFails
  <2>3. QED
    BY <1>4, <1>e, <2>1, <2>2 DEF Refreshing, ReconIdle
<1>5. QED
  BY <1>d, <1>1, <1>2, <1>3, <1>4 DEF ReconStep

-----------------------------------------------------------------------------
\* The first state agrees: no rows, no records.
LEMMA InitMirror == Init => MirrorInv
<1> SUFFICES ASSUME Init PROVE MirrorInv
  OBVIOUS
<1>1. \A w \in Worker : work[w].pc = "idle"
  BY DEF Init, Resting
<1>2. \A r \in Resource : /\ recon[r].pc = "idle" /\ rows[r] = NoRow
                          /\ target[r] = None
  BY DEF Init, ReconIdle
<1>3. Believed(NoRow) = None /\ NoRow.record = None
  BY DEF Believed, Live, Found, NoRow
<1>4. \A r \in Resource : Agrees(r)
  BY <1>1, <1>2, <1>3
  DEF Agrees, LedgerAgrees, HandAgrees, RefreshAgrees, Committed, InHand,
      Refreshing, HandPc
<1>5. QED
  BY <1>1, <1>2, <1>3, <1>4 DEF MirrorInv, PutIsNews, NoRowNoRecord

\* Every step keeps every resource that is not suspect afterwards in
\* agreement.
LEMMA NextAgrees ==
  ASSUME Discipline, MirrorInv, [Next]_vars,
         NEW r \in Resource, r \notin suspect'
  PROVE  Agrees(r)'
<1> USE DEF outside, store, process, command, reconciler, history, crawled
<1>a. /\ work \in [Worker -> Work] /\ rows \in [Resource -> Row]
      /\ target \in [Resource -> Record \cup {None}]
      /\ recon \in [Resource -> Recon]
  BY DEF Discipline, TypeOK
<1>b. r \notin suspect => Agrees(r)
  BY DEF MirrorInv
\* Steps that leave all of it alone.
<1>c. ASSUME UNCHANGED <<rows, profile, work, recon, suspect>>,
             target'[r] = target[r]
      PROVE  Agrees(r)'
  BY <1>b, <1>c, AgreesFrame
\* Steps that touch one worker, outside of materialize and the deletion.
<1>d. ASSUME NEW w \in Worker, \A v \in Worker \ {w} : work'[v] = work[v],
             work[w].pc \notin HandPc,
             work'[w].pc \in HandPc => work'[w].pc = "read",
             UNCHANGED <<rows, target, profile, recon, suspect>>
      PROVE  Agrees(r)'
  <2>1. ~Committed(w, r) /\ ~(Committed(w, r)')
    BY <1>d DEF Committed, InHand
  <2>2. QED
    BY <1>b, <1>d, <2>1, AgreesFrame
<1>1. ASSUME NEW q \in Resource, NEW v \in Version \cup {None},
             SourceChanges(q, v)
      PROVE  Agrees(r)'
  BY <1>1, <1>c DEF SourceChanges
<1>2. ASSUME NEW q \in Resource, NEW rec \in Record \cup {None},
             TargetDrifts(q, rec)
      PROVE  Agrees(r)'
  <2>1. r \notin suspect /\ target'[r] = target[r]
    BY <1>2, <1>a DEF TargetDrifts
  <2>2. QED
    BY <1>2, <1>b, <2>1, AgreesFrame DEF TargetDrifts
<1>e. ASSUME r \notin suspect, UNCHANGED <<rows, target>>,
             target[r] = Believed(rows[r]),
             \A w \in Worker : work'[w].pc \notin HandPc,
             recon'[r].pc = "idle"
      PROVE  Agrees(r)'
  BY <1>e
  DEF Agrees, LedgerAgrees, HandAgrees, RefreshAgrees, Committed, InHand,
      Refreshing
<1>3. ASSUME NEW c \in Commands, NEW p \in Profile, StartCommand(c, p)
      PROVE  Agrees(r)'
  <2>1. /\ \A w \in Worker : work[w].pc = "idle"
        /\ recon[r].pc = "idle"
    BY <1>3, NobodyWhenDown DEF StartCommand
  <2>2. r \notin suspect /\ target[r] = Believed(rows[r])
    BY <1>3, <1>b, <2>1
    DEF StartCommand, Agrees, LedgerAgrees, InHand, Refreshing, HandPc
  <2>3. QED
    BY <1>3, <1>e, <2>1, <2>2 DEF StartCommand, HandPc
<1>4. CASE Exit
  BY <1>4, <1>c DEF Exit
<1>5. CASE Crash
  <2>1. /\ r \notin suspect /\ ~Refreshing(r)
        /\ \A w \in Worker : ~(InHand(w, r) /\ work[w].pc \in {"saveNew", "mark"})
    BY <1>5 DEF Crash, InHand
  <2>2. target[r] = Believed(rows[r])
    BY <1>b, <2>1 DEF Agrees, LedgerAgrees
  <2>3. (\A w \in Worker : work'[w].pc \notin HandPc) /\ recon'[r].pc = "idle"
    BY <1>5 DEF Crash, Resting, ReconIdle, HandPc
  <2>4. QED
    BY <1>5, <1>e, <2>1, <2>2, <2>3 DEF Crash
<1>6. ASSUME NEW t \in Tasks, TaskFailsAtStart(t)
      PROVE  Agrees(r)'
  BY <1>6, <1>c DEF TaskFailsAtStart
<1>f. ASSUME \A q \in Resource : Believed(rows'[q]) = Believed(rows[q]),
             lock \in {None, Loop}, work[Loop].pc = "idle",
             UNCHANGED <<target, profile, work, recon, suspect>>
      PROVE  Agrees(r)'
  <2>1. \A w \in Worker : ~Committed(w, r)
    BY <1>f, NobodyCommitted DEF Committed, InHand
  <2>2. QED
    BY <1>b, <1>f, <2>1, AgreesAnew
<1>7. CASE StartCrawl
  <2>1. work[Loop].pc = "idle" /\ profile' = profile
    BY <1>7, StartShape DEF StartCrawl, Tasks, Start
  <2>2. \A q \in Resource : Believed(rows'[q]) = Believed(rows[q])
    BY <1>7, <1>a, BelievedKept DEF StartCrawl
  <2>3. QED
    BY <1>7, <1>f, <2>1, <2>2 DEF StartCrawl
<1>8. CASE StartRetryFailures \/ StartPrune \/ StartRetryEvents
  BY <1>8, <1>c DEF StartRetryFailures, StartPrune, StartRetryEvents, Start
<1>9. CASE StartReconcile
  <2>1. ~Refreshing(r)
    BY <1>9, StartShape DEF StartReconcile, Tasks, Refreshing
  <2>2. ~(Refreshing(r)')
    BY <1>9 DEF StartReconcile, Refreshing, ReconIdle
  <2>3. Agrees(r) /\ UNCHANGED <<rows, target, work, profile>>
    BY <1>9, <1>b DEF StartReconcile, Start
  <2>4. LedgerAgrees(r)'
    BY <2>1, <2>3 DEF Agrees, LedgerAgrees, InHand
  <2>5. \A w \in Worker : HandAgrees(w, r)'
    BY <2>2, <2>3 DEF Agrees, HandAgrees, Committed, InHand
  <2>6. RefreshAgrees(r)'
    BY <2>2 DEF RefreshAgrees
  <2>7. QED
    BY <2>4, <2>5, <2>6 DEF Agrees
<1>10. ASSUME NEW P \in SUBSET unlisted, FetchPage(P)
       PROVE  Agrees(r)'
  BY <1>10, <1>c DEF FetchPage
<1>11. ASSUME NEW skipped \in BOOLEAN, CrawlStops(skipped)
       PROVE  Agrees(r)'
  BY <1>11, <1>c DEF CrawlStops, EndTask
<1>12. CASE Sweep \/ SweepFails
  <2>1. lock = Loop /\ work[Loop].pc = "idle" /\ profile' = profile
    BY <1>12
    DEF Sweep, SweepFails, CrawlComplete, EndTask, Discipline, Shape,
        LockDiscipline
  <2>2. \A q \in Resource : Believed(rows'[q]) = Believed(rows[q])
    BY <1>12, <1>a, BelievedKept DEF Sweep, SweepFails
  <2>3. QED
    BY <1>12, <1>f, <2>1, <2>2 DEF Sweep, SweepFails
<1>13. ASSUME NEW i \in batch, NextItem(i)
       PROVE  Agrees(r)'
  <2>1. /\ work[Loop].pc \notin HandPc /\ Loop \in Worker
        /\ work'[Loop].pc \in {"read", "delete"}
        /\ \A v \in Worker \ {Loop} : work'[v] = work[v]
    BY <1>13, <1>a DEF NextItem, Worker, Resting, HandPc
  <2>2. CASE work'[Loop].pc = "read"
    BY <1>13, <1>d, <2>1, <2>2 DEF NextItem
  <2>3. CASE work'[Loop].pc = "delete"
    <3>1. ~Refreshing(r)
      BY <1>13, ReconIdleOutside DEF NextItem, Refreshing
    <3>2. Agrees(r) /\ UNCHANGED <<rows, target, recon, profile>>
      BY <1>13, <1>b DEF NextItem
    <3>3. LedgerAgrees(r)'
      BY <2>1, <3>1, <3>2 DEF Agrees, LedgerAgrees, InHand
    <3>4. \A v \in Worker \ {Loop} : HandAgrees(v, r)'
      BY <2>1, <3>2 DEF Agrees, HandAgrees, Committed, InHand, Refreshing
    <3>5. HandAgrees(Loop, r)'
      BY <2>3, <3>1, <3>2 DEF HandAgrees, Refreshing
    <3>6. RefreshAgrees(r)'
      BY <3>1, <3>2 DEF RefreshAgrees, Refreshing
    <3>7. QED
      BY <3>3, <3>4, <3>5, <3>6 DEF Agrees
  <2>4. QED
    BY <2>1, <2>2, <2>3
<1>g. ASSUME NEW w \in Worker, NEW e \in Event, Enqueue(w, e),
             work[w].pc = "idle",
             UNCHANGED <<rows, target, profile, recon, suspect>>
      PROVE  Agrees(r)'
  <2>1. /\ \A v \in Worker \ {w} : work'[v] = work[v]
        /\ work[w].pc \notin HandPc /\ work'[w].pc \notin HandPc
    BY <1>g, <1>a DEF Enqueue, Resting, HandPc
  <2>2. QED
    BY <1>d, <1>g, <2>1
<1>14. ASSUME NEW i \in batch, NextEvent(i)
       PROVE  Agrees(r)'
  <2>1. i.ev \in Event /\ Loop \in Worker
    BY <1>14 DEF NextEvent, Discipline, Shape, BatchWellFormed, Worker
  <2>2. QED
    BY <1>14, <1>g, <2>1 DEF NextEvent
<1>15. CASE BatchDone
  BY <1>15, <1>c DEF BatchDone, EndTask
<1>16. ASSUME NEW w \in Worker, WorkerStep(w)
       PROVE  Agrees(r)'
  BY <1>16, WorkerAgrees
<1>17. ASSUME NEW h \in Handler, NEW e \in Event, DeliverEvent(h, e)
       PROVE  Agrees(r)'
  BY <1>17, <1>g DEF DeliverEvent, Worker
<1>18. ASSUME NEW q \in Resource, ReconStep(q)
       PROVE  Agrees(r)'
  BY <1>18, ReconAgrees
<1>19. CASE ReconDone
  BY <1>19, <1>c DEF ReconDone, EndTask
<1>20. CASE UNCHANGED vars
  BY <1>20, <1>c DEF vars
<1>21. QED
  BY <1>1, <1>2, <1>3, <1>4, <1>5, <1>6, <1>7, <1>8, <1>9, <1>10, <1>11,
     <1>12, <1>13, <1>14, <1>15, <1>16, <1>17, <1>18, <1>19, <1>20
  DEF Next, LoopStep

\* Whoever is before a PUT has compared it with the ledger: it got there in
\* materialize's Read, under the profile the command still has.
LEMMA NextNews == Discipline /\ MirrorInv /\ [Next]_vars => PutIsNews'
<1> SUFFICES ASSUME Discipline, MirrorInv, [Next]_vars PROVE PutIsNews'
  OBVIOUS
<1> USE DEF outside, store, process, command, reconciler, history, crawled
<1>a. work \in [Worker -> Work] /\ PutIsNews
  BY DEF Discipline, TypeOK, MirrorInv
<1>b. ASSUME profile' = profile,
             \A w \in Worker : \/ work'[w] = work[w]
                               \/ work'[w].pc \notin {"put", "saveSame"}
      PROVE  PutIsNews'
  BY <1>a, <1>b DEF PutIsNews
<1>1. ASSUME UNCHANGED <<profile, work>>
      PROVE  PutIsNews'
  BY <1>b, <1>1
<1>2. ASSUME NEW c \in Commands, NEW p \in Profile, StartCommand(c, p)
      PROVE  PutIsNews'
  BY <1>2, NobodyWhenDown DEF StartCommand, PutIsNews
<1>3. CASE Crash
  BY <1>3, <1>b DEF Crash, Resting
<1>4. ASSUME NEW i \in batch, NextItem(i) \/ NextEvent(i)
      PROVE  PutIsNews'
  <2>1. CASE NextItem(i)
    BY <1>a, <1>b, <2>1 DEF NextItem, Resting
  <2>2. CASE NextEvent(i)
    BY <1>a, <1>b, <2>2 DEF NextEvent, Enqueue, Resting
  <2>3. QED
    BY <1>4, <2>1, <2>2
<1>5. ASSUME NEW h \in Handler, NEW e \in Event, DeliverEvent(h, e)
      PROVE  PutIsNews'
  BY <1>a, <1>b, <1>5 DEF DeliverEvent, Enqueue, Resting, Worker
<1>6. ASSUME NEW w \in Worker, WorkerStep(w)
      PROVE  PutIsNews'
  <2>1. CASE Read(w)
    <3>1. /\ work'[w].ver = work[w].ver
          /\ work'[w].prev = rows[work[w].res]
          /\ work'[w].pc = "put" =>
               ~UpToDate(rows[work[w].res], work[w].ver,
                         Mapping[profile][work[w].ver])
          /\ work'[w].pc = "saveSame" =>
               UpToDate(rows[work[w].res], work[w].ver,
                        Mapping[profile][work[w].ver])
          /\ \A v \in Worker \ {w} : work'[v] = work[v]
          /\ profile' = profile
      BY <1>a, <2>1 DEF Read, Work
    <3>2. QED
      BY <1>a, <3>1 DEF PutIsNews, UpToDate
  <2>2. CASE Put(w) \/ PutFails(w) \/ Delete(w)
    BY <1>b, <2>2, BecomeKeeps DEF Put, PutFails, Delete
  <2>3. CASE \/ ReadFails(w) \/ Save(w) \/ SaveFails(w) \/ DeleteFails(w)
             \/ Mark(w) \/ MarkFails(w)
    <3>1. \E ok \in BOOLEAN : Return(w, ok)
      BY <2>3 DEF ReadFails, Save, SaveFails, DeleteFails, Mark, MarkFails
    <3>2. QED
      BY <1>b, <3>1, ReturnLetsGo DEF HandPc
  <2>4. CASE Requeue(w) \/ AcquireLock(w) \/ FetchFails(w)
    BY <1>b, <2>4, BecomeKeeps DEF Requeue, AcquireLock, FetchFails
  <2>5. CASE RequeueFails(w) \/ Complete(w)
    BY <1>a, <1>b, <2>5 DEF RequeueFails, Complete, Resting
  <2>6. CASE FetchSubject(w)
    BY <1>a, <1>b, <2>6 DEF FetchSubject, Work
  <2>7. QED
    BY <1>6, <2>1, <2>2, <2>3, <2>4, <2>5, <2>6 DEF WorkerStep
<1>7. ASSUME NEW r \in Resource, ReconStep(r)
      PROVE  PutIsNews'
  BY <1>1, <1>7 DEF ReconStep, ReconGet, ReconPut, ReconSave, ReconFails
<1>8. ASSUME NEW r \in Resource, NEW v, SourceChanges(r, v)
      PROVE  PutIsNews'
  BY <1>1, <1>8 DEF SourceChanges
<1>9. ASSUME NEW r \in Resource, NEW rec, TargetDrifts(r, rec)
      PROVE  PutIsNews'
  BY <1>1, <1>9 DEF TargetDrifts
<1>10. ASSUME NEW t \in Tasks, TaskFailsAtStart(t)
       PROVE  PutIsNews'
  BY <1>1, <1>10 DEF TaskFailsAtStart
<1>11. CASE \/ StartCrawl \/ StartRetryFailures \/ StartPrune
            \/ StartRetryEvents \/ StartReconcile \/ Exit
  BY <1>1, <1>11
  DEF StartCrawl, StartRetryFailures, StartPrune, StartRetryEvents,
      StartReconcile, Start, Exit
<1>12. ASSUME NEW P, FetchPage(P)
       PROVE  PutIsNews'
  BY <1>1, <1>12 DEF FetchPage
<1>13. ASSUME NEW skipped, CrawlStops(skipped)
       PROVE  PutIsNews'
  BY <1>1, <1>13 DEF CrawlStops, EndTask
<1>14. CASE Sweep \/ SweepFails \/ BatchDone \/ ReconDone
  BY <1>1, <1>14 DEF Sweep, SweepFails, BatchDone, ReconDone, EndTask
<1>15. CASE UNCHANGED vars
  BY <1>1, <1>15 DEF vars
<1>16. QED
  BY <1>2, <1>3, <1>4, <1>5, <1>6, <1>7, <1>8, <1>9, <1>10, <1>11, <1>12,
     <1>13, <1>14, <1>15 DEF Next, LoopStep

\* A row never disappears, and every row made of another one is one.
LEMMA NextNoRow == Discipline /\ MirrorInv /\ [Next]_vars => NoRowNoRecord'
<1> SUFFICES ASSUME Discipline, MirrorInv, [Next]_vars PROVE NoRowNoRecord'
  OBVIOUS
<1> USE DEF outside, store, process, command, reconciler, history, crawled
<1>a. rows \in [Resource -> Row] /\ NoRowNoRecord
  BY DEF Discipline, TypeOK, MirrorInv
<1>b. ASSUME NEW row \in Row, ~Found(row) => row.record = None
      PROVE  /\ ~Found(Unseen(row)) => Unseen(row).record = None
             /\ ~Found(MissCounted(row)) => MissCounted(row).record = None
             /\ ~Found(MarkedDeleted(row)) => MarkedDeleted(row).record = None
  BY <1>b DEF Found, Unseen, MissCounted, MarkedDeleted, Row
<1>1. CASE UNCHANGED rows
  BY <1>a, <1>1 DEF NoRowNoRecord
<1>2. CASE StartCrawl \/ Sweep \/ SweepFails
  <2>1. \/ UNCHANGED rows
        \/ rows' = [r \in Resource |-> Unseen(rows[r])]
        \/ rows' = [r \in Resource |-> MissCounted(rows[r])]
    BY <1>2 DEF StartCrawl, Sweep, SweepFails
  <2>2. QED
    BY <1>a, <1>b, <1>1, <2>1 DEF NoRowNoRecord
<1>3. ASSUME NEW w \in Worker, Save(w)
      PROVE  NoRowNoRecord'
  <2>1. work[w].pc = "saveSame" => Found(work[w].prev) /\ work[w].prev \in Row
    BY DEF Discipline, TypeOK, Shape, WorkWellFormed, Work
  <2>2. Found(SavedRow(w))
    BY <1>3, <2>1
    DEF Save, SavedRow, SameRow, NewRow, FailedRow, Found, Row
  <2>3. QED
    BY <1>3, <1>a, <2>2 DEF Save, NoRowNoRecord
<1>4. ASSUME NEW w \in Worker, Mark(w)
      PROVE  NoRowNoRecord'
  BY <1>a, <1>b, <1>4 DEF Mark, NoRowNoRecord
<1>5. ASSUME NEW r \in Resource, ReconSave(r)
      PROVE  NoRowNoRecord'
  <2>1. IsActive(recon[r].row) /\ recon[r].row \in Row
    BY <1>5
    DEF ReconSave, Refreshing, Discipline, TypeOK, Shape, ReconWellFormed, Recon
  <2>2. Found(RefreshedRow(recon[r].row, ReconRecord(r)))
    BY <2>1 DEF RefreshedRow, IsActive, Found, Row
  <2>3. QED
    BY <1>5, <1>a, <2>2 DEF ReconSave, NoRowNoRecord
<1>6. ASSUME NEW w \in Worker, WorkerStep(w)
      PROVE  NoRowNoRecord'
  BY <1>1, <1>3, <1>4, <1>6
  DEF WorkerStep, Read, ReadFails, Put, PutFails, SaveFails, Delete,
      DeleteFails, MarkFails, Requeue, RequeueFails, AcquireLock,
      FetchSubject, FetchFails, Complete
<1>7. ASSUME NEW r \in Resource, ReconStep(r)
      PROVE  NoRowNoRecord'
  BY <1>1, <1>5, <1>7 DEF ReconStep, ReconGet, ReconPut, ReconFails
<1>8. CASE LoopStep
  BY <1>1, <1>2, <1>8
  DEF LoopStep, FetchPage, CrawlStops, NextItem, NextEvent, BatchDone
<1>9. CASE \/ \E r \in Resource, v \in Version \cup {None} : SourceChanges(r, v)
           \/ \E r \in Resource, rec \in Record \cup {None} : TargetDrifts(r, rec)
           \/ \E c \in Commands, p \in Profile : StartCommand(c, p)
           \/ Exit \/ Crash
           \/ \E t \in Tasks : TaskFailsAtStart(t)
  BY <1>1, <1>9
  DEF SourceChanges, TargetDrifts, StartCommand, Exit, Crash, TaskFailsAtStart
<1>10. CASE \/ StartRetryFailures \/ StartPrune \/ StartRetryEvents
            \/ StartReconcile \/ ReconDone
            \/ \E h \in Handler, e \in Event : DeliverEvent(h, e)
  BY <1>1, <1>10
  DEF StartRetryFailures, StartPrune, StartRetryEvents, StartReconcile,
      ReconDone, DeliverEvent
<1>11. CASE UNCHANGED vars
  BY <1>1, <1>11 DEF vars
<1>12. QED
  BY <1>2, <1>6, <1>7, <1>8, <1>9, <1>10, <1>11 DEF Next

-----------------------------------------------------------------------------
\* The inductive invariant of the ledger: every resource that is not suspect
\* agrees in its row, its record and the hands that are on it.
THEOREM SpecMirror == Spec => [](Discipline /\ MirrorInv)
<1>1. Init => MirrorInv
  BY InitMirror
<1>2. Discipline /\ MirrorInv /\ [Next]_vars => MirrorInv'
  BY NextAgrees, NextNews, NextNoRow DEF MirrorInv
<1>3. QED
  BY <1>1, <1>2, SpecDiscipline, PTL DEF Spec

\* The ledger tells the truth about the catalog: but for lost and raced
\* writes and what others did to the target, the record in the catalog is the
\* one the row says, at any time outside of a write - materialize, the sweep,
\* Prune, HandleCloudEvent and ReconcileTarget included, over crashes and
\* failures of every call.
THEOREM SpecLedgerMirrorsCatalog == Spec => []LedgerMirrorsCatalog
<1>1. MirrorInv => LedgerMirrorsCatalog
  BY DEF MirrorInv, Agrees, LedgerAgrees, LedgerMirrorsCatalog
<1>2. QED
  BY <1>1, SpecMirror, PTL

\* Semantic no-ops are not written: before a PUT, the catalog or an active row
\* differs from what is about to be sent.
THEOREM SpecUnchangedNotRewritten == Spec => []UnchangedNotRewritten
<1>1. Discipline /\ MirrorInv => UnchangedNotRewritten
  <2> SUFFICES ASSUME Discipline, MirrorInv,
                      NEW r \in Resource \ suspect, NEW w \in Worker,
                      InHand(w, r), work[w].pc = "put", IsActive(rows[r]),
                      rows[r].version = work[w].ver
               PROVE  target[r] # Mapping[profile][work[w].ver]
    BY DEF UnchangedNotRewritten
  <2>1. Agrees(r) /\ Committed(w, r)
    BY DEF MirrorInv, Committed
  <2>2. ~Refreshing(r) /\ work[w].prev = rows[r]
    BY <2>1 DEF Agrees, HandAgrees
  <2>3. \A v \in Worker : InHand(v, r) => v = w
    BY DisciplineOneWorker DEF OneWorkerPerResource
  <2>4. target[r] = Believed(rows[r])
    BY <2>1, <2>2, <2>3 DEF Agrees, LedgerAgrees
  <2>5. Believed(rows[r]) = rows[r].record
    BY DEF Believed, Live, Found, IsActive
  <2>6. rows[r].record # Mapping[profile][work[w].ver]
    BY <2>2 DEF MirrorInv, PutIsNews, UpToDate
  <2>7. QED
    BY <2>4, <2>5, <2>6
<1>2. QED
  BY <1>1, SpecMirror, PTL

-----------------------------------------------------------------------------
(* Sweep.                                                                  *)

\* Marking a run forgets no miss; CandidatesForDeletion counts at most one,
\* and none of a row that is marked.
LEMMA MissesOfRow ==
  ASSUME NEW row \in Row
  PROVE  /\ Unseen(row).misses = row.misses
         /\ MissCounted(row).misses \in {row.misses, row.misses + 1}
         /\ MissCounted(row).misses <= Threshold
         /\ row.seen => MissCounted(row) = row
         /\ MarkedDeleted(row).misses = row.misses
         /\ MarkedDeleted(row).seen = row.seen
         /\ Found(MarkedDeleted(row)) <=> Found(row)
<1>1. row.misses \in 0 .. Threshold /\ Threshold \in Nat
  BY ThresholdAssumption DEF Row
<1>2. Unseen(row).misses = row.misses
  BY DEF Unseen, Row
<1>3. /\ MissCounted(row).misses \in {row.misses, row.misses + 1}
      /\ MissCounted(row).misses <= Threshold
      /\ row.seen => MissCounted(row) = row
  BY <1>1 DEF MissCounted, Row
<1>4. /\ MarkedDeleted(row).misses = row.misses
      /\ MarkedDeleted(row).seen = row.seen
      /\ Found(MarkedDeleted(row)) <=> Found(row)
  BY DEF MarkedDeleted, Found, Row
<1>5. QED
  BY <1>2, <1>3, <1>4

\* Every row materialize saves has no misses left, and is marked in a crawl.
LEMMA SavedRowCounts ==
  ASSUME Discipline, NEW w \in Worker,
         work[w].pc \in {"saveSame", "saveNew", "saveFailed"}
  PROVE  /\ SavedRow(w).misses = 0
         /\ Found(SavedRow(w))
         /\ Marks(w) => SavedRow(w).seen
<1>1. work[w].prev \in Row
  BY DEF Discipline, TypeOK, Work
<1>2. work[w].pc = "saveSame" => Found(work[w].prev)
  BY DEF Discipline, Shape, WorkWellFormed
<1>3. QED
  BY <1>1, <1>2 DEF SavedRow, SameRow, NewRow, FailedRow, Found, Row

\* A step that leaves the counters alone and takes nothing out of the task's
\* hands that it has not marked.
LEMMA CountedFrame ==
  ASSUME NEW r \in Resource, Counted(r),
         rows'[r] = rows[r], recon'[r] = recon[r], absent'[r] = absent[r],
         task' = task, reported' = reported,
         Pending(r) <=> Pending(r)'
  PROVE  Counted(r)'
  BY DEF Counted, ListedIsSeen, MissesAreAbsences, SweptIsAbsent

\* A step out of a crawl or a sweep, or into another task.
LEMMA CountedElsewhere ==
  ASSUME NEW r \in Resource, Counted(r),
         rows'[r].misses = rows[r].misses, recon'[r] = recon[r],
         absent'[r] = absent[r], task' \notin {"crawl", "sweep"}
  PROVE  Counted(r)'
  BY DEF Counted, ListedIsSeen, MissesAreAbsences, SweptIsAbsent

\* Before the first crawl nothing is missed.
LEMMA InitSweep == Init => SweepInv
<1> SUFFICES ASSUME Init PROVE SweepInv
  OBVIOUS
<1>1. \A r \in Resource : /\ rows[r] = NoRow /\ recon[r] = ReconIdle
                          /\ absent[r] = 0
  BY DEF Init
<1>2. NoRow.misses = 0 /\ ReconIdle.pc = "idle"
  BY DEF NoRow, ReconIdle
<1>3. task = "idle"
  BY DEF Init
<1>4. \A r \in Resource : Counted(r)
  BY <1>1, <1>2, <1>3
  DEF Counted, ListedIsSeen, MissesAreAbsences, SweptIsAbsent
<1>5. QED
  BY <1>3, <1>4 DEF SweepInv, CrawlMaterializes

\* A worker of the crawl marks the row of what it was given, or loses it to
\* swallowed, or ends the crawl; the others keep off meanwhile.
LEMMA WorkerCounted ==
  ASSUME Discipline, SweepInv, NEW w \in Worker, WorkerStep(w),
         NEW r \in Resource, r \notin swallowed'
  PROVE  Counted(r)'
<1> USE DEF outside, store, process, command, reconciler, history, crawled
<1>a. /\ work \in [Worker -> Work] /\ rows \in [Resource -> Row]
      /\ absent \in [Resource -> 0 .. Threshold]
      /\ Loop \in Worker /\ Threshold \in Nat
  BY ThresholdAssumption DEF Discipline, TypeOK, Worker
<1>b. r \notin swallowed => Counted(r)
  BY DEF SweepInv
<1>c. UNCHANGED <<absent, reported, recon>>
  BY DEF WorkerStep, Read, ReadFails, Put, PutFails, Save, SaveFails, Delete,
         DeleteFails, Mark, MarkFails, Requeue, RequeueFails, AcquireLock,
         FetchSubject, FetchFails, Complete
<1>d. task \in {"crawl", "sweep"} /\ w # Loop => work[w].pc \notin HandPc
  BY DEF Discipline, Shape, LockDiscipline, ForEvent
<1>e. /\ work[Loop].pc \in EventPc => task = "event"
      /\ task = "sweep" => work[Loop].pc \in {"idle", "delete", "mark"}
      /\ task = "crawl" => work[Loop].pc \notin {"delete", "mark"}
  BY DEF Discipline, Shape, TaskDiscipline, SweepInv, CrawlMaterializes
\* A worker that keeps what it has in hand.
<1>f. ASSUME UNCHANGED <<rows, task, batch, swallowed>>,
             InHand(Loop, r) <=> InHand(Loop, r)'
      PROVE  Counted(r)'
  <2>1. Pending(r) <=> Pending(r)'
    BY <1>f DEF Pending
  <2>2. QED
    BY <1>b, <1>c, <1>f, <2>1, CountedFrame
\* A worker that ends the task.
<1>g. ASSUME UNCHANGED <<rows, swallowed>>, task' = "idle"
      PROVE  Counted(r)'
  BY <1>b, <1>c, <1>g, CountedElsewhere
\* A worker that returns without having touched the row.
<1>h. ASSUME NEW ok \in BOOLEAN, Return(w, ok), UNCHANGED <<rows, swallowed>>,
             work[w].pc \in HandPc,
             w = Loop /\ ok /\ r = work[w].res => task # "crawl"
      PROVE  Counted(r)'
  <2>1. CASE w # Loop
    <3>1. UNCHANGED <<task, batch>> /\ work'[Loop] = work[Loop]
      BY <1>a, <1>h, <2>1 DEF Return
    <3>2. QED
      BY <1>f, <1>h, <3>1 DEF InHand
  <2>2. CASE w = Loop /\ task \notin {"crawl", "sweep"}
    <3>1. task' \notin {"crawl", "sweep"}
      BY <1>h, <2>2 DEF Return, EndTask
    <3>2. QED
      BY <1>b, <1>c, <1>h, <3>1, CountedElsewhere
  <2>3. CASE w = Loop /\ task \in {"crawl", "sweep"}
    <3>1. CASE ~ok
      BY <1>g, <1>h, <2>3, <3>1 DEF Return, EndTask
    <3>2. CASE ok
      <4>1. UNCHANGED <<task, batch>> /\ work'[Loop].pc = "idle"
        BY <1>a, <1>h, <2>3, <3>2 DEF Return, Resting
      <4>2. ~(InHand(Loop, r)')
        BY <4>1 DEF InHand, HandPc
      <4>3. CASE ~InHand(Loop, r)
        BY <1>f, <1>h, <4>1, <4>2, <4>3
      <4>4. CASE InHand(Loop, r)
        <5>1. task = "sweep"
          BY <1>h, <2>3, <3>2, <4>4 DEF InHand
        <5>2. Counted(r)
          BY <1>b, <1>h
        <5>3. QED
          BY <1>c, <1>h, <4>1, <4>4, <5>1, <5>2
          DEF Counted, ListedIsSeen, MissesAreAbsences, SweptIsAbsent, Pending
      <4>5. QED
        BY <4>3, <4>4
    <3>3. QED
      BY <3>1, <3>2
  <2>4. QED
    BY <2>1, <2>2, <2>3
<1>1. CASE Read(w)
  <2>1. /\ UNCHANGED <<rows, task, batch, swallowed>>
        /\ work[w].pc \in HandPc /\ work'[w].pc \in HandPc
        /\ work'[w].res = work[w].res
        /\ \A v \in Worker \ {w} : work'[v] = work[v]
    BY <1>1, <1>a DEF Read, HandPc, Work
  <2>2. QED
    BY <1>a, <1>f, <2>1 DEF InHand
<1>2. CASE Put(w) \/ PutFails(w) \/ Delete(w)
  <2>1. /\ UNCHANGED <<rows, task, batch, swallowed>>
        /\ work[w].pc \in HandPc /\ work'[w].pc \in HandPc
        /\ work'[w].res = work[w].res
        /\ \A v \in Worker \ {w} : work'[v] = work[v]
    BY <1>2, BecomeKeeps DEF Put, PutFails, Delete, HandPc
  <2>2. QED
    BY <1>a, <1>f, <2>1 DEF InHand
<1>3. CASE ReadFails(w)
  BY <1>3, <1>h DEF ReadFails, HandPc
<1>4. CASE DeleteFails(w) \/ MarkFails(w)
  BY <1>4, <1>h DEF DeleteFails, MarkFails, HandPc
<1>5. CASE SaveFails(w)
  <2>1. CASE work[w].pc = "saveFailed" /\ Marks(w)
    <3>1. UNCHANGED <<rows, task, batch>>
      BY <1>5, <2>1 DEF SaveFails, Return, Marks
    <3>2. r # work[w].res /\ r \notin swallowed /\ w = Loop
      BY <1>5, <2>1 DEF SaveFails, Marks
    <3>3. ~InHand(Loop, r) /\ ~(InHand(Loop, r)')
      BY <1>5, <2>1, <3>2, ReturnLetsGo DEF SaveFails, InHand
    <3>4. Pending(r) <=> Pending(r)'
      BY <3>1, <3>3 DEF Pending
    <3>5. QED
      BY <1>b, <1>c, <3>1, <3>2, <3>4, CountedFrame
  <2>2. CASE ~(work[w].pc = "saveFailed" /\ Marks(w))
    BY <1>5, <1>h, <2>2 DEF SaveFails, Marks, HandPc
  <2>3. QED
    BY <2>1, <2>2
<1>6. CASE Save(w)
  <2>1. /\ SavedRow(w).misses = 0 /\ Found(SavedRow(w))
        /\ Marks(w) => SavedRow(w).seen
    BY <1>6, SavedRowCounts DEF Save
  <2>2. /\ work[w].pc \in HandPc /\ Return(w, TRUE)
        /\ work[w].res \in Resource
    BY <1>6 DEF Save, HandPc, Discipline, Shape, WorkWellFormed
  <2>3. CASE r = work[w].res
    <3>1. rows'[r] = SavedRow(w)
      BY <1>6, <1>a, <2>3 DEF Save
    <3>2. task # "sweep"
      BY <1>6, <1>d, <1>e, <2>2 DEF Save
    <3>3. task = "crawl" => Marks(w)
      BY <1>d, <2>2 DEF Marks
    <3>4. task' = task
      BY <2>2 DEF Return
    <3>5. recon[r].pc # "idle" => r \notin swallowed
      <4>1. CASE w # Loop
        BY <1>6, <4>1 DEF Save
      <4>2. CASE w = Loop
        BY <2>2, <4>2
        DEF HandPc, Discipline, Shape, ReconWellFormed, TaskDiscipline
      <4>3. QED
        BY <4>1, <4>2
    <3>6. MissesAreAbsences(r)'
      BY <1>a, <1>b, <1>c, <2>1, <3>1, <3>5
      DEF MissesAreAbsences, Counted
    <3>7. QED
      BY <2>1, <3>1, <3>2, <3>3, <3>4, <3>6
      DEF Counted, ListedIsSeen, SweptIsAbsent
  <2>4. CASE r # work[w].res
    <3>1. rows'[r] = rows[r] /\ r \notin swallowed
      BY <1>6, <1>a, <2>4 DEF Save
    <3>2. InHand(Loop, r) <=> InHand(Loop, r)'
      BY <1>a, <2>2, <2>4, ReturnLetsGo DEF InHand
    <3>3. UNCHANGED <<task, batch>>
      BY <2>2 DEF Return
    <3>4. Pending(r) <=> Pending(r)'
      BY <3>2, <3>3 DEF Pending
    <3>5. QED
      BY <1>b, <1>c, <3>1, <3>3, <3>4, CountedFrame
  <2>5. QED
    BY <2>3, <2>4
<1>7. CASE Mark(w)
  <2>1. work[w].res \in Resource /\ work[w].pc \in HandPc /\ Return(w, TRUE)
    BY <1>7 DEF Mark, HandPc, Discipline, Shape, WorkWellFormed
  <2>2. task # "crawl"
    BY <1>7, <1>d, <1>e, <2>1 DEF Mark
  <2>3. rows'[r].misses = rows[r].misses
    BY <1>7, <1>a, MissesOfRow DEF Mark
  <2>4. UNCHANGED <<task, batch>> /\ r \notin swallowed
    BY <1>7, <2>1 DEF Mark, Return
  <2>5. Pending(r)' => Pending(r)
    BY <1>a, <2>1, <2>4, ReturnLetsGo DEF Pending, InHand
  <2>6. QED
    BY <1>b, <1>c, <2>2, <2>3, <2>4, <2>5
    DEF Counted, ListedIsSeen, MissesAreAbsences, SweptIsAbsent
<1>8. CASE \/ Requeue(w) \/ RequeueFails(w) \/ AcquireLock(w)
           \/ FetchSubject(w) \/ FetchFails(w) \/ Complete(w)
  <2>1. /\ UNCHANGED <<rows, task, batch, swallowed>>
        /\ work[w].pc \in EventPc
        /\ \A v \in Worker \ {w} : work'[v] = work[v]
    BY <1>8, <1>a
    DEF Requeue, RequeueFails, AcquireLock, FetchSubject, FetchFails,
        Complete, Become, EventPc
  <2>2. CASE w # Loop
    BY <1>a, <1>f, <2>1, <2>2 DEF InHand
  <2>3. CASE w = Loop
    BY <1>b, <1>c, <1>e, <2>1, <2>3, CountedElsewhere
  <2>4. QED
    BY <2>2, <2>3
<1>9. QED
  BY <1>1, <1>2, <1>3, <1>4, <1>5, <1>6, <1>7, <1>8 DEF WorkerStep

\* So does ReconcileTarget: the snapshot it saves back counts no more misses
\* than it did when it was taken, and no crawl is complete in between.
LEMMA ReconCounted ==
  ASSUME Discipline, SweepInv, NEW q \in Resource, ReconStep(q),
         NEW r \in Resource, r \notin swallowed'
  PROVE  Counted(r)'
<1> USE DEF outside, store, process, command, history, crawled
<1>a. /\ rows \in [Resource -> Row] /\ recon \in [Resource -> Recon]
      /\ Counted(r)
  BY DEF Discipline, TypeOK, SweepInv, ReconStep, ReconGet, ReconPut,
         ReconSave, ReconFails
<1>b. UNCHANGED <<absent, reported, task>>
  BY DEF ReconStep, ReconGet, ReconPut, ReconSave, ReconFails
<1>c. recon[q].pc # "idle"
  BY DEF ReconStep, ReconGet, ReconPut, ReconSave, ReconFails, Refreshing
<1>d. task = "recon"
  BY <1>c DEF Discipline, Shape, ReconWellFormed
<1>1. recon'[r].pc # "idle" =>
        recon[r].pc # "idle" /\ recon'[r].row = recon[r].row
  BY <1>a, <1>c
  DEF ReconStep, ReconGet, ReconPut, ReconSave, ReconFails, ReconIdle, Recon
<1>2. \/ rows'[r] = rows[r]
      \/ recon[r].pc # "idle" /\ rows'[r].misses = recon[r].row.misses
  <2>1. CASE ReconSave(q)
    <3>1. recon[q].row \in Row
      BY <1>a DEF Recon
    <3>2. RefreshedRow(recon[q].row, ReconRecord(q)).misses =
            recon[q].row.misses
      BY <3>1 DEF RefreshedRow, Row
    <3>3. QED
      BY <1>a, <1>c, <2>1, <3>2 DEF ReconSave
  <2>2. CASE ~ReconSave(q)
    BY <2>2 DEF ReconStep, ReconGet, ReconPut, ReconFails
  <2>3. QED
    BY <2>1, <2>2
<1>3. MissesAreAbsences(r)'
  BY <1>a, <1>b, <1>1, <1>2 DEF Counted, MissesAreAbsences
<1>4. QED
  BY <1>b, <1>d, <1>3 DEF Counted, ListedIsSeen, SweptIsAbsent

\* Counting the misses of a complete crawl.  What it listed is marked, so it
\* has none; what it did not list was absent once more.
LEMMA SweepCounted ==
  ASSUME Discipline, SweepInv, CrawlComplete, CountAbsence,
         NEW r \in Resource, r \notin swallowed,
         rows'[r] \in {rows[r], MissCounted(rows[r])}, UNCHANGED recon
  PROVE  /\ MissesAreAbsences(r)'
         /\ IsCandidate(MissCounted(rows[r])) => absent'[r] = Threshold
<1>a. /\ rows[r] \in Row
      /\ absent \in [Resource -> 0 .. Threshold]
      /\ Threshold \in Nat \ {0}
  BY ThresholdAssumption DEF Discipline, TypeOK
<1>b. /\ rows[r].misses \in 0 .. Threshold
      /\ rows[r].misses <= absent[r] /\ absent[r] \in 0 .. Threshold
  BY <1>a DEF SweepInv, Counted, MissesAreAbsences, Row
<1>c. recon'[r].pc = "idle"
  BY ReconIdleOutside DEF CrawlComplete
<1>d. unlisted = {}
  BY DEF CrawlComplete
<1>e. IsCandidate(MissCounted(rows[r])) =>
        MissCounted(rows[r]).misses >= Threshold
  BY DEF IsCandidate
<1>1. CASE r \in reported
  <2>1. ~Pending(r)
    BY DEF CrawlComplete, Pending, InHand, HandPc
  <2>2. rows[r].seen /\ rows[r].misses = 0
    BY <1>1, <2>1 DEF SweepInv, Counted, ListedIsSeen, CrawlComplete
  <2>3. MissCounted(rows[r]) = rows[r]
    BY <1>a, <2>2, MissesOfRow
  <2>4. absent'[r] = 0
    BY <1>1 DEF CountAbsence
  <2>5. QED
    BY <1>a, <1>c, <1>e, <2>2, <2>3, <2>4 DEF MissesAreAbsences
<1>2. CASE r \notin reported
  <2>1. absent'[r] = IF absent[r] < Threshold THEN absent[r] + 1
                                              ELSE absent[r]
    BY <1>2, <1>d DEF CountAbsence
  <2>2. /\ MissCounted(rows[r]).misses \in
             {rows[r].misses, rows[r].misses + 1}
        /\ MissCounted(rows[r]).misses <= Threshold
    BY <1>a, MissesOfRow
  <2>3. /\ rows'[r].misses <= absent'[r]
        /\ MissCounted(rows[r]).misses <= absent'[r]
    BY <1>a, <1>b, <2>1, <2>2
  <2>4. MissCounted(rows[r]).misses >= Threshold => absent'[r] = Threshold
    BY <1>a, <1>b, <2>1, <2>2, <2>3
  <2>5. QED
    BY <1>c, <1>e, <2>3, <2>4 DEF MissesAreAbsences
<1>3. QED
  BY <1>1, <1>2

\* Every other step leaves the counters alone, or begins or ends a task.
LEMMA NextCounted ==
  ASSUME Discipline, SweepInv, [Next]_vars,
         NEW r \in Resource, r \notin swallowed'
  PROVE  Counted(r)'
<1> USE DEF outside, store, process, command, reconciler, history, crawled
<1>a. /\ work \in [Worker -> Work] /\ rows \in [Resource -> Row]
      /\ Loop \in Worker
  BY DEF Discipline, TypeOK, Worker
<1>b. r \notin swallowed => Counted(r)
  BY DEF SweepInv
\* Steps that leave what the task has to do alone.
<1>c. ASSUME UNCHANGED <<rows, recon, absent, task, reported, swallowed>>,
             UNCHANGED batch, work'[Loop] = work[Loop]
      PROVE  Counted(r)'
  <2>1. Pending(r) <=> Pending(r)'
    BY <1>c DEF Pending, InHand
  <2>2. QED
    BY <1>b, <1>c, <2>1, CountedFrame
\* Steps into another task, or out of one.
<1>d. ASSUME UNCHANGED <<rows, recon, absent, swallowed>>,
             task' \notin {"crawl", "sweep"}
      PROVE  Counted(r)'
  BY <1>b, <1>d, CountedElsewhere
<1>1. CASE \/ \E q \in Resource, v \in Version \cup {None} : SourceChanges(q, v)
           \/ \E q \in Resource, rec \in Record \cup {None} : TargetDrifts(q, rec)
           \/ \E c \in Commands, p \in Profile : StartCommand(c, p)
           \/ Exit
           \/ \E t \in Tasks : TaskFailsAtStart(t)
  BY <1>1, <1>c
  DEF SourceChanges, TargetDrifts, StartCommand, Exit, TaskFailsAtStart
<1>2. CASE Crash
  <2>1. recon'[r].pc = "idle"
    BY <1>2 DEF Crash, ReconIdle
  <2>2. QED
    BY <1>2, <1>b, <2>1
    DEF Crash, Counted, ListedIsSeen, MissesAreAbsences, SweptIsAbsent
<1>3. CASE StartCrawl
  <2>1. rows'[r].misses = rows[r].misses
    BY <1>3, <1>a, MissesOfRow DEF StartCrawl
  <2>2. task' = "crawl"
    BY <1>3, StartShape DEF StartCrawl, Tasks
  <2>3. QED
    BY <1>3, <1>b, <2>1, <2>2
    DEF StartCrawl, Counted, ListedIsSeen, MissesAreAbsences, SweptIsAbsent
<1>4. CASE StartRetryFailures \/ StartPrune \/ StartRetryEvents
  BY <1>4, <1>d DEF StartRetryFailures, StartPrune, StartRetryEvents, Start
<1>5. CASE StartReconcile
  <2>1. recon'[r].pc # "idle" => recon'[r].row = rows[r]
    BY <1>5 DEF StartReconcile, ReconIdle
  <2>2. task' = "recon"
    BY <1>5 DEF StartReconcile, Start
  <2>3. QED
    BY <1>5, <1>b, <2>1, <2>2
    DEF StartReconcile, Counted, ListedIsSeen, MissesAreAbsences, SweptIsAbsent
<1>6. ASSUME NEW P \in SUBSET unlisted, FetchPage(P)
      PROVE  Counted(r)'
  <2>1. ~Pending(r) /\ task = "crawl" /\ task' = "crawl"
    BY <1>6 DEF FetchPage, Pending, InHand, HandPc
  <2>2. ASSUME r \in P, source[r] # None
        PROVE  \E i \in batch' : i.res = r
    <3>1. [res |-> r, ver |-> source[r], ev |-> None] \in batch'
      BY <1>6, <2>2 DEF FetchPage
    <3>2. QED
      BY <3>1
  <2>3. r \in reported' => r \in reported \/ (r \in P /\ source[r] # None)
    BY <1>6 DEF FetchPage
  <2>4. r \in reported => rows[r].seen /\ rows[r].misses = 0 /\ Found(rows[r])
    BY <1>6, <1>b, <2>1 DEF FetchPage, Counted, ListedIsSeen
  <2>5. ListedIsSeen(r)'
    BY <1>6, <2>2, <2>3, <2>4 DEF FetchPage, ListedIsSeen, Pending
  <2>6. QED
    BY <1>6, <1>b, <2>1, <2>5
    DEF FetchPage, Counted, MissesAreAbsences, SweptIsAbsent
<1>7. ASSUME NEW skipped \in BOOLEAN, CrawlStops(skipped)
      PROVE  Counted(r)'
  BY <1>7, <1>d DEF CrawlStops, EndTask
<1>8. CASE Sweep
  <2>1. /\ r \notin swallowed /\ task' = "sweep"
        /\ rows'[r] = MissCounted(rows[r])
    BY <1>8 DEF Sweep
  <2>2. /\ MissesAreAbsences(r)'
        /\ IsCandidate(MissCounted(rows[r])) => absent'[r] = Threshold
    BY <1>8, <2>1, SweepCounted DEF Sweep
  <2>3. Pending(r)' => IsCandidate(rows'[r])
    BY <1>8 DEF Sweep, CrawlComplete, Pending, InHand, HandPc
  <2>4. QED
    BY <2>1, <2>2, <2>3 DEF Counted, ListedIsSeen, SweptIsAbsent
<1>9. CASE SweepFails
  <2>1. /\ r \notin swallowed /\ task' = "idle"
        /\ rows'[r] \in {rows[r], MissCounted(rows[r])}
    BY <1>9 DEF SweepFails, EndTask
  <2>2. MissesAreAbsences(r)'
    BY <1>9, <2>1, SweepCounted DEF SweepFails
  <2>3. QED
    BY <2>1, <2>2 DEF Counted, ListedIsSeen, SweptIsAbsent
<1>10. ASSUME NEW i \in batch, NextItem(i)
       PROVE  Counted(r)'
  <2>1. /\ work'[Loop].pc \in {"read", "delete"}
        /\ work'[Loop].res = i.res
        /\ work[Loop].pc = "idle"
        /\ batch' = batch \ {i}
    BY <1>10, <1>a DEF NextItem, Resting
  <2>2. Pending(r) <=> Pending(r)'
    BY <2>1 DEF Pending, InHand, HandPc
  <2>3. QED
    BY <1>10, <1>b, <2>2, CountedFrame DEF NextItem
<1>11. ASSUME NEW i \in batch, NextEvent(i)
       PROVE  Counted(r)'
  BY <1>11, <1>d DEF NextEvent
<1>12. CASE BatchDone \/ ReconDone
  BY <1>12, <1>d DEF BatchDone, ReconDone, EndTask
<1>13. ASSUME NEW w \in Worker, WorkerStep(w)
       PROVE  Counted(r)'
  BY <1>13, WorkerCounted
<1>14. ASSUME NEW h \in Handler, NEW e \in Event, DeliverEvent(h, e)
       PROVE  Counted(r)'
  <2>1. work'[Loop] = work[Loop]
    BY <1>14, <1>a, LoopAssumption DEF DeliverEvent, Enqueue
  <2>2. QED
    BY <1>14, <1>c, <2>1 DEF DeliverEvent
<1>15. ASSUME NEW q \in Resource, ReconStep(q)
       PROVE  Counted(r)'
  BY <1>15, ReconCounted
<1>16. CASE UNCHANGED vars
  BY <1>16, <1>c DEF vars
<1>17. QED
  BY <1>1, <1>2, <1>3, <1>4, <1>5, <1>6, <1>7, <1>8, <1>9, <1>10, <1>11,
     <1>12, <1>13, <1>14, <1>15, <1>16 DEF Next, LoopStep

\* The crawl reads and saves, the sweep deletes and marks.
LEMMA NextMaterializes ==
  Discipline /\ SweepInv /\ [Next]_vars => CrawlMaterializes'
<1> SUFFICES ASSUME Discipline, SweepInv, [Next]_vars
             PROVE  CrawlMaterializes'
  OBVIOUS
<1> USE DEF outside, store, process, command, reconciler, history, crawled
<1>a. work \in [Worker -> Work] /\ Loop \in Worker /\ CrawlMaterializes
  BY DEF Discipline, TypeOK, Worker, SweepInv
<1>b. work[Loop].pc \in EventPc => task = "event"
  BY DEF Discipline, Shape, TaskDiscipline
<1>1. ASSUME work'[Loop] = work[Loop], task' = task
      PROVE  CrawlMaterializes'
  BY <1>a, <1>1 DEF CrawlMaterializes
<1>2. ASSUME work'[Loop].pc = "idle" \/ task' \notin {"crawl", "sweep"}
      PROVE  CrawlMaterializes'
  BY <1>2 DEF CrawlMaterializes
<1>3. CASE \/ \E q \in Resource, v \in Version \cup {None} : SourceChanges(q, v)
           \/ \E q \in Resource, rec \in Record \cup {None} : TargetDrifts(q, rec)
           \/ \E c \in Commands, p \in Profile : StartCommand(c, p)
           \/ Exit
           \/ \E t \in Tasks : TaskFailsAtStart(t)
  BY <1>1, <1>3
  DEF SourceChanges, TargetDrifts, StartCommand, Exit, TaskFailsAtStart
<1>4. CASE StartCrawl
  BY <1>2, <1>4, StartShape DEF StartCrawl, Tasks
<1>5. CASE \/ Crash \/ StartRetryFailures \/ StartPrune \/ StartRetryEvents
           \/ StartReconcile \/ SweepFails \/ BatchDone \/ ReconDone
  BY <1>2, <1>5
  DEF Crash, StartRetryFailures, StartPrune, StartRetryEvents, StartReconcile,
      Start, SweepFails, BatchDone, ReconDone, EndTask
<1>6. ASSUME NEW P \in SUBSET unlisted, FetchPage(P)
      PROVE  CrawlMaterializes'
  BY <1>1, <1>6 DEF FetchPage
<1>7. ASSUME NEW skipped \in BOOLEAN, CrawlStops(skipped)
      PROVE  CrawlMaterializes'
  BY <1>2, <1>7 DEF CrawlStops, EndTask
<1>8. CASE Sweep
  BY <1>2, <1>8 DEF Sweep, CrawlComplete
<1>9. ASSUME NEW i \in batch, NextItem(i)
      PROVE  CrawlMaterializes'
  BY <1>9, <1>a DEF NextItem, CrawlMaterializes, Resting
<1>10. ASSUME NEW i \in batch, NextEvent(i)
       PROVE  CrawlMaterializes'
  BY <1>2, <1>10 DEF NextEvent
<1>11. ASSUME NEW w \in Worker, WorkerStep(w)
       PROVE  CrawlMaterializes'
  <2>1. CASE w # Loop
    <3>1. work'[Loop] = work[Loop] /\ task' = task
      BY <1>11, <1>a, <2>1
      DEF WorkerStep, Read, ReadFails, Put, PutFails, Save, SaveFails, Delete,
          DeleteFails, Mark, MarkFails, Requeue, RequeueFails, AcquireLock,
          FetchSubject, FetchFails, Complete, Become, Return
    <3>2. QED
      BY <1>1, <3>1
  <2>2. CASE w = Loop /\ task \notin {"crawl", "sweep"}
    <3>1. task' \notin {"crawl", "sweep"}
      BY <1>11, <2>2
      DEF WorkerStep, Read, ReadFails, Put, PutFails, Save, SaveFails, Delete,
          DeleteFails, Mark, MarkFails, Requeue, RequeueFails, AcquireLock,
          FetchSubject, FetchFails, Complete, Return, EndTask
    <3>2. QED
      BY <1>2, <3>1
  <2>3. CASE w = Loop /\ task \in {"crawl", "sweep"}
    <3>1. work[Loop].pc \notin EventPc
      BY <1>b, <2>3
    <3>2. CASE \/ ReadFails(w) \/ Save(w) \/ SaveFails(w) \/ DeleteFails(w)
               \/ Mark(w) \/ MarkFails(w)
      <4>1. PICK ok \in BOOLEAN : Return(w, ok)
        BY <3>2
        DEF ReadFails, Save, SaveFails, DeleteFails, Mark, MarkFails
      <4>2. work'[Loop].pc = "idle"
        <5>1. work' = [work EXCEPT ![Loop] = Resting]
          BY <2>3, <4>1 DEF Return
        <5>2. QED
          BY <1>a, <5>1 DEF Resting
      <4>3. QED
        BY <1>2, <4>2
    <3>3. CASE Read(w) \/ Put(w) \/ PutFails(w)
      <4>1. /\ work[Loop].pc \in {"read", "put"} /\ task' = task
            /\ work'[Loop].pc \in {"put", "saveSame", "saveNew", "saveFailed"}
        BY <1>a, <2>3, <3>3 DEF Read, Put, PutFails, Become, Work
      <4>2. QED
        BY <1>a, <4>1 DEF CrawlMaterializes
    <3>4. CASE Delete(w)
      <4>1. /\ work[Loop].pc = "delete" /\ task' = task
            /\ work'[Loop].pc = "mark"
        BY <1>a, <2>3, <3>4 DEF Delete, Become, Work
      <4>2. QED
        BY <1>a, <4>1 DEF CrawlMaterializes
    <3>5. QED
      BY <1>11, <2>3, <3>1, <3>2, <3>3, <3>4
      DEF WorkerStep, Requeue, RequeueFails, AcquireLock, FetchSubject,
          FetchFails, Complete, EventPc
  <2>4. QED
    BY <2>1, <2>2, <2>3
<1>12. ASSUME NEW h \in Handler, NEW e \in Event, DeliverEvent(h, e)
       PROVE  CrawlMaterializes'
  BY <1>1, <1>12, <1>a, LoopAssumption DEF DeliverEvent, Enqueue
<1>13. ASSUME NEW q \in Resource, ReconStep(q)
       PROVE  CrawlMaterializes'
  BY <1>1, <1>13 DEF ReconStep, ReconGet, ReconPut, ReconSave, ReconFails
<1>14. CASE UNCHANGED vars
  BY <1>1, <1>14 DEF vars
<1>15. QED
  BY <1>3, <1>4, <1>5, <1>6, <1>7, <1>8, <1>9, <1>10, <1>11, <1>12, <1>13,
     <1>14 DEF Next, LoopStep

-----------------------------------------------------------------------------
\* The inductive invariant of mark and sweep: what a crawl lists it marks, so
\* that no row counts more misses than there were complete crawls without it.
THEOREM SpecSweep == Spec => [](Discipline /\ SweepInv)
<1>1. Init => SweepInv
  BY InitSweep
<1>2. Discipline /\ SweepInv /\ [Next]_vars => SweepInv'
  BY NextCounted, NextMaterializes DEF SweepInv
<1>3. QED
  BY <1>1, <1>2, SpecDiscipline, PTL DEF Spec

\* What the sweep deletes was missing from as many complete crawls in a row as
\* the threshold says, unless a failure row of it was lost: over interrupted
\* and failed crawls, restarts, events and reconciliations in between.
THEOREM SpecSweepIsEarned == Spec => []SweepIsEarned
<1>1. SweepInv => SweepIsEarned
  BY DEF SweepInv, Counted, SweptIsAbsent, Pending, SweepIsEarned
<1>2. QED
  BY <1>1, SpecSweep, PTL

-----------------------------------------------------------------------------
(* Remap.                                                                  *)

\* Before the first command nothing is being applied.
LEMMA InitRemap == Init => RemapInv
  BY DEF Init, RemapInv, Applying

\* While ReconcileTarget runs under remap, no worker has anything in hand.
LEMMA ApplyingAlone ==
  ASSUME Discipline, Applying
  PROVE  \A w \in Worker : work[w].pc = "idle"
  BY DEF Discipline, Shape, TaskDiscipline, Applying, Worker

\* A step that leaves the rows, the catalog and the goroutines alone.
LEMMA RemapFrame ==
  ASSUME RemapInv, UNCHANGED <<rows, target, recon, profile>>,
         Applying' => Applying, suspect \subseteq suspect'
  PROVE  RemapInv'
  BY DEF RemapInv, SnapshotIsRow, Remapped, Refreshing, ReconRecord

\* The goroutines of ReconcileTarget: one that has put its record has that of
\* the row it saves; one that skips the Put has seen it in the catalog.
LEMMA ReconRemap ==
  ASSUME Discipline, RemapInv, NEW q \in Resource, ReconStep(q)
  PROVE  RemapInv'
<1> SUFFICES ASSUME Applying' PROVE SnapshotIsRow' /\ \A r \in Resource \ suspect' : Remapped(r)'
  BY DEF RemapInv
<1> USE DEF outside, store, process, command, history, crawled
<1>a. /\ rows \in [Resource -> Row] /\ recon \in [Resource -> Recon]
      /\ target \in [Resource -> Record \cup {None}]
  BY DEF Discipline, TypeOK
<1>b. ~ReconFails(q)
  BY DEF ReconFails, Applying
<1>c. Applying /\ UNCHANGED profile
  BY <1>b DEF ReconStep, ReconGet, ReconPut, ReconSave, Applying
<1>d. /\ SnapshotIsRow
      /\ \A r \in Resource \ suspect : Remapped(r)
      /\ \A w \in Worker : work[w].pc = "idle"
  BY <1>c, ApplyingAlone DEF RemapInv
<1>e. \A r \in Resource \ {q} :
        rows'[r] = rows[r] /\ target'[r] = target[r] /\ recon'[r] = recon[r]
  BY <1>a, <1>b DEF ReconStep, ReconGet, ReconPut, ReconSave
<1>f. suspect' \subseteq suspect /\ suspect \ {q} \subseteq suspect'
  BY <1>b, <1>d
  DEF ReconStep, ReconGet, ReconPut, ReconSave, Committed, InHand, HandPc
<1>1. CASE ReconGet(q)
  <2>1. recon[q].row = rows[q] /\ UNCHANGED <<rows, target, suspect>>
    BY <1>1, <1>d DEF ReconGet, SnapshotIsRow
  <2>2. \/ recon'[q] = ReconIdle /\ target[q] = ReconRecord(q)
        \/ recon'[q].pc = "put" /\ recon'[q].row = recon[q].row
    BY <1>1, <1>a DEF ReconGet, Recon
  <2>3. QED
    BY <1>c, <1>d, <1>e, <2>1, <2>2
    DEF SnapshotIsRow, Remapped, Refreshing, ReconRecord, ReconIdle
<1>2. CASE ReconPut(q)
  <2>1. /\ recon'[q].pc = "save" /\ recon'[q].row = recon[q].row
        /\ target'[q] = ReconRecord(q) /\ UNCHANGED rows
    BY <1>2, <1>a DEF ReconPut, Recon
  <2>2. recon[q].row = rows[q]
    BY <1>2, <1>d DEF ReconPut, SnapshotIsRow
  <2>3. QED
    BY <1>c, <1>d, <1>e, <1>f, <2>1, <2>2
    DEF SnapshotIsRow, Remapped, Refreshing, ReconRecord
<1>3. CASE ReconSave(q)
  <2>1. recon[q].row \in Row /\ recon'[q] = ReconIdle
    BY <1>3, <1>a DEF ReconSave, Recon
  <2>2. rows'[q].version = recon[q].row.version
    BY <1>3, <1>a, <2>1 DEF ReconSave, RefreshedRow, Row
  <2>3. q \notin suspect => target[q] = ReconRecord(q)
    BY <1>3, <1>d DEF ReconSave, Remapped
  <2>4. UNCHANGED <<target, suspect>>
    BY <1>3 DEF ReconSave
  <2>5. QED
    BY <1>c, <1>d, <1>e, <2>1, <2>2, <2>3, <2>4
    DEF SnapshotIsRow, Remapped, Refreshing, ReconRecord, ReconIdle
<1>4. QED
  BY <1>1, <1>2, <1>3, <1>b DEF ReconStep

\* Every step: the snapshot is taken of the rows as they are, nobody else
\* touches them, and a drift makes its resource suspect.
LEMMA NextRemap == Discipline /\ RemapInv /\ [Next]_vars => RemapInv'
<1> SUFFICES ASSUME Discipline, RemapInv, [Next]_vars PROVE RemapInv'
  OBVIOUS
<1> USE DEF outside, store, process, command, reconciler, history, crawled
<1>1. CASE UNCHANGED vars
  BY <1>1, RemapFrame DEF vars, Applying
<1>2. ASSUME NEW r \in Resource, NEW v \in Version \cup {None},
             SourceChanges(r, v)
      PROVE  RemapInv'
  BY <1>2, RemapFrame DEF SourceChanges, Applying
<1>3. ASSUME NEW r \in Resource, NEW rec \in Record \cup {None},
             TargetDrifts(r, rec)
      PROVE  RemapInv'
  <2>1. \A q \in Resource \ suspect' : q \notin suspect /\ target'[q] = target[q]
    BY <1>3 DEF TargetDrifts, Discipline, TypeOK
  <2>2. QED
    BY <1>3, <2>1
    DEF TargetDrifts, RemapInv, Applying, SnapshotIsRow, Remapped, Refreshing,
        ReconRecord
<1>4. CASE StartReconcile
  <2>1. \A r \in Resource : recon'[r].pc # "save"
    BY <1>4 DEF StartReconcile, ReconIdle
  <2>2. SnapshotIsRow'
    BY <1>4 DEF StartReconcile, SnapshotIsRow, ReconIdle
  <2>3. \A r \in Resource : recon'[r].pc = "idle" => ~IsActive(rows'[r])
    BY <1>4 DEF StartReconcile
  <2>4. QED
    BY <2>1, <2>2, <2>3 DEF RemapInv, Remapped, Refreshing
<1>5. ASSUME NEW q \in Resource, ReconStep(q)
      PROVE  RemapInv'
  BY <1>5, ReconRemap
\* No other step is taken while, or leads to where, the mapping is applied.
<1>6. ASSUME NEW t \in Tasks, TaskFailsAtStart(t)
      PROVE  ~Applying'
  BY <1>6 DEF TaskFailsAtStart, Due, Applying
<1>7. ASSUME NEW c \in Commands, NEW p \in Profile, StartCommand(c, p)
      PROVE  ~Applying'
  BY <1>7, NobodyWhenDown
  DEF StartCommand, Applying, Discipline, Shape, TaskDiscipline
<1>8. CASE \/ Exit \/ Crash \/ StartCrawl \/ StartRetryFailures
           \/ StartPrune \/ StartRetryEvents \/ ReconDone
  BY <1>8
  DEF Exit, Crash, StartCrawl, StartRetryFailures, StartPrune,
      StartRetryEvents, ReconDone, Start, EndTask, RemapInv, Applying
<1>9. CASE LoopStep
  BY <1>9
  DEF LoopStep, FetchPage, CrawlStops, Sweep, SweepFails, CrawlComplete,
      NextItem, NextEvent, BatchDone, EndTask, RemapInv, Applying
<1>10. ASSUME NEW h \in Handler, NEW e \in Event, DeliverEvent(h, e)
       PROVE  ~Applying'
  BY <1>10 DEF DeliverEvent, Applying
<1>11. ASSUME NEW w \in Worker, WorkerStep(w)
       PROVE  ~Applying'
  <2>1. work[w].pc # "idle"
    BY <1>11
    DEF WorkerStep, Read, ReadFails, Put, PutFails, Save, SaveFails, Delete,
        DeleteFails, Mark, MarkFails, Requeue, RequeueFails, AcquireLock,
        FetchSubject, FetchFails, Complete
  <2>2. ~Applying
    BY <2>1, ApplyingAlone
  <2>3. \/ UNCHANGED <<cmd, task, cancelled>>
        \/ task' = "idle"
    BY <1>11
    DEF WorkerStep, Read, ReadFails, Put, PutFails, Save, SaveFails, Delete,
        DeleteFails, Mark, MarkFails, Requeue, RequeueFails, AcquireLock,
        FetchSubject, FetchFails, Complete, Return, EndTask
  <2>4. QED
    BY <2>2, <2>3 DEF Applying
<1>12. ~Applying' => RemapInv'
  BY DEF RemapInv
<1>13. QED
  BY <1>1, <1>2, <1>3, <1>4, <1>5, <1>6, <1>7, <1>8, <1>9, <1>10, <1>11,
     <1>12 DEF Next

\* hronir remap, when its second task is through without an error, has applied
\* the profile to the cached content of every active row, whatever the first
\* task made of the failed ones and however the goroutines interleaved.
THEOREM SpecRemapApplies == Spec => []RemapApplies
<1>1. Init => RemapInv
  BY InitRemap
<1>2. Discipline /\ RemapInv /\ [Next]_vars => RemapInv'
  BY NextRemap
<1>3. RemapInv => RemapApplies
  BY DEF RemapInv, RemapApplies, Applying, Remapped
<1>4. QED
  BY <1>1, <1>2, <1>3, SpecDiscipline, PTL DEF Spec
=============================================================================
