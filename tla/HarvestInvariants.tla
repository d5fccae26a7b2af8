-------------------------- MODULE HarvestInvariants --------------------------
(***************************************************************************)
(* The inductive invariant behind the theorems of HarvestProofs, part by    *)
(* part, as state predicates that TLC can evaluate as well.                 *)
(***************************************************************************)
EXTENDS Harvest

\* The points of HandleCloudEvent outside materialize and the deletion.
EventPc == {"requeue", "lock", "fetch", "done", "failed"}

ForEvent(w) == w # Loop \/ task = "event"

\* A row has a content; nothing but NoRow is no row.
RowsWellFormed ==
  \A r \in Resource : Found(rows[r]) => rows[r].version \in Version

\* A worker has in hand what its program point needs.
WorkWellFormed ==
  \A w \in Worker :
    LET job == work[w]
    IN  /\ job.pc \in HandPc => job.res \in Resource
        /\ job.pc \in HandPc \ {"delete", "mark"} => job.ver \in Version
        /\ job.pc = "saveSame" => Found(job.prev) /\ job.prev.version \in Version
        /\ job.pc \in EventPc => job.ev \in Event
        /\ job.pc \in HandPc /\ ForEvent(w) => job.ev \in Event

\* So has each item of a batch.
BatchWellFormed ==
  \A i \in batch :
    /\ task \in {"crawl", "retry"} => i.res \in Resource /\ i.ver \in Version
    /\ task \in {"sweep", "prune"} => i.res \in Resource
    /\ task = "event" => i.ev \in Event

\* ReconcileTarget only works on rows that were active.
ReconWellFormed ==
  \A r \in Resource :
    recon[r].pc # "idle" =>
      /\ task = "recon"
      /\ IsActive(recon[r].row)
      /\ recon[r].row.version \in Version

\* The main goroutine only handles items within a task that has some, events
\* within RetryEvents; the daemon plans no retry and no prune; MQTT handlers
\* run within the daemon.
TaskDiscipline ==
  /\ cmd = "down" => task = "idle"
  /\ task \in {"idle", "recon"} => work[Loop].pc = "idle" /\ batch = {}
  /\ work[Loop].pc \in EventPc => task = "event"
  /\ cmd = "run" => plan \in Seq({"crawl", "event"})
  /\ task \in {"retry", "prune"} => cmd # "run"
  /\ cmd # "run" => \A h \in Handler : work[h].pc = "idle"

\* Who may touch a resource holds the source's mutex, except the commands
\* that take none.
LockDiscipline ==
  /\ task \in {"crawl", "sweep"} => lock = Loop
  /\ \A w \in Worker :
       /\ work[w].pc \in {"fetch", "done", "failed"} => lock = w
       /\ work[w].pc \in HandPc /\ ForEvent(w) => lock = w

Shape ==
  /\ RowsWellFormed
  /\ WorkWellFormed
  /\ BatchWellFormed
  /\ ReconWellFormed
  /\ TaskDiscipline
  /\ LockDiscipline

Discipline == TypeOK /\ Shape

\* What ties one resource together while it is not suspect.  The ledger and
\* the catalog agree, or a goroutine is between the halves of a write;
LedgerAgrees(r) ==
  \/ target[r] = Believed(rows[r])
  \/ Refreshing(r)
  \/ \E w \in Worker : InHand(w, r) /\ work[w].pc \in {"saveNew", "mark"}

\* a worker between its read and its write knows the row, and one between the
\* halves of a write knows the target;
HandAgrees(w, r) ==
  Committed(w, r) =>
    /\ ~Refreshing(r)
    /\ work[w].pc \in {"put", "saveSame", "saveFailed"} =>
         work[w].prev = rows[r]
    /\ work[w].pc = "saveNew" => target[r] = Mapping[profile][work[w].ver]
    /\ work[w].pc = "mark" => target[r] = None

\* and so does ReconcileTarget's goroutine.
RefreshAgrees(r) == Refreshing(r) => target[r] = ReconRecord(r)

Agrees(r) ==
  /\ LedgerAgrees(r)
  /\ \A w \in Worker : HandAgrees(w, r)
  /\ RefreshAgrees(r)

\* Before a PUT the worker knows that the ledger differs, and the no-op path
\* is taken for active rows.
PutIsNews ==
  \A w \in Worker :
    /\ work[w].pc = "put" =>
         ~UpToDate(work[w].prev, work[w].ver, Mapping[profile][work[w].ver])
    /\ work[w].pc = "saveSame" => IsActive(work[w].prev)

\* Without a row there is no last good record.
NoRowNoRecord ==
  \A r \in Resource : ~Found(rows[r]) => rows[r].record = None

MirrorInv ==
  /\ \A r \in Resource \ suspect : Agrees(r)
  /\ PutIsNews
  /\ NoRowNoRecord

\* The sweep.  A resource the task still has to handle:
Pending(r) == InHand(Loop, r) \/ \E i \in batch : i.res = r

\* what the crawl has listed is marked in its row, or will be;
ListedIsSeen(r) ==
  task = "crawl" /\ r \in reported =>
    Pending(r) \/ (Found(rows[r]) /\ rows[r].seen /\ rows[r].misses = 0)

\* a row counts no more misses than there were complete crawls without it;
MissesAreAbsences(r) ==
  /\ rows[r].misses <= absent[r]
  /\ recon[r].pc # "idle" => recon[r].row.misses <= absent[r]

\* and what the sweep deletes was absent as often as it takes.
SweptIsAbsent(r) == task = "sweep" /\ Pending(r) => absent[r] = Threshold

Counted(r) == ListedIsSeen(r) /\ MissesAreAbsences(r) /\ SweptIsAbsent(r)

\* The crawl materializes, the sweep deletes.
CrawlMaterializes ==
  /\ task = "crawl" => work[Loop].pc \notin {"delete", "mark"}
  /\ task = "sweep" => work[Loop].pc \in {"idle", "delete", "mark"}

SweepInv ==
  /\ CrawlMaterializes
  /\ \A r \in Resource \ swallowed : Counted(r)

\* The second task of remap, as long as nothing failed.  ReconcileTarget's
\* goroutines have the rows as they still are; of a resource whose goroutine
\* is through the catalog has the record the profile makes.
Applying == cmd = "remap" /\ task = "recon" /\ ~cancelled

SnapshotIsRow == \A r \in Resource : recon[r].pc # "idle" => recon[r].row = rows[r]

Remapped(r) ==
  /\ recon[r].pc = "idle" /\ IsActive(rows[r]) => target[r] = Map(rows[r].version)
  /\ Refreshing(r) => target[r] = ReconRecord(r)

RemapInv ==
  Applying => SnapshotIsRow /\ \A r \in Resource \ suspect : Remapped(r)

=============================================================================
