------------------------------- MODULE Ledger -------------------------------
(***************************************************************************)
(* One row of the state database and what the SQL statements and the       *)
(* coordinator's row literals make of it (internal/state/store.go and the   *)
(* rows internal/harvest/coordinator.go builds).                            *)
(*                                                                         *)
(* A normalized resource (NormalizedJSON and its hash) is a member of       *)
(* Version, a semantic Record (RecordHash) a member of Record.  Run ids     *)
(* only grow and are only compared with the id of the newest run, so        *)
(* last_seen_run is kept as "seen": TRUE when it equals the newest run's    *)
(* id.  Misses are only compared with the threshold, so they saturate       *)
(* there.                                                                  *)
(***************************************************************************)
EXTENDS Integers

CONSTANTS
  Version,     \* normalized resource contents a source can serve
  Record,      \* semantic records the mapping can produce
  Threshold,   \* Runtime.DeleteAfterSuccessfulMisses
  None         \* no content, no record, nobody

ASSUME ThresholdAssumption == Threshold \in Nat \ {0}
ASSUME NoneAssumption == None \notin Version \cup Record

Status == {"none", "active", "failed", "deleted"}

Row == [status  : Status,
        deleted : BOOLEAN,
        version : Version \cup {None},
        record  : Record \cup {None},
        seen    : BOOLEAN,
        misses  : 0 .. Threshold]

\* The zero state.Resource that store.Get returns when there is no row.
NoRow == [status |-> "none", deleted |-> FALSE, version |-> None,
          record |-> None, seen |-> FALSE, misses |-> 0]

Found(row) == row.status # "none"

\* A row that still stands for a record in the target: deleted=0.
Live(row) == Found(row) /\ ~row.deleted

\* WHERE deleted=0 AND status='active'
IsActive(row) == row.status = "active" /\ ~row.deleted

\* WHERE status='failed'; a deleted row can be failed too.
IsFailed(row) == row.status = "failed"

\* WHERE deleted=0 AND consecutive_misses>=threshold
IsCandidate(row) == Live(row) /\ row.misses >= Threshold

\* What the row says the target holds.
Believed(row) == IF Live(row) THEN row.record ELSE None

\* Mutant of Unseen: the marks of an older run still count.
UnseenKept(row) == row

\* The row once BeginRun has made a newer run: nothing is seen in it yet.
Unseen(row) == [row EXCEPT !.seen = FALSE]

\* UPDATE ... consecutive_misses+1 WHERE deleted=0 AND last_seen_run<run
MissCounted(row) ==
  IF Live(row) /\ ~row.seen /\ row.misses < Threshold
  THEN [row EXCEPT !.misses = @ + 1]
  ELSE row

\* UPDATE ... SET deleted=1,status='deleted': nothing without a row.
MarkedDeleted(row) ==
  IF Found(row)
  THEN [row EXCEPT !.deleted = TRUE, !.status = "deleted"]
  ELSE row

\* The no-op test of materialize.
UpToDate(row, ver, rec) ==
  IsActive(row) /\ row.version = ver /\ row.record = rec

\* Mutants of SameRow: one miss is forgiven, not all; the row is not marked.
SameRowForgivesOne(prev, marks) ==
  [prev EXCEPT !.seen = marks \/ @, !.misses = @ - 1]

SameRowUnmarked(prev, marks) == [prev EXCEPT !.misses = 0]

\* Mutant of FailedRow: the last good record is forgotten.
FailedRowForgets(prev, ver, marks) ==
  [status |-> "failed", deleted |-> prev.deleted, version |-> ver,
   record |-> None, seen |-> marks \/ prev.seen, misses |-> 0]

\* Mutant of NewRow: a record that comes back stays deleted.
NewRowStillDeleted(prev, ver, rec, marks) ==
  [status |-> "active", deleted |-> prev.deleted, version |-> ver,
   record |-> rec, seen |-> marks \/ prev.seen, misses |-> 0]

\* The three rows materialize saves, from the row it read before.
SameRow(prev, marks) ==
  [prev EXCEPT !.seen = marks \/ @, !.misses = 0]

FailedRow(prev, ver, marks) ==
  [status  |-> "failed",
   deleted |-> prev.deleted,
   version |-> ver,
   record  |-> prev.record,
   seen    |-> marks \/ prev.seen,
   misses  |-> 0]

NewRow(prev, ver, rec, marks) ==
  [status  |-> "active",
   deleted |-> FALSE,
   version |-> ver,
   record  |-> rec,
   seen    |-> marks \/ prev.seen,
   misses  |-> 0]

\* Mutant of RefreshedRow: the new record hash is not kept.
RefreshedRowOldHash(snapshot, rec) == snapshot

\* The snapshot ReconcileTarget saves back after its Put.
RefreshedRow(snapshot, rec) == [snapshot EXCEPT !.record = rec]
=============================================================================
