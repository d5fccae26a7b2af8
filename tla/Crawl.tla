------------------------------- MODULE Crawl --------------------------------
(***************************************************************************)
(* One crawl of one kind after the other (Client.CrawlKind in               *)
(* internal/source/source.go, called by Coordinator.crawlKind) over a       *)
(* server that pages a collection that changes between two pages.           *)
(*                                                                         *)
(*   idle -> fetch -> visit -> judge -> delete -> idle                      *)
(*             ^        |                                                   *)
(*             +--------+  next link                                        *)
(*                                                                         *)
(* Harvest takes a crawl as one look at each resource, at some moment of    *)
(* it.  This module is about when paging gives that.  A visited resource is *)
(* marked here; what materialize does with it is in Harvest.  Nothing bounds *)
(* the number of pages but the context of the crawl.                        *)
(***************************************************************************)
EXTENDS Integers, FiniteSets

CONSTANTS
  Item,        \* the resources' positions in the server's order
  End,         \* beyond the last position
  ByOffset,    \* a next link names an offset, not the last item's position
  Mode,        \* the configured mode of the kind: "auto" or "required"
  Threshold    \* Runtime.DeleteAfterSuccessfulMisses

ASSUME EndAssumption == End \in Nat \ {0} /\ Item \subseteq 0 .. End - 1
ASSUME ByOffsetAssumption == ByOffset \in BOOLEAN
ASSUME ModeAssumption == Mode \in {"auto", "required"}
ASSUME ThresholdAssumption == Threshold \in Nat \ {0}

VARIABLES
  served,    \* items of the server's collection
  pc,        \* where in crawlKind and CrawlKind the crawl is
  cursor,    \* where the next page begins
  more,      \* the last page had a next link
  page,      \* its items that have not been visited
  result,    \* what CrawlKind returned
  live,      \* items with a row that is not deleted
  seen,      \* items whose row is marked with the newest run
  misses,    \* consecutive_misses of the rows
  doomed,    \* candidates for deletion
  cancelled, \* the crawl's context has ended
  stood,     \* history: served ever since the newest crawl began
  removed,   \* history: an item was removed since the newest crawl began
  excused    \* history: complete crawls in a row that may overlook the item

server == <<served, stood, removed>>
request == <<cursor, more, page>>
rows == <<live, seen, misses>>
vars == <<server, pc, request, result, rows, doomed, cancelled, excused>>

Counted(n) == IF n < Threshold THEN n + 1 ELSE n

\* Where an item is found while the collection is s.
Position(i, s) == IF ByOffset THEN Cardinality({j \in s : j < i}) ELSE i

Init ==
  /\ served \in SUBSET Item
  /\ pc = "idle"
  /\ cursor = 0 /\ more = FALSE /\ page = {}
  /\ result = "none"
  /\ live = {} /\ seen = {} /\ misses = [i \in Item |-> 0]
  /\ doomed = {} /\ cancelled = FALSE
  /\ stood = {} /\ removed = FALSE /\ excused = [i \in Item |-> 0]

-----------------------------------------------------------------------------
\* Somebody creates or removes a resource at the source.
SourceAdds(i) ==
  /\ served' = served \cup {i}
  /\ UNCHANGED <<stood, removed, pc, request, result, rows, doomed, cancelled,
                 excused>>

SourceRemoves(i) ==
  /\ i \in served
  /\ served' = served \ {i}
  /\ stood' = stood \ {i}
  /\ removed' = TRUE
  /\ UNCHANGED <<pc, request, result, rows, doomed, cancelled, excused>>

-----------------------------------------------------------------------------
\* BeginRun: no row carries the new run's id.
Begin ==
  /\ pc = "idle"
  /\ pc' = "fetch"
  /\ seen' = {}
  /\ stood' = served
  /\ removed' = FALSE
  /\ UNCHANGED <<served, request, result, live, misses, doomed, cancelled,
                 excused>>

\* SIGTERM, or the failure of another source of the same Sync.
Cancel ==
  /\ pc # "idle"
  /\ ~cancelled
  /\ cancelled' = TRUE
  /\ UNCHANGED <<server, pc, request, result, rows, doomed, excused>>

\* The page is what the server has between the cursor and c.  Its next link
\* leads to n: on, to this page again, back to an earlier one, or to nothing
\* new.  All that is asked of the server is that no link leads past items and
\* that there is one as long as there are more.
Turn(c, n) ==
  /\ pc = "fetch"
  /\ c >= cursor
  /\ n <= c
  /\ pc' = "visit"
  /\ page' = {i \in served : Position(i, served) \in cursor .. c - 1}
  /\ more' \in BOOLEAN
  /\ ~more' => n = 0 /\ \A i \in served : Position(i, served) < c
  /\ cursor' = n
  /\ UNCHANGED <<server, result, rows, doomed, cancelled, excused>>

\* Mutant of Fetch: the request is made without the context.
FetchAnyway(c, n) == Turn(c, n)

\* The request carries the context: none succeeds once that has ended.
Fetch(c, n) == ~cancelled /\ Turn(c, n)

\* CrawlKind returns.
Return(how) ==
  /\ pc' = "judge"
  /\ result' = how
  /\ cursor' = 0 /\ more' = FALSE /\ page' = {}
  /\ UNCHANGED <<server, rows, doomed, cancelled, excused>>

\* Mutant of NotFound: a 404 is a collection without items.
NotFoundIsEmpty == pc = "fetch" /\ ~cancelled /\ Return("complete")

\* 404, on whichever page: in mode auto the kind is not offered.
NotFound ==
  /\ pc = "fetch"
  /\ ~cancelled
  /\ Return(IF Mode = "auto" THEN "skipped" ELSE "failed")

\* No or another answer, no list of items, an item without an id, an error of
\* materialize, a next link that does not parse, a cancelled context.
Fail ==
  /\ pc \in {"fetch", "visit"}
  /\ Return("failed")

\* materialize marks the item's row.  It begins with a query that fails in a
\* context that has ended.
Visit(i) ==
  /\ pc = "visit"
  /\ ~cancelled
  /\ i \in page
  /\ page' = page \ {i}
  /\ live' = live \cup {i}
  /\ seen' = seen \cup {i}
  /\ misses' = [misses EXCEPT ![i] = 0]
  /\ UNCHANGED <<server, pc, cursor, more, result, doomed, cancelled, excused>>

\* The context ends while materialize puts the record, or maps it in vain:
\* the failure row is not saved either, both errors are dropped and the crawl
\* goes on as if the item were marked.
CancelInVisit(i) ==
  /\ pc = "visit"
  /\ ~cancelled
  /\ i \in page
  /\ page' = page \ {i}
  /\ cancelled' = TRUE
  /\ UNCHANGED <<server, pc, cursor, more, result, rows, doomed, excused>>

Follow ==
  /\ pc = "visit"
  /\ page = {}
  /\ more
  /\ pc' = "fetch"
  /\ UNCHANGED <<server, request, result, rows, doomed, cancelled, excused>>

LastPage ==
  /\ pc = "visit"
  /\ page = {}
  /\ ~more
  /\ Return("complete")

-----------------------------------------------------------------------------
\* crawlKind returns.  Where the context has ended no other crawl begins with
\* it: BeginRun fails.
BackToIdle ==
  /\ pc' = "idle"
  /\ result' = "none"
  /\ doomed' = {}
  /\ cancelled' = FALSE

\* An unfinished or skipped crawl deletes nothing.
GiveUp ==
  /\ pc = "judge"
  /\ result # "complete"
  /\ BackToIdle
  /\ UNCHANGED <<server, request, rows, excused>>

\* A crawl may overlook what was not there all the time; by offset also what
\* a removal moved to a page that was already fetched.
MayOverlook(i) == i \notin stood \/ (ByOffset /\ removed)

\* The UPDATE of CandidatesForDeletion.
CountMisses ==
  /\ misses' = [i \in Item |->
       IF i \in live \ seen THEN Counted(misses[i]) ELSE misses[i]]
  /\ excused' = [i \in Item |->
       IF MayOverlook(i) THEN Counted(excused[i]) ELSE 0]
  /\ UNCHANGED <<server, request, live, seen>>

\* The rows that are selected after it.
Choose(candidates) ==
  /\ pc = "judge"
  /\ result = "complete"
  /\ CountMisses
  /\ pc' = "delete"
  /\ doomed' = {i \in candidates : misses'[i] >= Threshold}
  /\ UNCHANGED <<result, cancelled>>

\* Mutant of Sweep: deleted rows are selected again.
SweepDeletedToo == ~cancelled /\ Choose(Item)

\* Mutant of Sweep: the statements are executed without the context.
SweepAnyway == Choose(live)

Sweep == ~cancelled /\ Choose(live)

\* The UPDATE fails, or the SELECT after it: in a context that has ended, the
\* UPDATE.
SweepFails ==
  /\ pc = "judge"
  /\ result = "complete"
  /\ \/ ~cancelled /\ CountMisses
     \/ UNCHANGED <<server, request, rows, excused>>
  /\ BackToIdle

Delete(i) ==
  /\ pc = "delete"
  /\ ~cancelled
  /\ i \in doomed
  /\ live' = live \ {i}
  /\ doomed' = doomed \ {i}
  /\ UNCHANGED <<server, pc, request, result, seen, misses, cancelled, excused>>

\* All are deleted, or a DELETE or its mark failed.
Done ==
  /\ pc = "delete"
  /\ BackToIdle
  /\ UNCHANGED <<server, request, rows, excused>>

\* What is left to a crawl whose context has ended is to fail.
Abort == cancelled /\ (Fail \/ SweepFails)

Step ==
  \/ \E c, n \in 0 .. End : Fetch(c, n)
  \/ \E i \in Item : Visit(i) \/ Delete(i)
  \/ Follow \/ LastPage
  \/ GiveUp \/ Sweep \/ Done \/ Abort

Next ==
  \/ \E i \in Item : SourceAdds(i) \/ SourceRemoves(i)
  \/ \E i \in Item : CancelInVisit(i)
  \/ Begin \/ Cancel
  \/ NotFound \/ Fail \/ SweepFails
  \/ Step

Spec == Init /\ [][Next]_vars

\* The crawling goroutine is run, and its requests time out.  Neither the
\* server's links nor the context are fair.
FairSpec == Spec /\ WF_vars(Step)

-----------------------------------------------------------------------------
\* The type of the state.
TypeOK ==
  /\ served \subseteq Item /\ stood \subseteq served
  /\ pc \in {"idle", "fetch", "visit", "judge", "delete"}
  /\ cursor \in 0 .. End /\ more \in BOOLEAN /\ page \subseteq Item
  /\ result \in {"none", "complete", "skipped", "failed"}
  /\ live \subseteq Item /\ seen \subseteq Item /\ doomed \subseteq live
  /\ misses \in [Item -> 0 .. Threshold]
  /\ removed \in BOOLEAN /\ cancelled \in BOOLEAN
  /\ excused \in [Item -> 0 .. Threshold]

\* A crawl that says Complete has listed what stood at the source from its
\* beginning - whatever was added meanwhile, however long the pages are and
\* wherever their links lead.  By offset, only if nothing was removed
\* meanwhile; and a context that ended may have kept it from marking an item.
CompleteListsWhatStood ==
  result = "complete" =>
    \A i \in stood : i \in seen \/ MayOverlook(i) \/ cancelled

\* The sweep takes only what each of Threshold complete crawls in a row may
\* have overlooked; a single unlucky crawl, a failed or a skipped one, costs
\* nothing, nor does one that says Complete after its context has ended.
SweepIsExcused ==
  \A i \in doomed : excused[i] >= Threshold

\* Nothing but the server's links keeps a crawl, and the source's mutex with
\* it, for ever, and they only as long as the context lasts: a crawl that
\* never returns follows links without end and was never cancelled.
\* CrawlKind counts no pages, and nothing in a crawl times it out as a whole.
OnlyLinksKeepACrawl ==
  <>[](pc # "idle") => []<>(pc = "fetch" /\ more /\ ~cancelled)
=============================================================================
