---------------------------- MODULE CrawlProofs -----------------------------
(***************************************************************************)
(* A crawl that says Complete has listed what stood at the source, for any  *)
(* number of items, any pages, both ways of paging, any changes and links   *)
(* that lead back; hence the sweep takes only what Threshold crawls in a    *)
(* row may overlook, however crawls are cancelled.                          *)
(*                                                                         *)
(* Paged is the heart of it: what stood before the cursor is marked or in   *)
(* the page.  Adding an item only moves others away from the cursor (by     *)
(* offset) or moves nothing (by position); removing one may move others     *)
(* over it, which is what MayOverlook excuses.  A cancelled crawl may have   *)
(* dropped an item, and is excused because it is not swept.                  *)
(***************************************************************************)
EXTENDS Crawl, FiniteSetTheorems, TLAPS

\* What each program point of the crawl leaves empty.
Shape ==
  /\ pc \in {"idle", "judge", "delete"} => cursor = 0
  /\ pc # "visit" => page = {}
  /\ pc # "delete" => doomed = {}
  /\ result = "complete" => pc \in {"judge", "delete"}
  /\ pc = "idle" => ~cancelled

\* Listed, about to be, or excused.
Covered(i) == i \in seen \cup page \/ MayOverlook(i) \/ cancelled

Paged ==
  /\ pc \in {"fetch", "visit"} =>
       \A i \in stood : Position(i, served) < cursor => Covered(i)
  /\ pc = "visit" /\ ~more => \A i \in stood : Covered(i)

\* Misses never run ahead of the crawls that may have overlooked the item.
MissesAreExcused ==
  /\ \A i \in seen : misses[i] = 0
  /\ \A i \in live : misses[i] <= excused[i]

CrawlInv ==
  TypeOK /\ Shape /\ Paged /\ CompleteListsWhatStood
    /\ MissesAreExcused /\ SweepIsExcused

-----------------------------------------------------------------------------
\* Positions are numbers, and grow with the collection.
LEMMA PositionType ==
  ASSUME NEW s \in SUBSET Item, NEW i \in Item
  PROVE  Position(i, s) \in Nat
<1>1. IsFiniteSet(0 .. End - 1)
  BY EndAssumption, FS_Interval
<1>2. IsFiniteSet({j \in s : j < i})
  BY <1>1, EndAssumption, FS_Subset
<1>3. i \in Nat
  BY EndAssumption
<1>4. QED
  BY <1>2, <1>3, FS_CardinalityType DEF Position

LEMMA PositionGrows ==
  ASSUME NEW t \in SUBSET Item, NEW s \in SUBSET t, NEW i \in Item
  PROVE  Position(i, s) <= Position(i, t)
<1>1. IsFiniteSet(0 .. End - 1)
  BY EndAssumption, FS_Interval
<1>2. IsFiniteSet({j \in t : j < i})
  BY <1>1, EndAssumption, FS_Subset
<1>3. {j \in s : j < i} \subseteq {j \in t : j < i}
  OBVIOUS
<1>4. Cardinality({j \in s : j < i}) <= Cardinality({j \in t : j < i})
  BY <1>2, <1>3, FS_Subset
<1>5. i \in Nat
  BY EndAssumption
<1>6. QED
  BY <1>4, <1>5 DEF Position

\* Counting stays within the threshold and keeps the order.
LEMMA CountedBounds ==
  ASSUME NEW m \in 0 .. Threshold, NEW n \in 0 .. Threshold
  PROVE  Counted(n) \in 0 .. Threshold /\ (m <= n => Counted(m) <= Counted(n))
  BY ThresholdAssumption DEF Counted

-----------------------------------------------------------------------------
\* Before the first crawl nothing is marked, counted or doomed.
LEMMA InitCrawl == Init => CrawlInv
<1> SUFFICES ASSUME Init PROVE CrawlInv
  OBVIOUS
<1>1. TypeOK
  <2>1. more \in BOOLEAN /\ removed \in BOOLEAN /\ cancelled \in BOOLEAN
    BY Zenon DEF Init
  <2>2. cursor \in 0 .. End /\ 0 \in 0 .. Threshold
    BY EndAssumption, ThresholdAssumption DEF Init
  <2>3. QED
    BY <2>1, <2>2 DEF Init, TypeOK
<1>2. Shape /\ Paged /\ CompleteListsWhatStood /\ MissesAreExcused
        /\ SweepIsExcused
  BY DEF Init, Shape, Paged, CompleteListsWhatStood, MissesAreExcused,
         SweepIsExcused
<1>3. QED
  BY <1>1, <1>2 DEF CrawlInv

\* A new item moves what stood away from the cursor, if at all.
LEMMA AddsKeep ==
  ASSUME CrawlInv, NEW i \in Item, SourceAdds(i)
  PROVE  CrawlInv'
<1> USE DEF CrawlInv, SourceAdds, request, rows
<1>1. TypeOK' /\ Shape' /\ MissesAreExcused' /\ SweepIsExcused'
  BY DEF TypeOK, Shape, MissesAreExcused, SweepIsExcused
<1>2. \A j \in Item : MayOverlook(j)' <=> MayOverlook(j)
  BY DEF MayOverlook
<1>3. \A j \in Item : Covered(j)' <=> Covered(j)
  BY <1>2 DEF Covered
<1>4. \A j \in stood : Position(j, served') < cursor => Position(j, served) < cursor
  <2> TAKE j \in stood
  <2>1. j \in Item /\ served' \in SUBSET Item /\ served \in SUBSET served'
    BY DEF TypeOK
  <2>2. Position(j, served) <= Position(j, served')
    BY <2>1, PositionGrows
  <2>3. Position(j, served) \in Nat /\ Position(j, served') \in Nat
    BY <2>1, PositionType
  <2>4. QED
    BY <2>2, <2>3 DEF TypeOK
<1>5. Paged'
  BY <1>3, <1>4 DEF Paged, TypeOK
<1>6. CompleteListsWhatStood'
  BY <1>2 DEF CompleteListsWhatStood, TypeOK
<1>7. QED
  BY <1>1, <1>5, <1>6

\* A removal excuses the crawl, or moves nothing.
LEMMA RemovesKeep ==
  ASSUME CrawlInv, NEW i \in Item, SourceRemoves(i)
  PROVE  CrawlInv'
<1> USE DEF CrawlInv, SourceRemoves, request, rows
<1>1. TypeOK' /\ Shape' /\ MissesAreExcused' /\ SweepIsExcused'
  BY DEF TypeOK, Shape, MissesAreExcused, SweepIsExcused
<1>2. CASE ByOffset
  <2>1. \A j \in Item : MayOverlook(j)'
    BY <1>2 DEF MayOverlook
  <2>2. QED
    BY <1>1, <2>1 DEF Paged, Covered, CompleteListsWhatStood, TypeOK
<1>3. CASE ~ByOffset
  <2>1. \A j \in stood' : j \in stood /\ (MayOverlook(j) => FALSE)
    BY <1>3 DEF MayOverlook
  <2>2. \A j \in stood' : Position(j, served') = Position(j, served)
    BY <1>3 DEF Position
  <2>3. QED
    BY <1>1, <2>1, <2>2 DEF Paged, Covered, CompleteListsWhatStood
<1>4. QED
  BY <1>2, <1>3, ByOffsetAssumption

\* Nothing stands before the first page.
LEMMA BeginKeeps ==
  ASSUME CrawlInv, Begin
  PROVE  CrawlInv'
<1> USE DEF CrawlInv, Begin, request
<1>1. TypeOK' /\ Shape' /\ MissesAreExcused' /\ SweepIsExcused'
  BY DEF TypeOK, Shape, MissesAreExcused, SweepIsExcused
<1>2. cursor' = 0 /\ \A j \in stood' : Position(j, served') \in Nat
  BY PositionType DEF TypeOK, Shape
<1>3. Paged'
  BY <1>2 DEF Paged
<1>4. CompleteListsWhatStood'
  BY DEF CompleteListsWhatStood, Shape
<1>5. QED
  BY <1>1, <1>3, <1>4

\* A page takes up where the one before ended, or earlier.
LEMMA FetchKeeps ==
  ASSUME CrawlInv, NEW c \in 0 .. End, NEW n \in 0 .. End, Fetch(c, n)
  PROVE  CrawlInv'
<1> USE DEF CrawlInv, Fetch, Turn, server, rows
<1>1. TypeOK'
  <2>1. more' \in BOOLEAN
    BY Zenon
  <2>2. cursor' \in 0 .. End
    BY EndAssumption
  <2>3. QED
    BY <2>1, <2>2 DEF TypeOK
<1>2. Shape' /\ MissesAreExcused' /\ SweepIsExcused' /\ CompleteListsWhatStood'
  BY DEF Shape, MissesAreExcused, SweepIsExcused, CompleteListsWhatStood
<1>3. \A j \in Item : MayOverlook(j)' <=> MayOverlook(j)
  BY DEF MayOverlook
<1>4. \A j \in stood : Position(j, served) < c => Covered(j)'
  <2> SUFFICES ASSUME NEW j \in stood, Position(j, served) < c
               PROVE  Covered(j)'
    OBVIOUS
  <2>1. j \in served /\ j \in Item /\ Position(j, served) \in Nat
    BY PositionType DEF TypeOK
  <2>2. CASE Position(j, served) < cursor
    <3>1. Covered(j) /\ page = {}
      BY <2>2 DEF Paged, Shape
    <3>2. QED
      BY <2>1, <3>1, <1>3 DEF Covered
  <2>3. CASE ~(Position(j, served) < cursor)
    <3>1. Position(j, served) \in cursor .. c - 1
      BY <2>1, <2>3, EndAssumption DEF TypeOK
    <3>2. j \in page'
      BY <2>1, <3>1
    <3>3. QED
      BY <3>2 DEF Covered
  <2>4. QED
    BY <2>2, <2>3
<1>5. ~more' => \A j \in stood : Position(j, served) < c
  <2> SUFFICES ASSUME ~more', NEW j \in stood
               PROVE  Position(j, served) < c
    OBVIOUS
  <2>1. j \in served /\ Position(j, served) \in Nat
    BY PositionType DEF TypeOK
  <2>2. ~(Position(j, served) >= c)
    BY <2>1
  <2>3. QED
    BY <2>1, <2>2, EndAssumption
<1>6. \A j \in stood : Position(j, served) < n => Position(j, served) < c
  <2> SUFFICES ASSUME NEW j \in stood, Position(j, served) < n
               PROVE  Position(j, served) < c
    OBVIOUS
  <2>1. j \in Item /\ Position(j, served) \in Nat
    BY PositionType DEF TypeOK
  <2>2. QED
    BY <2>1, EndAssumption
<1>7. Paged'
  BY <1>4, <1>5, <1>6 DEF Paged
<1>8. QED
  BY <1>1, <1>2, <1>7

\* Returning from CrawlKind; with "complete" only after the last page.
LEMMA ReturnKeeps ==
  ASSUME CrawlInv, NEW how \in {"complete", "skipped", "failed"}, Return(how),
         pc \in {"fetch", "visit"}, how = "complete" => LastPage
  PROVE  CrawlInv'
<1> USE DEF CrawlInv, Return, server, rows
<1>1. TypeOK'
  <2>1. more' \in BOOLEAN
    BY Zenon
  <2>2. cursor' \in 0 .. End
    BY EndAssumption
  <2>3. QED
    BY <2>1, <2>2 DEF TypeOK
<1>2. \A j \in Item : MayOverlook(j)' <=> MayOverlook(j)
  BY DEF MayOverlook
<1>3. how = "complete" => \A j \in stood : Covered(j) /\ page = {}
  BY DEF LastPage, Paged
<1>4. CompleteListsWhatStood'
  BY <1>2, <1>3 DEF CompleteListsWhatStood, Covered, TypeOK
<1>5. Shape' /\ Paged' /\ MissesAreExcused' /\ SweepIsExcused'
  BY DEF Shape, Paged, MissesAreExcused, SweepIsExcused
<1>6. QED
  BY <1>1, <1>4, <1>5

\* A visited item moves from the page to the marked ones.
LEMMA VisitKeeps ==
  ASSUME CrawlInv, NEW i \in Item, Visit(i)
  PROVE  CrawlInv'
<1> USE DEF CrawlInv, Visit, server
<1>1. TypeOK'
  BY ThresholdAssumption DEF TypeOK
<1>2. Shape' /\ SweepIsExcused' /\ CompleteListsWhatStood'
  BY DEF Shape, SweepIsExcused, CompleteListsWhatStood, TypeOK
<1>3. \A j \in Item : Covered(j) => Covered(j)'
  BY DEF Covered, MayOverlook
<1>4. Paged'
  BY <1>3 DEF Paged, TypeOK
<1>5. MissesAreExcused'
  BY ThresholdAssumption DEF MissesAreExcused, TypeOK
<1>6. QED
  BY <1>1, <1>2, <1>4, <1>5

\* The context ends, between two steps or with a visit that is broken off.
LEMMA CancelKeeps ==
  ASSUME CrawlInv, Cancel \/ \E i \in Item : CancelInVisit(i)
  PROVE  CrawlInv'
<1> USE DEF CrawlInv, server, request, rows
<1>1. cancelled' = TRUE /\ pc' = pc /\ pc # "idle"
  BY DEF Cancel, CancelInVisit
<1>2. TypeOK'
  BY DEF Cancel, CancelInVisit, TypeOK
<1>3. Shape' /\ MissesAreExcused' /\ SweepIsExcused'
  BY <1>1 DEF Cancel, CancelInVisit, Shape, MissesAreExcused, SweepIsExcused
<1>4. Paged' /\ CompleteListsWhatStood'
  BY <1>1 DEF Paged, Covered, CompleteListsWhatStood
<1>5. QED
  BY <1>2, <1>3, <1>4

\* The UPDATE counts a miss only where it counts an excuse.
LEMMA CountKeeps ==
  ASSUME CrawlInv, pc = "judge", result = "complete", ~cancelled, CountMisses
  PROVE  /\ misses' \in [Item -> 0 .. Threshold]
         /\ excused' \in [Item -> 0 .. Threshold]
         /\ MissesAreExcused'
<1> USE DEF CrawlInv, CountMisses
<1>1. /\ misses' \in [Item -> 0 .. Threshold]
      /\ excused' \in [Item -> 0 .. Threshold]
  BY CountedBounds, ThresholdAssumption DEF TypeOK
<1>2. \A i \in seen' : misses'[i] = 0
  BY DEF MissesAreExcused, TypeOK
<1>3. ASSUME NEW i \in live' PROVE misses'[i] <= excused'[i]
  <2>1. i \in live /\ i \in Item /\ misses[i] <= excused[i]
        /\ misses[i] \in 0 .. Threshold /\ excused[i] \in 0 .. Threshold
    BY <1>3 DEF MissesAreExcused, TypeOK
  <2>2. CASE i \in seen
    BY <1>1, <1>2, <2>1, <2>2, ThresholdAssumption
  <2>3. CASE i \notin seen
    <3>1. MayOverlook(i)
      BY <2>3 DEF CompleteListsWhatStood, MayOverlook
    <3>2. misses'[i] = Counted(misses[i]) /\ excused'[i] = Counted(excused[i])
      BY <2>1, <2>3, <3>1
    <3>3. QED
      BY <2>1, <3>2, CountedBounds
  <2>4. QED
    BY <2>2, <2>3
<1>4. QED
  BY <1>1, <1>2, <1>3 DEF MissesAreExcused

\* The sweep, with all its ways to fail.
LEMMA SweepKeeps ==
  ASSUME CrawlInv, Sweep \/ SweepFails
  PROVE  CrawlInv'
<1> USE DEF CrawlInv
<1>1. pc = "judge" /\ result = "complete"
  BY DEF Sweep, Choose, SweepFails
<1>2. CASE ~cancelled /\ CountMisses /\ (Sweep \/ SweepFails)
  <2>1. UNCHANGED <<server, request, live, seen>>
    BY <1>2 DEF CountMisses
  <2>2. /\ misses' \in [Item -> 0 .. Threshold]
        /\ excused' \in [Item -> 0 .. Threshold]
        /\ MissesAreExcused'
    BY <1>1, <1>2, CountKeeps
  <2>3. \/ /\ pc' = "idle" /\ result' = "none" /\ doomed' = {}
           /\ cancelled' = FALSE
        \/ /\ pc' = "delete" /\ result' = result /\ cancelled' = cancelled
           /\ doomed' = {i \in live : misses'[i] >= Threshold}
    BY <1>2 DEF Sweep, Choose, SweepFails, BackToIdle
  <2>4. TypeOK' /\ Shape' /\ Paged'
    BY <1>1, <2>1, <2>2, <2>3
       DEF TypeOK, Shape, Paged, server, request
  <2>5. CompleteListsWhatStood'
    BY <1>1, <2>1, <2>3 DEF CompleteListsWhatStood, MayOverlook, server
  <2>6. SweepIsExcused'
    BY <2>1, <2>2, <2>3, ThresholdAssumption
       DEF SweepIsExcused, MissesAreExcused, TypeOK
  <2>7. QED
    BY <2>2, <2>4, <2>5, <2>6
<1>3. CASE BackToIdle /\ UNCHANGED <<server, request, rows, excused>>
  BY <1>1, <1>3 DEF BackToIdle, server, request, rows, TypeOK, Shape, Paged,
     CompleteListsWhatStood, MissesAreExcused, SweepIsExcused
<1>4. QED
  BY <1>2, <1>3 DEF Sweep, Choose, SweepFails

\* Going on to the next page, deleting a record, and returning from crawlKind.
LEMMA RestKeeps ==
  ASSUME CrawlInv,
         Follow \/ GiveUp \/ Done \/ (\E i \in Item : Delete(i))
           \/ UNCHANGED vars
  PROVE  CrawlInv'
<1> USE DEF CrawlInv, server, request, rows, TypeOK, Shape, Paged, Covered,
            MayOverlook, CompleteListsWhatStood, MissesAreExcused,
            SweepIsExcused
<1>1. CASE Follow
  BY <1>1 DEF Follow
<1>2. CASE GiveUp
  BY <1>2 DEF GiveUp, BackToIdle
<1>3. CASE Done
  BY <1>3 DEF Done, BackToIdle
<1>4. CASE \E i \in Item : Delete(i)
  BY <1>4 DEF Delete
<1>5. CASE UNCHANGED vars
  BY <1>5 DEF vars
<1>6. QED
  BY <1>1, <1>2, <1>3, <1>4, <1>5

\* Every step keeps the invariant.
LEMMA NextCrawl == CrawlInv /\ [Next]_vars => CrawlInv'
<1> SUFFICES ASSUME CrawlInv, [Next]_vars PROVE CrawlInv'
  OBVIOUS
<1>1. CASE NotFound \/ Fail \/ LastPage
  <2>1. \E how \in {"complete", "skipped", "failed"} :
          /\ Return(how)
          /\ pc \in {"fetch", "visit"}
          /\ how = "complete" => LastPage
    BY <1>1 DEF NotFound, Fail, LastPage
  <2>2. QED
    BY <2>1, ReturnKeeps
<1>2. CASE Begin
  BY <1>2, BeginKeeps
<1>3. CASE \E i \in Item : SourceAdds(i) \/ SourceRemoves(i) \/ Visit(i)
  BY <1>3, AddsKeep, RemovesKeep, VisitKeeps
<1>4. CASE \E c, n \in 0 .. End : Fetch(c, n)
  BY <1>4, FetchKeeps
<1>5. CASE Sweep \/ SweepFails
  BY <1>5, SweepKeeps
<1>6. CASE \/ Follow \/ GiveUp \/ Done
           \/ \E i \in Item : Delete(i)
           \/ UNCHANGED vars
  BY <1>6, RestKeeps
<1>7. CASE Cancel \/ \E i \in Item : CancelInVisit(i)
  BY <1>7, CancelKeeps
<1>8. QED
  BY <1>1, <1>2, <1>3, <1>4, <1>5, <1>6, <1>7 DEF Next, Step, Abort

-----------------------------------------------------------------------------
\* The inductive invariant of paging and sweeping.
THEOREM SpecCrawl == Spec => []CrawlInv
<1>1. QED
  BY InitCrawl, NextCrawl, PTL DEF Spec

\* Every state of every crawl has its type; what is to be deleted has a row.
THEOREM SpecCrawlTypeOK == Spec => []TypeOK
<1>1. CrawlInv => TypeOK
  BY DEF CrawlInv
<1>2. QED
  BY <1>1, SpecCrawl, PTL

\* A complete crawl has listed what stood at the source all the time, but for
\* what a removal moved back over an offset.
THEOREM SpecCompleteListsWhatStood == Spec => []CompleteListsWhatStood
<1>1. CrawlInv => CompleteListsWhatStood
  BY DEF CrawlInv
<1>2. QED
  BY <1>1, SpecCrawl, PTL

\* The sweep deletes only what Threshold complete crawls in a row may have
\* overlooked.
THEOREM SpecSweepIsExcused == Spec => []SweepIsExcused
<1>1. CrawlInv => SweepIsExcused
  BY DEF CrawlInv
<1>2. QED
  BY <1>1, SpecCrawl, PTL
=============================================================================
