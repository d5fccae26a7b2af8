--------------------------- MODULE IdentityProofs ---------------------------
(***************************************************************************)
(* Whatever landing pages, forms, changes and events there are: no two rows *)
(* have one URL, a record is in the catalog just when its row says so, and  *)
(* an event deletes no record of a resource that still goes by its URL.     *)
(*                                                                         *)
(* The invariant is TypeOK with the bound on the misses, and RecordHasRow.  *)
(* UNIQUE is inductive because every URL a row gets is compared first, and  *)
(* RecordHasRow because UNIQUE makes an up-to-date row pass the comparison. *)
(***************************************************************************)
EXTENDS Identity, SequenceTheorems, TLAPS

IdentityInv == TypeOK /\ MissesBelow /\ RecordHasRow

USE IdentityAssumption DEF server, ledger, sync, queue

\* What is left of a suffix when its head is taken off is a suffix.
LEMMA SuffixTail ==
  ASSUME NEW S, NEW t \in Seq(S), NEW s \in Seq(S), IsSuffix(s, t), s # <<>>
  PROVE  IsSuffix(Tail(s), t)
<1> DEFINE u == Tail(s)
<1>1. /\ u \in Seq(S) /\ Len(u) = Len(s) - 1 /\ Len(u) \in Nat
      /\ \A i \in 1 .. Len(u) : u[i] = s[i + 1]
      /\ Len(t) \in Nat
  BY HeadTailProperties
<1>2. /\ Len(Reverse(s)) = Len(s) /\ Len(Reverse(t)) = Len(t)
      /\ Len(Reverse(u)) = Len(u)
  BY <1>1 DEF Reverse
<1>3. Len(s) <= Len(t)
  BY <1>2 DEF IsSuffix, IsPrefix
<1>4. ASSUME NEW v \in Seq(S) PROVE Reverse(v) \in Seq(S)
  <2>1. \A i \in 1 .. Len(v) : v[(Len(v) - i) + 1] \in S
    OBVIOUS
  <2>2. QED
    BY <2>1 DEF Reverse
<1>5. /\ SubSeq(Reverse(s), 1, Len(s)) = Reverse(s)
      /\ SubSeq(Reverse(u), 1, Len(u)) = Reverse(u)
  <2>1. ASSUME NEW v \in Seq(S) PROVE SubSeq(v, 1, Len(v)) = v
    BY SeqEqual
  <2>2. QED
    BY <1>1, <1>2, <1>4, <2>1
<1>6. \A i \in 1 .. Len(s) : Reverse(s)[i] = Reverse(t)[i]
  <2>1. Reverse(s) = SubSeq(Reverse(t), 1, Len(s))
    BY <1>2, <1>5 DEF IsSuffix, IsPrefix
  <2>2. QED
    BY <1>1, <1>2, <1>3, <1>4, <2>1
<1>7. \A i \in 1 .. Len(u) : Reverse(u)[i] = Reverse(s)[i]
  BY <1>1 DEF Reverse
<1>8. \A i \in 1 .. Len(u) : Reverse(u)[i] = SubSeq(Reverse(t), 1, Len(u))[i]
  BY <1>1, <1>2, <1>3, <1>4, <1>6, <1>7
<1>9. /\ Len(SubSeq(Reverse(t), 1, Len(u))) = Len(u)
      /\ SubSeq(Reverse(t), 1, Len(u)) \in Seq(S)
  BY <1>1, <1>2, <1>3, <1>4
<1>10. SubSeq(Reverse(t), 1, Len(u)) = Reverse(u)
  BY <1>1, <1>2, <1>4, <1>8, <1>9, SeqEqual
<1>11. QED
  BY <1>1, <1>2, <1>3, <1>5, <1>10 DEF IsSuffix, IsPrefix

\* The whole sequence and the empty one are suffixes.
LEMMA SuffixEnds ==
  ASSUME NEW S, NEW t \in Seq(S)
  PROVE  IsSuffix(t, t) /\ IsSuffix(<<>>, t)
<1>1. Len(t) \in Nat /\ Len(Reverse(t)) = Len(t)
  BY DEF Reverse
<1>2. IsSuffix(t, t)
  BY <1>1 DEF IsSuffix, IsPrefix
<1>3. Reverse(<<>>) = <<>>
  BY DEF Reverse
<1>4. SubSeq(Reverse(t), 1, 0) = <<>> /\ SubSeq(<<>>, 1, 0) = <<>>
  BY SubSeqEmpty
<1>5. IsSuffix(<<>>, t)
  BY <1>1, <1>3, <1>4 DEF IsSuffix, IsPrefix
<1>6. QED
  BY <1>2, <1>5

\* The part of the invariant that is about the two tables, and the rest.
LedgerInv ==
  /\ rows \in [Resource -> Row \cup {Absent}]
  /\ catalog \in [Resource -> URL \cup {Absent}]
  /\ clashed \subseteq Resource /\ wrote \in BOOLEAN
  /\ \A r, x \in Resource :
       r # x /\ rows[r] # Absent /\ rows[x] # Absent => rows[r].url # rows[x].url
  /\ MissesBelow
  /\ RecordHasRow

SyncInv ==
  /\ landing \in Landings /\ served \in [Resource -> Forms \cup {Absent}]
  /\ links \in Landings \cup {<<>>}
  /\ kinds \in Seq(Kind) /\ IsSuffix(kinds, Kinds)
  /\ crawling \in BOOLEAN /\ (crawling => ~Resting)
  /\ todo \subseteq [key : Resource, url : URL] /\ (todo # {} => crawling)
  /\ events \subseteq URL /\ changes \in 0 .. MaxChanges /\ heard \in 0 .. MaxEvents

LEMMA InvParts ==
  /\ IdentityInv <=> LedgerInv /\ SyncInv
  /\ IdentityInv' <=> LedgerInv' /\ SyncInv'
  BY DEF IdentityInv, TypeOK, LedgerInv, SyncInv

\* No row, no record and no form is one that there is.
LEMMA AbsentApart ==
  /\ \A u \in URL : u # Absent
  /\ \A x \in Row : x # Absent
  /\ \A f \in Forms : f # Absent
  OBVIOUS

\* BeginRun clears the mark of a row and MarkDeleted sets another: the URL
\* stays, and the misses do.
LEMMA RowEdits ==
  ASSUME NEW row \in Row
  PROVE  /\ [row EXCEPT !.seen = FALSE] \in Row
         /\ [row EXCEPT !.seen = FALSE].url = row.url
         /\ [row EXCEPT !.seen = FALSE].deleted = row.deleted
         /\ [row EXCEPT !.seen = FALSE].misses = row.misses
         /\ [row EXCEPT !.deleted = TRUE] \in Row
         /\ [row EXCEPT !.deleted = TRUE].url = row.url
         /\ [row EXCEPT !.deleted = TRUE].deleted = TRUE
         /\ row.deleted \in BOOLEAN
  BY DEF Row

\* Normalize gives every resource that is listed or found a URL.
LEMMA CanonicalType ==
  ASSUME SyncInv, NEW r \in Resource, served[r] # Absent, NEW q \in Query
  PROVE  Canonical(r, q) \in URL
<1>1. served[r] \in Forms /\ r[1] \in Kind /\ r[2] \in Id
  BY DEF SyncInv, Resource
<1>2. Name(r) \in Id /\ {} \in Query
  BY <1>1 DEF Name, Forms, Query
<1>3. QED
  BY <1>1, <1>2 DEF Canonical, URL

\* So a crawl is only shown keys of rows, with URLs.
LEMMA ListingType ==
  ASSUME SyncInv, NEW k \in Kind, NEW c
  PROVE  Listing(k, c) \subseteq [key : Resource, url : URL]
<1> SUFFICES ASSUME NEW r \in Resource, served[r] # Absent
             PROVE  /\ <<k, r[2]>> \in Resource
                    /\ Canonical(r, PageQuery(k, r)) \in URL
  BY DEF Listing
<1>1. <<k, r[2]>> \in Resource
  BY DEF Resource
<1>2. served[r].page \in Query
  BY DEF SyncInv, Forms
<1>3. PageQuery(k, r) \in Query
  BY <1>2 DEF PageQuery, Query
<1>4. QED
  BY <1>1, <1>3, CanonicalType

\* Before the first crawl there is neither a row nor a record.
LEMMA InitIdentity == Init => IdentityInv
<1> SUFFICES ASSUME Init PROVE LedgerInv /\ SyncInv
  BY InvParts
<1>1. LedgerInv
  BY DEF Init, LedgerInv, MissesBelow, RecordHasRow
<1>2. SyncInv
  <2>1. <<>> \in Seq(Kind) /\ IsSuffix(<<>>, Kinds)
    BY SuffixEnds
  <2>2. 0 \in 0 .. MaxChanges /\ 0 \in 0 .. MaxEvents
    OBVIOUS
  <2>3. QED
    BY <2>1, <2>2 DEF Init, SyncInv
<1>3. QED
  BY <1>1, <1>2

\* materialize: a URL that no other row has gets into the row and the record,
\* and one that another row has makes the resource one that clashed.
LEMMA MaterializeLedger ==
  ASSUME LedgerInv, NEW r \in Resource, NEW u \in URL, NEW marks \in BOOLEAN,
         Materialize(r, u, marks)
  PROVE  LedgerInv'
<1>1. CASE Clashes(r, u)
  <2>1. UNCHANGED rows /\ clashed' = clashed \cup {r}
    BY <1>1 DEF Materialize
  <2>2. /\ catalog' = catalog \/ catalog' = [catalog EXCEPT ![r] = u]
        /\ wrote' \in BOOLEAN
    BY DEF Materialize, LedgerInv
  <2>3. QED
    BY <2>1, <2>2 DEF LedgerInv, MissesBelow, RecordHasRow
<1>2. CASE ~Clashes(r, u)
  <2>1. /\ rows' = [rows EXCEPT ![r] = Saved(r, u, marks)]
        /\ clashed' = IF UpToDate(r, u) THEN clashed ELSE clashed \ {r}
    BY <1>2 DEF Materialize
  <2>2. /\ UpToDate(r, u) => UNCHANGED <<catalog, wrote>>
        /\ ~UpToDate(r, u) => catalog' = [catalog EXCEPT ![r] = u] /\ wrote' = ~wrote
    BY DEF Materialize
  <2>3. /\ Saved(r, u, marks) \in Row /\ Saved(r, u, marks) # Absent
        /\ Saved(r, u, marks).url = u /\ ~Saved(r, u, marks).deleted
        /\ Saved(r, u, marks).misses = 0
    <3>1. rows[r] # Absent => rows[r].seen \in BOOLEAN
      BY DEF LedgerInv, Row
    <3>2. Saved(r, u, marks) \in Row
      BY <3>1 DEF Saved, Row
    <3>3. QED
      BY <3>2, AbsentApart DEF Saved
  <2>4. rows' \in [Resource -> Row \cup {Absent}]
    BY <2>1, <2>3 DEF LedgerInv
  <2>5. catalog' \in [Resource -> URL \cup {Absent}]
    BY <2>2 DEF LedgerInv
  <2>6. clashed' \subseteq Resource /\ wrote' \in BOOLEAN
    BY <2>1, <2>2 DEF LedgerInv
  <2>7. \A x \in Resource \ {r} : rows[x] # Absent => rows[x].url # u
    BY <1>2 DEF Clashes
  <2>8. rows'[r] = Saved(r, u, marks) /\ \A x \in Resource \ {r} : rows'[x] = rows[x]
    BY <2>1 DEF LedgerInv
  <2>9. \A x, y \in Resource :
          x # y /\ rows'[x] # Absent /\ rows'[y] # Absent => rows'[x].url # rows'[y].url
    BY <2>3, <2>7, <2>8 DEF LedgerInv
  <2>10. MissesBelow'
    BY <2>3, <2>8 DEF LedgerInv, MissesBelow
  <2>11. RecordHasRow'
    <3>1. ASSUME NEW x \in Resource \ clashed', x # r
          PROVE  catalog'[x] = IF rows'[x] = Absent \/ rows'[x].deleted THEN Absent
                               ELSE rows'[x].url
      BY <2>1, <2>2, <2>8, <3>1 DEF LedgerInv, RecordHasRow
    <3>2. ASSUME r \notin clashed' PROVE catalog'[r] = u
      BY <2>1, <2>2, <3>2 DEF LedgerInv, RecordHasRow, UpToDate
    <3>3. QED
      BY <2>3, <2>8, <3>1, <3>2 DEF RecordHasRow
  <2>12. QED
    BY <2>4, <2>5, <2>6, <2>9, <2>10, <2>11 DEF LedgerInv
<1>3. QED
  BY <1>1, <1>2

\* A statement that marks rows, or deletes some along with their records,
\* leaves the others and all URLs as they are.
LEMMA MarkLedger ==
  ASSUME LedgerInv, NEW D \in SUBSET Resource,
         rows' \in [Resource -> Row \cup {Absent}], MissesBelow',
         \A r \in Resource : /\ rows'[r] = Absent <=> rows[r] = Absent
                             /\ rows[r] # Absent =>
                                  /\ rows'[r].url = rows[r].url
                                  /\ (rows'[r].deleted <=> rows[r].deleted \/ r \in D),
         catalog' = [r \in Resource |-> IF r \in D THEN Absent ELSE catalog[r]],
         \A r \in D : rows[r] # Absent,
         UNCHANGED clashed, wrote' \in BOOLEAN
  PROVE  LedgerInv'
<1>1. catalog' \in [Resource -> URL \cup {Absent}]
  BY DEF LedgerInv
<1>2. RecordHasRow'
  BY DEF LedgerInv, RecordHasRow
<1>3. QED
  BY <1>1, <1>2 DEF LedgerInv

-----------------------------------------------------------------------------
\* The source changes, and events arrive: neither touches a table.
LEMMA OutsideInv ==
  ASSUME IdentityInv,
         \/ \E r \in Resource : SourceChanges(r)
         \/ \E u \in URL : EventArrives(u)
  PROVE  IdentityInv'
<1> USE InvParts
<1>1. ASSUME NEW r \in Resource, SourceChanges(r) PROVE IdentityInv'
  <2>1. LedgerInv'
    BY <1>1 DEF SourceChanges, LedgerInv, MissesBelow, RecordHasRow
  <2>2. served' \in [Resource -> Forms \cup {Absent}]
    BY <1>1 DEF SourceChanges, SyncInv
  <2>3. changes' \in 0 .. MaxChanges
    BY <1>1 DEF SourceChanges, SyncInv
  <2>4. SyncInv'
    BY <1>1, <2>2, <2>3 DEF SourceChanges, SyncInv, Resting
  <2>5. QED
    BY <2>1, <2>4
<1>2. ASSUME NEW u \in URL, EventArrives(u) PROVE IdentityInv'
  <2>1. LedgerInv'
    BY <1>2 DEF EventArrives, LedgerInv, MissesBelow, RecordHasRow
  <2>2. heard' \in 0 .. MaxEvents /\ events' \subseteq URL
    BY <1>2 DEF EventArrives, SyncInv
  <2>3. SyncInv'
    BY <1>2, <2>2 DEF EventArrives, SyncInv, Resting
  <2>4. QED
    BY <2>1, <2>3
<1>3. QED
  BY <1>1, <1>2

\* The crawl of a kind is over, and the next kind is one of those left.
LEMMA EndKindSync ==
  ASSUME SyncInv, ~Resting, EndKind, UNCHANGED <<server, links, queue>>
  PROVE  SyncInv'
<1>1. kinds' \in Seq(Kind) /\ IsSuffix(kinds', Kinds)
  BY SuffixTail DEF EndKind, SyncInv, Resting
<1>2. QED
  BY <1>1 DEF EndKind, SyncInv

\* Discover, then BeginRun, which clears the marks.
LEMMA BeginInv == IdentityInv /\ (StartSync \/ BeginKind) => IdentityInv'
<1> USE InvParts
<1>1. ASSUME IdentityInv, StartSync PROVE IdentityInv'
  <2>1. LedgerInv'
    BY <1>1 DEF StartSync, LedgerInv, MissesBelow, RecordHasRow
  <2>2. changes' \in 0 .. MaxChanges /\ links' \in Landings \cup {<<>>}
    BY <1>1 DEF StartSync, SyncInv
  <2>3. kinds' \in Seq(Kind) /\ IsSuffix(kinds', Kinds)
    BY <1>1, SuffixEnds DEF StartSync
  <2>4. ~crawling
    BY <1>1 DEF StartSync, SyncInv
  <2>5. SyncInv'
    BY <1>1, <2>2, <2>3, <2>4 DEF StartSync, SyncInv
  <2>6. QED
    BY <2>1, <2>5
<1>2. ASSUME IdentityInv, BeginKind PROVE IdentityInv'
  <2> DEFINE k == Head(kinds)
  <2>1. k \in Kind /\ ~Resting
    BY <1>2, HeadTailProperties DEF BeginKind, SyncInv, Resting
  <2>2. LedgerInv'
    <3>1. \A r \in Resource :
            rows'[r] = IF r[1] = k /\ rows[r] # Absent
                       THEN [rows[r] EXCEPT !.seen = FALSE] ELSE rows[r]
      BY <1>2 DEF BeginKind
    <3>2. \A r \in Resource : rows[r] # Absent =>
            /\ [rows[r] EXCEPT !.seen = FALSE] \in Row
            /\ [rows[r] EXCEPT !.seen = FALSE].url = rows[r].url
            /\ [rows[r] EXCEPT !.seen = FALSE].deleted = rows[r].deleted
            /\ [rows[r] EXCEPT !.seen = FALSE].misses = rows[r].misses
      <4>1. \A r \in Resource : rows[r] # Absent => rows[r] \in Row
        BY <1>2 DEF LedgerInv
      <4>2. QED
        BY <4>1, RowEdits
    <3>3. \A r \in Resource : /\ rows'[r] = Absent <=> rows[r] = Absent
                              /\ rows[r] # Absent =>
                                   /\ rows'[r].url = rows[r].url
                                   /\ rows'[r].deleted = rows[r].deleted
                                   /\ rows'[r].misses = rows[r].misses
      BY <3>1, <3>2, AbsentApart
    <3>4. rows' \in [Resource -> Row \cup {Absent}]
      BY <1>2, <3>2 DEF BeginKind, LedgerInv
    <3>5. MissesBelow'
      BY <1>2, <3>3 DEF LedgerInv, MissesBelow
    <3>6. UNCHANGED <<catalog, clashed, wrote>>
      BY <1>2 DEF BeginKind
    <3>7. QED
      BY <1>2, <3>3, <3>4, <3>5, <3>6 DEF LedgerInv, RecordHasRow
  <2>3. CASE Endpoint(k) = Absent
    <3>1. kinds' = Tail(kinds) /\ UNCHANGED <<crawling, todo, links>> /\ ~crawling
      BY <1>2, <2>3 DEF BeginKind
    <3>2. kinds' \in Seq(Kind) /\ IsSuffix(kinds', Kinds)
      BY <1>2, <2>1, <3>1, SuffixTail DEF SyncInv, Resting
    <3>3. QED
      BY <1>2, <2>2, <3>1, <3>2 DEF BeginKind, SyncInv
  <2>4. CASE Endpoint(k) # Absent
    <3>1. crawling' = TRUE /\ todo' = Listing(k, Endpoint(k)) /\ UNCHANGED kinds
      BY <1>2, <2>4 DEF BeginKind
    <3>2. todo' \subseteq [key : Resource, url : URL]
      BY <1>2, <2>1, <3>1, ListingType
    <3>3. QED
      BY <1>2, <2>1, <2>2, <3>1, <3>2 DEF BeginKind, SyncInv, Resting
  <2>5. QED
    BY <2>3, <2>4
<1>3. QED
  BY <1>1, <1>2

\* A visit materializes what the page listed.
LEMMA VisitInv ==
  ASSUME IdentityInv, NEW x \in todo, Visit(x)
  PROVE  IdentityInv'
<1> USE InvParts
<1>1. x.key \in Resource /\ x.url \in URL /\ ~Resting
  BY DEF SyncInv, Visit
<1>2. LedgerInv'
  BY <1>1, MaterializeLedger DEF Visit
<1>3. SyncInv'
  <2>1. CASE Clashes(x.key, x.url)
    BY <1>1, <2>1, EndKindSync DEF Visit
  <2>2. CASE ~Clashes(x.key, x.url)
    BY <2>2 DEF Visit, SyncInv, Resting
  <2>3. QED
    BY <2>1, <2>2
<1>4. QED
  BY <1>2, <1>3

\* The sweep deletes the rows that reach the threshold with their records.
LEMMA SweepInv ==
  ASSUME IdentityInv, Sweep
  PROVE  IdentityInv'
<1> USE InvParts
<1> DEFINE D == {r \in Resource : Swept(r)}
           Counted(r) == [rows[r] EXCEPT !.misses = @ + 1, !.deleted = Swept(r)]
<1>1. \A r \in Resource :
        rows'[r] = IF r[1] = Head(kinds) /\ Missed(r) THEN Counted(r) ELSE rows[r]
  BY DEF Sweep
<1>2. ASSUME NEW r \in Resource, r[1] = Head(kinds), Missed(r)
      PROVE  /\ Counted(r) \in Row
             /\ Counted(r).url = rows[r].url
             /\ Counted(r).deleted = Swept(r)
             /\ Counted(r).misses = rows[r].misses + 1
             /\ ~Swept(r) => rows[r].misses + 1 < Threshold
             /\ rows[r] # Absent /\ ~rows[r].deleted
  <2>1. rows[r] \in Row /\ ~rows[r].deleted /\ rows[r].misses < Threshold
    BY <1>2 DEF Missed, LedgerInv, MissesBelow
  <2>2. rows[r].misses + 1 \in 0 .. Threshold /\ Swept(r) \in BOOLEAN
    BY <2>1 DEF Row, Swept, Missed
  <2>3. ~Swept(r) => rows[r].misses + 1 < Threshold
    BY <1>2, <2>2 DEF Swept
  <2>4. /\ Counted(r) \in Row /\ Counted(r).url = rows[r].url
        /\ Counted(r).deleted = Swept(r)
        /\ Counted(r).misses = rows[r].misses + 1
    BY <2>1, <2>2 DEF Row
  <2>5. QED
    BY <2>1, <2>3, <2>4, AbsentApart
<1> HIDE DEF Counted
<1>3. \A r \in D : rows[r] # Absent /\ r[1] = Head(kinds) /\ Missed(r)
  BY DEF Swept, Missed
<1>4. rows' \in [Resource -> Row \cup {Absent}]
  <2>1. \A r \in Resource : rows'[r] \in Row \cup {Absent}
    BY <1>1, <1>2 DEF LedgerInv
  <2>2. QED
    BY <2>1 DEF Sweep
<1>5. \A r \in Resource : /\ rows'[r] = Absent <=> rows[r] = Absent
                          /\ rows[r] # Absent =>
                               /\ rows'[r].url = rows[r].url
                               /\ (rows'[r].deleted <=> rows[r].deleted \/ r \in D)
  <2> SUFFICES ASSUME NEW r \in Resource
               PROVE  /\ rows'[r] = Absent <=> rows[r] = Absent
                      /\ rows[r] # Absent =>
                           /\ rows'[r].url = rows[r].url
                           /\ (rows'[r].deleted <=> rows[r].deleted \/ r \in D)
    OBVIOUS
  <2>1. CASE r[1] = Head(kinds) /\ Missed(r)
    BY <1>1, <1>2, <2>1, AbsentApart
  <2>2. CASE ~(r[1] = Head(kinds) /\ Missed(r))
    BY <1>1, <1>3, <2>2
  <2>3. QED
    BY <2>1, <2>2
<1>6. MissesBelow'
  <2> SUFFICES ASSUME NEW r \in Resource, rows'[r] # Absent, ~rows'[r].deleted
               PROVE  rows'[r].misses < Threshold
    BY DEF MissesBelow
  <2>1. CASE r[1] = Head(kinds) /\ Missed(r)
    BY <1>1, <1>2, <2>1
  <2>2. CASE ~(r[1] = Head(kinds) /\ Missed(r))
    BY <1>1, <2>2 DEF LedgerInv, MissesBelow
  <2>3. QED
    BY <2>1, <2>2
<1>7. catalog' = [r \in Resource |-> IF r \in D THEN Absent ELSE catalog[r]]
  BY DEF Sweep
<1>8. UNCHANGED clashed /\ wrote' \in BOOLEAN
  BY DEF Sweep, LedgerInv
<1>9. LedgerInv'
  BY <1>3, <1>4, <1>5, <1>6, <1>7, <1>8, MarkLedger
<1>10. SyncInv'
  BY EndKindSync DEF Sweep, SyncInv
<1>11. QED
  BY <1>9, <1>10

\* ReconcileTarget puts what the rows say.
LEMMA ReconcileInv ==
  ASSUME IdentityInv, Reconcile
  PROVE  IdentityInv'
<1> USE InvParts
<1>1. LedgerInv'
  <2>1. rows' = rows /\ wrote' \in BOOLEAN /\ clashed' \subseteq Resource
    BY DEF Reconcile, LedgerInv
  <2>2. catalog' \in [Resource -> URL \cup {Absent}]
    BY DEF Reconcile, LedgerInv, Row
  <2>3. RecordHasRow'
    BY DEF Reconcile, LedgerInv, RecordHasRow
  <2>4. QED
    BY <2>1, <2>2, <2>3 DEF LedgerInv, MissesBelow
<1>2. SyncInv'
  BY DEF Reconcile, SyncInv, Resting
<1>3. QED
  BY <1>1, <1>2

\* An event about a resource that is found materializes it.
LEMMA FoundInv ==
  ASSUME IdentityInv, NEW u \in URL, HandleFound(u)
  PROVE  IdentityInv'
<1> USE InvParts
<1>1. PICK r \in At(u) : /\ Materialize(r, Canonical(r, {}), FALSE)
                        /\ events' \subseteq events
  BY DEF HandleFound
<1>2. r \in Resource /\ Canonical(r, {}) \in URL
  BY CanonicalType DEF At, Query
<1>3. LedgerInv'
  BY <1>1, <1>2, MaterializeLedger
<1>4. SyncInv'
  BY <1>1 DEF HandleFound, SyncInv, Resting
<1>5. QED
  BY <1>3, <1>4

\* An event about one that is gone deletes its row and its record.
LEMMA GoneInv ==
  ASSUME IdentityInv, NEW u \in URL, HandleGone(u)
  PROVE  IdentityInv'
<1> USE InvParts
<1> DEFINE D == {r \in Resource : rows[r] # Absent /\ rows[r].url = u}
<1>1. \A r \in Resource :
        rows'[r] = IF r \in D THEN [rows[r] EXCEPT !.deleted = TRUE] ELSE rows[r]
  BY DEF HandleGone
<1>2. \A r \in D : /\ [rows[r] EXCEPT !.deleted = TRUE] \in Row
                   /\ [rows[r] EXCEPT !.deleted = TRUE].url = rows[r].url
                   /\ [rows[r] EXCEPT !.deleted = TRUE].deleted = TRUE
  <2>1. \A r \in D : rows[r] \in Row
    BY DEF LedgerInv
  <2>2. QED
    BY <2>1, RowEdits
<1>3. rows' \in [Resource -> Row \cup {Absent}]
  BY <1>2 DEF HandleGone, LedgerInv
<1>4. \A r \in Resource : /\ rows'[r] = Absent <=> rows[r] = Absent
                          /\ rows[r] # Absent =>
                               /\ rows'[r].url = rows[r].url
                               /\ (rows'[r].deleted <=> rows[r].deleted \/ r \in D)
  <2> SUFFICES ASSUME NEW r \in Resource
               PROVE  /\ rows'[r] = Absent <=> rows[r] = Absent
                      /\ rows[r] # Absent =>
                           /\ rows'[r].url = rows[r].url
                           /\ (rows'[r].deleted <=> rows[r].deleted \/ r \in D)
    OBVIOUS
  <2>1. CASE r \in D
    BY <1>1, <1>2, <2>1, AbsentApart
  <2>2. CASE r \notin D
    BY <1>1, <2>2
  <2>3. QED
    BY <2>1, <2>2
<1>5. MissesBelow'
  BY <1>1, <1>2 DEF LedgerInv, MissesBelow
<1>6. catalog' = [r \in Resource |-> IF r \in D THEN Absent ELSE catalog[r]]
  BY DEF HandleGone, RecordID
<1>7. UNCHANGED clashed /\ wrote' \in BOOLEAN
  BY DEF HandleGone, LedgerInv
<1>8. LedgerInv'
  <2>1. D \in SUBSET Resource /\ \A r \in D : rows[r] # Absent
    OBVIOUS
  <2> HIDE DEF D
  <2>2. QED
    BY <1>3, <1>4, <1>5, <1>6, <1>7, <2>1, MarkLedger
<1>9. SyncInv'
  BY DEF HandleGone, SyncInv, Resting
<1>10. QED
  BY <1>8, <1>9

\* Every step keeps the invariant.
LEMMA NextIdentity == IdentityInv /\ [Next]_vars => IdentityInv'
<1>1. ASSUME IdentityInv, UNCHANGED vars PROVE IdentityInv'
  BY <1>1
  DEF vars, IdentityInv, TypeOK, MissesBelow, RecordHasRow, Resting
<1>2. QED
  BY <1>1, OutsideInv, BeginInv, VisitInv, SweepInv, ReconcileInv, FoundInv,
     GoneInv
  DEF Next, Syncing

-----------------------------------------------------------------------------
\* The inductive invariant: the types, UNIQUE(source_id, canonical_url), the
\* bound on the misses, and what ties a record to its row.
THEOREM SpecIdentity == Spec => []IdentityInv
  BY InitIdentity, NextIdentity, PTL DEF Spec

\* No two rows of a source ever have one canonical URL, and the state stays
\* within its type, whatever the landing page leads to.
THEOREM SpecIdentityTypeOK == Spec => []TypeOK
<1>1. IdentityInv => TypeOK
  BY DEF IdentityInv
<1>2. QED
  BY <1>1, SpecIdentity, PTL

\* A record is in the catalog just when its row says so, made with the URL the
\* row has, unless the last row of the resource ran into the UNIQUE index.
THEOREM SpecRecordHasRow == Spec => []RecordHasRow
<1>1. IdentityInv => RecordHasRow
  BY DEF IdentityInv
<1>2. QED
  BY <1>1, SpecIdentity, PTL

\* HandleCloudEvent, however late the event: it deletes the record of a
\* resource that is still listed only when the resource has a URL by now that
\* is not the one in its row.
THEOREM SpecLateEventsAside == Spec => LateEventsAside
<1> DEFINE Aside ==
      EventDeletes =>
        \A k \in Kind : \A x \in Listing(k, k) :
          catalog[x.key] # Absent /\ catalog'[x.key] = Absent
            => rows[x.key].url # x.url
<1>1. ASSUME IdentityInv, NEW u \in URL, HandleGone(u) PROVE Aside
  <2> SUFFICES ASSUME NEW k \in Kind, NEW r \in Resource, r[1] = k,
                      served[r] # Absent,
                      catalog[<<k, r[2]>>] # Absent,
                      catalog'[<<k, r[2]>>] = Absent
               PROVE  rows[<<k, r[2]>>].url # Canonical(r, PageQuery(k, r))
    BY DEF Listing
  <2>1. r = <<k, r[2]>>
    BY DEF Resource
  <2>2. rows[r].url = u
    BY <1>1, <2>1 DEF HandleGone, RecordID
  <2>3. r \notin At(u)
    BY <1>1 DEF HandleGone, NotFound
  <2>4. Canonical(r, PageQuery(k, r)) # u
    BY <2>3 DEF At, Canonical
  <2>5. QED
    BY <2>1, <2>2, <2>4
<1>2. ASSUME IdentityInv, NEW u \in URL, HandleFound(u) PROVE Aside
  <2>1. PICK r \in At(u) : Materialize(r, Canonical(r, {}), FALSE)
    BY <1>2 DEF HandleFound
  <2>2. Canonical(r, {}) # Absent /\ r \in Resource
    BY <1>2, CanonicalType, InvParts, AbsentApart DEF At, Query
  <2>3. \A x \in Resource : catalog'[x] = Absent => catalog[x] = Absent
    BY <1>2, <2>1, <2>2, InvParts DEF Materialize, LedgerInv
  <2>4. ASSUME NEW k \in Kind, NEW x \in Listing(k, k) PROVE x.key \in Resource
    BY <1>2, InvParts, ListingType
  <2>5. QED
    BY <2>3, <2>4
<1>3. ASSUME IdentityInv, [Next]_vars PROVE [Aside]_vars
  <2>1. CASE UNCHANGED events \/ UNCHANGED catalog
    BY <2>1 DEF EventDeletes
  <2>2. CASE ~(UNCHANGED events \/ UNCHANGED catalog)
    <3>1. \E u \in URL : HandleFound(u) \/ HandleGone(u)
      BY <1>3, <2>2
      DEF Next, vars, SourceChanges, EventArrives, Syncing, StartSync, BeginKind,
          Visit, Sweep, Reconcile
    <3>2. QED
      BY <1>1, <1>2, <1>3, <3>1
  <2>3. QED
    BY <2>1, <2>2
<1>4. QED
  BY <1>3, SpecIdentity, PTL DEF Spec, LateEventsAside
=============================================================================
