------------------------------ MODULE Identity ------------------------------
(* Under which URL a resource is known: where its collection is (Discover),  *)
(* what its canonical URL is (Normalize), how the subject of an event finds  *)
(* its row (GetByURL), and that no two rows of a source have the same URL    *)
(* (the UNIQUE index, into which Save runs when the record is put already).  *)
(*                                                                           *)
(* One source. The listing that a crawl of one kind sees is taken at once:   *)
(* changes between its pages are the subject of Crawl. A record is put and   *)
(* its row saved in one step: failures in between are the subject of         *)
(* Harvest.                                                                  *)
EXTENDS Integers, FiniteSets, Sequences, SequencesExt

CONSTANTS
  Kinds,       \* config.ResourceKinds, each the name of a collection
  Recursive,   \* those asked for with recursive=true, the systems
  Id,          \* ids of resources, and last segments of URLs
  Landings,    \* the landing pages the source may have
  Form,        \* <<collection, id>> |-> the forms in which it may be listed
  Threshold,   \* runtime.delete_after_successful_misses
  MaxChanges,  \* bound: changes at the source, and calls of Discover that fail
  MaxEvents,   \* bound: events
  Absent       \* no row, no record, not listed, no self link, no collection

Kind == ToSet(Kinds)
Resource == Kind \X Id     \* a collection and an id; the key of a row, a record

(* A link of a landing page leads to a collection or to something else, and  *)
(* the names of some kinds are in its rel, its title or its path. A form is  *)
(* the query of the page a resource is listed on, empty on the first, and    *)
(* the last segment of its self link if it has one.                          *)
Query == SUBSET {"recursive", "offset"}
Link == [to : Kind \cup {Absent}, names : SUBSET Kind]
Forms == [page : Query, self : Id \cup {Absent}]
URL == [in : Kind, name : Id, query : Query]
Row == [url : URL, deleted : BOOLEAN, seen : BOOLEAN, misses : 0 .. Threshold]

ASSUME IdentityAssumption ==
  /\ Kinds \in Seq(Kind) /\ Recursive \subseteq Kind
  /\ Threshold \in Nat \ {0}
  /\ MaxChanges \in Nat /\ MaxEvents \in Nat
  /\ \A l \in Landings : ToSet(l) \subseteq Link
  /\ Form \in [Resource -> SUBSET Forms]
  /\ Absent \notin Id \cup Forms \cup URL \cup Row

VARIABLES
  landing,     \* the links of the landing page
  served,      \* the form in which each resource is listed, or Absent
  changes,     \* changes so far
  rows,        \* table resources
  catalog,     \* the URL each record of the catalog was made with
  clashed,     \* the records whose last row could not be saved (history)
  wrote,       \* toggled by every request that writes to the catalog (history)
  links,       \* what Discover has read in this Sync
  kinds,       \* the kinds this Sync has yet to crawl
  crawling,    \* the first of them is being crawled
  todo,        \* what its listing has that was not visited yet
  events,      \* subjects of the events that were not handled yet
  heard        \* events so far

server == <<landing, served, changes>>
ledger == <<rows, catalog, clashed, wrote>>
sync == <<links, kinds, crawling, todo>>
queue == <<events, heard>>
vars == <<server, ledger, sync, queue>>

Init ==
  /\ landing \in Landings
  /\ served \in [Resource -> Forms \cup {Absent}]
  /\ \A r \in Resource : served[r] \in Form[r] \cup {Absent}
  /\ rows = [r \in Resource |-> Absent] /\ catalog = [r \in Resource |-> Absent]
  /\ links = <<>> /\ kinds = <<>> /\ crawling = FALSE /\ todo = {}
  /\ events = {} /\ clashed = {} /\ changes = 0 /\ heard = 0 /\ wrote = FALSE

----------------------------------------------------------------------------
(* The source.                                                               *)
SourceChanges(r) ==
  /\ changes < MaxChanges /\ changes' = changes + 1
  /\ \E f \in (Form[r] \cup {Absent}) \ {served[r]} : served' = [served EXCEPT ![r] = f]
  /\ UNCHANGED <<landing, ledger, sync, queue>>

(* GET below a collection: a resource answers to its self link or its id,    *)
(* whatever the query.                                                       *)
Name(r) == IF served[r].self = Absent THEN r[2] ELSE served[r].self
At(u) == {r \in Resource : served[r] # Absent /\ r[1] = u.in /\ Name(r) = u.name}

(* An event has a URL as its subject. It may be late, or be lost.            *)
EventArrives(u) ==
  /\ heard < MaxEvents /\ heard' = heard + 1
  /\ u.query = {} /\ events' = events \cup {u}
  /\ UNCHANGED <<server, ledger, sync>>

----------------------------------------------------------------------------
\* Mutant of Endpoint: the first link that names the kind.
EndpointFirst(k) ==
  LET naming == SelectSeq(links, LAMBDA l : k \in l.names)
  IN IF naming = <<>> THEN k ELSE Head(naming).to

(* The last link that names the kind, or else the standard path.             *)
Endpoint(k) ==
  LET naming == SelectSeq(links, LAMBDA l : k \in l.names)
  IN IF naming = <<>> THEN k ELSE Last(naming).to

(* Normalize: the self link, or else the URL of the response with the id.    *)
Canonical(r, query) ==
  [in |-> r[1], name |-> Name(r),
   query |-> IF served[r].self = Absent THEN query ELSE {}]

(* What a crawl of kind k is shown: keys of rows, with canonical URLs.       *)
PageQuery(k, r) ==
  IF served[r].page = {} /\ k \in Recursive THEN {"recursive"} ELSE served[r].page
Listing(k, collection) ==
  {[key |-> <<k, r[2]>>, url |-> Canonical(r, PageQuery(k, r))] :
     r \in {x \in Resource : x[1] = collection /\ served[x] # Absent}}

\* Mutant of Clashes: the index is on the kind, too.
ClashesWithinKind(r, u) ==
  \E x \in Resource \ {r} : x[1] = r[1] /\ rows[x] # Absent /\ rows[x].url = u

(* UNIQUE(source_id, canonical_url); a deleted row keeps its URL.            *)
Clashes(r, u) == \E x \in Resource \ {r} : rows[x] # Absent /\ rows[x].url = u

\* Mutant of UpToDate: the hash is of something that always differs.
UpToDateNever(r, u) == FALSE

UpToDate(r, u) == rows[r] # Absent /\ ~rows[r].deleted /\ rows[r].url = u

(* materialize: a record that is not up to date is put, then its row saved.  *)
Saved(r, u, marks) ==
  [url |-> u, deleted |-> FALSE, misses |-> 0,
   seen |-> marks \/ (rows[r] # Absent /\ rows[r].seen)]

Materialize(r, u, marks) ==
  /\ IF UpToDate(r, u) THEN UNCHANGED <<catalog, wrote>>
                       ELSE catalog' = [catalog EXCEPT ![r] = u] /\ wrote' = ~wrote
  /\ IF Clashes(r, u)
     THEN clashed' = clashed \cup {r} /\ UNCHANGED rows
     ELSE /\ rows' = [rows EXCEPT ![r] = Saved(r, u, marks)]
          /\ clashed' = IF UpToDate(r, u) THEN clashed ELSE clashed \ {r}

----------------------------------------------------------------------------
(* syncSource holds the source's mutex from here on. When Discover fails the *)
(* standard paths are used.                                                  *)
Resting == kinds = <<>>

StartSync ==
  /\ Resting /\ kinds' = Kinds
  /\ \/ links' = landing /\ UNCHANGED changes
     \/ links' = <<>> /\ changes < MaxChanges /\ changes' = changes + 1
  /\ UNCHANGED <<landing, served, ledger, crawling, todo, queue>>

(* A page that has neither features nor items fails the crawl of the kind.   *)
BeginKind ==
  /\ ~Resting /\ ~crawling
  /\ LET k == Head(kinds)
     IN /\ IF Endpoint(k) = Absent
           THEN kinds' = Tail(kinds) /\ UNCHANGED <<crawling, todo>>
           ELSE crawling' = TRUE /\ todo' = Listing(k, Endpoint(k)) /\ UNCHANGED kinds
        /\ rows' = [r \in Resource |->
                      IF r[1] = k /\ rows[r] # Absent THEN [rows[r] EXCEPT !.seen = FALSE]
                      ELSE rows[r]]
  /\ UNCHANGED <<server, catalog, clashed, wrote, links, queue>>

EndKind == kinds' = Tail(kinds) /\ crawling' = FALSE /\ todo' = {}

(* A Save that fails ends the crawl of the kind, before the sweep.           *)
Visit(x) ==
  /\ crawling /\ x \in todo
  /\ Materialize(x.key, x.url, TRUE)
  /\ IF Clashes(x.key, x.url) THEN EndKind
     ELSE todo' = todo \ {x} /\ UNCHANGED <<kinds, crawling>>
  /\ UNCHANGED <<server, links, queue>>

(* CandidatesForDeletion, then Delete and MarkDeleted of each.               *)
Missed(r) == rows[r] # Absent /\ ~rows[r].deleted /\ ~rows[r].seen
Swept(r) == r[1] = Head(kinds) /\ Missed(r) /\ rows[r].misses + 1 >= Threshold

Sweep ==
  /\ crawling /\ todo = {} /\ EndKind
  /\ rows' = [r \in Resource |->
       IF r[1] = Head(kinds) /\ Missed(r)
       THEN [rows[r] EXCEPT !.misses = @ + 1, !.deleted = Swept(r)] ELSE rows[r]]
  /\ catalog' = [r \in Resource |-> IF Swept(r) THEN Absent ELSE catalog[r]]
  /\ wrote' = IF \E r \in Resource : Swept(r) THEN ~wrote ELSE wrote
  /\ UNCHANGED <<server, clashed, links, queue>>

(* ReconcileTarget, in the goroutine that runs Sync.                         *)
Reconcile ==
  LET differs == {r \in Resource :
                    rows[r] # Absent /\ ~rows[r].deleted /\ catalog[r] # rows[r].url}
  IN /\ Resting /\ differs # {}
     /\ catalog' = [r \in Resource |-> IF r \in differs THEN rows[r].url ELSE catalog[r]]
     /\ clashed' = clashed \ differs /\ wrote' = ~wrote
     /\ UNCHANGED <<server, rows, sync, queue>>

----------------------------------------------------------------------------
(* HandleCloudEvent, when no crawl has the mutex. An event whose subject     *)
(* cannot be fetched, or whose row cannot be saved, is tried again.          *)
HandleFound(u) ==
  /\ Resting /\ u \in events
  /\ \E r \in At(u) :
       /\ Materialize(r, Canonical(r, {}), FALSE)
       /\ events' = IF Clashes(r, Canonical(r, {})) THEN events ELSE events \ {u}
  /\ UNCHANGED <<server, sync, heard>>

\* Mutants of NotFound and of RecordID: any failure is taken for a 404; the
\* record is the one that the kind of the event would have.
NotFoundOrFailed(u) == TRUE
RecordIDOfEvent(r, u) == <<u.in, r[2]>>

NotFound(u) == At(u) = {}
RecordID(r, u) == r

(* The row is looked up by the subject, deleted or not.                      *)
HandleGone(u) ==
  LET subjects == {r \in Resource : rows[r] # Absent /\ rows[r].url = u}
      records  == {RecordID(r, u) : r \in subjects}
  IN /\ Resting /\ u \in events /\ NotFound(u)
     /\ events' = events \ {u}
     /\ rows' = [r \in Resource |->
          IF r \in subjects THEN [rows[r] EXCEPT !.deleted = TRUE] ELSE rows[r]]
     /\ catalog' = [r \in Resource |-> IF r \in records THEN Absent ELSE catalog[r]]
     /\ wrote' = IF subjects = {} THEN wrote ELSE ~wrote
     /\ UNCHANGED <<server, clashed, sync, heard>>

Syncing == StartSync \/ BeginKind \/ Sweep \/ \E x \in todo : Visit(x)

Next ==
  \/ \E r \in Resource : SourceChanges(r)
  \/ \E u \in URL : EventArrives(u) \/ HandleFound(u) \/ HandleGone(u)
  \/ Syncing \/ Reconcile

Spec == Init /\ [][Next]_vars

(* Run crawls every poll interval and reconciles every reconciliation        *)
(* interval. Nothing is assumed of the events.                               *)
FairSpec == Spec /\ WF_vars(Syncing) /\ SF_vars(Reconcile)

----------------------------------------------------------------------------
(* Types; and no two rows have the same URL, however they came by it.        *)
TypeOK ==
  /\ landing \in Landings /\ served \in [Resource -> Forms \cup {Absent}]
  /\ rows \in [Resource -> Row \cup {Absent}]
  /\ catalog \in [Resource -> URL \cup {Absent}]
  /\ clashed \subseteq Resource /\ wrote \in BOOLEAN /\ links \in Landings \cup {<<>>}
  /\ kinds \in Seq(Kind) /\ IsSuffix(kinds, Kinds)
  /\ crawling \in BOOLEAN /\ (crawling => ~Resting)
  /\ todo \subseteq [key : Resource, url : URL] /\ (todo # {} => crawling)
  /\ events \subseteq URL /\ changes \in 0 .. MaxChanges /\ heard \in 0 .. MaxEvents
  /\ \A r, x \in Resource :
       r # x /\ rows[r] # Absent /\ rows[x] # Absent => rows[r].url # rows[x].url

(* A row with as many misses as the threshold is a deleted one: the counter  *)
(* of misses, which the type bounds, is not counted beyond it.               *)
MissesBelow ==
  \A r \in Resource :
    rows[r] # Absent /\ ~rows[r].deleted => rows[r].misses < Threshold

(* Whatever collections the landing page leads to and whichever URLs the     *)
(* resources go by: a record is in the catalog just when a row says so, made *)
(* with the URL the row has, unless its last row ran into the UNIQUE index.  *)
RecordHasRow ==
  \A r \in Resource \ clashed :
    catalog[r] = IF rows[r] = Absent \/ rows[r].deleted THEN Absent ELSE rows[r].url

(* The landing page sends kind k elsewhere than to its own collection.       *)
Misdirected(k) ==
  \E i \in DOMAIN landing :
    /\ k \in landing[i].names /\ landing[i].to # k
    /\ \A j \in DOMAIN landing : k \in landing[j].names => j <= i

(* An event deletes the record of a resource that is still listed only if    *)
(* the resource has another URL than when its row was saved.                 *)
EventDeletes == events' # events /\ catalog' # catalog
LateEventsAside ==
  [][EventDeletes =>
       \A k \in Kind : \A x \in Listing(k, k) :
         catalog[x.key] # Absent /\ catalog'[x.key] = Absent
           => rows[x.key].url # x.url]_vars

(* Something kind k lists, or an event is about, has the URL of another row. *)
Blocked(k) ==
  \/ \E x \in Listing(k, k) : Clashes(x.key, x.url)
  \/ \E u \in events : u.in = k /\ \E r \in At(u) : Clashes(r, Canonical(r, {}))

Mirrored(k) ==
  \A i \in Id : <<k, i>> \in clashed \/
    catalog[<<k, i>>] = IF served[<<k, i>>] = Absent THEN Absent
                        ELSE Canonical(<<k, i>>, PageQuery(k, <<k, i>>))

(* Once the source stays as it is, the records of a kind are those of the    *)
(* resources its collection lists, with their URLs, whatever URLs they had   *)
(* before and under whichever an event found them; unless the landing page   *)
(* is misread, or the UNIQUE index stops every crawl of the kind.            *)
KindConverges ==
  \A k \in Kind : <>[](Misdirected(k) \/ Blocked(k) \/ Mirrored(k))

(* And then nothing is written any more: crawls and events that find the     *)
(* same resource under different URLs do not rewrite its record for ever.    *)
WritesEnd ==
  <>[](\E k \in Kind : Misdirected(k) \/ Blocked(k)) \/ <>[][wrote' = wrote]_vars

=============================================================================
