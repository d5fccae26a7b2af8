------------------------------ MODULE FieldMap ------------------------------
(* The mapping of one kind of resource into records, from the overlay in the *)
(* configuration file (FieldOverride.UnmarshalYAML, validateMappings) to the *)
(* document that is put: NewRecord, Engine.Map with its JSON Pointers,       *)
(* SemanticHash, SetHashes, Put.                                             *)
(*                                                                           *)
(* Documents are Go maps, so they are modelled as objects on a heap that     *)
(* refer to each other: an object literal of the overlay is ONE object of    *)
(* the Engine, inserted into the record of every call of every goroutine,    *)
(* and an expression that selects an object inserts the object of the input. *)
(* An object is named by whose it is and the path it was made at: <<g, p>>   *)
(* in the record of goroutine g, <<g, <<"$", ...>> >> in its input,          *)
(* <<"config", p>> in the configuration. A call is one step per pointer, so  *)
(* that two calls interleave between any two fields.                         *)
EXTENDS Naturals, FiniteSets, Sequences, SequencesExt

CONSTANTS
  Goroutine,    \* goroutines that map resources of this kind with one Engine
  Resource,     \* the resources they map
  Described,    \* those that have a name and associations with a parent
  MaxOverlaid   \* bound: pointers an overlay names

ASSUME FieldMapAssumption ==
  /\ Described \subseteq Resource /\ Resource # {} /\ MaxOverlaid \in Nat
  /\ Goroutine \cap {"config", "nil"} = {}

(* JSON Pointers, as the sequences of names pointerParts makes of them.      *)
Properties   == <<"properties">>
Connected    == <<"properties", "connectedSystems">>
Associations == <<"properties", "connectedSystems", "associations">>
Parent       == <<"properties", "connectedSystems", "associations", "parent">>
Extra        == <<"properties", "extra">>
ExtraParent  == <<"properties", "extra", "parent">>
Own          == <<"properties", "hronir">>
Title        == <<"properties", "title">>

\* Mutant of Sorted: the order in which Go happens to iterate over the map.
SortedOther == <<Title, ExtraParent, Extra, Own, Parent, Associations, Properties>>

(* The order sort.Strings gives them.                                        *)
Sorted == <<Properties, Associations, Parent, Extra, ExtraParent, Own, Title>>

(* An expression is the pipeline $.a | default($.b) ...: the paths it tries  *)
(* in turn. The empty one stands for an expression that fails.               *)
NameOrId == << <<"name">>, <<"id">> >>
Whole    == << <<"associations">> >>
Part     == << <<"associations", "parent">> >>
Broken   == <<>>
NoExpr   == << <<>> >>

Field == [remove : BOOLEAN, expr : {NoExpr, NameOrId, Whole, Part, Broken},
          literal : {"null", "text", "object"}]
Removal    == [remove |-> TRUE, expr |-> NoExpr, literal |-> "null"]
Literal(l) == [remove |-> FALSE, expr |-> NoExpr, literal |-> l]
Expr(e)    == [remove |-> FALSE, expr |-> e, literal |-> "null"]

BuiltIn ==
  [p \in {Associations, Title} |-> IF p = Title THEN Expr(NameOrId) ELSE Expr(Whole)]

(* A map, with the entries of f in the place of its own.                     *)
Over(f, map) ==
  [n \in DOMAIN f \cup DOMAIN map |-> IF n \in DOMAIN f THEN f[n] ELSE map[n]]

Set(map, n, v) == [m \in DOMAIN map \cup {n} |-> IF m = n THEN v ELSE map[m]]

----------------------------------------------------------------------------
(* The configuration. A YAML node is a null, a scalar, an expression, a      *)
(* plain object, or an object with expr, value, schema and flags.            *)

Node == [shape : {"null", "text", "expr", "object", "annotated"},
         expr : {NoExpr, NameOrId, Whole, Part, Broken},
         value : {"absent", "null", "text", "object"},
         schema : {"none", "incomplete", "full"}]

(* The fields a node may become, none when it is refused. Whether the YAML   *)
(* decoder calls UnmarshalYAML for a null node is the library's affair: if   *)
(* it does not, the field keeps its zero value, a literal null.              *)
UnmarshalYAML(n) ==
  CASE n.shape = "null" -> {Removal, Literal("null")}
    [] n.shape \in {"text", "object"} -> {Literal(n.shape)}
    [] n.shape = "expr" -> {Expr(n.expr)}
    [] n.shape = "annotated" /\ n.expr # NoExpr -> {Expr(n.expr)}
    [] n.shape = "annotated" /\ n.expr = NoExpr /\ n.value # "absent" -> {Literal(n.value)}
    [] OTHER -> {}

Schema(n) == IF n.shape = "annotated" THEN n.schema ELSE "none"

Valid(p, n, f) ==
  \/ f.remove
  \/ Schema(n) = "none" /\ p \in DOMAIN BuiltIn
  \/ Schema(n) = "full" /\ (f.expr # NoExpr \/ f.literal # "null")

Configurable(p) ==
  UNION {{f \in UnmarshalYAML(n) : Valid(p, n, f)} : n \in Node}

Overlays ==
  UNION {{o \in [P -> Field] : \A p \in P : o[p] \in Configurable(p)} :
         P \in {Q \in SUBSET ToSet(Sorted) : Cardinality(Q) <= MaxOverlaid}}

----------------------------------------------------------------------------
VARIABLES
  fields,      \* Engine.fields of this kind: the built-in ones, overlaid
  heap,        \* object |-> its entries
  process,     \* "runs", "panicked", or "raced": two goroutines in one map
  pc,          \* what each goroutine does next
  of,          \* the resource it maps
  left,        \* the pointers it has yet to apply
  hash,        \* what SemanticHash hashed
  body,        \* the record it put
  overlapped   \* whether another call was in progress during its call

vars == <<fields, heap, process, pc, of, left, hash, body, overlapped>>

(* Values are sequences of strings: nothing, a scalar, or a reference.       *)
Missing     == <<>>
Text(t)     == <<t>>
Ref(o)      == <<"@", o>>
IsRef(v)    == v # Missing /\ v[1] = "@"
NilMap      == <<"nil", <<>> >>
NoEntry     == [n \in {} |-> Missing]

Record(g)   == <<g, <<>> >>
InputOf(g)  == <<g, <<"$">> >>
InputPart(g) == <<g, <<"$", "associations">> >>

Entry(h, v, n) ==
  IF IsRef(v) /\ n \in DOMAIN h[v[2]] THEN h[v[2]][n] ELSE Missing

(* What is found on the way down path p from v.                              *)
Walk(h, v, p) ==
  LET found[k \in 0 .. Len(p)] ==
        IF k = 0 THEN v ELSE Entry(h, found[k - 1], p[k])
  IN found[Len(p)]

(* toMap, and NewRecord. The record starts out with the resource's own       *)
(* associations, a nil map when it has none.                                 *)
Input(g, r) ==
  [o \in {InputOf(g)} \cup {InputPart(g) : x \in Described \cap {r}} |->
     CASE o = InputPart(g) -> [parent |-> <<"parent", r>>]
       [] o = InputOf(g) /\ r \in Described -> [id |-> Text("id"), name |-> <<"name", r>>,
                              associations |-> Ref(InputPart(g))]
       [] OTHER -> [id |-> <<"id", r>>]]

NewRecord(g, r) ==
  [o \in {<<g, p>> : p \in {<<>>, Properties, Connected, Associations, Own}} |->
     CASE o[2] = <<>> -> [properties |-> Ref(<<g, Properties>>)]
       [] o[2] = Properties ->
            [title |-> Text("title"), hronir |-> Ref(<<g, Own>>),
             connectedSystems |-> Ref(<<g, Connected>>)]
       [] o[2] = Connected ->
            [associations |-> IF r \in Described THEN Ref(<<g, Associations>>)
                              ELSE Ref(NilMap)]
       [] o[2] = Associations -> [parent |-> <<"parent", r>>]
       [] o[2] = Own -> [sourceId |-> Text("source")]]

(* The literals of an engine with fields F, as the configuration has them.   *)
Literals(F) ==
  [o \in {NilMap} \cup {<<"config", p>> : p \in {q \in DOMAIN F : F[q].literal = "object"}} |->
     IF o = NilMap THEN NoEntry ELSE [label |-> Text("label")]]

(* isEmpty is not asked for objects here, default for nothing else.          *)
Evaluate(h, g, e) ==
  LET value(i) == Walk(h, Ref(InputOf(g)), e[i])
      found    == {i \in DOMAIN e : value(i) # Missing}
  IN IF found = {} THEN Missing
     ELSE value(CHOOSE i \in found : \A j \in found : i <= j)

ValueOf(h, g, F, p) ==
  CASE F[p].expr # NoExpr -> Evaluate(h, g, F[p].expr)
    [] F[p].expr = NoExpr /\ F[p].literal = "object" -> Ref(<<"config", p>>)
    [] OTHER -> Text(F[p].literal)

(* setPointer walks down, replacing what is no object by a new one.          *)
Descend(w, n) ==
  LET v   == Entry(w.heap, Ref(w.object), n)
      new == <<w.object[1], Append(w.object[2], n)>>
  IN IF IsRef(v) THEN [w EXCEPT !.object = v[2]]
     ELSE [heap |-> Set([w.heap EXCEPT ![w.object] = Set(@, n, Ref(new))], new, NoEntry),
           object |-> new]

SetPointer(h, g, p, v) ==
  LET way[k \in 0 .. Len(p) - 1] ==
        IF k = 0 THEN [heap |-> h, object |-> Record(g)] ELSE Descend(way[k - 1], p[k])
      w == way[Len(p) - 1]
  IN [w.heap EXCEPT ![w.object] = Set(@, Last(p), v)]

DeletePointer(h, g, p) ==
  LET v == Walk(h, Ref(Record(g)), Front(p))
  IN IF IsRef(v)
     THEN [h EXCEPT ![v[2]] = [n \in DOMAIN @ \ {Last(p)} |-> @[n]]]
     ELSE h

(* What the record of g says at the paths the properties look at; an object  *)
(* is only told from what is no object.                                      *)
\* Mutant of Excluded: the hash of the source's resource is not left out.
ExcludedButOne == {Append(Own, "recordHash")}

Excluded == {Append(Own, "sourceHash"), Append(Own, "recordHash")}
Visible ==
  ToSet(Sorted) \cup {Connected} \cup {Append(p, "label") : p \in ToSet(Sorted)}
  \cup {Append(p, "recordHash") : p \in ToSet(Sorted)}
  \cup {Append(Own, n) : n \in {"sourceId", "sourceHash"}}
Render(v) == IF IsRef(v) THEN Text("object") ELSE v
Content(h, g) == [p \in Visible |-> Render(Walk(h, Ref(Record(g)), p))]
Semantic(content) == [p \in Visible \ Excluded |-> content[p]]

----------------------------------------------------------------------------
Busy(g) == pc[g] \in {"map", "hash", "setHashes", "put"}

(* The one of the pointers P that sort.Strings puts first.                   *)
First(P) ==
  Sorted[CHOOSE i \in DOMAIN Sorted :
           Sorted[i] \in P /\ \A j \in 1 .. i - 1 : Sorted[j] \notin P]

(* At the end of a call its objects are forgotten, unless it has left some   *)
(* of its input in a literal. (They take the content of the next input of g, *)
(* which no call but a disturbed one gets to see.)                           *)
Leaves(g) ==
  \E o \in DOMAIN heap : o[1] # g /\ \E v \in Range(heap[o]) : IsRef(v) /\ v[2][1] = g
Dropped(g) ==
  IF Leaves(g) THEN heap ELSE [o \in {x \in DOMAIN heap : x[1] # g} |-> heap[o]]

Nothing == [p \in Visible |-> Missing]

Init ==
  /\ fields \in {Over(o, BuiltIn) : o \in Overlays}
  /\ heap = Literals(fields)
  /\ process = "runs"
  /\ pc = [g \in Goroutine |-> "idle"]
  /\ of \in [Goroutine -> {CHOOSE r \in Resource : TRUE}]
  /\ left = [g \in Goroutine |-> {}]
  /\ hash = [g \in Goroutine |-> Semantic(Nothing)]
  /\ body = [g \in Goroutine |-> Nothing]
  /\ overlapped = [g \in Goroutine |-> FALSE]

(* A crawl, an event, a retry or a reconciliation maps a resource.           *)
StartMap(g, r) ==
  /\ process = "runs" /\ ~Busy(g)
  /\ heap' = Over(NewRecord(g, r), Over(Input(g, r), heap))
  /\ pc' = [pc EXCEPT ![g] = "map"]
  /\ of' = [of EXCEPT ![g] = r]
  /\ left' = [left EXCEPT ![g] = DOMAIN fields]
  /\ hash' = [hash EXCEPT ![g] = Semantic(Nothing)]
  /\ body' = [body EXCEPT ![g] = Nothing]
  /\ overlapped' =
       LET others == {x \in Goroutine \ {g} : Busy(x)}
       IN [x \in Goroutine |-> IF x = g THEN others # {} ELSE overlapped[x] \/ Busy(x)]
  /\ UNCHANGED <<fields, process>>

\* Mutant of Applied: a value that is missing is set like any other.
AppliedMissing(g, p) ==
  IF fields[p].remove THEN DeletePointer(heap, g, p)
  ELSE SetPointer(heap, g, p, ValueOf(heap, g, fields, p))

(* One field: removed, or its value set. Setting a name of a nil map panics. *)
Applied(g, p) ==
  IF fields[p].remove THEN DeletePointer(heap, g, p)
  ELSE LET v == ValueOf(heap, g, fields, p)
       IN IF v = Missing THEN DeletePointer(heap, g, p) ELSE SetPointer(heap, g, p, v)

ApplyField(g) ==
  LET p == First(left[g])
  IN /\ process = "runs" /\ pc[g] = "map"
     /\ fields[p].expr # Broken
     /\ heap' = Applied(g, p)
     /\ process' = IF heap'[NilMap] = NoEntry THEN process ELSE "panicked"
     /\ left' = [left EXCEPT ![g] = @ \ {p}]
     /\ pc' = IF left'[g] = {} THEN [pc EXCEPT ![g] = "hash"] ELSE pc
     /\ UNCHANGED <<fields, of, hash, body, overlapped>>

GiveUp(g) ==
  /\ pc' = [pc EXCEPT ![g] = "idle"]
  /\ heap' = Dropped(g)
  /\ left' = [left EXCEPT ![g] = {}]
  /\ hash' = [hash EXCEPT ![g] = Semantic(Nothing)]
  /\ overlapped' = [overlapped EXCEPT ![g] = FALSE]
  /\ UNCHANGED <<fields, process, of, body>>

(* Map returns an error; the caller saves a failure and puts nothing.        *)
MapFails(g) ==
  /\ process = "runs" /\ pc[g] = "map"
  /\ fields[First(left[g])].expr = Broken
  /\ GiveUp(g)

SemanticHash(g) ==
  /\ process = "runs" /\ pc[g] = "hash"
  /\ hash' = [hash EXCEPT ![g] = Semantic(Content(heap, g))]
  /\ pc' = [pc EXCEPT ![g] = "setHashes"]
  /\ UNCHANGED <<fields, heap, process, of, left, body, overlapped>>

(* SetHashes asserts that properties and properties.hronir are objects.      *)
SetHashes(g) ==
  LET own == Walk(heap, Ref(Record(g)), Own)
  IN /\ process = "runs" /\ pc[g] = "setHashes"
     /\ IF IsRef(own)
        THEN /\ LET hashes == [sourceHash |-> <<"hash", of[g]>>, recordHash |-> <<"hash", g>>]
                IN heap' = [heap EXCEPT ![own[2]] = Over(hashes, @)]
             /\ pc' = [pc EXCEPT ![g] = "put"]
             /\ UNCHANGED process
        ELSE process' = "panicked" /\ UNCHANGED <<heap, pc>>
     /\ UNCHANGED <<fields, of, left, hash, body, overlapped>>

(* encoding/json refuses an object that contains itself. Otherwise nothing   *)
(* lies deeper than there are objects.                                       *)
Marshals(g) ==
  LET in(objects) ==
        {v[2] : v \in {x \in UNION {Range(heap[o]) : o \in objects} : IsRef(x)}}
      at[k \in 0 .. Cardinality(DOMAIN heap)] ==
        IF k = 0 THEN {Record(g)} ELSE in(at[k - 1])
  IN at[Cardinality(DOMAIN heap)] = {}

Put(g) ==
  /\ process = "runs" /\ pc[g] = "put" /\ Marshals(g)
  /\ body' = [body EXCEPT ![g] = Content(heap, g)]
  /\ pc' = [pc EXCEPT ![g] = "done"]
  /\ heap' = Dropped(g)
  /\ UNCHANGED <<fields, process, of, left, hash, overlapped>>

PutFails(g) ==
  /\ process = "runs" /\ pc[g] = "put"
  /\ GiveUp(g)

(* A field below an object that an expression took from the input changes    *)
(* the input for the other expressions of the call.                          *)
WritesIntoInput ==
  \E p, q, s \in DOMAIN fields :
    /\ fields[p].expr = Whole /\ IsStrictPrefix(p, q)
    /\ s \notin {p, q} /\ fields[s].expr \in {Whole, Part}

(* A literal is written to when a field below it is set or removed, and, if  *)
(* it is (or got by way of the input to be) the record's own section, by     *)
(* SetHashes.                                                                *)
SharedLiteral ==
  \E p \in DOMAIN fields :
    /\ fields[p].literal = "object"
    /\ \/ p \in {Properties, Own}
       \/ \E q \in DOMAIN fields : IsStrictPrefix(p, q)
       \/ WritesIntoInput

(* Two goroutines that write to one map are a data race: either their writes *)
(* take effect, or the runtime notices and ends the process.                 *)
ConcurrentMapWrites(g, x) ==
  /\ process = "runs" /\ SharedLiteral
  /\ g # x /\ Busy(g) /\ Busy(x)
  /\ process' = "raced"
  /\ UNCHANGED <<fields, heap, pc, of, left, hash, body, overlapped>>

Next ==
  \E g \in Goroutine :
    \/ \E r \in Resource : StartMap(g, r)
    \/ ApplyField(g) \/ MapFails(g)
    \/ SemanticHash(g) \/ SetHashes(g)
    \/ Put(g) \/ PutFails(g)
    \/ \E x \in Goroutine : ConcurrentMapWrites(g, x)

Spec == Init /\ [][Next]_vars

----------------------------------------------------------------------------
(* Types; and the value missing{} of an expression never gets into a         *)
(* document, where it would be written as an empty object.                   *)
TypeOK ==
  /\ fields \in [DOMAIN fields -> Field] /\ DOMAIN BuiltIn \subseteq DOMAIN fields
  /\ DOMAIN fields \subseteq ToSet(Sorted)
  /\ process \in {"runs", "panicked", "raced"}
  /\ pc \in [Goroutine -> {"idle", "map", "hash", "setHashes", "put", "done"}]
  /\ of \in [Goroutine -> Resource]
  /\ left \in [Goroutine -> SUBSET DOMAIN fields]
  /\ \A g \in Goroutine : pc[g] = "map" <=> left[g] # {}
  /\ DOMAIN hash = Goroutine /\ DOMAIN body = Goroutine
  /\ overlapped \in [Goroutine -> BOOLEAN]
  /\ \A o \in DOMAIN heap : \A n \in DOMAIN heap[o] : heap[o][n] # Missing

(* What a record should say, without heap, order or interleaving: at each    *)
(* path the longest configured pointer that leads to it decides, with its    *)
(* value for a resource nobody has written into; NewRecord decides where no  *)
(* pointer does; and what has something below it is an object.               *)
Ideal(r) ==
  LET h == Over(NewRecord("ideal", r), Over(Input("ideal", r), Literals(fields)))
      value(p) == IF fields[p].remove THEN Missing ELSE ValueOf(h, "ideal", fields, p)
      says(p) ==
        LET deciding == {q \in DOMAIN fields : IsPrefix(q, p)}
            longest  == CHOOSE q \in deciding : \A s \in deciding : Len(s) <= Len(q)
        IN IF deciding = {} THEN Walk(h, Ref(Record("ideal")), p)
           ELSE Walk(h, value(longest), SubSeq(p, Len(longest) + 1, Len(p)))
      holds(p) == \E q \in DOMAIN fields : IsStrictPrefix(p, q) /\ value(q) # Missing
  IN [p \in Visible \ Excluded |->
        IF holds(p) THEN Text("object") ELSE Render(says(p))]

(* An object that setPointer makes inside a literal is there for good.       *)
LeavesBehind ==
  \E p, q \in DOMAIN fields :
    fields[p].literal = "object" /\ IsPrefix(p, q) /\ Len(q) > Len(p) + 1

(* The record's own section is an object of the input that another field may *)
(* show too: what SetHashes writes into the one shows in the other.          *)
OwnIsShown ==
  \E q \in DOMAIN fields \ {Own} :
    /\ Own \in DOMAIN fields /\ fields[Own].expr \in {Whole, Part}
    /\ fields[q].expr \in {Whole, Part}

Disturbed(g) ==
  WritesIntoInput \/ LeavesBehind \/ OwnIsShown \/ (SharedLiteral /\ overlapped[g])

(* What Map makes of a resource is what its overlay says of that resource    *)
(* alone, whatever was mapped before and whatever is mapped meanwhile: no    *)
(* field of one record shows in another, removed and missing fields are      *)
(* absent. The four ways it can be otherwise are named in Disturbed.         *)
RecordIsIdeal ==
  \A g \in Goroutine :
    pc[g] = "done" /\ ~Disturbed(g) => Semantic(body[g]) = Ideal(of[g])

(* The hash put with a record, which ReconcileTarget later compares with the *)
(* row, is the hash of that very record, unless setting the hashes changed   *)
(* it elsewhere too.                                                         *)
HashTellsBody ==
  \A g \in Goroutine :
    pc[g] = "done" /\ ~OwnIsShown /\ ~(SharedLiteral /\ overlapped[g]) =>
      /\ hash[g] = Semantic(body[g])
      /\ body[g][Append(Own, "recordHash")] = <<"hash", g>>

(* Nothing in the code recovers from a panic. The only configurations that   *)
(* cause one are those that take the record's own section away. The race on  *)
(* a shared literal, which may end the process too, is "raced".              *)
PanicNeedsOwnSection ==
  process = "panicked" =>
    \E p \in {Properties, Own} : p \in DOMAIN fields

============================================================================
