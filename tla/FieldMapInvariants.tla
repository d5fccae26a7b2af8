------------------------- MODULE FieldMapInvariants -------------------------
(* What FieldMapProofs strengthens the invariants of FieldMap with, as       *)
(* predicates TLC can evaluate.                                              *)
EXTENDS FieldMap

(* What makes HashTellsBody inductive: where an object can be mounted.       *)

Names ==
  {"properties", "connectedSystems", "associations", "parent", "extra", "hronir",
   "title", "label", "sourceId", "sourceHash", "recordHash", "id", "name", "$"}
InnerNames == {"properties", "connectedSystems", "associations", "extra"}
InputPaths == {<<"$">>, <<"$", "associations">>}

Taken(n, e) == \E p \in DOMAIN fields : Last(p) = n /\ fields[p].expr = e

(* A field may have put an object into the input below an object it took.    *)
InputWritten ==
  \E p, q \in DOMAIN fields :
    fields[p].expr = Whole /\ IsStrictPrefix(p, q) /\ fields[q].expr # Part

(* An object goes by the name it was made at, but for what expressions took. *)
Mounted(n, o) ==
  \/ o[2] \notin InputPaths /\ o[2] # <<>> /\ Last(o[2]) = n
  \/ o[2] = <<"$", "associations">> /\ Taken(n, Whole)
  \/ /\ o[2] = <<"$", "associations">> \/ (o[2] # <<>> /\ Last(o[2]) = "parent")
     /\ Taken(n, Part) /\ InputWritten
  \/ o = NilMap /\ n = "associations"

(* What may be entered under n into an object other than an input: nothing   *)
(* missing, and references to objects that may be mounted there.             *)
Storable(h, n, v) ==
  /\ v # Missing
  /\ IsRef(v) => v = Ref(v[2]) /\ v[2] \in DOMAIN h /\ Mounted(n, v[2])

(* What is in the heap, and in an input.                                     *)
HeapOK(h) ==
  /\ DOMAIN h \subseteq (Goroutine \cup {"config", "nil"}) \X Seq(Names)
  /\ NilMap \in DOMAIN h
  /\ \A p \in DOMAIN fields : fields[p].literal = "object" => <<"config", p>> \in DOMAIN h
  /\ \A o \in DOMAIN h : \A n \in DOMAIN h[o] :
       IF o[2] = <<"$">>
       THEN /\ h[o][n] # Missing
            /\ IsRef(h[o][n]) => /\ n = "associations" /\ h[o][n] = Ref(InputPart(o[1]))
                                 /\ InputPart(o[1]) \in DOMAIN h
       ELSE /\ Storable(h, n, h[o][n])
            /\ o[2] = <<"$", "associations">> /\ n = "parent" /\ IsRef(h[o][n])
                 => InputWritten

(* Unless a literal is shared, what is g's is only referred to from there.   *)
Separate(h) ==
  /\ \A o \in DOMAIN h : o[1] # "nil" =>
       \A n \in DOMAIN h[o] : IsRef(h[o][n]) =>
         h[o][n][2][1] \in {o[1], "config"} \/ h[o][n][2] = NilMap
  /\ \A o \in DOMAIN h : o[1] = "config" =>
       o[2] \in DOMAIN fields /\ fields[o[2]].literal = "object"

\* Once its hash is computed, the record of g says what was hashed.
Hashed(g) ==
  process = "runs" /\ pc[g] \in {"setHashes", "put"}
    /\ ~OwnIsShown /\ ~(SharedLiteral /\ overlapped[g]) =>
    /\ hash[g] = Semantic(Content(heap, g))
    /\ pc[g] = "put" =>
         Walk(heap, Ref(Record(g)), Append(Own, "recordHash")) = <<"hash", g>>

HashedInv ==
  /\ HeapOK(heap)
  /\ SharedLiteral \/ Separate(heap)
  /\ process = "runs" => heap[NilMap] = NoEntry
  /\ \A g \in Goroutine : Busy(g) => Record(g) \in DOMAIN heap /\ InputOf(g) \in DOMAIN heap
  /\ \A g, x \in Goroutine : g # x /\ Busy(g) /\ Busy(x) => overlapped[g]
  /\ \A g \in Goroutine : Hashed(g)

(* What makes PanicNeedsOwnSection inductive: as long as no field is for the *)
(* properties as a whole, a call finds in its record what NewRecord put      *)
(* there, and its associations are no nil map once their field is applied,   *)
(* which sort.Strings puts before the field below them.                      *)
Rooted(h, g) ==
  /\ {Record(g), <<g, Properties>>, <<g, Connected>>} \subseteq DOMAIN h
  /\ Entry(h, Ref(Record(g)), "properties") = Ref(<<g, Properties>>)
  /\ Entry(h, Ref(<<g, Properties>>), "connectedSystems") = Ref(<<g, Connected>>)
  /\ Own \notin DOMAIN fields => IsRef(Entry(h, Ref(<<g, Properties>>), "hronir"))

NilAssociations(h, g) == Entry(h, Ref(<<g, Connected>>), "associations") = Ref(NilMap)

RootedInv ==
  Properties \notin DOMAIN fields =>
    \A g \in Goroutine : Busy(g) =>
      /\ Rooted(heap, g)
      /\ pc[g] = "map" /\ Associations \notin left[g] => ~NilAssociations(heap, g)

============================================================================
