-------------------------- MODULE RecordInvariants --------------------------
(* What RecordProofs strengthens RecordIsIdeal with, as predicates TLC can   *)
(* evaluate: at any moment of a call, its record is the ideal record of the  *)
(* pointers applied so far.                                                  *)
EXTENDS FieldMapInvariants

(* The overlays RecordIsIdeal speaks of, but for calls that overlap.         *)
Plain == ~WritesIntoInput /\ ~LeavesBehind /\ ~OwnIsShown

(* The paths the ideal is about, with that of the record itself.             *)
Paths == {<<>>} \cup (Visible \ Excluded)

Said(h, g, y) == Walk(h, Ref(Record(g)), y)

(* What is applied when the pointers L are left.                             *)
Done(L) == DOMAIN fields \ L

(* A field that takes the associations of resource r, if it has any.         *)
Takes(r, q)  == r \in Described /\ fields[q].expr = Whole

(* A field that puts the associations of the input into themselves: no such  *)
(* record can be written as JSON.                                            *)
Circular(r, q) ==
  Takes(r, q) /\ \E w \in DOMAIN fields : Takes(r, w) /\ IsStrictPrefix(w, q)

(* Where nothing is to come any more that may replace what is there.         *)
Settled(r, L) ==
  {y \in Paths : \A q \in DOMAIN fields : IsPrefix(q, y) => q \notin L /\ ~Circular(r, q)}

(* Ideal, when the pointers A have been applied.                             *)
IdealHeap(r) == Over(NewRecord("ideal", r), Over(Input("ideal", r), Literals(fields)))
IdealValue(r, p) ==
  IF fields[p].remove THEN Missing ELSE ValueOf(IdealHeap(r), "ideal", fields, p)
IdealSays(A, r, y) ==
  LET deciding == {q \in A : IsPrefix(q, y)}
      longest  == CHOOSE q \in deciding : \A s \in deciding : Len(s) <= Len(q)
  IN IF deciding = {} THEN Walk(IdealHeap(r), Ref(Record("ideal")), y)
     ELSE Walk(IdealHeap(r), IdealValue(r, longest), SubSeq(y, Len(longest) + 1, Len(y)))
IdealHolds(A, r, y) ==
  \E q \in A : IsStrictPrefix(y, q) /\ IdealValue(r, q) # Missing
IdealOf(A, r, y) ==
  IF IdealHolds(A, r, y) THEN Text("object") ELSE Render(IdealSays(A, r, y))

(* The input is as it was made, until a field is set below an object of it.  *)
InputIntact(h, g, r) ==
  r \in Described => /\ InputPart(g) \in DOMAIN h
                     /\ h[InputPart(g)] = Input(g, r)[InputPart(g)]
Pristine(h, g, r, L) ==
  /\ h[InputOf(g)] = Input(g, r)[InputOf(g)]
  /\ (\A w, q \in Done(L) : ~(fields[w].expr = Whole /\ IsStrictPrefix(w, q)))
       => InputIntact(h, g, r)

(* What calls leave in a literal is at the paths of other fields.            *)
LiteralOK(h, p) ==
  LET o == <<"config", p>> IN
  /\ "label" \in DOMAIN h[o] /\ h[o]["label"] = Text("label")
  /\ \A n \in DOMAIN h[o] :
       \/ n = "label"
       \/ Append(p, n) \in DOMAIN fields
       \/ p = Own /\ n \in {"sourceHash", "recordHash"}
LiteralsOK(h) ==
  /\ \A p \in DOMAIN fields : fields[p].literal = "object" => LiteralOK(h, p)
  /\ \A o \in DOMAIN h : o[1] = "config" =>
       o[2] \in DOMAIN fields /\ fields[o[2]].literal = "object"

(* What is true of a call of g, with the pointers L left.                    *)
Ideally(h, g, r, L) ==
  /\ \A w \in Done(L) : Takes(r, w) => Said(h, g, w) = Ref(InputPart(g))
  /\ \A y \in Settled(r, L) : Render(Said(h, g, y)) = IdealOf(Done(L), r, y)

(* No pointer is applied before those that lead to it.                       *)
InOrder(L) == \A q \in L, w \in DOMAIN fields : IsPrefix(q, w) => w \in L

RecordInv ==
  /\ \A p \in DOMAIN fields : fields[p].remove => fields[p].expr = NoExpr
  /\ \A g \in Goroutine : InOrder(left[g])
  /\ Plain /\ process = "runs" =>
       /\ IsFiniteSet(DOMAIN heap) /\ LiteralsOK(heap)
       /\ \A g \in Goroutine :
            Busy(g) /\ ~(SharedLiteral /\ overlapped[g]) =>
              /\ Ideally(heap, g, of[g], left[g])
              /\ pc[g] = "map" => Pristine(heap, g, of[g], left[g])

=============================================================================
