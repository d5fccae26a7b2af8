--------------------------- MODULE FieldMapProofs ---------------------------
(***************************************************************************)
(* Theorems about FieldMap, for any goroutines and resources, and overlays  *)
(* of any size.                                                             *)
(*                                                                          *)
(* Whatever a property says of a document it says by Walk, and every step   *)
(* writes by SetPointer or DeletePointer: recursive functions along a path. *)
(* So the first part is about them: induction over the length of a path,    *)
(* stated of the set of the lengths at which something holds, since the     *)
(* theorems of the library that take an operator cannot be instantiated.    *)
(* From it follows what may be reached where (HeapOK, Mounted), that calls  *)
(* do not reach each other's objects (Separate), and that a record keeps    *)
(* the objects of NewRecord (Rooted). The second part has one lemma per     *)
(* action, on the invariant Inv.                                            *)
(***************************************************************************)
EXTENDS FieldMapInvariants, WellFoundedInduction, SequenceTheorems, TLAPS

USE FieldMapAssumption

-----------------------------------------------------------------------------
(* Recursion and induction over a path.                                      *)

\* Induction, with the set of the numbers that have the property for the
\* property: it follows from the least number that has not.
LEMMA Induction ==
  ASSUME NEW T, 0 \in T, \A n \in Nat : n \in T => n + 1 \in T
  PROVE  Nat \subseteq T
<1> SUFFICES ASSUME ~(Nat \subseteq T) PROVE FALSE
  OBVIOUS
<1> DEFINE U == Nat \ T
<1>1. IsWellFoundedOn(OpToRel(<, Nat), Nat)
  BY NatLessThanWellFounded, Zenon
<1>2. \E x \in U : \A y \in U : ~ (<<y, x>> \in OpToRel(<, Nat))
  BY <1>1, WFMin, Zenon
<1>3. \A x, y \in Nat : <<y, x>> \in OpToRel(<, Nat) <=> y < x
  BY DEF OpToRel
<1>4. PICK x \in U : \A y \in U : ~ (y < x)
  BY <1>2, <1>3, Zenon
<1>5. x # 0 /\ x - 1 \in Nat /\ x - 1 \notin U
  BY <1>4
<1>6. QED
  BY <1>4, <1>5

\* The same up to a bound.
LEMMA InductionTo ==
  ASSUME NEW T, NEW m \in Nat, 0 \in T, \A n \in 1 .. m : n - 1 \in T => n \in T
  PROVE  0 .. m \subseteq T
<1> DEFINE S == {n \in Nat : n <= m => n \in T}
<1>1. \A n \in Nat : n \in S => n + 1 \in S
  OBVIOUS
<1>2. 0 \in S
  OBVIOUS
<1> HIDE DEF S
<1>3. Nat \subseteq S
  BY <1>1, <1>2, Induction
<1>4. QED
  BY <1>3 DEF S

\* The recursion in Walk has a solution, so its equations hold.
LEMMA WalkSteps ==
  ASSUME NEW h, NEW v, NEW p, Len(p) \in Nat
  PROVE  \E f : /\ f[0] = v
                /\ \A k \in 1 .. Len(p) : f[k] = Entry(h, f[k - 1], p[k])
                /\ Walk(h, v, p) = f[Len(p)]
<1> DEFINE Solves(f, n) ==
      f = [k \in 0 .. n |-> IF k = 0 THEN v ELSE Entry(h, f[k - 1], p[k])]
    T == {n \in Nat : \E f : Solves(f, n)}
<1>1. 0 \in T
  <2>1. Solves([k \in 0 .. 0 |-> v], 0)
    OBVIOUS
  <2>2. QED
    BY <2>1
<1>2. ASSUME NEW n \in Nat, n \in T PROVE n + 1 \in T
  <2>1. PICK f : Solves(f, n)
    BY <1>2
  <2> DEFINE g == [k \in 0 .. n + 1 |-> IF k <= n THEN f[k] ELSE Entry(h, f[n], p[n + 1])]
  <2>2. ASSUME NEW k \in 0 .. n + 1
        PROVE  g[k] = IF k = 0 THEN v ELSE Entry(h, g[k - 1], p[k])
    <3>1. CASE k = n + 1
      BY <3>1
    <3>2. CASE k <= n
      BY <3>2, <2>1
    <3>3. QED
      BY <3>1, <3>2
  <2>3. Solves(g, n + 1)
    BY <2>2
  <2> HIDE DEF g, Solves
  <2>4. \E f2 : Solves(f2, n + 1)
    BY <2>3, Zenon
  <2>5. QED
    BY <2>4
<1> HIDE DEF T
<1>3. Len(p) \in T
  BY <1>1, <1>2, Induction
<1>4. PICK f : Solves(f, Len(p))
  BY <1>3 DEF T
<1> DEFINE F == CHOOSE f2 : Solves(f2, Len(p))
<1>5. Solves(F, Len(p))
  BY <1>4
<1>6. Walk(h, v, p) = F[Len(p)]
  BY DEF Walk
<1> HIDE DEF F
<1>7. QED
  BY <1>5, <1>6

\* One name more is one entry more.
LEMMA WalkAppend ==
  ASSUME NEW h, NEW v, NEW S, NEW p \in Seq(S), NEW n \in S
  PROVE  Walk(h, v, Append(p, n)) = Entry(h, Walk(h, v, p), n)
<1> SUFFICES ASSUME NEW q, q = Append(p, n)
             PROVE  Walk(h, v, q) = Entry(h, Walk(h, v, p), n)
  OBVIOUS
<1>1. /\ Len(p) \in Nat /\ Len(q) = Len(p) + 1 /\ Len(q) \in Nat
      /\ q[Len(p) + 1] = n
      /\ \A k \in 1 .. Len(p) : q[k] = p[k]
  OBVIOUS
<1>2. PICK f : /\ f[0] = v
               /\ \A k \in 1 .. Len(p) : f[k] = Entry(h, f[k - 1], p[k])
               /\ Walk(h, v, p) = f[Len(p)]
  BY <1>1, WalkSteps
<1>3. PICK g : /\ g[0] = v
               /\ \A k \in 1 .. Len(q) : g[k] = Entry(h, g[k - 1], q[k])
               /\ Walk(h, v, q) = g[Len(q)]
  <2>1. Len(q) \in Nat
    BY <1>1
  <2>2. QED
    BY ONLY <2>1, WalkSteps
<1> DEFINE T == {k \in 0 .. Len(p) : g[k] = f[k]}
<1>4. \A k \in 1 .. Len(p) : k - 1 \in T => k \in T
  BY <1>1, <1>2, <1>3
<1>5. 0 \in T
  BY <1>1, <1>2, <1>3
<1>6. Len(p) \in T
  <2> HIDE DEF T
  <2>1. 0 .. Len(p) \subseteq T
    BY <1>1, <1>4, <1>5, InductionTo
  <2>2. QED
    BY <1>1, <2>1
<1>7. QED
  BY <1>1, <1>2, <1>3, <1>6

\* Nothing to walk is to stay.
LEMMA WalkEmpty ==
  ASSUME NEW h, NEW v
  PROVE  Walk(h, v, <<>>) = v
<1>1. Len(<<>>) = 0
  OBVIOUS
<1>2. QED
  BY <1>1, WalkSteps

\* A walk stays among values that only lead to each other.
LEMMA WalkIn ==
  ASSUME NEW h, NEW T, NEW v \in T, NEW S, NEW p \in Seq(S),
         \A u \in T : \A n \in S : Entry(h, u, n) \in T
  PROVE  Walk(h, v, p) \in T
<1>1. Len(p) \in Nat /\ \A k \in 1 .. Len(p) : p[k] \in S
  OBVIOUS
<1>2. PICK f : /\ f[0] = v
               /\ \A k \in 1 .. Len(p) : f[k] = Entry(h, f[k - 1], p[k])
               /\ Walk(h, v, p) = f[Len(p)]
  BY <1>1, WalkSteps
<1> DEFINE U == {k \in 0 .. Len(p) : f[k] \in T}
<1>3. \A k \in 1 .. Len(p) : k - 1 \in U => k \in U
  BY <1>1, <1>2
<1>4. 0 \in U
  BY <1>1, <1>2
<1>5. Len(p) \in U
  <2> HIDE DEF U
  <2>1. 0 .. Len(p) \subseteq U
    BY <1>1, <1>3, <1>4, InductionTo
  <2>2. QED
    BY <1>1, <2>1
<1>6. QED
  BY <1>2, <1>5

\* Two heaps that agree about these values lead to the same.
LEMMA WalkSame ==
  ASSUME NEW h, NEW h2, NEW T, NEW v \in T, NEW S, NEW p \in Seq(S),
         \A u \in T : \A n \in S : Entry(h, u, n) \in T /\ Entry(h2, u, n) = Entry(h, u, n)
  PROVE  Walk(h2, v, p) = Walk(h, v, p)
<1>1. Len(p) \in Nat /\ \A k \in 1 .. Len(p) : p[k] \in S
  OBVIOUS
<1>2. PICK f : /\ f[0] = v
               /\ \A k \in 1 .. Len(p) : f[k] = Entry(h, f[k - 1], p[k])
               /\ Walk(h, v, p) = f[Len(p)]
  BY <1>1, WalkSteps
<1>3. PICK g : /\ g[0] = v
               /\ \A k \in 1 .. Len(p) : g[k] = Entry(h2, g[k - 1], p[k])
               /\ Walk(h2, v, p) = g[Len(p)]
  BY <1>1, WalkSteps
<1> DEFINE U == {k \in 0 .. Len(p) : f[k] \in T /\ g[k] = f[k]}
<1>4. \A k \in 1 .. Len(p) : k - 1 \in U => k \in U
  BY <1>1, <1>2, <1>3
<1>5. 0 \in U
  BY <1>1, <1>2, <1>3
<1>6. Len(p) \in U
  <2> HIDE DEF U
  <2>1. 0 .. Len(p) \subseteq U
    BY <1>1, <1>4, <1>5, InductionTo
  <2>2. QED
    BY <1>1, <2>1
<1>7. QED
  BY <1>2, <1>3, <1>6

\* SetPointer descends once for each name but the last, and sets that one.
LEMMA SetPointerSteps ==
  ASSUME NEW h, NEW g, NEW p, NEW v, Len(p) \in Nat \ {0}
  PROVE  \E f : /\ f[0] = [heap |-> h, object |-> Record(g)]
                /\ \A k \in 1 .. Len(p) - 1 : f[k] = Descend(f[k - 1], p[k])
                /\ LET w == f[Len(p) - 1] IN
                   SetPointer(h, g, p, v) = [w.heap EXCEPT ![w.object] = Set(@, Last(p), v)]
<1> DEFINE Solves(f, n) ==
      f = [k \in 0 .. n |-> IF k = 0 THEN [heap |-> h, object |-> Record(g)]
                            ELSE Descend(f[k - 1], p[k])]
    T == {n \in Nat : \E f : Solves(f, n)}
    start == [heap |-> h, object |-> Record(g)]
<1>1. 0 \in T
  <2>1. Solves([k \in 0 .. 0 |-> start], 0)
    OBVIOUS
  <2> HIDE DEF Solves
  <2>2. \E f : Solves(f, 0)
    BY <2>1
  <2>3. QED
    BY <2>2
<1>2. ASSUME NEW n \in Nat, n \in T PROVE n + 1 \in T
  <2>1. PICK f : Solves(f, n)
    BY <1>2
  <2> DEFINE g2 == [k \in 0 .. n + 1 |-> IF k <= n THEN f[k] ELSE Descend(f[n], p[n + 1])]
  <2>2. ASSUME NEW k \in 0 .. n + 1
        PROVE  g2[k] = IF k = 0 THEN start ELSE Descend(g2[k - 1], p[k])
    <3>1. CASE k = n + 1
      BY <3>1
    <3>2. CASE k <= n
      BY <3>2, <2>1
    <3>3. QED
      BY <3>1, <3>2
  <2>3. Solves(g2, n + 1)
    BY <2>2
  <2> HIDE DEF g2, Solves
  <2>4. \E f2 : Solves(f2, n + 1)
    BY <2>3, Zenon
  <2>5. QED
    BY <2>4
<1> HIDE DEF T
<1>3. Len(p) - 1 \in T
  BY <1>1, <1>2, Induction
<1>4. PICK f : Solves(f, Len(p) - 1)
  BY <1>3 DEF T
<1> DEFINE F == CHOOSE f2 : Solves(f2, Len(p) - 1)
<1>5. Solves(F, Len(p) - 1)
  BY <1>4
<1>6. LET w == F[Len(p) - 1] IN
      SetPointer(h, g, p, v) = [w.heap EXCEPT ![w.object] = Set(@, Last(p), v)]
  BY DEF SetPointer
<1> HIDE DEF F
<1>7. /\ F[0] = start
      /\ \A k \in 1 .. Len(p) - 1 : F[k] = Descend(F[k - 1], p[k])
  BY <1>5
<1>8. QED
  BY <1>6, <1>7, Zenon

-----------------------------------------------------------------------------
(* The pointers, and what is entered where.                                  *)

\* The pointers, without their order.
LEMMA Pointers ==
  ToSet(Sorted) = {Properties, Associations, Parent, Extra, ExtraParent, Own, Title}
  BY DEF ToSet, Sorted

\* What the pointers are, as the provers see it.
LEMMA PointerNames ==
  /\ Properties \in Seq(Names) /\ Len(Properties) = 1
     /\ Properties[1] = "properties"
  /\ Connected \in Seq(Names) /\ Len(Connected) = 2
     /\ Connected[1] = "properties" /\ Connected[2] = "connectedSystems"
  /\ Associations \in Seq(Names) /\ Len(Associations) = 3
     /\ Associations[1] = "properties" /\ Associations[2] = "connectedSystems"
     /\ Associations[3] = "associations"
  /\ Parent \in Seq(Names) /\ Len(Parent) = 4
     /\ Parent[1] = "properties" /\ Parent[2] = "connectedSystems"
     /\ Parent[3] = "associations" /\ Parent[4] = "parent"
  /\ Extra \in Seq(Names) /\ Len(Extra) = 2
     /\ Extra[1] = "properties" /\ Extra[2] = "extra"
  /\ ExtraParent \in Seq(Names) /\ Len(ExtraParent) = 3
     /\ ExtraParent[1] = "properties" /\ ExtraParent[2] = "extra"
     /\ ExtraParent[3] = "parent"
  /\ Own \in Seq(Names) /\ Len(Own) = 2
     /\ Own[1] = "properties" /\ Own[2] = "hronir"
  /\ Title \in Seq(Names) /\ Len(Title) = 2
     /\ Title[1] = "properties" /\ Title[2] = "title"
<1>1. Properties \in Seq(Names) /\ Len(Properties) = 1
  BY DEF Properties, Names
<1>2. Connected \in Seq(Names) /\ Len(Connected) = 2
  BY DEF Connected, Names
<1>3. Associations \in Seq(Names) /\ Len(Associations) = 3
  BY DEF Associations, Names
<1>4. Parent \in Seq(Names) /\ Len(Parent) = 4
  BY DEF Parent, Names
<1>5. Extra \in Seq(Names) /\ Len(Extra) = 2
  BY DEF Extra, Names
<1>6. ExtraParent \in Seq(Names) /\ Len(ExtraParent) = 3
  BY DEF ExtraParent, Names
<1>7. Own \in Seq(Names) /\ Len(Own) = 2
  BY DEF Own, Names
<1>8. Title \in Seq(Names) /\ Len(Title) = 2
  BY DEF Title, Names
<1>9. QED
  BY <1>1, <1>2, <1>3, <1>4, <1>5, <1>6, <1>7, <1>8
  DEF Properties, Connected, Associations, Parent, Extra, ExtraParent, Own, Title

\* A name on the way down a pointer tells which pointer it is.
LEMMA InnerName ==
  ASSUME NEW p \in ToSet(Sorted)
  PROVE  /\ p \in Seq(Names) /\ Len(p) \in Nat \ {0} /\ Last(p) \in Names
         /\ p # <<>> /\ p \notin InputPaths
         /\ \A k \in 1 .. Len(p) - 1 :
              /\ p[k] \in InnerNames
              /\ p[k] = "associations" => p = Parent /\ k = Len(p) - 1
              /\ p[k] = "extra" => p = ExtraParent /\ k = Len(p) - 1
<1>a. \/ p = Properties \/ p = Associations \/ p = Parent \/ p = Extra
      \/ p = ExtraParent \/ p = Own \/ p = Title
  BY Pointers
<1>1. /\ p \in Seq(Names) /\ p[1] = "properties"
      /\ Len(p) = 1 \/ Len(p) = 2 \/ Len(p) = 3 \/ Len(p) = 4
  BY <1>a, PointerNames
<1>2. p # <<>> /\ p \notin InputPaths /\ Last(p) \in Names
  BY <1>1 DEF InputPaths, Last
<1>3. ASSUME NEW k \in 1 .. Len(p) - 1
      PROVE  /\ p[k] \in InnerNames
             /\ p[k] = "associations" => p = Parent /\ k = Len(p) - 1
             /\ p[k] = "extra" => p = ExtraParent /\ k = Len(p) - 1
  <2>1. CASE p = Properties
    BY <2>1, PointerNames
  <2>2. CASE p \in {Extra, Own, Title}
    <3> Len(p) = 2
      BY <2>2, PointerNames
    <3>1. k = 1
      OBVIOUS
    <3>2. QED
      BY <3>1, <2>2, PointerNames DEF InnerNames
  <2>3. CASE p \in {Associations, ExtraParent}
    <3> Len(p) = 3
      BY <2>3, PointerNames
    <3>1. k = 1 \/ k = 2
      OBVIOUS
    <3>2. QED
      BY <3>1, <2>3, PointerNames DEF InnerNames
  <2>4. CASE p = Parent
    <3>1. k = 1 \/ k = 2 \/ k = 3
      BY <2>4, PointerNames
    <3>2. QED
      BY <3>1, <2>4, PointerNames DEF InnerNames
  <2>5. QED
    BY <1>a, <2>1, <2>2, <2>3, <2>4
<1>4. QED
  BY <1>1, <1>2, <1>3

\* So does the last name, but for "parent".
LEMMA LastName ==
  ASSUME NEW p \in ToSet(Sorted)
  PROVE  /\ Last(p) = "properties" <=> p = Properties
         /\ Last(p) = "associations" <=> p = Associations
         /\ Last(p) = "parent" <=> p \in {Parent, ExtraParent}
         /\ Last(p) = "extra" <=> p = Extra
         /\ Last(p) = "hronir" <=> p = Own
         /\ Last(p) \notin {"connectedSystems", "recordHash"}
<1>1. /\ Last(Properties) = "properties" /\ Last(Associations) = "associations"
      /\ Last(Parent) = "parent" /\ Last(Extra) = "extra"
      /\ Last(ExtraParent) = "parent" /\ Last(Own) = "hronir" /\ Last(Title) = "title"
  BY PointerNames DEF Last
<1>2. QED
  BY <1>1, Pointers

\* The two built-in objects are above another pointer.
LEMMA PointerPrefixes == IsStrictPrefix(Associations, Parent) /\ IsStrictPrefix(Extra, ExtraParent)
<1>1. ASSUME NEW s \in Seq(Names), NEW t \in Seq(Names), Len(s) < Len(t),
             \A i \in 1 .. Len(s) : s[i] = t[i]
      PROVE  IsStrictPrefix(s, t)
  <2>1. SubSeq(s, 1, Len(s)) \in Seq(Names) /\ SubSeq(t, 1, Len(s)) \in Seq(Names)
    BY <1>1
  <2>2. Len(SubSeq(s, 1, Len(s))) = Len(s) /\ Len(SubSeq(t, 1, Len(s))) = Len(s)
    BY <1>1
  <2>3. \A i \in 1 .. Len(s) : SubSeq(s, 1, Len(s))[i] = SubSeq(t, 1, Len(s))[i]
    BY <1>1
  <2>4. SubSeq(s, 1, Len(s)) = SubSeq(t, 1, Len(s))
    BY <2>1, <2>2, <2>3, SeqEqual
  <2>5. QED
    BY <1>1, <2>4 DEF IsStrictPrefix, IsPrefix
<1>2. IsStrictPrefix(Associations, Parent)
  <2>1. ASSUME NEW i \in 1 .. 3 PROVE Associations[i] = Parent[i]
    <3>1. i = 1 \/ i = 2 \/ i = 3
      OBVIOUS
    <3>2. QED
      BY <3>1, PointerNames
  <2>2. /\ Associations \in Seq(Names) /\ Len(Associations) = 3
        /\ Parent \in Seq(Names) /\ Len(Parent) = 4
    BY PointerNames
  <2>3. /\ Len(Associations) < Len(Parent)
        /\ \A i \in 1 .. Len(Associations) : Associations[i] = Parent[i]
    BY <2>1, <2>2
  <2>4. QED
    BY <1>1, <2>2, <2>3
<1>3. IsStrictPrefix(Extra, ExtraParent)
  <2>1. ASSUME NEW i \in 1 .. 2 PROVE Extra[i] = ExtraParent[i]
    <3>1. i = 1 \/ i = 2
      OBVIOUS
    <3>2. QED
      BY <3>1, PointerNames
  <2>2. /\ Extra \in Seq(Names) /\ Len(Extra) = 2
        /\ ExtraParent \in Seq(Names) /\ Len(ExtraParent) = 3
    BY PointerNames
  <2>3. /\ Len(Extra) < Len(ExtraParent)
        /\ \A i \in 1 .. Len(Extra) : Extra[i] = ExtraParent[i]
    BY <2>1, <2>2
  <2>4. QED
    BY <1>1, <2>2, <2>3
<1>4. QED
  BY <1>2, <1>3

\* Paths that are extended end in the new name; none becomes that of an input.
LEMMA Extended ==
  ASSUME NEW p \in Seq(Names), NEW n \in Names
  PROVE  LET q == Append(p, n) IN
         /\ q \in Seq(Names) /\ q # <<>> /\ Last(q) = n
         /\ n # "$" => q # <<"$">>
         /\ p # <<"$">> => q # <<"$", "associations">>
<1> SUFFICES ASSUME NEW q, q = Append(p, n)
             PROVE  /\ q \in Seq(Names) /\ q # <<>> /\ Last(q) = n
                    /\ n # "$" => q # <<"$">>
                    /\ p # <<"$">> => q # <<"$", "associations">>
  OBVIOUS
<1>1. /\ q \in Seq(Names) /\ Len(p) \in Nat /\ Len(q) = Len(p) + 1
      /\ Len(p) = Len(q) - 1 /\ q[Len(p) + 1] = n
      /\ Len(p) = 1 => q[1] = p[1]
  OBVIOUS
<1>2. q # <<>> /\ Last(q) = n
  BY <1>1 DEF Last
<1>3. ASSUME q = <<"$">> PROVE n = "$"
  BY <1>2, <1>3 DEF Last
<1>4. ASSUME q = <<"$", "associations">> PROVE p = <<"$">>
  <2>1. Len(p) = 1 /\ p[1] = "$"
    <3>1. Len(q) = 2 /\ q[1] = "$"
      BY <1>4
    <3>2. QED
      BY <1>1, <3>1
  <2>2. <<"$">> \in Seq(Names) /\ Len(<<"$">>) = 1 /\ <<"$">>[1] = "$"
    BY DEF Names
  <2>3. QED
    BY <2>1, <2>2, SeqEqual
<1>5. QED
  BY <1>1, <1>2, <1>3, <1>4

\* No input is mounted anywhere, only the part of one that is an object.
LEMMA MountedPath ==
  ASSUME NEW n, NEW o, Mounted(n, o)
  PROVE  o[2] # <<"$">>
<1>1. Last(<<"$">>) = "$" /\ <<"$">> # <<"$", "associations">>
  BY DEF Last
<1>2. QED
  BY <1>1 DEF Mounted, InputPaths, NilMap

\* Whatever is storable may be entered.
LEMMA Entered ==
  ASSUME NEW h, HeapOK(h), NEW o \in DOMAIN h, o[2] # <<"$">>,
         NEW n, NEW v, Storable(h, n, v),
         o[2] = <<"$", "associations">> /\ n = "parent" /\ IsRef(v) => InputWritten
  PROVE  HeapOK([h EXCEPT ![o] = Set(@, n, v)])
<1> DEFINE h2 == [h EXCEPT ![o] = Set(@, n, v)]
<1>1. DOMAIN h2 = DOMAIN h
  OBVIOUS
<1>2. \A q \in DOMAIN h : q # o => h2[q] = h[q]
  OBVIOUS
<1>3. /\ DOMAIN h2[o] = DOMAIN h[o] \cup {n}
      /\ \A m \in DOMAIN h2[o] : h2[o][m] = IF m = n THEN v ELSE h[o][m]
  BY DEF Set
<1> HIDE DEF h2
<1>4. \A m, u : Storable(h, m, u) => Storable(h2, m, u)
  BY <1>1 DEF Storable
<1>5. ASSUME NEW q \in DOMAIN h2, NEW m \in DOMAIN h2[q]
      PROVE  IF q[2] = <<"$">>
             THEN /\ h2[q][m] # Missing
                  /\ IsRef(h2[q][m]) =>
                       /\ m = "associations" /\ h2[q][m] = Ref(InputPart(q[1]))
                       /\ InputPart(q[1]) \in DOMAIN h2
             ELSE /\ Storable(h2, m, h2[q][m])
                  /\ q[2] = <<"$", "associations">> /\ m = "parent" /\ IsRef(h2[q][m])
                       => InputWritten
  <2>1. CASE q # o
    BY <1>1, <1>2, <1>4, <2>1 DEF HeapOK
  <2>2. CASE q = o
    BY <1>1, <1>3, <1>4, <2>2 DEF HeapOK
  <2>3. QED
    BY <2>1, <2>2
<1>6. QED
  BY <1>1, <1>5 DEF HeapOK, h2

\* A new object goes by the name it is made at.
LEMMA DescendOK ==
  ASSUME NEW w, w = [heap |-> w.heap, object |-> w.object], HeapOK(w.heap),
         w.object \in DOMAIN w.heap, w.object[2] # <<"$">>, NEW n \in InnerNames
  PROVE  LET d == Descend(w, n) IN
         /\ d = [heap |-> d.heap, object |-> d.object]
         /\ HeapOK(d.heap) /\ DOMAIN w.heap \subseteq DOMAIN d.heap
         /\ d.object \in DOMAIN d.heap /\ Mounted(n, d.object)
<1> DEFINE h == w.heap
           o == w.object
           v == Entry(h, Ref(o), n)
           new == <<o[1], Append(o[2], n)>>
           h1 == [h EXCEPT ![o] = Set(@, n, Ref(new))]
           h2 == Set(h1, new, NoEntry)
<1>1. v = IF n \in DOMAIN h[o] THEN h[o][n] ELSE Missing
  BY DEF Entry, Ref, IsRef, Missing
<1>2. Descend(w, n) = IF IsRef(v) THEN [w EXCEPT !.object = v[2]]
                      ELSE [heap |-> h2, object |-> new]
  BY DEF Descend
<1>3. CASE IsRef(v)
  <2>1. n \in DOMAIN h[o] /\ v = h[o][n]
    BY <1>1, <1>3 DEF IsRef
  <2>2. Mounted(n, v[2]) /\ v[2] \in DOMAIN h
    BY <2>1, <1>3 DEF HeapOK, Storable
  <2> HIDE DEF v
  <2>3. Descend(w, n) = [heap |-> h, object |-> v[2]]
    BY <1>2, <1>3
  <2>4. QED
    BY <2>2, <2>3
<1>4. CASE ~IsRef(v)
  <2> HIDE DEF v
  <2>1. Descend(w, n) = [heap |-> h2, object |-> new]
    BY <1>2, <1>4
  <2>2. PICK a \in Goroutine \cup {"config", "nil"}, p \in Seq(Names) : o = <<a, p>>
    BY DEF HeapOK
  <2>3. n \in Names /\ n # "parent" /\ n # "$"
    BY DEF Names, InnerNames
  <2>4. new = <<a, Append(p, n)>>
    BY <2>2
  <2>5. /\ Append(p, n) \in Seq(Names) /\ Append(p, n) # <<>> /\ Last(Append(p, n)) = n
        /\ Append(p, n) \notin InputPaths
        /\ Append(p, n) # p
    <3>1. Append(p, n) # p
      BY <2>3
    <3>2. QED
      BY <2>2, <2>3, <3>1, Extended DEF InputPaths
  <2>8. Mounted(n, new) /\ new # o
    BY <2>2, <2>4, <2>5 DEF Mounted
  <2> HIDE DEF new
  <2>9. DOMAIN h1 = DOMAIN h /\ DOMAIN h2 = DOMAIN h \cup {new} /\ DOMAIN NoEntry = {}
    BY DEF Set, NoEntry
  <2>10. /\ h2[new] = NoEntry
         /\ \A q \in DOMAIN h : q # new /\ q # o => h2[q] = h[q]
    BY DEF Set
  <2>11. /\ DOMAIN h2[o] = DOMAIN h[o] \cup {n}
         /\ \A m \in DOMAIN h2[o] : h2[o][m] = IF m = n THEN Ref(new) ELSE h[o][m]
    BY <2>8 DEF Set
  <2> HIDE DEF h1, h2
  <2>12. \A m, u : Storable(h, m, u) => Storable(h2, m, u)
    BY <2>9 DEF Storable
  <2>13. Storable(h2, n, Ref(new))
    BY <2>8, <2>9 DEF Storable, Ref, Missing
  <2>14. ASSUME NEW q \in DOMAIN h2, NEW m \in DOMAIN h2[q]
         PROVE  IF q[2] = <<"$">>
                THEN /\ h2[q][m] # Missing
                     /\ IsRef(h2[q][m]) =>
                          /\ m = "associations" /\ h2[q][m] = Ref(InputPart(q[1]))
                          /\ InputPart(q[1]) \in DOMAIN h2
                ELSE /\ Storable(h2, m, h2[q][m])
                     /\ q[2] = <<"$", "associations">> /\ m = "parent" /\ IsRef(h2[q][m])
                          => InputWritten
    <3>1. CASE q = new
      BY <3>1, <2>9, <2>10
    <3>2. CASE q = o
      BY <3>2, <2>3, <2>11, <2>12, <2>13 DEF HeapOK
    <3>3. CASE q # new /\ q # o
      <4>1. q \in DOMAIN h /\ h2[q] = h[q] /\ m \in DOMAIN h[q]
        BY <3>3, <2>9, <2>10
      <4>2. IF q[2] = <<"$">>
            THEN /\ h[q][m] # Missing
                 /\ IsRef(h[q][m]) =>
                      /\ m = "associations" /\ h[q][m] = Ref(InputPart(q[1]))
                      /\ InputPart(q[1]) \in DOMAIN h
            ELSE /\ Storable(h, m, h[q][m])
                 /\ q[2] = <<"$", "associations">> /\ m = "parent" /\ IsRef(h[q][m])
                      => InputWritten
        BY <4>1 DEF HeapOK
      <4>3. QED
        BY <4>1, <4>2, <2>9, <2>12
    <3>4. QED
      BY <3>1, <3>2, <3>3
  <2>15. HeapOK(h2)
    <3>1. new \in (Goroutine \cup {"config", "nil"}) \X Seq(Names)
      BY <2>2, <2>4, <2>5
    <3>2. QED
      BY <2>9, <2>14, <3>1 DEF HeapOK
  <2>16. QED
    BY <2>1, <2>8, <2>9, <2>15
<1>5. QED
  BY <1>3, <1>4

\* setPointer, from the root of a record down to the object that gets the value.
LEMMA SetPointerOK ==
  ASSUME NEW h, HeapOK(h), NEW g, Record(g) \in DOMAIN h,
         DOMAIN fields \subseteq ToSet(Sorted), NEW p \in DOMAIN fields,
         NEW v, Storable(h, Last(p), v), fields[p].expr = Part /\ IsRef(v) => InputWritten
  PROVE  HeapOK(SetPointer(h, g, p, v)) /\ DOMAIN h \subseteq DOMAIN SetPointer(h, g, p, v)
<1>1. /\ p \in Seq(Names) /\ Len(p) \in Nat \ {0}
      /\ \A k \in 1 .. Len(p) - 1 : p[k] \in InnerNames
      /\ \A k \in 1 .. Len(p) - 1 : p[k] = "associations" => p = Parent
      /\ \A k \in 1 .. Len(p) - 1 : p[k] = "extra" => p = ExtraParent
  BY InnerName
<1>2. PICK f : /\ f[0] = [heap |-> h, object |-> Record(g)]
               /\ \A k \in 1 .. Len(p) - 1 : f[k] = Descend(f[k - 1], p[k])
               /\ LET w == f[Len(p) - 1] IN
                  SetPointer(h, g, p, v) = [w.heap EXCEPT ![w.object] = Set(@, Last(p), v)]
  BY <1>1, SetPointerSteps
<1> DEFINE Fine(w) == /\ w = [heap |-> w.heap, object |-> w.object]
                      /\ HeapOK(w.heap) /\ DOMAIN h \subseteq DOMAIN w.heap
                      /\ w.object \in DOMAIN w.heap /\ w.object[2] # <<"$">>
           T == {k \in 0 .. Len(p) - 1 :
                   Fine(f[k]) /\ (k > 0 => Mounted(p[k], f[k].object))}
<1>3. 0 \in T
  <2>1. Fine(f[0])
    BY <1>2 DEF Record
  <2>2. QED
    BY <1>1, <2>1
<1>4. ASSUME NEW k \in 1 .. Len(p) - 1, k - 1 \in T PROVE k \in T
  <2>1. f[k] = Descend(f[k - 1], p[k]) /\ p[k] \in InnerNames
    BY <1>1, <1>2
  <2>2. Fine(f[k - 1])
    BY <1>4
  <2>3. /\ f[k] = [heap |-> f[k].heap, object |-> f[k].object]
        /\ HeapOK(f[k].heap) /\ DOMAIN f[k - 1].heap \subseteq DOMAIN f[k].heap
        /\ f[k].object \in DOMAIN f[k].heap /\ Mounted(p[k], f[k].object)
    BY <2>1, <2>2, DescendOK
  <2>4. QED
    BY <2>2, <2>3, MountedPath
<1> DEFINE w == f[Len(p) - 1]
<1>5. Fine(w) /\ (Len(p) > 1 => Mounted(p[Len(p) - 1], w.object))
  <2> HIDE DEF T
  <2>0. Len(p) - 1 \in Nat
    BY <1>1
  <2>1. 0 .. Len(p) - 1 \subseteq T
    BY <2>0, <1>3, <1>4, InductionTo
  <2>2. Len(p) - 1 \in T
    BY <1>1, <2>1
  <2>3. QED
    BY <1>1, <2>2 DEF T
<1>6. SetPointer(h, g, p, v) = [w.heap EXCEPT ![w.object] = Set(@, Last(p), v)]
  BY <1>2
<1>7. ASSUME w.object[2] = <<"$", "associations">>, Last(p) = "parent", IsRef(v)
      PROVE  InputWritten
  <2>1. p = Parent \/ p = ExtraParent
    BY <1>7, LastName
  <2>2. \/ p = Parent /\ p[Len(p) - 1] = "associations"
        \/ p = ExtraParent /\ p[Len(p) - 1] = "extra"
    <3>1. CASE p = Parent
      <4>1. Len(p) - 1 = 3 /\ p[3] = "associations"
        BY <3>1, PointerNames
      <4>2. QED
        BY <3>1, <4>1
    <3>2. CASE p = ExtraParent
      <4>1. Len(p) - 1 = 2 /\ p[2] = "extra"
        BY <3>2, PointerNames
      <4>2. QED
        BY <3>2, <4>1
    <3>3. QED
      BY <2>1, <3>1, <3>2
  <2>3. Mounted(p[Len(p) - 1], w.object)
    BY <2>1, <1>5, PointerNames
  <2>4. CASE Taken(p[Len(p) - 1], Whole)
    <3>1. PICK s \in DOMAIN fields : Last(s) = p[Len(p) - 1] /\ fields[s].expr = Whole
      BY <2>4 DEF Taken
    <3>2. \/ s = Associations /\ p = Parent
          \/ s = Extra /\ p = ExtraParent
      <4>1. s \in ToSet(Sorted)
        BY <3>1
      <4>2. CASE p = Parent /\ Last(s) = "associations"
        <5>1. s = Associations
          BY <4>1, <4>2, LastName
        <5>2. QED
          BY <4>2, <5>1
      <4>3. CASE p = ExtraParent /\ Last(s) = "extra"
        BY <4>1, <4>3, LastName
      <4>4. QED
        BY <2>2, <3>1, <4>2, <4>3
    <3>3. IsStrictPrefix(s, p)
      <4>1. CASE s = Associations /\ p = Parent
        BY <4>1, PointerPrefixes
      <4>2. CASE s = Extra /\ p = ExtraParent
        BY <4>2, PointerPrefixes
      <4>3. QED
        BY <3>2, <4>1, <4>2
    <3>4. CASE fields[p].expr = Part
      BY <3>4, <1>7
    <3>5. CASE fields[p].expr # Part
      BY <3>1, <3>3, <3>5 DEF InputWritten
    <3>6. QED
      BY <3>4, <3>5
  <2>5. CASE ~Taken(p[Len(p) - 1], Whole)
    BY <1>7, <2>3, <2>5 DEF Mounted, InputPaths, NilMap
  <2>6. QED
    BY <2>4, <2>5
<1>8. Storable(w.heap, Last(p), v)
  BY <1>5 DEF Storable
<1> HIDE DEF w
<1>9. QED
  BY <1>5, <1>6, <1>7, <1>8, Entered

\* Walks of one and of two steps.
LEMMA WalkOne ==
  ASSUME NEW h, NEW v, NEW n, NEW m
  PROVE  /\ Walk(h, v, <<n>>) = Entry(h, v, n)
         /\ Walk(h, v, <<n, m>>) = Entry(h, Entry(h, v, n), m)
<1> DEFINE S == {n, m}
<1>0. n \in S /\ m \in S
  OBVIOUS
<1> HIDE DEF S
<1>1. <<>> \in Seq(S) /\ <<n>> \in Seq(S) /\ <<n, m>> \in Seq(S)
  BY <1>0
<1>2. Append(<<>>, n) = <<n>>
  OBVIOUS
<1>3. Append(<<n>>, m) = <<n, m>>
  <2>1. Append(<<n>>, m) \in Seq(S)
    BY <1>1
  <2>2. Len(Append(<<n>>, m)) = 2 /\ Len(<<n, m>>) = 2
    BY <1>1
  <2>3. Append(<<n>>, m)[1] = n /\ Append(<<n>>, m)[2] = m
    BY <1>1
  <2>4. ASSUME NEW k \in 1 .. 2 PROVE Append(<<n>>, m)[k] = <<n, m>>[k]
    <3>1. k = 1 \/ k = 2
      OBVIOUS
    <3>2. QED
      BY <3>1, <2>3
  <2>5. QED
    BY <1>1, <2>1, <2>2, <2>4, SeqEqual
<1>4. ASSUME NEW p \in Seq(S), NEW k \in S, NEW q, q = Append(p, k)
      PROVE  Walk(h, v, q) = Entry(h, Walk(h, v, p), k)
  BY <1>4, WalkAppend
<1>5. Walk(h, v, <<n>>) = Entry(h, Walk(h, v, <<>>), n)
  BY <1>0, <1>1, <1>2, <1>4, Zenon
<1>6. Walk(h, v, <<n, m>>) = Entry(h, Walk(h, v, <<n>>), m)
  BY <1>0, <1>1, <1>3, <1>4, Zenon
<1>7. QED
  BY <1>5, <1>6, WalkEmpty

\* What a reference in an object leads to is mounted there.
LEMMA EntryOK ==
  ASSUME NEW h, HeapOK(h), NEW o \in DOMAIN h, o[2] # <<"$">>, NEW n,
         NEW v, v = Entry(h, Ref(o), n), IsRef(v)
  PROVE  /\ n \in DOMAIN h[o] /\ v = h[o][n] /\ v = Ref(v[2])
         /\ v[2] \in DOMAIN h /\ Mounted(n, v[2]) /\ v[2][2] # <<"$">>
<1>1. v = IF n \in DOMAIN h[o] THEN h[o][n] ELSE Missing
  BY DEF Entry, Ref, IsRef, Missing
<1>2. n \in DOMAIN h[o] /\ v = h[o][n]
  BY <1>1 DEF IsRef
<1>3. v = Ref(v[2]) /\ v[2] \in DOMAIN h /\ Mounted(n, v[2])
  BY <1>2 DEF HeapOK, Storable
<1>4. QED
  BY <1>2, <1>3, MountedPath

\* What an expression selects from the input.
LEMMA EvaluateIs ==
  ASSUME NEW h, NEW g, NEW e, DOMAIN e \subseteq 1 .. 2
  PROVE  \/ Evaluate(h, g, e) = Missing
         \/ \E i \in DOMAIN e : Evaluate(h, g, e) = Walk(h, Ref(InputOf(g)), e[i])
<1> DEFINE found == {i \in DOMAIN e : Walk(h, Ref(InputOf(g)), e[i]) # Missing}
           least == CHOOSE i \in found : \A j \in found : i <= j
<1>1. CASE found = {}
  BY <1>1 DEF Evaluate
<1>2. CASE found # {}
  <2>1. \E i \in found : \A j \in found : i <= j
    <3> found \subseteq 1 .. 2
      OBVIOUS
    <3> HIDE DEF found
    <3>1. CASE 1 \in found
      BY <3>1
    <3>2. CASE 1 \notin found
      <4>1. \A i \in found : i = 2
        BY <3>2
      <4>2. PICK i \in found : TRUE
        BY <1>2
      <4>3. \A j \in found : i <= j
        BY <4>1, <4>2
      <4>4. QED
        BY <4>2, <4>3
    <3>3. QED
      BY <3>1, <3>2
  <2>2. least \in found
    <3> HIDE DEF found
    <3>1. QED
      BY <2>1
  <2>3. Evaluate(h, g, e) = Walk(h, Ref(InputOf(g)), e[least])
    BY <1>2 DEF Evaluate
  <2> HIDE DEF least
  <2>4. QED
    BY <2>2, <2>3
<1>3. QED
  BY <1>1, <1>2

\* Whatever the other expressions, this is the object of an input.
LEMMA InputEntry ==
  ASSUME NEW h, HeapOK(h), NEW g, InputOf(g) \in DOMAIN h, NEW n,
         NEW v, v = Entry(h, Ref(InputOf(g)), n), IsRef(v)
  PROVE  n = "associations" /\ v = Ref(InputPart(g)) /\ InputPart(g) \in DOMAIN h
<1>1. v = IF n \in DOMAIN h[InputOf(g)] THEN h[InputOf(g)][n] ELSE Missing
  BY DEF Entry, Ref, IsRef, Missing
<1>2. n \in DOMAIN h[InputOf(g)] /\ v = h[InputOf(g)][n]
  BY <1>1 DEF IsRef
<1>3. InputOf(g)[1] = g /\ InputOf(g)[2] = <<"$">>
  BY DEF InputOf
<1>4. QED
  BY <1>2, <1>3 DEF HeapOK

\* What a field has set may be entered where its pointer ends. If it comes out
\* of the input's associations, it got there by way of a field below them.
LEMMA ValueOK ==
  ASSUME NEW h, HeapOK(h), NEW g \in Goroutine, InputOf(g) \in DOMAIN h,
         DOMAIN fields \subseteq ToSet(Sorted), fields \in [DOMAIN fields -> Field],
         NEW p \in DOMAIN fields, fields[p].expr # Broken,
         NEW v, v = ValueOf(h, g, fields, p), v # Missing
  PROVE  /\ Storable(h, Last(p), v)
         /\ fields[p].expr = Part /\ IsRef(v) => InputWritten
         /\ IsRef(v) => v[2] # NilMap
         /\ IsRef(v) /\ Separate(h) => v[2][1] \in {g, "config"}
<1> DEFINE e == fields[p].expr
           in == Ref(InputOf(g))
<1>w. ASSUME NEW n, NEW m
      PROVE  /\ Walk(h, in, <<n>>) = Entry(h, in, n)
             /\ Walk(h, in, <<n, m>>) = Entry(h, Entry(h, in, n), m)
  <2> HIDE DEF in
  <2>1. QED
    BY WalkOne
<1>1. p \in ToSet(Sorted) /\ fields[p] \in Field
  OBVIOUS
<1>2. e \in {NoExpr, NameOrId, Whole, Part}
      /\ fields[p].literal \in {"null", "text", "object"}
  BY <1>1 DEF Field
<1>3. NoExpr # Part /\ NameOrId # Part /\ Whole # Part /\ NameOrId # NoExpr
      /\ Whole # NoExpr /\ Whole # NameOrId
  BY DEF NoExpr, NameOrId, Whole, Part
<1>4. CASE e = NoExpr
  <2>1. CASE fields[p].literal = "object"
    <3>1. v = Ref(<<"config", p>>)
      BY <1>4, <2>1 DEF ValueOf
    <3>2. IsRef(v) /\ v[2] = <<"config", p>> /\ v = Ref(v[2]) /\ v[2] # NilMap
      BY <3>1 DEF IsRef, Ref, Missing, NilMap
    <3>3. v[2] \in DOMAIN h
      BY <2>1, <3>2 DEF HeapOK
    <3>4. Mounted(Last(p), v[2])
      BY <1>1, <3>2, InnerName DEF Mounted
    <3>5. QED
      BY <1>3, <1>4, <3>2, <3>3, <3>4 DEF Storable
  <2>2. CASE fields[p].literal # "object"
    <3>1. v = Text(fields[p].literal)
      BY <1>4, <2>2 DEF ValueOf
    <3>2. ~IsRef(v)
      BY <1>2, <3>1 DEF IsRef, Text
    <3>3. QED
      BY <3>2 DEF Storable
  <2>3. QED
    BY <2>1, <2>2
<1>5. ASSUME e # NoExpr, DOMAIN e \subseteq 1 .. 2
      PROVE  \E i \in DOMAIN e : v = Walk(h, in, e[i])
  <2>1. v = Evaluate(h, g, e)
    BY <1>5 DEF ValueOf
  <2> HIDE DEF e
  <2>2. QED
    BY <2>1, <1>5, EvaluateIs
<1>6. CASE e = NameOrId
  <2>1. e # NoExpr /\ DOMAIN e \subseteq 1 .. 2 /\ e[1] = <<"name">> /\ e[2] = <<"id">>
    BY <1>3, <1>6 DEF NameOrId
  <2>2. PICK i \in DOMAIN e : v = Walk(h, in, e[i])
    BY <1>5, <2>1
  <2>3. v = Entry(h, in, "name") \/ v = Entry(h, in, "id")
    <3>1. i = 1 \/ i = 2
      BY <2>1
    <3>3. v = Walk(h, in, <<"name">>) \/ v = Walk(h, in, <<"id">>)
      BY <2>1, <2>2, <3>1
    <3>4. /\ Walk(h, in, <<"name">>) = Entry(h, in, "name")
          /\ Walk(h, in, <<"id">>) = Entry(h, in, "id")
      BY <1>w
    <3>5. QED
      BY <3>3, <3>4
  <2>4. ~IsRef(v)
    BY <2>3, InputEntry
  <2>5. QED
    BY <2>4 DEF Storable
<1>7. ASSUME e \in {Whole, Part}
      PROVE  DOMAIN e = {1} /\ DOMAIN e \subseteq 1 .. 2 /\ e # NoExpr
  BY <1>3, <1>7 DEF Whole, Part
<1>8. CASE e = Whole
  <2>1. v = Walk(h, in, <<"associations">>)
    BY <1>5, <1>7, <1>8 DEF Whole
  <2>2. v = Entry(h, in, "associations")
    BY <2>1, <1>w
  <2>3. CASE IsRef(v)
    <3>1. v = Ref(InputPart(g)) /\ InputPart(g) \in DOMAIN h
      BY <2>2, <2>3, InputEntry
    <3>2. v[2] = InputPart(g) /\ v[2][2] = <<"$", "associations">> /\ v[2][1] = g
      BY <3>1 DEF Ref, InputPart
    <3>3. Taken(Last(p), Whole)
      BY <1>8 DEF Taken
    <3>4. v[2] # NilMap
      BY <3>2 DEF NilMap
    <3>5. QED
      BY <1>3, <1>8, <3>1, <3>2, <3>3, <3>4 DEF Storable, Mounted
  <2>4. CASE ~IsRef(v)
    BY <2>4 DEF Storable
  <2>5. QED
    BY <2>3, <2>4
<1>9. CASE e = Part
  <2>1. v = Walk(h, in, <<"associations", "parent">>)
    BY <1>5, <1>7, <1>9 DEF Part
  <2>2. v = Entry(h, Entry(h, in, "associations"), "parent")
    BY <2>1, <1>w
  <2>3. CASE IsRef(v)
    <3> DEFINE u == Entry(h, in, "associations")
    <3>1. IsRef(u)
      BY <2>2, <2>3 DEF Entry, IsRef
    <3>2. u = Ref(InputPart(g)) /\ InputPart(g) \in DOMAIN h
      BY <3>1, InputEntry
    <3>3. v = Entry(h, Ref(InputPart(g)), "parent")
      BY <2>2, <3>2
    <3>4. InputPart(g)[2] = <<"$", "associations">> /\ InputPart(g)[1] = g
          /\ InputPart(g)[2] # <<"$">>
      BY DEF InputPart
    <3> DEFINE o == InputPart(g)
    <3>5. /\ "parent" \in DOMAIN h[o] /\ v = h[o]["parent"] /\ v = Ref(v[2])
          /\ v[2] \in DOMAIN h /\ Mounted("parent", v[2])
      <4> HIDE DEF o
      <4>1. QED
        BY <2>3, <3>2, <3>3, <3>4, EntryOK DEF o
    <3>6. InputWritten
      BY <2>3, <3>2, <3>4, <3>5 DEF HeapOK
    <3>7. Taken(Last(p), Part)
      BY <1>9 DEF Taken
    <3>8. /\ \/ v[2][2] = <<"$", "associations">>
             \/ (v[2][2] # <<>> /\ Last(v[2][2]) = "parent")
          /\ v[2] # NilMap
      BY <3>5 DEF Mounted, NilMap
    <3>9. Mounted(Last(p), v[2])
      BY <3>6, <3>7, <3>8 DEF Mounted
    <3>10. Separate(h) => v[2][1] \in {g, "config"}
      BY <2>3, <3>2, <3>4, <3>5, <3>8 DEF Separate
    <3>11. QED
      BY <3>5, <3>6, <3>8, <3>9, <3>10 DEF Storable
  <2>4. CASE ~IsRef(v)
    BY <2>4 DEF Storable
  <2>5. QED
    BY <2>3, <2>4
<1>10. QED
  BY <1>2, <1>4, <1>6, <1>8, <1>9

-----------------------------------------------------------------------------
(* Whose objects a call comes by, when no literal is shared.                 *)

\* Only associations are ever a nil map.
LEMMA NilIsAssociations ==
  ASSUME NEW n, Mounted(n, NilMap)
  PROVE  n = "associations"
<1>1. NilMap[2] = <<>> /\ <<>> # <<"$", "associations">>
  BY DEF NilMap
<1>2. QED
  BY <1>1 DEF Mounted

\* Where an expression may find what another field wrote, it is known to.
LEMMA PartIsWritten ==
  ASSUME NEW n, Taken(n, Part), InputWritten
  PROVE  WritesIntoInput
<1>1. PICK s \in DOMAIN fields : fields[s].expr = Part
  BY DEF Taken
<1>2. PICK p, q \in DOMAIN fields :
        fields[p].expr = Whole /\ IsStrictPrefix(p, q) /\ fields[q].expr # Part
  BY DEF InputWritten
<1>3. Whole # Part
  BY DEF Whole, Part
<1>4. s \notin {p, q}
  BY <1>1, <1>2, <1>3
<1>5. QED
  BY <1>1, <1>2, <1>4 DEF WritesIntoInput

\* No literal is on the way down a pointer, and none is the record's own section.
LEMMA NotLiteral ==
  ASSUME ~SharedLiteral, DOMAIN fields \subseteq ToSet(Sorted),
         NEW q \in DOMAIN fields, fields[q].literal = "object"
  PROVE  /\ \A p \in DOMAIN fields : \A k \in 1 .. Len(p) - 1 :
              ~Mounted(p[k], <<"config", q>>)
         /\ ~Mounted("hronir", <<"config", q>>)
<1>1. /\ q \notin {Properties, Own} /\ ~WritesIntoInput
      /\ \A p \in DOMAIN fields : ~IsStrictPrefix(q, p)
  BY DEF SharedLiteral
<1>2. q \in ToSet(Sorted) /\ q # <<>> /\ q \notin InputPaths
  BY InnerName
<1>3. ASSUME NEW n, Mounted(n, <<"config", q>>) PROVE Last(q) = n
  <2>1. <<"config", q>>[2] = q /\ q # <<"$", "associations">> /\ <<"config", q>> # NilMap
    BY <1>2 DEF InputPaths, NilMap
  <2>2. ~(Taken(n, Part) /\ InputWritten)
    BY <1>1, PartIsWritten
  <2>3. QED
    BY <1>3, <2>1, <2>2 DEF Mounted
<1>4. ASSUME NEW p \in DOMAIN fields, NEW k \in 1 .. Len(p) - 1,
             Mounted(p[k], <<"config", q>>)
      PROVE  FALSE
  <2>1. Last(q) = p[k]
    BY <1>3, <1>4
  <2>2. /\ p \in ToSet(Sorted) /\ p[k] \in InnerNames
        /\ p[k] = "associations" => p = Parent
        /\ p[k] = "extra" => p = ExtraParent
    BY InnerName
  <2>3. CASE p[k] = "associations"
    <3>1. q = Associations /\ p = Parent
      BY <1>2, <2>1, <2>2, <2>3, LastName
    <3>2. QED
      BY <1>1, <3>1, PointerPrefixes
  <2>4. CASE p[k] = "extra"
    <3>1. q = Extra /\ p = ExtraParent
      BY <1>2, <2>1, <2>2, <2>4, LastName
    <3>2. QED
      BY <1>1, <3>1, PointerPrefixes
  <2>5. CASE p[k] = "properties" \/ p[k] = "connectedSystems"
    BY <1>1, <1>2, <2>1, <2>5, LastName
  <2>6. QED
    BY <2>2, <2>3, <2>4, <2>5 DEF InnerNames
<1>5. ASSUME Mounted("hronir", <<"config", q>>) PROVE FALSE
  <2>1. Last(q) = "hronir"
    BY <1>3, <1>5
  <2>2. QED
    BY <1>1, <1>2, <2>1, LastName
<1>6. QED
  BY <1>4, <1>5

\* The objects on the way down a pointer are the call's own, or a nil map.
LEMMA WayStep ==
  ASSUME ~SharedLiteral, DOMAIN fields \subseteq ToSet(Sorted),
         NEW h, HeapOK(h), Separate(h), NEW g \in Goroutine,
         NEW p \in DOMAIN fields, NEW k \in 1 .. Len(p) - 1,
         NEW o \in DOMAIN h, o[1] = g, o[2] # <<"$">>,
         NEW v, v = Entry(h, Ref(o), p[k]), IsRef(v)
  PROVE  /\ v[2] \in DOMAIN h /\ v[2][2] # <<"$">>
         /\ v[2][1] = g \/ (v[2] = NilMap /\ k = Len(p) - 1)
<1>1. /\ p[k] \in DOMAIN h[o] /\ v = h[o][p[k]]
      /\ v[2] \in DOMAIN h /\ Mounted(p[k], v[2]) /\ v[2][2] # <<"$">>
  BY EntryOK
<1>2. v[2][1] \in {g, "config"} \/ v[2] = NilMap
  BY <1>1 DEF Separate
<1>3. CASE v[2] = NilMap
  <2>1. p[k] = "associations"
    BY <1>1, <1>3, NilIsAssociations
  <2>2. QED
    BY <1>1, <1>3, <2>1, InnerName
<1>4. CASE v[2][1] = "config"
  <2>1. v[2][2] \in DOMAIN fields /\ fields[v[2][2]].literal = "object"
    BY <1>1, <1>4 DEF Separate
  <2>2. v[2] = <<"config", v[2][2]>>
    BY <1>1, <1>4 DEF HeapOK
  <2>3. QED
    BY <1>1, <2>1, <2>2, NotLiteral
<1>5. QED
  BY <1>1, <1>2, <1>3, <1>4

\* Going down from an object of g, setPointer stays with g's objects,
LEMMA DescendFrame ==
  ASSUME ~SharedLiteral, DOMAIN fields \subseteq ToSet(Sorted), NEW g \in Goroutine,
         NEW p \in DOMAIN fields, NEW k \in 1 .. Len(p) - 1,
         NEW w, w = [heap |-> w.heap, object |-> w.object],
         HeapOK(w.heap), Separate(w.heap),
         w.object \in DOMAIN w.heap, w.object[1] = g, w.object[2] # <<"$">>
  PROVE  LET d == Descend(w, p[k]) IN
         /\ Separate(d.heap)
         /\ d.object[1] = g \/ (d.object = NilMap /\ k = Len(p) - 1)
         /\ \A o \in DOMAIN w.heap : o[1] # g => d.heap[o] = w.heap[o]
<1> DEFINE n == p[k]
           h == w.heap
           o == w.object
           v == Entry(h, Ref(o), n)
           new == <<o[1], Append(o[2], n)>>
           h1 == [h EXCEPT ![o] = Set(@, n, Ref(new))]
           h2 == Set(h1, new, NoEntry)
<1>1. Descend(w, n) = IF IsRef(v) THEN [w EXCEPT !.object = v[2]]
                      ELSE [heap |-> h2, object |-> new]
  BY DEF Descend
<1>2. CASE IsRef(v)
  <2>1. v[2][1] = g \/ (v[2] = NilMap /\ k = Len(p) - 1)
    <3> HIDE DEF v
    <3>1. QED
      BY <1>2, WayStep DEF v
  <2> HIDE DEF v
  <2>2. Descend(w, n) = [heap |-> h, object |-> v[2]]
    BY <1>1, <1>2
  <2>3. QED
    BY <2>1, <2>2
<1>3. CASE ~IsRef(v)
  <2> HIDE DEF v
  <2>1. Descend(w, n) = [heap |-> h2, object |-> new]
    BY <1>1, <1>3
  <2>2. new[1] = g /\ Ref(new)[2] = new
    BY DEF Ref
  <2> HIDE DEF new
  <2>3. /\ DOMAIN h2 = DOMAIN h \cup {new} /\ DOMAIN NoEntry = {}
        /\ h2[new] = NoEntry
        /\ \A q \in DOMAIN h : q # new /\ q # o => h2[q] = h[q]
    BY DEF Set, NoEntry
  <2>4. o # new => /\ DOMAIN h2[o] = DOMAIN h[o] \cup {n}
                   /\ \A m \in DOMAIN h2[o] : h2[o][m] = IF m = n THEN Ref(new) ELSE h[o][m]
    BY DEF Set
  <2> HIDE DEF h1, h2
  <2>5. ASSUME NEW q \in DOMAIN h2, q[1] # "nil", NEW m \in DOMAIN h2[q], IsRef(h2[q][m])
        PROVE  h2[q][m][2][1] \in {q[1], "config"} \/ h2[q][m][2] = NilMap
    <3>1. CASE q = new
      BY <3>1, <2>3
    <3>2. CASE q # new /\ q = o
      BY <3>2, <2>2, <2>4, <2>5 DEF Separate
    <3>3. CASE q # new /\ q # o
      BY <3>3, <2>3, <2>5 DEF Separate
    <3>4. QED
      BY <3>1, <3>2, <3>3
  <2>6. g # "config"
    OBVIOUS
  <2>7. Separate(h2)
    BY <2>2, <2>3, <2>5, <2>6 DEF Separate
  <2>8. \A q \in DOMAIN h : q[1] # g => h2[q] = h[q]
    BY <2>2, <2>3
  <2>9. QED
    BY <2>1, <2>2, <2>7, <2>8
<1>4. QED
  BY <1>2, <1>3

\* setPointer changes no object of another call, but for a nil map.
LEMMA SetPointerFrame ==
  ASSUME ~SharedLiteral, DOMAIN fields \subseteq ToSet(Sorted), NEW g \in Goroutine,
         NEW h, HeapOK(h), Separate(h), Record(g) \in DOMAIN h, NEW p \in DOMAIN fields,
         NEW v, IsRef(v) => v[2][1] \in {g, "config"}
  PROVE  LET h2 == SetPointer(h, g, p, v) IN
         /\ Separate(h2)
         /\ \A o \in DOMAIN h : o[1] # g /\ o # NilMap => h2[o] = h[o]
<1>1. /\ p \in Seq(Names) /\ Len(p) \in Nat \ {0}
      /\ \A k \in 1 .. Len(p) - 1 : p[k] \in InnerNames
  BY InnerName
<1>2. PICK f : /\ f[0] = [heap |-> h, object |-> Record(g)]
               /\ \A k \in 1 .. Len(p) - 1 : f[k] = Descend(f[k - 1], p[k])
               /\ LET w == f[Len(p) - 1] IN
                  SetPointer(h, g, p, v) = [w.heap EXCEPT ![w.object] = Set(@, Last(p), v)]
  BY <1>1, SetPointerSteps
<1>0. NilMap \in DOMAIN h /\ NilMap[1] = "nil" /\ g # "nil" /\ g # "config"
  BY DEF HeapOK, NilMap
<1> DEFINE Fine(w) == /\ w = [heap |-> w.heap, object |-> w.object]
                      /\ HeapOK(w.heap) /\ Separate(w.heap)
                      /\ DOMAIN h \subseteq DOMAIN w.heap
                      /\ w.object \in DOMAIN w.heap /\ w.object[2] # <<"$">>
                      /\ \A o \in DOMAIN h : o[1] # g => w.heap[o] = h[o]
           T == {k \in 0 .. Len(p) - 1 :
                   /\ Fine(f[k])
                   /\ f[k].object[1] = g \/ (f[k].object = NilMap /\ k = Len(p) - 1)}
<1>3. 0 \in T
  <2>1. Fine(f[0]) /\ f[0].object[1] = g
    BY <1>2 DEF Record
  <2>2. QED
    BY <1>1, <2>1
<1>4. ASSUME NEW k \in 1 .. Len(p) - 1, k - 1 \in T PROVE k \in T
  <2>1. f[k] = Descend(f[k - 1], p[k]) /\ p[k] \in InnerNames
    BY <1>1, <1>2
  <2>2. Fine(f[k - 1]) /\ f[k - 1].object[1] = g
    BY <1>1, <1>4
  <2> HIDE DEF T
  <2>3. /\ f[k] = [heap |-> f[k].heap, object |-> f[k].object]
        /\ HeapOK(f[k].heap) /\ DOMAIN f[k - 1].heap \subseteq DOMAIN f[k].heap
        /\ f[k].object \in DOMAIN f[k].heap /\ Mounted(p[k], f[k].object)
    BY <2>1, <2>2, DescendOK
  <2>4. /\ Separate(f[k].heap)
        /\ f[k].object[1] = g \/ (f[k].object = NilMap /\ k = Len(p) - 1)
        /\ \A o \in DOMAIN f[k - 1].heap : o[1] # g => f[k].heap[o] = f[k - 1].heap[o]
    BY <2>1, <2>2, DescendFrame
  <2>5. f[k].object[2] # <<"$">>
    BY <2>3, MountedPath
  <2>6. Fine(f[k])
    BY <2>2, <2>3, <2>4, <2>5
  <2>7. QED
    BY <2>4, <2>6 DEF T
<1> DEFINE w == f[Len(p) - 1]
<1>5. Fine(w) /\ (w.object[1] = g \/ w.object = NilMap)
  <2> HIDE DEF T
  <2>0. Len(p) - 1 \in Nat
    BY <1>1
  <2>1. 0 .. Len(p) - 1 \subseteq T
    BY <2>0, <1>3, <1>4, InductionTo
  <2>2. Len(p) - 1 \in T
    BY <1>1, <2>1
  <2>3. QED
    BY <1>1, <2>2 DEF T
<1> DEFINE h2 == [w.heap EXCEPT ![w.object] = Set(@, Last(p), v)]
<1>6. SetPointer(h, g, p, v) = h2
  BY <1>2
<1> HIDE DEF w
<1>7. /\ DOMAIN h2 = DOMAIN w.heap
      /\ \A o \in DOMAIN w.heap : o # w.object => h2[o] = w.heap[o]
      /\ DOMAIN h2[w.object] = DOMAIN w.heap[w.object] \cup {Last(p)}
      /\ \A m \in DOMAIN h2[w.object] :
           h2[w.object][m] = IF m = Last(p) THEN v ELSE w.heap[w.object][m]
  BY <1>5 DEF Set
<1> HIDE DEF h2
<1>8. ASSUME NEW q \in DOMAIN h2, q[1] # "nil", NEW m \in DOMAIN h2[q], IsRef(h2[q][m])
      PROVE  h2[q][m][2][1] \in {q[1], "config"} \/ h2[q][m][2] = NilMap
  <2>1. CASE q = w.object
    BY <2>1, <1>0, <1>5, <1>7, <1>8 DEF Separate
  <2>2. CASE q # w.object
    BY <2>2, <1>5, <1>7, <1>8 DEF Separate
  <2>3. QED
    BY <2>1, <2>2
<1>9. Separate(h2)
  BY <1>5, <1>7, <1>8 DEF Separate
<1>10. \A o \in DOMAIN h : o[1] # g /\ o # NilMap => h2[o] = h[o]
  BY <1>5, <1>7
<1>11. QED
  BY <1>6, <1>9, <1>10

\* and so does deletePointer on its way.
LEMMA WalkFront ==
  ASSUME ~SharedLiteral, DOMAIN fields \subseteq ToSet(Sorted), NEW g \in Goroutine,
         NEW h, HeapOK(h), Separate(h), Record(g) \in DOMAIN h, NEW p \in DOMAIN fields,
         NEW v, v = Walk(h, Ref(Record(g)), Front(p)), IsRef(v)
  PROVE  v[2][1] = g \/ v[2] = NilMap
<1>1. /\ p \in Seq(Names) /\ Len(p) \in Nat \ {0}
      /\ \A k \in 1 .. Len(p) - 1 : p[k] \in InnerNames
  BY InnerName
<1>2. /\ Len(Front(p)) = Len(p) - 1 /\ Len(Front(p)) \in Nat
      /\ \A k \in 1 .. Len(p) - 1 : Front(p)[k] = p[k]
  <2>1. Front(p) = SubSeq(p, 1, Len(p) - 1)
    BY DEF Front
  <2>2. /\ Len(SubSeq(p, 1, Len(p) - 1)) = Len(p) - 1
        /\ \A k \in 1 .. Len(p) - 1 : SubSeq(p, 1, Len(p) - 1)[k] = p[k]
    <3> DEFINE n == Len(p) - 1
    <3>1. n \in Nat /\ \A i \in 1 .. n : p[i] \in Names
      BY <1>1
    <3> HIDE DEF n
    <3>2. /\ Len(SubSeq(p, 1, n)) = IF 1 <= n THEN n - 1 + 1 ELSE 0
          /\ \A i \in 1 .. n - 1 + 1 : SubSeq(p, 1, n)[i] = p[1 + i - 1]
      BY <3>1, SubSeqProperties
    <3>3. Len(SubSeq(p, 1, n)) = n /\ \A k \in 1 .. n : SubSeq(p, 1, n)[k] = p[k]
      BY <3>1, <3>2
    <3>4. QED
      BY <3>3 DEF n
  <2>3. QED
    BY <1>1, <2>1, <2>2
<1>3. PICK f : /\ f[0] = Ref(Record(g))
               /\ \A k \in 1 .. Len(p) - 1 : f[k] = Entry(h, f[k - 1], p[k])
               /\ v = f[Len(p) - 1]
  BY <1>2, WalkSteps
<1> DEFINE Mine(u, k) == /\ u = Ref(u[2]) /\ u[2] \in DOMAIN h /\ u[2][2] # <<"$">>
                         /\ u[2][1] = g \/ (u[2] = NilMap /\ k = Len(p) - 1)
           T == {k \in 0 .. Len(p) - 1 : IsRef(f[k]) => Mine(f[k], k)}
<1>4. 0 \in T
  <2>1. Record(g)[1] = g /\ Record(g)[2] # <<"$">> /\ Ref(Record(g))[2] = Record(g)
    BY DEF Record, Ref
  <2>2. Mine(f[0], 0)
    BY <1>3, <2>1
  <2>3. QED
    BY <1>1, <2>2
<1>5. ASSUME NEW k \in 1 .. Len(p) - 1, k - 1 \in T PROVE k \in T
  <2> SUFFICES ASSUME IsRef(f[k]) PROVE Mine(f[k], k)
    BY <1>1
  <2>1. f[k] = Entry(h, f[k - 1], p[k])
    BY <1>3
  <2>2. IsRef(f[k - 1])
    BY <2>1 DEF Entry, IsRef
  <2>3. Mine(f[k - 1], k - 1) /\ f[k - 1][2][1] = g
    BY <1>1, <1>5, <2>2
  <2> HIDE DEF T
  <2> DEFINE o == f[k - 1][2]
  <2>4. o \in DOMAIN h /\ o[1] = g /\ o[2] # <<"$">> /\ f[k] = Entry(h, Ref(o), p[k])
    BY <2>1, <2>3
  <2> HIDE DEF o
  <2>5. f[k] = Ref(f[k][2])
    BY <2>4, EntryOK
  <2>6. /\ f[k][2] \in DOMAIN h /\ f[k][2][2] # <<"$">>
        /\ f[k][2][1] = g \/ (f[k][2] = NilMap /\ k = Len(p) - 1)
    BY <2>4, WayStep
  <2>7. QED
    BY <2>5, <2>6
<1>6. Len(p) - 1 \in T
  <2> HIDE DEF T
  <2>1. Len(p) - 1 \in Nat
    BY <1>1
  <2>2. 0 .. Len(p) - 1 \subseteq T
    BY <2>1, <1>4, <1>5, InductionTo
  <2>3. QED
    BY <2>1, <2>2
<1>7. QED
  BY <1>3, <1>6

\* Removing a name leaves a heap in order,
LEMMA DeletePointerOK ==
  ASSUME NEW h, HeapOK(h), NEW g, NEW p
  PROVE  LET h2 == DeletePointer(h, g, p) IN
         /\ HeapOK(h2) /\ DOMAIN h2 = DOMAIN h
         /\ Separate(h) => Separate(h2)
<1> SUFFICES ASSUME NEW h2, h2 = DeletePointer(h, g, p)
             PROVE  HeapOK(h2) /\ DOMAIN h2 = DOMAIN h /\ (Separate(h) => Separate(h2))
  OBVIOUS
<1>1. /\ DOMAIN h2 = DOMAIN h
      /\ \A o \in DOMAIN h : /\ DOMAIN h2[o] \subseteq DOMAIN h[o]
                            /\ \A n \in DOMAIN h2[o] : h2[o][n] = h[o][n]
  BY DEF DeletePointer
<1>2. \A n, u : Storable(h, n, u) <=> Storable(h2, n, u)
  BY <1>1 DEF Storable
<1>3. HeapOK(h2)
  BY <1>1, <1>2 DEF HeapOK
<1>4. Separate(h) => Separate(h2)
  BY <1>1 DEF Separate
<1>5. QED
  BY <1>1, <1>3, <1>4

\* and the objects of others alone.
LEMMA DeletePointerFrame ==
  ASSUME ~SharedLiteral, DOMAIN fields \subseteq ToSet(Sorted), NEW g \in Goroutine,
         NEW h, HeapOK(h), Separate(h), Record(g) \in DOMAIN h, NEW p \in DOMAIN fields
  PROVE  \A o \in DOMAIN h : o[1] # g /\ o # NilMap => DeletePointer(h, g, p)[o] = h[o]
<1> DEFINE v == Walk(h, Ref(Record(g)), Front(p))
<1>1. IsRef(v) => v[2][1] = g \/ v[2] = NilMap
  <2> HIDE DEF v
  <2>1. QED
    BY WalkFront DEF v
<1>2. QED
  BY <1>1 DEF DeletePointer

\* One field leaves a heap that is all right, and changes only the objects of
\* its call and a nil map unless a literal is shared.
LEMMA AppliedOK ==
  ASSUME NEW g \in Goroutine, HeapOK(heap), Record(g) \in DOMAIN heap,
         InputOf(g) \in DOMAIN heap,
         DOMAIN fields \subseteq ToSet(Sorted), fields \in [DOMAIN fields -> Field],
         NEW p \in DOMAIN fields, fields[p].expr # Broken,
         NEW h2, h2 = Applied(g, p)
  PROVE  /\ HeapOK(h2) /\ DOMAIN heap \subseteq DOMAIN h2
         /\ ~SharedLiteral /\ Separate(heap) =>
              /\ Separate(h2)
              /\ \A o \in DOMAIN heap : o[1] # g /\ o # NilMap => h2[o] = heap[o]
<1> DEFINE v == ValueOf(heap, g, fields, p)
<1>1. CASE h2 = DeletePointer(heap, g, p)
  BY <1>1, DeletePointerOK, DeletePointerFrame
<1>2. CASE h2 = SetPointer(heap, g, p, v) /\ v # Missing
  <2> HIDE DEF v
  <2>1. /\ Storable(heap, Last(p), v)
        /\ fields[p].expr = Part /\ IsRef(v) => InputWritten
        /\ IsRef(v) /\ Separate(heap) => v[2][1] \in {g, "config"}
    BY <1>2, ValueOK DEF v
  <2>2. HeapOK(h2) /\ DOMAIN heap \subseteq DOMAIN h2
    BY <1>2, <2>1, SetPointerOK
  <2>3. ASSUME ~SharedLiteral, Separate(heap)
        PROVE  /\ Separate(h2)
               /\ \A o \in DOMAIN heap : o[1] # g /\ o # NilMap => h2[o] = heap[o]
    BY <1>2, <2>1, <2>3, SetPointerFrame
  <2>4. QED
    BY <2>2, <2>3
<1>3. QED
  BY <1>1, <1>2 DEF Applied

-----------------------------------------------------------------------------
(* What a record says.                                                       *)

\* A pointer is its front and its last name.
LEMMA SplitPointer ==
  ASSUME NEW p \in ToSet(Sorted)
  PROVE  Front(p) \in Seq(Names) /\ p = Append(Front(p), Last(p))
<1>1. p \in Seq(Names) /\ Len(p) \in Nat \ {0} /\ Last(p) = p[Len(p)]
  BY InnerName DEF Last
<1> DEFINE n == Len(p) - 1
<1>2. n \in Nat /\ \A i \in 1 .. n : p[i] \in Names
  BY <1>1
<1>3. Front(p) = SubSeq(p, 1, n)
  BY DEF Front
<1> HIDE DEF n
<1>4. /\ SubSeq(p, 1, n) \in Seq(Names)
      /\ Len(SubSeq(p, 1, n)) = IF 1 <= n THEN n - 1 + 1 ELSE 0
      /\ \A i \in 1 .. n - 1 + 1 : SubSeq(p, 1, n)[i] = p[1 + i - 1]
  BY <1>2, SubSeqProperties
<1> DEFINE s == SubSeq(p, 1, n)
<1>5. s \in Seq(Names) /\ Len(s) = n /\ \A i \in 1 .. n : s[i] = p[i]
  BY <1>2, <1>4
<1> HIDE DEF s
<1>6. Len(p) = n + 1 /\ p[n + 1] \in Names
  BY <1>1, <1>2 DEF n
<1> DEFINE t == Append(s, p[n + 1])
<1>7. t \in Seq(Names) /\ Len(t) = n + 1 /\ t[n + 1] = p[n + 1]
      /\ \A i \in 1 .. n : t[i] = p[i]
  BY <1>2, <1>5, <1>6
<1> HIDE DEF t
<1>8. ASSUME NEW i \in 1 .. n + 1 PROVE t[i] = p[i]
  <2>1. i = n + 1 \/ i \in 1 .. n
    BY <1>2
  <2>2. QED
    BY <1>7, <2>1
<1>9. t = p
  BY <1>1, <1>6, <1>7, <1>8, SeqEqual
<1>10. QED
  BY <1>1, <1>3, <1>5, <1>6, <1>9 DEF s, t

\* The record's own section is below the properties.
LEMMA OwnIs == Own = Append(Properties, "hronir")
<1>1. Own \in ToSet(Sorted) /\ Last(Own) = "hronir"
  BY Pointers, LastName
<1>2. Own = Append(Front(Own), "hronir") /\ Front(Own) \in Seq(Names)
  BY <1>1, SplitPointer, Zenon
<1>3. Front(Own) = SubSeq(Own, 1, 1)
  BY PointerNames DEF Front
<1>4. SubSeq(Own, 1, 1) = Properties
  <2>1. Own \in Seq(Names) /\ Len(Own) = 2 /\ Own[1] = "properties"
    BY PointerNames
  <2>2. /\ SubSeq(Own, 1, 1) \in Seq(Names) /\ Len(SubSeq(Own, 1, 1)) = 1
        /\ SubSeq(Own, 1, 1)[1] = "properties"
    BY <2>1
  <2>3. Properties \in Seq(Names) /\ Len(Properties) = 1 /\ Properties[1] = "properties"
    BY PointerNames
  <2>4. QED
    BY <2>2, <2>3, SeqEqual
<1>5. QED
  BY <1>2, <1>3, <1>4

\* The names a walk through a record passes before it comes to a hash.
LEMMA PlainPointer ==
  ASSUME NEW p \in ToSet(Sorted) \cup {Connected}
  PROVE  p \in Seq(Names \ {"sourceHash", "recordHash"})
<1>1. \/ p = Properties \/ p = Associations \/ p = Parent \/ p = Extra
      \/ p = ExtraParent \/ p = Own \/ p = Title \/ p = Connected
  BY Pointers
<1>2. CASE p = Properties
  BY <1>2 DEF Properties, Names
<1>3. CASE p = Associations
  BY <1>3 DEF Associations, Names
<1>4. CASE p = Parent
  BY <1>4 DEF Parent, Names
<1>5. CASE p = Extra
  BY <1>5 DEF Extra, Names
<1>6. CASE p = ExtraParent
  BY <1>6 DEF ExtraParent, Names
<1>7. CASE p = Own
  BY <1>7 DEF Own, Names
<1>8. CASE p = Title
  BY <1>8 DEF Title, Names
<1>9. CASE p = Connected
  BY <1>9 DEF Connected, Names
<1>10. QED
  BY <1>1, <1>2, <1>3, <1>4, <1>5, <1>6, <1>7, <1>8, <1>9

\* No path the hash looks at leads to the hashes, but through another field.
LEMMA VisiblePaths ==
  ASSUME NEW p \in Visible
  PROVE  /\ p \in Seq(Names)
         /\ p \notin Excluded =>
              \/ p \in Seq(Names \ {"sourceHash", "recordHash"})
              \/ \E q \in ToSet(Sorted) : q # Own /\ p = Append(q, "recordHash")
<1> DEFINE Plain == Names \ {"sourceHash", "recordHash"}
<1>1. /\ "label" \in Plain /\ "sourceId" \in Plain
      /\ "recordHash" \in Names /\ "sourceHash" \in Names /\ Plain \subseteq Names
  BY DEF Names
<1>2. \A q \in ToSet(Sorted) \cup {Connected} : q \in Seq(Plain) /\ q \in Seq(Names)
  BY <1>1, PlainPointer
<1>3. Own \in ToSet(Sorted)
  BY Pointers
<1> HIDE DEF Plain
<1>4. CASE p \in ToSet(Sorted) \cup {Connected}
  BY <1>2, <1>4 DEF Plain
<1>5. CASE \E q \in ToSet(Sorted) : p = Append(q, "label")
  <2>1. p \in Seq(Plain) /\ p \in Seq(Names)
    BY <1>1, <1>2, <1>5
  <2>2. QED
    BY <2>1 DEF Plain
<1>6. CASE \E q \in ToSet(Sorted) : p = Append(q, "recordHash")
  <2>1. p \in Seq(Names)
    BY <1>1, <1>2, <1>6
  <2>2. QED
    BY <2>1, <1>6 DEF Excluded
<1>7. CASE p = Append(Own, "sourceId")
  <2>1. p \in Seq(Plain) /\ p \in Seq(Names)
    BY <1>1, <1>2, <1>3, <1>7
  <2>2. QED
    BY <2>1 DEF Plain
<1>8. CASE p = Append(Own, "sourceHash")
  <2>1. p \in Seq(Names)
    BY <1>1, <1>2, <1>3, <1>8
  <2>2. QED
    BY <2>1, <1>8 DEF Excluded
<1>9. QED
  BY <1>4, <1>5, <1>6, <1>7, <1>8 DEF Visible

\* A walk down a record comes by objects that may be entered.
LEMMA WalkOK ==
  ASSUME NEW h, HeapOK(h), NEW g, Record(g) \in DOMAIN h, NEW p \in Seq(Names),
         NEW v, v = Walk(h, Ref(Record(g)), p), IsRef(v)
  PROVE  v = Ref(v[2]) /\ v[2] \in DOMAIN h /\ v[2][2] # <<"$">>
<1> DEFINE Values == {Missing, Ref(Record(g))} \cup UNION {Range(h[o]) : o \in DOMAIN h}
           T == {u \in Values : IsRef(u) => u = Ref(u[2]) /\ u[2] \in DOMAIN h
                                            /\ u[2][2] # <<"$">>}
<1>1. Ref(Record(g)) \in T
  BY DEF Record, Ref
<1>2. ASSUME NEW u \in T, NEW n \in Names PROVE Entry(h, u, n) \in T
  <2>1. CASE IsRef(u) /\ n \in DOMAIN h[u[2]]
    <3> DEFINE o == u[2]
               w == Entry(h, u, n)
    <3>1. u = Ref(o) /\ o \in DOMAIN h /\ o[2] # <<"$">> /\ w = h[o][n]
      BY <2>1 DEF Entry
    <3>2. w \in Values
      BY <2>1, <3>1 DEF Range
    <3> HIDE DEF o, w
    <3>3. IsRef(w) => w = Ref(w[2]) /\ w[2] \in DOMAIN h /\ w[2][2] # <<"$">>
      BY <3>1, EntryOK DEF w
    <3>4. QED
      BY <3>2, <3>3 DEF w
  <2>2. CASE ~(IsRef(u) /\ n \in DOMAIN h[u[2]])
    BY <2>2 DEF Entry, IsRef
  <2>3. QED
    BY <2>1, <2>2
<1> HIDE DEF T
<1>3. v \in T
  BY <1>1, <1>2, WalkIn
<1>4. QED
  BY <1>3 DEF T

\* What the walk finds under n may be mounted there.
LEMMA WalkMounted ==
  ASSUME NEW h, HeapOK(h), NEW g, Record(g) \in DOMAIN h,
         NEW p \in Seq(Names), NEW n \in Names,
         NEW v, v = Walk(h, Ref(Record(g)), Append(p, n)), IsRef(v)
  PROVE  v[2] \in DOMAIN h /\ Mounted(n, v[2])
<1> DEFINE u == Walk(h, Ref(Record(g)), p)
<1>1. v = Entry(h, u, n)
  BY WalkAppend
<1>2. IsRef(u)
  BY <1>1 DEF Entry, IsRef
<1> HIDE DEF u
<1>3. u = Ref(u[2]) /\ u[2] \in DOMAIN h /\ u[2][2] # <<"$">>
  BY <1>2, WalkOK DEF u
<1>4. v = Entry(h, Ref(u[2]), n)
  BY <1>1, <1>3
<1>5. QED
  BY <1>3, <1>4, EntryOK

\* When no literal is shared, a record lies in the objects of its call and of
\* the configuration, and says the same as long as those are not changed.
LEMMA WalkFrame ==
  ASSUME NEW g \in Goroutine, NEW h, HeapOK(h), Separate(h), h[NilMap] = NoEntry,
         Record(g) \in DOMAIN h, NEW p \in Seq(Names),
         NEW h2, \A o \in DOMAIN h : o[1] \in {g, "config"} \/ o = NilMap => h2[o] = h[o]
  PROVE  LET v == Walk(h, Ref(Record(g)), p) IN
         /\ Walk(h2, Ref(Record(g)), p) = v
         /\ IsRef(v) => v[2] \in DOMAIN h /\ (v[2][1] \in {g, "config"} \/ v[2] = NilMap)
<1> DEFINE Values == {Missing, Ref(Record(g))} \cup UNION {Range(h[o]) : o \in DOMAIN h}
           T == {u \in Values : IsRef(u) => /\ u[2] \in DOMAIN h
                                            /\ u[2][1] \in {g, "config"} \/ u[2] = NilMap}
<1>1. Ref(Record(g)) \in T
  BY DEF Record, Ref
<1>2. ASSUME NEW u \in T, NEW n \in Names
      PROVE  Entry(h, u, n) \in T /\ Entry(h2, u, n) = Entry(h, u, n)
  <2>1. CASE IsRef(u) /\ n \in DOMAIN h[u[2]]
    <3> DEFINE o == u[2]
               w == Entry(h, u, n)
    <3>1. /\ o \in DOMAIN h /\ h2[o] = h[o] /\ w = h[o][n] /\ Entry(h2, u, n) = w
          /\ o[1] \in {g, "config"} \/ o = NilMap
      BY <2>1 DEF Entry
    <3>2. w \in Values
      BY <2>1, <3>1 DEF Range
    <3>3. o # NilMap
      BY <2>1 DEF NoEntry
    <3>4. n \in DOMAIN h[o]
      BY <2>1
    <3> HIDE DEF o, w
    <3>5. IsRef(w) => /\ w[2] \in DOMAIN h
                      /\ w[2][1] \in {g, "config"} \/ w[2] = NilMap
      <4>1. o[1] # "nil" /\ (o[1] = g \/ o[1] = "config")
        BY <3>1, <3>3
      <4>2. IsRef(w) => w[2] \in DOMAIN h
        BY <3>1, <3>4 DEF HeapOK, Storable, Ref
      <4>3. IsRef(w) => w[2][1] \in {o[1], "config"} \/ w[2] = NilMap
        BY <3>1, <3>4, <4>1 DEF Separate
      <4>4. QED
        BY <4>1, <4>2, <4>3
    <3>6. QED
      BY <3>1, <3>2, <3>5 DEF w
  <2>2. CASE ~(IsRef(u) /\ n \in DOMAIN h[u[2]])
    BY <2>2 DEF Entry, IsRef
  <2>3. QED
    BY <2>1, <2>2
<1> HIDE DEF T
<1>3. Walk(h, Ref(Record(g)), p) \in T
  BY <1>1, <1>2, WalkIn
<1>4. Walk(h2, Ref(Record(g)), p) = Walk(h, Ref(Record(g)), p)
  BY <1>1, <1>2, WalkSame
<1>5. QED
  BY <1>3, <1>4 DEF T

\* A record says the same as long as its objects and the literals do.
LEMMA ContentFrame ==
  ASSUME NEW g \in Goroutine, NEW h, HeapOK(h), Separate(h), h[NilMap] = NoEntry,
         Record(g) \in DOMAIN h,
         NEW h2, \A o \in DOMAIN h : o[1] \in {g, "config"} \/ o = NilMap => h2[o] = h[o]
  PROVE  /\ Content(h2, g) = Content(h, g)
         /\ LET p == Append(Own, "recordHash") IN
            Walk(h2, Ref(Record(g)), p) = Walk(h, Ref(Record(g)), p)
<1>1. \A p \in Seq(Names) : Walk(h2, Ref(Record(g)), p) = Walk(h, Ref(Record(g)), p)
  BY WalkFrame
<1>2. \A p \in Visible : p \in Seq(Names)
  BY VisiblePaths
<1>3. Append(Own, "recordHash") \in Seq(Names)
  BY PointerNames DEF Names
<1>4. QED
  BY <1>1, <1>2, <1>3 DEF Content

\* The object of the record's own section is nowhere else in a record.
LEMMA OwnAlone ==
  ASSUME ~OwnIsShown, DOMAIN fields \subseteq ToSet(Sorted),
         NEW o, Mounted("hronir", o), NEW n, Mounted(n, o)
  PROVE  n = "hronir"
<1>1. Whole # Part
  BY DEF Whole, Part
<1>2. ASSUME NEW m, NEW e, Taken(m, e), m # "hronir", e \in {Whole, Part}
      PROVE  \E q \in DOMAIN fields \ {Own} : fields[q].expr \in {Whole, Part}
  <2>1. PICK q \in DOMAIN fields : Last(q) = m /\ fields[q].expr = e
    BY <1>2 DEF Taken
  <2>2. q # Own
    BY <1>2, <2>1, LastName
  <2>3. QED
    BY <1>2, <2>1, <2>2
<1>3. ASSUME NEW e, Taken("hronir", e)
      PROVE  Own \in DOMAIN fields /\ fields[Own].expr = e
  <2>1. PICK q \in DOMAIN fields : Last(q) = "hronir" /\ fields[q].expr = e
    BY <1>3 DEF Taken
  <2>2. q = Own
    BY <2>1, LastName
  <2>3. QED
    BY <2>1, <2>2
<1>4. Last(<<"$", "associations">>) = "associations" /\ <<"$", "associations">> # <<>>
  BY DEF Last
<1>5. ~(Taken("hronir", Part) /\ InputWritten)
  <2>1. SUFFICES ASSUME Taken("hronir", Part), InputWritten PROVE FALSE
    OBVIOUS
  <2>2. PICK q \in DOMAIN fields : fields[q].expr = Whole
    BY <2>1 DEF InputWritten
  <2>3. Own \in DOMAIN fields /\ fields[Own].expr = Part
    BY <2>1, <1>3
  <2>4. QED
    BY <1>1, <2>2, <2>3 DEF OwnIsShown
<1>6. CASE o[2] = <<"$", "associations">> /\ Taken("hronir", Whole)
  <2>1. SUFFICES ASSUME n # "hronir" PROVE FALSE
    OBVIOUS
  <2>2. Own \in DOMAIN fields /\ fields[Own].expr = Whole
    BY <1>3, <1>6
  <2>3. Taken(n, Whole) \/ Taken(n, Part)
    BY <1>6, <1>4 DEF Mounted, InputPaths, NilMap
  <2>4. \E q \in DOMAIN fields \ {Own} : fields[q].expr \in {Whole, Part}
    BY <1>2, <2>1, <2>3
  <2>5. QED
    BY <2>2, <2>4 DEF OwnIsShown
<1>7. CASE o[2] \notin InputPaths /\ o[2] # <<>> /\ Last(o[2]) = "hronir"
  <2>0. NilMap[2] = <<>>
    BY DEF NilMap
  <2>1. o[2] # <<"$", "associations">> /\ o # NilMap
    BY <1>7, <2>0 DEF InputPaths
  <2>2. "hronir" # "parent"
    OBVIOUS
  <2>3. QED
    BY <1>7, <2>1, <2>2, Zenon DEF Mounted
<1>8. QED
  BY <1>5, <1>6, <1>7 DEF Mounted, NilMap

WithHashes(h, o, hashes) == [h EXCEPT ![o] = Over(hashes, @)]

\* SetHashes puts two names into the record's own section and nothing else.
LEMMA SetHashesOK ==
  ASSUME NEW h, HeapOK(h), NEW g \in Goroutine, Record(g) \in DOMAIN h,
         DOMAIN fields \subseteq ToSet(Sorted),
         NEW own, own = Walk(h, Ref(Record(g)), Own), IsRef(own),
         NEW hashes, DOMAIN hashes = {"sourceHash", "recordHash"},
         \A n \in DOMAIN hashes : hashes[n] # Missing /\ ~IsRef(hashes[n]),
         NEW h2, h2 = WithHashes(h, own[2], hashes)
  PROVE  /\ own[2] \in DOMAIN h /\ Mounted("hronir", own[2])
         /\ HeapOK(h2) /\ DOMAIN h2 = DOMAIN h
         /\ Separate(h) => Separate(h2)
         /\ \A o \in DOMAIN h : o # own[2] => h2[o] = h[o]
         /\ ~OwnIsShown =>
              /\ \A p \in Visible \ Excluded :
                   Walk(h2, Ref(Record(g)), p) = Walk(h, Ref(Record(g)), p)
              /\ Semantic(Content(h2, g)) = Semantic(Content(h, g))
              /\ Walk(h2, Ref(Record(g)), Append(Own, "recordHash")) = hashes["recordHash"]
<1> DEFINE root == Ref(Record(g))
           o == own[2]
           Plain == Names \ {"sourceHash", "recordHash"}
<1>1. /\ "hronir" \in Names /\ "recordHash" \in Names
      /\ Properties \in Seq(Names) /\ Own \in Seq(Names)
  BY PointerNames DEF Names
<1>2. own = Ref(o) /\ o \in DOMAIN h /\ o[2] # <<"$">>
  BY <1>1, WalkOK
<1>3. Mounted("hronir", o)
  BY <1>1, OwnIs, WalkMounted
<1> HIDE DEF o
<1>4. /\ DOMAIN h2 = DOMAIN h
      /\ \A q \in DOMAIN h : q # o => h2[q] = h[q]
      /\ DOMAIN h2[o] = DOMAIN h[o] \cup DOMAIN hashes
      /\ \A n \in DOMAIN h2[o] : h2[o][n] = IF n \in DOMAIN hashes THEN hashes[n] ELSE h[o][n]
  <2>1. h2 = [h EXCEPT ![o] = Over(hashes, @)]
    BY DEF o, WithHashes
  <2>2. h2[o] = Over(hashes, h[o])
    BY <1>2, <2>1
  <2>3. /\ DOMAIN h2[o] = DOMAIN h[o] \cup DOMAIN hashes
        /\ \A n \in DOMAIN h2[o] :
             h2[o][n] = IF n \in DOMAIN hashes THEN hashes[n] ELSE h[o][n]
    BY <2>2 DEF Over
  <2>4. QED
    BY <2>1, <2>3
<1>5. \A n, u : Storable(h, n, u) <=> Storable(h2, n, u)
  BY <1>4 DEF Storable
<1>6. HeapOK(h2)
  <2>1. ASSUME NEW q \in DOMAIN h2, NEW n \in DOMAIN h2[q]
        PROVE  IF q[2] = <<"$">>
               THEN /\ h2[q][n] # Missing
                    /\ IsRef(h2[q][n]) =>
                         /\ n = "associations" /\ h2[q][n] = Ref(InputPart(q[1]))
                         /\ InputPart(q[1]) \in DOMAIN h2
               ELSE /\ Storable(h2, n, h2[q][n])
                    /\ q[2] = <<"$", "associations">> /\ n = "parent" /\ IsRef(h2[q][n])
                         => InputWritten
    <3>1. CASE q = o /\ n \in DOMAIN hashes
      BY <3>1, <1>2, <1>4 DEF Storable
    <3>2. CASE q # o \/ n \notin DOMAIN hashes
      <4>1. q \in DOMAIN h /\ n \in DOMAIN h[q] /\ h2[q][n] = h[q][n]
        BY <1>4, <3>2
      <4>2. IF q[2] = <<"$">>
            THEN /\ h[q][n] # Missing
                 /\ IsRef(h[q][n]) =>
                      /\ n = "associations" /\ h[q][n] = Ref(InputPart(q[1]))
                      /\ InputPart(q[1]) \in DOMAIN h
            ELSE /\ Storable(h, n, h[q][n])
                 /\ q[2] = <<"$", "associations">> /\ n = "parent" /\ IsRef(h[q][n])
                      => InputWritten
        BY <4>1 DEF HeapOK
      <4>3. QED
        BY <4>1, <4>2, <1>4, <1>5
    <3>3. QED
      BY <3>1, <3>2
  <2>2. QED
    BY <1>4, <2>1 DEF HeapOK
<1>7. ASSUME Separate(h) PROVE Separate(h2)
  <2>1. ASSUME NEW q \in DOMAIN h2, q[1] # "nil", NEW n \in DOMAIN h2[q], IsRef(h2[q][n])
        PROVE  h2[q][n][2][1] \in {q[1], "config"} \/ h2[q][n][2] = NilMap
    <3>1. q \in DOMAIN h /\ n \in DOMAIN h[q] /\ h2[q][n] = h[q][n]
      BY <1>4, <2>1
    <3>2. QED
      BY <2>1, <3>1, <1>7 DEF Separate
  <2>2. QED
    BY <1>4, <1>7, <2>1 DEF Separate
<1>8. ASSUME ~OwnIsShown
      PROVE  /\ \A p \in Visible \ Excluded : Walk(h2, root, p) = Walk(h, root, p)
             /\ Semantic(Content(h2, g)) = Semantic(Content(h, g))
             /\ Walk(h2, root, Append(Own, "recordHash")) = hashes["recordHash"]
  <2> DEFINE Values == {Missing, root} \cup UNION {Range(h[q]) : q \in DOMAIN h}
  <2>1. ASSUME NEW u \in Values, NEW n \in Plain, IsRef(u) => u[2] \in DOMAIN h
        PROVE  Entry(h, u, n) \in Values /\ Entry(h2, u, n) = Entry(h, u, n)
    <3>1. CASE ~IsRef(u)
      BY <3>1 DEF Entry
    <3>2. CASE IsRef(u)
      <4>1. n \in DOMAIN h2[u[2]] <=> n \in DOMAIN h[u[2]]
        BY <1>4, <2>1, <3>2
      <4>2. n \in DOMAIN h[u[2]] => h2[u[2]][n] = h[u[2]][n] /\ h[u[2]][n] \in Range(h[u[2]])
        BY <1>4, <2>1, <3>2, <4>1 DEF Range
      <4>3. QED
        BY <2>1, <3>2, <4>1, <4>2 DEF Entry
    <3>3. QED
      BY <3>1, <3>2
  <2> DEFINE T == {u \in Values : IsRef(u) => u[2] \in DOMAIN h}
  <2>2. root \in T
    BY DEF Record, Ref
  <2>3. ASSUME NEW u \in T, NEW n \in Plain
        PROVE  Entry(h, u, n) \in T /\ Entry(h2, u, n) = Entry(h, u, n)
    <3>1. Entry(h, u, n) \in Values /\ Entry(h2, u, n) = Entry(h, u, n)
      BY <2>1
    <3>2. IsRef(Entry(h, u, n)) => Entry(h, u, n)[2] \in DOMAIN h
      <4>1. ASSUME IsRef(Entry(h, u, n))
            PROVE  n \in DOMAIN h[u[2]] /\ Entry(h, u, n) = h[u[2]][n] /\ u[2] \in DOMAIN h
        BY <4>1 DEF Entry, IsRef
      <4>2. QED
        BY <4>1 DEF HeapOK, Storable, Ref
    <3>3. QED
      BY <3>1, <3>2
  <2> HIDE DEF T
  <2>4. ASSUME NEW p \in Seq(Plain) PROVE Walk(h2, root, p) = Walk(h, root, p)
    <3>1. \A u \in T : \A n \in Plain : Entry(h, u, n) \in T /\ Entry(h2, u, n) = Entry(h, u, n)
      BY <2>3
    <3> HIDE DEF root, Plain
    <3>2. p \in Seq(Plain)
      OBVIOUS
    <3>3. QED
      BY ONLY <2>2, <3>1, <3>2, WalkSame
  <2>5. ASSUME NEW q \in ToSet(Sorted), q # Own
        PROVE  LET p == Append(q, "recordHash") IN Walk(h2, root, p) = Walk(h, root, p)
    <3> DEFINE u == Walk(h, root, q)
    <3>1. Walk(h2, root, q) = u
      BY <2>4, PlainPointer
    <3>2. q \in Seq(Names) /\ Front(q) \in Seq(Names) /\ Last(q) \in Names
          /\ q = Append(Front(q), Last(q))
      BY InnerName, SplitPointer
    <3>3. /\ Walk(h2, root, Append(q, "recordHash")) = Entry(h2, u, "recordHash")
          /\ Walk(h, root, Append(q, "recordHash")) = Entry(h, u, "recordHash")
      <4> HIDE DEF root, u
      <4>1. QED
        BY <1>1, <3>1, <3>2, WalkAppend DEF u
    <3>4. IsRef(u) => u[2] \in DOMAIN h /\ u[2] # o
      <4>1. SUFFICES ASSUME IsRef(u) PROVE u[2] \in DOMAIN h /\ u[2] # o
        OBVIOUS
      <4>2. u = Walk(h, root, Append(Front(q), Last(q)))
        BY <3>2
      <4> HIDE DEF u
      <4>3. u[2] \in DOMAIN h /\ Mounted(Last(q), u[2])
        BY <3>2, <4>1, <4>2, WalkMounted
      <4>4. Last(q) # "hronir"
        BY <2>5, LastName
      <4>5. QED
        BY <1>3, <1>8, <4>3, <4>4, OwnAlone
    <3> HIDE DEF u
    <3>5. Entry(h2, u, "recordHash") = Entry(h, u, "recordHash")
      BY <1>4, <3>4 DEF Entry
    <3>6. QED
      BY <3>3, <3>5
  <2>6. ASSUME NEW p \in Visible \ Excluded PROVE Walk(h2, root, p) = Walk(h, root, p)
    BY <2>4, <2>5, VisiblePaths
  <2>7. Semantic(Content(h2, g)) = Semantic(Content(h, g))
    BY <2>6 DEF Semantic, Content
  <2>8. Walk(h2, root, Append(Own, "recordHash")) = hashes["recordHash"]
    <3>1. Walk(h2, root, Own) = own
      <4>1. Own \in Seq(Plain)
        BY Pointers, PlainPointer
      <4>2. QED
        BY <2>4, <4>1
    <3>2. Walk(h2, root, Append(Own, "recordHash")) = Entry(h2, own, "recordHash")
      <4> HIDE DEF root
      <4>1. QED
        BY <1>1, <3>1, WalkAppend
    <3>3. Entry(h2, own, "recordHash") = h2[o]["recordHash"]
      BY <1>2, <1>4 DEF Entry, o
    <3>4. QED
      BY <1>4, <3>2, <3>3
  <2>9. QED
    BY <2>6, <2>7, <2>8
<1>9. QED
  BY <1>2, <1>3, <1>4, <1>6, <1>7, <1>8 DEF o

-----------------------------------------------------------------------------
(* The objects NewRecord makes, as long as no field is for the properties.   *)

\* The pointer to be applied next is one, and parent never comes before associations.
LEMMA FirstOf ==
  ASSUME NEW P, P \subseteq ToSet(Sorted), P # {}
  PROVE  /\ First(P) \in P
         /\ Associations \in P => First(P) # Parent
         /\ \E i \in 1 .. 7 : First(P) = Sorted[i] /\ \A j \in 1 .. i - 1 : Sorted[j] \notin P
<1>1. /\ DOMAIN Sorted = 1 .. 7 /\ Sorted[1] = Properties /\ Sorted[2] = Associations
      /\ Sorted[3] = Parent /\ Sorted[4] = Extra /\ Sorted[5] = ExtraParent
      /\ Sorted[6] = Own /\ Sorted[7] = Title
  BY DEF Sorted
<1> DEFINE Least(i) == Sorted[i] \in P /\ \A j \in 1 .. i - 1 : Sorted[j] \notin P
           i0 == CHOOSE i \in DOMAIN Sorted : Least(i)
<1>2. \E i \in DOMAIN Sorted : Least(i)
  <2>1. PICK p \in P : p \in ToSet(Sorted)
    OBVIOUS
  <2>2. \E i \in 1 .. 7 : Sorted[i] \in P
    BY <1>1, <2>1, Pointers
  <2> DEFINE T == {n \in Nat : \A i \in 1 .. n : i \in 1 .. 7 => Sorted[i] \notin P}
  <2>3. SUFFICES ASSUME \A i \in 1 .. 7 : ~Least(i) PROVE FALSE
    BY <1>1
  <2>4. 0 \in T
    OBVIOUS
  <2>5. ASSUME NEW n \in Nat, n \in T PROVE n + 1 \in T
    BY <2>3, <2>5
  <2> HIDE DEF T
  <2>6. 7 \in T
    BY <2>4, <2>5, Induction
  <2>7. QED
    BY <2>2, <2>6 DEF T
<1>3. i0 \in DOMAIN Sorted /\ Least(i0)
  BY <1>2
<1>4. First(P) = Sorted[i0]
  BY DEF First
<1> HIDE DEF i0
<1>5. ASSUME First(P) = Parent PROVE Associations \notin P
  <2>1. i0 = 3
    <3>1. \/ i0 = 1 \/ i0 = 2 \/ i0 = 3 \/ i0 = 4 \/ i0 = 5 \/ i0 = 6 \/ i0 = 7
      BY <1>1, <1>3
    <3>2. Sorted[i0] = Parent
      BY <1>4, <1>5
    <3>3. /\ Parent # Properties /\ Parent # Associations /\ Parent # Extra
          /\ Parent # ExtraParent /\ Parent # Own /\ Parent # Title
      BY PointerNames
    <3>4. QED
      BY <1>1, <3>1, <3>2, <3>3
  <2>2. QED
    BY <1>1, <1>3, <2>1
<1>6. \E i \in 1 .. 7 : First(P) = Sorted[i] /\ \A j \in 1 .. i - 1 : Sorted[j] \notin P
  BY <1>1, <1>3, <1>4
<1>7. QED
  BY <1>3, <1>4, <1>5, <1>6

\* Looking up a name in an object.
LEMMA EntryIs ==
  ASSUME NEW h, NEW o, NEW n
  PROVE  Entry(h, Ref(o), n) = IF n \in DOMAIN h[o] THEN h[o][n] ELSE Missing
BY DEF Entry, Ref, IsRef, Missing

\* A reference is told from what is missing, and leads where it says.
LEMMA RefIs ==
  ASSUME NEW o
  PROVE  IsRef(Ref(o)) /\ Ref(o)[2] = o /\ Ref(o) # Missing /\ ~IsRef(Missing)
BY DEF IsRef, Ref, Missing

\* Where the objects of NewRecord would be made.
LEMMA MadeAt ==
  ASSUME NEW p \in Seq(Names), NEW n \in Names
  PROVE  /\ Append(p, n) # <<>>
         /\ Append(p, n) = Properties => n = "properties" /\ p = <<>>
         /\ Append(p, n) = Connected => n = "connectedSystems" /\ p = Properties
<1> SUFFICES ASSUME NEW q, q = Append(p, n)
             PROVE  /\ q # <<>>
                    /\ q = Properties => n = "properties" /\ p = <<>>
                    /\ q = Connected => n = "connectedSystems" /\ p = Properties
  OBVIOUS
<1>1. /\ Len(p) \in Nat /\ Len(q) = Len(p) + 1 /\ Len(p) = Len(q) - 1
      /\ q[Len(p) + 1] = n /\ \A k \in 1 .. Len(p) : q[k] = p[k]
  OBVIOUS
<1>2. q # <<>>
  BY <1>1
<1>3. ASSUME q = Properties PROVE n = "properties" /\ p = <<>>
  <2>1. Len(q) = 1 /\ q[1] = "properties"
    BY <1>3, PointerNames
  <2>2. Len(p) = 0
    BY <1>1, <2>1
  <2>3. QED
    BY <1>1, <2>1, <2>2
<1>4. ASSUME q = Connected PROVE n = "connectedSystems" /\ p = Properties
  <2>1. Len(q) = 2 /\ q[1] = "properties" /\ q[2] = "connectedSystems"
    BY <1>4, PointerNames
  <2>2. Len(p) = 1
    BY <1>1, <2>1
  <2>3. p[1] = "properties" /\ n = "connectedSystems"
    BY <1>1, <2>1, <2>2
  <2>4. Properties \in Seq(Names) /\ Len(Properties) = 1 /\ Properties[1] = "properties"
    BY PointerNames
  <2>5. QED
    BY <2>2, <2>3, <2>4, SeqEqual
<1>5. QED
  BY <1>2, <1>3, <1>4

\* Names that are not those of the objects of NewRecord may change.
LEMMA RootedKept ==
  ASSUME NEW h, NEW y, Rooted(h, y), NEW M, M \cap {"properties", "connectedSystems"} = {},
         "hronir" \in M => Own \in DOMAIN fields,
         NEW h2, DOMAIN h \subseteq DOMAIN h2,
         \A q \in DOMAIN h : q[1] = y =>
           \A n : n \notin M => Entry(h2, Ref(q), n) = Entry(h, Ref(q), n)
  PROVE  /\ Rooted(h2, y)
         /\ "associations" \notin M => NilAssociations(h2, y) = NilAssociations(h, y)
<1>1. /\ Record(y) \in DOMAIN h /\ <<y, Properties>> \in DOMAIN h /\ <<y, Connected>> \in DOMAIN h
      /\ Record(y)[1] = y /\ <<y, Properties>>[1] = y /\ <<y, Connected>>[1] = y
  BY DEF Rooted, Record
<1>2. /\ Entry(h2, Ref(Record(y)), "properties") = Entry(h, Ref(Record(y)), "properties")
      /\ LET o == <<y, Properties>> IN
         /\ Entry(h2, Ref(o), "connectedSystems") = Entry(h, Ref(o), "connectedSystems")
         /\ Own \notin DOMAIN fields => Entry(h2, Ref(o), "hronir") = Entry(h, Ref(o), "hronir")
      /\ "associations" \notin M =>
           LET o == <<y, Connected>> IN
           Entry(h2, Ref(o), "associations") = Entry(h, Ref(o), "associations")
  BY <1>1
<1>3. QED
  BY <1>1, <1>2 DEF Rooted, NilAssociations

\* Descend takes none of NewRecord's objects away,
LEMMA DescendRooted ==
  ASSUME NEW w, w = [heap |-> w.heap, object |-> w.object], HeapOK(w.heap),
         w.object \in DOMAIN w.heap, NEW n \in InnerNames,
         NEW y, Rooted(w.heap, y)
  PROVE  LET d == Descend(w, n) IN
         /\ Rooted(d.heap, y)
         /\ NilAssociations(d.heap, y) => NilAssociations(w.heap, y)
<1> DEFINE h == w.heap
           o == w.object
           v == Entry(h, Ref(o), n)
           new == <<o[1], Append(o[2], n)>>
           h1 == [h EXCEPT ![o] = Set(@, n, Ref(new))]
           h2 == Set(h1, new, NoEntry)
<1>1. Descend(w, n) = IF IsRef(v) THEN [w EXCEPT !.object = v[2]]
                      ELSE [heap |-> h2, object |-> new]
  BY DEF Descend
<1>2. CASE IsRef(v)
  <2> HIDE DEF v
  <2>1. Descend(w, n).heap = h
    BY <1>1, <1>2
  <2>2. QED
    BY <2>1
<1>3. CASE ~IsRef(v)
  <2>1. Descend(w, n).heap = h2
    BY <1>1, <1>3
  <2>2. PICK a \in Goroutine \cup {"config", "nil"}, p \in Seq(Names) : o = <<a, p>>
    BY DEF HeapOK
  <2>3. n \in Names
    BY DEF Names, InnerNames
  <2>4. new = <<a, Append(p, n)>>
    BY <2>2
  <2>5. new # Record(y)
    BY <2>2, <2>3, <2>4, MadeAt DEF Record
  <2>6. new # <<y, Properties>>
    <3>1. SUFFICES ASSUME new = <<y, Properties>> PROVE FALSE
      OBVIOUS
    <3>2. a = y /\ Append(p, n) = Properties
      BY <2>4, <3>1
    <3>3. n = "properties" /\ p = <<>>
      BY <2>2, <2>3, <3>2, MadeAt
    <3>4. v = Ref(<<y, Properties>>)
      BY <2>2, <3>2, <3>3 DEF Rooted, Record
    <3>5. QED
      BY <1>3, <3>4, RefIs
  <2>7. new # <<y, Connected>>
    <3>1. SUFFICES ASSUME new = <<y, Connected>> PROVE FALSE
      OBVIOUS
    <3>2. a = y /\ Append(p, n) = Connected
      BY <2>4, <3>1
    <3>3. n = "connectedSystems" /\ p = Properties
      BY <2>2, <2>3, <3>2, MadeAt
    <3>4. v = Ref(<<y, Connected>>)
      BY <2>2, <3>2, <3>3 DEF Rooted
    <3>5. QED
      BY <1>3, <3>4, RefIs
  <2>8. Ref(new) # Ref(NilMap)
    <3>1. new # NilMap
      BY <2>2, <2>3, <2>4, MadeAt DEF NilMap
    <3>2. QED
      BY <3>1, RefIs
  <2> HIDE DEF new
  <2>9. /\ DOMAIN h2 = DOMAIN h \cup {new}
        /\ \A q \in DOMAIN h : q # new /\ q # o => h2[q] = h[q]
        /\ o # new => h2[o] = Set(h[o], n, Ref(new))
    BY DEF Set
  <2> HIDE DEF h1, h2
  <2>10. ASSUME NEW q \in DOMAIN h, q # new, NEW m
         PROVE  Entry(h2, Ref(q), m) =
                  IF q = o /\ m = n THEN Ref(new) ELSE Entry(h, Ref(q), m)
    <3>1. CASE q = o
      <4>1. /\ DOMAIN h2[q] = DOMAIN h[q] \cup {n}
            /\ \A l \in DOMAIN h2[q] : h2[q][l] = IF l = n THEN Ref(new) ELSE h[q][l]
        BY <2>9, <2>10, <3>1 DEF Set
      <4>2. QED
        BY <3>1, <4>1, EntryIs
    <3>2. CASE q # o
      BY <2>9, <2>10, <3>2, EntryIs
    <3>3. QED
      BY <3>1, <3>2
  <2>11. ASSUME NEW q \in DOMAIN h, q # new, NEW m, IsRef(Entry(h, Ref(q), m))
         PROVE  Entry(h2, Ref(q), m) = Entry(h, Ref(q), m)
    BY <1>3, <2>10, <2>11
  <2>12. /\ Record(y) \in DOMAIN h /\ <<y, Properties>> \in DOMAIN h
         /\ <<y, Connected>> \in DOMAIN h
    BY DEF Rooted
  <2>13. Rooted(h2, y)
    <3>1. /\ IsRef(Entry(h, Ref(Record(y)), "properties"))
          /\ IsRef(Entry(h, Ref(<<y, Properties>>), "connectedSystems"))
      BY RefIs DEF Rooted
    <3>2. /\ Entry(h2, Ref(Record(y)), "properties") = Entry(h, Ref(Record(y)), "properties")
          /\ Entry(h2, Ref(<<y, Properties>>), "connectedSystems")
                = Entry(h, Ref(<<y, Properties>>), "connectedSystems")
      BY <2>5, <2>6, <2>11, <2>12, <3>1
    <3>3. Own \notin DOMAIN fields => IsRef(Entry(h2, Ref(<<y, Properties>>), "hronir"))
      BY <2>6, <2>11, <2>12 DEF Rooted
    <3>4. QED
      BY <2>9, <2>12, <3>2, <3>3 DEF Rooted
  <2>14. NilAssociations(h2, y) => NilAssociations(h, y)
    BY <2>7, <2>8, <2>10, <2>12 DEF NilAssociations
  <2>15. QED
    BY <2>1, <2>13, <2>14
<1>4. QED
  BY <1>2, <1>3

\* and ends in a nil map only where there is one.
LEMMA DescendObject ==
  ASSUME NEW w, w = [heap |-> w.heap, object |-> w.object], NilMap \in DOMAIN w.heap,
         w.object[2] \in Seq(Names), NEW n \in InnerNames, w.object # NilMap
  PROVE  LET d == Descend(w, n)
             v == Entry(w.heap, Ref(w.object), n)
         IN /\ d.heap[NilMap] = w.heap[NilMap]
            /\ IsRef(v) => d.object = v[2]
            /\ ~IsRef(v) => d.object # NilMap
<1> DEFINE h == w.heap
           o == w.object
           v == Entry(h, Ref(o), n)
           new == <<o[1], Append(o[2], n)>>
           h1 == [h EXCEPT ![o] = Set(@, n, Ref(new))]
           h2 == Set(h1, new, NoEntry)
<1>1. Descend(w, n) = IF IsRef(v) THEN [w EXCEPT !.object = v[2]]
                      ELSE [heap |-> h2, object |-> new]
  BY DEF Descend
<1> HIDE DEF v
<1>2. CASE IsRef(v)
  <2>1. Descend(w, n) = [heap |-> h, object |-> v[2]]
    BY <1>1, <1>2
  <2>2. QED
    BY <1>2, <2>1 DEF v
<1>3. CASE ~IsRef(v)
  <2>1. Descend(w, n) = [heap |-> h2, object |-> new]
    BY <1>1, <1>3
  <2>2. n \in Names
    BY DEF Names, InnerNames
  <2>3. new # NilMap
    BY <2>2, MadeAt DEF NilMap
  <2> HIDE DEF new
  <2>4. h2[NilMap] = h[NilMap]
    BY <2>3 DEF Set
  <2> HIDE DEF h2
  <2>5. QED
    BY <1>3, <2>1, <2>3, <2>4 DEF v
<1>4. QED
  BY <1>2, <1>3

\* The names that lead to a pointer.
LEMMA PointerSteps ==
  ASSUME NEW p \in ToSet(Sorted)
  PROVE  /\ \A k \in 1 .. Len(p) - 1 :
              /\ k \in {1, 2, 3} /\ p[1] = "properties"
              /\ k = 2 => p[2] = "connectedSystems" \/ p[2] = "extra"
              /\ k = 3 => p = Parent /\ p[2] = "connectedSystems" /\ p[3] = "associations"
         /\ p = Associations => Len(p) = 3 /\ p[2] = "connectedSystems"
<1>1. \/ p = Properties \/ p = Associations \/ p = Parent \/ p = Extra
      \/ p = ExtraParent \/ p = Own \/ p = Title
  BY Pointers
<1>2. p \in Seq(Names) /\ p[1] = "properties"
      /\ (Len(p) = 1 \/ Len(p) = 2 \/ Len(p) = 3 \/ Len(p) = 4)
  BY <1>1, PointerNames
<1>3. Len(p) = 3 => p = Associations \/ p = ExtraParent
  BY <1>1, PointerNames
<1>4. Len(p) = 4 => p = Parent
  BY <1>1, PointerNames
<1>5. /\ Associations[2] = "connectedSystems" /\ ExtraParent[2] = "extra"
      /\ Parent[2] = "connectedSystems" /\ Parent[3] = "associations"
      /\ Len(Associations) = 3
  BY PointerNames
<1>6. ASSUME NEW k \in 1 .. Len(p) - 1
      PROVE  /\ k \in {1, 2, 3}
             /\ k = 2 => p[2] = "connectedSystems" \/ p[2] = "extra"
             /\ k = 3 => p = Parent
  <2>0. \/ Len(p) = 1 /\ k \in 1 .. 0
        \/ Len(p) = 2 /\ k \in 1 .. 1
        \/ Len(p) = 3 /\ k \in 1 .. 2
        \/ Len(p) = 4 /\ k \in 1 .. 3
    <3>1. CASE Len(p) = 1
      BY <3>1
    <3>2. CASE Len(p) = 2
      BY <3>2
    <3>3. CASE Len(p) = 3
      BY <3>3
    <3>4. CASE Len(p) = 4
      BY <3>4
    <3>5. QED
      BY <1>2, <3>1, <3>2, <3>3, <3>4
  <2>1. k = 1 \/ k = 2 \/ k = 3
    BY <2>0
  <2>2. k = 3 => Len(p) = 4
    BY <2>0
  <2>3. k = 2 => Len(p) = 3 \/ Len(p) = 4
    BY <2>0
  <2>4. p = Associations \/ p = ExtraParent \/ p = Parent =>
          p[2] = "connectedSystems" \/ p[2] = "extra"
    BY <1>5
  <2>5. QED
    BY <1>3, <1>4, <2>1, <2>2, <2>3, <2>4
<1>7. QED
  BY <1>2, <1>5, <1>6

\* Where no field is for the properties, setPointer leaves what NewRecord made
\* in its place, finds it there, and does not come to a nil map.
LEMMA SetPointerRooted ==
  ASSUME NEW h, HeapOK(h), NEW g \in Goroutine, Record(g) \in DOMAIN h,
         DOMAIN fields \subseteq ToSet(Sorted), NEW p \in DOMAIN fields, p # Properties,
         NEW v, v # Ref(NilMap),
         NEW h2, h2 = SetPointer(h, g, p, v)
  PROVE  /\ \A y : Rooted(h, y) =>
              Rooted(h2, y) /\ (NilAssociations(h2, y) => NilAssociations(h, y))
         /\ Rooted(h, g) /\ (p = Parent => ~NilAssociations(h, g)) =>
              /\ h2[NilMap] = h[NilMap]
              /\ p = Associations => ~NilAssociations(h2, g)
<1>1. /\ p \in Seq(Names) /\ Len(p) \in Nat \ {0} /\ Last(p) \in Names
      /\ \A k \in 1 .. Len(p) - 1 :
           p[k] \in InnerNames /\ (p[k] = "associations" => k = Len(p) - 1)
  BY InnerName
<1>2. PICK f : /\ f[0] = [heap |-> h, object |-> Record(g)]
               /\ \A k \in 1 .. Len(p) - 1 : f[k] = Descend(f[k - 1], p[k])
               /\ LET w == f[Len(p) - 1] IN
                  SetPointer(h, g, p, v) = [w.heap EXCEPT ![w.object] = Set(@, Last(p), v)]
  BY <1>1, SetPointerSteps
<1> DEFINE Fine(w) ==
             /\ w = [heap |-> w.heap, object |-> w.object]
             /\ HeapOK(w.heap) /\ DOMAIN h \subseteq DOMAIN w.heap
             /\ w.object \in DOMAIN w.heap /\ w.object[2] # <<"$">>
             /\ \A y : Rooted(h, y) =>
                  Rooted(w.heap, y) /\ (NilAssociations(w.heap, y) => NilAssociations(h, y))
           Way(k, w) ==
             /\ k = 0 => w.object = Record(g)
             /\ k = 1 => w.object = <<g, Properties>>
             /\ k = 2 /\ p[2] = "connectedSystems" => w.object = <<g, Connected>>
             /\ w.object # NilMap /\ w.heap[NilMap] = h[NilMap]
           Start == Rooted(h, g) /\ (p = Parent => ~NilAssociations(h, g))
           T == {k \in 0 .. Len(p) - 1 :
                   /\ Fine(f[k]) /\ (k > 0 => Mounted(p[k], f[k].object))
                   /\ Start => Way(k, f[k])}
<1>0. g # "nil" /\ Record(g) # NilMap /\ Record(g)[2] # <<"$">> /\ NilMap \in DOMAIN h
  BY DEF Record, NilMap, HeapOK
<1>3. 0 \in T
  <2>1. Fine(f[0])
    BY <1>0, <1>2
  <2>2. Way(0, f[0])
    BY <1>0, <1>2
  <2>3. QED
    BY <1>1, <2>1, <2>2
<1>4. ASSUME NEW k \in 1 .. Len(p) - 1, k - 1 \in T PROVE k \in T
  <2>1. f[k] = Descend(f[k - 1], p[k]) /\ p[k] \in InnerNames
    BY <1>1, <1>2
  <2>2. Fine(f[k - 1]) /\ (Start => Way(k - 1, f[k - 1]))
    BY <1>1, <1>4
  <2> HIDE DEF T, Way
  <2>3. /\ f[k] = [heap |-> f[k].heap, object |-> f[k].object]
        /\ HeapOK(f[k].heap) /\ DOMAIN f[k - 1].heap \subseteq DOMAIN f[k].heap
        /\ f[k].object \in DOMAIN f[k].heap /\ Mounted(p[k], f[k].object)
    BY <2>1, <2>2, DescendOK
  <2>4. ASSUME NEW y, Rooted(h, y)
        PROVE  Rooted(f[k].heap, y) /\ (NilAssociations(f[k].heap, y) => NilAssociations(h, y))
    <3>1. /\ Rooted(f[k - 1].heap, y)
          /\ NilAssociations(f[k - 1].heap, y) => NilAssociations(h, y)
      BY <2>2, <2>4
    <3>2. /\ Rooted(f[k].heap, y)
          /\ NilAssociations(f[k].heap, y) => NilAssociations(f[k - 1].heap, y)
      BY <2>1, <2>2, <3>1, DescendRooted
    <3>3. QED
      BY <3>1, <3>2
  <2>5. f[k].object[2] # <<"$">>
    BY <2>3, MountedPath
  <2>6. Fine(f[k])
    BY <2>2, <2>3, <2>4, <2>5
  <2>7. ASSUME Start PROVE Way(k, f[k])
    <3> DEFINE w == f[k - 1]
               u == Entry(w.heap, Ref(w.object), p[k])
    <3>1. Way(k - 1, w) /\ Fine(w)
      BY <2>2, <2>7
    <3> HIDE DEF w
    <3>2. w.object # NilMap /\ w.heap[NilMap] = h[NilMap]
      BY <3>1 DEF Way
    <3>3. NilMap \in DOMAIN w.heap /\ w.object[2] \in Seq(Names)
      BY <3>1 DEF HeapOK
    <3>4. /\ f[k].heap[NilMap] = w.heap[NilMap]
          /\ IsRef(u) => f[k].object = u[2]
          /\ ~IsRef(u) => f[k].object # NilMap
      <4>1. f[k] = Descend(w, p[k])
        BY <2>1 DEF w
      <4>2. QED
        BY <2>1, <3>1, <3>2, <3>3, <4>1, DescendObject
    <3>5. Rooted(w.heap, g)
      BY <2>7, <3>1
    <3>6. /\ k \in {1, 2, 3} /\ p[1] = "properties"
          /\ k = 3 => p = Parent /\ p[2] = "connectedSystems" /\ p[3] = "associations"
      BY PointerSteps
    <3>7. ASSUME k = 1 PROVE f[k].object = <<g, Properties>>
      <4>1. w.object = Record(g)
        BY <3>1, <3>7 DEF Way
      <4>2. u = Ref(<<g, Properties>>)
        BY <3>5, <3>6, <3>7, <4>1 DEF Rooted
      <4>3. QED
        BY <3>4, <4>2, RefIs
    <3>8. ASSUME k = 2, p[2] = "connectedSystems" PROVE f[k].object = <<g, Connected>>
      <4>1. w.object = <<g, Properties>>
        BY <3>1, <3>8 DEF Way
      <4>2. u = Ref(<<g, Connected>>)
        BY <3>5, <3>8, <4>1 DEF Rooted
      <4>3. QED
        BY <3>4, <4>2, RefIs
    <3>9. f[k].object # NilMap
      <4>1. CASE k = 3
        <5>1. w.object = <<g, Connected>> /\ p = Parent /\ p[k] = "associations"
          BY <3>1, <3>6, <4>1 DEF Way
        <5>2. ~NilAssociations(w.heap, g)
          BY <2>7, <3>1, <5>1
        <5>3. u # Ref(NilMap)
          BY <5>1, <5>2 DEF NilAssociations
        <5>4. CASE IsRef(u)
          <6>1. u = Ref(u[2])
            <7> HIDE DEF u
            <7>1. QED
              BY <3>1, <5>4, EntryOK DEF u
          <6>2. QED
            BY <3>4, <5>3, <5>4, <6>1
        <5>5. QED
          BY <3>4, <5>4
      <4>2. CASE k # 3
        <5>1. p[k] # "associations"
          <6>1. k = 1 \/ k = 2
            BY <3>6, <4>2
          <6>2. k = 2 => p[2] = "connectedSystems" \/ p[2] = "extra"
            BY PointerSteps
          <6>3. QED
            BY <3>6, <6>1, <6>2
        <5>2. QED
          BY <2>3, <5>1, NilIsAssociations
      <4>3. QED
        BY <4>1, <4>2
    <3>10. QED
      BY <3>2, <3>4, <3>7, <3>8, <3>9 DEF Way
  <2>8. QED
    BY <2>3, <2>6, <2>7 DEF T
<1> DEFINE w == f[Len(p) - 1]
<1>5. Fine(w) /\ (Start => Way(Len(p) - 1, w))
  <2> HIDE DEF T
  <2>0. Len(p) - 1 \in Nat
    BY <1>1
  <2>1. 0 .. Len(p) - 1 \subseteq T
    BY <2>0, <1>3, <1>4, InductionTo
  <2>2. Len(p) - 1 \in T
    BY <1>1, <2>1
  <2>3. QED
    BY <1>1, <2>2 DEF T
<1>6. h2 = [w.heap EXCEPT ![w.object] = Set(@, Last(p), v)]
  BY <1>2
<1> HIDE DEF w
<1>7. /\ DOMAIN h2 = DOMAIN w.heap
      /\ \A q \in DOMAIN w.heap : q # w.object => h2[q] = w.heap[q]
      /\ h2[w.object] = Set(w.heap[w.object], Last(p), v)
  BY <1>5, <1>6
<1>8. ASSUME NEW q \in DOMAIN w.heap, NEW n
      PROVE  Entry(h2, Ref(q), n) =
               IF q = w.object /\ n = Last(p) THEN v ELSE Entry(w.heap, Ref(q), n)
  <2>1. CASE q = w.object
    <3>1. /\ DOMAIN h2[q] = DOMAIN w.heap[q] \cup {Last(p)}
          /\ \A m \in DOMAIN h2[q] : h2[q][m] = IF m = Last(p) THEN v ELSE w.heap[q][m]
      BY <1>7, <2>1 DEF Set
    <3>2. QED
      BY <2>1, <3>1, EntryIs
  <2>2. CASE q # w.object
    BY <1>7, <2>2, EntryIs
  <2>3. QED
    BY <2>1, <2>2
<1>9. /\ {Last(p)} \cap {"properties", "connectedSystems"} = {}
      /\ "hronir" \in {Last(p)} => Own \in DOMAIN fields
  BY LastName
<1>10. ASSUME NEW y, Rooted(h, y)
       PROVE  Rooted(h2, y) /\ (NilAssociations(h2, y) => NilAssociations(h, y))
  <2>1. Rooted(w.heap, y) /\ (NilAssociations(w.heap, y) => NilAssociations(h, y))
    BY <1>5, <1>10
  <2>2. Rooted(h2, y)
    <3> DEFINE M == {Last(p)}
    <3>1. \A q \in DOMAIN w.heap : q[1] = y =>
            \A n : n \notin M => Entry(h2, Ref(q), n) = Entry(w.heap, Ref(q), n)
      BY <1>8
    <3> HIDE DEF M
    <3>2. DOMAIN w.heap \subseteq DOMAIN h2
      BY <1>7
    <3>3. /\ M \cap {"properties", "connectedSystems"} = {}
          /\ "hronir" \in M => Own \in DOMAIN fields
      BY <1>9 DEF M
    <3>4. QED
      BY <2>1, <3>1, <3>2, <3>3, RootedKept
  <2>3. NilAssociations(h2, y) => NilAssociations(w.heap, y)
    <3>1. <<y, Connected>> \in DOMAIN w.heap
      BY <2>1 DEF Rooted
    <3>2. QED
      BY <1>8, <3>1 DEF NilAssociations
  <2>4. QED
    BY <2>1, <2>2, <2>3
<1>11. ASSUME Start
       PROVE  h2[NilMap] = h[NilMap] /\ (p = Associations => ~NilAssociations(h2, g))
  <2>1. Way(Len(p) - 1, w)
    BY <1>5, <1>11
  <2>2. h2[NilMap] = h[NilMap]
    BY <1>0, <1>5, <1>7, <2>1
  <2>3. ASSUME p = Associations PROVE ~NilAssociations(h2, g)
    <3>1. Len(p) - 1 = 2 /\ p[2] = "connectedSystems"
      BY <2>3, PointerSteps
    <3>2. w.object = <<g, Connected>>
      BY <2>1, <3>1
    <3>3. Last(p) = "associations"
      BY <2>3, LastName
    <3>4. Entry(h2, Ref(<<g, Connected>>), "associations") = v
      BY <1>5, <1>8, <3>2, <3>3
    <3>5. QED
      BY <3>4 DEF NilAssociations
  <2>4. QED
    BY <2>2, <2>3
<1>12. QED
  BY <1>10, <1>11

\* Nor does DeletePointer.
LEMMA DeletePointerRooted ==
  ASSUME NEW h, NilMap \in DOMAIN h, NEW g,
         DOMAIN fields \subseteq ToSet(Sorted), NEW p \in DOMAIN fields, p # Properties,
         NEW h2, h2 = DeletePointer(h, g, p)
  PROVE  /\ \A y : Rooted(h, y) =>
              Rooted(h2, y) /\ (NilAssociations(h2, y) => NilAssociations(h, y))
         /\ h[NilMap] = NoEntry => h2[NilMap] = NoEntry
         /\ Rooted(h, g) /\ p = Associations => ~NilAssociations(h2, g)
<1> DEFINE v == Walk(h, Ref(Record(g)), Front(p))
           M == {Last(p)}
<1>1. h2 = IF IsRef(v) THEN [h EXCEPT ![v[2]] = [n \in DOMAIN @ \ {Last(p)} |-> @[n]]] ELSE h
  BY DEF DeletePointer
<1> HIDE DEF v
<1>2. DOMAIN h2 = DOMAIN h
  BY <1>1
<1>3. ASSUME NEW q \in DOMAIN h, NEW n
      PROVE  Entry(h2, Ref(q), n) =
               IF IsRef(v) /\ q = v[2] /\ n = Last(p) THEN Missing ELSE Entry(h, Ref(q), n)
  <2>1. CASE IsRef(v) /\ q = v[2]
    <3>1. h2[q] = [m \in DOMAIN h[q] \ {Last(p)} |-> h[q][m]]
      BY <1>1, <2>1
    <3>2. QED
      BY <2>1, <3>1, EntryIs
  <2>2. CASE ~(IsRef(v) /\ q = v[2])
    <3>1. h2[q] = h[q]
      BY <1>1, <2>2
    <3>2. QED
      BY <2>2, <3>1, EntryIs
  <2>3. QED
    BY <2>1, <2>2
<1>4. /\ M \cap {"properties", "connectedSystems"} = {}
      /\ "hronir" \in M => Own \in DOMAIN fields
  BY LastName
<1>5. ASSUME NEW y, Rooted(h, y)
      PROVE  Rooted(h2, y) /\ (NilAssociations(h2, y) => NilAssociations(h, y))
  <2>1. \A q \in DOMAIN h : q[1] = y =>
          \A n : n \notin M => Entry(h2, Ref(q), n) = Entry(h, Ref(q), n)
    BY <1>3
  <2> HIDE DEF M
  <2>2. Rooted(h2, y)
    BY <1>2, <1>4, <1>5, <2>1, RootedKept
  <2>3. <<y, Connected>> \in DOMAIN h
    BY <1>5 DEF Rooted
  <2>4. NilAssociations(h2, y) => NilAssociations(h, y)
    BY <1>3, <2>3, RefIs DEF NilAssociations
  <2>5. QED
    BY <2>2, <2>4
<1>6. h[NilMap] = NoEntry => h2[NilMap] = NoEntry
  <2>1. SUFFICES ASSUME h[NilMap] = NoEntry PROVE h2[NilMap] = NoEntry
    OBVIOUS
  <2>2. CASE IsRef(v) /\ v[2] = NilMap
    <3>1. h2[NilMap] = [n \in DOMAIN h[NilMap] \ {Last(p)} |-> h[NilMap][n]]
      BY <1>1, <2>2
    <3>2. DOMAIN h[NilMap] = {}
      BY <2>1 DEF NoEntry
    <3>3. QED
      BY <3>1, <3>2 DEF NoEntry
  <2>3. CASE ~(IsRef(v) /\ v[2] = NilMap)
    BY <1>1, <2>1, <2>3
  <2>4. QED
    BY <2>2, <2>3
<1>7. ASSUME Rooted(h, g), p = Associations PROVE ~NilAssociations(h2, g)
  <2>1. Front(p) = <<"properties", "connectedSystems">>
    <3>1. Associations = <<"properties", "connectedSystems", "associations">>
      BY DEF Associations
    <3>2. Front(p) = SubSeq(Associations, 1, 2)
      BY <1>7, PointerNames DEF Front
    <3>3. Associations \in Seq(Names) /\ Len(Associations) = 3
      BY PointerNames
    <3>4. /\ SubSeq(Associations, 1, 2) \in Seq(Names) /\ Len(SubSeq(Associations, 1, 2)) = 2
          /\ SubSeq(Associations, 1, 2)[1] = Associations[1]
          /\ SubSeq(Associations, 1, 2)[2] = Associations[2]
      <4>1. \A i \in 1 .. 2 : Associations[i] \in Names
        BY PointerNames DEF Names
      <4>2. /\ SubSeq(Associations, 1, 2) \in Seq(Names)
            /\ Len(SubSeq(Associations, 1, 2)) = IF 1 <= 2 THEN 2 - 1 + 1 ELSE 0
            /\ \A i \in 1 .. 2 - 1 + 1 : SubSeq(Associations, 1, 2)[i] = Associations[1 + i - 1]
        BY <4>1, SubSeqProperties
      <4>3. QED
        BY <4>2
    <3>5. Connected \in Seq(Names) /\ Len(Connected) = 2
      BY PointerNames
    <3>6. ASSUME NEW k \in 1 .. 2 PROVE SubSeq(Associations, 1, 2)[k] = Connected[k]
      <4>1. k = 1 \/ k = 2
        OBVIOUS
      <4>2. QED
        BY <3>4, <4>1, PointerNames
    <3>7. SubSeq(Associations, 1, 2) = Connected
      BY <3>4, <3>5, <3>6, SeqEqual
    <3>8. QED
      BY <3>2, <3>7 DEF Connected
  <2>2. v = Entry(h, Entry(h, Ref(Record(g)), "properties"), "connectedSystems")
    <3> DEFINE root == Ref(Record(g))
    <3> HIDE DEF root
    <3>1. ASSUME NEW n, NEW m
          PROVE  /\ Walk(h, root, <<n>>) = Entry(h, root, n)
                 /\ Walk(h, root, <<n, m>>) = Entry(h, Entry(h, root, n), m)
      BY WalkOne
    <3>2. v = Walk(h, root, <<"properties", "connectedSystems">>)
      BY <2>1 DEF root, v
    <3>3. QED
      BY <3>1, <3>2 DEF root
  <2>3. v = Ref(<<g, Connected>>) /\ <<g, Connected>> \in DOMAIN h
    BY <1>7, <2>2 DEF Rooted
  <2>4. Last(p) = "associations"
    BY <1>7, LastName
  <2>5. Entry(h2, Ref(<<g, Connected>>), "associations") = Missing
    BY <1>3, <2>3, <2>4, RefIs
  <2>6. QED
    BY <2>5, RefIs DEF NilAssociations
<1>8. QED
  BY <1>5, <1>6, <1>7

\* One field of a call of g, where none is for the properties as a whole.
LEMMA AppliedRooted ==
  ASSUME NEW g \in Goroutine, HeapOK(heap), Record(g) \in DOMAIN heap,
         InputOf(g) \in DOMAIN heap,
         DOMAIN fields \subseteq ToSet(Sorted), fields \in [DOMAIN fields -> Field],
         NEW p \in DOMAIN fields, p # Properties, fields[p].expr # Broken,
         NEW h2, h2 = Applied(g, p)
  PROVE  /\ \A y : Rooted(heap, y) =>
              Rooted(h2, y) /\ (NilAssociations(h2, y) => NilAssociations(heap, y))
         /\ Rooted(heap, g) /\ (p = Parent => ~NilAssociations(heap, g))
               /\ heap[NilMap] = NoEntry =>
              /\ h2[NilMap] = NoEntry
              /\ p = Associations => ~NilAssociations(h2, g)
<1> DEFINE v == ValueOf(heap, g, fields, p)
<1>1. NilMap \in DOMAIN heap
  BY DEF HeapOK
<1>2. CASE h2 = DeletePointer(heap, g, p)
  BY <1>1, <1>2, DeletePointerRooted
<1>3. CASE h2 = SetPointer(heap, g, p, v) /\ v # Missing
  <2> HIDE DEF v
  <2>1. v # Ref(NilMap)
    <3>1. IsRef(v) => v[2] # NilMap
      BY <1>3, ValueOK DEF v
    <3>2. QED
      BY <3>1, RefIs
  <2>2. QED
    BY <1>3, <2>1, SetPointerRooted
<1>4. QED
  BY <1>2, <1>3 DEF Applied

-----------------------------------------------------------------------------
(* The beginning and the end of a call.                                      *)

\* The objects of a new record and of its input, and where they refer to.
LEMMA NewObjects ==
  ASSUME NEW g, NEW r
  PROVE  /\ DOMAIN NewRecord(g, r) =
              {Record(g), <<g, Properties>>, <<g, Connected>>, <<g, Associations>>, <<g, Own>>}
         /\ NewRecord(g, r)[Record(g)] = [properties |-> Ref(<<g, Properties>>)]
         /\ NewRecord(g, r)[<<g, Properties>>] =
              [title |-> Text("title"), hronir |-> Ref(<<g, Own>>),
               connectedSystems |-> Ref(<<g, Connected>>)]
         /\ NewRecord(g, r)[<<g, Connected>>] =
              [associations |-> IF r \in Described THEN Ref(<<g, Associations>>) ELSE Ref(NilMap)]
         /\ NewRecord(g, r)[<<g, Associations>>] = [parent |-> <<"parent", r>>]
         /\ NewRecord(g, r)[<<g, Own>>] = [sourceId |-> Text("source")]
<1>1. /\ Properties # <<>> /\ Connected # <<>> /\ Associations # <<>> /\ Own # <<>>
      /\ Properties # Connected /\ Properties # Associations /\ Properties # Own
      /\ Connected # Associations /\ Connected # Own /\ Associations # Own
  <2>1. /\ Properties # <<>> /\ Connected # <<>> /\ Associations # <<>> /\ Own # <<>>
    BY PointerNames
  <2>2. /\ Properties # Connected /\ Properties # Associations /\ Properties # Own
    BY PointerNames
  <2>3. Connected # Associations /\ Connected # Own /\ Associations # Own
    BY PointerNames
  <2>4. QED
    BY <2>1, <2>2, <2>3
<1> DEFINE Paths == {<<>>, Properties, Connected, Associations, Own}
           F(o) ==
             CASE o[2] = <<>> -> [properties |-> Ref(<<g, Properties>>)]
               [] o[2] = Properties ->
                    [title |-> Text("title"), hronir |-> Ref(<<g, Own>>),
                     connectedSystems |-> Ref(<<g, Connected>>)]
               [] o[2] = Connected ->
                    [associations |-> IF r \in Described THEN Ref(<<g, Associations>>)
                                      ELSE Ref(NilMap)]
               [] o[2] = Associations -> [parent |-> <<"parent", r>>]
               [] o[2] = Own -> [sourceId |-> Text("source")]
<1>2. NewRecord(g, r) = [o \in {<<g, p>> : p \in Paths} |-> F(o)]
  BY DEF NewRecord
<1>3. DOMAIN NewRecord(g, r) = {<<g, p>> : p \in Paths}
  BY <1>2
<1>4. \A p \in Paths : NewRecord(g, r)[<<g, p>>] = F(<<g, p>>)
  BY <1>2
<1>5. F(<<g, <<>> >>) = [properties |-> Ref(<<g, Properties>>)]
  BY <1>1
<1>6. F(<<g, Properties>>) =
        [title |-> Text("title"), hronir |-> Ref(<<g, Own>>),
         connectedSystems |-> Ref(<<g, Connected>>)]
  BY <1>1
<1>7. F(<<g, Connected>>) =
        [associations |-> IF r \in Described THEN Ref(<<g, Associations>>) ELSE Ref(NilMap)]
  BY <1>1
<1>8. F(<<g, Associations>>) = [parent |-> <<"parent", r>>]
  BY <1>1
<1>9. F(<<g, Own>>) = [sourceId |-> Text("source")]
  BY <1>1
<1> HIDE DEF F
<1>10. DOMAIN NewRecord(g, r) =
         {Record(g), <<g, Properties>>, <<g, Connected>>, <<g, Associations>>, <<g, Own>>}
  BY <1>3 DEF Record
<1>11. QED
  BY <1>4, <1>5, <1>6, <1>7, <1>8, <1>9, <1>10 DEF Record

\* What an input is made of.
LEMMA InputObjects ==
  ASSUME NEW g \in Goroutine, NEW r
  PROVE  /\ DOMAIN Input(g, r) \subseteq {InputOf(g), InputPart(g)}
         /\ InputOf(g) \in DOMAIN Input(g, r)
         /\ r \in Described => InputPart(g) \in DOMAIN Input(g, r)
         /\ \A o \in DOMAIN Input(g, r) : \A n \in DOMAIN Input(g, r)[o] :
              /\ Input(g, r)[o][n] # Missing
              /\ IsRef(Input(g, r)[o][n]) =>
                   /\ o = InputOf(g) /\ n = "associations" /\ r \in Described
                   /\ Input(g, r)[o][n] = Ref(InputPart(g))
<1>1. InputOf(g) # InputPart(g)
  BY DEF InputOf, InputPart
<1>2. DOMAIN Input(g, r) = {InputOf(g)} \cup {InputPart(g) : x \in Described \cap {r}}
  BY DEF Input
<1>3. ASSUME InputPart(g) \in DOMAIN Input(g, r)
      PROVE  Input(g, r)[InputPart(g)] = [parent |-> <<"parent", r>>]
  BY <1>1, <1>3 DEF Input
<1>4. r \in Described =>
        Input(g, r)[InputOf(g)] = [id |-> Text("id"), name |-> <<"name", r>>,
                                   associations |-> Ref(InputPart(g))]
  BY <1>1 DEF Input
<1>5. r \notin Described => Input(g, r)[InputOf(g)] = [id |-> <<"id", r>>]
  BY <1>1 DEF Input
<1>6. ASSUME NEW o \in DOMAIN Input(g, r), NEW n \in DOMAIN Input(g, r)[o]
      PROVE  /\ Input(g, r)[o][n] # Missing
             /\ IsRef(Input(g, r)[o][n]) =>
                  /\ o = InputOf(g) /\ n = "associations" /\ r \in Described
                  /\ Input(g, r)[o][n] = Ref(InputPart(g))
  <2>1. CASE o = InputPart(g)
    <3>1. n = "parent" /\ Input(g, r)[o][n] = <<"parent", r>>
      BY <1>3, <2>1
    <3>2. QED
      BY <3>1 DEF IsRef, Missing
  <2>2. CASE o = InputOf(g) /\ r \in Described
    <3>1. \/ n = "id" /\ Input(g, r)[o][n] = Text("id")
          \/ n = "name" /\ Input(g, r)[o][n] = <<"name", r>>
          \/ n = "associations" /\ Input(g, r)[o][n] = Ref(InputPart(g))
      BY <1>4, <2>2
    <3>2. QED
      <4>1. /\ ~IsRef(Text("id")) /\ Text("id") # Missing
            /\ ~IsRef(<<"name", r>>) /\ <<"name", r>> # Missing
        BY DEF IsRef, Missing, Text
      <4>2. QED
        BY <2>2, <3>1, <4>1, RefIs
  <2>3. CASE o = InputOf(g) /\ r \notin Described
    <3>1. n = "id" /\ Input(g, r)[o][n] = <<"id", r>>
      BY <1>5, <2>3
    <3>2. QED
      BY <3>1 DEF IsRef, Missing
  <2>4. QED
    BY <1>2, <2>1, <2>2, <2>3
<1>7. QED
  BY <1>2, <1>6

\* A call that starts finds its record and input, and changes no one else's.
LEMMA StartOK ==
  ASSUME NEW g \in Goroutine, NEW r, NEW h, HeapOK(h),
         NEW h2, h2 = Over(NewRecord(g, r), Over(Input(g, r), h))
  PROVE  /\ HeapOK(h2) /\ DOMAIN h \subseteq DOMAIN h2
         /\ Record(g) \in DOMAIN h2 /\ InputOf(g) \in DOMAIN h2
         /\ \A o \in DOMAIN h : o[1] # g => h2[o] = h[o]
         /\ Separate(h) => Separate(h2)
         /\ Rooted(h2, g)
<1> DEFINE N == NewRecord(g, r)
           I == Input(g, r)
           R == Record(g)
           P == <<g, Properties>>
           C == <<g, Connected>>
           A == <<g, Associations>>
           O == <<g, Own>>
<1>1. /\ Properties \in Seq(Names) /\ Connected \in Seq(Names)
      /\ Associations \in Seq(Names) /\ Own \in Seq(Names) /\ <<>> \in Seq(Names)
      /\ <<"$">> \in Seq(Names) /\ <<"$", "associations">> \in Seq(Names)
  BY PointerNames DEF Names
<1>2. /\ Properties # <<"$">> /\ Connected # <<"$">> /\ Associations # <<"$">> /\ Own # <<"$">>
      /\ Properties # <<"$", "associations">> /\ Connected # <<"$", "associations">>
      /\ Associations # <<"$", "associations">> /\ Own # <<"$", "associations">>
      /\ Properties # <<>> /\ Connected # <<>> /\ Associations # <<>> /\ Own # <<>>
  <2>1. \A p \in InputPaths \cup {<<>>} : p = <<>> \/ p[1] = "$"
    BY DEF InputPaths
  <2>2. /\ Properties[1] = "properties" /\ Connected[1] = "properties"
        /\ Associations[1] = "properties" /\ Own[1] = "properties"
        /\ Properties # <<>> /\ Connected # <<>> /\ Associations # <<>> /\ Own # <<>>
    BY PointerNames
  <2>3. \A p \in InputPaths \cup {<<>>} :
          Properties # p /\ Connected # p /\ Associations # p /\ Own # p
    BY <2>1, <2>2
  <2>4. QED
    BY <2>3 DEF InputPaths
<1>3. /\ Last(Properties) = "properties" /\ Last(Connected) = "connectedSystems"
      /\ Last(Associations) = "associations" /\ Last(Own) = "hronir"
  BY PointerNames DEF Last
<1>4. /\ Mounted("properties", P) /\ Mounted("connectedSystems", C)
      /\ Mounted("associations", A) /\ Mounted("hronir", O)
      /\ Mounted("associations", NilMap)
  BY <1>2, <1>3 DEF Mounted, InputPaths
<1>5. /\ DOMAIN h2 = DOMAIN N \cup DOMAIN I \cup DOMAIN h
      /\ \A o \in DOMAIN h2 :
           h2[o] = IF o \in DOMAIN N THEN N[o] ELSE IF o \in DOMAIN I THEN I[o] ELSE h[o]
  BY DEF Over
<1>6. /\ DOMAIN N = {R, P, C, A, O}
      /\ N[R] = [properties |-> Ref(P)]
      /\ N[P] = [title |-> Text("title"), hronir |-> Ref(O), connectedSystems |-> Ref(C)]
      /\ N[C] = [associations |-> IF r \in Described THEN Ref(A) ELSE Ref(NilMap)]
      /\ N[A] = [parent |-> <<"parent", r>>]
      /\ N[O] = [sourceId |-> Text("source")]
  BY NewObjects
<1>7. /\ DOMAIN I \subseteq {InputOf(g), InputPart(g)} /\ InputOf(g) \in DOMAIN I
      /\ r \in Described => InputPart(g) \in DOMAIN I
      /\ \A o \in DOMAIN I : \A n \in DOMAIN I[o] :
           /\ I[o][n] # Missing
           /\ IsRef(I[o][n]) => /\ o = InputOf(g) /\ n = "associations" /\ r \in Described
                               /\ I[o][n] = Ref(InputPart(g))
  BY InputObjects
<1>8. /\ R[1] = g /\ P[1] = g /\ C[1] = g /\ A[1] = g /\ O[1] = g
      /\ InputOf(g)[1] = g /\ InputPart(g)[1] = g
      /\ R[2] = <<>> /\ P[2] = Properties /\ C[2] = Connected
      /\ A[2] = Associations /\ O[2] = Own
      /\ InputOf(g)[2] = <<"$">> /\ InputPart(g)[2] = <<"$", "associations">>
      /\ <<"$">> # <<"$", "associations">> /\ <<>> # <<"$">> /\ <<>> # <<"$", "associations">>
  BY DEF Record, InputOf, InputPart
<1>9. ASSUME NEW o \in DOMAIN N, NEW n \in DOMAIN N[o]
      PROVE  /\ N[o][n] # Missing
             /\ IsRef(N[o][n]) =>
                  \E q : /\ N[o][n] = Ref(q) /\ Mounted(n, q)
                        /\ q \in {P, C, A, O, NilMap}
  <2>1. /\ ~IsRef(Text("title")) /\ Text("title") # Missing
        /\ ~IsRef(Text("source")) /\ Text("source") # Missing
        /\ ~IsRef(<<"parent", r>>) /\ <<"parent", r>> # Missing
    BY DEF IsRef, Text, Missing
  <2> HIDE DEF P, C, A, O, R, N
  <2>2. CASE o = R
    <3>1. n = "properties" /\ N[o][n] = Ref(P)
      BY <1>6, <2>2
    <3>2. QED
      BY <1>4, <3>1, RefIs
  <2>3. CASE o = P
    <3>1. \/ n = "title" /\ N[o][n] = Text("title")
          \/ n = "hronir" /\ N[o][n] = Ref(O)
          \/ n = "connectedSystems" /\ N[o][n] = Ref(C)
      BY <1>6, <2>3
    <3>2. QED
      BY <1>4, <2>1, <3>1, RefIs
  <2>4. CASE o = C
    <3>1. n = "associations" /\ (N[o][n] = Ref(A) \/ N[o][n] = Ref(NilMap))
      BY <1>6, <2>4
    <3>2. QED
      BY <1>4, <3>1, RefIs
  <2>5. CASE o = A
    BY <1>6, <2>1, <2>5
  <2>6. CASE o = O
    BY <1>6, <2>1, <2>6
  <2>7. QED
    BY <1>6, <2>2, <2>3, <2>4, <2>5, <2>6
<1>10. NilMap \in DOMAIN h /\ DOMAIN h \subseteq DOMAIN h2
  BY <1>5 DEF HeapOK
<1>11. Record(g) \in DOMAIN h2 /\ InputOf(g) \in DOMAIN h2
  BY <1>5, <1>6, <1>7
<1>12. \A o \in DOMAIN N \cup DOMAIN I : o[1] = g
  BY <1>6, <1>7, <1>8
<1>13. \A o \in DOMAIN h : o[1] # g => h2[o] = h[o]
  BY <1>5, <1>10, <1>12
<1>14. ASSUME NEW o \in DOMAIN h2, NEW n \in DOMAIN h2[o]
       PROVE  IF o[2] = <<"$">>
              THEN /\ h2[o][n] # Missing
                   /\ IsRef(h2[o][n]) =>
                        /\ n = "associations" /\ h2[o][n] = Ref(InputPart(o[1]))
                        /\ InputPart(o[1]) \in DOMAIN h2
              ELSE /\ Storable(h2, n, h2[o][n])
                   /\ o[2] = <<"$", "associations">> /\ n = "parent" /\ IsRef(h2[o][n])
                        => InputWritten
  <2>1. CASE o \in DOMAIN N
    <3>1. h2[o] = N[o] /\ o[2] # <<"$">> /\ o[2] # <<"$", "associations">>
      BY <1>2, <1>5, <1>6, <1>8, <2>1
    <3> HIDE DEF N, P, C, A, O, R
    <3>2. /\ N[o][n] # Missing
          /\ IsRef(N[o][n]) =>
                \E q : N[o][n] = Ref(q) /\ Mounted(n, q) /\ q \in {P, C, A, O, NilMap}
      BY <1>9, <2>1, <3>1
    <3>3. {P, C, A, O, NilMap} \subseteq DOMAIN h2
      BY <1>5, <1>6, <1>10
    <3>4. QED
      BY <3>1, <3>2, <3>3, RefIs DEF Storable
  <2>2. CASE o \in DOMAIN I /\ o \notin DOMAIN N
    <3>1. h2[o] = I[o]
      BY <1>5, <2>2
    <3> HIDE DEF N, I
    <3>2. CASE o = InputOf(g)
      BY <1>5, <1>7, <1>8, <2>2, <3>1, <3>2
    <3>3. CASE o = InputPart(g) /\ o # InputOf(g)
      BY <1>7, <1>8, <2>2, <3>1, <3>3 DEF Storable
    <3>4. QED
      BY <1>7, <2>2, <3>2, <3>3
  <2>3. CASE o \in DOMAIN h /\ h2[o] = h[o]
    BY <1>10, <2>3 DEF HeapOK, Storable
  <2>4. QED
    BY <1>5, <2>1, <2>2, <2>3
<1>15. HeapOK(h2)
  <2>1. DOMAIN h2 \subseteq (Goroutine \cup {"config", "nil"}) \X Seq(Names)
    <3>1. DOMAIN N \subseteq Goroutine \X Seq(Names)
      <4>1. R \in Goroutine \X Seq(Names) /\ P \in Goroutine \X Seq(Names)
        BY <1>1 DEF Record
      <4>2. C \in Goroutine \X Seq(Names) /\ A \in Goroutine \X Seq(Names)
            /\ O \in Goroutine \X Seq(Names)
        BY <1>1
      <4> HIDE DEF N, R, P, C, A, O
      <4>3. QED
        BY <1>6, <4>1, <4>2
    <3>2. DOMAIN I \subseteq Goroutine \X Seq(Names)
      <4>1. InputOf(g) \in Goroutine \X Seq(Names) /\ InputPart(g) \in Goroutine \X Seq(Names)
        BY <1>1 DEF InputOf, InputPart
      <4> HIDE DEF I
      <4>2. QED
        BY <1>7, <4>1
    <3> HIDE DEF N, I
    <3>3. QED
      BY <1>5, <3>1, <3>2 DEF HeapOK
  <2> HIDE DEF N, I
  <2>2. QED
    BY <1>10, <1>14, <2>1 DEF HeapOK
<1>16. ASSUME Separate(h) PROVE Separate(h2)
  <2> HIDE DEF N, I, P, C, A, O, R
  <2>1. ASSUME NEW o \in DOMAIN h2, o[1] # "nil", NEW n \in DOMAIN h2[o], IsRef(h2[o][n])
        PROVE  h2[o][n][2][1] \in {o[1], "config"} \/ h2[o][n][2] = NilMap
    <3>1. CASE o \in DOMAIN N
      <4>1. h2[o] = N[o] /\ o[1] = g
        BY <1>5, <1>12, <3>1
      <4>2. \E q : N[o][n] = Ref(q) /\ q \in {P, C, A, O, NilMap}
        BY <1>9, <2>1, <3>1, <4>1
      <4>3. QED
        BY <1>8, <4>1, <4>2, RefIs
    <3>2. CASE o \in DOMAIN I /\ o \notin DOMAIN N
      <4>1. h2[o] = I[o] /\ o[1] = g
        BY <1>5, <1>12, <3>2
      <4>2. h2[o][n] = Ref(InputPart(g))
        BY <1>7, <2>1, <3>2, <4>1
      <4>3. QED
        BY <1>8, <4>1, <4>2, RefIs
    <3>3. CASE o \in DOMAIN h /\ h2[o] = h[o]
      BY <1>16, <2>1, <3>3 DEF Separate
    <3>4. QED
      BY <1>5, <3>1, <3>2, <3>3
  <2>2. ASSUME NEW o \in DOMAIN h2, o[1] = "config"
        PROVE  o[2] \in DOMAIN fields /\ fields[o[2]].literal = "object"
    <3>1. o \in DOMAIN h
      BY <1>5, <1>12, <2>2
    <3>2. QED
      BY <1>16, <2>2, <3>1 DEF Separate
  <2>3. QED
    BY <2>1, <2>2 DEF Separate
<1>17. Rooted(h2, g)
  <2>1. /\ R \in DOMAIN h2 /\ P \in DOMAIN h2 /\ C \in DOMAIN h2
        /\ h2[R] = N[R] /\ h2[P] = N[P]
    BY <1>5, <1>6
  <2> HIDE DEF N, P, C, O, R
  <2>2. /\ Entry(h2, Ref(R), "properties") = Ref(P)
        /\ Entry(h2, Ref(P), "connectedSystems") = Ref(C)
        /\ Entry(h2, Ref(P), "hronir") = Ref(O)
    BY <1>6, <2>1, EntryIs
  <2>3. QED
    BY <2>1, <2>2, RefIs DEF Rooted, R, P, C, O
<1>18. QED
  BY <1>10, <1>11, <1>13, <1>15, <1>16, <1>17

\* At its end it takes away only what no one refers to.
LEMMA DroppedOK ==
  ASSUME NEW g \in Goroutine, HeapOK(heap), NEW h2, h2 = Dropped(g)
  PROVE  /\ HeapOK(h2)
         /\ \A o \in DOMAIN heap : o[1] # g => o \in DOMAIN h2 /\ h2[o] = heap[o]
         /\ Separate(heap) => Separate(h2)
<1>1. CASE Leaves(g)
  BY <1>1 DEF Dropped
<1>2. CASE ~Leaves(g)
  <2>1. /\ DOMAIN h2 = {o \in DOMAIN heap : o[1] # g}
        /\ \A o \in DOMAIN h2 : h2[o] = heap[o]
    BY <1>2 DEF Dropped
  <2>2. ASSUME NEW o \in DOMAIN h2, NEW n \in DOMAIN h2[o], IsRef(h2[o][n])
        PROVE  h2[o][n][2][1] # g
    <3>1. h2[o][n] \in Range(heap[o])
      BY <2>1 DEF Range
    <3>2. QED
      BY <1>2, <2>1, <2>2, <3>1 DEF Leaves
  <2>3. g # "config" /\ g # "nil" /\ NilMap[1] = "nil"
    BY DEF NilMap
  <2>4. ASSUME NEW o \in DOMAIN h2, NEW n \in DOMAIN h2[o]
        PROVE  IF o[2] = <<"$">>
               THEN /\ h2[o][n] # Missing
                    /\ IsRef(h2[o][n]) =>
                         /\ n = "associations" /\ h2[o][n] = Ref(InputPart(o[1]))
                         /\ InputPart(o[1]) \in DOMAIN h2
               ELSE /\ Storable(h2, n, h2[o][n])
                    /\ o[2] = <<"$", "associations">> /\ n = "parent" /\ IsRef(h2[o][n])
                         => InputWritten
    <3>1. h2[o][n] = heap[o][n] /\ o \in DOMAIN heap /\ n \in DOMAIN heap[o]
      BY <2>1
    <3>2. IF o[2] = <<"$">>
          THEN /\ heap[o][n] # Missing
               /\ IsRef(heap[o][n]) =>
                    /\ n = "associations" /\ heap[o][n] = Ref(InputPart(o[1]))
                    /\ InputPart(o[1]) \in DOMAIN heap
          ELSE /\ Storable(heap, n, heap[o][n])
               /\ o[2] = <<"$", "associations">> /\ n = "parent" /\ IsRef(heap[o][n])
                    => InputWritten
      BY <3>1 DEF HeapOK
    <3>3. CASE o[2] = <<"$">>
      BY <2>1, <2>2, <3>1, <3>2, <3>3, RefIs
    <3>4. CASE o[2] # <<"$">>
      BY <2>1, <2>2, <3>1, <3>2, <3>4 DEF Storable
    <3>5. QED
      BY <3>3, <3>4
  <2>5. HeapOK(h2)
    <3>1. NilMap \in DOMAIN h2
      BY <2>1, <2>3 DEF HeapOK
    <3>2. \A p \in DOMAIN fields : fields[p].literal = "object" => <<"config", p>> \in DOMAIN h2
      BY <2>1, <2>3 DEF HeapOK
    <3>3. DOMAIN h2 \subseteq (Goroutine \cup {"config", "nil"}) \X Seq(Names)
      BY <2>1 DEF HeapOK
    <3>4. QED
      BY <2>4, <3>1, <3>2, <3>3 DEF HeapOK
  <2>6. Separate(heap) => Separate(h2)
    BY <2>1 DEF Separate
  <2>7. QED
    BY <2>1, <2>5, <2>6
<1>3. QED
  BY <1>1, <1>2

-----------------------------------------------------------------------------
(* The invariant.                                                            *)

\* No step changes the fields, nor what is said of them alone.
LEMMA FieldsFixed ==
  ASSUME fields' = fields
  PROVE  /\ HeapOK(heap)' <=> HeapOK(heap')
         /\ Separate(heap)' <=> Separate(heap')
         /\ SharedLiteral' <=> SharedLiteral
         /\ OwnIsShown' <=> OwnIsShown
         /\ \A y : Rooted(heap, y)' <=> Rooted(heap', y)
<1>1. \A n, e : Taken(n, e)' <=> Taken(n, e)
  BY DEF Taken
<1>2. InputWritten' <=> InputWritten
  BY DEF InputWritten
<1>3. \A n, o : Mounted(n, o)' <=> Mounted(n, o)
  BY <1>1, <1>2 DEF Mounted
<1>4. \A n, v : Storable(heap, n, v)' <=> Storable(heap', n, v)
  BY <1>3 DEF Storable
<1>5. HeapOK(heap)' <=> HeapOK(heap')
  BY <1>2, <1>4 DEF HeapOK
<1>6. Separate(heap)' <=> Separate(heap')
  BY DEF Separate
<1>7. SharedLiteral' <=> SharedLiteral
  BY DEF SharedLiteral, WritesIntoInput
<1>8. OwnIsShown' <=> OwnIsShown
  BY DEF OwnIsShown
<1>9. \A y : Rooted(heap, y)' <=> Rooted(heap', y)
  BY DEF Rooted
<1>10. QED
  BY <1>5, <1>6, <1>7, <1>8, <1>9

Inv == TypeOK /\ HashedInv /\ RootedInv /\ HashTellsBody /\ PanicNeedsOwnSection

\* The built-in fields and any overlay are fields of known pointers.
LEMMA InitFields ==
  ASSUME Init
  PROVE  /\ fields \in [DOMAIN fields -> Field] /\ DOMAIN BuiltIn \subseteq DOMAIN fields
         /\ DOMAIN fields \subseteq ToSet(Sorted)
<1>1. PICK o \in Overlays : fields = Over(o, BuiltIn)
  BY DEF Init
<1>2. PICK P \in SUBSET ToSet(Sorted) : o \in [P -> Field]
  BY <1>1 DEF Overlays
<1>3. BuiltIn \in [{Associations, Title} -> Field]
  <2>1. Expr(NameOrId) \in Field /\ Expr(Whole) \in Field
    BY DEF Expr, Field
  <2>2. QED
    BY <2>1 DEF BuiltIn
<1>4. {Associations, Title} \subseteq ToSet(Sorted)
  BY Pointers
<1>5. DOMAIN fields = P \cup {Associations, Title} /\ DOMAIN BuiltIn = {Associations, Title}
  BY <1>1, <1>2, <1>3 DEF Over
<1>6. ASSUME NEW p \in DOMAIN fields PROVE fields[p] \in Field
  BY <1>1, <1>2, <1>3, <1>5, <1>6 DEF Over
<1>7. fields = [p \in DOMAIN fields |-> fields[p]]
  BY <1>1 DEF Over
<1>8. QED
  BY <1>2, <1>4, <1>5, <1>6, <1>7

\* The invariant holds of an engine that has mapped nothing.
LEMMA InitInv ==
  ASSUME Init
  PROVE  Inv
<1>1. /\ fields \in [DOMAIN fields -> Field] /\ DOMAIN BuiltIn \subseteq DOMAIN fields
      /\ DOMAIN fields \subseteq ToSet(Sorted)
  BY InitFields
<1>2. /\ process = "runs" /\ pc = [g \in Goroutine |-> "idle"] /\ heap = Literals(fields)
      /\ left = [g \in Goroutine |-> {}] /\ overlapped = [g \in Goroutine |-> FALSE]
      /\ DOMAIN hash = Goroutine /\ DOMAIN body = Goroutine
  BY DEF Init
<1>3. of \in [Goroutine -> Resource]
  <2>1. (CHOOSE r \in Resource : TRUE) \in Resource
    BY FieldMapAssumption
  <2>2. QED
    BY <2>1 DEF Init
<1>4. \A g \in Goroutine : pc[g] = "idle" /\ ~Busy(g)
  BY <1>2 DEF Busy
<1> DEFINE Objects == {p \in DOMAIN fields : fields[p].literal = "object"}
<1>5. /\ DOMAIN heap = {NilMap} \cup {<<"config", p>> : p \in Objects}
      /\ heap[NilMap] = NoEntry
      /\ \A p \in Objects : heap[<<"config", p>>] = [label |-> Text("label")]
  <2>1. \A p : <<"config", p>> # NilMap
    BY DEF NilMap
  <2>2. QED
    BY <1>2, <2>1 DEF Literals
<1> HIDE DEF Objects
<1>6. ASSUME NEW o \in DOMAIN heap, NEW n \in DOMAIN heap[o]
      PROVE  o[1] = "config" /\ o[2] \in Objects /\ heap[o][n] = Text("label")
  <2>1. o # NilMap
    BY <1>5 DEF NoEntry
  <2>2. PICK p \in Objects : o = <<"config", p>>
    BY <1>5, <2>1
  <2>3. n \in {"label"} /\ heap[o][n] = Text("label")
    BY <1>5, <2>2
  <2>4. QED
    BY <2>2, <2>3
<1>7. ~IsRef(Text("label")) /\ Text("label") # Missing
  BY DEF IsRef, Text, Missing
<1>8. TypeOK
  BY <1>1, <1>2, <1>3, <1>6, <1>7 DEF TypeOK
<1>9. HeapOK(heap)
  <2>1. DOMAIN heap \subseteq (Goroutine \cup {"config", "nil"}) \X Seq(Names)
    <3>1. NilMap \in (Goroutine \cup {"config", "nil"}) \X Seq(Names)
      <4>1. <<>> \in Seq(Names)
        OBVIOUS
      <4>2. QED
        BY <4>1 DEF NilMap
    <3>2. ASSUME NEW p \in Objects
          PROVE  <<"config", p>> \in (Goroutine \cup {"config", "nil"}) \X Seq(Names)
      <4>1. p \in Seq(Names)
        BY <1>1, InnerName DEF Objects
      <4>2. QED
        BY <4>1
    <3>3. QED
      BY <1>5, <3>1, <3>2
  <2>2. NilMap \in DOMAIN heap
    BY <1>5
  <2>3. \A p \in DOMAIN fields : fields[p].literal = "object" => <<"config", p>> \in DOMAIN heap
    BY <1>5 DEF Objects
  <2>4. \A o \in DOMAIN heap : \A n \in DOMAIN heap[o] :
          heap[o][n] # Missing /\ ~IsRef(heap[o][n])
    BY <1>6, <1>7
  <2>5. QED
    BY <2>1, <2>2, <2>3, <2>4 DEF HeapOK, Storable
<1>10. Separate(heap)
  <2>1. ASSUME NEW o \in DOMAIN heap, o[1] = "config"
        PROVE  o[2] \in DOMAIN fields /\ fields[o[2]].literal = "object"
    <3>1. o # NilMap
      BY <2>1 DEF NilMap
    <3>2. QED
      BY <1>5, <2>1, <3>1 DEF Objects
  <2>2. QED
    BY <1>6, <1>7, <2>1 DEF Separate
<1>11. HashedInv
  BY <1>4, <1>5, <1>9, <1>10 DEF HashedInv, Hashed
<1>12. RootedInv
  BY <1>4 DEF RootedInv
<1>13. HashTellsBody
  BY <1>4 DEF HashTellsBody
<1>14. PanicNeedsOwnSection
  BY <1>2 DEF PanicNeedsOwnSection
<1>15. QED
  BY <1>8, <1>11, <1>12, <1>13, <1>14 DEF Inv

\* In a heap that is in order no value is missing.
LEMMA NothingMissing ==
  ASSUME NEW h, HeapOK(h)
  PROVE  \A o \in DOMAIN h : \A n \in DOMAIN h[o] : h[o][n] # Missing
BY DEF HeapOK, Storable

\* What NewRecord put into x's record depends on x's objects alone.
LEMMA RootedFrame ==
  ASSUME NEW h, NEW y, Rooted(h, y),
         NEW h2, \A o \in DOMAIN h : o[1] = y => o \in DOMAIN h2 /\ h2[o] = h[o]
  PROVE  Rooted(h2, y) /\ (NilAssociations(h2, y) <=> NilAssociations(h, y))
<1>1. /\ Record(y) \in DOMAIN h /\ <<y, Properties>> \in DOMAIN h /\ <<y, Connected>> \in DOMAIN h
      /\ Record(y)[1] = y /\ <<y, Properties>>[1] = y /\ <<y, Connected>>[1] = y
  BY DEF Rooted, Record
<1>2. \A o \in DOMAIN h : o[1] = y => \A n : Entry(h2, Ref(o), n) = Entry(h, Ref(o), n)
  BY EntryIs
<1>3. QED
  BY <1>1, <1>2 DEF Rooted, NilAssociations

\* HashTellsBody, of one goroutine.
Tells(g) ==
  pc[g] = "done" /\ ~OwnIsShown /\ ~(SharedLiteral /\ overlapped[g]) =>
    /\ hash[g] = Semantic(body[g])
    /\ body[g][Append(Own, "recordHash")] = <<"hash", g>>

\* HashTellsBody is Tells of every goroutine, before a step and after.
LEMMA TellsAll ==
  /\ HashTellsBody <=> \A g \in Goroutine : Tells(g)
  /\ HashTellsBody' <=> \A g \in Goroutine : Tells(g)'
BY DEF HashTellsBody, Tells

\* What has been hashed stays as it was during the steps of the other calls.
LEMMA OthersKept ==
  ASSUME Inv, fields' = fields, process = "runs",
         NEW g \in Goroutine, NEW x \in Goroutine, x # g,
         pc'[x] = pc[x], hash'[x] = hash[x], body'[x] = body[x],
         overlapped[x] => overlapped'[x],
         SharedLiteral /\ Busy(x) => overlapped'[x],
         process' = "runs" => heap'[NilMap] = heap[NilMap],
         ~SharedLiteral =>
           \A o \in DOMAIN heap : o[1] # g /\ o # NilMap => heap'[o] = heap[o]
  PROVE  Hashed(x)' /\ Tells(x)'
<1>1. /\ HashedInv /\ HashTellsBody /\ HeapOK(heap) /\ Hashed(x) /\ Tells(x)
      /\ heap[NilMap] = NoEntry /\ (SharedLiteral \/ Separate(heap))
  BY TellsAll DEF Inv, HashedInv
<1>2. (SharedLiteral' <=> SharedLiteral) /\ (OwnIsShown' <=> OwnIsShown)
  BY FieldsFixed
<1>3. ASSUME process' = "runs", pc'[x] \in {"setHashes", "put"}, ~OwnIsShown',
             ~(SharedLiteral' /\ overlapped'[x])
      PROVE  /\ hash'[x] = Semantic(Content(heap', x))
             /\ pc'[x] = "put" =>
                  Walk(heap', Ref(Record(x)), Append(Own, "recordHash")) = <<"hash", x>>
  <2>1. Busy(x) /\ Record(x) \in DOMAIN heap
    BY <1>1, <1>3 DEF Busy, HashedInv
  <2>2. ~SharedLiteral /\ Separate(heap)
    BY <1>1, <1>2, <1>3, <2>1
  <2>3. \A o \in DOMAIN heap : o[1] \in {x, "config"} \/ o = NilMap => heap'[o] = heap[o]
    <3>1. g # "config"
      BY FieldMapAssumption
    <3>2. QED
      BY <1>3, <2>2, <3>1
  <2>4. /\ Content(heap', x) = Content(heap, x)
        /\ Walk(heap', Ref(Record(x)), Append(Own, "recordHash"))
              = Walk(heap, Ref(Record(x)), Append(Own, "recordHash"))
    BY <1>1, <2>1, <2>2, <2>3, ContentFrame
  <2>5. /\ hash[x] = Semantic(Content(heap, x))
        /\ pc[x] = "put" =>
             Walk(heap, Ref(Record(x)), Append(Own, "recordHash")) = <<"hash", x>>
    BY <1>1, <1>2, <1>3, <2>2 DEF Hashed
  <2>6. QED
    BY <2>4, <2>5
<1>4. Hashed(x)'
  BY <1>3 DEF Hashed
<1>5. Tells(x)'
  BY <1>1, <1>2 DEF Tells
<1>6. QED
  BY <1>4, <1>5

\* Each action keeps the invariant. StartMap:
LEMMA StartMapInv ==
  ASSUME Inv, NEW g \in Goroutine, NEW r \in Resource, StartMap(g, r)
  PROVE  Inv'
<1>1. /\ TypeOK /\ HashedInv /\ RootedInv /\ HashTellsBody /\ PanicNeedsOwnSection
  BY DEF Inv
<1>2. /\ process = "runs" /\ process' = process /\ fields' = fields
      /\ heap' = Over(NewRecord(g, r), Over(Input(g, r), heap))
      /\ pc' = [pc EXCEPT ![g] = "map"] /\ of' = [of EXCEPT ![g] = r]
      /\ left' = [left EXCEPT ![g] = DOMAIN fields]
      /\ hash' = [hash EXCEPT ![g] = Semantic(Nothing)]
      /\ body' = [body EXCEPT ![g] = Nothing]
      /\ overlapped' =
           [x \in Goroutine |-> IF x = g THEN {y \in Goroutine \ {g} : Busy(y)} # {}
                               ELSE overlapped[x] \/ Busy(x)]
  BY DEF StartMap
<1>3. /\ HeapOK(heap) /\ (SharedLiteral \/ Separate(heap)) /\ heap[NilMap] = NoEntry
      /\ NilMap \in DOMAIN heap /\ NilMap[1] = "nil" /\ g # "nil"
  BY <1>1, <1>2 DEF HashedInv, HeapOK, NilMap
<1>4. /\ HeapOK(heap') /\ DOMAIN heap \subseteq DOMAIN heap'
      /\ Record(g) \in DOMAIN heap' /\ InputOf(g) \in DOMAIN heap'
      /\ \A o \in DOMAIN heap : o[1] # g => heap'[o] = heap[o]
      /\ Separate(heap) => Separate(heap')
      /\ Rooted(heap', g)
  BY <1>2, <1>3, StartOK
<1>5. /\ HeapOK(heap)' <=> HeapOK(heap')
      /\ Separate(heap)' <=> Separate(heap')
      /\ SharedLiteral' <=> SharedLiteral
      /\ \A y : Rooted(heap, y)' <=> Rooted(heap', y)
  BY <1>2, FieldsFixed
<1>6. /\ pc \in [Goroutine -> {"idle", "map", "hash", "setHashes", "put", "done"}]
      /\ of \in [Goroutine -> Resource] /\ left \in [Goroutine -> SUBSET DOMAIN fields]
      /\ DOMAIN hash = Goroutine /\ DOMAIN body = Goroutine
      /\ overlapped \in [Goroutine -> BOOLEAN] /\ DOMAIN fields # {}
      /\ \A x \in Goroutine : pc[x] = "map" <=> left[x] # {}
  BY <1>1 DEF TypeOK, BuiltIn
<1>7. /\ pc'[g] = "map"
      /\ \A x \in Goroutine : x # g => /\ pc'[x] = pc[x] /\ left'[x] = left[x]
                                     /\ hash'[x] = hash[x] /\ body'[x] = body[x]
                                     /\ overlapped'[x] = (overlapped[x] \/ Busy(x))
                                     /\ Busy(x)' = Busy(x)
  BY <1>2, <1>6 DEF Busy
<1>o. ASSUME NEW x \in Goroutine, x # g
      PROVE  /\ Hashed(x)'
             /\ Tells(x)'
  <2>1. /\ pc'[x] = pc[x] /\ hash'[x] = hash[x] /\ body'[x] = body[x]
        /\ overlapped[x] => overlapped'[x]
        /\ SharedLiteral /\ Busy(x) => overlapped'[x]
    BY <1>7, <1>o
  <2>2. /\ process' = "runs" => heap'[NilMap] = heap[NilMap]
        /\ ~SharedLiteral =>
             \A o \in DOMAIN heap : o[1] # g /\ o # NilMap => heap'[o] = heap[o]
    BY <1>3, <1>4
  <2>3. QED
    BY <1>2, <1>o, <2>1, <2>2, OthersKept
<1>8. TypeOK'
  <2>1. \A o \in DOMAIN heap' : \A n \in DOMAIN heap'[o] : heap'[o][n] # Missing
    BY <1>4, NothingMissing
  <2>2. \A x \in Goroutine : pc'[x] = "map" <=> left'[x] # {}
    BY <1>2, <1>6
  <2>3. overlapped' \in [Goroutine -> BOOLEAN]
    BY <1>2, <1>6
  <2>4. QED
    BY <1>1, <1>2, <1>6, <2>1, <2>2, <2>3 DEF TypeOK
<1>9. HashedInv'
  <2>1. HeapOK(heap)' /\ (SharedLiteral' \/ Separate(heap)')
    BY <1>3, <1>4, <1>5
  <2>2. heap'[NilMap] = NoEntry
    BY <1>3, <1>4
  <2>3. \A x \in Goroutine : Busy(x)' => Record(x) \in DOMAIN heap' /\ InputOf(x) \in DOMAIN heap'
    BY <1>1, <1>4, <1>7 DEF HashedInv
  <2>4. ASSUME NEW x \in Goroutine, NEW y \in Goroutine, x # y, Busy(x)', Busy(y)'
        PROVE  overlapped'[x]
    <3>1. CASE x = g
      BY <1>2, <1>7, <2>4, <3>1
    <3>2. CASE x # g
      BY <1>7, <2>4, <3>2
    <3>3. QED
      BY <3>1, <3>2
  <2>5. ASSUME NEW x \in Goroutine PROVE Hashed(x)'
    <3>1. CASE x = g
      BY <1>7, <3>1 DEF Hashed
    <3>2. CASE x # g
      BY <1>o, <3>2
    <3>3. QED
      BY <3>1, <3>2
  <2>6. QED
    BY <2>1, <2>2, <2>3, <2>4, <2>5 DEF HashedInv
<1>10. RootedInv'
  <2>1. SUFFICES ASSUME Properties \notin DOMAIN fields, NEW x \in Goroutine, Busy(x)'
                 PROVE  /\ Rooted(heap, x)'
                        /\ pc'[x] = "map" /\ Associations \notin left'[x]
                             => ~NilAssociations(heap', x)
    BY <1>2 DEF RootedInv
  <2>2. CASE x = g
    <3>1. Associations \in left'[g]
      BY <1>1, <1>2, <1>6 DEF TypeOK, BuiltIn
    <3>2. QED
      BY <1>4, <1>5, <2>2, <3>1
  <2>3. CASE x # g
    <3>1. Rooted(heap, x) /\ (pc[x] = "map" /\ Associations \notin left[x]
                                 => ~NilAssociations(heap, x))
      BY <1>1, <1>7, <2>1, <2>3 DEF RootedInv
    <3>2. Rooted(heap', x) /\ (NilAssociations(heap', x) <=> NilAssociations(heap, x))
      BY <1>4, <2>3, <3>1, RootedFrame
    <3>3. QED
      BY <1>5, <1>7, <2>3, <3>1, <3>2
  <2>4. QED
    BY <2>2, <2>3
<1>11. HashTellsBody'
  <2>1. Tells(g)'
    BY <1>7 DEF Tells
  <2>2. QED
    BY <1>o, <2>1, TellsAll
<1>12. PanicNeedsOwnSection'
  BY <1>2 DEF PanicNeedsOwnSection
<1>13. QED
  BY <1>8, <1>9, <1>10, <1>11, <1>12 DEF Inv

(* The steps of g but StartMap: they leave alone what the other calls keep,  *)
(* and do to the heap what the invariant of the other calls can bear.        *)
OnlyOf(g) ==
  /\ fields' = fields /\ of' = of
  /\ pc' \in [Goroutine -> {"idle", "map", "hash", "setHashes", "put", "done"}]
  /\ left' \in [Goroutine -> SUBSET DOMAIN fields] /\ (pc'[g] = "map" <=> left'[g] # {})
  /\ DOMAIN hash' = Goroutine /\ DOMAIN body' = Goroutine
  /\ overlapped' \in [Goroutine -> BOOLEAN] /\ (overlapped'[g] = overlapped[g] \/ ~Busy(g)')
  /\ \A x \in Goroutine : x # g =>
       /\ pc'[x] = pc[x] /\ left'[x] = left[x] /\ hash'[x] = hash[x] /\ body'[x] = body[x]
       /\ overlapped'[x] = overlapped[x]

HeapKept(g) ==
  /\ HeapOK(heap') /\ (SharedLiteral \/ Separate(heap'))
  /\ process' = "runs" => heap'[NilMap] = NoEntry
  /\ \A o \in DOMAIN heap : o[1] # g \/ Busy(g)' => o \in DOMAIN heap'
  /\ ~SharedLiteral => \A o \in DOMAIN heap : o[1] # g /\ o # NilMap => heap'[o] = heap[o]
  /\ Properties \notin DOMAIN fields =>
       /\ \A x \in Goroutine : (x # g \/ Busy(g)') /\ Rooted(heap, x) =>
            Rooted(heap', x) /\ (NilAssociations(heap', x) => NilAssociations(heap, x) )
       /\ pc'[g] = "map" /\ Associations \notin left'[g] => ~NilAssociations(heap', g)

\* A step that keeps to this keeps the invariant.
LEMMA StepInv ==
  ASSUME Inv, process = "runs", NEW g \in Goroutine, Busy(g), OnlyOf(g), HeapKept(g),
         Hashed(g)', Tells(g)', process' \in {"runs", "panicked"},
         process' = "panicked" => \E p \in {Properties, Own} : p \in DOMAIN fields
  PROVE  Inv'
<1>1. TypeOK /\ HashedInv /\ RootedInv
  BY DEF Inv
<1>2. /\ fields' = fields /\ (SharedLiteral' <=> SharedLiteral)
      /\ (HeapOK(heap)' <=> HeapOK(heap')) /\ (Separate(heap)' <=> Separate(heap'))
      /\ \A y : Rooted(heap, y)' <=> Rooted(heap', y)
  BY FieldsFixed DEF OnlyOf
<1>3. \A x \in Goroutine : x # g => (Busy(x)' <=> Busy(x)) /\ (Busy(x) => overlapped[x])
  BY <1>1 DEF OnlyOf, Busy, HashedInv
<1>4. heap[NilMap] = NoEntry
  BY <1>1 DEF HashedInv
<1>5. ASSUME NEW x \in Goroutine, x # g PROVE Hashed(x)' /\ Tells(x)'
  <2>1. /\ pc'[x] = pc[x] /\ hash'[x] = hash[x] /\ body'[x] = body[x]
        /\ overlapped'[x] = overlapped[x]
    BY <1>5 DEF OnlyOf
  <2>2. SharedLiteral /\ Busy(x) => overlapped'[x]
    BY <1>3, <1>5, <2>1
  <2>3. process' = "runs" => heap'[NilMap] = heap[NilMap]
    BY <1>4 DEF HeapKept
  <2>4. ~SharedLiteral =>
          \A o \in DOMAIN heap : o[1] # g /\ o # NilMap => heap'[o] = heap[o]
    BY DEF HeapKept
  <2>5. QED
    BY <1>2, <1>5, <2>1, <2>2, <2>3, <2>4, OthersKept
<1>6. TypeOK'
  <2>1. \A o \in DOMAIN heap' : \A n \in DOMAIN heap'[o] : heap'[o][n] # Missing
    BY NothingMissing DEF HeapKept
  <2>2. \A x \in Goroutine : pc'[x] = "map" <=> left'[x] # {}
    BY <1>1 DEF OnlyOf, TypeOK
  <2>3. QED
    BY <1>1, <2>1, <2>2 DEF OnlyOf, TypeOK
<1>7. HashedInv'
  <2>1. HeapOK(heap)' /\ (SharedLiteral' \/ Separate(heap)')
    BY <1>2 DEF HeapKept
  <2>2. process' = "runs" => heap'[NilMap] = NoEntry
    BY DEF HeapKept
  <2>3. ASSUME NEW x \in Goroutine, Busy(x)'
        PROVE  Record(x) \in DOMAIN heap' /\ InputOf(x) \in DOMAIN heap'
    <3>1. Record(x) \in DOMAIN heap /\ InputOf(x) \in DOMAIN heap
      BY <1>1, <1>3, <2>3 DEF HashedInv
    <3>2. Record(x)[1] = x /\ InputOf(x)[1] = x
      BY DEF Record, InputOf
    <3>3. QED
      BY <2>3, <3>1, <3>2 DEF HeapKept
  <2>4. ASSUME NEW x \in Goroutine, NEW y \in Goroutine, x # y, Busy(x)', Busy(y)'
        PROVE  overlapped'[x]
    <3>1. Busy(x) /\ Busy(y)
      BY <1>3, <2>4
    <3>2. overlapped[x]
      BY <1>1, <2>4, <3>1 DEF HashedInv
    <3>3. overlapped'[x] = overlapped[x]
      BY <2>4 DEF OnlyOf
    <3>4. QED
      BY <3>2, <3>3
  <2>5. \A x \in Goroutine : Hashed(x)'
    BY <1>5
  <2>6. QED
    BY <2>1, <2>2, <2>3, <2>4, <2>5 DEF HashedInv
<1>8. RootedInv'
  <2>1. SUFFICES ASSUME Properties \notin DOMAIN fields, NEW x \in Goroutine, Busy(x)'
                 PROVE  /\ Rooted(heap, x)'
                        /\ pc'[x] = "map" /\ Associations \notin left'[x]
                             => ~NilAssociations(heap', x)
    BY <1>2 DEF RootedInv
  <2>2. /\ Rooted(heap, x)
        /\ pc[x] = "map" /\ Associations \notin left[x] => ~NilAssociations(heap, x)
    BY <1>1, <1>3, <2>1 DEF RootedInv
  <2>3. Rooted(heap', x) /\ (NilAssociations(heap', x) => NilAssociations(heap, x))
    BY <2>1, <2>2 DEF HeapKept
  <2>4. CASE x = g
    BY <1>2, <2>1, <2>3, <2>4 DEF HeapKept
  <2>5. CASE x # g
    <3>1. pc'[x] = pc[x] /\ left'[x] = left[x]
      BY <2>5 DEF OnlyOf
    <3>2. QED
      BY <1>2, <2>2, <2>3, <3>1
  <2>6. QED
    BY <2>4, <2>5
<1>9. HashTellsBody'
  BY <1>5, TellsAll
<1>10. PanicNeedsOwnSection'
  BY <1>2 DEF PanicNeedsOwnSection
<1>11. QED
  BY <1>6, <1>7, <1>8, <1>9, <1>10 DEF Inv

\* What a step of a call that is in progress finds.
LEMMA Finds ==
  ASSUME Inv, NEW g \in Goroutine, process = "runs", Busy(g)
  PROVE  /\ fields \in [DOMAIN fields -> Field] /\ DOMAIN fields \subseteq ToSet(Sorted)
         /\ pc \in [Goroutine -> {"idle", "map", "hash", "setHashes", "put", "done"}]
         /\ of \in [Goroutine -> Resource] /\ left \in [Goroutine -> SUBSET DOMAIN fields]
         /\ DOMAIN hash = Goroutine /\ DOMAIN body = Goroutine
         /\ overlapped \in [Goroutine -> BOOLEAN] /\ (pc[g] = "map" <=> left[g] # {})
         /\ HeapOK(heap) /\ (SharedLiteral \/ Separate(heap)) /\ heap[NilMap] = NoEntry
         /\ NilMap \in DOMAIN heap /\ Record(g) \in DOMAIN heap /\ InputOf(g) \in DOMAIN heap
         /\ Hashed(g)
         /\ Properties \notin DOMAIN fields =>
              /\ Rooted(heap, g)
              /\ pc[g] = "map" /\ Associations \notin left[g] => ~NilAssociations(heap, g)
<1>1. TypeOK /\ HashedInv /\ RootedInv
  BY DEF Inv
<1>2. HeapOK(heap) /\ Hashed(g)
  BY <1>1 DEF HashedInv
<1>3. QED
  BY <1>1, <1>2 DEF TypeOK, HashedInv, RootedInv, HeapOK

\* ApplyField: one pointer set or removed.
LEMMA ApplyFieldInv ==
  ASSUME Inv, NEW g \in Goroutine, ApplyField(g)
  PROVE  Inv'
<1> DEFINE p == First(left[g])
<1>1. /\ process = "runs" /\ pc[g] = "map" /\ Busy(g)
  BY DEF ApplyField, Busy
<1>2. /\ fields[p].expr # Broken /\ heap' = Applied(g, p)
      /\ process' = IF heap'[NilMap] = NoEntry THEN process ELSE "panicked"
      /\ left' = [left EXCEPT ![g] = @ \ {p}]
      /\ pc' = IF left'[g] = {} THEN [pc EXCEPT ![g] = "hash"] ELSE pc
      /\ fields' = fields /\ of' = of /\ hash' = hash /\ body' = body
      /\ overlapped' = overlapped
  BY DEF ApplyField
<1> HIDE DEF p
<1>3. /\ fields \in [DOMAIN fields -> Field] /\ DOMAIN fields \subseteq ToSet(Sorted)
      /\ pc \in [Goroutine -> {"idle", "map", "hash", "setHashes", "put", "done"}]
      /\ left \in [Goroutine -> SUBSET DOMAIN fields] /\ left[g] # {}
      /\ DOMAIN hash = Goroutine /\ DOMAIN body = Goroutine
      /\ overlapped \in [Goroutine -> BOOLEAN]
      /\ HeapOK(heap) /\ (SharedLiteral \/ Separate(heap)) /\ heap[NilMap] = NoEntry
      /\ NilMap \in DOMAIN heap /\ Record(g) \in DOMAIN heap /\ InputOf(g) \in DOMAIN heap
      /\ Properties \notin DOMAIN fields =>
           /\ Rooted(heap, g)
           /\ Associations \notin left[g] => ~NilAssociations(heap, g)
  BY <1>1, Finds
<1>4. p \in left[g] /\ p \in DOMAIN fields /\ (p = Parent => Associations \notin left[g])
  BY <1>3, FirstOf DEF p
<1>5. /\ HeapOK(heap') /\ DOMAIN heap \subseteq DOMAIN heap'
      /\ ~SharedLiteral /\ Separate(heap) =>
           /\ Separate(heap')
           /\ \A o \in DOMAIN heap : o[1] # g /\ o # NilMap => heap'[o] = heap[o]
  BY <1>2, <1>3, <1>4, AppliedOK
<1>6. ASSUME Properties \notin DOMAIN fields
      PROVE  /\ \A y : Rooted(heap, y) =>
                  Rooted(heap', y) /\ (NilAssociations(heap', y) => NilAssociations(heap, y))
             /\ heap'[NilMap] = NoEntry
             /\ p = Associations => ~NilAssociations(heap', g)
  <2>1. p # Properties /\ Rooted(heap, g) /\ (p = Parent => ~NilAssociations(heap, g))
    BY <1>3, <1>4, <1>6
  <2>2. QED
    BY <1>2, <1>3, <1>4, <2>1, AppliedRooted
<1>7. /\ pc'[g] = IF left'[g] = {} THEN "hash" ELSE "map"
      /\ left'[g] = left[g] \ {p}
  BY <1>1, <1>2, <1>3
<1>8. OnlyOf(g)
  <2>1. pc' \in [Goroutine -> {"idle", "map", "hash", "setHashes", "put", "done"}]
    BY <1>2, <1>3
  <2>2. left' \in [Goroutine -> SUBSET DOMAIN fields]
    BY <1>2, <1>3
  <2>3. \A x \in Goroutine : x # g => pc'[x] = pc[x] /\ left'[x] = left[x]
    BY <1>2, <1>3
  <2>4. QED
    BY <1>2, <1>3, <1>7, <2>1, <2>2, <2>3 DEF OnlyOf
<1>9. HeapKept(g)
  <2>1. process' = "runs" => heap'[NilMap] = NoEntry
    BY <1>2
  <2>2. ASSUME Properties \notin DOMAIN fields, Associations \notin left'[g]
        PROVE  ~NilAssociations(heap', g)
    <3>1. p = Associations \/ Associations \notin left[g]
      BY <1>7, <2>2
    <3>2. QED
      BY <1>3, <1>6, <2>2, <3>1
  <2>3. SharedLiteral \/ Separate(heap')
    BY <1>3, <1>5
  <2>4. ~SharedLiteral => \A o \in DOMAIN heap : o[1] # g /\ o # NilMap => heap'[o] = heap[o]
    BY <1>3, <1>5
  <2>5. QED
    BY <1>5, <1>6, <2>1, <2>2, <2>3, <2>4 DEF HeapKept
<1>10. Hashed(g)' /\ Tells(g)'
  BY <1>7 DEF Hashed, Tells
<1>11. process' \in {"runs", "panicked"}
       /\ (process' = "panicked" => Properties \in DOMAIN fields)
  BY <1>1, <1>2, <1>6
<1>12. QED
  BY <1>1, <1>8, <1>9, <1>10, <1>11, StepInv

\* A call that gives up, or is done, drops its objects.
LEMMA DropKept ==
  ASSUME Inv, NEW g \in Goroutine, process = "runs", Busy(g), heap' = Dropped(g),
         pc'[g] \in {"idle", "done"}
  PROVE  HeapKept(g)
<1>1. /\ HeapOK(heap) /\ (SharedLiteral \/ Separate(heap)) /\ heap[NilMap] = NoEntry
      /\ NilMap \in DOMAIN heap
  BY Finds
<1>2. /\ HeapOK(heap')
      /\ \A o \in DOMAIN heap : o[1] # g => o \in DOMAIN heap' /\ heap'[o] = heap[o]
      /\ Separate(heap) => Separate(heap')
  BY <1>1, DroppedOK
<1>3. heap'[NilMap] = NoEntry
  BY <1>1, <1>2, FieldMapAssumption DEF NilMap
<1>4. ~Busy(g)'
  BY DEF Busy
<1>5. ASSUME NEW x \in Goroutine, x # g, Rooted(heap, x)
      PROVE  Rooted(heap', x) /\ (NilAssociations(heap', x) => NilAssociations(heap, x))
  <2>1. \A o \in DOMAIN heap : o[1] = x => o \in DOMAIN heap' /\ heap'[o] = heap[o]
    BY <1>2, <1>5
  <2>2. QED
    BY <1>5, <2>1, RootedFrame
<1>6. QED
  BY <1>1, <1>2, <1>3, <1>4, <1>5 DEF HeapKept

\* MapFails and PutFails: the call gives up.
LEMMA GiveUpInv ==
  ASSUME Inv, NEW g \in Goroutine, process = "runs", Busy(g), GiveUp(g)
  PROVE  Inv'
<1>1. /\ pc' = [pc EXCEPT ![g] = "idle"] /\ heap' = Dropped(g)
      /\ left' = [left EXCEPT ![g] = {}] /\ hash' = [hash EXCEPT ![g] = Semantic(Nothing)]
      /\ overlapped' = [overlapped EXCEPT ![g] = FALSE]
      /\ fields' = fields /\ process' = process /\ of' = of /\ body' = body
  BY DEF GiveUp
<1>2. /\ pc \in [Goroutine -> {"idle", "map", "hash", "setHashes", "put", "done"}]
      /\ left \in [Goroutine -> SUBSET DOMAIN fields]
      /\ DOMAIN hash = Goroutine /\ DOMAIN body = Goroutine
      /\ overlapped \in [Goroutine -> BOOLEAN]
  BY Finds
<1>3. pc'[g] = "idle" /\ left'[g] = {}
  BY <1>1, <1>2
<1>4. OnlyOf(g)
  <2>1. /\ pc' \in [Goroutine -> {"idle", "map", "hash", "setHashes", "put", "done"}]
        /\ left' \in [Goroutine -> SUBSET DOMAIN fields]
        /\ overlapped' \in [Goroutine -> BOOLEAN]
        /\ DOMAIN hash' = Goroutine
    BY <1>1, <1>2
  <2>2. \A x \in Goroutine : x # g =>
          /\ pc'[x] = pc[x] /\ left'[x] = left[x] /\ hash'[x] = hash[x]
          /\ overlapped'[x] = overlapped[x]
    BY <1>1, <1>2
  <2>3. QED
    BY <1>1, <1>2, <1>3, <2>1, <2>2 DEF OnlyOf, Busy
<1>5. HeapKept(g)
  BY <1>1, <1>3, DropKept
<1>6. Hashed(g)' /\ Tells(g)'
  BY <1>3 DEF Hashed, Tells
<1>7. QED
  BY <1>1, <1>4, <1>5, <1>6, StepInv

\* SemanticHash: what Hashed says becomes true.
LEMMA SemanticHashInv ==
  ASSUME Inv, NEW g \in Goroutine, SemanticHash(g)
  PROVE  Inv'
<1>1. /\ process = "runs" /\ pc[g] = "hash" /\ Busy(g)
      /\ hash' = [hash EXCEPT ![g] = Semantic(Content(heap, g))]
      /\ pc' = [pc EXCEPT ![g] = "setHashes"]
      /\ fields' = fields /\ heap' = heap /\ process' = process /\ of' = of
      /\ left' = left /\ body' = body /\ overlapped' = overlapped
  BY DEF SemanticHash, Busy
<1>2. /\ pc \in [Goroutine -> {"idle", "map", "hash", "setHashes", "put", "done"}]
      /\ left \in [Goroutine -> SUBSET DOMAIN fields] /\ left[g] = {}
      /\ DOMAIN hash = Goroutine /\ DOMAIN body = Goroutine
      /\ overlapped \in [Goroutine -> BOOLEAN]
      /\ HeapOK(heap) /\ (SharedLiteral \/ Separate(heap)) /\ heap[NilMap] = NoEntry
  BY <1>1, Finds
<1>3. pc'[g] = "setHashes" /\ hash'[g] = Semantic(Content(heap, g))
  BY <1>1, <1>2
<1>4. OnlyOf(g)
  <2>1. \A x \in Goroutine : x # g => pc'[x] = pc[x] /\ hash'[x] = hash[x]
    BY <1>1, <1>2
  <2>2. pc' \in [Goroutine -> {"idle", "map", "hash", "setHashes", "put", "done"}]
        /\ DOMAIN hash' = Goroutine
    BY <1>1, <1>2
  <2>3. QED
    BY <1>1, <1>2, <1>3, <2>1, <2>2 DEF OnlyOf
<1>5. HeapKept(g)
  BY <1>1, <1>2, <1>3 DEF HeapKept
<1>6. Content(heap, g)' = Content(heap, g)
  BY <1>1 DEF Content
<1>7. Hashed(g)' /\ Tells(g)'
  BY <1>1, <1>3, <1>6 DEF Hashed, Tells
<1>8. QED
  BY <1>1, <1>4, <1>5, <1>7, StepInv

\* SetHashes: it stays true, and a panic needs a field for the section or above it.
LEMMA SetHashesInv ==
  ASSUME Inv, NEW g \in Goroutine, SetHashes(g)
  PROVE  Inv'
<1> DEFINE own == Walk(heap, Ref(Record(g)), Own)
           hashes == [sourceHash |-> <<"hash", of[g]>>, recordHash |-> <<"hash", g>>]
<1>1. /\ process = "runs" /\ pc[g] = "setHashes" /\ Busy(g)
      /\ fields' = fields /\ of' = of /\ left' = left /\ hash' = hash /\ body' = body
      /\ overlapped' = overlapped
  BY DEF SetHashes, Busy
<1>2. \/ /\ IsRef(own) /\ heap' = [heap EXCEPT ![own[2]] = Over(hashes, @)]
         /\ pc' = [pc EXCEPT ![g] = "put"] /\ process' = process
      \/ ~IsRef(own) /\ process' = "panicked" /\ heap' = heap /\ pc' = pc
  BY DEF SetHashes
<1>3. /\ DOMAIN hashes = {"sourceHash", "recordHash"}
      /\ hashes["recordHash"] = <<"hash", g>>
      /\ \A n \in DOMAIN hashes : hashes[n] # Missing /\ ~IsRef(hashes[n])
  BY DEF Missing, IsRef
<1> HIDE DEF own, hashes
<1>4. /\ DOMAIN fields \subseteq ToSet(Sorted)
      /\ pc \in [Goroutine -> {"idle", "map", "hash", "setHashes", "put", "done"}]
      /\ left \in [Goroutine -> SUBSET DOMAIN fields] /\ left[g] = {}
      /\ DOMAIN hash = Goroutine /\ DOMAIN body = Goroutine
      /\ overlapped \in [Goroutine -> BOOLEAN]
      /\ HeapOK(heap) /\ (SharedLiteral \/ Separate(heap)) /\ heap[NilMap] = NoEntry
      /\ NilMap \in DOMAIN heap /\ Record(g) \in DOMAIN heap
      /\ Hashed(g) /\ (Properties \notin DOMAIN fields => Rooted(heap, g))
  BY <1>1, Finds
<1>5. pc'[g] \in {"setHashes", "put"} /\ (IsRef(own) => pc'[g] = "put")
      /\ pc' \in [Goroutine -> {"idle", "map", "hash", "setHashes", "put", "done"}]
      /\ \A x \in Goroutine : x # g => pc'[x] = pc[x]
  BY <1>1, <1>2, <1>4
<1>6. OnlyOf(g)
  BY <1>1, <1>4, <1>5 DEF OnlyOf
<1>7. Tells(g)'
  BY <1>5 DEF Tells
<1>8. CASE ~IsRef(own)
  <2>1. process' = "panicked" /\ heap' = heap
    BY <1>2, <1>8
  <2>2. HeapKept(g)
    BY <1>4, <1>5, <2>1 DEF HeapKept
  <2>3. Hashed(g)'
    BY <2>1 DEF Hashed
  <2>4. \E p \in {Properties, Own} : p \in DOMAIN fields
    <3>1. SUFFICES ASSUME Properties \notin DOMAIN fields, Own \notin DOMAIN fields
                   PROVE  IsRef(own)
      BY <1>8
    <3>2. ASSUME NEW n, NEW m
          PROVE  /\ Walk(heap, Ref(Record(g)), <<n>>) = Entry(heap, Ref(Record(g)), n)
                 /\ Walk(heap, Ref(Record(g)), <<n, m>>)
                      = Entry(heap, Entry(heap, Ref(Record(g)), n), m)
      BY WalkOne
    <3>3. own = Entry(heap, Entry(heap, Ref(Record(g)), "properties"), "hronir")
      BY <3>2 DEF own, Own
    <3>4. QED
      BY <1>4, <3>1, <3>3 DEF Rooted
  <2>5. QED
    BY <1>1, <1>6, <1>7, <2>1, <2>2, <2>3, <2>4, StepInv
<1>9. CASE IsRef(own)
  <2>1. /\ heap' = [heap EXCEPT ![own[2]] = Over(hashes, @)]
        /\ pc'[g] = "put" /\ process' = "runs"
    BY <1>1, <1>2, <1>5, <1>9
  <2>2. /\ own[2] \in DOMAIN heap /\ Mounted("hronir", own[2])
        /\ HeapOK(heap') /\ DOMAIN heap' = DOMAIN heap
        /\ Separate(heap) => Separate(heap')
        /\ \A o \in DOMAIN heap : o # own[2] => heap'[o] = heap[o]
        /\ ~OwnIsShown =>
             /\ Semantic(Content(heap', g)) = Semantic(Content(heap, g))
             /\ Walk(heap', Ref(Record(g)), Append(Own, "recordHash")) = hashes["recordHash"]
    <3>1. own = Walk(heap, Ref(Record(g)), Own)
      BY DEF own
    <3>2. heap' = WithHashes(heap, own[2], hashes)
      BY <2>1 DEF WithHashes
    <3>3. /\ DOMAIN hashes = {"sourceHash", "recordHash"}
          /\ \A n \in DOMAIN hashes : hashes[n] # Missing /\ ~IsRef(hashes[n])
      BY <1>3
    <3>4. QED
      BY <1>4, <1>9, <3>1, <3>2, <3>3, SetHashesOK
  <2>3. own[2] # NilMap
    BY <2>2, NilIsAssociations
  <2>4. ASSUME ~SharedLiteral PROVE own[2][1] = g
    <3>1. Separate(heap) /\ Own \in Seq(Names)
      BY <1>4, <2>4, PointerNames
    <3>2. own[2][1] \in {g, "config"} \/ own[2] = NilMap
      BY <1>4, <1>9, <3>1, WalkFrame DEF own
    <3>3. ASSUME own[2][1] = "config" PROVE FALSE
      <4>1. own[2][2] \in DOMAIN fields /\ fields[own[2][2]].literal = "object"
        BY <2>2, <3>1, <3>3 DEF Separate
      <4>2. own[2] = <<"config", own[2][2]>>
        BY <1>4, <2>2, <3>3 DEF HeapOK
      <4>3. QED
        BY <1>4, <2>2, <2>4, <4>1, <4>2, NotLiteral
    <3>4. QED
      BY <2>3, <3>2, <3>3
  <2>5. ASSUME NEW x \in Goroutine, Rooted(heap, x)
        PROVE  Rooted(heap', x) /\ (NilAssociations(heap', x) => NilAssociations(heap, x))
    <3>1. \A q \in DOMAIN heap : \A n :
            n \notin {"sourceHash", "recordHash"} =>
              Entry(heap', Ref(q), n) = Entry(heap, Ref(q), n)
      <4>1. ASSUME NEW q \in DOMAIN heap, NEW n, n \notin {"sourceHash", "recordHash"}
            PROVE  Entry(heap', Ref(q), n) = Entry(heap, Ref(q), n)
        <5>1. CASE q = own[2]
          <6>1. heap'[q] = Over(hashes, heap[q])
            BY <2>1, <4>1, <5>1
          <6>2. /\ n \in DOMAIN heap'[q] <=> n \in DOMAIN heap[q]
                /\ n \in DOMAIN heap[q] => heap'[q][n] = heap[q][n]
            BY <1>3, <4>1, <6>1 DEF Over
          <6>3. QED
            BY <6>2, EntryIs
        <5>2. CASE q # own[2]
          BY <2>2, <5>2, EntryIs
        <5>3. QED
          BY <5>1, <5>2
      <4>2. QED
        BY <4>1
    <3>2. DOMAIN heap \subseteq DOMAIN heap'
      BY <2>2
    <3> DEFINE M == {"sourceHash", "recordHash"}
    <3>3. /\ M \cap {"properties", "connectedSystems"} = {}
          /\ "hronir" \notin M /\ "associations" \notin M
      OBVIOUS
    <3>4. \A q \in DOMAIN heap : q[1] = x =>
            \A n : n \notin M => Entry(heap', Ref(q), n) = Entry(heap, Ref(q), n)
      BY <3>1
    <3> HIDE DEF M
    <3>5. QED
      BY <2>5, <3>2, <3>3, <3>4, RootedKept
  <2>6. HeapKept(g)
    <3>1. heap'[NilMap] = NoEntry
      BY <1>4, <2>2, <2>3
    <3>2. ~SharedLiteral => \A o \in DOMAIN heap : o[1] # g /\ o # NilMap => heap'[o] = heap[o]
      BY <2>2, <2>4
    <3>3. SharedLiteral \/ Separate(heap')
      BY <1>4, <2>2
    <3>4. QED
      BY <2>1, <2>2, <2>5, <3>1, <3>2, <3>3 DEF HeapKept
  <2>7. Hashed(g)'
    <3>1. SUFFICES ASSUME ~OwnIsShown, ~(SharedLiteral /\ overlapped[g])
                   PROVE  /\ hash[g] = Semantic(Content(heap', g))
                          /\ Walk(heap', Ref(Record(g)), Append(Own, "recordHash"))
                               = <<"hash", g>>
      <4>1. (SharedLiteral' <=> SharedLiteral) /\ (OwnIsShown' <=> OwnIsShown)
        BY <1>1, FieldsFixed
      <4>2. Content(heap, g)' = Content(heap', g)
        BY DEF Content
      <4>3. QED
        BY <1>1, <4>1, <4>2 DEF Hashed
    <3>2. hash[g] = Semantic(Content(heap, g))
      BY <1>1, <1>4, <3>1 DEF Hashed
    <3>3. QED
      BY <1>3, <2>2, <3>1, <3>2
  <2>8. QED
    BY <1>1, <1>6, <1>7, <2>1, <2>6, <2>7, StepInv
<1>10. QED
  BY <1>8, <1>9

\* Put: what was hashed is what is put.
LEMMA PutInv ==
  ASSUME Inv, NEW g \in Goroutine, Put(g)
  PROVE  Inv'
<1>1. /\ process = "runs" /\ pc[g] = "put" /\ Busy(g)
      /\ body' = [body EXCEPT ![g] = Content(heap, g)]
      /\ pc' = [pc EXCEPT ![g] = "done"] /\ heap' = Dropped(g)
      /\ fields' = fields /\ process' = process /\ of' = of
      /\ left' = left /\ hash' = hash /\ overlapped' = overlapped
  BY DEF Put, Busy
<1>2. /\ pc \in [Goroutine -> {"idle", "map", "hash", "setHashes", "put", "done"}]
      /\ left \in [Goroutine -> SUBSET DOMAIN fields] /\ left[g] = {}
      /\ DOMAIN hash = Goroutine /\ DOMAIN body = Goroutine
      /\ overlapped \in [Goroutine -> BOOLEAN] /\ Hashed(g)
  BY <1>1, Finds
<1>3. pc'[g] = "done" /\ body'[g] = Content(heap, g)
  BY <1>1, <1>2
<1>4. OnlyOf(g)
  <2>1. \A x \in Goroutine : x # g => pc'[x] = pc[x] /\ body'[x] = body[x]
    BY <1>1, <1>2
  <2>2. pc' \in [Goroutine -> {"idle", "map", "hash", "setHashes", "put", "done"}]
        /\ DOMAIN body' = Goroutine
    BY <1>1, <1>2
  <2>3. QED
    BY <1>1, <1>2, <1>3, <2>1, <2>2 DEF OnlyOf
<1>5. HeapKept(g)
  BY <1>1, <1>3, DropKept
<1>6. Hashed(g)'
  BY <1>3 DEF Hashed
<1>7. Tells(g)'
  <2>1. SUFFICES ASSUME ~OwnIsShown, ~(SharedLiteral /\ overlapped[g])
                 PROVE  /\ hash[g] = Semantic(Content(heap, g))
                        /\ Content(heap, g)[Append(Own, "recordHash")] = <<"hash", g>>
    <3>1. (SharedLiteral' <=> SharedLiteral) /\ (OwnIsShown' <=> OwnIsShown)
      BY <1>1, FieldsFixed
    <3>2. QED
      BY <1>1, <1>3, <3>1 DEF Tells
  <2>2. /\ hash[g] = Semantic(Content(heap, g))
        /\ Walk(heap, Ref(Record(g)), Append(Own, "recordHash")) = <<"hash", g>>
    BY <1>1, <1>2, <2>1 DEF Hashed
  <2>3. Append(Own, "recordHash") \in Visible
    BY Pointers DEF Visible
  <2>4. Render(<<"hash", g>>) = <<"hash", g>>
    BY DEF Render, IsRef
  <2>5. QED
    BY <2>2, <2>3, <2>4 DEF Content
<1>8. QED
  BY <1>1, <1>4, <1>5, <1>6, <1>7, StepInv

\* ConcurrentMapWrites: the process ends.
LEMMA RaceInv ==
  ASSUME Inv, NEW g \in Goroutine, NEW x \in Goroutine, ConcurrentMapWrites(g, x)
  PROVE  Inv'
<1>1. /\ process' = "raced" /\ fields' = fields /\ heap' = heap /\ pc' = pc /\ of' = of
      /\ left' = left /\ hash' = hash /\ body' = body /\ overlapped' = overlapped
  BY DEF ConcurrentMapWrites
<1>2. TypeOK /\ HashedInv /\ RootedInv /\ HashTellsBody
  BY DEF Inv
<1>3. /\ HeapOK(heap)' <=> HeapOK(heap')
      /\ Separate(heap)' <=> Separate(heap')
      /\ SharedLiteral' <=> SharedLiteral
      /\ OwnIsShown' <=> OwnIsShown
      /\ \A y : Rooted(heap, y)' <=> Rooted(heap', y)
  BY <1>1, FieldsFixed
<1>4. TypeOK'
  BY <1>1, <1>2 DEF TypeOK
<1>5. HashedInv'
  BY <1>1, <1>2, <1>3 DEF HashedInv, Hashed, Busy
<1>6. RootedInv'
  BY <1>1, <1>2, <1>3 DEF RootedInv, Busy
<1>7. HashTellsBody'
  BY <1>1, <1>2, <1>3 DEF HashTellsBody, Semantic
<1>8. PanicNeedsOwnSection'
  BY <1>1 DEF PanicNeedsOwnSection
<1>9. QED
  BY <1>4, <1>5, <1>6, <1>7, <1>8 DEF Inv

\* Nothing happens.
LEMMA StutterInv ==
  ASSUME Inv, UNCHANGED vars
  PROVE  Inv'
<1>1. /\ process' = process /\ fields' = fields /\ heap' = heap /\ pc' = pc /\ of' = of
      /\ left' = left /\ hash' = hash /\ body' = body /\ overlapped' = overlapped
  BY DEF vars
<1>2. TypeOK /\ HashedInv /\ RootedInv /\ HashTellsBody /\ PanicNeedsOwnSection
  BY DEF Inv
<1>3. /\ HeapOK(heap)' <=> HeapOK(heap')
      /\ Separate(heap)' <=> Separate(heap')
      /\ SharedLiteral' <=> SharedLiteral
      /\ OwnIsShown' <=> OwnIsShown
      /\ \A y : Rooted(heap, y)' <=> Rooted(heap', y)
  BY <1>1, FieldsFixed
<1>4. \A g : Hashed(g)' <=> Hashed(g)
  <2>1. \A g : Content(heap, g)' = Content(heap, g)
    BY <1>1 DEF Content
  <2>2. QED
    BY <1>1, <1>3, <2>1 DEF Hashed
<1>5. TypeOK'
  BY <1>1, <1>2 DEF TypeOK
<1>6. HashedInv'
  BY <1>1, <1>2, <1>3, <1>4 DEF HashedInv, Busy
<1>7. RootedInv'
  BY <1>1, <1>2, <1>3 DEF RootedInv, Busy
<1>8. HashTellsBody'
  BY <1>1, <1>2, <1>3 DEF HashTellsBody, Semantic
<1>9. PanicNeedsOwnSection'
  BY <1>1, <1>2 DEF PanicNeedsOwnSection
<1>10. QED
  BY <1>5, <1>6, <1>7, <1>8, <1>9 DEF Inv

\* The invariant is inductive.
LEMMA NextInv ==
  ASSUME Inv, [Next]_vars
  PROVE  Inv'
<1>1. ASSUME NEW g \in Goroutine, NEW r \in Resource, StartMap(g, r) PROVE Inv'
  BY <1>1, StartMapInv
<1>2. ASSUME NEW g \in Goroutine, ApplyField(g) PROVE Inv'
  BY <1>2, ApplyFieldInv
<1>3. ASSUME NEW g \in Goroutine, MapFails(g) PROVE Inv'
  BY <1>3, GiveUpInv DEF MapFails, Busy
<1>4. ASSUME NEW g \in Goroutine, SemanticHash(g) PROVE Inv'
  BY <1>4, SemanticHashInv
<1>5. ASSUME NEW g \in Goroutine, SetHashes(g) PROVE Inv'
  BY <1>5, SetHashesInv
<1>6. ASSUME NEW g \in Goroutine, Put(g) PROVE Inv'
  BY <1>6, PutInv
<1>7. ASSUME NEW g \in Goroutine, PutFails(g) PROVE Inv'
  BY <1>7, GiveUpInv DEF PutFails, Busy
<1>8. ASSUME NEW g \in Goroutine, NEW x \in Goroutine, ConcurrentMapWrites(g, x) PROVE Inv'
  BY <1>8, RaceInv
<1>9. CASE UNCHANGED vars
  BY <1>9, StutterInv
<1>10. QED
  BY <1>1, <1>2, <1>3, <1>4, <1>5, <1>6, <1>7, <1>8, <1>9 DEF Next

\* Everything below follows from the one invariant.
LEMMA SpecInv == Spec => []Inv
<1>1. Init => Inv
  BY InitInv
<1>2. Inv /\ [Next]_vars => Inv'
  BY NextInv
<1>3. QED
  BY <1>1, <1>2, PTL DEF Spec

(* Whatever is configured and however many goroutines map, an Engine's state *)
(* is well typed, and the value missing{} of an expression never gets into a *)
(* document (Engine.Map deletes the pointer instead of setting it).          *)
THEOREM SpecFieldMapTypeOK == Spec => []TypeOK
<1>1. Inv => TypeOK
  BY DEF Inv
<1>2. QED
  BY <1>1, SpecInv, PTL

(* The semantic hash that SetHashes puts into a record is the hash of the    *)
(* very record that is put, for every configuration in which the section     *)
(* properties.hronir shares no object with another field, and unless two     *)
(* calls overlap on a literal they write to.                                 *)
THEOREM SpecHashTellsBody == Spec => []HashTellsBody
<1>1. Inv => HashTellsBody
  BY DEF Inv
<1>2. QED
  BY <1>1, SpecInv, PTL

(* The type assertions of SetHashes and the assignment of setPointer panic   *)
(* under no configuration that leaves properties and properties.hronir to    *)
(* NewRecord.                                                                *)
THEOREM SpecPanicNeedsOwnSection == Spec => []PanicNeedsOwnSection
<1>1. Inv => PanicNeedsOwnSection
  BY DEF Inv
<1>2. QED
  BY <1>1, SpecInv, PTL

=============================================================================
