---------------------------- MODULE RecordProofs ----------------------------
(***************************************************************************)
(* What Engine.Map makes of a resource is what the configuration says of    *)
(* it, for overlays of any fields, any goroutines and resources.            *)
(*                                                                          *)
(* RecordIsIdeal speaks of the record that is put: the invariant has to     *)
(* speak of every moment before.  RecordInv says that the record of a call  *)
(* is then the ideal of the pointers applied so far, wherever nothing that  *)
(* is to come may replace it (Settled); that the input is as it was made    *)
(* until a field is set below an object of it (Pristine); and that a        *)
(* literal holds no more than what the paths of other fields put there.     *)
(* A record that contains itself is not settled below the field that made   *)
(* it so, and json.Marshal refuses it.                                      *)
(*                                                                          *)
(* The first part is about what SetPointer and DeletePointer do to what a   *)
(* record says at every other path; the second about Ideal, one pointer     *)
(* after the other; the third has one lemma per action.                     *)
(***************************************************************************)
EXTENDS RecordInvariants, FieldMapProofs, FiniteSetTheorems

-----------------------------------------------------------------------------
(* Prefixes.                                                                 *)

\* A prefix, name by name.
LEMMA PrefixIs ==
  ASSUME NEW S, NEW q \in Seq(S), NEW y \in Seq(S)
  PROVE  IsPrefix(q, y) <=> Len(q) <= Len(y) /\ \A i \in 1 .. Len(q) : q[i] = y[i]
<1>1. Len(q) \in Nat /\ Len(y) \in Nat
  OBVIOUS
<1>2. ASSUME Len(q) <= Len(y)
      PROVE  /\ SubSeq(q, 1, Len(q)) \in Seq(S) /\ Len(SubSeq(q, 1, Len(q))) = Len(q)
             /\ SubSeq(y, 1, Len(q)) \in Seq(S) /\ Len(SubSeq(y, 1, Len(q))) = Len(q)
             /\ \A i \in 1 .. Len(q) :
                  SubSeq(q, 1, Len(q))[i] = q[i] /\ SubSeq(y, 1, Len(q))[i] = y[i]
  BY <1>1, <1>2
<1>3. ASSUME Len(q) <= Len(y), SubSeq(q, 1, Len(q)) = SubSeq(y, 1, Len(q))
      PROVE  \A i \in 1 .. Len(q) : q[i] = y[i]
  <2>1. \A i \in 1 .. Len(q) : SubSeq(q, 1, Len(q))[i] = q[i] /\ SubSeq(y, 1, Len(q))[i] = y[i]
    BY <1>2, <1>3
  <2>2. QED
    BY <1>3, <2>1
<1>4. ASSUME Len(q) <= Len(y), \A i \in 1 .. Len(q) : q[i] = y[i]
      PROVE  SubSeq(q, 1, Len(q)) = SubSeq(y, 1, Len(q))
  <2> DEFINE a == SubSeq(q, 1, Len(q))
             b == SubSeq(y, 1, Len(q))
  <2>1. a \in Seq(S) /\ b \in Seq(S) /\ Len(a) = Len(q) /\ Len(b) = Len(q)
    BY <1>2, <1>4
  <2>2. \A i \in 1 .. Len(q) : a[i] = b[i]
    BY <1>2, <1>4
  <2> HIDE DEF a, b
  <2>3. a = b
    BY <1>1, <2>1, <2>2, SeqEqual
  <2>4. QED
    BY <2>3 DEF a, b
<1>5. QED
  BY <1>3, <1>4 DEF IsPrefix

\* Sequences that agree are one.
LEMMA SameSequence ==
  ASSUME NEW S, NEW q \in Seq(S), NEW y \in Seq(S), Len(q) = Len(y),
         \A i \in 1 .. Len(q) : q[i] = y[i]
  PROVE  q = y
  BY SeqEqual

\* The prefixes of a path that is one name longer.
LEMMA PrefixAppend ==
  ASSUME NEW S, NEW q \in Seq(S), NEW u \in Seq(S), NEW n \in S
  PROVE  IsPrefix(q, Append(u, n)) <=> IsPrefix(q, u) \/ q = Append(u, n)
<1> SUFFICES ASSUME NEW y, y = Append(u, n)
             PROVE  IsPrefix(q, y) <=> IsPrefix(q, u) \/ q = y
  OBVIOUS
<1>1. /\ y \in Seq(S) /\ Len(y) = Len(u) + 1 /\ Len(u) \in Nat /\ Len(q) \in Nat
      /\ \A i \in 1 .. Len(u) : y[i] = u[i]
  OBVIOUS
<1>2. IsPrefix(q, y) <=> Len(q) <= Len(y) /\ \A i \in 1 .. Len(q) : q[i] = y[i]
  <2>1. q \in Seq(S) /\ y \in Seq(S)
    BY <1>1
  <2>2. QED
    BY ONLY <2>1, PrefixIs
<1>3. IsPrefix(q, u) <=> Len(q) <= Len(u) /\ \A i \in 1 .. Len(q) : q[i] = u[i]
  BY <1>1, PrefixIs
<1>4. CASE Len(q) = Len(y)
  <2>1. (\A i \in 1 .. Len(q) : q[i] = y[i]) <=> q = y
    BY <1>1, <1>4, SameSequence
  <2>2. QED
    BY <1>1, <1>2, <1>3, <1>4, <2>1
<1>5. CASE Len(q) <= Len(u)
  BY <1>1, <1>2, <1>3, <1>5
<1>6. QED
  BY <1>1, <1>2, <1>3, <1>4, <1>5

\* Nothing is a prefix of everything, and nothing else of nothing.
LEMMA PrefixEmpty ==
  ASSUME NEW S, NEW q \in Seq(S)
  PROVE  IsPrefix(<<>>, q) /\ (IsPrefix(q, <<>>) <=> q = <<>>)
<1>1. /\ \A e \in Seq(S) : IsPrefix(e, q) <=>
             Len(e) <= Len(q) /\ \A i \in 1 .. Len(e) : e[i] = q[i]
      /\ \A e \in Seq(S) : IsPrefix(q, e) <=>
             Len(q) <= Len(e) /\ \A i \in 1 .. Len(q) : q[i] = e[i]
  BY PrefixIs
<1> DEFINE e == <<>>
<1>2. e \in Seq(S) /\ Len(e) = 0 /\ Len(q) \in Nat
  OBVIOUS
<1> HIDE DEF e
<1>3. Len(q) = 0 => q = e
  BY <1>2, SameSequence
<1>4. IsPrefix(e, q) /\ (IsPrefix(q, e) <=> q = e)
  <2>1. IsPrefix(e, q) <=> Len(e) <= Len(q) /\ \A i \in 1 .. Len(e) : e[i] = q[i]
    BY <1>1, <1>2
  <2>2. IsPrefix(q, e) <=> Len(q) <= Len(e) /\ \A i \in 1 .. Len(q) : q[i] = e[i]
    BY <1>1, <1>2
  <2>3. QED
    BY <1>2, <1>3, <2>1, <2>2
<1>5. QED
  BY <1>4 DEF e

\* Prefixes are ordered, those of one path by their lengths.
LEMMA PrefixOrder ==
  ASSUME NEW S, NEW q \in Seq(S), NEW p \in Seq(S), NEW y \in Seq(S)
  PROVE  /\ IsPrefix(y, y)
         /\ IsPrefix(q, p) /\ IsPrefix(p, y) => IsPrefix(q, y)
         /\ IsPrefix(q, p) /\ IsPrefix(p, q) => q = p
         /\ IsPrefix(q, y) /\ IsPrefix(p, y) /\ Len(q) <= Len(p) => IsPrefix(q, p)
         /\ IsPrefix(q, p) => Len(q) <= Len(p)
<1>1. Len(q) \in Nat /\ Len(p) \in Nat /\ Len(y) \in Nat
  OBVIOUS
<1>2. /\ IsPrefix(q, y) <=> Len(q) <= Len(y) /\ \A i \in 1 .. Len(q) : q[i] = y[i]
      /\ IsPrefix(q, p) <=> Len(q) <= Len(p) /\ \A i \in 1 .. Len(q) : q[i] = p[i]
      /\ IsPrefix(p, q) <=> Len(p) <= Len(q) /\ \A i \in 1 .. Len(p) : p[i] = q[i]
      /\ IsPrefix(p, y) <=> Len(p) <= Len(y) /\ \A i \in 1 .. Len(p) : p[i] = y[i]
      /\ IsPrefix(y, y)
  BY <1>1, PrefixIs
<1>3. IsPrefix(q, p) /\ IsPrefix(p, q) => q = p
  <2>1. IsPrefix(q, p) /\ IsPrefix(p, q) =>
          Len(q) = Len(p) /\ \A i \in 1 .. Len(q) : q[i] = p[i]
    BY <1>1, <1>2
  <2>2. QED
    BY <2>1, SameSequence
<1>4. QED
  BY <1>1, <1>2, <1>3

-----------------------------------------------------------------------------
(* The paths of a record.                                                    *)

\* Where there may be an object that a field is set in.
Stations == ToSet(Sorted) \cup {Connected}

\* The stations, each below the one it is in.
LEMMA StationNames ==
  /\ Properties = Append(<<>>, "properties")
  /\ Connected = Append(Properties, "connectedSystems")
  /\ Associations = Append(Connected, "associations")
  /\ Parent = Append(Associations, "parent")
  /\ Extra = Append(Properties, "extra")
  /\ ExtraParent = Append(Extra, "parent")
  /\ Own = Append(Properties, "hronir")
  /\ Title = Append(Properties, "title")
  BY DEF Properties, Connected, Associations, Parent, Extra, ExtraParent, Own, Title

\* A station is in another one, or in the record itself, under a name of its
\* own but for "parent".
LEMMA StationIn ==
  ASSUME NEW z \in Stations
  PROVE  /\ z \in Seq(Names) /\ z # <<>>
         /\ \E u \in Stations \cup {<<>>}, n \in Names \ {"label", "recordHash", "sourceId"} :
              /\ u \in Seq(Names) /\ z = Append(u, n)
              /\ \A y \in Stations : Last(y) = n =>
                   y = z \/ (n = "parent" /\ {y, z} \subseteq {Parent, ExtraParent})
<1>1. \/ z = Properties \/ z = Connected \/ z = Associations \/ z = Parent \/ z = Extra
      \/ z = ExtraParent \/ z = Own \/ z = Title
  BY Pointers DEF Stations
<1>2. z \in Seq(Names)
  BY <1>1, PointerNames
<1>3. /\ Last(Properties) = "properties" /\ Last(Associations) = "associations"
      /\ Last(Parent) = "parent" /\ Last(Extra) = "extra" /\ Last(Connected) = "connectedSystems"
      /\ Last(ExtraParent) = "parent" /\ Last(Own) = "hronir" /\ Last(Title) = "title"
  BY PointerNames DEF Last
<1>4. \A y \in Stations : Last(y) = Last(z) =>
        y = z \/ (Last(z) = "parent" /\ {y, z} \subseteq {Parent, ExtraParent})
  BY <1>1, <1>3, Pointers DEF Stations
<1>5. Last(z) \in Names \ {"label", "recordHash", "sourceId"}
  BY <1>1, <1>3 DEF Names
<1>6. {Properties, Connected, Associations, Extra} \subseteq Stations
  BY Pointers DEF Stations
<1>7. \E u \in Stations \cup {<<>>} : z = Append(u, Last(z))
  <2>1. CASE z = Properties
    BY <2>1, <1>3, StationNames
  <2>2. CASE z \in {Connected, Extra, Own, Title}
    BY <2>2, <1>3, <1>6, StationNames
  <2>3. CASE z \in {Associations, Parent, ExtraParent}
    BY <2>3, <1>3, <1>6, StationNames
  <2>4. QED
    BY <1>1, <2>1, <2>2, <2>3
<1>8. \A u \in Stations \cup {<<>>} : u \in Seq(Names)
  <2>1. <<>> \in Seq(Names)
    OBVIOUS
  <2>2. Stations \subseteq Seq(Names)
    BY PointerNames, Pointers DEF Stations
  <2>3. QED
    BY <2>1, <2>2
<1>9. QED
  <2>1. PICK u \in Stations \cup {<<>>} : z = Append(u, Last(z))
    BY <1>7
  <2>2. u \in Seq(Names)
    BY <1>8
  <2>3. z # <<>>
    BY <1>5, <2>1, <2>2, Extended
  <2>4. QED
    BY <1>2, <1>4, <1>5, <2>1, <2>2, <2>3

\* Every path but the root is a station, or ends below one in a name that no
\* station has.
LEMMA PathIs ==
  ASSUME NEW y \in Paths
  PROVE  \/ y = <<>> \/ y \in Stations
         \/ \E q \in ToSet(Sorted), n \in {"label", "recordHash", "sourceId"} : y = Append(q, n)
<1>1. y = <<>> \/ (y \in Visible /\ y # Append(Own, "sourceHash"))
  BY DEF Paths, Excluded
<1>2. Own \in ToSet(Sorted)
  BY Pointers
<1>3. QED
  BY <1>1, <1>2 DEF Visible, Stations

\* The stations are paths.
LEMMA StationPaths == Stations \subseteq Paths
<1>1. ASSUME NEW z \in Stations PROVE z \in Visible /\ z \notin Excluded
  <2>1. z \in Visible
    BY DEF Stations, Visible
  <2>2. PICK u \in Stations \cup {<<>>}, n \in Names \ {"label", "recordHash", "sourceId"} :
          /\ u \in Seq(Names) /\ z = Append(u, n)
          /\ \A y \in Stations : Last(y) = n =>
                   y = z \/ (n = "parent" /\ {y, z} \subseteq {Parent, ExtraParent})
    BY StationIn
  <2>3. Own \in Seq(Names) /\ "recordHash" \in Names /\ "sourceHash" \in Names
    BY PointerNames DEF Names
  <2>4. u \in Seq(Names)
    BY <2>2
  <2>5. /\ Last(z) = n /\ Last(Append(Own, "recordHash")) = "recordHash"
        /\ Last(Append(Own, "sourceHash")) = "sourceHash"
    BY <2>2, <2>3, <2>4, Extended
  <2>6. Last(z) # "sourceHash"
    <3>1. \A x \in ToSet(Sorted) : Last(x) # "sourceHash" /\ Last(x) \in Names
      <4>1. /\ Last(Properties) = "properties" /\ Last(Associations) = "associations"
            /\ Last(Parent) = "parent" /\ Last(Extra) = "extra"
            /\ Last(ExtraParent) = "parent" /\ Last(Own) = "hronir" /\ Last(Title) = "title"
        BY PointerNames DEF Last
      <4>2. QED
        BY <4>1, Pointers DEF Names
    <3>2. Last(Connected) = "connectedSystems"
      BY PointerNames DEF Last
    <3>3. QED
      BY <3>1, <3>2 DEF Stations
  <2>7. QED
    BY <2>1, <2>2, <2>5, <2>6 DEF Excluded
<1>2. QED
  BY <1>1 DEF Paths

\* Above every path but the root is another one.
LEMMA PathIn ==
  ASSUME NEW y \in Paths
  PROVE  /\ y \in Seq(Names)
         /\ y # <<>> => \E u \in Stations \cup {<<>>}, n \in Names :
                         u \in Seq(Names) /\ y = Append(u, n)
<1>1. CASE y = <<>>
  <2>1. <<>> \in Seq(Names)
    OBVIOUS
  <2>2. QED
    BY <1>1, <2>1
<1>2. CASE y \in Stations
  <2>1. PICK u \in Stations \cup {<<>>}, n \in Names : u \in Seq(Names) /\ y = Append(u, n)
    BY <1>2, StationIn
  <2>2. QED
    BY <1>2, <2>1, StationIn
<1>3. ASSUME NEW q \in ToSet(Sorted), NEW n \in {"label", "recordHash", "sourceId"},
             y = Append(q, n)
      PROVE  /\ y \in Seq(Names)
             /\ \E u \in Stations \cup {<<>>}, m \in Names :
                  u \in Seq(Names) /\ y = Append(u, m)
  <2>1. q \in Seq(Names) /\ q \in Stations /\ n \in Names
    BY <1>3, StationIn DEF Stations, Names
  <2>2. y \in Seq(Names)
    BY <1>3, <2>1
  <2>3. QED
    BY <1>3, <2>1, <2>2
<1>4. QED
  BY <1>1, <1>2, <1>3, PathIs

\* A station that ends like a path is that path, but for "parent".
LEMMA SamePath ==
  ASSUME NEW z \in Stations, NEW y \in Paths, y # <<>>, Last(y) = Last(z)
  PROVE  y = z \/ {y, z} \subseteq {Parent, ExtraParent}
<1>1. PICK u \in Stations \cup {<<>>}, n \in Names \ {"label", "recordHash", "sourceId"} :
          /\ u \in Seq(Names) /\ z = Append(u, n)
          /\ \A x \in Stations : Last(x) = n =>
                   x = z \/ (n = "parent" /\ {x, z} \subseteq {Parent, ExtraParent})
  BY StationIn
<1>2. Last(z) = n
  <2>1. u \in Seq(Names)
    BY <1>1
  <2>2. QED
    BY <1>1, <2>1, Extended
<1>3. y \in Stations
  <2>1. ASSUME NEW q \in ToSet(Sorted), NEW m \in {"label", "recordHash", "sourceId"},
             y = Append(q, m)
        PROVE  FALSE
    <3>1. q \in Seq(Names) /\ m \in Names
      BY <2>1, InnerName DEF Names
    <3>2. Last(y) = m
      BY <2>1, <3>1, Extended
    <3>3. QED
      BY <1>1, <1>2, <3>2
  <2>2. QED
    BY <2>1, PathIs
<1>4. QED
  BY <1>1, <1>2, <1>3

\* A path that is longer by one name has one front.
LEMMA AppendOne ==
  ASSUME NEW u \in Seq(Names), NEW x \in Seq(Names), NEW n \in Names,
         Append(u, n) = Append(x, n)
  PROVE  u = x
<1> SUFFICES ASSUME NEW y, y = Append(u, n), y = Append(x, n)
             PROVE  u = x
  OBVIOUS
<1>1. /\ Len(u) \in Nat /\ Len(x) \in Nat /\ Len(y) = Len(u) + 1 /\ Len(y) = Len(x) + 1
      /\ \A i \in 1 .. Len(u) : y[i] = u[i]
      /\ \A i \in 1 .. Len(x) : y[i] = x[i]
  OBVIOUS
<1>2. Len(u) = Len(x) /\ \A i \in 1 .. Len(u) : u[i] = x[i]
  BY <1>1
<1>3. QED
  BY <1>2, SameSequence

\* Two paths with the last name of a station are in the same object, but for
\* the two parents.
LEMMA SameObject ==
  ASSUME NEW x \in Seq(Names), NEW u \in Seq(Names), NEW n \in Names,
         Append(x, n) \in Stations, Append(u, n) \in Paths
  PROVE  u = x \/ (n = "parent" /\ {u, x} \subseteq {Associations, Extra})
<1> DEFINE z == Append(x, n)
           y == Append(u, n)
<1>1. Last(z) = n /\ Last(y) = n /\ y # <<>>
  BY Extended
<1>2. y = z \/ {y, z} \subseteq {Parent, ExtraParent}
  <2> HIDE DEF y, z
  <2>1. z \in Stations /\ y \in Paths
    BY DEF y, z
  <2>2. QED
    BY <1>1, <2>1, SamePath
<1>3. CASE y = z
  BY <1>3, AppendOne
<1>4. CASE {y, z} \subseteq {Parent, ExtraParent}
  <2>1. /\ Associations \in Seq(Names) /\ Extra \in Seq(Names) /\ "parent" \in Names
        /\ Parent = Append(Associations, "parent") /\ ExtraParent = Append(Extra, "parent")
    BY PointerNames, StationNames DEF Names
  <2>2. Last(Parent) = "parent" /\ Last(ExtraParent) = "parent"
    BY <2>1, Extended
  <2>3. n = "parent"
    BY <1>1, <1>4, <2>2
  <2>4. y = Parent => u = Associations
    BY <2>1, <2>3, AppendOne
  <2>5. y = ExtraParent => u = Extra
    BY <2>1, <2>3, AppendOne
  <2>6. z = Parent => x = Associations
    BY <2>1, <2>3, AppendOne
  <2>7. z = ExtraParent => x = Extra
    BY <2>1, <2>3, AppendOne
  <2>8. QED
    BY <1>4, <2>3, <2>4, <2>5, <2>6, <2>7
<1>5. QED
  BY <1>2, <1>3, <1>4

-----------------------------------------------------------------------------
(* Walks in parts.                                                           *)

\* What is left of a path below a prefix of it.
Rest(p, y) == SubSeq(y, Len(p) + 1, Len(y))

\* Name by name.
LEMMA RestIs ==
  ASSUME NEW S, NEW p \in Seq(S), NEW y \in Seq(S), IsPrefix(p, y)
  PROVE  /\ Rest(p, y) \in Seq(S) /\ Len(Rest(p, y)) = Len(y) - Len(p)
         /\ \A i \in 1 .. Len(y) - Len(p) : Rest(p, y)[i] = y[Len(p) + i]
         /\ (Rest(p, y) = <<>> <=> p = y)
<1>1. /\ Len(p) \in Nat /\ Len(y) \in Nat /\ Len(p) <= Len(y)
      /\ \A i \in 1 .. Len(p) : p[i] = y[i] /\ y[i] \in S
      /\ \A i \in 1 .. Len(y) : y[i] \in S
  BY PrefixIs
<1> DEFINE m == Len(p) + 1
           n == Len(y)
<1>2. m \in 1 .. n + 1 /\ n \in Nat /\ \A i \in m .. n : y[i] \in S
  BY <1>1
<1>3. /\ SubSeq(y, m, n) \in Seq(S)
      /\ Len(SubSeq(y, m, n)) = IF m <= n THEN n - m + 1 ELSE 0
      /\ \A i \in 1 .. n - m + 1 : SubSeq(y, m, n)[i] = y[m + i - 1]
  <2>1. m \in Int /\ n \in Int
    BY <1>2
  <2>2. QED
    BY <1>2, <2>1, SubSeqProperties
<1>4. SubSeq(y, m, n) = Rest(p, y)
  BY DEF Rest
<1> DEFINE s == Rest(p, y)
<1>5. /\ s \in Seq(S) /\ Len(s) = Len(y) - Len(p)
      /\ \A i \in 1 .. Len(y) - Len(p) : s[i] = y[Len(p) + i]
  <2> HIDE DEF s
  <2>1. s = SubSeq(y, m, n)
    BY <1>4 DEF s
  <2> HIDE DEF m, n
  <2>2. /\ s \in Seq(S) /\ Len(s) = IF m <= n THEN n - m + 1 ELSE 0
        /\ \A i \in 1 .. n - m + 1 : s[i] = y[m + i - 1]
    BY <1>3, <2>1
  <2>3. QED
    BY <1>1, <2>2 DEF m, n
<1> HIDE DEF s
<1>6. s = <<>> <=> Len(s) = 0
  BY <1>5
<1>7. Len(p) = Len(y) <=> p = y
  BY <1>1, SameSequence
<1>8. QED
  BY <1>1, <1>5, <1>6, <1>7 DEF s

\* A walk is a walk to a prefix, and on from there.
LEMMA WalkOn ==
  ASSUME NEW h, NEW v, NEW S, NEW p \in Seq(S), NEW y \in Seq(S), IsPrefix(p, y)
  PROVE  Walk(h, v, y) = Walk(h, Walk(h, v, p), Rest(p, y))
<1> DEFINE s == Rest(p, y)
           u == Walk(h, v, p)
<1>1. /\ Len(p) \in Nat /\ Len(y) \in Nat /\ Len(p) <= Len(y)
      /\ \A i \in 1 .. Len(p) : p[i] = y[i]
  BY PrefixIs
<1>2. /\ s \in Seq(S) /\ Len(s) = Len(y) - Len(p) /\ Len(s) \in Nat
      /\ \A i \in 1 .. Len(y) - Len(p) : s[i] = y[Len(p) + i]
  BY <1>1, RestIs
<1> HIDE DEF s
<1>3. PICK f : /\ f[0] = v
               /\ \A k \in 1 .. Len(y) : f[k] = Entry(h, f[k - 1], y[k])
               /\ Walk(h, v, y) = f[Len(y)]
  BY <1>1, WalkSteps
<1>4. PICK e : /\ e[0] = v
               /\ \A k \in 1 .. Len(p) : e[k] = Entry(h, e[k - 1], p[k])
               /\ u = e[Len(p)]
  BY <1>1, WalkSteps
<1> HIDE DEF u
<1>5. PICK d : /\ d[0] = u
               /\ \A k \in 1 .. Len(s) : d[k] = Entry(h, d[k - 1], s[k])
               /\ Walk(h, u, s) = d[Len(s)]
  <2>1. Len(s) \in Nat
    BY <1>2
  <2>2. QED
    BY ONLY <2>1, WalkSteps
<1>6. f[Len(p)] = u
  <2> DEFINE T == {k \in 0 .. Len(p) : f[k] = e[k]}
  <2>1. \A k \in 1 .. Len(p) : k - 1 \in T => k \in T
    BY <1>1, <1>3, <1>4
  <2>2. 0 \in T
    BY <1>1, <1>3, <1>4
  <2> HIDE DEF T
  <2>3. 0 .. Len(p) \subseteq T
    BY <1>1, <2>1, <2>2, InductionTo
  <2>4. Len(p) \in T
    BY <1>1, <2>3
  <2>5. QED
    BY <1>4, <2>4 DEF T
<1>7. f[Len(y)] = d[Len(s)]
  <2> DEFINE T == {k \in 0 .. Len(s) : f[Len(p) + k] = d[k]}
  <2>1. ASSUME NEW k \in 1 .. Len(s), k - 1 \in T PROVE k \in T
    <3>1. f[Len(p) + (k - 1)] = d[k - 1] /\ d[k] = Entry(h, d[k - 1], s[k])
      BY <1>5, <2>1
    <3>2. Len(p) + k \in 1 .. Len(y) /\ (Len(p) + k) - 1 = Len(p) + (k - 1)
      BY <1>1, <1>2
    <3>3. f[Len(p) + k] = Entry(h, f[(Len(p) + k) - 1], y[Len(p) + k])
      BY <1>3, <3>2
    <3>4. s[k] = y[Len(p) + k]
      BY <1>2
    <3>5. QED
      BY <3>1, <3>2, <3>3, <3>4
  <2>2. 0 \in T
    BY <1>1, <1>2, <1>5, <1>6
  <2> HIDE DEF T
  <2>3. 0 .. Len(s) \subseteq T
    BY <1>2, <2>1, <2>2, InductionTo
  <2>4. Len(s) \in T
    BY <1>2, <2>3
  <2>5. Len(p) + Len(s) = Len(y)
    BY <1>1, <1>2
  <2>6. QED
    BY <2>4, <2>5 DEF T
<1>8. QED
  BY <1>3, <1>5, <1>7 DEF s, u

\* Two walks that find the same scalar at their first step end alike.
LEMMA WalkFlat ==
  ASSUME NEW h, NEW v, NEW k, NEW u, NEW S, NEW p \in Seq(S), p # <<>>,
         Entry(h, v, p[1]) = Entry(k, u, p[1]), ~IsRef(Entry(h, v, p[1]))
  PROVE  /\ Walk(h, v, p) = Walk(k, u, p) /\ ~IsRef(Walk(h, v, p))
         /\ Entry(h, v, p[1]) = Missing => Walk(h, v, p) = Missing
<1>1. Len(p) \in Nat /\ 1 <= Len(p)
  OBVIOUS
<1>2. PICK f : /\ f[0] = v
               /\ \A i \in 1 .. Len(p) : f[i] = Entry(h, f[i - 1], p[i])
               /\ Walk(h, v, p) = f[Len(p)]
  BY <1>1, WalkSteps
<1>3. PICK d : /\ d[0] = u
               /\ \A i \in 1 .. Len(p) : d[i] = Entry(k, d[i - 1], p[i])
               /\ Walk(k, u, p) = d[Len(p)]
  BY <1>1, WalkSteps
<1>4. f[1] = Entry(h, v, p[1]) /\ d[1] = f[1]
  <2>1. 1 \in 1 .. Len(p) /\ 1 - 1 = 0
    BY <1>1
  <2>2. QED
    BY <1>2, <1>3, <2>1
<1> DEFINE Same(i) == f[i] = d[i] /\ ~IsRef(f[i]) /\ (f[1] = Missing => f[i] = Missing)
           T == {i \in 0 .. Len(p) : i # 0 => Same(i)}
<1>5. ASSUME NEW i \in 1 .. Len(p), i - 1 \in T PROVE i \in T
  <2>1. CASE i = 1
    BY <1>4, <2>1
  <2>2. CASE i # 1
    <3>1. f[i - 1] = d[i - 1] /\ ~IsRef(f[i - 1])
      BY <1>5, <2>2
    <3>2. f[i] = Entry(h, f[i - 1], p[i]) /\ d[i] = Entry(k, d[i - 1], p[i])
      BY <1>2, <1>3
    <3>3. f[i] = Missing /\ d[i] = Missing
      BY <3>1, <3>2 DEF Entry
    <3>4. QED
      BY <3>3, RefIs
  <2>3. QED
    BY <2>1, <2>2
<1>6. 0 \in T
  BY <1>1
<1> HIDE DEF T
<1>7. 0 .. Len(p) \subseteq T
  BY <1>1, <1>5, <1>6, InductionTo
<1>8. Len(p) \in T /\ Len(p) # 0
  BY <1>1, <1>7
<1>9. QED
  BY <1>2, <1>3, <1>4, <1>8 DEF T

\* Below a scalar there is nothing.
LEMMA WalkOff ==
  ASSUME NEW h, NEW v, ~IsRef(v), NEW S, NEW p \in Seq(S), p # <<>>
  PROVE  Walk(h, v, p) = Missing
<1>1. Entry(h, v, p[1]) = Missing
  BY DEF Entry
<1>2. QED
  BY <1>1, WalkFlat, RefIs

-----------------------------------------------------------------------------
(* What is seen of a record when one object of it is written.                *)

\* What is found at a path of a record is mounted by its last name; the record
\* itself is found nowhere in it.
LEMMA SaidMounted ==
  ASSUME NEW g \in Goroutine, NEW h, HeapOK(h), Record(g) \in DOMAIN h, NEW u \in Paths,
         NEW v, v = Walk(h, Ref(Record(g)), u), IsRef(v)
  PROVE  /\ v = Ref(v[2]) /\ v[2] \in DOMAIN h /\ v[2][2] # <<"$">>
         /\ u = <<>> => v[2] = Record(g)
         /\ u # <<>> => Mounted(Last(u), v[2]) /\ v[2] # Record(g)
<1>1. u \in Seq(Names)
  BY PathIn
<1>2. v = Ref(v[2]) /\ v[2] \in DOMAIN h /\ v[2][2] # <<"$">>
  BY <1>1, WalkOK
<1>3. u = <<>> => v[2] = Record(g)
  BY WalkEmpty, RefIs
<1>4. ASSUME u # <<>> PROVE Mounted(Last(u), v[2]) /\ v[2] # Record(g)
  <2>1. PICK s \in Stations \cup {<<>>}, n \in Names : s \in Seq(Names) /\ u = Append(s, n)
    BY <1>4, PathIn
  <2>2. v = Walk(h, Ref(Record(g)), Append(s, n))
    BY <2>1
  <2>3. Mounted(n, v[2])
    BY <2>1, <2>2, WalkMounted
  <2>4. Last(u) = n
    BY <2>1, Extended
  <2>5. v[2] # Record(g)
    <3>1. <<"$", "associations">> # <<>>
      <4>1. Len(<<"$", "associations">>) = 2 /\ Len(<<>>) = 0
        OBVIOUS
      <4>2. QED
        BY <4>1
    <3>a. g # "nil"
      BY FieldMapAssumption
    <3>2. QED
      BY <2>3, <3>1, <3>a DEF Mounted, Record, NilMap
  <2>6. QED
    BY <2>3, <2>4, <2>5
<1>5. QED
  BY <1>2, <1>3, <1>4

\* A path below an object that is written to, in the name that is written, is
\* the path of the field: the input's associations, when they may be seen at
\* two paths, are not written to.
LEMMA OneObject ==
  ASSUME ~WritesIntoInput, DOMAIN fields \subseteq ToSet(Sorted),
         NEW x \in Paths, NEW u \in Paths, NEW n \in Names,
         Append(x, n) \in Stations, n = "parent" => Append(x, n) \in DOMAIN fields,
         Append(u, n) \in Paths,
         NEW o, x # <<>> => Mounted(Last(x), o), u # <<>> => Mounted(Last(u), o)
  PROVE  u = x
<1>1. x \in Seq(Names) /\ u \in Seq(Names)
  BY PathIn
<1>2. u = x \/ (n = "parent" /\ {u, x} \subseteq {Associations, Extra})
  BY <1>1, SameObject
<1>3. ASSUME n = "parent", {u, x} = {Associations, Extra} PROVE FALSE
  <2>1. /\ Last(Associations) = "associations" /\ Last(Extra) = "extra"
        /\ Associations # <<>> /\ Extra # <<>> /\ Associations # Extra
        /\ {Associations, Extra} \subseteq ToSet(Sorted)
    <3>1. {Associations, Extra} \subseteq ToSet(Sorted)
      BY Pointers
    <3>2. QED
      BY <3>1, LastName, InnerName
  <2>2. Mounted("associations", o) /\ Mounted("extra", o)
    BY <1>3, <2>1
  <2>3. o # NilMap
    BY <2>2, NilIsAssociations
  <2>4. \A m, e : Taken(m, Part) /\ InputWritten => WritesIntoInput
    BY PartIsWritten
  <2>5. Taken("associations", Whole) /\ Taken("extra", Whole)
    BY <2>2, <2>3, <2>4 DEF Mounted, InputPaths
  <2>6. /\ Associations \in DOMAIN fields /\ fields[Associations].expr = Whole
        /\ Extra \in DOMAIN fields /\ fields[Extra].expr = Whole
    BY <2>5, LastName DEF Taken
  <2>7. Append(x, n) \in DOMAIN fields
    BY <1>3
  <2>8. IsStrictPrefix(x, Append(x, n)) /\ u \notin {x, Append(x, n)}
    <3>1. Parent = Append(Associations, "parent") /\ ExtraParent = Append(Extra, "parent")
      BY StationNames
    <3>2. Parent # Extra /\ ExtraParent # Associations
      <4>1. Last(Parent) = "parent" /\ Last(ExtraParent) = "parent"
        BY Pointers, LastName
      <4>2. QED
        BY <2>1, <4>1
    <3>3. CASE x = Associations
      BY <1>3, <2>1, <3>1, <3>2, <3>3, PointerPrefixes
    <3>4. CASE x = Extra
      BY <1>3, <2>1, <3>1, <3>2, <3>4, PointerPrefixes
    <3>5. QED
      BY <1>3, <3>3, <3>4
  <2>9. WritesIntoInput
    BY <1>3, <2>1, <2>6, <2>7, <2>8 DEF WritesIntoInput
  <2>10. QED
    BY <2>9
<1>4. QED
  BY <1>2, <1>3

\* The heap h becomes h2 by a write to the entry n of the object o, found at x
\* in the record of g, and to objects that are not seen there: to path z.
WritesAt(g, h, z, x, n, o, h2) ==
  /\ HeapOK(h) /\ Record(g) \in DOMAIN h
  /\ x \in Paths /\ n \in Names /\ z = Append(x, n) /\ z \in Stations
  /\ n = "parent" => z \in DOMAIN fields
  /\ Walk(h, Ref(Record(g)), x) = Ref(o)
  /\ \A a \in DOMAIN h : \A m :
       \/ a = o /\ m = n
       \/ Entry(h2, Ref(a), m) = Entry(h, Ref(a), m)
       \/ \A u \in Paths : Walk(h, Ref(Record(g)), u) # Ref(a)

\* It shows at the paths from Append(x, n) down only.
LEMMA ViewKept ==
  ASSUME ~WritesIntoInput, DOMAIN fields \subseteq ToSet(Sorted), NEW g \in Goroutine,
         NEW h, NEW z, NEW x, NEW n, NEW o, NEW h2, WritesAt(g, h, z, x, n, o, h2)
  PROVE  /\ \A y \in Paths : ~IsPrefix(z, y) =>
              Walk(h2, Ref(Record(g)), y) = Walk(h, Ref(Record(g)), y)
         /\ Walk(h2, Ref(Record(g)), z) = Entry(h2, Ref(o), n)
<1> DEFINE S1(y) == Walk(h, Ref(Record(g)), y)
           S2(y) == Walk(h2, Ref(Record(g)), y)
           Same(y) == ~IsPrefix(z, y) => S2(y) = S1(y)
           T == {k \in Nat : \A y \in Paths : Len(y) = k => Same(y)}
<1>0. /\ HeapOK(h) /\ Record(g) \in DOMAIN h /\ x \in Paths /\ n \in Names /\ z \in Stations
      /\ (n = "parent" => z \in DOMAIN fields) /\ Walk(h, Ref(Record(g)), x) = Ref(o)
      /\ z = Append(x, n)
  BY DEF WritesAt
<1>1. z \in Seq(Names) /\ x \in Seq(Names)
  BY <1>0, PathIn, StationIn
<1>2. ASSUME NEW y \in Paths, y # <<>>
      PROVE  \E u \in Paths, m \in Names :
               /\ u \in Seq(Names) /\ y = Append(u, m) /\ Len(y) = Len(u) + 1
               /\ S1(y) = Entry(h, S1(u), m) /\ S2(y) = Entry(h2, S2(u), m)
               /\ IsPrefix(z, u) => IsPrefix(z, y)
  <2>1. PICK u \in Stations \cup {<<>>}, m \in Names : u \in Seq(Names) /\ y = Append(u, m)
    BY <1>2, PathIn
  <2>2. u \in Paths
    BY StationPaths DEF Paths
  <2>3. S1(y) = Entry(h, S1(u), m) /\ S2(y) = Entry(h2, S2(u), m)
    BY <2>1, WalkAppend
  <2>4. IsPrefix(z, u) => IsPrefix(z, y)
    BY <1>1, <2>1, PrefixAppend
  <2>5. Len(y) = Len(u) + 1
    BY <2>1
  <2>6. QED
    BY <2>1, <2>2, <2>3, <2>4, <2>5
<1>3. ASSUME NEW y \in Paths, NEW u \in Paths, NEW m \in Names, u \in Seq(Names), y = Append(u, m),
             S1(y) = Entry(h, S1(u), m), S2(y) = Entry(h2, S2(u), m), S2(u) = S1(u),
             ~IsPrefix(z, y)
      PROVE  S2(y) = S1(y)
  <2>1. CASE ~IsRef(S1(u))
    BY <1>3, <2>1 DEF Entry
  <2>2. CASE IsRef(S1(u))
    <3> DEFINE a == S1(u)[2]
    <3>1. S1(u) = Ref(a) /\ a \in DOMAIN h /\ (u # <<>> => Mounted(Last(u), a))
          /\ (u = <<>> => a = Record(g)) /\ (u # <<>> => a # Record(g))
      BY <1>0, <2>2, SaidMounted
    <3> HIDE DEF a
    <3>2. (a = o /\ m = n) \/ Entry(h2, Ref(a), m) = Entry(h, Ref(a), m)
      BY <3>1 DEF WritesAt
    <3>3. ASSUME a = o, m = n PROVE FALSE
      <4>1. IsRef(S1(x)) /\ S1(x)[2] = o
        BY <1>0, RefIs
      <4>2. x # <<>> => Mounted(Last(x), o)
        BY <1>0, <4>1, SaidMounted
      <4>3. u = x
        BY <1>0, <1>3, <3>1, <3>3, <4>2, OneObject
      <4>4. IsPrefix(z, y)
        BY <1>0, <1>1, <1>3, <3>3, <4>3, PrefixOrder
      <4>5. QED
        BY <1>3, <4>4
    <3>4. QED
      BY <1>3, <3>1, <3>2, <3>3
  <2>3. QED
    BY <2>1, <2>2
<1> HIDE DEF S1, S2
<1>4. 0 \in T
  <2>1. ASSUME NEW y \in Paths, Len(y) = 0 PROVE Same(y)
    <3>1. y = <<>>
      BY <2>1, PathIn
    <3>2. S2(y) = S1(y)
      BY <3>1, WalkEmpty DEF S1, S2
    <3>3. QED
      BY <3>2
  <2>2. QED
    BY <2>1
<1>5. ASSUME NEW k \in Nat, k \in T PROVE k + 1 \in T
  <2>1. ASSUME NEW y \in Paths, Len(y) = k + 1 PROVE Same(y)
    <3>1. y # <<>>
      <4>1. y = <<>> => Len(y) = 0
        OBVIOUS
      <4>2. QED
        BY <2>1, <4>1
    <3>2. PICK u \in Paths, m \in Names :
               /\ u \in Seq(Names) /\ y = Append(u, m) /\ Len(y) = Len(u) + 1
               /\ S1(y) = Entry(h, S1(u), m) /\ S2(y) = Entry(h2, S2(u), m)
               /\ IsPrefix(z, u) => IsPrefix(z, y)
      BY <1>2, <3>1
    <3>3. Len(u) = k
      <4>1. Len(u) \in Nat /\ Len(y) = Len(u) + 1
        BY <3>2
      <4>2. QED
        BY <2>1, <4>1
    <3>4. Same(u)
      BY <1>5, <3>3
    <3>5. QED
      BY <1>3, <3>2, <3>4
  <2>2. QED
    BY <2>1
<1>6. Nat \subseteq T
  <2> HIDE DEF T
  <2>1. QED
    BY <1>4, <1>5, Induction
<1>7. \A y \in Paths : Same(y)
  <2>1. \A y \in Paths : Len(y) \in Nat
    BY PathIn
  <2>2. QED
    BY <1>6, <2>1
<1>8. S2(z) = Entry(h2, Ref(o), n)
  <2>1. ~IsPrefix(z, x)
    <3>1. Len(z) = Len(x) + 1 /\ Len(x) \in Nat
      BY <1>0, <1>1
    <3>2. IsPrefix(z, x) => Len(z) <= Len(x)
      BY <1>1, PrefixOrder
    <3>3. QED
      BY <3>1, <3>2
  <2>2. S2(x) = Ref(o)
    BY <1>0, <1>7, <2>1 DEF S1
  <2>3. QED
    BY <1>0, <1>1, <2>2, WalkAppend DEF S2
<1>9. QED
  BY <1>7, <1>8 DEF S1, S2

-----------------------------------------------------------------------------
(* What setPointer and deletePointer show, and what they keep.               *)

\* The first k names of a path.
Up(p, k) == SubSeq(p, 1, k)

\* On the way to a pointer there are stations.
LEMMA UpIs ==
  ASSUME NEW p \in ToSet(Sorted), NEW k \in 0 .. Len(p)
  PROVE  /\ Up(p, k) \in Seq(Names) /\ Len(Up(p, k)) = k
         /\ \A i \in 1 .. k : Up(p, k)[i] = p[i]
         /\ IsPrefix(Up(p, k), p)
         /\ \A y \in Seq(Names) : IsPrefix(y, p) /\ Len(y) = k => y = Up(p, k)
<1>1. p \in Seq(Names) /\ Len(p) \in Nat
  BY InnerName
<1>2. k \in Nat /\ \A i \in 1 .. k : p[i] \in Names
  BY <1>1
<1>3. /\ SubSeq(p, 1, k) \in Seq(Names)
      /\ Len(SubSeq(p, 1, k)) = IF 1 <= k THEN k - 1 + 1 ELSE 0
      /\ \A i \in 1 .. k - 1 + 1 : SubSeq(p, 1, k)[i] = p[1 + i - 1]
  BY <1>2, SubSeqProperties
<1> DEFINE s == Up(p, k)
<1>4. s \in Seq(Names) /\ Len(s) = k /\ \A i \in 1 .. k : s[i] = p[i]
  BY <1>2, <1>3 DEF Up
<1> HIDE DEF s
<1>5. IsPrefix(s, p)
  BY <1>1, <1>4, PrefixIs
<1>6. ASSUME NEW y \in Seq(Names), IsPrefix(y, p), Len(y) = k PROVE y = s
  <2>1. \A i \in 1 .. Len(y) : y[i] = p[i]
    BY <1>1, <1>6, PrefixIs
  <2>2. QED
    BY <1>4, <1>6, <2>1, SameSequence
<1>7. QED
  BY <1>4, <1>5, <1>6 DEF s

\* Each in the one before.
LEMMA UpSteps ==
  ASSUME NEW p \in ToSet(Sorted)
  PROVE  /\ Up(p, 0) = <<>> /\ Up(p, Len(p)) = p
         /\ \A k \in 1 .. Len(p) : /\ Up(p, k) \in Stations
                                   /\ Up(p, k) = Append(Up(p, k - 1), p[k])
<1>1. p \in Seq(Names) /\ Len(p) \in Nat \ {0}
  BY InnerName
<1>2. Up(p, 0) = <<>>
  <2>1. Up(p, 0) \in Seq(Names) /\ Len(Up(p, 0)) = 0
    BY <1>1, UpIs
  <2>2. QED
    BY <2>1
<1>3. Up(p, Len(p)) = p
  <2>1. IsPrefix(p, p)
    BY <1>1, PrefixOrder
  <2>2. QED
    BY <1>1, <2>1, UpIs
<1>4. ASSUME NEW k \in 1 .. Len(p) PROVE Up(p, k) = Append(Up(p, k - 1), p[k])
  <2> DEFINE u == Up(p, k - 1)
             s == Up(p, k)
             t == Append(u, p[k])
  <2>1. k - 1 \in 0 .. Len(p) /\ k \in 0 .. Len(p) /\ p[k] \in Names
    BY <1>1
  <2>2. u \in Seq(Names) /\ Len(u) = k - 1 /\ \A i \in 1 .. k - 1 : u[i] = p[i]
    BY <2>1, UpIs
  <2>3. s \in Seq(Names) /\ Len(s) = k /\ \A i \in 1 .. k : s[i] = p[i]
    BY <2>1, UpIs
  <2> HIDE DEF u, s
  <2>4. t \in Seq(Names) /\ Len(t) = k /\ t[k] = p[k] /\ \A i \in 1 .. k - 1 : t[i] = u[i]
    BY <2>1, <2>2
  <2> HIDE DEF t
  <2>5. \A i \in 1 .. k : t[i] = s[i]
    <3>1. ASSUME NEW i \in 1 .. k PROVE t[i] = s[i]
      <4>1. i = k \/ i \in 1 .. k - 1
        BY <2>1
      <4>2. QED
        BY <4>1, <2>2, <2>3, <2>4
    <3>2. QED
      BY <3>1
  <2>6. t = s
    BY <2>3, <2>4, <2>5, SameSequence
  <2>7. QED
    BY <2>6 DEF t, s, u
<1>5. ASSUME NEW k \in 1 .. Len(p) PROVE Up(p, k) \in Stations
  <2>1. CASE k = Len(p)
    BY <1>3, <2>1 DEF Stations
  <2>2. CASE k # Len(p)
    <3>1. k \in 1 .. Len(p) - 1 /\ k \in 0 .. Len(p)
      BY <1>1, <2>2
    <3>2. /\ k \in {1, 2, 3} /\ p[1] = "properties"
          /\ k = 2 => p[2] = "connectedSystems" \/ p[2] = "extra"
          /\ k = 3 => p = Parent /\ p[2] = "connectedSystems" /\ p[3] = "associations"
      BY <3>1, PointerSteps
    <3> DEFINE s == Up(p, k)
    <3>3. s \in Seq(Names) /\ Len(s) = k /\ \A i \in 1 .. k : s[i] = p[i]
      BY <3>1, UpIs
    <3> HIDE DEF s
    <3>4. k = 1 => s = Properties
      <4>1. ASSUME k = 1 PROVE \A i \in 1 .. Len(s) : s[i] = Properties[i]
        BY <4>1, <3>2, <3>3, PointerNames
      <4>2. QED
        BY <3>3, <4>1, PointerNames, SameSequence
    <3>5. k = 2 => s = Connected \/ s = Extra
      <4>1. ASSUME k = 2 PROVE \/ \A i \in 1 .. Len(s) : s[i] = Connected[i]
                               \/ \A i \in 1 .. Len(s) : s[i] = Extra[i]
        <5>1. s[1] = "properties" /\ (s[2] = "connectedSystems" \/ s[2] = "extra")
          BY <4>1, <3>2, <3>3
        <5>2. \A i \in 1 .. Len(s) : i = 1 \/ i = 2
          BY <4>1, <3>3
        <5>3. QED
          BY <5>1, <5>2, PointerNames
      <4>0. /\ s \in Seq(Names) /\ Connected \in Seq(Names) /\ Extra \in Seq(Names)
            /\ Len(Connected) = 2 /\ Len(Extra) = 2
        BY <3>3, PointerNames
      <4>2. Len(s) = 2 /\ (\A i \in 1 .. Len(s) : s[i] = Connected[i]) => s = Connected
        BY ONLY <4>0, SameSequence
      <4>3. Len(s) = 2 /\ (\A i \in 1 .. Len(s) : s[i] = Extra[i]) => s = Extra
        BY ONLY <4>0, SameSequence
      <4>4. QED
        BY <3>3, <4>1, <4>2, <4>3
    <3>6. k = 3 => s = Associations
      <4>1. ASSUME k = 3 PROVE \A i \in 1 .. Len(s) : s[i] = Associations[i]
        <5>1. s[1] = "properties" /\ s[2] = "connectedSystems" /\ s[3] = "associations"
          BY <4>1, <3>2, <3>3
        <5>2. \A i \in 1 .. Len(s) : i = 1 \/ i = 2 \/ i = 3
          BY <4>1, <3>3
        <5>3. QED
          BY <5>1, <5>2, PointerNames
      <4>2. s \in Seq(Names) /\ Associations \in Seq(Names) /\ Len(Associations) = 3
        BY <3>3, PointerNames
      <4>3. Len(s) = 3 /\ (\A i \in 1 .. Len(s) : s[i] = Associations[i]) => s = Associations
        BY ONLY <4>2, SameSequence
      <4>4. QED
        BY <3>3, <4>1, <4>3
    <3>7. QED
      BY <3>2, <3>4, <3>5, <3>6, Pointers DEF Stations, s
  <2>3. QED
    BY <2>1, <2>2
<1>6. QED
  BY <1>2, <1>3, <1>4, <1>5

\* An object that setPointer makes takes the place of none that is seen, but
\* where it is made.
LEMMA NewUnseen ==
  ASSUME NEW g \in Goroutine, NEW h, HeapOK(h), Record(g) \in DOMAIN h,
         NEW z \in Stations, NEW n \in InnerNames, Last(z) = n,
         NEW q \in Seq(Names), q # <<"$">>, NEW new, new[2] = Append(q, n),
         NEW u \in Paths, Walk(h, Ref(Record(g)), u) = Ref(new)
  PROVE  u = z
<1>1. n \in Names /\ n # "$" /\ n # "parent"
  BY DEF Names, InnerNames
<1>2. /\ Append(q, n) # <<>> /\ Last(Append(q, n)) = n /\ Append(q, n) # <<"$">>
      /\ Append(q, n) # <<"$", "associations">>
  BY <1>1, Extended
<1>3. /\ u = <<>> => new = Record(g)
      /\ u # <<>> => Mounted(Last(u), new)
  BY SaidMounted, RefIs
<1>4. u # <<>> /\ Mounted(Last(u), new)
  BY <1>2, <1>3 DEF Record
<1>5. Last(u) = n
  BY <1>1, <1>2, <1>4 DEF Mounted, NilMap
<1>6. Last(Parent) = "parent" /\ Last(ExtraParent) = "parent"
  BY Pointers, LastName
<1>7. QED
  BY <1>1, <1>4, <1>5, <1>6, SamePath

\* A new object in the place of a scalar, or of nothing.
Descends(g, h, z, x, n, o) ==
  /\ HeapOK(h) /\ Record(g) \in DOMAIN h
  /\ x \in Paths /\ n \in InnerNames /\ z = Append(x, n) /\ z \in Stations
  /\ Walk(h, Ref(Record(g)), x) = Ref(o)
New(o, n) == <<o[1], Append(o[2], n)>>
WithNew(h, o, n) == Set([h EXCEPT ![o] = Set(@, n, Ref(New(o, n)))], New(o, n), NoEntry)

\* It shows nowhere else.
LEMMA MadeView ==
  ASSUME ~WritesIntoInput, DOMAIN fields \subseteq ToSet(Sorted), NEW g \in Goroutine,
         NEW h, NEW z, NEW x, NEW n, NEW o, Descends(g, h, z, x, n, o),
         ~IsRef(Entry(h, Ref(o), n)),
         NEW new, new = New(o, n), NEW h2, h2 = WithNew(h, o, n)
  PROVE  /\ ~IsRef(Walk(h, Ref(Record(g)), z))
         /\ Walk(h2, Ref(Record(g)), z) = Ref(new)
         /\ \A y \in Paths : y # z =>
              Walk(h2, Ref(Record(g)), y) = Walk(h, Ref(Record(g)), y)
<1> DEFINE was(y) == Walk(h, Ref(Record(g)), y)
           is(y) == Walk(h2, Ref(Record(g)), y)
<1>0. /\ HeapOK(h) /\ Record(g) \in DOMAIN h /\ x \in Paths /\ n \in InnerNames
      /\ z \in Stations /\ was(x) = Ref(o) /\ z = Append(x, n)
  BY DEF Descends
<1>1. x \in Seq(Names) /\ n \in Names /\ n # "parent" /\ z \in Paths /\ z \in Seq(Names)
  BY <1>0, PathIn, StationPaths DEF InnerNames, Names
<1>2. was(z) = Entry(h, Ref(o), n)
  BY <1>0, <1>1, WalkAppend
<1>3. Last(z) = n
  BY <1>0, <1>1, Extended
<1>4. o \in DOMAIN h /\ o[2] # <<"$">>
  <2>1. IsRef(was(x)) /\ was(x)[2] = o
    BY <1>0, RefIs
  <2>2. QED
    BY <1>0, <2>1, SaidMounted
<1>5. PICK b \in Goroutine \cup {"config", "nil"}, q \in Seq(Names) : o = <<b, q>>
  BY <1>0, <1>4 DEF HeapOK
<1>6. q # <<"$">> /\ new[2] = Append(q, n) /\ new # o
  <2>1. Append(q, n) # q
    BY <1>1, <1>5
  <2>2. QED
    BY <1>4, <1>5, <2>1 DEF New
<1>7. ASSUME NEW u \in Paths, was(u) = Ref(new) PROVE u = z
  <2>1. /\ HeapOK(h) /\ Record(g) \in DOMAIN h /\ z \in Stations /\ n \in InnerNames
        /\ u \in Paths /\ q \in Seq(Names) /\ g \in Goroutine
    BY <1>0, <1>5
  <2>2. QED
    BY ONLY <1>3, <1>6, <1>7, <2>1, NewUnseen
<1>8. \A u \in Paths : was(u) # Ref(new)
  <2>1. was(z) # Ref(new)
    BY <1>2, RefIs
  <2> HIDE DEF was
  <2>2. QED
    BY <1>7, <2>1
<1>9. /\ DOMAIN h2 = DOMAIN h \cup {new} /\ h2[new] = NoEntry
      /\ \A a \in DOMAIN h : a # new /\ a # o => h2[a] = h[a]
  BY DEF Set, WithNew
<1>10. /\ DOMAIN h2[o] = DOMAIN h[o] \cup {n} /\ h2[o][n] = Ref(new)
       /\ \A m \in DOMAIN h[o] : m # n => h2[o][m] = h[o][m]
  BY <1>4, <1>6 DEF Set, WithNew
<1>11. Entry(h2, Ref(o), n) = Ref(new) /\ \A m : Entry(h2, Ref(new), m) = Missing
  <2>1. \A m : m \notin DOMAIN h2[new]
    BY ONLY <1>9 DEF NoEntry
  <2>2. n \in DOMAIN h2[o]
    BY <1>10
  <2>3. QED
    BY ONLY <1>10, <2>1, <2>2, EntryIs
<1>12. ASSUME NEW a \in DOMAIN h, NEW m
       PROVE  \/ a = o /\ m = n
              \/ Entry(h2, Ref(a), m) = Entry(h, Ref(a), m)
              \/ \A u \in Paths : was(u) # Ref(a)
  <2>1. CASE a = new
    BY <1>8, <2>1
  <2>2. CASE a = o /\ m # n
    BY ONLY <1>10, <2>2, EntryIs
  <2>3. CASE a # o /\ a # new
    <3>1. h2[a] = h[a]
      BY <1>9, <2>3
    <3>2. QED
      BY ONLY <3>1, EntryIs
  <2>4. QED
    BY <2>1, <2>2, <2>3
<1>13. /\ \A y \in Paths : ~IsPrefix(z, y) => is(y) = was(y)
       /\ is(z) = Entry(h2, Ref(o), n)
  <2>1. WritesAt(g, h, z, x, n, o, h2)
    BY <1>0, <1>1, <1>12 DEF WritesAt
  <2>2. /\ ~WritesIntoInput /\ DOMAIN fields \subseteq ToSet(Sorted) /\ g \in Goroutine
    OBVIOUS
  <2> HIDE DEF is, was
  <2>3. QED
    BY ONLY <2>1, <2>2, ViewKept DEF is, was
<1>14. ASSUME NEW y \in Paths, y # z, IsPrefix(z, y)
       PROVE  is(y) = was(y)
  <2>1. y \in Seq(Names) /\ z \in Seq(Names)
    BY <1>1, PathIn
  <2>2. Rest(z, y) \in Seq(Names) /\ Rest(z, y) # <<>>
    BY ONLY <1>14, <2>1, RestIs
  <2>3. was(y) = Missing
    <3>1. was(y) = Walk(h, was(z), Rest(z, y))
      BY ONLY <1>14, <2>1, WalkOn
    <3>2. ~IsRef(was(z))
      BY <1>2
    <3> HIDE DEF was
    <3>3. QED
      BY <2>2, <3>1, <3>2, WalkOff
  <2>4. is(y) = Missing
    <3>1. is(y) = Walk(h2, is(z), Rest(z, y))
      BY ONLY <1>14, <2>1, WalkOn
    <3>2. is(z) = Ref(new)
      BY <1>11, <1>13
    <3>3. Entry(h2, Ref(new), Rest(z, y)[1]) = Missing
      BY <1>11
    <3> HIDE DEF is
    <3>4. QED
      BY <2>2, <3>1, <3>2, <3>3, WalkFlat, RefIs
  <2>5. QED
    BY <2>3, <2>4
<1>15. ~IsRef(was(z)) /\ is(z) = Ref(new)
  BY <1>2, <1>11, <1>13
<1>16. \A y \in Paths : y # z => is(y) = was(y)
  <2> HIDE DEF is, was
  <2>1. QED
    BY <1>13, <1>14
<1>17. QED
  BY <1>15, <1>16

\* A walk that stands at x, on the way to z.
Stands(g, w, z, x, n) ==
  w = [heap |-> w.heap, object |-> w.object] /\ Descends(g, w.heap, z, x, n, w.object)

\* Going down by one name makes an object there if there is none.
LEMMA DescendView ==
  ASSUME ~WritesIntoInput, DOMAIN fields \subseteq ToSet(Sorted), NEW g \in Goroutine,
         NEW w, NEW z, NEW x, NEW n, Stands(g, w, z, x, n)
  PROVE  LET d == Descend(w, n) IN
         /\ Walk(d.heap, Ref(Record(g)), z) = Ref(d.object)
         /\ \A y \in Paths : y # z \/ IsRef(Walk(w.heap, Ref(Record(g)), y)) =>
              Walk(d.heap, Ref(Record(g)), y) = Walk(w.heap, Ref(Record(g)), y)
         /\ \/ d = [heap |-> w.heap, object |-> Entry(w.heap, Ref(w.object), n)[2]]
            \/ d = [heap |-> WithNew(w.heap, w.object, n), object |-> New(w.object, n)]
<1> SUFFICES ASSUME NEW d, d = Descend(w, n)
    PROVE  /\ Walk(d.heap, Ref(Record(g)), z) = Ref(d.object)
           /\ \A y \in Paths : y # z \/ IsRef(Walk(w.heap, Ref(Record(g)), y)) =>
                Walk(d.heap, Ref(Record(g)), y) = Walk(w.heap, Ref(Record(g)), y)
           /\ \/ d = [heap |-> w.heap, object |-> Entry(w.heap, Ref(w.object), n)[2]]
              \/ d = [heap |-> WithNew(w.heap, w.object, n), object |-> New(w.object, n)]
  OBVIOUS
<1>0. w = [heap |-> w.heap, object |-> w.object] /\ Descends(g, w.heap, z, x, n, w.object)
  BY DEF Stands
<1> DEFINE v == Entry(w.heap, Ref(w.object), n)
<1>1. d = IF IsRef(v) THEN [w EXCEPT !.object = v[2]]
          ELSE [heap |-> WithNew(w.heap, w.object, n), object |-> New(w.object, n)]
  BY <1>0 DEF Descend, WithNew, New
<1>2. CASE IsRef(v)
  <2>1. Walk(w.heap, Ref(Record(g)), z) = v
    <3>1. x \in Seq(Names) /\ n \in Names
      BY <1>0, PathIn DEF InnerNames, Names, Descends
    <3>2. QED
      BY <1>0, <3>1, WalkAppend DEF Descends
  <2>2. v = Ref(v[2])
    BY <1>0, <1>2, <2>1, StationPaths, SaidMounted DEF Descends
  <2>a. v = Entry(w.heap, Ref(w.object), n)
    OBVIOUS
  <2> HIDE DEF v
  <2>3. d = [heap |-> w.heap, object |-> v[2]]
    BY <1>0, <1>1, <1>2
  <2>4. QED
    BY <2>1, <2>2, <2>3, <2>a
<1>3. CASE ~IsRef(v)
  <2> DEFINE new == New(w.object, n)
             h2 == WithNew(w.heap, w.object, n)
  <2>1. /\ ~IsRef(Walk(w.heap, Ref(Record(g)), z))
        /\ Walk(h2, Ref(Record(g)), z) = Ref(new)
        /\ \A y \in Paths : y # z =>
              Walk(h2, Ref(Record(g)), y) = Walk(w.heap, Ref(Record(g)), y)
    <3>1. /\ ~WritesIntoInput /\ DOMAIN fields \subseteq ToSet(Sorted) /\ g \in Goroutine
          /\ Descends(g, w.heap, z, x, n, w.object)
          /\ ~IsRef(Entry(w.heap, Ref(w.object), n))
      BY <1>0, <1>3
    <3>2. new = New(w.object, n) /\ h2 = WithNew(w.heap, w.object, n)
      OBVIOUS
    <3> HIDE DEF new, h2
    <3>3. QED
      BY ONLY <3>1, <3>2, MadeView
  <2>2. d = [heap |-> h2, object |-> new]
    BY <1>1, <1>3
  <2>3. d.heap = h2 /\ d.object = new
    BY <2>2
  <2>4. d = [heap |-> WithNew(w.heap, w.object, n), object |-> New(w.object, n)]
    BY <2>2
  <2> HIDE DEF h2, new
  <2>5. QED
    BY <2>1, <2>3, <2>4
<1>4. QED
  BY <1>2, <1>3

-----------------------------------------------------------------------------
(* What setPointer and deletePointer leave alone.                            *)

\* A field below one that took the associations.
Taking(p) == \E w \in DOMAIN fields : fields[w].expr = Whole /\ IsStrictPrefix(w, p)

\* Setting or removing p leaves the input alone, its associations unless they
\* are what the field is below, and the literals but for what fields put there.
Spared(p, h, h2) ==
  /\ DOMAIN h \subseteq DOMAIN h2
  /\ \A o \in DOMAIN h : o[2] = <<"$">> => h2[o] = h[o]
  /\ ~Taking(p) => \A o \in DOMAIN h : o[2] = <<"$", "associations">> => h2[o] = h[o]
  /\ LiteralsOK(h) => LiteralsOK(h2)
  /\ IsFiniteSet(DOMAIN h) => IsFiniteSet(DOMAIN h2)

\* Literals that are the same are as good.
LEMMA LiteralsKept ==
  ASSUME NEW h, HeapOK(h), LiteralsOK(h), NEW h2,
         \A o \in DOMAIN h : o[1] = "config" => h2[o] = h[o],
         \A o \in DOMAIN h2 : o[1] = "config" => o \in DOMAIN h
  PROVE  LiteralsOK(h2)
<1>1. ASSUME NEW p \in DOMAIN fields, fields[p].literal = "object" PROVE LiteralOK(h2, p)
  <2>1. <<"config", p>> \in DOMAIN h /\ <<"config", p>>[1] = "config"
    BY <1>1 DEF HeapOK
  <2>2. h2[<<"config", p>>] = h[<<"config", p>>]
    BY <2>1
  <2>3. LiteralOK(h, p)
    BY <1>1 DEF LiteralsOK
  <2>4. QED
    BY <2>2, <2>3 DEF LiteralOK
<1>2. QED
  BY <1>1 DEF LiteralsOK

\* The object that a step of setPointer writes to: an input's associations only
\* below the field that took them, a literal only below itself.
LEMMA WrittenObject ==
  ASSUME ~WritesIntoInput, DOMAIN fields \subseteq ToSet(Sorted), NEW g \in Goroutine,
         NEW h, HeapOK(h), Record(g) \in DOMAIN h, NEW p \in DOMAIN fields,
         NEW k \in 1 .. Len(p), NEW o, Walk(h, Ref(Record(g)), Up(p, k - 1)) = Ref(o)
  PROVE  /\ o \in DOMAIN h /\ o[2] # <<"$">>
         /\ o[2] = <<"$", "associations">> => Taking(p)
         /\ o[1] = "config" /\ LiteralsOK(h) =>
              /\ o[2] = Up(p, k - 1) /\ o[2] \in DOMAIN fields
              /\ fields[o[2]].literal = "object" /\ IsStrictPrefix(o[2], p)
<1> DEFINE x == Up(p, k - 1)
<1>1. /\ p \in ToSet(Sorted) /\ Len(p) \in Nat \ {0} /\ p \in Seq(Names)
      /\ k - 1 \in 0 .. Len(p)
  BY InnerName
<1>2. x \in Seq(Names) /\ Len(x) = k - 1 /\ IsPrefix(x, p)
  BY <1>1, UpIs
<1>3. x = <<>> \/ (x \in Stations /\ x # <<>> /\ Last(x) \in InnerNames)
  <2>1. CASE k = 1
    <3>1. x = Up(p, 0)
      BY <2>1
    <3>2. QED
      BY <1>1, <3>1, UpSteps
  <2>2. CASE k # 1
    <3>1. k - 1 \in 1 .. Len(p) - 1 /\ k - 1 \in 1 .. Len(p)
      BY <1>1, <2>2
    <3>2. x \in Stations /\ p[k - 1] \in InnerNames /\ Len(x) = k - 1 /\ x[k - 1] = p[k - 1]
      BY <1>1, <1>2, <3>1, UpSteps, UpIs, InnerName
    <3>3. x # <<>> /\ Last(x) = p[k - 1]
      BY <1>2, <3>1, <3>2 DEF Last
    <3>4. QED
      BY <3>2, <3>3
  <2>3. QED
    BY <2>1, <2>2
<1>4. x # p /\ IsStrictPrefix(x, p)
  <2>1. Len(x) # Len(p)
    BY <1>1, <1>2
  <2>2. QED
    BY <1>2, <2>1 DEF IsStrictPrefix
<1>5. x \in Paths
  BY <1>3, StationPaths DEF Paths
<1>6. /\ o \in DOMAIN h /\ o[2] # <<"$">>
      /\ x = <<>> => o = Record(g)
      /\ x # <<>> => Mounted(Last(x), o)
  <2>1. Walk(h, Ref(Record(g)), x) = Ref(o)
    OBVIOUS
  <2> HIDE DEF x
  <2>2. QED
    BY <1>5, <2>1, SaidMounted, RefIs
<1> HIDE DEF x
<1>7. ~(\E n : Taken(n, Part) /\ InputWritten)
  BY PartIsWritten
<1>8. <<"$", "associations">> # <<>> /\ g # "config" /\ "nil" # "config"
  BY FieldMapAssumption
<1>9. ASSUME o[2] = <<"$", "associations">> PROVE Taking(p)
  <2>1. x # <<>> /\ Taken(Last(x), Whole)
    BY <1>6, <1>7, <1>8, <1>9 DEF Mounted, InputPaths, Record, NilMap
  <2>2. PICK q \in DOMAIN fields : Last(q) = Last(x) /\ fields[q].expr = Whole
    BY <2>1 DEF Taken
  <2>3. q = x
    <3>1. q \in Stations /\ q \in Paths /\ q # <<>>
      BY StationPaths, StationIn DEF Stations
    <3>2. Last(Parent) = "parent" /\ Last(x) # "parent"
      BY <1>3, <2>1, Pointers, LastName DEF InnerNames
    <3>3. Last(ExtraParent) = "parent"
      BY Pointers, LastName
    <3>4. QED
      BY <1>3, <2>1, <2>2, <3>1, <3>2, <3>3, SamePath
  <2>4. QED
    BY <1>4, <2>2, <2>3 DEF Taking
<1>10. ASSUME o[1] = "config", LiteralsOK(h)
       PROVE  /\ o[2] = x /\ o[2] \in DOMAIN fields /\ fields[o[2]].literal = "object"
  <2>1. o[2] \in DOMAIN fields /\ fields[o[2]].literal = "object"
    BY <1>6, <1>10 DEF LiteralsOK
  <2>2. o[2] \in ToSet(Sorted) /\ o[2] \notin InputPaths /\ o[2] # <<>>
    BY <2>1, InnerName
  <2>3. x # <<>> /\ Last(o[2]) = Last(x)
    BY <1>6, <1>7, <1>8, <1>10, <2>2 DEF Mounted, InputPaths, Record, NilMap
  <2>4. o[2] \in Paths /\ o[2] \in Stations
    BY <2>2, StationPaths DEF Stations
  <2>5. Last(x) # "parent"
    BY <1>3, <2>3 DEF InnerNames
  <2>6. Last(Parent) = "parent" /\ Last(ExtraParent) = "parent"
    BY Pointers, LastName
  <2>7. o[2] = x
    BY <1>3, <2>2, <2>3, <2>4, <2>5, <2>6, SamePath
  <2>8. QED
    BY <2>1, <2>7
<1>11. QED
  BY <1>4, <1>6, <1>9, <1>10 DEF x

\* A new object is made in none of them.
LEMMA MadeSpares ==
  ASSUME ~WritesIntoInput, ~LeavesBehind, DOMAIN fields \subseteq ToSet(Sorted),
         NEW g \in Goroutine, NEW h, HeapOK(h), Record(g) \in DOMAIN h, NEW p \in DOMAIN fields,
         NEW k \in 1 .. Len(p) - 1, NEW o, Walk(h, Ref(Record(g)), Up(p, k - 1)) = Ref(o),
         NEW n, n = p[k], NEW h2, h2 = WithNew(h, o, n)
  PROVE  Spared(p, h, h2)
<1> DEFINE new == New(o, n)
<1>1. /\ Len(p) \in Nat \ {0} /\ k \in 1 .. Len(p) /\ n \in InnerNames
      /\ n # "$" /\ n \in Names
  BY InnerName DEF InnerNames, Names
<1>2. /\ o \in DOMAIN h /\ o[2] # <<"$">>
      /\ o[2] = <<"$", "associations">> => Taking(p)
      /\ o[1] = "config" /\ LiteralsOK(h) =>
           /\ o[2] = Up(p, k - 1) /\ o[2] \in DOMAIN fields
           /\ fields[o[2]].literal = "object" /\ IsStrictPrefix(o[2], p)
  BY <1>1, WrittenObject
<1>3. o[2] \in Seq(Names)
  BY <1>2 DEF HeapOK
<1>4. new[1] = o[1] /\ new[2] # <<"$">> /\ new[2] # <<"$", "associations">>
  <2>1. new[2] = Append(o[2], n) /\ new[1] = o[1]
    BY DEF New
  <2> HIDE DEF new
  <2>2. QED
    BY <1>1, <1>2, <1>3, <2>1, Extended
<1>5. /\ DOMAIN h2 = DOMAIN h \cup {new}
      /\ \A a \in DOMAIN h : a # new /\ a # o => h2[a] = h[a]
  BY DEF WithNew, Set
<1> HIDE DEF new
<1>6. LiteralsOK(h) => o[1] # "config"
  <2>1. SUFFICES ASSUME LiteralsOK(h), o[1] = "config" PROVE FALSE
    OBVIOUS
  <2>2. Len(o[2]) = k - 1
    <3>1. k - 1 \in 0 .. Len(p) /\ p \in ToSet(Sorted)
      BY <1>1
    <3>2. QED
      BY <1>2, <2>1, <3>1, UpIs
  <2>3. Len(p) > Len(o[2]) + 1
    BY <1>1, <2>2
  <2>4. IsPrefix(o[2], p)
    BY <1>2, <2>1 DEF IsStrictPrefix
  <2>5. LeavesBehind
    BY <1>2, <2>1, <2>3, <2>4 DEF LeavesBehind
  <2>6. QED
    BY <2>5
<1>7. LiteralsOK(h) => LiteralsOK(h2)
  <2>1. SUFFICES ASSUME LiteralsOK(h) PROVE LiteralsOK(h2)
    OBVIOUS
  <2>2. \A a \in DOMAIN h : a[1] = "config" => h2[a] = h[a]
    BY <1>4, <1>5, <1>6, <2>1
  <2>3. \A a \in DOMAIN h2 : a[1] = "config" => a \in DOMAIN h
    BY <1>4, <1>5, <1>6, <2>1
  <2>4. QED
    BY <2>1, <2>2, <2>3, LiteralsKept
<1>8. IsFiniteSet(DOMAIN h) => IsFiniteSet(DOMAIN h2)
  BY <1>5, FS_AddElement
<1>9. QED
  BY <1>2, <1>4, <1>5, <1>7, <1>8 DEF Spared

\* The heap h becomes h2 by a write to the entry n of the object o.
Touches(h, o, n, h2) ==
  /\ DOMAIN h2 = DOMAIN h
  /\ \A a \in DOMAIN h : a # o => h2[a] = h[a]
  /\ DOMAIN h2[o] \ {n} = DOMAIN h[o] \ {n}
  /\ \A m \in DOMAIN h[o] \ {n} : h2[o][m] = h[o][m]

\* The last step of a pointer, set or removed.
LEMMA Touched ==
  ASSUME ~WritesIntoInput, DOMAIN fields \subseteq ToSet(Sorted),
         NEW g \in Goroutine, NEW h, HeapOK(h), Record(g) \in DOMAIN h, NEW p \in DOMAIN fields,
         NEW o, Walk(h, Ref(Record(g)), Up(p, Len(p) - 1)) = Ref(o),
         NEW h2, Touches(h, o, Last(p), h2)
  PROVE  /\ \A y \in Paths : ~IsPrefix(p, y) =>
              Walk(h2, Ref(Record(g)), y) = Walk(h, Ref(Record(g)), y)
         /\ Walk(h2, Ref(Record(g)), p) = Entry(h2, Ref(o), Last(p))
         /\ Spared(p, h, h2)
<1> DEFINE n == Last(p)
           x == Up(p, Len(p) - 1)
<1>1. /\ p \in ToSet(Sorted) /\ Len(p) \in Nat \ {0} /\ p \in Seq(Names) /\ n \in Names
      /\ Len(p) \in 1 .. Len(p)
  BY InnerName
<1>2. p = Append(x, n) /\ p \in Stations /\ x \in Seq(Names) /\ x \in Paths
  <2>1. Up(p, Len(p)) = p /\ p = Append(x, p[Len(p)])
    BY <1>1, UpSteps
  <2>2. p[Len(p)] = n
    BY DEF Last
  <2>3. x \in Seq(Names)
    BY <1>1, UpIs
  <2>4. x \in Paths
    <3>1. CASE Len(p) = 1
      BY <1>1, <3>1, UpSteps DEF Paths
    <3>2. CASE Len(p) # 1
      <4>0. Len(p) \in Nat \ {0} /\ Len(p) # 1
        BY <1>1, <3>2
      <4> HIDE DEF n, x
      <4>1. Len(p) - 1 \in 1 .. Len(p)
        <5>1. \A l \in Nat \ {0} : l # 1 => l - 1 \in 1 .. l
          OBVIOUS
        <5>2. QED
          BY <4>0, <5>1
      <4>2. QED
        BY <1>1, <4>1, UpSteps, StationPaths DEF x
    <3>3. QED
      BY <3>1, <3>2
  <2>5. QED
    BY <1>1, <2>1, <2>2, <2>3, <2>4 DEF Stations
<1>3. /\ o \in DOMAIN h /\ o[2] # <<"$">>
      /\ o[2] = <<"$", "associations">> => Taking(p)
      /\ o[1] = "config" /\ LiteralsOK(h) =>
           /\ o[2] = x /\ o[2] \in DOMAIN fields
           /\ fields[o[2]].literal = "object" /\ IsStrictPrefix(o[2], p)
  BY <1>1, WrittenObject
<1>4. /\ DOMAIN h2 = DOMAIN h
      /\ \A a \in DOMAIN h : a # o => h2[a] = h[a]
      /\ DOMAIN h2[o] \ {n} = DOMAIN h[o] \ {n}
      /\ \A m \in DOMAIN h[o] \ {n} : h2[o][m] = h[o][m]
  BY DEF Touches
<1>5. WritesAt(g, h, p, x, n, o, h2)
  <2>1. ASSUME NEW a \in DOMAIN h, NEW m, ~(a = o /\ m = n)
        PROVE  Entry(h2, Ref(a), m) = Entry(h, Ref(a), m)
    <3>1. CASE a = o
      <4>1. m \in DOMAIN h2[o] <=> m \in DOMAIN h[o]
        BY <1>4, <2>1, <3>1
      <4>2. m \in DOMAIN h[o] => h2[o][m] = h[o][m]
        BY <1>4, <2>1, <3>1
      <4>3. QED
        BY ONLY <3>1, <4>1, <4>2, EntryIs
    <3>2. CASE a # o
      <4>1. h2[a] = h[a]
        BY <1>4, <3>2
      <4>2. QED
        BY ONLY <4>1, EntryIs
    <3>3. QED
      BY <3>1, <3>2
  <2>2. Walk(h, Ref(Record(g)), x) = Ref(o)
    OBVIOUS
  <2> HIDE DEF n, x
  <2>3. QED
    BY <1>1, <1>2, <2>1, <2>2 DEF WritesAt
<1>6. /\ \A y \in Paths : ~IsPrefix(p, y) =>
            Walk(h2, Ref(Record(g)), y) = Walk(h, Ref(Record(g)), y)
      /\ Walk(h2, Ref(Record(g)), p) = Entry(h2, Ref(o), n)
  <2>1. ~WritesIntoInput /\ DOMAIN fields \subseteq ToSet(Sorted) /\ g \in Goroutine
    OBVIOUS
  <2> HIDE DEF n, x
  <2>2. QED
    BY ONLY <1>5, <2>1, ViewKept
<1>7. LiteralsOK(h) => LiteralsOK(h2)
  <2>1. SUFFICES ASSUME LiteralsOK(h) PROVE LiteralsOK(h2)
    OBVIOUS
  <2>2. CASE o[1] # "config"
    <3>1. \A a \in DOMAIN h : a[1] = "config" => h2[a] = h[a]
      BY <1>4, <2>2
    <3>2. \A a \in DOMAIN h2 : a[1] = "config" => a \in DOMAIN h
      BY <1>4
    <3>3. QED
      BY <2>1, <3>1, <3>2, LiteralsKept
  <2>3. CASE o[1] = "config"
    <3>1. o[2] = x /\ Append(o[2], n) \in DOMAIN fields /\ n # "label"
      <4>1. Last(p) # "label"
        <5>1. "label" \notin {"properties", "connectedSystems", "associations", "parent",
                              "extra", "hronir", "title"}
          OBVIOUS
        <5>2. \E u \in Stations \cup {<<>>}, m \in Names \ {"label", "recordHash", "sourceId"} :
                u \in Seq(Names) /\ p = Append(u, m)
          BY <1>2, StationIn
        <5>3. QED
          BY <5>2, Extended
      <4>2. QED
        BY <1>2, <1>3, <2>1, <2>3, <4>1
    <3>2. ASSUME NEW q \in DOMAIN fields, fields[q].literal = "object" PROVE LiteralOK(h2, q)
      <4> DEFINE a == <<"config", q>>
      <4>1. LiteralOK(h, q) /\ a \in DOMAIN h
        BY <2>1, <3>2 DEF LiteralsOK, HeapOK
      <4>2. CASE a # o
        <5>1. h2[a] = h[a]
          BY <1>4, <4>1, <4>2
        <5>2. QED
          BY <4>1, <5>1 DEF LiteralOK
      <4>3. CASE a = o
        <5>1. /\ "label" \in DOMAIN h[a] /\ h[a]["label"] = Text("label")
              /\ \A m \in DOMAIN h[a] :
                   \/ m = "label"
                   \/ Append(q, m) \in DOMAIN fields
                   \/ q = Own /\ m \in {"sourceHash", "recordHash"}
          BY <4>1 DEF LiteralOK
        <5>2. o[2] = q /\ Append(q, n) \in DOMAIN fields
          BY <3>1, <4>3
        <5> HIDE DEF a, n
        <5>3. "label" \in DOMAIN h2[a] /\ h2[a]["label"] = Text("label")
          BY <1>4, <3>1, <4>3, <5>1
        <5>4. \A m \in DOMAIN h2[a] : m = n \/ m \in DOMAIN h[a]
          BY <1>4, <4>3
        <5>5. \A m \in DOMAIN h2[a] :
                   \/ m = "label"
                   \/ Append(q, m) \in DOMAIN fields
                   \/ q = Own /\ m \in {"sourceHash", "recordHash"}
          BY <5>1, <5>2, <5>4
        <5>6. QED
          BY <5>3, <5>5 DEF LiteralOK, a
      <4>4. QED
        BY <4>2, <4>3
    <3>3. QED
      BY <1>4, <2>1, <3>2 DEF LiteralsOK
  <2>4. QED
    BY <2>2, <2>3
<1>8. Spared(p, h, h2)
  BY <1>3, <1>4, <1>7 DEF Spared
<1>9. QED
  BY <1>6, <1>8

\* setPointer: what is not on the way stays, what is on it is an object, and
\* below the pointer is what is below the value.
LEMMA SetPointerView ==
  ASSUME ~WritesIntoInput, ~LeavesBehind, DOMAIN fields \subseteq ToSet(Sorted),
         NEW g \in Goroutine, NEW h, HeapOK(h), Record(g) \in DOMAIN h, NEW p \in DOMAIN fields,
         NEW v, NEW h2, h2 = SetPointer(h, g, p, v)
  PROVE  /\ \A y \in Paths :
              ~IsPrefix(p, y) /\ (~IsPrefix(y, p) \/ IsRef(Walk(h, Ref(Record(g)), y))) =>
                Walk(h2, Ref(Record(g)), y) = Walk(h, Ref(Record(g)), y)
         /\ \A y \in Paths : IsStrictPrefix(y, p) => IsRef(Walk(h2, Ref(Record(g)), y))
         /\ Walk(h2, Ref(Record(g)), p) = v
         /\ Spared(p, h, h2)
<1>1. /\ p \in ToSet(Sorted) /\ p \in Seq(Names) /\ Len(p) \in Nat \ {0} /\ Last(p) \in Names
      /\ \A k \in 1 .. Len(p) - 1 : p[k] \in InnerNames
  BY InnerName
<1>2. PICK f : /\ f[0] = [heap |-> h, object |-> Record(g)]
               /\ \A k \in 1 .. Len(p) - 1 : f[k] = Descend(f[k - 1], p[k])
               /\ LET w == f[Len(p) - 1] IN
                  SetPointer(h, g, p, v) = [w.heap EXCEPT ![w.object] = Set(@, Last(p), v)]
  <2>1. Len(p) \in Nat \ {0}
    BY <1>1
  <2>2. QED
    BY ONLY <2>1, SetPointerSteps
<1> DEFINE at(k, y) == Walk(k, Ref(Record(g)), y)
           Fine(w) == /\ w = [heap |-> w.heap, object |-> w.object]
                      /\ HeapOK(w.heap) /\ Record(g) \in DOMAIN w.heap
                      /\ Spared(p, h, w.heap)
           Way(w, k) ==
             /\ at(w.heap, Up(p, k)) = Ref(w.object)
             /\ \A y \in Paths : ~IsPrefix(y, p) \/ IsRef(at(h, y)) \/ Len(y) > k =>
                                   at(w.heap, y) = at(h, y)
             /\ \A y \in Paths : IsPrefix(y, p) /\ Len(y) <= k => IsRef(at(w.heap, y))
           T == {k \in 0 .. Len(p) - 1 : Fine(f[k]) /\ Way(f[k], k)}
<1> HIDE DEF at
<1>3. 0 \in T
  <2> DEFINE w == f[0]
  <2>1. w.heap = h /\ w.object = Record(g) /\ w = [heap |-> w.heap, object |-> w.object]
    BY <1>2
  <2>2. Spared(p, h, h)
    BY DEF Spared
  <2>3. at(h, <<>>) = Ref(Record(g))
    BY WalkEmpty DEF at
  <2>4. at(h, Up(p, 0)) = Ref(Record(g))
    BY <1>1, <2>3, UpSteps
  <2>5. ASSUME NEW y \in Paths, Len(y) <= 0 PROVE IsRef(at(h, y))
    <3>1. y \in Seq(Names)
      BY PathIn
    <3>2. y = <<>>
      BY <2>5, <3>1
    <3>3. QED
      BY <2>3, <3>2, RefIs
  <2>6. Fine(w) /\ Way(w, 0)
    <3> HIDE DEF w
    <3>1. QED
      BY <2>1, <2>2, <2>4, <2>5
  <2>7. 0 \in 0 .. Len(p) - 1
    BY <1>1
  <2> HIDE DEF Fine, Way
  <2>8. QED
    BY <2>6, <2>7
<1>4. ASSUME NEW k \in 1 .. Len(p) - 1, k - 1 \in T PROVE k \in T
  <2> DEFINE w == f[k - 1]
             d == f[k]
             x == Up(p, k - 1)
             z == Up(p, k)
             n == p[k]
  <2>0. k \in 1 .. Len(p) /\ k - 1 \in 0 .. Len(p) /\ k \in 0 .. Len(p) /\ k \in Nat
    BY <1>1
  <2>1. d = Descend(w, n) /\ n \in InnerNames
    BY <1>1, <1>2
  <2>2. Fine(w) /\ Way(w, k - 1)
    BY <1>4
  <2> HIDE DEF T, w, d
  <2>3. /\ x \in Seq(Names) /\ z \in Stations /\ z = Append(x, n) /\ IsPrefix(x, p)
        /\ z \in Seq(Names) /\ Len(z) = k /\ IsPrefix(z, p)
        /\ \A y \in Seq(Names) : IsPrefix(y, p) /\ Len(y) = k => y = z
    BY <1>1, <2>0, UpSteps, UpIs
  <2>4. x \in Paths
    <3>1. CASE k = 1
      <4>1. x = Up(p, 0)
        BY <3>1
      <4>2. QED
        BY <1>1, <4>1, UpSteps DEF Paths
    <3>2. CASE k # 1
      <4>1. k - 1 \in 1 .. Len(p)
        BY <2>0, <3>2
      <4>2. QED
        BY <1>1, <4>1, UpSteps, StationPaths
    <3>3. QED
      BY <3>1, <3>2
  <2> HIDE DEF x, z, n
  <2>5. Descends(g, w.heap, z, x, n, w.object)
    BY <2>1, <2>2, <2>3, <2>4 DEF Descends, at, x
  <2>6. /\ at(d.heap, z) = Ref(d.object)
        /\ \A y \in Paths : y # z \/ IsRef(at(w.heap, y)) => at(d.heap, y) = at(w.heap, y)
        /\ \/ d = [heap |-> w.heap, object |-> Entry(w.heap, Ref(w.object), n)[2]]
           \/ d = [heap |-> WithNew(w.heap, w.object, n), object |-> New(w.object, n)]
    <3>1. /\ ~WritesIntoInput /\ DOMAIN fields \subseteq ToSet(Sorted) /\ g \in Goroutine
          /\ w = [heap |-> w.heap, object |-> w.object]
      BY <2>2
    <3>2. Stands(g, w, z, x, n)
      BY <2>5, <3>1 DEF Stands
    <3> HIDE DEF Fine, Way
    <3>3. QED
      BY ONLY <2>1, <3>1, <3>2, DescendView DEF at
  <2>7. /\ d = [heap |-> d.heap, object |-> d.object]
        /\ HeapOK(d.heap) /\ DOMAIN w.heap \subseteq DOMAIN d.heap
    <3>1. w.object \in DOMAIN w.heap /\ w.object[2] # <<"$">>
      <4>1. at(w.heap, x) = Ref(w.object)
        BY <2>2 DEF x
      <4>2. QED
        BY <2>2, <2>4, <4>1, SaidMounted, RefIs DEF at
    <3>2. QED
      BY <2>1, <2>2, <3>1, DescendOK
  <2>8. Spared(p, h, d.heap)
    <3>1. CASE d = [heap |-> w.heap, object |-> Entry(w.heap, Ref(w.object), n)[2]]
      BY <2>2, <3>1
    <3>2. CASE d = [heap |-> WithNew(w.heap, w.object, n), object |-> New(w.object, n)]
      <4>1. d.heap = WithNew(w.heap, w.object, n)
        BY <3>2
      <4>2. Walk(w.heap, Ref(Record(g)), Up(p, k - 1)) = Ref(w.object)
        BY <2>2 DEF at
      <4>3. Spared(p, w.heap, d.heap)
        BY <2>2, <4>1, <4>2, MadeSpares DEF n
      <4>4. Spared(p, h, w.heap)
        BY <2>2
      <4>5. QED
        BY <4>3, <4>4 DEF Spared
    <3>3. QED
      BY <2>6, <3>1, <3>2
  <2>9. ASSUME NEW y \in Paths, ~IsPrefix(y, p) \/ IsRef(at(h, y)) \/ Len(y) > k
        PROVE  at(d.heap, y) = at(h, y)
    <3>1. y \in Seq(Names) /\ Len(y) \in Nat
      BY PathIn
    <3>2. at(w.heap, y) = at(h, y)
      BY <2>0, <2>2, <2>9, <3>1
    <3>3. y # z \/ IsRef(at(w.heap, y))
      <4>1. CASE ~IsPrefix(y, p)
        BY <2>3, <4>1
      <4>2. CASE IsRef(at(h, y))
        BY <3>2, <4>2
      <4>3. CASE Len(y) > k
        <5>1. Len(y) # Len(z)
          BY <2>0, <2>3, <3>1, <4>3
        <5>2. QED
          BY <5>1
      <4>4. QED
        BY <2>9, <4>1, <4>2, <4>3
    <3>4. QED
      BY <2>6, <3>2, <3>3
  <2>10. ASSUME NEW y \in Paths, IsPrefix(y, p), Len(y) <= k PROVE IsRef(at(d.heap, y))
    <3>1. y \in Seq(Names) /\ Len(y) \in Nat
      BY PathIn
    <3>2. CASE Len(y) = k
      BY <2>3, <2>6, <2>10, <3>1, <3>2, RefIs
    <3>3. CASE Len(y) # k
      <4>1. Len(y) <= k - 1
        BY <2>0, <2>10, <3>1, <3>3
      <4>2. IsRef(at(w.heap, y))
        BY <2>2, <2>10, <4>1
      <4>3. QED
        BY <2>6, <4>2
    <3>4. QED
      BY <3>2, <3>3
  <2>11. Fine(d) /\ Way(d, k)
    <3>1. Record(g) \in DOMAIN d.heap
      BY <2>2, <2>7
    <3>2. QED
      BY <2>6, <2>7, <2>8, <2>9, <2>10, <3>1 DEF z
  <2> HIDE DEF Fine, Way
  <2>12. QED
    BY <2>11 DEF T, d
<1> DEFINE w == f[Len(p) - 1]
<1>5. Fine(w) /\ Way(w, Len(p) - 1)
  <2> HIDE DEF T
  <2>0. Len(p) - 1 \in Nat
    BY <1>1
  <2>1. 0 .. Len(p) - 1 \subseteq T
    BY <2>0, <1>3, <1>4, InductionTo
  <2>2. Len(p) - 1 \in T
    BY <1>1, <2>1
  <2>3. QED
    BY <1>1, <2>2 DEF T
<1>6. h2 = [w.heap EXCEPT ![w.object] = Set(@, Last(p), v)]
  BY <1>2
<1> HIDE DEF w
<1> DEFINE n == Last(p)
<1>7. w.object \in DOMAIN w.heap
  <2>1. Walk(w.heap, Ref(Record(g)), Up(p, Len(p) - 1)) = Ref(w.object)
    BY <1>5 DEF at
  <2>2. Len(p) \in 1 .. Len(p)
    BY <1>1
  <2>3. QED
    BY <1>5, <2>1, <2>2, WrittenObject
<1>8. Touches(w.heap, w.object, n, h2) /\ Entry(h2, Ref(w.object), n) = v
  <2>1. /\ DOMAIN h2 = DOMAIN w.heap
        /\ \A a \in DOMAIN w.heap : a # w.object => h2[a] = w.heap[a]
        /\ DOMAIN h2[w.object] = DOMAIN w.heap[w.object] \cup {n}
        /\ \A m \in DOMAIN h2[w.object] :
             h2[w.object][m] = IF m = n THEN v ELSE w.heap[w.object][m]
    BY <1>6, <1>7 DEF Set
  <2> HIDE DEF n
  <2>2. Touches(w.heap, w.object, n, h2)
    BY <2>1 DEF Touches
  <2>3. n \in DOMAIN h2[w.object] /\ h2[w.object][n] = v
    BY <2>1
  <2>4. QED
    BY <2>2, <2>3, EntryIs
<1>9. /\ \A y \in Paths : ~IsPrefix(p, y) => at(h2, y) = at(w.heap, y)
      /\ at(h2, p) = v
      /\ Spared(p, w.heap, h2)
  <2>1. Walk(w.heap, Ref(Record(g)), Up(p, Len(p) - 1)) = Ref(w.object)
    BY <1>5 DEF at
  <2>2. QED
    BY <1>5, <1>8, <2>1, Touched DEF at
<1>10. Spared(p, h, h2)
  <2>1. Spared(p, h, w.heap)
    BY <1>5
  <2>2. QED
    BY <1>9, <2>1 DEF Spared
<1>11. ASSUME NEW y \in Paths, ~IsPrefix(p, y), ~IsPrefix(y, p) \/ IsRef(at(h, y))
       PROVE  at(h2, y) = at(h, y)
  BY <1>5, <1>9, <1>11
<1>12. ASSUME NEW y \in Paths, IsStrictPrefix(y, p) PROVE IsRef(at(h2, y))
  <2>1. y \in Seq(Names) /\ Len(y) \in Nat
    BY PathIn
  <2>2. IsPrefix(y, p) /\ y # p
    BY <1>12 DEF IsStrictPrefix
  <2>3. ~IsPrefix(p, y)
    BY <1>1, <2>1, <2>2, PrefixOrder
  <2>4. Len(y) <= Len(p) - 1
    <3>1. Len(y) <= Len(p)
      BY <1>1, <2>1, <2>2, PrefixOrder
    <3>2. Len(y) # Len(p)
      <4>1. Len(y) = Len(p) => IsPrefix(p, y)
        <5>1. IsPrefix(p, p)
          BY <1>1, PrefixOrder
        <5>2. Len(y) = Len(p) => Len(p) <= Len(y)
          BY <1>1, <2>1
        <5>3. QED
          BY <1>1, <2>1, <2>2, <5>1, <5>2, PrefixOrder
      <4>2. QED
        BY <2>3, <4>1
    <3>3. QED
      BY <1>1, <2>1, <3>1, <3>2
  <2>5. IsRef(at(w.heap, y))
    BY <1>5, <2>2, <2>4
  <2>6. QED
    BY <1>9, <2>3, <2>5
<1>13. QED
  BY <1>9, <1>10, <1>11, <1>12 DEF at

\* deletePointer: nothing is at the pointer or below it any more.
LEMMA DeletePointerView ==
  ASSUME ~WritesIntoInput, DOMAIN fields \subseteq ToSet(Sorted),
         NEW g \in Goroutine, NEW h, HeapOK(h), Record(g) \in DOMAIN h, NEW p \in DOMAIN fields,
         NEW h2, h2 = DeletePointer(h, g, p)
  PROVE  /\ \A y \in Paths : ~IsPrefix(p, y) =>
              Walk(h2, Ref(Record(g)), y) = Walk(h, Ref(Record(g)), y)
         /\ Walk(h2, Ref(Record(g)), p) = Missing
         /\ Spared(p, h, h2)
<1> DEFINE x == Up(p, Len(p) - 1)
           v == Walk(h, Ref(Record(g)), x)
           n == Last(p)
<1>1. /\ p \in ToSet(Sorted) /\ p \in Seq(Names) /\ Len(p) \in Nat \ {0} /\ n \in Names
      /\ Len(p) \in 1 .. Len(p) /\ n = p[Len(p)]
  BY InnerName DEF Last
<1>2. Front(p) = x
  BY DEF Front, Up
<1>3. p = Append(x, n) /\ x \in Seq(Names)
  <2>1. Up(p, Len(p)) = p /\ Up(p, Len(p)) = Append(x, p[Len(p)])
    BY <1>1, UpSteps
  <2>2. x \in Seq(Names)
    BY <1>2, SplitPointer
  <2>3. QED
    BY <1>1, <2>1, <2>2
<1>4. h2 = IF IsRef(v) THEN [h EXCEPT ![v[2]] = [m \in DOMAIN @ \ {n} |-> @[m]]] ELSE h
  BY <1>2 DEF DeletePointer
<1>5. CASE ~IsRef(v)
  <2>1. h2 = h
    BY <1>4, <1>5
  <2>2. Walk(h, Ref(Record(g)), p) = Entry(h, v, n)
    <3> HIDE DEF x, n
    <3>1. QED
      BY <1>1, <1>3, WalkAppend
  <2>3. Entry(h, v, n) = Missing
    BY <1>5 DEF Entry
  <2>4. Spared(p, h, h)
    BY DEF Spared
  <2>5. QED
    BY <2>1, <2>2, <2>3, <2>4
<1>6. CASE IsRef(v)
  <2> DEFINE o == v[2]
  <2>1. v = Ref(o) /\ o \in DOMAIN h
    <3>1. v = Walk(h, Ref(Record(g)), x)
      OBVIOUS
    <3> HIDE DEF v
    <3>2. QED
      BY <1>3, <1>6, <3>1, WalkOK
  <2>2. h2 = [h EXCEPT ![o] = [m \in DOMAIN @ \ {n} |-> @[m]]]
    BY <1>4, <1>6
  <2>3. Walk(h, Ref(Record(g)), Up(p, Len(p) - 1)) = Ref(o)
    BY <2>1
  <2> HIDE DEF o, v, n
  <2>4. /\ DOMAIN h2 = DOMAIN h
        /\ \A a \in DOMAIN h : a # o => h2[a] = h[a]
        /\ DOMAIN h2[o] = DOMAIN h[o] \ {n}
        /\ \A m \in DOMAIN h[o] \ {n} : h2[o][m] = h[o][m]
    BY <2>1, <2>2
  <2>5. Touches(h, o, n, h2) /\ Entry(h2, Ref(o), n) = Missing
    <3>1. Touches(h, o, n, h2)
      BY <2>4 DEF Touches
    <3>2. n \notin DOMAIN h2[o]
      BY <2>4
    <3>3. QED
      BY <3>1, <3>2, EntryIs
  <2>6. QED
    BY <2>3, <2>5, Touched DEF n
<1>7. QED
  BY <1>5, <1>6

-----------------------------------------------------------------------------
(* The values of the fields, and those of the ideal.                         *)

\* What toMap makes, the input of the ideal included.
LEMMA InputIs ==
  ASSUME NEW g, NEW r
  PROVE  LET in == Input(g, r) IN
         /\ InputOf(g) # InputPart(g)
         /\ DOMAIN in \subseteq {InputOf(g), InputPart(g)} /\ InputOf(g) \in DOMAIN in
         /\ r \in Described =>
              /\ InputPart(g) \in DOMAIN in /\ in[InputPart(g)] = [parent |-> <<"parent", r>>]
              /\ in[InputOf(g)] = [id |-> Text("id"), name |-> <<"name", r>>,
                                   associations |-> Ref(InputPart(g))]
         /\ r \notin Described => in[InputOf(g)] = [id |-> <<"id", r>>]
<1> DEFINE in == Input(g, r)
<1>1. InputOf(g) # InputPart(g)
  BY DEF InputOf, InputPart
<1>2. DOMAIN in = {InputOf(g)} \cup {InputPart(g) : x \in Described \cap {r}}
  BY DEF Input
<1>3. r \in Described => InputPart(g) \in DOMAIN in
  BY <1>2
<1>4. r \in Described => in[InputPart(g)] = [parent |-> <<"parent", r>>]
  BY <1>1, <1>3 DEF Input
<1>5. r \in Described => in[InputOf(g)] = [id |-> Text("id"), name |-> <<"name", r>>,
                                           associations |-> Ref(InputPart(g))]
  BY <1>1 DEF Input
<1>6. r \notin Described => in[InputOf(g)] = [id |-> <<"id", r>>]
  BY <1>1 DEF Input
<1>7. QED
  BY <1>1, <1>2, <1>3, <1>4, <1>5, <1>6

\* The values of the texts are no references.
LEMMA TextIs ==
  ASSUME NEW r
  PROVE  /\ \A t \in {"id", "null", "text", "label", "title", "source", "object"} :
              ~IsRef(Text(t)) /\ Text(t) # Missing
         /\ \A t \in {"name", "id", "parent"} : ~IsRef(<<t, r>>) /\ <<t, r>> # Missing
BY DEF IsRef, Text, Missing

\* What the expressions find in an input that is as it was made.
LEMMA EvaluateInput ==
  ASSUME NEW h, NEW g, NEW r, h[InputOf(g)] = Input(g, r)[InputOf(g)]
  PROVE  /\ Evaluate(h, g, NameOrId) = IF r \in Described THEN <<"name", r>> ELSE <<"id", r>>
         /\ Evaluate(h, g, Whole) = IF r \in Described THEN Ref(InputPart(g)) ELSE Missing
         /\ (r \in Described => h[InputPart(g)] = Input(g, r)[InputPart(g)]) =>
              Evaluate(h, g, Part) = IF r \in Described THEN <<"parent", r>> ELSE Missing
<1> DEFINE in == Ref(InputOf(g))
           value(e, i) == Walk(h, in, e[i])
           found(e) == {i \in DOMAIN e : value(e, i) # Missing}
           least(e) == CHOOSE i \in found(e) : \A j \in found(e) : i <= j
<1>1. /\ r \in Described => h[InputOf(g)] = [id |-> Text("id"), name |-> <<"name", r>>,
                                             associations |-> Ref(InputPart(g))]
      /\ r \notin Described => h[InputOf(g)] = [id |-> <<"id", r>>]
  BY InputIs
<1>2. /\ Entry(h, in, "name") = IF r \in Described THEN <<"name", r>> ELSE Missing
      /\ Entry(h, in, "id") = IF r \in Described THEN Text("id") ELSE <<"id", r>>
      /\ Entry(h, in, "associations") = IF r \in Described THEN Ref(InputPart(g)) ELSE Missing
  BY <1>1, EntryIs
<1>3. \A n, m : /\ Walk(h, in, <<n>>) = Entry(h, in, n)
                /\ Walk(h, in, <<n, m>>) = Entry(h, Entry(h, in, n), m)
  <2> HIDE DEF in
  <2>1. QED
    BY WalkOne
<1>4. \A e : Evaluate(h, g, e) = IF found(e) = {} THEN Missing ELSE value(e, least(e))
  BY DEF Evaluate
<1> HIDE DEF in
<1>5. ASSUME NEW n PROVE Evaluate(h, g, << <<n>> >>) = Entry(h, in, n)
  <2> DEFINE e == << <<n>> >>
  <2>1. DOMAIN e = {1} /\ e[1] = <<n>>
    OBVIOUS
  <2> HIDE DEF e
  <2>2. value(e, 1) = Entry(h, in, n)
    BY <1>3, <2>1
  <2>3. CASE Entry(h, in, n) = Missing
    <3>1. found(e) = {}
      BY <2>1, <2>2, <2>3
    <3>2. QED
      BY <1>4, <2>3, <3>1 DEF e
  <2>4. CASE Entry(h, in, n) # Missing
    <3>1. found(e) = {1}
      BY <2>1, <2>2, <2>4
    <3> HIDE DEF found, value
    <3>2. least(e) = 1
      BY <3>1
    <3>3. QED
      BY <1>4, <2>2, <3>1, <3>2 DEF e
  <2>5. QED
    BY <2>3, <2>4
<1>6. Evaluate(h, g, Whole) = Entry(h, in, "associations")
  BY <1>5 DEF Whole
<1>7. ASSUME r \in Described => h[InputPart(g)] = Input(g, r)[InputPart(g)]
      PROVE  Evaluate(h, g, Part) = IF r \in Described THEN <<"parent", r>> ELSE Missing
  <2> DEFINE e == << <<"associations", "parent">> >>
  <2>1. DOMAIN e = {1} /\ e[1] = <<"associations", "parent">> /\ Part = e
    BY DEF Part
  <2> HIDE DEF e
  <2>2. value(e, 1) = Entry(h, Entry(h, in, "associations"), "parent")
    BY <1>3, <2>1
  <2>3. r \in Described => Entry(h, Ref(InputPart(g)), "parent") = <<"parent", r>>
    <3>1. r \in Described => h[InputPart(g)] = [parent |-> <<"parent", r>>]
      BY <1>7, InputIs
    <3>2. QED
      BY <3>1, EntryIs
  <2>4. r \notin Described => Entry(h, Missing, "parent") = Missing
    BY RefIs DEF Entry
  <2>5. value(e, 1) = IF r \in Described THEN <<"parent", r>> ELSE Missing
    BY <1>2, <2>2, <2>3, <2>4
  <2>6. CASE r \notin Described
    <3>1. found(e) = {}
      BY <2>1, <2>5, <2>6
    <3>2. QED
      BY <1>4, <2>1, <2>6, <3>1
  <2>7. CASE r \in Described
    <3>1. found(e) = {1}
      BY <2>1, <2>5, <2>7, TextIs
    <3> HIDE DEF found, value
    <3>2. least(e) = 1
      BY <3>1
    <3>3. QED
      BY <1>4, <2>1, <2>5, <2>7, <3>1, <3>2
  <2>8. QED
    BY <2>6, <2>7
<1>8. Evaluate(h, g, NameOrId) = IF r \in Described THEN <<"name", r>> ELSE <<"id", r>>
  <2> DEFINE e == << <<"name">>, <<"id">> >>
  <2>1. DOMAIN e = {1, 2} /\ e[1] = <<"name">> /\ e[2] = <<"id">> /\ NameOrId = e
    BY DEF NameOrId
  <2> HIDE DEF e
  <2>2. value(e, 1) = Entry(h, in, "name") /\ value(e, 2) = Entry(h, in, "id")
    BY <1>3, <2>1
  <2>3. CASE r \in Described
    <3>1. found(e) = {1, 2}
      BY <1>2, <2>1, <2>2, <2>3, TextIs
    <3>2. value(e, 1) = <<"name", r>>
      BY <1>2, <2>2, <2>3
    <3> HIDE DEF found, value
    <3>3. least(e) = 1
      BY <3>1
    <3>4. QED
      BY <1>4, <2>1, <2>3, <3>1, <3>2, <3>3
  <2>4. CASE r \notin Described
    <3>1. found(e) = {2}
      BY <1>2, <2>1, <2>2, <2>4, TextIs
    <3>2. value(e, 2) = <<"id", r>>
      BY <1>2, <2>2, <2>4
    <3> HIDE DEF found, value
    <3>3. least(e) = 2
      BY <3>1
    <3>4. QED
      BY <1>4, <2>1, <2>4, <3>1, <3>2, <3>3
  <2>5. QED
    BY <2>3, <2>4
<1>9. QED
  BY <1>2, <1>6, <1>7, <1>8

\* What is in the heap of the ideal.
LEMMA IdealObjects ==
  ASSUME NEW r
  PROVE  LET k == IdealHeap(r) IN
         /\ k[InputOf("ideal")] = Input("ideal", r)[InputOf("ideal")]
         /\ r \in Described => k[InputPart("ideal")] = [parent |-> <<"parent", r>>]
         /\ \A o \in DOMAIN NewRecord("ideal", r) : k[o] = NewRecord("ideal", r)[o]
         /\ \A p \in DOMAIN fields : fields[p].literal = "object" =>
              k[<<"config", p>>] = [label |-> Text("label")]
         /\ k[NilMap] = NoEntry
<1> DEFINE k == IdealHeap(r)
           new == NewRecord("ideal", r)
           in == Input("ideal", r)
           lit == Literals(fields)
<1>1. DOMAIN new = {Record("ideal"), <<"ideal", Properties>>, <<"ideal", Connected>>,
                    <<"ideal", Associations>>, <<"ideal", Own>>}
  BY NewObjects
<1>2. InputOf("ideal") \notin DOMAIN new /\ InputPart("ideal") \notin DOMAIN new
  <2>1. /\ Properties \notin InputPaths /\ Associations \notin InputPaths /\ Own \notin InputPaths
    BY Pointers, InnerName
  <2>2. Connected \notin InputPaths
    <3>1. Connected[1] = "properties" /\ <<"$">>[1] = "$" /\ <<"$", "associations">>[1] = "$"
      BY PointerNames
    <3>2. QED
      BY <3>1 DEF InputPaths
  <2>3. <<>> \notin InputPaths
    BY DEF InputPaths
  <2>4. QED
    BY <1>1, <2>1, <2>2, <2>3 DEF InputOf, InputPart, InputPaths, Record
<1>3. /\ InputOf("ideal") \in DOMAIN in
      /\ in[InputOf("ideal")] = Input("ideal", r)[InputOf("ideal")]
      /\ r \in Described => /\ InputPart("ideal") \in DOMAIN in
                            /\ in[InputPart("ideal")] = [parent |-> <<"parent", r>>]
      /\ \A o \in DOMAIN in : o[1] = "ideal"
  <2>1. /\ DOMAIN in \subseteq {InputOf("ideal"), InputPart("ideal")}
        /\ InputOf("ideal") \in DOMAIN in
        /\ r \in Described => /\ InputPart("ideal") \in DOMAIN in
                              /\ in[InputPart("ideal")] = [parent |-> <<"parent", r>>]
    BY InputIs
  <2> HIDE DEF in
  <2>2. InputOf("ideal")[1] = "ideal" /\ InputPart("ideal")[1] = "ideal"
    BY DEF InputOf, InputPart
  <2>3. QED
    BY <2>1, <2>2 DEF in
<1>4. \A o \in DOMAIN new : o[1] = "ideal"
  BY <1>1 DEF Record
<1>5. /\ NilMap \in DOMAIN lit /\ lit[NilMap] = NoEntry /\ NilMap[1] = "nil"
      /\ \A p \in DOMAIN fields : fields[p].literal = "object" =>
           <<"config", p>> \in DOMAIN lit /\ lit[<<"config", p>>] = [label |-> Text("label")]
  BY DEF Literals, NilMap
<1> HIDE DEF new, in, lit, k
<1>6. k = Over(new, Over(in, lit))
  BY DEF IdealHeap, new, in, lit, k
<1>7. \A o : o \in DOMAIN new \cup (DOMAIN in \cup DOMAIN lit) =>
        k[o] = IF o \in DOMAIN new THEN new[o] ELSE IF o \in DOMAIN in THEN in[o] ELSE lit[o]
  BY <1>6 DEF Over
<1>8. /\ \A p : <<"config", p>> \notin DOMAIN new \cup DOMAIN in
      /\ NilMap \notin DOMAIN new \cup DOMAIN in
  BY <1>3, <1>4, <1>5
<1>9. QED
  BY <1>2, <1>3, <1>5, <1>7, <1>8 DEF new, k

\* The value of a field is that of the ideal: a text, a literal, or the
\* associations of the input.
LEMMA ValueView ==
  ASSUME NEW g \in Goroutine, NEW h, NEW r, fields \in [DOMAIN fields -> Field],
         NEW p \in DOMAIN fields, fields[p].expr # Broken, ~fields[p].remove,
         h[InputOf(g)] = Input(g, r)[InputOf(g)],
         fields[p].expr = Part => InputIntact(h, g, r)
  PROVE  LET v  == ValueOf(h, g, fields, p)
             iv == IdealValue(r, p)
         IN
         /\ \/ v = iv /\ ~IsRef(v)
            \/ v = Ref(<<"config", p>>) /\ iv = v /\ fields[p].literal = "object"
            \/ v = Ref(InputPart(g)) /\ iv = Ref(InputPart("ideal")) /\ Takes(r, p)
         /\ Takes(r, p) => v = Ref(InputPart(g))
<1> DEFINE v == ValueOf(h, g, fields, p)
           iv == IdealValue(r, p)
           e == fields[p].expr
           k == IdealHeap(r)
<1> SUFFICES /\ \/ v = iv /\ ~IsRef(v)
                \/ v = Ref(<<"config", p>>) /\ iv = v /\ fields[p].literal = "object"
                \/ v = Ref(InputPart(g)) /\ iv = Ref(InputPart("ideal")) /\ Takes(r, p)
             /\ Takes(r, p) => v = Ref(InputPart(g))
  OBVIOUS
<1>1. /\ fields[p] \in Field /\ e \in {NoExpr, NameOrId, Whole, Part}
      /\ fields[p].literal \in {"null", "text", "object"}
  BY DEF Field
<1>2. NoExpr # Part /\ NameOrId # Part /\ Whole # Part /\ NameOrId # NoExpr
      /\ Whole # NoExpr /\ Whole # NameOrId
  BY DEF NoExpr, NameOrId, Whole, Part
<1>3. iv = ValueOf(k, "ideal", fields, p)
  BY DEF IdealValue
<1>4. /\ k[InputOf("ideal")] = Input("ideal", r)[InputOf("ideal")]
      /\ r \in Described => k[InputPart("ideal")] = Input("ideal", r)[InputPart("ideal")]
  <2>1. /\ k[InputOf("ideal")] = Input("ideal", r)[InputOf("ideal")]
        /\ r \in Described => k[InputPart("ideal")] = [parent |-> <<"parent", r>>]
    BY IdealObjects
  <2>2. r \in Described => Input("ideal", r)[InputPart("ideal")] = [parent |-> <<"parent", r>>]
    BY InputIs
  <2>3. QED
    BY <2>1, <2>2
<1> HIDE DEF k, v, iv
<1>5. Takes(r, p) <=> r \in Described /\ e = Whole
  BY DEF Takes
<1>6. CASE e = NoExpr
  <2>1. v = iv /\ (v = Ref(<<"config", p>>) \/ v = Text(fields[p].literal))
    BY <1>3, <1>6 DEF ValueOf, v
  <2>2. CASE fields[p].literal = "object"
    <3>1. v = Ref(<<"config", p>>)
      BY <1>6, <2>2 DEF ValueOf, v
    <3>2. QED
      BY <1>2, <1>5, <1>6, <2>1, <2>2, <3>1
  <2>3. CASE fields[p].literal # "object"
    <3>1. v = Text(fields[p].literal)
      BY <1>6, <2>3 DEF ValueOf, v
    <3>2. ~IsRef(v)
      BY <1>1, <2>3, <3>1, TextIs
    <3>3. QED
      BY <1>2, <1>5, <1>6, <2>1, <3>2
  <2>4. QED
    BY <2>2, <2>3
<1>7. CASE e # NoExpr
  <2>1. v = Evaluate(h, g, e) /\ iv = Evaluate(k, "ideal", e)
    BY <1>3, <1>7 DEF ValueOf, v
  <2> HIDE DEF e
  <2>2. CASE e = NameOrId
    <3>1. /\ v = IF r \in Described THEN <<"name", r>> ELSE <<"id", r>>
          /\ iv = IF r \in Described THEN <<"name", r>> ELSE <<"id", r>>
      <4>1. /\ h[InputOf(g)] = Input(g, r)[InputOf(g)]
            /\ k[InputOf("ideal")] = Input("ideal", r)[InputOf("ideal")]
        BY <1>4
      <4>2. /\ Evaluate(h, g, NameOrId) =
                 IF r \in Described THEN <<"name", r>> ELSE <<"id", r>>
            /\ Evaluate(k, "ideal", NameOrId) =
                 IF r \in Described THEN <<"name", r>> ELSE <<"id", r>>
        BY ONLY <4>1, EvaluateInput
      <4>3. QED
        BY <2>1, <2>2, <4>2
    <3>2. ~IsRef(v)
      BY <3>1, TextIs
    <3>3. QED
      BY <1>2, <1>5, <2>2, <3>1, <3>2
  <2>3. CASE e = Whole
    <3>1. /\ v = IF r \in Described THEN Ref(InputPart(g)) ELSE Missing
          /\ iv = IF r \in Described THEN Ref(InputPart("ideal")) ELSE Missing
      BY <1>4, <2>1, <2>3, EvaluateInput
    <3>2. QED
      BY <1>5, <2>3, <3>1, RefIs
  <2>4. CASE e = Part
    <3>1. r \in Described => h[InputPart(g)] = Input(g, r)[InputPart(g)]
      BY <2>4 DEF InputIntact, e
    <3>2. /\ v = IF r \in Described THEN <<"parent", r>> ELSE Missing
          /\ iv = IF r \in Described THEN <<"parent", r>> ELSE Missing
      BY <1>4, <2>1, <2>4, <3>1, EvaluateInput
    <3>3. ~IsRef(v)
      BY <3>2, TextIs, RefIs
    <3>4. QED
      BY <1>2, <1>5, <2>4, <3>2, <3>3
  <2>5. QED
    BY <1>1, <1>7, <2>2, <2>3, <2>4
<1>8. QED
  BY <1>6, <1>7

\* Where the value of the field p is looked at, at or below its path.
Viewed(g, h, r, p, h2, y) ==
  /\ g \in Goroutine /\ fields \in [DOMAIN fields -> Field]
  /\ DOMAIN fields \subseteq ToSet(Sorted) /\ p \in DOMAIN fields
  /\ fields[p].expr # Broken /\ ~fields[p].remove
  /\ h[InputOf(g)] = Input(g, r)[InputOf(g)]
  /\ fields[p].expr = Part => InputIntact(h, g, r)
  /\ LiteralsOK(h2)
  /\ Takes(r, p) => InputIntact(h2, g, r)
  /\ y \in Paths /\ IsPrefix(p, y)
  /\ \A q \in DOMAIN fields : IsPrefix(p, q) /\ IsPrefix(q, y) => q = p

\* and so is what is below it, but for what other fields put there.
LEMMA FieldView ==
  ASSUME NEW g, NEW h, NEW r, NEW p, NEW h2, NEW y, Viewed(g, h, r, p, h2, y)
  PROVE  Render(Walk(h2, ValueOf(h, g, fields, p), Rest(p, y))) =
           Render(Walk(IdealHeap(r), IdealValue(r, p), Rest(p, y)))
<1> SUFFICES ASSUME g \in Goroutine, fields \in [DOMAIN fields -> Field],
                    DOMAIN fields \subseteq ToSet(Sorted),
                    p \in DOMAIN fields, fields[p].expr # Broken, ~fields[p].remove,
                    h[InputOf(g)] = Input(g, r)[InputOf(g)],
                    fields[p].expr = Part => InputIntact(h, g, r),
                    LiteralsOK(h2), Takes(r, p) => InputIntact(h2, g, r),
                    y \in Paths, IsPrefix(p, y),
                    \A q \in DOMAIN fields : IsPrefix(p, q) /\ IsPrefix(q, y) => q = p
             PROVE  Render(Walk(h2, ValueOf(h, g, fields, p), Rest(p, y))) =
                      Render(Walk(IdealHeap(r), IdealValue(r, p), Rest(p, y)))
  BY DEF Viewed
<1> DEFINE v == ValueOf(h, g, fields, p)
           k == IdealHeap(r)
           iv == IdealValue(r, p)
           s == Rest(p, y)
           m == s[1]
<1>1. p \in Seq(Names) /\ y \in Seq(Names) /\ p \in ToSet(Sorted) /\ Len(p) \in Nat
  BY InnerName, PathIn
<1>2. /\ s \in Seq(Names) /\ Len(s) = Len(y) - Len(p)
      /\ (s = <<>> <=> p = y) /\ \A i \in 1 .. Len(y) - Len(p) : s[i] = y[Len(p) + i]
  BY <1>1, RestIs
<1>3. /\ \/ v = iv /\ ~IsRef(v)
         \/ v = Ref(<<"config", p>>) /\ iv = v /\ fields[p].literal = "object"
         \/ v = Ref(InputPart(g)) /\ iv = Ref(InputPart("ideal")) /\ Takes(r, p)
  BY ValueView
<1>4. /\ r \in Described => k[InputPart("ideal")] = [parent |-> <<"parent", r>>]
      /\ fields[p].literal = "object" => k[<<"config", p>>] = [label |-> Text("label")]
  BY IdealObjects
<1> HIDE DEF v, iv, k, s
<1>5. CASE s = <<>>
  <2>1. Walk(h2, v, s) = v /\ Walk(k, iv, s) = iv
    BY <1>5, WalkEmpty
  <2>2. Render(v) = Render(iv)
    BY <1>3, RefIs DEF Render
  <2>3. QED
    BY <2>1, <2>2 DEF v, k, iv, s
<1>6. CASE s # <<>>
  <2>1. CASE ~IsRef(v) /\ v = iv
    <3>1. Walk(h2, v, s) = Missing /\ Walk(k, iv, s) = Missing
      BY <1>2, <1>6, <2>1, WalkOff
    <3>2. QED
      BY <3>1 DEF v, k, iv, s
  <2>2. ASSUME Entry(h2, v, m) = Entry(k, iv, m), ~IsRef(Entry(h2, v, m))
        PROVE  Walk(h2, v, s) = Walk(k, iv, s)
    BY <1>2, <1>6, <2>2, WalkFlat
  <2>3. CASE v = Ref(InputPart(g)) /\ iv = Ref(InputPart("ideal")) /\ Takes(r, p)
    <3>1. r \in Described /\ InputIntact(h2, g, r)
      BY <2>3 DEF Takes
    <3>2. h2[InputPart(g)] = [parent |-> <<"parent", r>>]
      BY <3>1, InputIs DEF InputIntact
    <3>3. k[InputPart("ideal")] = [parent |-> <<"parent", r>>]
      BY <1>4, <3>1
    <3> HIDE DEF m
    <3>4. /\ Entry(h2, v, m) = IF m = "parent" THEN <<"parent", r>> ELSE Missing
          /\ Entry(k, iv, m) = IF m = "parent" THEN <<"parent", r>> ELSE Missing
      BY <2>3, <3>2, <3>3, EntryIs
    <3>5. ~IsRef(Entry(h2, v, m))
      BY <3>4, TextIs, RefIs
    <3>6. Walk(h2, v, s) = Walk(k, iv, s)
      BY <2>2, <3>4, <3>5 DEF m
    <3>7. QED
      BY <3>6 DEF v, k, iv, s
  <2>4. CASE v = Ref(<<"config", p>>) /\ iv = v /\ fields[p].literal = "object"
    <3>1. LiteralOK(h2, p)
      BY <2>4 DEF LiteralsOK
    <3>2. m \in Names /\ Append(p, m) \in Seq(Names) /\ IsPrefix(Append(p, m), y)
          /\ IsPrefix(p, Append(p, m)) /\ Append(p, m) # p
      <4>1. Len(s) \in Nat \ {0} /\ 1 \in 1 .. Len(s) /\ m \in Names
        BY <1>2, <1>6
      <4>2. Len(p) + 1 <= Len(y) /\ m = y[Len(p) + 1] /\ Len(y) \in Nat
        <5>1. Len(s) = Len(y) - Len(p) /\ Len(y) \in Nat /\ Len(p) \in Nat
          BY <1>1, <1>2
        <5>2. Len(p) + 1 <= Len(y) /\ 1 \in 1 .. Len(y) - Len(p)
          BY <4>1, <5>1
        <5>3. s[1] = y[Len(p) + 1]
          BY <1>2, <5>2
        <5>4. QED
          BY <5>1, <5>2, <5>3
      <4> HIDE DEF m
      <4> DEFINE t == Append(p, m)
      <4>3. /\ t \in Seq(Names) /\ Len(t) = Len(p) + 1 /\ t[Len(p) + 1] = m
            /\ \A i \in 1 .. Len(p) : t[i] = p[i]
        BY <1>1, <4>1
      <4> HIDE DEF t
      <4>4. \A i \in 1 .. Len(p) : p[i] = y[i]
        BY <1>1, PrefixIs
      <4>5. \A i \in 1 .. Len(t) : t[i] = y[i]
        <5>1. ASSUME NEW i \in 1 .. Len(t) PROVE t[i] = y[i]
          <6>1. i \in 1 .. Len(p) \/ i = Len(p) + 1
            BY <1>1, <4>3
          <6>2. QED
            BY <4>2, <4>3, <4>4, <6>1
        <5>2. QED
          BY <5>1
      <4>6. IsPrefix(t, y)
        BY <1>1, <4>2, <4>3, <4>5, PrefixIs
      <4>7. IsPrefix(p, t)
        <5>1. Len(p) <= Len(t)
          BY <1>1, <4>3
        <5>2. QED
          BY <1>1, <4>3, <5>1, PrefixIs
      <4>8. t # p
        <5>1. Len(t) # Len(p)
          BY <1>1, <4>3
        <5>2. QED
          BY <5>1
      <4>9. QED
        BY <4>1, <4>3, <4>6, <4>7, <4>8 DEF t
    <3> HIDE DEF m
    <3>3. Append(p, m) \notin DOMAIN fields
      BY <3>2
    <3>4. ~(p = Own /\ m \in {"sourceHash", "recordHash"})
      <4>1. SUFFICES ASSUME p = Own, m \in {"sourceHash", "recordHash"} PROVE FALSE
        OBVIOUS
      <4> DEFINE t == Append(p, m)
      <4>2. t \in Excluded /\ t \in Seq(Names) /\ t # <<>> /\ Len(t) = Len(p) + 1
            /\ t[Len(p) + 1] = m
        BY <1>1, <3>2, <4>1 DEF Excluded
      <4>3. IsPrefix(t, y)
        BY <3>2
      <4> HIDE DEF t
      <4>4. y # <<>>
        BY <4>2, <4>3, PrefixEmpty
      <4>5. PICK u \in Stations \cup {<<>>}, n \in Names : u \in Seq(Names) /\ y = Append(u, n)
        BY <4>4, PathIn
      <4>6. t # y
        BY <4>2, <4>4 DEF Paths
      <4>7. IsPrefix(t, u)
        BY <4>2, <4>3, <4>5, <4>6, PrefixAppend
      <4>8. u # <<>>
        BY <4>2, <4>7, PrefixEmpty
      <4>9. u \in Seq(Names \ {"sourceHash", "recordHash"})
        BY <4>5, <4>8, PlainPointer DEF Stations
      <4>10. Len(p) + 1 \in 1 .. Len(u) /\ u[Len(p) + 1] = m
        <5>1. Len(t) <= Len(u) /\ \A i \in 1 .. Len(t) : t[i] = u[i]
          BY <4>2, <4>5, <4>7, PrefixIs
        <5>2. Len(p) + 1 \in 1 .. Len(t) /\ Len(u) \in Nat
          BY <1>1, <4>2, <4>5
        <5>3. QED
          BY <4>2, <5>1, <5>2
      <4>11. QED
        BY <4>1, <4>9, <4>10
    <3>5. \/ m = "label" /\ m \in DOMAIN h2[<<"config", p>>]
                         /\ h2[<<"config", p>>][m] = Text("label")
          \/ m # "label" /\ m \notin DOMAIN h2[<<"config", p>>]
      BY <3>1, <3>3, <3>4 DEF LiteralOK
    <3>6. k[<<"config", p>>] = [label |-> Text("label")]
      BY <1>4, <2>4
    <3>7. /\ Entry(h2, v, m) = IF m = "label" THEN Text("label") ELSE Missing
          /\ Entry(k, iv, m) = IF m = "label" THEN Text("label") ELSE Missing
      BY <2>4, <3>5, <3>6, EntryIs
    <3>8. ~IsRef(Entry(h2, v, m))
      BY <3>7, TextIs, RefIs
    <3>9. Walk(h2, v, s) = Walk(k, iv, s)
      BY <2>2, <3>7, <3>8 DEF m
    <3>10. QED
      BY <3>9 DEF v, k, iv, s
  <2>5. QED
    BY <1>3, <2>1, <2>3, <2>4
<1>7. QED
  BY <1>5, <1>6

-----------------------------------------------------------------------------
(* The ideal, one pointer after the other.                                   *)

\* A pointer, applied after those that lead to it, decides from there down;
\* above there is an object if it has a value; elsewhere all is as it was.
LEMMA IdealStep ==
  ASSUME NEW A, A \subseteq ToSet(Sorted), NEW p \in ToSet(Sorted), NEW r,
         \A q \in A : ~IsPrefix(p, q), NEW y \in Paths
  PROVE  /\ IsPrefix(p, y) => IdealOf(A \cup {p}, r, y) =
                                Render(Walk(IdealHeap(r), IdealValue(r, p), Rest(p, y)))
         /\ ~IsPrefix(p, y) /\ (~IsPrefix(y, p) \/ IdealValue(r, p) = Missing) =>
              IdealOf(A \cup {p}, r, y) = IdealOf(A, r, y)
         /\ ~IsPrefix(p, y) /\ IsPrefix(y, p) /\ IdealValue(r, p) # Missing =>
              IdealOf(A \cup {p}, r, y) = Text("object")
<1> DEFINE B == A \cup {p}
           dec(C) == {q \in C : IsPrefix(q, y)}
           longest(C) == CHOOSE q \in dec(C) : \A s \in dec(C) : Len(s) <= Len(q)
           v(q) == IdealValue(r, q)
<1>1. /\ y \in Seq(Names) /\ p \in Seq(Names)
      /\ \A q \in B : q \in Seq(Names) /\ Len(q) \in Nat
  BY PathIn, InnerName
<1>2. ASSUME NEW C
      PROVE  IdealSays(C, r, y) =
               IF dec(C) = {} THEN Walk(IdealHeap(r), Ref(Record("ideal")), y)
               ELSE Walk(IdealHeap(r), v(longest(C)), Rest(longest(C), y))
  BY DEF IdealSays, Rest
<1> HIDE DEF v
<1>3. ASSUME IsPrefix(p, y)
      PROVE  IdealOf(B, r, y) = Render(Walk(IdealHeap(r), v(p), Rest(p, y)))
  <2>1. ~IdealHolds(B, r, y)
    <3>1. SUFFICES ASSUME NEW q \in B, IsStrictPrefix(y, q) PROVE FALSE
      BY DEF IdealHolds
    <3>2. IsPrefix(y, q) /\ y # q
      BY <3>1 DEF IsStrictPrefix
    <3>3. IsPrefix(p, q)
      BY <1>1, <1>3, <3>1, <3>2, PrefixOrder
    <3>4. q = p
      BY <3>1, <3>3
    <3>5. y = q
      BY <1>1, <1>3, <3>1, <3>2, <3>4, PrefixOrder
    <3>6. QED
      BY <3>2, <3>5
  <2>2. p \in dec(B)
    BY <1>3
  <2>3. ASSUME NEW q \in dec(B) PROVE Len(q) <= Len(p) /\ (Len(p) <= Len(q) => q = p)
    <3>1. q \in B /\ IsPrefix(q, y)
      BY <2>3
    <3>2. Len(p) <= Len(q) => q = p
      <4>1. Len(p) <= Len(q) => IsPrefix(p, q)
        BY <1>1, <1>3, <3>1, PrefixOrder
      <4>2. QED
        BY <3>1, <4>1
    <3>3. Len(q) <= Len(p)
      <4>1. Len(p) \in Nat /\ Len(q) \in Nat
        BY <1>1, <3>1
      <4>2. QED
        BY <3>2, <4>1
    <3>4. QED
      BY <3>2, <3>3
  <2> HIDE DEF dec
  <2>4. longest(B) = p
    BY <2>2, <2>3
  <2> HIDE DEF longest
  <2>5. IdealSays(B, r, y) = Walk(IdealHeap(r), v(p), Rest(p, y))
    BY <1>2, <2>2, <2>4
  <2> HIDE DEF B
  <2>6. QED
    BY <2>1, <2>5 DEF IdealOf
<1>4. ASSUME ~IsPrefix(p, y) PROVE IdealSays(B, r, y) = IdealSays(A, r, y)
  <2>1. dec(B) = dec(A)
    BY <1>4
  <2> HIDE DEF dec
  <2>2. longest(B) = longest(A)
    BY <2>1
  <2> HIDE DEF longest, B
  <2>3. QED
    BY <1>2, <2>1, <2>2
<1>5. ASSUME ~IsPrefix(p, y), ~IsPrefix(y, p) \/ v(p) = Missing
      PROVE  IdealHolds(B, r, y) <=> IdealHolds(A, r, y)
  <2>1. ~IsStrictPrefix(y, p) \/ v(p) = Missing
    BY <1>5 DEF IsStrictPrefix
  <2>2. QED
    BY <2>1 DEF IdealHolds, v
<1>6. ASSUME ~IsPrefix(p, y), IsPrefix(y, p), v(p) # Missing PROVE IdealHolds(B, r, y)
  <2>1. y # p
    BY <1>1, <1>6, PrefixOrder
  <2>2. IsStrictPrefix(y, p)
    BY <1>6, <2>1 DEF IsStrictPrefix
  <2>3. QED
    BY <1>6, <2>2 DEF IdealHolds, v
<1> HIDE DEF B
<1>7. QED
  BY <1>3, <1>4, <1>5, <1>6 DEF B, v, IdealOf

\* When all pointers are applied, it is the ideal,
LEMMA IdealAll ==
  ASSUME NEW r
  PROVE  Ideal(r) = [y \in Visible \ Excluded |-> IdealOf(DOMAIN fields, r, y)]
BY DEF Ideal, IdealOf, IdealSays, IdealHolds, IdealValue, IdealHeap

\* and before the first one, it is what NewRecord makes.
LEMMA IdealNone ==
  ASSUME NEW r, NEW y
  PROVE  IdealOf({}, r, y) = Render(Walk(IdealHeap(r), Ref(Record("ideal")), y))
BY DEF IdealOf, IdealSays, IdealHolds

\* Of the pointers to come, the first one is below no other.
LEMMA FirstLeads ==
  ASSUME NEW P, P \subseteq ToSet(Sorted), P # {}, NEW q \in P, IsPrefix(q, First(P))
  PROVE  q = First(P)
<1> DEFINE p == First(P)
<1>1. PICK i \in 1 .. 7 : p = Sorted[i] /\ \A j \in 1 .. i - 1 : Sorted[j] \notin P
  BY FirstOf
<1> HIDE DEF p
<1>2. /\ Sorted[1] = Properties /\ Sorted[2] = Associations /\ Sorted[3] = Parent
      /\ Sorted[4] = Extra /\ Sorted[5] = ExtraParent /\ Sorted[6] = Own /\ Sorted[7] = Title
  BY DEF Sorted
<1>3. PICK k \in 1 .. 7 : q = Sorted[k]
  <2>1. q \in {Properties, Associations, Parent, Extra, ExtraParent, Own, Title}
    BY Pointers
  <2>2. QED
    BY <1>2, <2>1
<1>4. ~(k < i)
  BY <1>1, <1>3
<1>5. ASSUME i < k PROVE FALSE
  <2>1. /\ q \in Seq(Names) /\ p \in Seq(Names)
    <3>1. \A j \in 1 .. 7 : j \in {1, 2, 3, 4, 5, 6, 7}
      OBVIOUS
    <3>2. /\ Properties \in Seq(Names) /\ Associations \in Seq(Names)
          /\ Parent \in Seq(Names) /\ Extra \in Seq(Names)
          /\ ExtraParent \in Seq(Names) /\ Own \in Seq(Names) /\ Title \in Seq(Names)
      BY PointerNames
    <3>3. \A j \in 1 .. 7 : Sorted[j] \in Seq(Names)
      BY <1>2, <3>1, <3>2
    <3>4. QED
      BY <1>1, <1>3, <3>3
  <2>2. Len(q) <= Len(p) /\ \A j \in 1 .. Len(q) : q[j] = p[j]
    <3>1. IsPrefix(q, p)
      BY DEF p
    <3>2. QED
      BY <2>1, <3>1, PrefixIs
  <2>0. k # 1 => Len(q) \in {2, 3, 4}
    <3>1. k \in {1, 2, 3, 4, 5, 6, 7}
      OBVIOUS
    <3>2. /\ Len(Associations) = 3 /\ Len(Parent) = 4 /\ Len(Extra) = 2
          /\ Len(ExtraParent) = 3 /\ Len(Own) = 2 /\ Len(Title) = 2
      BY PointerNames
    <3>3. QED
      BY <1>2, <1>3, <3>1, <3>2
  <2>3. CASE i = 1
    <3>1. Len(p) = 1 /\ Len(q) > 1
      <4>1. Len(p) = 1
        BY <1>1, <1>2, <2>3, PointerNames
      <4>2. Len(q) \in {2, 3, 4}
        BY <1>5, <2>0
      <4>3. \A n \in {2, 3, 4} : n > 1
        OBVIOUS
      <4>4. QED
        BY <4>1, <4>2, <4>3, Zenon
    <3>2. QED
      BY <2>2, <3>1
  <2>4. CASE i = 4 /\ k = 5
    <3>1. Len(p) = 2 /\ Len(q) = 3
      BY <1>1, <1>2, <1>3, <2>4, PointerNames
    <3>2. QED
      BY <2>2, <3>1
  <2>5. CASE i # 1 /\ ~(i = 4 /\ k = 5)
    <3>1. /\ i \in {2, 3} => p[2] = "connectedSystems"
          /\ i \in {4, 5} => p[2] = "extra"
          /\ i = 6 => p[2] = "hronir"
      BY <1>1, <1>2, PointerNames
    <3>2. /\ k = 3 => q = Parent /\ i = 2 /\ p = Associations
          /\ k \in {4, 5} => q[2] = "extra"
          /\ k = 6 => q[2] = "hronir"
          /\ k = 7 => q[2] = "title"
      BY <1>1, <1>2, <1>3, <1>5, <2>5, PointerNames
    <3>3. CASE k = 3
      <4>1. Len(q) = 4 /\ Len(p) = 3
        BY <3>2, <3>3, PointerNames
      <4>2. QED
        BY <2>2, <4>1
    <3>4. CASE k # 3
      <4>1. 2 \in 1 .. Len(q)
        <5>1. Len(q) \in {2, 3, 4}
          BY <1>5, <2>0
        <5>2. \A l \in {2, 3, 4} : 2 \in 1 .. l
          OBVIOUS
        <5>3. QED
          BY <5>1, <5>2
      <4>2. q[2] = p[2]
        BY <2>2, <4>1
      <4>3. QED
        BY <1>5, <2>5, <3>1, <3>2, <3>4, <4>2
    <3>5. QED
      BY <3>3, <3>4
  <2>6. QED
    BY <2>3, <2>4, <2>5
<1>6. i = k
  BY <1>4, <1>5
<1>7. QED
  BY <1>1, <1>3, <1>6 DEF p

-----------------------------------------------------------------------------
(* A field applied.                                                          *)

\* What ApplyField finds, in the call of g for r with the pointers L left.
Found(g, r, L) ==
  /\ ~WritesIntoInput /\ ~LeavesBehind
  /\ fields \in [DOMAIN fields -> Field] /\ DOMAIN fields \subseteq ToSet(Sorted)
  /\ \A p \in DOMAIN fields : fields[p].remove => fields[p].expr = NoExpr
  /\ HeapOK(heap) /\ Record(g) \in DOMAIN heap /\ InputOf(g) \in DOMAIN heap
  /\ L \subseteq DOMAIN fields /\ L # {} /\ InOrder(L)

\* The pointer that is applied leads to none that was, and none that is left
\* leads to it.
LEMMA NextPointer ==
  ASSUME NEW g, NEW r, NEW L, Found(g, r, L), NEW p, p = First(L)
  PROVE  /\ p \in L /\ p \in DOMAIN fields /\ p \in ToSet(Sorted) /\ p \in Seq(Names)
         /\ \A q \in L : IsPrefix(q, p) => q = p
         /\ \A q \in Done(L) : ~IsPrefix(p, q)
         /\ Done(L \ {p}) = Done(L) \cup {p} /\ p \notin Done(L)
         /\ Done(L) \subseteq ToSet(Sorted)
<1>1. L \subseteq ToSet(Sorted) /\ L # {} /\ DOMAIN fields \subseteq ToSet(Sorted)
      /\ L \subseteq DOMAIN fields /\ InOrder(L)
  BY DEF Found
<1>2. p \in L
  BY <1>1, FirstOf
<1>3. \A q \in L : IsPrefix(q, p) => q = p
  BY <1>1, FirstLeads
<1>4. \A q \in Done(L) : ~IsPrefix(p, q)
  BY <1>1, <1>2 DEF Done, InOrder
<1>5. p \in Seq(Names)
  BY <1>1, <1>2, InnerName
<1>6. QED
  BY <1>1, <1>2, <1>3, <1>4, <1>5 DEF Done

\* Applying it spares what it should.
LEMMA AppliedSpares ==
  ASSUME NEW g \in Goroutine, NEW r, NEW L, Found(g, r, L), NEW p, p = First(L),
         NEW h2, h2 = Applied(g, p)
  PROVE  Spared(p, heap, h2)
<1>1. p \in DOMAIN fields
  BY NextPointer
<1>2. /\ ~WritesIntoInput /\ ~LeavesBehind /\ DOMAIN fields \subseteq ToSet(Sorted)
      /\ HeapOK(heap) /\ Record(g) \in DOMAIN heap
  BY DEF Found
<1>3. h2 = DeletePointer(heap, g, p) \/ h2 = SetPointer(heap, g, p, ValueOf(heap, g, fields, p))
  BY DEF Applied
<1>4. h2 = DeletePointer(heap, g, p) => Spared(p, heap, h2)
  BY <1>1, <1>2, DeletePointerView
<1>5. ASSUME NEW v, h2 = SetPointer(heap, g, p, v) PROVE Spared(p, heap, h2)
  BY <1>1, <1>2, <1>5, SetPointerView
<1>6. QED
  BY <1>3, <1>4, <1>5

\* The input stays as it is told to.
LEMMA ApplyPristine ==
  ASSUME NEW g \in Goroutine, NEW r, NEW L, Found(g, r, L), Pristine(heap, g, r, L),
         NEW p, p = First(L), NEW h2, h2 = Applied(g, p)
  PROVE  Pristine(h2, g, r, L \ {p})
<1>1. Spared(p, heap, h2)
  BY AppliedSpares
<1>2. InputOf(g) \in DOMAIN heap
  BY DEF Found
<1>3. h2[InputOf(g)] = Input(g, r)[InputOf(g)]
  BY <1>1, <1>2 DEF Spared, InputOf, Pristine
<1>4. ASSUME \A w, q \in Done(L \ {p}) : ~(fields[w].expr = Whole /\ IsStrictPrefix(w, q))
      PROVE  InputIntact(h2, g, r)
  <2>1. /\ Done(L \ {p}) = Done(L) \cup {p} /\ p \in DOMAIN fields
        /\ \A q \in L : IsPrefix(q, p) => q = p
    BY NextPointer
  <2>2. InputIntact(heap, g, r)
    BY <1>4, <2>1 DEF Pristine
  <2>3. ~Taking(p)
    <3>1. SUFFICES ASSUME NEW w \in DOMAIN fields, fields[w].expr = Whole, IsStrictPrefix(w, p)
                   PROVE  FALSE
      BY DEF Taking
    <3>2. w \in Done(L)
      BY <2>1, <3>1 DEF Done, IsStrictPrefix
    <3>3. QED
      BY <1>4, <2>1, <3>1, <3>2
  <2>4. QED
    BY <1>1, <2>2, <2>3 DEF Spared, InputIntact, InputPart
<1>5. QED
  BY <1>3, <1>4 DEF Pristine

\* Expressions that take a part of the associations find them as they were.
LEMMA PartIntact ==
  ASSUME NEW g, NEW r, NEW L, Found(g, r, L), Pristine(heap, g, r, L),
         NEW p, p = First(L), fields[p].expr = Part
  PROVE  InputIntact(heap, g, r)
<1>1. p \in DOMAIN fields /\ p \notin Done(L) /\ Done(L) \subseteq DOMAIN fields
  BY NextPointer DEF Done
<1>2. ASSUME NEW w \in Done(L), NEW q \in Done(L), fields[w].expr = Whole, IsStrictPrefix(w, q)
      PROVE  FALSE
  <2>1. WritesIntoInput
    BY <1>1, <1>2 DEF WritesIntoInput
  <2>2. QED
    BY <2>1 DEF Found
<1>3. QED
  BY <1>2 DEF Pristine

\* and so does a field that takes them, unless it puts them into themselves.
LEMMA WholeIntact ==
  ASSUME NEW g \in Goroutine, NEW r, NEW L, Found(g, r, L),
         NEW p, p = First(L), Takes(r, p), ~Circular(r, p),
         NEW h2, Pristine(h2, g, r, L \ {p})
  PROVE  InputIntact(h2, g, r)
<1>1. /\ p \in DOMAIN fields /\ Done(L \ {p}) = Done(L) \cup {p} /\ Done(L) \subseteq DOMAIN fields
      /\ \A q \in Done(L) : ~IsPrefix(p, q)
  BY NextPointer DEF Done
<1>2. ASSUME NEW w \in Done(L \ {p}), NEW q \in Done(L \ {p}),
             fields[w].expr = Whole, IsStrictPrefix(w, q)
      PROVE  FALSE
  <2>1. p \in {w, q}
    <3>1. fields[p].expr = Whole
      BY DEF Takes
    <3>2. p \notin {w, q} => WritesIntoInput
      BY <1>1, <1>2, <3>1 DEF WritesIntoInput
    <3>3. QED
      BY <3>2 DEF Found
  <2>2. CASE q = p
    BY <1>1, <1>2, <2>2 DEF Circular, Takes
  <2>3. CASE w = p /\ q # p
    BY <1>1, <1>2, <2>3 DEF IsStrictPrefix
  <2>4. QED
    BY <2>1, <2>2, <2>3
<1>3. QED
  BY <1>2 DEF Pristine

\* After a field has been applied, the record is the ideal of one more field.
LEMMA ApplyIdeally ==
  ASSUME NEW g \in Goroutine, NEW r, NEW L, Found(g, r, L), LiteralsOK(heap),
         Pristine(heap, g, r, L), Ideally(heap, g, r, L),
         r = of[g], NEW p, p = First(L), fields[p].expr # Broken,
         NEW h2, h2 = Applied(g, p)
  PROVE  Ideally(h2, g, r, L \ {p})
<1> DEFINE was(y) == Walk(heap, Ref(Record(g)), y)
           is(y) == Walk(h2, Ref(Record(g)), y)
           A == Done(L)
           v == ValueOf(heap, g, fields, p)
           iv == IdealValue(r, p)
<1>1. /\ ~WritesIntoInput /\ ~LeavesBehind
      /\ fields \in [DOMAIN fields -> Field] /\ DOMAIN fields \subseteq ToSet(Sorted)
      /\ \A q \in DOMAIN fields : fields[q].remove => fields[q].expr = NoExpr
      /\ HeapOK(heap) /\ Record(g) \in DOMAIN heap /\ InputOf(g) \in DOMAIN heap
      /\ L \subseteq DOMAIN fields /\ L # {} /\ InOrder(L)
  BY DEF Found
<1>2. /\ p \in L /\ p \in DOMAIN fields /\ p \in ToSet(Sorted) /\ p \in Seq(Names)
      /\ \A q \in L : IsPrefix(q, p) => q = p
      /\ \A q \in A : ~IsPrefix(p, q)
      /\ Done(L \ {p}) = A \cup {p} /\ p \notin A /\ A \subseteq ToSet(Sorted)
  BY NextPointer
<1>3. Pristine(h2, g, r, L \ {p})
  BY ApplyPristine
<1>4. LiteralsOK(h2)
  BY AppliedSpares DEF Spared
<1>5. fields[p].expr = Part => InputIntact(heap, g, r)
  BY PartIntact
<1>6. ~fields[p].remove =>
        /\ \/ v = iv /\ ~IsRef(v)
           \/ v = Ref(<<"config", p>>) /\ iv = v /\ fields[p].literal = "object"
           \/ v = Ref(InputPart(g)) /\ iv = Ref(InputPart("ideal")) /\ Takes(r, p)
        /\ Takes(r, p) => v = Ref(InputPart(g))
  <2>1. heap[InputOf(g)] = Input(g, r)[InputOf(g)]
    BY DEF Pristine
  <2>2. fields[p].remove \/ (g \in Goroutine /\ p \in DOMAIN fields /\ fields[p].expr # Broken
                             /\ ~fields[p].remove)
    BY <1>2
  <2>3. QED
    BY ONLY <1>1, <1>5, <2>1, <2>2, ValueView
<1>7. /\ fields[p].remove => iv = Missing
      /\ ~fields[p].remove => (v = Missing <=> iv = Missing)
  BY <1>6, RefIs DEF IdealValue
<1>8. fields[p].remove => ~Takes(r, p)
  <2>1. NoExpr # Whole
    BY DEF NoExpr, Whole
  <2>2. QED
    BY <1>1, <1>2, <2>1 DEF Takes
<1>9. \/ h2 = DeletePointer(heap, g, p) /\ iv = Missing /\ ~Takes(r, p)
      \/ h2 = SetPointer(heap, g, p, v) /\ v # Missing /\ iv # Missing /\ ~fields[p].remove
  BY <1>6, <1>7, <1>8, RefIs DEF Applied
<1>a. ASSUME NEW y \in Paths
      PROVE  /\ IsPrefix(p, y) => IdealOf(A \cup {p}, r, y) =
                                    Render(Walk(IdealHeap(r), iv, Rest(p, y)))
             /\ ~IsPrefix(p, y) /\ (~IsPrefix(y, p) \/ iv = Missing) =>
                  IdealOf(A \cup {p}, r, y) = IdealOf(A, r, y)
             /\ ~IsPrefix(p, y) /\ IsPrefix(y, p) /\ iv # Missing =>
                  IdealOf(A \cup {p}, r, y) = Text("object")
  <2>1. A \subseteq ToSet(Sorted) /\ p \in ToSet(Sorted) /\ \A q \in A : ~IsPrefix(p, q)
    BY <1>2
  <2> HIDE DEF A
  <2>2. QED
    BY ONLY <1>a, <2>1, IdealStep
<1>b. ASSUME NEW y \in Paths, IsPrefix(p, y)
      PROVE  Rest(p, y) \in Seq(Names) /\ is(y) = Walk(h2, is(p), Rest(p, y))
  <2>1. p \in Seq(Names) /\ y \in Seq(Names)
    BY <1>2, PathIn
  <2>2. QED
    BY ONLY <1>b, <2>1, RestIs, WalkOn
<1>c. ASSUME NEW y \in Paths, IsPrefix(p, y), ~fields[p].remove,
             \A q \in DOMAIN fields : IsPrefix(p, q) /\ IsPrefix(q, y) => q = p,
             Takes(r, p) => InputIntact(h2, g, r)
      PROVE  Render(Walk(h2, v, Rest(p, y))) = Render(Walk(IdealHeap(r), iv, Rest(p, y)))
  <2>1. /\ g \in Goroutine /\ p \in DOMAIN fields /\ fields[p].expr # Broken
        /\ heap[InputOf(g)] = Input(g, r)[InputOf(g)]
    BY <1>2 DEF Pristine
  <2>2. /\ fields \in [DOMAIN fields -> Field] /\ DOMAIN fields \subseteq ToSet(Sorted)
        /\ LiteralsOK(h2)
        /\ fields[p].expr = Part => InputIntact(heap, g, r)
    BY <1>1, <1>4, <1>5
  <2>3. Viewed(g, heap, r, p, h2, y)
    BY ONLY <1>c, <2>1, <2>2 DEF Viewed
  <2>4. QED
    BY ONLY <2>3, FieldView
<1> HIDE DEF v, iv
<1>10. ASSUME NEW y \in Settled(r, L \ {p})
       PROVE  /\ y \in Paths /\ y \in Seq(Names)
              /\ ~IsPrefix(p, y) => y \in Settled(r, L)
              /\ \A q \in DOMAIN fields : IsPrefix(p, q) /\ IsPrefix(q, y) => q = p
              /\ IsPrefix(p, y) => ~Circular(r, p)
  BY <1>1, <1>2, <1>10, PathIn DEF Settled, InOrder
<1>11. CASE h2 = DeletePointer(heap, g, p) /\ iv = Missing /\ ~Takes(r, p)
  <2>1. /\ \A y \in Paths : ~IsPrefix(p, y) => is(y) = was(y)
        /\ is(p) = Missing
    BY <1>1, <1>2, <1>11, DeletePointerView
  <2> HIDE DEF is, was
  <2>2. ASSUME NEW w \in A \cup {p}, Takes(r, w) PROVE is(w) = Ref(InputPart(g))
    <3>1. w \in A /\ w \in Paths
      BY <1>2, <1>11, <2>2, StationPaths DEF Stations
    <3>2. was(w) = Ref(InputPart(g))
      BY <2>2, <3>1 DEF Ideally, Said, was
    <3>3. QED
      BY <1>2, <2>1, <3>1, <3>2
  <2>3. ASSUME NEW y \in Settled(r, L \ {p}) PROVE Render(is(y)) = IdealOf(A \cup {p}, r, y)
    <3>1. CASE ~IsPrefix(p, y)
      <4>1. Render(was(y)) = IdealOf(A, r, y)
        BY <1>10, <2>3, <3>1 DEF Ideally, Said, was
      <4>2. IdealOf(A \cup {p}, r, y) = IdealOf(A, r, y)
        BY <1>a, <1>10, <1>11, <2>3, <3>1
      <4>3. QED
        BY <1>10, <2>1, <2>3, <3>1, <4>1, <4>2
    <3>2. CASE IsPrefix(p, y)
      <4> DEFINE s == Rest(p, y)
      <4>1. s \in Seq(Names)
        BY <1>b, <1>10, <2>3, <3>2
      <4>2. is(y) = Walk(h2, Missing, s)
        BY <1>b, <1>10, <2>1, <2>3, <3>2
      <4>3. IdealOf(A \cup {p}, r, y) = Render(Walk(IdealHeap(r), Missing, s))
        BY <1>a, <1>10, <1>11, <2>3, <3>2
      <4> HIDE DEF s
      <4>4. \A k : Walk(k, Missing, s) = Missing
        <5>1. ASSUME NEW k PROVE Walk(k, Missing, s) = Missing
          <6>1. s = <<>> => Walk(k, Missing, s) = Missing
            BY WalkEmpty
          <6>2. s # <<>> => Walk(k, Missing, s) = Missing
            BY <4>1, WalkOff, RefIs
          <6>3. QED
            BY <6>1, <6>2
        <5>2. QED
          BY <5>1
      <4>5. QED
        BY <4>2, <4>3, <4>4
    <3>3. QED
      BY <3>1, <3>2
  <2>4. QED
    BY <1>2, <2>2, <2>3 DEF Ideally, Said, is
<1>12. CASE h2 = SetPointer(heap, g, p, v) /\ v # Missing /\ iv # Missing /\ ~fields[p].remove
  <2>1. /\ \A y \in Paths : ~IsPrefix(p, y) /\ (~IsPrefix(y, p) \/ IsRef(was(y))) => is(y) = was(y)
        /\ \A y \in Paths : IsStrictPrefix(y, p) => IsRef(is(y))
        /\ is(p) = v
    BY <1>1, <1>2, <1>12, SetPointerView
  <2> HIDE DEF is, was
  <2>2. ASSUME NEW w \in A \cup {p}, Takes(r, w) PROVE is(w) = Ref(InputPart(g))
    <3>1. CASE w = p
      BY <1>6, <1>12, <2>1, <2>2, <3>1
    <3>2. CASE w \in A
      <4>1. w \in Paths
        BY <1>2, <3>2, StationPaths DEF Stations
      <4>2. was(w) = Ref(InputPart(g))
        BY <2>2, <3>2 DEF Ideally, Said, was
      <4>3. QED
        BY <1>2, <2>1, <3>2, <4>1, <4>2, RefIs
    <3>3. QED
      BY <3>1, <3>2
  <2>3. ASSUME NEW y \in Settled(r, L \ {p}) PROVE Render(is(y)) = IdealOf(A \cup {p}, r, y)
    <3>1. CASE ~IsPrefix(p, y) /\ ~IsPrefix(y, p)
      <4>1. Render(was(y)) = IdealOf(A, r, y)
        BY <1>10, <2>3, <3>1 DEF Ideally, Said, was
      <4>2. IdealOf(A \cup {p}, r, y) = IdealOf(A, r, y)
        BY <1>a, <1>10, <2>3, <3>1
      <4>3. QED
        BY <1>10, <2>1, <2>3, <3>1, <4>1, <4>2
    <3>2. CASE ~IsPrefix(p, y) /\ IsPrefix(y, p)
      <4>1. IdealOf(A \cup {p}, r, y) = Text("object")
        BY <1>a, <1>10, <1>12, <2>3, <3>2
      <4>2. y # p
        BY <1>2, <3>2, PrefixOrder
      <4>3. IsRef(is(y))
        BY <1>10, <2>1, <2>3, <3>2, <4>2 DEF IsStrictPrefix
      <4>4. QED
        BY <4>1, <4>3 DEF Render
    <3>3. CASE IsPrefix(p, y)
      <4>1. is(y) = Walk(h2, v, Rest(p, y))
        BY <1>b, <1>10, <2>1, <2>3, <3>3
      <4>2. IdealOf(A \cup {p}, r, y) = Render(Walk(IdealHeap(r), iv, Rest(p, y)))
        BY <1>a, <1>10, <2>3, <3>3
      <4>3. Takes(r, p) => InputIntact(h2, g, r)
        BY <1>3, <1>10, <2>3, <3>3, WholeIntact
      <4>5. Render(Walk(h2, v, Rest(p, y))) = Render(Walk(IdealHeap(r), iv, Rest(p, y)))
        BY <1>c, <1>10, <1>12, <2>3, <3>3, <4>3
      <4>6. QED
        BY <4>1, <4>2, <4>5
    <3>4. QED
      BY <3>1, <3>2, <3>3
  <2>4. QED
    BY <1>2, <2>2, <2>3 DEF Ideally, Said, is
<1>13. QED
  BY <1>9, <1>11, <1>12

-----------------------------------------------------------------------------
(* The beginning of a call.                                                  *)

\* Two heaps walked side by side, from values that correspond to values that do.
LEMMA WalkPair ==
  ASSUME NEW h, NEW k, NEW M, NEW v, NEW u, <<v, u>> \in M, NEW S, NEW p \in Seq(S),
         \A a, b : <<a, b>> \in M => \A n \in S : <<Entry(h, a, n), Entry(k, b, n)>> \in M
  PROVE  <<Walk(h, v, p), Walk(k, u, p)>> \in M
<1>1. Len(p) \in Nat /\ \A i \in 1 .. Len(p) : p[i] \in S
  OBVIOUS
<1>2. PICK f : /\ f[0] = v
               /\ \A i \in 1 .. Len(p) : f[i] = Entry(h, f[i - 1], p[i])
               /\ Walk(h, v, p) = f[Len(p)]
  BY <1>1, WalkSteps
<1>3. PICK d : /\ d[0] = u
               /\ \A i \in 1 .. Len(p) : d[i] = Entry(k, d[i - 1], p[i])
               /\ Walk(k, u, p) = d[Len(p)]
  BY <1>1, WalkSteps
<1> DEFINE U == {i \in 0 .. Len(p) : <<f[i], d[i]>> \in M}
<1>4. \A i \in 1 .. Len(p) : i - 1 \in U => i \in U
  <2>1. ASSUME NEW i \in 1 .. Len(p), i - 1 \in U PROVE i \in U
    <3>1. <<f[i - 1], d[i - 1]>> \in M /\ p[i] \in S
      BY <1>1, <2>1
    <3>2. <<Entry(h, f[i - 1], p[i]), Entry(k, d[i - 1], p[i])>> \in M
      BY <3>1
    <3>3. i \in 0 .. Len(p)
      BY <1>1
    <3>4. QED
      BY <1>2, <1>3, <3>2, <3>3
  <2>2. QED
    BY <2>1
<1>5. 0 \in U
  BY <1>1, <1>2, <1>3
<1>6. Len(p) \in U
  <2> HIDE DEF U
  <2>1. 0 .. Len(p) \subseteq U
    BY <1>1, <1>4, <1>5, InductionTo
  <2>2. QED
    BY <1>1, <2>1
<1>7. QED
  BY <1>2, <1>3, <1>6

\* What the objects of a new record say at the name n.
NewSays(h, g, r, n) ==
  /\ Entry(h, Ref(<<g, <<>> >>), n) =
       IF n = "properties" THEN Ref(<<g, Properties>>) ELSE Missing
  /\ Entry(h, Ref(<<g, Properties>>), n) =
       IF n = "title" THEN Text("title")
       ELSE IF n = "hronir" THEN Ref(<<g, Own>>)
       ELSE IF n = "connectedSystems" THEN Ref(<<g, Connected>>) ELSE Missing
  /\ Entry(h, Ref(<<g, Connected>>), n) =
       IF n = "associations"
       THEN IF r \in Described THEN Ref(<<g, Associations>>) ELSE Ref(NilMap)
       ELSE Missing
  /\ Entry(h, Ref(<<g, Associations>>), n) =
       IF n = "parent" THEN <<"parent", r>> ELSE Missing
  /\ Entry(h, Ref(<<g, Own>>), n) = IF n = "sourceId" THEN Text("source") ELSE Missing
  /\ Entry(h, Ref(NilMap), n) = Missing

\* They say so wherever they are.
LEMMA NewEntries ==
  ASSUME NEW g, NEW r, NEW h, h[NilMap] = NoEntry,
         \A o \in DOMAIN NewRecord(g, r) : h[o] = NewRecord(g, r)[o], NEW n
  PROVE  NewSays(h, g, r, n)
<1> DEFINE N == NewRecord(g, r)
           R == <<g, <<>> >>
           P == <<g, Properties>>
           C == <<g, Connected>>
           A == <<g, Associations>>
           O == <<g, Own>>
<1>1. /\ DOMAIN N = {R, P, C, A, O}
      /\ N[R] = [properties |-> Ref(P)]
      /\ N[P] = [title |-> Text("title"), hronir |-> Ref(O), connectedSystems |-> Ref(C)]
      /\ N[C] = [associations |-> IF r \in Described THEN Ref(A) ELSE Ref(NilMap)]
      /\ N[A] = [parent |-> <<"parent", r>>]
      /\ N[O] = [sourceId |-> Text("source")]
  BY NewObjects DEF Record
<1>2. DOMAIN NoEntry = {}
  BY DEF NoEntry
<1> HIDE DEF N, R, P, C, A, O
<1>3. h[R] = N[R] /\ h[P] = N[P] /\ h[C] = N[C] /\ h[A] = N[A] /\ h[O] = N[O]
  BY <1>1 DEF N
<1>4. Entry(h, Ref(R), n) = IF n = "properties" THEN Ref(P) ELSE Missing
  BY <1>1, <1>3, EntryIs
<1>5. Entry(h, Ref(P), n) = IF n = "title" THEN Text("title")
                            ELSE IF n = "hronir" THEN Ref(O)
                            ELSE IF n = "connectedSystems" THEN Ref(C) ELSE Missing
  BY <1>1, <1>3, EntryIs
<1>6. Entry(h, Ref(C), n) = IF n = "associations"
                            THEN IF r \in Described THEN Ref(A) ELSE Ref(NilMap)
                            ELSE Missing
  BY <1>1, <1>3, EntryIs
<1>7. Entry(h, Ref(A), n) = IF n = "parent" THEN <<"parent", r>> ELSE Missing
  BY <1>1, <1>3, EntryIs
<1>8. Entry(h, Ref(O), n) = IF n = "sourceId" THEN Text("source") ELSE Missing
  BY <1>1, <1>3, EntryIs
<1>9. Entry(h, Ref(NilMap), n) = Missing
  BY <1>2, EntryIs
<1>10. QED
  BY <1>4, <1>5, <1>6, <1>7, <1>8, <1>9 DEF R, P, C, A, O, NewSays

\* What a new record says is what the ideal starts from.
LEMMA NewView ==
  ASSUME NEW g, NEW r, NEW h, h[NilMap] = NoEntry,
         \A o \in DOMAIN NewRecord(g, r) : h[o] = NewRecord(g, r)[o], NEW y \in Seq(Names)
  PROVE  Render(Walk(h, Ref(Record(g)), y)) = IdealOf({}, r, y)
<1> DEFINE k == IdealHeap(r)
           Q == {<<>>, Properties, Connected, Associations, Own}
           Flat == {Missing, Text("title"), Text("source"), <<"parent", r>>}
           M == {<<Ref(<<g, q>>), Ref(<<"ideal", q>>)>> : q \in Q}
                \cup {<<Ref(NilMap), Ref(NilMap)>>} \cup {<<t, t>> : t \in Flat}
<1>1. k[NilMap] = NoEntry /\ \A o \in DOMAIN NewRecord("ideal", r) : k[o] = NewRecord("ideal", r)[o]
  BY IdealObjects
<1> HIDE DEF k
<1>2. \A t \in Flat : ~IsRef(t)
  BY TextIs, RefIs
<1>3. ASSUME NEW a, NEW b, <<a, b>> \in M, NEW n \in Names
      PROVE  <<Entry(h, a, n), Entry(k, b, n)>> \in M
  <2>1. NewSays(h, g, r, n)
    BY NewEntries
  <2>2. NewSays(k, "ideal", r, n)
    BY <1>1, NewEntries
  <2> DEFINE In(c, d) == <<c, d>> \in M
  <2>3. /\ \A q \in Q : In(Ref(<<g, q>>), Ref(<<"ideal", q>>))
        /\ In(Ref(NilMap), Ref(NilMap)) /\ \A t \in Flat : In(t, t)
    OBVIOUS
  <2>4. \/ \E q \in Q : a = Ref(<<g, q>>) /\ b = Ref(<<"ideal", q>>)
        \/ a = Ref(NilMap) /\ b = Ref(NilMap)
        \/ a \in Flat /\ b = a
    BY <1>3
  <2>5. In(Missing, Missing) /\ In(Text("title"), Text("title"))
        /\ In(Text("source"), Text("source")) /\ In(<<"parent", r>>, <<"parent", r>>)
    BY <2>3
  <2>6. CASE a \in Flat /\ b = a
    <3>1. Entry(h, a, n) = Missing /\ Entry(k, b, n) = Missing
      BY <1>2, <2>6 DEF Entry
    <3>2. QED
      BY <2>5, <3>1
  <2> HIDE DEF M, In
  <2>7. CASE a = Ref(NilMap) /\ b = Ref(NilMap)
    BY <2>1, <2>2, <2>5, <2>7 DEF In, NewSays
  <2>8. ASSUME NEW q \in Q, a = Ref(<<g, q>>), b = Ref(<<"ideal", q>>)
        PROVE  In(Entry(h, a, n), Entry(k, b, n))
    <3>1. CASE q = <<>>
      BY <2>1, <2>2, <2>3, <2>5, <2>8, <3>1 DEF NewSays
    <3>2. CASE q = Properties
      BY <2>1, <2>2, <2>3, <2>5, <2>8, <3>2 DEF NewSays
    <3>3. CASE q = Connected
      BY <2>1, <2>2, <2>3, <2>5, <2>8, <3>3 DEF NewSays
    <3>4. CASE q = Associations
      BY <2>1, <2>2, <2>3, <2>5, <2>8, <3>4 DEF NewSays
    <3>5. CASE q = Own
      BY <2>1, <2>2, <2>3, <2>5, <2>8, <3>5 DEF NewSays
    <3>6. QED
      BY <3>1, <3>2, <3>3, <3>4, <3>5
  <2>9. QED
    BY <2>4, <2>6, <2>7, <2>8 DEF In
<1>4. \A a, b : <<a, b>> \in M => Render(a) = Render(b)
  <2>1. ASSUME NEW a, NEW b, <<a, b>> \in M PROVE Render(a) = Render(b)
    <3>1. \/ \E q \in Q : a = Ref(<<g, q>>) /\ b = Ref(<<"ideal", q>>)
          \/ a = Ref(NilMap) /\ b = Ref(NilMap)
          \/ a \in Flat /\ b = a
      BY <2>1
    <3> HIDE DEF M, Q, Flat
    <3>2. \A o : IsRef(Ref(o))
      BY RefIs
    <3>3. a = b \/ (IsRef(a) /\ IsRef(b))
      <4>1. ASSUME NEW q \in Q, a = Ref(<<g, q>>), b = Ref(<<"ideal", q>>)
            PROVE  IsRef(a) /\ IsRef(b)
        BY <3>2, <4>1
      <4>2. QED
        BY <3>1, <4>1
    <3>4. QED
      BY <3>3 DEF Render
  <2>2. QED
    BY <2>1
<1>5. <<Ref(Record(g)), Ref(Record("ideal"))>> \in M
  BY DEF Record
<1> HIDE DEF M
<1>6. <<Walk(h, Ref(Record(g)), y), Walk(k, Ref(Record("ideal")), y)>> \in M
  BY <1>3, <1>5, WalkPair
<1>7. IdealOf({}, r, y) = Render(Walk(k, Ref(Record("ideal")), y))
  BY IdealNone DEF k
<1>8. QED
  BY <1>4, <1>6, <1>7

\* Two objects are finitely many.
LEMMA PairFinite ==
  ASSUME NEW a, NEW b
  PROVE  IsFiniteSet({a, b})
<1>1. IsFiniteSet({} \cup {a})
  BY FS_EmptySet, FS_AddElement
<1>2. IsFiniteSet(({} \cup {a}) \cup {b})
  BY <1>1, FS_AddElement
<1>3. {a, b} = ({} \cup {a}) \cup {b}
  OBVIOUS
<1>4. QED
  BY <1>2, <1>3

\* A call starts with the ideal of no field, in an input of its own.
LEMMA StartIdeally ==
  ASSUME NEW g \in Goroutine, NEW r, NEW h, HeapOK(h), h[NilMap] = NoEntry,
         NEW h2, h2 = Over(NewRecord(g, r), Over(Input(g, r), h))
  PROVE  /\ Ideally(h2, g, r, DOMAIN fields) /\ Pristine(h2, g, r, DOMAIN fields)
         /\ LiteralsOK(h) => LiteralsOK(h2)
         /\ IsFiniteSet(DOMAIN h) => IsFiniteSet(DOMAIN h2)
<1> DEFINE N == NewRecord(g, r)
           I == Input(g, r)
<1>1. /\ DOMAIN N = {Record(g), <<g, Properties>>, <<g, Connected>>, <<g, Associations>>,
                     <<g, Own>>}
  BY NewObjects
<1>2. /\ DOMAIN I \subseteq {InputOf(g), InputPart(g)} /\ InputOf(g) \in DOMAIN I
      /\ r \in Described => InputPart(g) \in DOMAIN I
  BY InputObjects
<1>3. g # "nil" /\ g # "config" /\ NilMap[1] = "nil" /\ NilMap \in DOMAIN h
  BY FieldMapAssumption DEF NilMap, HeapOK
<1>4. InputOf(g) \notin DOMAIN N /\ InputPart(g) \notin DOMAIN N
  <2>1. /\ Properties \notin InputPaths /\ Associations \notin InputPaths /\ Own \notin InputPaths
    BY Pointers, InnerName
  <2>2. Connected \notin InputPaths
    <3>1. Connected[1] = "properties" /\ <<"$">>[1] = "$" /\ <<"$", "associations">>[1] = "$"
      BY PointerNames
    <3>2. QED
      BY <3>1 DEF InputPaths
  <2>3. <<>> \notin InputPaths
    BY DEF InputPaths
  <2>4. QED
    BY <1>1, <2>1, <2>2, <2>3 DEF InputOf, InputPart, InputPaths, Record
<1>5. \A o \in DOMAIN N \cup DOMAIN I : o[1] = g
  BY <1>1, <1>2 DEF Record, InputOf, InputPart
<1> HIDE DEF N, I
<1>6. /\ DOMAIN h2 = DOMAIN N \cup DOMAIN I \cup DOMAIN h
      /\ \A o \in DOMAIN h2 :
           h2[o] = IF o \in DOMAIN N THEN N[o] ELSE IF o \in DOMAIN I THEN I[o] ELSE h[o]
  BY DEF Over, N, I
<1>7. \A o \in DOMAIN h : o[1] # g => h2[o] = h[o]
  BY <1>5, <1>6
<1>8. h2[NilMap] = NoEntry
  BY <1>3, <1>7
<1>9. \A o \in DOMAIN N : h2[o] = N[o]
  BY <1>6
<1>10. Done(DOMAIN fields) = {}
  BY DEF Done
<1>11. Ideally(h2, g, r, DOMAIN fields)
  <2>1. ASSUME NEW y \in Settled(r, DOMAIN fields)
        PROVE  Render(Said(h2, g, y)) = IdealOf({}, r, y)
    <3>1. y \in Seq(Names)
      BY PathIn DEF Settled
    <3>2. QED
      BY <1>8, <1>9, <3>1, NewView DEF Said, N
  <2>2. QED
    BY <1>10, <2>1 DEF Ideally
<1>12. Pristine(h2, g, r, DOMAIN fields)
  <2>1. h2[InputOf(g)] = I[InputOf(g)]
    BY <1>2, <1>4, <1>6
  <2>2. r \in Described => InputPart(g) \in DOMAIN h2 /\ h2[InputPart(g)] = I[InputPart(g)]
    BY <1>2, <1>4, <1>6
  <2>3. QED
    BY <2>1, <2>2 DEF Pristine, InputIntact, I
<1>13. LiteralsOK(h) => LiteralsOK(h2)
  <2>1. \A o \in DOMAIN h : o[1] = "config" => h2[o] = h[o]
    BY <1>3, <1>7
  <2>2. \A o \in DOMAIN h2 : o[1] = "config" => o \in DOMAIN h
    BY <1>3, <1>5, <1>6
  <2>3. QED
    BY <2>1, <2>2, LiteralsKept
<1>14. IsFiniteSet(DOMAIN h) => IsFiniteSet(DOMAIN h2)
  <2>1. IsFiniteSet(DOMAIN N) /\ IsFiniteSet(DOMAIN I)
    <3>1. IsFiniteSet({InputOf(g), InputPart(g)})
      BY PairFinite
    <3>2. /\ IsFiniteSet({Record(g), <<g, Properties>>, <<g, Connected>>, <<g, Associations>>})
      <4>1. IsFiniteSet({Record(g), <<g, Properties>>})
        BY PairFinite
      <4>2. IsFiniteSet({<<g, Connected>>, <<g, Associations>>})
        BY PairFinite
      <4>3. {Record(g), <<g, Properties>>, <<g, Connected>>, <<g, Associations>>} =
              {Record(g), <<g, Properties>>} \cup {<<g, Connected>>, <<g, Associations>>}
        OBVIOUS
      <4>4. QED
        BY <4>1, <4>2, <4>3, FS_Union
    <3>3. DOMAIN N = {Record(g), <<g, Properties>>, <<g, Connected>>, <<g, Associations>>}
                     \cup {<<g, Own>>}
      BY <1>1 DEF N
    <3>4. IsFiniteSet(DOMAIN N)
      BY <3>2, <3>3, FS_AddElement
    <3>5. QED
      BY <1>2, <3>1, <3>4, FS_Subset DEF I
  <2>2. QED
    BY <1>6, <2>1, FS_Union
<1>15. QED
  BY <1>11, <1>12, <1>13, <1>14

-----------------------------------------------------------------------------
(* The steps of other calls, and the later ones of a call.                   *)

\* While no literal is shared, a record and its input are left alone by others.
LEMMA OtherIdeally ==
  ASSUME NEW x \in Goroutine, NEW h, HeapOK(h), Separate(h), h[NilMap] = NoEntry,
         Record(x) \in DOMAIN h, InputOf(x) \in DOMAIN h, DOMAIN fields \subseteq ToSet(Sorted),
         NEW h2, \A o \in DOMAIN h : o[1] \in {x, "config"} \/ o = NilMap =>
                   o \in DOMAIN h2 /\ h2[o] = h[o],
         NEW r, NEW L
  PROVE  /\ Ideally(h, x, r, L) => Ideally(h2, x, r, L)
         /\ Pristine(h, x, r, L) => Pristine(h2, x, r, L)
<1>1. ASSUME NEW y \in Seq(Names) PROVE Said(h2, x, y) = Said(h, x, y)
  BY WalkFrame DEF Said
<1>2. \A w \in Done(L) : w \in Seq(Names)
  BY InnerName DEF Done
<1>3. \A y \in Settled(r, L) : y \in Seq(Names)
  BY PathIn DEF Settled
<1>4. Ideally(h, x, r, L) => Ideally(h2, x, r, L)
  BY <1>1, <1>2, <1>3 DEF Ideally
<1>5. InputOf(x)[1] = x /\ InputPart(x)[1] = x
  BY DEF InputOf, InputPart
<1>6. Pristine(h, x, r, L) => Pristine(h2, x, r, L)
  BY <1>5 DEF Pristine, InputIntact
<1>7. QED
  BY <1>4, <1>6

\* The end of a call takes no literal away, and makes no object.
LEMMA DroppedSpares ==
  ASSUME NEW g \in Goroutine, HeapOK(heap), LiteralsOK(heap), IsFiniteSet(DOMAIN heap),
         NEW h2, h2 = Dropped(g)
  PROVE  LiteralsOK(h2) /\ IsFiniteSet(DOMAIN h2)
<1>1. \A o \in DOMAIN heap : o[1] # g => o \in DOMAIN h2 /\ h2[o] = heap[o]
  BY DroppedOK
<1>2. DOMAIN h2 \subseteq DOMAIN heap
  BY DEF Dropped
<1>3. g # "config"
  BY FieldMapAssumption
<1>4. LiteralsOK(h2)
  BY <1>1, <1>2, <1>3, LiteralsKept
<1>5. QED
  BY <1>2, <1>4, FS_Subset

\* Setting the hashes changes no path the ideal is about, and of the literals
\* only one that is the record's own section.
LEMMA HashesIdeally ==
  ASSUME NEW g \in Goroutine, HeapOK(heap), LiteralsOK(heap), Record(g) \in DOMAIN heap,
         DOMAIN fields \subseteq ToSet(Sorted), ~OwnIsShown, ~WritesIntoInput,
         NEW own, own = Walk(heap, Ref(Record(g)), Own), IsRef(own),
         NEW hashes, DOMAIN hashes = {"sourceHash", "recordHash"},
         \A n \in DOMAIN hashes : hashes[n] # Missing /\ ~IsRef(hashes[n]),
         NEW h2, h2 = WithHashes(heap, own[2], hashes), NEW r, NEW L
  PROVE  /\ Ideally(heap, g, r, L) => Ideally(h2, g, r, L)
         /\ LiteralsOK(h2) /\ DOMAIN h2 = DOMAIN heap
<1> DEFINE o == own[2]
<1>1. /\ o \in DOMAIN heap /\ Mounted("hronir", o) /\ DOMAIN h2 = DOMAIN heap
      /\ \A a \in DOMAIN heap : a # o => h2[a] = heap[a]
      /\ \A p \in Visible \ Excluded :
           Walk(h2, Ref(Record(g)), p) = Walk(heap, Ref(Record(g)), p)
  BY SetHashesOK
<1>2. h2[o] = Over(hashes, heap[o])
  BY <1>1 DEF WithHashes
<1> HIDE DEF o
<1>3. \A y \in Paths : Said(h2, g, y) = Said(heap, g, y)
  BY <1>1, WalkEmpty DEF Paths, Said
<1>4. Ideally(heap, g, r, L) => Ideally(h2, g, r, L)
  <2>1. \A w \in Done(L) : w \in Paths
    BY StationPaths DEF Done, Stations
  <2>2. \A y \in Settled(r, L) : y \in Paths
    BY DEF Settled
  <2>3. QED
    BY <1>3, <2>1, <2>2 DEF Ideally
<1>5. LiteralsOK(h2)
  <2>1. CASE o[1] # "config"
    <3>1. \A a \in DOMAIN heap : a[1] = "config" => h2[a] = heap[a]
      BY <1>1, <2>1
    <3>2. QED
      BY <1>1, <3>1, LiteralsKept
  <2>2. CASE o[1] = "config"
    <3>1. o[2] \in DOMAIN fields /\ fields[o[2]].literal = "object" /\ o[2] \in ToSet(Sorted)
      BY <1>1, <2>2 DEF LiteralsOK
    <3>2. o[2] \notin InputPaths /\ o[2] # <<"$", "associations">> /\ o # NilMap
      <4>1. o[2] \notin InputPaths
        BY <3>1, InnerName
      <4>2. "config" # "nil" /\ NilMap[1] = "nil"
        BY DEF NilMap
      <4>3. QED
        BY <2>2, <4>1, <4>2 DEF InputPaths
    <3>3. ~(Taken("hronir", Part) /\ InputWritten)
      BY PartIsWritten
    <3>4. Last(o[2]) = "hronir"
      BY <1>1, <3>2, <3>3 DEF Mounted
    <3>5. o[2] = Own
      BY <3>1, <3>4, LastName
    <3>6. o = <<"config", Own>>
      <4>1. o = <<o[1], o[2]>>
        BY <1>1 DEF HeapOK
      <4>2. QED
        BY <2>2, <3>5, <4>1
    <3>7. DOMAIN h2[o] = DOMAIN heap[o] \cup {"sourceHash", "recordHash"}
          /\ \A n \in DOMAIN heap[o] : n \notin {"sourceHash", "recordHash"} =>
               h2[o][n] = heap[o][n]
      BY <1>2 DEF Over
    <3>8. LiteralOK(h2, Own)
      <4>1. LiteralOK(heap, Own)
        BY <3>1, <3>5 DEF LiteralsOK
      <4> HIDE DEF Own
      <4>2. QED
        BY <3>6, <3>7, <4>1 DEF LiteralOK
    <3>9. ASSUME NEW p \in DOMAIN fields, fields[p].literal = "object", p # Own
          PROVE  LiteralOK(h2, p)
      <4>1. LiteralOK(heap, p) /\ <<"config", p>> \in DOMAIN heap
        BY <3>9 DEF LiteralsOK, HeapOK
      <4>2. h2[<<"config", p>>] = heap[<<"config", p>>]
        <5>1. <<"config", p>> # o
          BY <3>6, <3>9
        <5>2. QED
          BY <1>1, <4>1, <5>1
      <4>3. QED
        BY <4>1, <4>2 DEF LiteralOK
    <3>10. QED
      BY <1>1, <3>8, <3>9 DEF LiteralsOK
  <2>3. QED
    BY <2>1, <2>2
<1>6. QED
  BY <1>1, <1>4, <1>5

\* What Marshals looks at has a value at every depth.
LEMMA MarshalSteps ==
  ASSUME NEW g, IsFiniteSet(DOMAIN heap), Marshals(g)
  PROVE  LET in(objects) ==
               {v[2] : v \in {x \in UNION {Range(heap[o]) : o \in objects} : IsRef(x)}}
         IN \E m \in Nat : \E f :
              /\ f[0] = {Record(g)} /\ f[m] = {}
              /\ \A k \in 1 .. m : f[k] = in(f[k - 1])
<1> DEFINE in(objects) ==
             {v[2] : v \in {x \in UNION {Range(heap[o]) : o \in objects} : IsRef(x)}}
           m == Cardinality(DOMAIN heap)
           Solves(f, n) ==
             f = [k \in 0 .. n |-> IF k = 0 THEN {Record(g)} ELSE in(f[k - 1])]
           T == {n \in Nat : \E f : Solves(f, n)}
           F == CHOOSE f : Solves(f, m)
<1>0. m \in Nat
  BY FS_CardinalityType
<1>1. F[m] = {}
  BY DEF Marshals
<1> HIDE DEF in, m
<1>2. 0 \in T
  <2>1. Solves([k \in 0 .. 0 |-> {Record(g)}], 0)
    OBVIOUS
  <2>2. QED
    BY <2>1
<1>3. ASSUME NEW n \in Nat, n \in T PROVE n + 1 \in T
  <2>1. PICK f : Solves(f, n)
    BY <1>3
  <2> DEFINE d == [k \in 0 .. n + 1 |-> IF k <= n THEN f[k] ELSE in(f[n])]
  <2>2. ASSUME NEW k \in 0 .. n + 1
        PROVE  d[k] = IF k = 0 THEN {Record(g)} ELSE in(d[k - 1])
    <3>1. CASE k = n + 1
      BY <3>1
    <3>2. CASE k <= n
      <4>1. k \in 0 .. n /\ (k # 0 => k - 1 \in 0 .. n + 1 /\ k - 1 <= n)
        BY <3>2
      <4>2. f[k] = IF k = 0 THEN {Record(g)} ELSE in(f[k - 1])
        BY <2>1, <4>1
      <4>3. d[k] = f[k] /\ (k # 0 => d[k - 1] = f[k - 1])
        BY <3>2, <4>1
      <4>4. QED
        BY <4>2, <4>3
    <3>3. QED
      BY <3>1, <3>2
  <2>3. Solves(d, n + 1)
    BY <2>2
  <2> HIDE DEF d, Solves
  <2>4. \E f2 : Solves(f2, n + 1)
    BY <2>3, Zenon
  <2>5. QED
    BY <2>4
<1> HIDE DEF T
<1>4. m \in T
  BY <1>0, <1>2, <1>3, Induction
<1>5. PICK f : Solves(f, m)
  BY <1>4 DEF T
<1>6. Solves(F, m)
  BY <1>5
<1> HIDE DEF F
<1>7. F[0] = {Record(g)} /\ \A k \in 1 .. m : F[k] = in(F[k - 1])
  <2>1. \A k \in 0 .. m : F[k] = IF k = 0 THEN {Record(g)} ELSE in(F[k - 1])
    BY <1>6
  <2>2. 0 \in 0 .. m /\ \A k \in 1 .. m : k \in 0 .. m /\ k # 0
    BY <1>0
  <2>3. QED
    BY <2>1, <2>2
<1>8. QED
  BY <1>0, <1>1, <1>7 DEF in

\* A record that leads from its input's associations back to them cannot be put.
LEMMA CircularRefused ==
  ASSUME NEW g \in Goroutine, HeapOK(heap), Record(g) \in DOMAIN heap,
         DOMAIN fields \subseteq ToSet(Sorted), IsFiniteSet(DOMAIN heap),
         NEW r, \A w \in DOMAIN fields : Takes(r, w) => Said(heap, g, w) = Ref(InputPart(g)),
         NEW q \in DOMAIN fields, Circular(r, q)
  PROVE  ~Marshals(g)
<1>0. SUFFICES ASSUME Marshals(g) PROVE FALSE
  OBVIOUS
<1> DEFINE V(j) == Walk(heap, Ref(Record(g)), Up(q, j))
           in(objects) ==
             {v[2] : v \in {x \in UNION {Range(heap[o]) : o \in objects} : IsRef(x)}}
<1>a. PICK m \in Nat : \E f : /\ f[0] = {Record(g)} /\ f[m] = {}
                              /\ \A k \in 1 .. m : f[k] = in(f[k - 1])
  BY <1>0, MarshalSteps
<1>1. PICK f : /\ f[0] = {Record(g)} /\ f[m] = {}
               /\ \A k \in 1 .. m : f[k] = in(f[k - 1])
  BY <1>a
<1>2. PICK w \in DOMAIN fields : Takes(r, w) /\ IsStrictPrefix(w, q)
  BY DEF Circular
<1>3. /\ q \in ToSet(Sorted) /\ w \in ToSet(Sorted) /\ q \in Seq(Names) /\ w \in Seq(Names)
      /\ Len(q) \in Nat \ {0} /\ Len(w) \in Nat
  BY InnerName
<1>4. Len(w) \in 0 .. Len(q) - 1 /\ w = Up(q, Len(w))
  <2>1. /\ Len(w) <= Len(q) /\ \A i \in 1 .. Len(w) : w[i] = q[i]
    BY <1>2, <1>3, PrefixIs DEF IsStrictPrefix
  <2>2. Len(w) # Len(q)
    BY <1>2, <1>3, <2>1, SameSequence DEF IsStrictPrefix
  <2>3. Len(w) \in 0 .. Len(q)
    BY <1>3, <2>1
  <2>4. IsPrefix(w, q)
    BY <1>2 DEF IsStrictPrefix
  <2>5. w = Up(q, Len(w))
    BY <1>3, <2>3, <2>4, UpIs
  <2>6. QED
    BY <1>3, <2>2, <2>3, <2>5
<1>5. V(Len(q)) = Ref(InputPart(g)) /\ V(Len(w)) = Ref(InputPart(g))
  <2>1. Up(q, Len(q)) = q
    BY <1>3, UpSteps
  <2>2. Takes(r, q)
    BY DEF Circular
  <2>3. QED
    BY <1>2, <1>4, <2>1, <2>2 DEF Said
<1>6. V(0) = Ref(Record(g))
  BY <1>3, UpSteps, WalkEmpty
<1>7. ASSUME NEW j \in 1 .. Len(q) PROVE V(j) = Entry(heap, V(j - 1), q[j])
  <2>1. Up(q, j) = Append(Up(q, j - 1), q[j]) /\ Up(q, j - 1) \in Seq(Names) /\ q[j] \in Names
    <3>1. j - 1 \in 0 .. Len(q)
      BY <1>3
    <3>2. Up(q, j) = Append(Up(q, j - 1), q[j])
      BY <1>3, UpSteps
    <3>3. Up(q, j - 1) \in Seq(Names)
      BY <1>3, <3>1, UpIs
    <3>4. q[j] \in Names
      BY <1>3
    <3>5. QED
      BY <3>2, <3>3, <3>4
  <2>2. QED
    BY <2>1, WalkAppend
<1>8. ASSUME NEW j \in 0 .. Len(q), IsRef(V(j))
      PROVE  V(j) = Ref(V(j)[2]) /\ V(j)[2] \in DOMAIN heap
  <2>1. Up(q, j) \in Seq(Names)
    BY <1>3, UpIs
  <2>2. QED
    BY <1>8, <2>1, WalkOK
<1> HIDE DEF V
<1>9. \A j \in 0 .. Len(q) : IsRef(V(j))
  <2> DEFINE T == {k \in 0 .. Len(q) : IsRef(V(Len(q) - k))}
  <2>1. 0 \in T
    BY <1>3, <1>5, RefIs
  <2>2. ASSUME NEW k \in 1 .. Len(q), k - 1 \in T PROVE k \in T
    <3> DEFINE j == Len(q) - (k - 1)
    <3>1. j \in 1 .. Len(q) /\ j - 1 = Len(q) - k /\ k \in 0 .. Len(q) /\ IsRef(V(j))
      BY <1>3, <2>2
    <3> HIDE DEF j
    <3>2. V(j) = Entry(heap, V(j - 1), q[j])
      BY <1>7, <3>1
    <3>3. IsRef(V(j - 1))
      BY <3>1, <3>2, RefIs DEF Entry
    <3>4. QED
      BY <3>1, <3>3
  <2> HIDE DEF T
  <2>3. 0 .. Len(q) \subseteq T
    BY <1>3, <2>1, <2>2, InductionTo
  <2>4. ASSUME NEW j \in 0 .. Len(q) PROVE IsRef(V(j))
    <3>1. Len(q) - j \in 0 .. Len(q) /\ Len(q) - (Len(q) - j) = j
      BY <1>3
    <3>2. Len(q) - j \in T
      BY <2>3, <3>1
    <3>3. QED
      BY <3>1, <3>2 DEF T
  <2>5. QED
    BY <2>4
<1> DEFINE D == {k \in 0 .. m : \E j \in 0 .. Len(q) - 1 : V(j)[2] \in f[k]}
<1>10. 0 \in D
  <2>1. 0 \in 0 .. Len(q) - 1 /\ V(0)[2] \in f[0]
    BY <1>1, <1>3, <1>6, RefIs
  <2>2. QED
    BY <2>1
<1>11. ASSUME NEW k \in 1 .. m, k - 1 \in D PROVE k \in D
  <2>1. PICK j \in 0 .. Len(q) - 1 : V(j)[2] \in f[k - 1]
    BY <1>11
  <2>2. j + 1 \in 1 .. Len(q) /\ j \in 0 .. Len(q) /\ j + 1 \in 0 .. Len(q) /\ j + 1 - 1 = j
    BY <1>3
  <2> DEFINE o == V(j)[2]
             v == V(j + 1)
  <2>3. V(j) = Ref(o) /\ o \in DOMAIN heap /\ IsRef(v)
    BY <1>8, <1>9, <2>2
  <2>4. v = Entry(heap, Ref(o), q[j + 1])
    BY <1>7, <2>2, <2>3
  <2> HIDE DEF o, v
  <2>5. v \in Range(heap[o])
    BY <2>3, <2>4, EntryIs, RefIs DEF Range
  <2>6. v[2] \in in(f[k - 1])
    <3>1. o \in f[k - 1]
      BY <2>1 DEF o
    <3>2. v \in UNION {Range(heap[a]) : a \in f[k - 1]}
      BY <2>5, <3>1
    <3>3. QED
      BY <2>3, <3>2
  <2>7. v[2] \in f[k]
    BY <1>1, <2>6
  <2>8. CASE j + 1 \in 0 .. Len(q) - 1
    BY <2>7, <2>8 DEF v
  <2>9. CASE j + 1 = Len(q)
    <3>1. v = V(Len(w))
      BY <1>5, <2>9 DEF v
    <3>2. QED
      BY <1>4, <2>7, <3>1
  <2>10. QED
    BY <1>3, <2>2, <2>8, <2>9
<1> HIDE DEF D
<1>12. m \in D
  <2>1. 0 .. m \subseteq D
    BY <1>10, <1>11, InductionTo
  <2>2. QED
    BY <2>1
<1>13. QED
  BY <1>1, <1>12 DEF D

\* What a call puts is the ideal record.
LEMMA PutIdeally ==
  ASSUME NEW g \in Goroutine, HeapOK(heap), Record(g) \in DOMAIN heap,
         DOMAIN fields \subseteq ToSet(Sorted), IsFiniteSet(DOMAIN heap),
         NEW r, Ideally(heap, g, r, {}), Marshals(g)
  PROVE  Semantic(Content(heap, g)) = Ideal(r)
<1>1. Done({}) = DOMAIN fields
  BY DEF Done
<1>2. \A w \in DOMAIN fields : Takes(r, w) => Said(heap, g, w) = Ref(InputPart(g))
  BY <1>1 DEF Ideally
<1>3. \A q \in DOMAIN fields : ~Circular(r, q)
  BY <1>2, CircularRefused
<1>4. Visible \ Excluded \subseteq Settled(r, {})
  BY <1>3 DEF Settled, Paths
<1>5. ASSUME NEW y \in Visible \ Excluded
      PROVE  Content(heap, g)[y] = IdealOf(DOMAIN fields, r, y)
  BY <1>1, <1>4 DEF Ideally, Content, Said
<1>6. QED
  BY <1>5, IdealAll DEF Semantic

-----------------------------------------------------------------------------
(* The invariant.                                                            *)

\* RecordInv and RecordIsIdeal, of one goroutine.
Told(g) ==
  Plain /\ process = "runs" /\ Busy(g) /\ ~(SharedLiteral /\ overlapped[g]) =>
    /\ Ideally(heap, g, of[g], left[g])
    /\ pc[g] = "map" => Pristine(heap, g, of[g], left[g])
Shown(g) ==
  pc[g] = "done" /\ ~Disturbed(g) => Semantic(body[g]) = Ideal(of[g])

\* No step changes the fields, nor what is said of them alone.
LEMMA RecordFixed ==
  ASSUME fields' = fields
  PROVE  /\ SharedLiteral' <=> SharedLiteral
         /\ Plain' <=> Plain
         /\ \A g : Disturbed(g)' <=> ~Plain \/ (SharedLiteral /\ overlapped'[g])
         /\ LiteralsOK(heap)' <=> LiteralsOK(heap')
         /\ \A g : InOrder(left[g])' <=> InOrder(left'[g])
         /\ \A g : Ideal(of[g])' = Ideal(of'[g])
         /\ \A g : Ideally(heap, g, of[g], left[g])' <=> Ideally(heap', g, of'[g], left'[g])
         /\ \A g : Pristine(heap, g, of[g], left[g])' <=> Pristine(heap', g, of'[g], left'[g])
<1>1. SharedLiteral' <=> SharedLiteral
  BY FieldsFixed
<1>2. Plain' <=> Plain
  BY DEF Plain, WritesIntoInput, LeavesBehind, OwnIsShown
<1>3. \A g : Disturbed(g)' <=> ~Plain \/ (SharedLiteral /\ overlapped'[g])
  BY <1>1, <1>2 DEF Disturbed, Plain
<1>4. LiteralsOK(heap)' <=> LiteralsOK(heap')
  BY DEF LiteralsOK, LiteralOK
<1>5. \A g : InOrder(left[g])' <=> InOrder(left'[g])
  BY DEF InOrder
<1>6. \A r : IdealHeap(r)' = IdealHeap(r)
  BY DEF IdealHeap
<1>7. \A r, p : IdealValue(r, p)' = IdealValue(r, p)
  BY <1>6 DEF IdealValue
<1>8. \A A, r, y : IdealSays(A, r, y)' = IdealSays(A, r, y)
  BY <1>6, <1>7 DEF IdealSays
<1>9. \A A, r, y : IdealHolds(A, r, y)' <=> IdealHolds(A, r, y)
  BY <1>7 DEF IdealHolds
<1>10. \A A, r, y : IdealOf(A, r, y)' = IdealOf(A, r, y)
  BY <1>8, <1>9 DEF IdealOf
<1>11. \A g : Ideal(of[g])' = Ideal(of'[g])
  BY DEF Ideal
<1>12. \A L : Done(L)' = Done(L)
  BY DEF Done
<1>13. \A r, q : Takes(r, q)' <=> Takes(r, q)
  BY DEF Takes
<1>14. \A r, q : Circular(r, q)' <=> Circular(r, q)
  BY <1>13 DEF Circular
<1>15. \A r, L : Settled(r, L)' = Settled(r, L)
  BY <1>14 DEF Settled
<1>16. \A g : Ideally(heap, g, of[g], left[g])' <=> Ideally(heap', g, of'[g], left'[g])
  BY <1>10, <1>12, <1>13, <1>15 DEF Ideally, Said
<1>17. \A g : Pristine(heap, g, of[g], left[g])' <=> Pristine(heap', g, of'[g], left'[g])
  BY <1>12 DEF Pristine, InputIntact
<1>18. QED
  BY <1>1, <1>2, <1>3, <1>4, <1>5, <1>11, <1>16, <1>17

\* A step that leaves the other calls alone, and is right for its own.
LEMMA RecordStep ==
  ASSUME Inv, RecordInv, RecordIsIdeal, process = "runs", NEW g \in Goroutine,
         fields' = fields, InOrder(left'[g]),
         Plain /\ process' = "runs" => IsFiniteSet(DOMAIN heap') /\ LiteralsOK(heap'),
         Told(g)', Shown(g)',
         \A x \in Goroutine : x # g =>
           /\ pc'[x] = pc[x] /\ of'[x] = of[x] /\ left'[x] = left[x] /\ body'[x] = body[x]
           /\ overlapped[x] => overlapped'[x]
           /\ SharedLiteral /\ Busy(x) => overlapped'[x],
         process' = "runs" => heap'[NilMap] = heap[NilMap] /\ NilMap \in DOMAIN heap',
         ~SharedLiteral => \A o \in DOMAIN heap :
           o[1] # g /\ o # NilMap => o \in DOMAIN heap' /\ heap'[o] = heap[o]
  PROVE  RecordInv' /\ RecordIsIdeal'
<1>1. TypeOK /\ HashedInv
  BY DEF Inv
<1>2. /\ SharedLiteral' <=> SharedLiteral
      /\ Plain' <=> Plain
      /\ \A x : Disturbed(x)' <=> ~Plain \/ (SharedLiteral /\ overlapped'[x])
      /\ LiteralsOK(heap)' <=> LiteralsOK(heap')
      /\ \A x : InOrder(left[x])' <=> InOrder(left'[x])
      /\ \A x : Ideal(of[x])' = Ideal(of'[x])
      /\ \A x : Ideally(heap, x, of[x], left[x])' <=> Ideally(heap', x, of'[x], left'[x])
      /\ \A x : Pristine(heap, x, of[x], left[x])' <=> Pristine(heap', x, of'[x], left'[x])
  BY RecordFixed
<1>3. ASSUME NEW x \in Goroutine, x # g PROVE Told(x)' /\ Shown(x)'
  <2>1. /\ pc'[x] = pc[x] /\ of'[x] = of[x] /\ left'[x] = left[x] /\ body'[x] = body[x]
        /\ overlapped[x] => overlapped'[x]
        /\ SharedLiteral /\ Busy(x) => overlapped'[x]
    BY <1>3
  <2>2. ASSUME Plain, process' = "runs", Busy(x), ~(SharedLiteral /\ overlapped'[x])
        PROVE  /\ Ideally(heap', x, of[x], left[x])
               /\ pc[x] = "map" => Pristine(heap', x, of[x], left[x])
    <3>1. ~SharedLiteral
      BY <2>1, <2>2
    <3>2. /\ Ideally(heap, x, of[x], left[x])
          /\ pc[x] = "map" => Pristine(heap, x, of[x], left[x])
      BY <2>2, <3>1 DEF RecordInv
    <3>3. /\ HeapOK(heap) /\ Separate(heap) /\ heap[NilMap] = NoEntry
          /\ Record(x) \in DOMAIN heap /\ InputOf(x) \in DOMAIN heap
          /\ DOMAIN fields \subseteq ToSet(Sorted)
      BY <1>1, <2>2, <3>1 DEF HashedInv, TypeOK
    <3>4. g # "config"
      BY FieldMapAssumption
    <3>5. \A o \in DOMAIN heap : o[1] \in {x, "config"} \/ o = NilMap =>
            o \in DOMAIN heap' /\ heap'[o] = heap[o]
      BY <1>3, <2>2, <3>1, <3>4
    <3>6. QED
      BY <3>2, <3>3, <3>5, OtherIdeally
  <2>3. Busy(x)' <=> Busy(x)
    BY <2>1 DEF Busy
  <2>4. Told(x)'
    BY <1>2, <2>1, <2>2, <2>3 DEF Told
  <2>5. Shown(x)
    BY DEF RecordIsIdeal, Shown
  <2>6. Disturbed(x) => Disturbed(x)'
    BY <1>2, <2>1 DEF Disturbed, Plain
  <2>7. Shown(x)'
    BY <1>2, <2>1, <2>5, <2>6 DEF Shown
  <2>8. QED
    BY <2>4, <2>7
<1>4. \A x \in Goroutine : Told(x)' /\ Shown(x)'
  BY <1>3
<1>5. RecordIsIdeal'
  BY <1>4 DEF RecordIsIdeal, Shown
<1>6. RecordInv'
  <2>1. \A p \in DOMAIN fields : fields[p].remove => fields[p].expr = NoExpr
    BY DEF RecordInv
  <2>2. \A x \in Goroutine : InOrder(left[x])'
    BY <1>2 DEF RecordInv
  <2>3. Plain /\ process' = "runs" => IsFiniteSet(DOMAIN heap') /\ LiteralsOK(heap)'
    BY <1>2
  <2>4. ASSUME Plain', process' = "runs", NEW x \in Goroutine, Busy(x)',
               ~(SharedLiteral /\ overlapped[x])'
        PROVE  /\ Ideally(heap, x, of[x], left[x])'
               /\ (pc[x] = "map")' => Pristine(heap, x, of[x], left[x])'
    BY <1>4, <2>4 DEF Told
  <2>5. QED
    BY <1>2, <2>1, <2>2, <2>3, <2>4 DEF RecordInv
<1>7. QED
  BY <1>5, <1>6

\* The invariant of an engine that has mapped nothing.
LEMMA InitRecord ==
  ASSUME Init
  PROVE  RecordInv /\ RecordIsIdeal
<1>1. DOMAIN fields \subseteq ToSet(Sorted)
  BY InitFields
<1>2. /\ pc = [g \in Goroutine |-> "idle"] /\ heap = Literals(fields)
      /\ left = [g \in Goroutine |-> {}]
  BY DEF Init
<1>3. \A g \in Goroutine : ~Busy(g) /\ pc[g] # "done" /\ left[g] = {}
  BY <1>2 DEF Busy
<1>4. \A p \in DOMAIN fields : fields[p].remove => fields[p].expr = NoExpr
  <2>1. PICK o \in Overlays : fields = Over(o, BuiltIn)
    BY DEF Init
  <2>2. PICK P \in SUBSET ToSet(Sorted) :
          o \in [P -> Field] /\ \A p \in P : o[p] \in Configurable(p)
    BY <2>1 DEF Overlays
  <2>3. ASSUME NEW n, NEW f \in UnmarshalYAML(n) PROVE f.remove => f.expr = NoExpr
    BY <2>3 DEF UnmarshalYAML, Removal, Literal, Expr
  <2>4. ASSUME NEW p \in P PROVE o[p].remove => o[p].expr = NoExpr
    BY <2>2, <2>3 DEF Configurable
  <2>5. /\ DOMAIN BuiltIn = {Associations, Title}
        /\ \A p \in DOMAIN BuiltIn : ~BuiltIn[p].remove
    BY DEF BuiltIn, Expr
  <2>6. ASSUME NEW p \in DOMAIN fields PROVE fields[p].remove => fields[p].expr = NoExpr
    <3>1. CASE p \in P
      BY <2>1, <2>2, <2>4, <3>1 DEF Over
    <3>2. CASE p \notin P
      <4>1. p \in DOMAIN BuiltIn /\ fields[p] = BuiltIn[p]
        BY <2>1, <2>2, <3>2 DEF Over
      <4>2. QED
        BY <2>5, <4>1
    <3>3. QED
      BY <3>1, <3>2
  <2>7. QED
    BY <2>6
<1> DEFINE Objects == {p \in DOMAIN fields : fields[p].literal = "object"}
<1>5. /\ DOMAIN heap = {NilMap} \cup {<<"config", p>> : p \in Objects}
      /\ \A p \in Objects : heap[<<"config", p>>] = [label |-> Text("label")]
  <2>1. \A p : <<"config", p>> # NilMap
    BY DEF NilMap
  <2>2. QED
    BY <1>2, <2>1 DEF Literals
<1> HIDE DEF Objects
<1>6. LiteralsOK(heap)
  <2>1. \A p \in DOMAIN fields : fields[p].literal = "object" => LiteralOK(heap, p)
    BY <1>5 DEF LiteralOK, Objects
  <2>2. ASSUME NEW o \in DOMAIN heap, o[1] = "config"
        PROVE  o[2] \in DOMAIN fields /\ fields[o[2]].literal = "object"
    <3>1. o # NilMap
      BY <2>2 DEF NilMap
    <3>2. QED
      BY <1>5, <3>1 DEF Objects
  <2>3. QED
    BY <2>1, <2>2 DEF LiteralsOK
<1>7. IsFiniteSet(DOMAIN heap)
  <2>1. IsFiniteSet({Properties, Associations, Parent, Extra, ExtraParent, Own, Title})
    <3>1. /\ IsFiniteSet({Properties, Associations}) /\ IsFiniteSet({Parent, Extra})
          /\ IsFiniteSet({ExtraParent, Own}) /\ IsFiniteSet({Title, Title})
      BY PairFinite
    <3>2. IsFiniteSet({Properties, Associations} \cup {Parent, Extra})
      BY <3>1, FS_Union
    <3>3. IsFiniteSet({ExtraParent, Own} \cup {Title, Title})
      BY <3>1, FS_Union
    <3>4. IsFiniteSet(({Properties, Associations} \cup {Parent, Extra})
                      \cup ({ExtraParent, Own} \cup {Title, Title}))
      BY <3>2, <3>3, FS_Union
    <3>5. {Properties, Associations, Parent, Extra, ExtraParent, Own, Title} =
            ({Properties, Associations} \cup {Parent, Extra})
            \cup ({ExtraParent, Own} \cup {Title, Title})
      OBVIOUS
    <3>6. QED
      BY <3>4, <3>5
  <2>2. IsFiniteSet(Objects)
    BY <1>1, <2>1, Pointers, FS_Subset DEF Objects
  <2>3. IsFiniteSet({<<"config", p>> : p \in Objects})
    <3> DEFINE T == {<<"config", p>> : p \in Objects}
               f == [p \in Objects |-> <<"config", p>>]
    <3>1. f \in Surjection(Objects, T)
      BY DEF Surjection
    <3> HIDE DEF f, T
    <3>2. IsFiniteSet(T)
      BY <2>2, <3>1, FS_Surjection
    <3>3. QED
      BY <3>2 DEF T
  <2>4. IsFiniteSet({<<"config", p>> : p \in Objects} \cup {NilMap})
    BY <2>3, FS_AddElement
  <2>5. QED
    BY <1>5, <2>4
<1>8. RecordInv
  BY <1>3, <1>4, <1>6, <1>7 DEF RecordInv, InOrder
<1>9. RecordIsIdeal
  BY <1>3 DEF RecordIsIdeal
<1>10. QED
  BY <1>8, <1>9

\* Each action keeps the invariant. StartMap:
LEMMA StartMapRecord ==
  ASSUME Inv, RecordInv, RecordIsIdeal, NEW g \in Goroutine, NEW r \in Resource, StartMap(g, r)
  PROVE  RecordInv' /\ RecordIsIdeal'
<1>1. TypeOK /\ HashedInv
  BY DEF Inv
<1>2. /\ process = "runs" /\ process' = process /\ fields' = fields
      /\ heap' = Over(NewRecord(g, r), Over(Input(g, r), heap))
      /\ pc' = [pc EXCEPT ![g] = "map"] /\ of' = [of EXCEPT ![g] = r]
      /\ left' = [left EXCEPT ![g] = DOMAIN fields]
      /\ body' = [body EXCEPT ![g] = Nothing]
      /\ overlapped' =
           [x \in Goroutine |-> IF x = g THEN {y \in Goroutine \ {g} : Busy(y)} # {}
                               ELSE overlapped[x] \/ Busy(x)]
  BY DEF StartMap
<1>3. /\ HeapOK(heap) /\ heap[NilMap] = NoEntry /\ NilMap \in DOMAIN heap /\ NilMap[1] = "nil"
      /\ g # "nil"
  BY <1>1, <1>2, FieldMapAssumption DEF HashedInv, HeapOK, NilMap
<1>4. /\ DOMAIN heap \subseteq DOMAIN heap'
      /\ \A o \in DOMAIN heap : o[1] # g => heap'[o] = heap[o]
  BY <1>2, <1>3, StartOK
<1>5. /\ Ideally(heap', g, r, DOMAIN fields) /\ Pristine(heap', g, r, DOMAIN fields)
      /\ LiteralsOK(heap) => LiteralsOK(heap')
      /\ IsFiniteSet(DOMAIN heap) => IsFiniteSet(DOMAIN heap')
  BY <1>2, <1>3, StartIdeally
<1>6. /\ pc'[g] = "map" /\ of'[g] = r /\ left'[g] = DOMAIN fields
      /\ \A x \in Goroutine : x # g => /\ pc'[x] = pc[x] /\ of'[x] = of[x]
                                     /\ left'[x] = left[x] /\ body'[x] = body[x]
                                     /\ overlapped'[x] = (overlapped[x] \/ Busy(x))
  BY <1>1, <1>2 DEF TypeOK
<1>7. Told(g)' /\ Shown(g)'
  <2>1. /\ Ideally(heap, g, of[g], left[g])' <=> Ideally(heap', g, of'[g], left'[g])
        /\ Pristine(heap, g, of[g], left[g])' <=> Pristine(heap', g, of'[g], left'[g])
    BY <1>2, RecordFixed
  <2>2. QED
    BY <1>5, <1>6, <2>1 DEF Told, Shown
<1>8. InOrder(left'[g])
  BY <1>6 DEF InOrder
<1>9. Plain /\ process' = "runs" => IsFiniteSet(DOMAIN heap') /\ LiteralsOK(heap')
  BY <1>2, <1>5 DEF RecordInv
<1>10. heap'[NilMap] = heap[NilMap] /\ NilMap \in DOMAIN heap'
  BY <1>3, <1>4
<1>11. QED
  BY <1>2, <1>4, <1>6, <1>7, <1>8, <1>9, <1>10, RecordStep

\* What the steps of a call under way leave alone.
LEMMA Alone ==
  ASSUME Inv, process = "runs", NEW g \in Goroutine, Busy(g), fields' = fields, of' = of,
         \A x \in Goroutine : x # g => /\ pc'[x] = pc[x] /\ left'[x] = left[x]
                                      /\ body'[x] = body[x] /\ overlapped'[x] = overlapped[x]
  PROVE  \A x \in Goroutine : x # g =>
           /\ pc'[x] = pc[x] /\ of'[x] = of[x] /\ left'[x] = left[x] /\ body'[x] = body[x]
           /\ overlapped[x] => overlapped'[x]
           /\ SharedLiteral /\ Busy(x) => overlapped'[x]
<1>1. \A x \in Goroutine : x # g /\ Busy(x) => overlapped[x]
  BY DEF Inv, HashedInv
<1>2. QED
  BY <1>1

\* ApplyField:
LEMMA ApplyFieldRecord ==
  ASSUME Inv, RecordInv, RecordIsIdeal, NEW g \in Goroutine, ApplyField(g)
  PROVE  RecordInv' /\ RecordIsIdeal'
<1> DEFINE p == First(left[g])
<1>1. /\ process = "runs" /\ pc[g] = "map" /\ Busy(g)
  BY DEF ApplyField, Busy
<1>2. /\ fields[p].expr # Broken /\ heap' = Applied(g, p)
      /\ process' = IF heap'[NilMap] = NoEntry THEN process ELSE "panicked"
      /\ left' = [left EXCEPT ![g] = @ \ {p}]
      /\ pc' = IF left'[g] = {} THEN [pc EXCEPT ![g] = "hash"] ELSE pc
      /\ fields' = fields /\ of' = of /\ body' = body /\ overlapped' = overlapped
  BY DEF ApplyField
<1> HIDE DEF p
<1>3. /\ fields \in [DOMAIN fields -> Field] /\ DOMAIN fields \subseteq ToSet(Sorted)
      /\ pc \in [Goroutine -> {"idle", "map", "hash", "setHashes", "put", "done"}]
      /\ left \in [Goroutine -> SUBSET DOMAIN fields] /\ left[g] # {}
      /\ HeapOK(heap) /\ (SharedLiteral \/ Separate(heap)) /\ heap[NilMap] = NoEntry
      /\ NilMap \in DOMAIN heap /\ Record(g) \in DOMAIN heap /\ InputOf(g) \in DOMAIN heap
  BY <1>1, Finds
<1>4. p \in left[g] /\ p \in DOMAIN fields
  BY <1>3, FirstOf DEF p
<1>5. /\ DOMAIN heap \subseteq DOMAIN heap'
      /\ ~SharedLiteral /\ Separate(heap) =>
           \A o \in DOMAIN heap : o[1] # g /\ o # NilMap => heap'[o] = heap[o]
  BY <1>2, <1>3, <1>4, AppliedOK
<1>6. /\ left'[g] = left[g] \ {p} /\ pc'[g] = IF left'[g] = {} THEN "hash" ELSE "map"
      /\ \A x \in Goroutine : x # g => pc'[x] = pc[x] /\ left'[x] = left[x]
  BY <1>1, <1>2, <1>3
<1>7. ASSUME Plain PROVE Found(g, of[g], left[g])
  BY <1>3, <1>7 DEF Found, Plain, RecordInv
<1>8. Plain /\ process' = "runs" => IsFiniteSet(DOMAIN heap') /\ LiteralsOK(heap')
  <2>1. SUFFICES ASSUME Plain PROVE IsFiniteSet(DOMAIN heap') /\ LiteralsOK(heap')
    OBVIOUS
  <2>2. Spared(p, heap, heap')
    BY <1>2, <1>7, <2>1, AppliedSpares DEF p
  <2>3. QED
    BY <1>1, <2>1, <2>2 DEF Spared, RecordInv
<1>9. ASSUME Plain, ~(SharedLiteral /\ overlapped[g])
      PROVE  /\ Ideally(heap', g, of[g], left[g] \ {p})
             /\ Pristine(heap', g, of[g], left[g] \ {p})
  <2>1. /\ LiteralsOK(heap) /\ Ideally(heap, g, of[g], left[g])
        /\ Pristine(heap, g, of[g], left[g])
    BY <1>1, <1>9 DEF RecordInv
  <2>2. Ideally(heap', g, of[g], left[g] \ {p})
    BY <1>2, <1>7, <1>9, <2>1, ApplyIdeally DEF p
  <2>3. Pristine(heap', g, of[g], left[g] \ {p})
    BY <1>2, <1>7, <1>9, <2>1, ApplyPristine DEF p
  <2>4. QED
    BY <2>2, <2>3
<1>10. Told(g)' /\ Shown(g)'
  <2>1. /\ Ideally(heap, g, of[g], left[g])' <=> Ideally(heap', g, of'[g], left'[g])
        /\ Pristine(heap, g, of[g], left[g])' <=> Pristine(heap', g, of'[g], left'[g])
        /\ (Plain' <=> Plain) /\ (SharedLiteral' <=> SharedLiteral)
    BY <1>2, RecordFixed
  <2>2. QED
    BY <1>2, <1>6, <1>9, <2>1 DEF Told, Shown
<1>11. InOrder(left'[g])
  <2>1. InOrder(left[g]) /\ \A q \in left[g] : IsPrefix(q, p) => q = p
    BY <1>3, FirstLeads DEF RecordInv, p
  <2>2. QED
    BY <1>6, <2>1 DEF InOrder
<1>12. process' = "runs" => heap'[NilMap] = heap[NilMap] /\ NilMap \in DOMAIN heap'
  BY <1>2, <1>3, <1>5
<1>13. \A x \in Goroutine : x # g =>
         /\ pc'[x] = pc[x] /\ of'[x] = of[x] /\ left'[x] = left[x] /\ body'[x] = body[x]
         /\ overlapped[x] => overlapped'[x]
         /\ SharedLiteral /\ Busy(x) => overlapped'[x]
  BY <1>1, <1>2, <1>6, Alone
<1>14. ~SharedLiteral => \A o \in DOMAIN heap :
         o[1] # g /\ o # NilMap => o \in DOMAIN heap' /\ heap'[o] = heap[o]
  BY <1>3, <1>5
<1>15. QED
  BY <1>1, <1>2, <1>8, <1>10, <1>11, <1>12, <1>13, <1>14, RecordStep

\* A call that ends without a record, or has put one.
LEMMA EndRecord ==
  ASSUME Inv, RecordInv, RecordIsIdeal, NEW g \in Goroutine, process = "runs", Busy(g),
         fields' = fields, process' = process, of' = of, heap' = Dropped(g),
         pc' \in {[pc EXCEPT ![g] = "idle"], [pc EXCEPT ![g] = "done"]},
         InOrder(left'[g]), Shown(g)',
         \A x \in Goroutine : x # g => /\ left'[x] = left[x] /\ body'[x] = body[x]
                                      /\ overlapped'[x] = overlapped[x]
  PROVE  RecordInv' /\ RecordIsIdeal'
<1>1. /\ pc \in [Goroutine -> {"idle", "map", "hash", "setHashes", "put", "done"}]
      /\ HeapOK(heap) /\ NilMap \in DOMAIN heap
  BY Finds
<1>2. \A o \in DOMAIN heap : o[1] # g => o \in DOMAIN heap' /\ heap'[o] = heap[o]
  BY <1>1, DroppedOK
<1>3. Plain => IsFiniteSet(DOMAIN heap') /\ LiteralsOK(heap')
  BY <1>1, DroppedSpares DEF RecordInv
<1>4. NilMap[1] # g
  BY FieldMapAssumption DEF NilMap
<1>5. pc'[g] \in {"idle", "done"} /\ \A x \in Goroutine : x # g => pc'[x] = pc[x]
  BY <1>1
<1>6. Told(g)'
  BY <1>5 DEF Told, Busy
<1>7. \A x \in Goroutine : x # g =>
        /\ pc'[x] = pc[x] /\ of'[x] = of[x] /\ left'[x] = left[x] /\ body'[x] = body[x]
        /\ overlapped[x] => overlapped'[x]
        /\ SharedLiteral /\ Busy(x) => overlapped'[x]
  BY <1>5, Alone
<1>8. QED
  BY <1>1, <1>2, <1>3, <1>4, <1>6, <1>7, RecordStep

\* MapFails and PutFails:
LEMMA GiveUpRecord ==
  ASSUME Inv, RecordInv, RecordIsIdeal, NEW g \in Goroutine, process = "runs", Busy(g), GiveUp(g)
  PROVE  RecordInv' /\ RecordIsIdeal'
<1>1. /\ pc' = [pc EXCEPT ![g] = "idle"] /\ heap' = Dropped(g)
      /\ left' = [left EXCEPT ![g] = {}] /\ overlapped' = [overlapped EXCEPT ![g] = FALSE]
      /\ fields' = fields /\ process' = process /\ of' = of /\ body' = body
  BY DEF GiveUp
<1>2. /\ pc \in [Goroutine -> {"idle", "map", "hash", "setHashes", "put", "done"}]
      /\ left \in [Goroutine -> SUBSET DOMAIN fields] /\ overlapped \in [Goroutine -> BOOLEAN]
  BY Finds
<1>3. pc'[g] = "idle" /\ left'[g] = {}
  BY <1>1, <1>2
<1>4. Shown(g)'
  BY <1>3 DEF Shown
<1>5. InOrder(left'[g])
  BY <1>3 DEF InOrder
<1>6. \A x \in Goroutine : x # g => /\ left'[x] = left[x] /\ body'[x] = body[x]
                                  /\ overlapped'[x] = overlapped[x]
  BY <1>1, <1>2
<1>7. QED
  BY <1>1, <1>4, <1>5, <1>6, EndRecord

\* Put:
LEMMA PutRecord ==
  ASSUME Inv, RecordInv, RecordIsIdeal, NEW g \in Goroutine, Put(g)
  PROVE  RecordInv' /\ RecordIsIdeal'
<1>1. /\ process = "runs" /\ pc[g] = "put" /\ Busy(g) /\ Marshals(g)
      /\ body' = [body EXCEPT ![g] = Content(heap, g)]
      /\ pc' = [pc EXCEPT ![g] = "done"] /\ heap' = Dropped(g)
      /\ fields' = fields /\ process' = process /\ of' = of
      /\ left' = left /\ overlapped' = overlapped
  BY DEF Put, Busy
<1>2. /\ DOMAIN fields \subseteq ToSet(Sorted) /\ DOMAIN body = Goroutine
      /\ (pc[g] = "map" <=> left[g] # {})
      /\ HeapOK(heap) /\ Record(g) \in DOMAIN heap
  BY <1>1, Finds
<1>3. body'[g] = Content(heap, g) /\ left[g] = {}
  BY <1>1, <1>2
<1>4. ASSUME Plain, ~(SharedLiteral /\ overlapped[g])
      PROVE  Semantic(body'[g]) = Ideal(of[g])
  <2>1. Ideally(heap, g, of[g], {}) /\ IsFiniteSet(DOMAIN heap)
    BY <1>1, <1>3, <1>4 DEF RecordInv
  <2>2. QED
    BY <1>1, <1>2, <1>3, <2>1, PutIdeally
<1>5. Shown(g)'
  <2>1. /\ Disturbed(g)' <=> ~Plain \/ (SharedLiteral /\ overlapped'[g])
        /\ Ideal(of[g])' = Ideal(of'[g])
    BY <1>1, RecordFixed
  <2>2. Semantic(body[g])' = Semantic(body'[g])
    BY DEF Semantic
  <2>3. QED
    BY <1>1, <1>4, <2>1, <2>2 DEF Shown
<1>6. InOrder(left'[g])
  BY <1>1 DEF RecordInv
<1>7. \A x \in Goroutine : x # g => /\ left'[x] = left[x] /\ body'[x] = body[x]
                                  /\ overlapped'[x] = overlapped[x]
  BY <1>1, <1>2
<1>8. QED
  BY <1>1, <1>5, <1>6, <1>7, EndRecord

\* SemanticHash:
LEMMA SemanticHashRecord ==
  ASSUME Inv, RecordInv, RecordIsIdeal, NEW g \in Goroutine, SemanticHash(g)
  PROVE  RecordInv' /\ RecordIsIdeal'
<1>1. /\ process = "runs" /\ pc[g] = "hash" /\ Busy(g)
      /\ pc' = [pc EXCEPT ![g] = "setHashes"]
      /\ fields' = fields /\ heap' = heap /\ process' = process /\ of' = of
      /\ left' = left /\ body' = body /\ overlapped' = overlapped
  BY DEF SemanticHash, Busy
<1>2. /\ pc \in [Goroutine -> {"idle", "map", "hash", "setHashes", "put", "done"}]
      /\ NilMap \in DOMAIN heap
  BY <1>1, Finds
<1>3. pc'[g] = "setHashes" /\ \A x \in Goroutine : x # g => pc'[x] = pc[x]
  BY <1>1, <1>2
<1>4. Told(g)' /\ Shown(g)'
  <2>1. /\ Ideally(heap, g, of[g], left[g])' <=> Ideally(heap', g, of'[g], left'[g])
        /\ (Plain' <=> Plain) /\ (SharedLiteral' <=> SharedLiteral)
    BY <1>1, RecordFixed
  <2>2. Plain /\ ~(SharedLiteral /\ overlapped[g]) => Ideally(heap, g, of[g], left[g])
    BY <1>1 DEF RecordInv
  <2>3. QED
    BY <1>1, <1>3, <2>1, <2>2 DEF Told, Shown
<1>5. Plain => IsFiniteSet(DOMAIN heap') /\ LiteralsOK(heap')
  BY <1>1 DEF RecordInv
<1>6. InOrder(left'[g])
  BY <1>1 DEF RecordInv
<1>7. \A x \in Goroutine : x # g =>
        /\ pc'[x] = pc[x] /\ of'[x] = of[x] /\ left'[x] = left[x] /\ body'[x] = body[x]
        /\ overlapped[x] => overlapped'[x]
        /\ SharedLiteral /\ Busy(x) => overlapped'[x]
  BY <1>1, <1>3, Alone
<1>8. QED
  BY <1>1, <1>2, <1>4, <1>5, <1>6, <1>7, RecordStep

\* SetHashes:
LEMMA SetHashesRecord ==
  ASSUME Inv, RecordInv, RecordIsIdeal, NEW g \in Goroutine, SetHashes(g)
  PROVE  RecordInv' /\ RecordIsIdeal'
<1> DEFINE own == Walk(heap, Ref(Record(g)), Own)
           hashes == [sourceHash |-> <<"hash", of[g]>>, recordHash |-> <<"hash", g>>]
<1>1. /\ process = "runs" /\ pc[g] = "setHashes" /\ Busy(g)
      /\ fields' = fields /\ of' = of /\ left' = left /\ body' = body
      /\ overlapped' = overlapped
  BY DEF SetHashes, Busy
<1>2. \/ /\ IsRef(own) /\ heap' = WithHashes(heap, own[2], hashes)
         /\ pc' = [pc EXCEPT ![g] = "put"] /\ process' = process
      \/ ~IsRef(own) /\ process' = "panicked" /\ heap' = heap /\ pc' = pc
  BY DEF SetHashes, WithHashes
<1>3. /\ DOMAIN hashes = {"sourceHash", "recordHash"}
      /\ \A n \in DOMAIN hashes : hashes[n] # Missing /\ ~IsRef(hashes[n])
  BY DEF Missing, IsRef
<1> HIDE DEF own, hashes
<1>4. /\ DOMAIN fields \subseteq ToSet(Sorted)
      /\ pc \in [Goroutine -> {"idle", "map", "hash", "setHashes", "put", "done"}]
      /\ HeapOK(heap) /\ (SharedLiteral \/ Separate(heap)) /\ heap[NilMap] = NoEntry
      /\ NilMap \in DOMAIN heap /\ Record(g) \in DOMAIN heap
  BY <1>1, Finds
<1>5. pc'[g] \in {"setHashes", "put"} /\ \A x \in Goroutine : x # g => pc'[x] = pc[x]
  BY <1>1, <1>2, <1>4
<1>6. ASSUME Plain, process' = "runs"
      PROVE  /\ Ideally(heap, g, of[g], left[g]) => Ideally(heap', g, of[g], left[g])
             /\ IsFiniteSet(DOMAIN heap') /\ LiteralsOK(heap')
  <2>1. IsRef(own) /\ heap' = WithHashes(heap, own[2], hashes)
    BY <1>2, <1>6
  <2>2. ~OwnIsShown /\ ~WritesIntoInput /\ LiteralsOK(heap) /\ IsFiniteSet(DOMAIN heap)
    BY <1>1, <1>6 DEF Plain, RecordInv
  <2>3. /\ Ideally(heap, g, of[g], left[g]) => Ideally(heap', g, of[g], left[g])
        /\ LiteralsOK(heap') /\ DOMAIN heap' = DOMAIN heap
    BY <1>3, <1>4, <2>1, <2>2, HashesIdeally DEF own
  <2>4. QED
    BY <2>2, <2>3
<1>7. Told(g)' /\ Shown(g)'
  <2>1. /\ Ideally(heap, g, of[g], left[g])' <=> Ideally(heap', g, of'[g], left'[g])
        /\ (Plain' <=> Plain) /\ (SharedLiteral' <=> SharedLiteral)
    BY <1>1, RecordFixed
  <2>2. Plain /\ ~(SharedLiteral /\ overlapped[g]) => Ideally(heap, g, of[g], left[g])
    BY <1>1 DEF RecordInv
  <2>3. QED
    BY <1>1, <1>5, <1>6, <2>1, <2>2 DEF Told, Shown
<1>8. /\ process' = "runs" => heap'[NilMap] = heap[NilMap] /\ NilMap \in DOMAIN heap'
      /\ ~SharedLiteral => \A o \in DOMAIN heap :
           o[1] # g /\ o # NilMap => o \in DOMAIN heap' /\ heap'[o] = heap[o]
  <2>1. CASE heap' = heap
    BY <1>4, <2>1
  <2>2. CASE heap' = WithHashes(heap, own[2], hashes) /\ IsRef(own)
    <3>1. /\ DOMAIN heap' = DOMAIN heap /\ own[2] \in DOMAIN heap /\ Mounted("hronir", own[2])
          /\ \A o \in DOMAIN heap : o # own[2] => heap'[o] = heap[o]
      BY <1>3, <1>4, <2>2, SetHashesOK DEF own
    <3>2. own[2] # NilMap
      <4>1. Mounted("hronir", NilMap) => "hronir" = "associations"
        BY NilIsAssociations
      <4>2. QED
        BY <3>1, <4>1
    <3>3. ASSUME ~SharedLiteral PROVE own[2][1] = g
      <4>1. own[2][1] \in {g, "config"} \/ own[2] = NilMap
        <5>1. Separate(heap) /\ Own \in Seq(Names)
          BY <1>4, <3>3, PointerNames
        <5>2. QED
          BY <1>4, <2>2, <5>1, WalkFrame DEF own
      <4>2. own[2][1] # "config"
        <5>1. SUFFICES ASSUME own[2][1] = "config" PROVE FALSE
          OBVIOUS
        <5>2. own[2][2] \in DOMAIN fields /\ fields[own[2][2]].literal = "object"
          BY <1>4, <3>1, <3>3, <5>1 DEF Separate
        <5>3. own[2] = <<"config", own[2][2]>>
          <6>1. own[2] \in (Goroutine \cup {"config", "nil"}) \X Seq(Names)
            BY <1>4, <3>1 DEF HeapOK
          <6>2. QED
            BY <5>1, <6>1
        <5>4. ~Mounted("hronir", <<"config", own[2][2]>>)
          BY <1>4, <3>3, <5>2, NotLiteral
        <5>5. QED
          BY <3>1, <5>3, <5>4
      <4>3. QED
        BY <3>2, <4>1, <4>2
    <3>4. QED
      BY <1>4, <3>1, <3>2, <3>3
  <2>3. QED
    BY <1>2, <2>1, <2>2
<1>9. InOrder(left'[g])
  BY <1>1 DEF RecordInv
<1>10. \A x \in Goroutine : x # g =>
         /\ pc'[x] = pc[x] /\ of'[x] = of[x] /\ left'[x] = left[x] /\ body'[x] = body[x]
         /\ overlapped[x] => overlapped'[x]
         /\ SharedLiteral /\ Busy(x) => overlapped'[x]
  BY <1>1, <1>5, Alone
<1>11. Plain /\ process' = "runs" => IsFiniteSet(DOMAIN heap') /\ LiteralsOK(heap')
  BY <1>6
<1>12. QED
  BY <1>1, <1>7, <1>8, <1>9, <1>10, <1>11, RecordStep

\* A step that changes nothing but, perhaps, whether the process runs.
LEMMA StillRecord ==
  ASSUME RecordInv, RecordIsIdeal, fields' = fields, heap' = heap, pc' = pc, of' = of,
         left' = left, body' = body, overlapped' = overlapped,
         process' = "runs" => process = "runs"
  PROVE  RecordInv' /\ RecordIsIdeal'
<1>1. /\ SharedLiteral' <=> SharedLiteral
      /\ Plain' <=> Plain
      /\ \A x : Disturbed(x)' <=> ~Plain \/ (SharedLiteral /\ overlapped'[x])
      /\ LiteralsOK(heap)' <=> LiteralsOK(heap')
      /\ \A x : InOrder(left[x])' <=> InOrder(left'[x])
      /\ \A x : Ideal(of[x])' = Ideal(of'[x])
      /\ \A x : Ideally(heap, x, of[x], left[x])' <=> Ideally(heap', x, of'[x], left'[x])
      /\ \A x : Pristine(heap, x, of[x], left[x])' <=> Pristine(heap', x, of'[x], left'[x])
  BY RecordFixed
<1>2. \A x : Busy(x)' <=> Busy(x)
  BY DEF Busy
<1>3. ASSUME NEW x \in Goroutine PROVE Told(x)' /\ Shown(x)'
  <2>1. Told(x) /\ Shown(x)
    BY DEF RecordInv, RecordIsIdeal, Told, Shown
  <2>2. Told(x)'
    BY <1>1, <1>2, <2>1 DEF Told
  <2>3. Disturbed(x)' <=> Disturbed(x)
    BY <1>1 DEF Disturbed, Plain
  <2>4. Shown(x)'
    BY <1>1, <2>1, <2>3 DEF Shown
  <2>5. QED
    BY <2>2, <2>4
<1>4. RecordIsIdeal'
  BY <1>3 DEF RecordIsIdeal, Shown
<1>5. RecordInv'
  <2>1. \A p \in DOMAIN fields : fields[p].remove => fields[p].expr = NoExpr
    BY DEF RecordInv
  <2>2. \A x \in Goroutine : InOrder(left[x])'
    BY <1>1 DEF RecordInv
  <2>3. Plain /\ process' = "runs" => IsFiniteSet(DOMAIN heap') /\ LiteralsOK(heap)'
    BY <1>1 DEF RecordInv
  <2>4. ASSUME Plain', process' = "runs", NEW x \in Goroutine, Busy(x)',
               ~(SharedLiteral /\ overlapped[x])'
        PROVE  /\ Ideally(heap, x, of[x], left[x])'
               /\ (pc[x] = "map")' => Pristine(heap, x, of[x], left[x])'
    BY <1>3, <2>4 DEF Told
  <2>5. QED
    BY <1>1, <2>1, <2>2, <2>3, <2>4 DEF RecordInv
<1>6. QED
  BY <1>4, <1>5

\* The invariant is inductive.
LEMMA NextRecord ==
  ASSUME Inv, RecordInv, RecordIsIdeal, [Next]_vars
  PROVE  RecordInv' /\ RecordIsIdeal'
<1>1. ASSUME NEW g \in Goroutine, NEW r \in Resource, StartMap(g, r)
      PROVE  RecordInv' /\ RecordIsIdeal'
  BY <1>1, StartMapRecord
<1>2. ASSUME NEW g \in Goroutine, ApplyField(g) PROVE RecordInv' /\ RecordIsIdeal'
  BY <1>2, ApplyFieldRecord
<1>3. ASSUME NEW g \in Goroutine, MapFails(g) PROVE RecordInv' /\ RecordIsIdeal'
  BY <1>3, GiveUpRecord DEF MapFails, Busy
<1>4. ASSUME NEW g \in Goroutine, SemanticHash(g) PROVE RecordInv' /\ RecordIsIdeal'
  BY <1>4, SemanticHashRecord
<1>5. ASSUME NEW g \in Goroutine, SetHashes(g) PROVE RecordInv' /\ RecordIsIdeal'
  BY <1>5, SetHashesRecord
<1>6. ASSUME NEW g \in Goroutine, Put(g) PROVE RecordInv' /\ RecordIsIdeal'
  BY <1>6, PutRecord
<1>7. ASSUME NEW g \in Goroutine, PutFails(g) PROVE RecordInv' /\ RecordIsIdeal'
  BY <1>7, GiveUpRecord DEF PutFails, Busy
<1>8. ASSUME NEW g \in Goroutine, NEW x \in Goroutine, ConcurrentMapWrites(g, x)
      PROVE  RecordInv' /\ RecordIsIdeal'
  BY <1>8, StillRecord DEF ConcurrentMapWrites
<1>9. CASE UNCHANGED vars
  BY <1>9, StillRecord DEF vars
<1>10. QED
  BY <1>1, <1>2, <1>3, <1>4, <1>5, <1>6, <1>7, <1>8, <1>9 DEF Next

(* What Engine.Map makes of a resource is what the configuration says of     *)
(* that resource alone, for every overlay, however many goroutines map with  *)
(* one Engine, and whatever they mapped before: the record that is put has   *)
(* at each path the value of the longest pointer that leads to it, unless    *)
(* one of the four disturbances applies that Disturbed names.                *)
THEOREM SpecRecordIsIdeal == Spec => []RecordIsIdeal
<1>1. Init => RecordInv /\ RecordIsIdeal
  BY InitRecord
<1>2. Inv /\ RecordInv /\ RecordIsIdeal /\ [Next]_vars => RecordInv' /\ RecordIsIdeal'
  BY NextRecord
<1>3. QED
  BY <1>1, <1>2, SpecInv, PTL DEF Spec

=============================================================================
