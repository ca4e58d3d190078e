--------------------------- MODULE NamespaceProofs ---------------------------
(***************************************************************************)
(* What TLAPS proves of Namespace for any number of clients, calls and     *)
(* faults: every variable keeps its type, and what is known of the two     *)
(* maps of the server.                                                     *)
(***************************************************************************)
EXTENDS Namespace, HandleTableProofs, SequenceTheorems, FiniteSetTheorems

-----------------------------------------------------------------------------
(* Numbers and sequences.                                                   *)

\* A set of numbers has a least member.
LEMMA NatMin == \A T \in SUBSET Nat : T # {} => \E x \in T : \A y \in T : x <= y
<1> SUFFICES ASSUME NEW T \in SUBSET Nat, T # {}
             PROVE  \E x \in T : \A y \in T : x <= y
  OBVIOUS
<1> DEFINE R == OpToRel(<, Nat)
<1>1. \E x \in T : \A y \in T : ~ (<<y, x>> \in R)
  <2>1. IsWellFoundedOn(R, Nat)
    BY NatLessThanWellFounded
  <2> HIDE DEF R
  <2> QED
    BY <2>1, WFMin
<1>2. PICK x \in T : \A y \in T : ~ (<<y, x>> \in R)
  BY <1>1
<1>3. \A y \in T : <<y, x>> \in R <=> y < x
  BY DEF OpToRel
<1> HIDE DEF R
<1>4. \A y \in T : ~(y < x)
  BY <1>2, <1>3, Zenon
<1>5. \A y \in T : x <= y
  BY <1>4
<1> QED
  BY <1>5, x \in T

\* A bounded set of numbers has a greatest member.
LEMMA MaxIn ==
    ASSUME NEW n \in Nat, NEW S \in SUBSET (0 .. n), S # {}
    PROVE  Max(S) \in S /\ \A y \in S : Max(S) >= y
<1> DEFINE T == {n - x : x \in S}
<1>1. T \in SUBSET Nat /\ T # {}
  <2>1. \A x \in S : n - x \in Nat
    OBVIOUS
  <2> QED
    BY <2>1
<1>2. PICK t \in T : \A y \in T : t <= y
  <2> HIDE DEF T
  <2> QED
    BY <1>1, NatMin
<1>3. PICK m \in S : t = n - m
  BY <1>2
<1>4. \A y \in S : m >= y
  <2> SUFFICES ASSUME NEW y \in S
               PROVE  m >= y
    OBVIOUS
  <2>1. n - m <= n - y
    BY <1>2, <1>3
  <2> QED
    BY <2>1
<1> QED
  BY <1>4 DEF Max

\* The members of Node and Path are sequences, and prefixes of nodes are nodes.
LEMMA PathIsSeq ==
    ASSUME NEW p \in Path
    PROVE  p \in Seq(STRING) /\ Len(p) \in Nat
<1>1. p \in Seq(STRING)
  BY NamespaceAssumption, Zenon
<1> QED
  BY <1>1, LenProperties

LEMMA RootIsNode == Root = <<>> /\ Root \in Node /\ Root \in Path /\ Node \subseteq Path
BY NamespaceAssumption, Zenon

LEMMA NodeFacts ==
    ASSUME NEW p \in Node
    PROVE  /\ p \in Path /\ p \in Seq(STRING) /\ Len(p) \in Nat
           /\ \A i \in 0 .. Len(p) : SubSeq(p, 1, i) \in Node
           /\ SubSeq(p, 1, Len(p)) = p /\ SubSeq(p, 1, 0) = Root
           /\ p # Root => /\ Len(p) > 0
                          /\ Front(p) \in Node /\ Len(Front(p)) = Len(p) - 1
                          /\ \A i \in 1 .. Len(p) - 1 : Front(p)[i] = p[i]
<1>1. p \in Path /\ p \in Seq(STRING) /\ Len(p) \in Nat
  BY PathIsSeq, RootIsNode
<1>2. \A i \in 0 .. Len(p) : SubSeq(p, 1, i) \in Node
  BY NamespaceAssumption, Zenon
<1>3. SubSeq(p, 1, Len(p)) = p /\ SubSeq(p, 1, 0) = Root
  <2>1. SubSeq(p, 1, Len(p)) = p
    BY <1>1, SubSeqFull
  <2>2. SubSeq(p, 1, 0) = Root
    BY SubSeqEmpty, RootIsNode
  <2> QED
    BY <2>1, <2>2
<1>4. ASSUME p # Root
      PROVE  /\ Len(p) > 0
             /\ Front(p) \in Node /\ Len(Front(p)) = Len(p) - 1
             /\ \A i \in 1 .. Len(p) - 1 : Front(p)[i] = p[i]
  <2>1. Len(p) > 0
    BY <1>1, <1>4, EmptySeq, RootIsNode
  <2>2. Front(p) \in Node
    BY <1>1, <1>2, <2>1 DEF Front
  <2>3. Len(Front(p)) = Len(p) - 1 /\ \A i \in 1 .. Len(p) - 1 : Front(p)[i] = p[i]
    <3>1. \A i \in 1 .. Len(p) - 1 : p[i] \in STRING
      BY <1>1, <2>1, ElementOfSeq
    <3> DEFINE n == Len(p) - 1
    <3>2. n \in Int /\ 1 \in Int /\ n >= 0
      BY <1>1, <2>1
    <3>3. Front(p) = SubSeq(p, 1, n)
      BY DEF Front
    <3> HIDE DEF n
    <3>4. /\ Len(SubSeq(p, 1, n)) = IF 1 <= n THEN n - 1 + 1 ELSE 0
          /\ \A i \in 1 .. n - 1 + 1 : SubSeq(p, 1, n)[i] = p[1 + i - 1]
      BY <3>1, <3>2, SubSeqProperties DEF n
    <3> DEFINE f == SubSeq(p, 1, n)
    <3> HIDE DEF f
    <3>5. Len(f) = n /\ \A i \in 1 .. n : f[i] = p[i]
      <4>1. Len(f) = n
        BY <3>2, <3>4 DEF f
      <4>2. ASSUME NEW i \in 1 .. n PROVE f[i] = p[i]
        <5>1. i \in 1 .. n - 1 + 1 /\ 1 + i - 1 = i
          BY <3>2
        <5>2. f[i] = p[1 + i - 1]
          BY <3>4, <5>1, Zenon DEF f
        <5> QED
          BY <5>1, <5>2
      <4> QED
        BY <4>1, <4>2
    <3> QED
      BY <3>3, <3>5, Zenon DEF f, n
  <2> QED
    BY <2>1, <2>2, <2>3
<1> QED
  BY <1>1, <1>2, <1>3, <1>4

\* What an entry of a directory is called, and where it is.
LEMMA AppendFacts ==
    ASSUME NEW p \in Seq(STRING), NEW n
    PROVE  Front(Append(p, n)) = p /\ Append(p, n) # Root /\ Last(Append(p, n)) = n
<1> DEFINE S == STRING \cup {n}
<1>1. p \in Seq(S) /\ n \in S /\ Len(p) \in Nat
  BY SeqMonotonic, LenProperties
<1> HIDE DEF S
<1>2. /\ Append(p, n) \in Seq(S)
      /\ Append(p, n) # << >>
      /\ Len(Append(p, n)) = Len(p) + 1
      /\ \A i \in 1 .. Len(p) : Append(p, n)[i] = p[i]
      /\ Append(p, n)[Len(p) + 1] = n
  BY <1>1, AppendProperties
<1>3. SubSeq(Append(p, n), 1, Len(p)) = p
  BY <1>1, <1>2
<1>4. Front(Append(p, n)) = p /\ Last(Append(p, n)) = n
  BY <1>1, <1>2, <1>3 DEF Front, Last
<1> QED
  BY <1>2, <1>4, RootIsNode

\* The first path a client does not know on the way to one it does not know.
Climb(m, g) ==
    SubSeq(g, 1, Max({i \in 0 .. Len(g) : m[SubSeq(g, 1, i)] # NoFh}) + 1)

LEMMA ClimbFacts ==
    ASSUME NEW m, NEW g \in Node, m[Root] # NoFh, m[g] = NoFh
    PROVE  /\ Climb(m, g) \in Node \ {Root} /\ Front(Climb(m, g)) \in Node
           /\ m[Front(Climb(m, g))] # NoFh /\ m[Climb(m, g)] = NoFh
           /\ Len(Climb(m, g)) <= Len(g)
<1> DEFINE S == {i \in 0 .. Len(g) : m[SubSeq(g, 1, i)] # NoFh}
           n == Max(S)
<1>1. 0 \in S /\ Len(g) \notin S /\ Len(g) \in Nat
  <2>1. Len(g) \in Nat /\ SubSeq(g, 1, Len(g)) = g /\ SubSeq(g, 1, 0) = Root
    BY NodeFacts
  <2>2. 0 \in 0 .. Len(g)
    BY <2>1
  <2>3. m[SubSeq(g, 1, 0)] # NoFh /\ m[SubSeq(g, 1, Len(g))] = NoFh
    BY <2>1, Zenon
  <2> QED
    BY <2>1, <2>2, <2>3, Zenon
<1>2. S \in SUBSET (0 .. Len(g))
  OBVIOUS
<1>3. n \in S /\ \A y \in S : n >= y
  <2> HIDE DEF S
  <2> QED
    BY <1>1, <1>2, MaxIn
<1>4. n \in 0 .. Len(g) /\ n # Len(g) /\ n + 1 \in 0 .. Len(g) /\ n + 1 \notin S
  BY <1>1, <1>3
<1> DEFINE u == SubSeq(g, 1, n + 1)
<1>5. u \in Node /\ m[u] = NoFh
  BY <1>4, NodeFacts
<1>6. Len(u) = n + 1 /\ Front(u) = SubSeq(g, 1, n)
  <2> HIDE DEF n
  <2>1. g \in Seq(STRING)
    BY NodeFacts
  <2> QED
    BY <2>1, <1>1, <1>4 DEF Front
<1>7. u # Root
  BY <1>4, <1>6, RootIsNode
<1>8. Front(u) \in Node /\ m[Front(u)] # NoFh
  BY <1>3, <1>4, <1>6, NodeFacts
<1>9. u = Climb(m, g)
  BY DEF Climb
<1>10. Len(u) <= Len(g)
  <2> HIDE DEF u, n
  <2> QED
    BY <1>1, <1>4, <1>6
<1> QED
  BY <1>5, <1>7, <1>8, <1>9, <1>10

-----------------------------------------------------------------------------
(* The exported tree.                                                       *)

\* A prefix is shorter and has the same names.
LEMMA PrefixMeans ==
    ASSUME NEW S, NEW p \in Seq(S), NEW x \in Seq(S)
    PROVE  IsPrefix(p, x) <=> /\ Len(p) <= Len(x)
                              /\ \A i \in 1 .. Len(p) : p[i] = x[i]
<1>1. Len(p) \in Nat /\ Len(x) \in Nat /\ SubSeq(p, 1, Len(p)) = p
  BY LenProperties, SubSeqFull
<1>2. ASSUME Len(p) <= Len(x)
      PROVE  p = SubSeq(x, 1, Len(p)) <=> \A i \in 1 .. Len(p) : p[i] = x[i]
  <2> DEFINE y == SubSeq(x, 1, Len(p))
  <2>1. y \in Seq(S) /\ Len(y) = Len(p) /\ \A i \in 1 .. Len(p) : y[i] = x[i]
    BY <1>1, <1>2
  <2> HIDE DEF y
  <2>2. (\A i \in 1 .. Len(p) : p[i] = y[i]) => p = y
    BY <2>1, SeqEqual
  <2>3. p = y <=> \A i \in 1 .. Len(p) : p[i] = x[i]
    BY <2>1, <2>2
  <2> QED
    BY <2>3 DEF y
<1> QED
  BY <1>1, <1>2 DEF IsPrefix

\* Prefixes of a path and of its parent.
LEMMA PrefixOfFront ==
    ASSUME NEW p \in Node, NEW x \in Node, x # Root
    PROVE  /\ IsPrefix(p, Front(x)) => IsPrefix(p, x)
           /\ IsPrefix(p, x) /\ p # x => IsPrefix(p, Front(x))
           /\ ~IsPrefix(x, Front(x)) /\ IsPrefix(Front(x), x) /\ Front(x) # x
           /\ ~IsPrefix(x, Root)
           /\ IsPrefix(x, x)
<1>1. /\ p \in Seq(STRING) /\ x \in Seq(STRING) /\ Front(x) \in Seq(STRING) /\ Root \in Seq(STRING)
      /\ Len(p) \in Nat /\ Len(x) \in Nat /\ Len(Root) = 0
      /\ Len(x) > 0 /\ Len(Front(x)) = Len(x) - 1
      /\ \A i \in 1 .. Len(x) - 1 : Front(x)[i] = x[i]
  BY NodeFacts, RootIsNode
<1> DEFINE y == Front(x)
<1>2. IsPrefix(p, y) <=> Len(p) <= Len(y) /\ \A i \in 1 .. Len(p) : p[i] = y[i]
  BY <1>1, PrefixMeans
<1>3. IsPrefix(p, x) <=> Len(p) <= Len(x) /\ \A i \in 1 .. Len(p) : p[i] = x[i]
  BY <1>1, PrefixMeans
<1>4. IsPrefix(x, y) => Len(x) <= Len(y)
  BY <1>1, PrefixMeans
<1>5. IsPrefix(x, Root) => Len(x) <= Len(Root)
  BY <1>1, PrefixMeans
<1>6. IsPrefix(x, x)
  BY <1>1 DEF IsPrefix
<1>7. IsPrefix(y, x)
  <2>1. IsPrefix(y, x) <=> Len(y) <= Len(x) /\ \A i \in 1 .. Len(y) : y[i] = x[i]
    BY <1>1, PrefixMeans
  <2> QED
    BY <1>1, <2>1
<1>8. Len(p) = Len(x) /\ (\A i \in 1 .. Len(p) : p[i] = x[i]) => p = x
  BY <1>1, SeqEqual
<1>9. IsPrefix(p, x) /\ p # x => IsPrefix(p, y)
  <2> SUFFICES ASSUME IsPrefix(p, x), p # x
               PROVE  IsPrefix(p, y)
    OBVIOUS
  <2>1. Len(p) <= Len(x) - 1
    BY <1>1, <1>3, <1>8
  <2>2. \A i \in 1 .. Len(p) : p[i] = y[i]
    BY <1>1, <1>3, <2>1
  <2> QED
    BY <1>1, <1>2, <2>1, <2>2
<1>10. IsPrefix(p, y) => IsPrefix(p, x)
  BY <1>1, <1>2, <1>3
<1>11. ~IsPrefix(x, y) /\ ~IsPrefix(x, Root) /\ y # x
  BY <1>1, <1>4, <1>5
<1> QED
  BY <1>6, <1>7, <1>9, <1>10, <1>11

\* Where a rename of p to q puts q and what is below it.
LEMMA MovedFacts ==
    ASSUME NEW p \in Node, NEW q \in Node
    PROVE  /\ FT!Moved(q, q, p) = p
           /\ \A x \in Node : x # Root /\ x # q /\ IsPrefix(q, x) =>
                /\ FT!Moved(x, q, p) # Root
                /\ FT!Moved(x, q, p) \in Node => Front(FT!Moved(x, q, p)) = FT!Moved(Front(x), q, p)
<1>1. /\ p \in Seq(STRING) /\ q \in Seq(STRING)
      /\ Len(p) \in Nat /\ Len(q) \in Nat
  BY NodeFacts
<1>2. FT!Moved(q, q, p) = p
  <2>1. SubSeq(q, Len(q) + 1, Len(q)) = << >>
    BY <1>1, SubSeqEmpty
  <2> QED
    BY <1>1, <2>1, ConcatEmptySeq DEF FT!Moved
<1>3. ASSUME NEW x \in Node, x # Root, x # q, IsPrefix(q, x)
      PROVE  /\ FT!Moved(x, q, p) # Root
             /\ FT!Moved(x, q, p) \in Node => Front(FT!Moved(x, q, p)) = FT!Moved(Front(x), q, p)
  <2>1. /\ x \in Seq(STRING) /\ Len(x) \in Nat /\ Len(x) > 0 /\ Front(x) \in Seq(STRING)
        /\ Len(Front(x)) = Len(x) - 1 /\ \A i \in 1 .. Len(x) - 1 : Front(x)[i] = x[i]
    BY <1>3, NodeFacts
  <2>2. IsPrefix(q, Front(x))
    BY <1>3, PrefixOfFront
  <2>3. Len(q) <= Len(x) - 1
    BY <1>1, <2>1, <2>2, PrefixMeans
  <2> DEFINE n == Len(q)
             m == Len(x)
             s == SubSeq(x, n + 1, m)
             t == SubSeq(Front(x), n + 1, m - 1)
  <2>4. /\ s \in Seq(STRING) /\ Len(s) = m - n /\ \A i \in 1 .. m - n : s[i] = x[n + i]
        /\ t \in Seq(STRING) /\ Len(t) = m - n - 1 /\ \A i \in 1 .. m - n - 1 : t[i] = Front(x)[n + i]
    BY <1>1, <2>1, <2>3
  <2>5. \A i \in 1 .. m - n - 1 : t[i] = s[i]
    BY <1>1, <2>1, <2>3, <2>4
  <2>6. FT!Moved(x, q, p) = p \o s /\ FT!Moved(Front(x), q, p) = p \o t
    BY <2>1 DEF FT!Moved
  <2> HIDE DEF s, t
  <2>7. /\ p \o s \in Seq(STRING) /\ Len(p \o s) = Len(p) + Len(s)
        /\ p \o t \in Seq(STRING) /\ Len(p \o t) = Len(p) + Len(t)
    BY <1>1, <2>4, ConcatProperties
  <2>8. p \o s # Root
    BY <1>1, <2>1, <2>3, <2>4, <2>7, RootIsNode
  <2>9. ASSUME p \o s \in Node
        PROVE  Front(p \o s) = p \o t
    <3>1. /\ Front(p \o s) \in Seq(STRING) /\ Len(Front(p \o s)) = Len(p \o s) - 1
          /\ \A i \in 1 .. Len(p \o s) - 1 : Front(p \o s)[i] = (p \o s)[i]
      BY <2>8, <2>9, NodeFacts
    <3>2. Len(Front(p \o s)) = Len(p \o t)
      BY <1>1, <2>1, <2>3, <2>4, <2>7, <3>1
    <3>3. ASSUME NEW i \in 1 .. Len(p \o t)
          PROVE  Front(p \o s)[i] = (p \o t)[i]
      <4>1. i \in 1 .. Len(p) + Len(s) /\ i \in 1 .. Len(p) + Len(t) /\ i \in 1 .. Len(p \o s) - 1
        BY <1>1, <2>1, <2>3, <2>4, <2>7
      <4>2. /\ (p \o s)[i] = IF i <= Len(p) THEN p[i] ELSE s[i - Len(p)]
            /\ (p \o t)[i] = IF i <= Len(p) THEN p[i] ELSE t[i - Len(p)]
        BY <1>1, <2>4, <4>1, ConcatProperties
      <4>3. ~(i <= Len(p)) => s[i - Len(p)] = t[i - Len(p)]
        <5>1. ~(i <= Len(p)) => i - Len(p) \in 1 .. m - n - 1
          BY <1>1, <2>1, <2>4, <4>1
        <5> QED
          BY <2>5, <5>1
      <4>4. Front(p \o s)[i] = (p \o s)[i]
        BY <3>1, <4>1
      <4> QED
        BY <4>2, <4>3, <4>4
    <3> QED
      BY <2>7, <3>1, <3>2, <3>3, SeqEqual
  <2> QED
    BY <2>6, <2>8, <2>9
<1> QED
  BY <1>2, <1>3


\* FileTree has its own copies of the operators on sequences.
LEMMA SameOperators ==
    /\ \A s : FT!Front(s) = Front(s)
    /\ \A s, t : FT!IsPrefix(s, t) = IsPrefix(s, t)
    /\ \A s, t : FT!IsStrictPrefix(s, t) = (IsPrefix(s, t) /\ s # t)
BY Zenon DEF FT!Front, Front, FT!IsPrefix, IsPrefix, FT!IsStrictPrefix

\* Everything of the tree is in a directory.
Rooted(t) == \A p \in Node \ {Root} : t[p] # "none" => t[Front(p)] = "dir"

\* The tree stays one when a name that nothing is below of is made or removed.
LEMMA PutKeeps ==
    ASSUME NEW t \in FT!Tree, Rooted(t), NEW p \in Node \ {Root}, NEW k \in FT!Kind,
           k # "none" => t[Front(p)] = "dir",
           \A x \in Node \ {Root} : Front(x) = p => t[x] = "none"
    PROVE  [t EXCEPT ![p] = k] \in FT!Tree /\ Rooted([t EXCEPT ![p] = k])
<1> DEFINE u == [t EXCEPT ![p] = k]
<1>1. t \in [Node -> FT!Kind] /\ t[Root] = "dir" /\ p # Root
  BY RootIsNode DEF FT!Tree
<1>2. u \in FT!Tree
  BY <1>1, RootIsNode DEF FT!Tree
<1>3. ASSUME NEW x \in Node \ {Root}, u[x] # "none"
      PROVE  u[Front(x)] = "dir"
  <2>1. Front(x) \in Node /\ Front(x) # x
    BY NodeFacts, PrefixOfFront
  <2>2. CASE x = p
    BY <1>1, <1>3, <2>1, <2>2
  <2>3. CASE x # p
    <3>1. t[x] # "none" /\ t[Front(x)] = "dir"
      BY <1>1, <1>3, <2>3 DEF Rooted
    <3>2. Front(x) # p
      BY <3>1
    <3> QED
      BY <1>1, <2>1, <3>1, <3>2
  <2> QED
    BY <2>2, <2>3
<1> QED
  BY <1>2, <1>3 DEF Rooted

LEMMA RenamedKeeps ==
    ASSUME NEW t \in FT!Tree, Rooted(t), NEW p, NEW q, FT!CanRename(t, p, q)
    PROVE  FT!Renamed(t, p, q) \in FT!Tree /\ Rooted(FT!Renamed(t, p, q))
<1> DEFINE u == FT!Renamed(t, p, q)
<1>1. t \in [Node -> FT!Kind] /\ t[Root] = "dir"
  BY RootIsNode DEF FT!Tree
<1>2. /\ p \in Node \ {Root} /\ t[p] # "none"
      /\ q \in Node \ {Root} /\ t[Front(q)] = "dir"
  BY RootIsNode, SameOperators DEF FT!CanRename, FT!KindOf, FT!Addable
<1>3. CASE p = q
  <2>1. u = [x \in Node |-> t[x]]
    BY <1>3 DEF FT!Renamed
  <2>2. u = t
    BY <1>1, <2>1
  <2> QED
    BY <2>2
<1>4. CASE p # q
  <2>1. ~IsPrefix(p, q) /\ ~IsPrefix(q, p)
    BY <1>4, SameOperators DEF FT!CanRename
  <2>2. \A x \in Node : u[x] = IF IsPrefix(q, x) THEN FT!KindOf(t, FT!Moved(x, q, p))
                               ELSE IF IsPrefix(p, x) THEN "none" ELSE t[x]
    BY <1>4, SameOperators DEF FT!Renamed
  <2>3. u \in FT!Tree
    <3>1. u \in [Node -> FT!Kind]
      BY <1>1 DEF FT!Renamed, FT!KindOf, FT!Kind
    <3>2. u[Root] = "dir"
      BY <1>1, <1>2, <2>2, PrefixOfFront, RootIsNode
    <3> QED
      BY <3>1, <3>2, RootIsNode DEF FT!Tree
  <2>4. ASSUME NEW x \in Node \ {Root}, u[x] # "none"
        PROVE  u[Front(x)] = "dir"
    <3> DEFINE y == Front(x)
    <3>1. y \in Node /\ y # x
      BY NodeFacts, PrefixOfFront
    <3>2. CASE IsPrefix(q, x) /\ x = q
      <4>1. ~IsPrefix(q, y) /\ ~IsPrefix(p, y)
        BY <1>2, <2>1, <3>2, PrefixOfFront
      <4> QED
        BY <1>2, <2>2, <3>1, <3>2, <4>1
    <3>3. CASE IsPrefix(q, x) /\ x # q
      <4> DEFINE z == FT!Moved(x, q, p)
      <4>1. FT!KindOf(t, z) # "none"
        BY <2>2, <2>4, <3>3
      <4>2. z \in Node /\ t[z] # "none"
        BY <4>1 DEF FT!KindOf
      <4>3. z # Root /\ Front(z) = FT!Moved(y, q, p)
        BY <1>2, <3>3, <4>2, MovedFacts
      <4>4. t[Front(z)] = "dir" /\ Front(z) \in Node
        BY <4>2, <4>3, NodeFacts DEF Rooted
      <4>5. IsPrefix(q, y)
        BY <1>2, <3>3, PrefixOfFront
      <4>6. u[y] = FT!KindOf(t, Front(z))
        BY <2>2, <3>1, <4>3, <4>5
      <4> QED
        BY <4>4, <4>6 DEF FT!KindOf
    <3>4. CASE ~IsPrefix(q, x)
      <4>1. ~IsPrefix(p, x) /\ t[x] # "none"
        BY <2>2, <2>4, <3>4
      <4>2. ~IsPrefix(q, y) /\ ~IsPrefix(p, y)
        BY <1>2, <3>4, <4>1, PrefixOfFront
      <4>3. t[y] = "dir"
        BY <4>1 DEF Rooted
      <4> QED
        BY <2>2, <3>1, <4>2, <4>3
    <3> QED
      BY <3>2, <3>3, <3>4
  <2> QED
    BY <2>3, <2>4 DEF Rooted
<1> QED
  BY <1>3, <1>4

\* Every system call that succeeds leaves a tree.
LEMMA EffectKeeps ==
    ASSUME NEW t \in FT!Tree, Rooted(t), NEW a, FT!Succeeds(t, a)
    PROVE  FT!Effect(t, a) \in FT!Tree /\ Rooted(FT!Effect(t, a))
<1>1. t \in [Node -> FT!Kind] /\ t[Root] = "dir"
  BY RootIsNode DEF FT!Tree
<1> DEFINE p == a.path
<1>2. CASE a.cb \in {"mkdir", "create"}
  <2>1. p \in Node \ {Root} /\ t[Front(p)] = "dir" /\ t[p] # "dir"
    BY <1>2, RootIsNode, SameOperators DEF FT!Succeeds, FT!Addable
  <2>2. \A x \in Node \ {Root} : Front(x) = p => t[x] = "none"
    BY <2>1 DEF Rooted
  <2>3. \A k \in FT!Kind : [t EXCEPT ![p] = k] \in FT!Tree /\ Rooted([t EXCEPT ![p] = k])
    BY <2>1, <2>2, PutKeeps
  <2>4. FT!Effect(t, a) \in {[t EXCEPT ![p] = "dir"], [t EXCEPT ![p] = "file"]}
    BY <1>2 DEF FT!Effect
  <2> QED
    BY <2>3, <2>4 DEF FT!Kind
<1>3. CASE a.cb \in {"rmdir", "unlink"}
  <2>1. /\ p \in Node \ {Root} /\ t[p] # "none"
        /\ t[p] = "file" \/ FT!Inside(t, p) = {}
    BY <1>1, <1>3, RootIsNode DEF FT!Succeeds, FT!KindOf
  <2>2. ASSUME NEW x \in Node \ {Root}, Front(x) = p
        PROVE  t[x] = "none"
    <3>1. IsPrefix(p, x) /\ p # x
      BY <2>1, <2>2, PrefixOfFront
    <3>2. CASE t[p] = "file"
      BY <2>2, <3>2 DEF Rooted
    <3>3. CASE FT!Inside(t, p) = {}
      BY <3>1, <3>3, SameOperators DEF FT!Inside
    <3> QED
      BY <2>1, <3>2, <3>3
  <2>3. FT!Effect(t, a) = [t EXCEPT ![p] = "none"]
    BY <1>3 DEF FT!Effect
  <2>4. "none" \in FT!Kind
    BY DEF FT!Kind
  <2> QED
    BY <2>1, <2>2, <2>3, <2>4, PutKeeps
<1>4. CASE a.cb = "rename"
  <2>1. FT!CanRename(t, p, a.to) /\ FT!Effect(t, a) = FT!Renamed(t, p, a.to)
    BY <1>4 DEF FT!Succeeds, FT!Effect
  <2> QED
    BY <2>1, RenamedKeeps
<1> QED
  BY <1>2, <1>3, <1>4 DEF FT!Succeeds


-----------------------------------------------------------------------------
(* The tables the handlers make.                                            *)

\* The values of a function on a finite set are finitely many.
LEMMA ImageFinite ==
    ASSUME NEW S, IsFiniteSet(S), NEW f, f \in [S -> {f[x] : x \in S}]
    PROVE  IsFiniteSet({f[x] : x \in S})
<1>1. f \in Surjection(S, {f[x] : x \in S})
  BY DEF Surjection
<1> QED
  BY <1>1, FS_Surjection

\* The entries that readdir finds are finitely many.
LEMMA EntriesFinite ==
    ASSUME NEW p, NEW q
    PROVE  IsFiniteSet({Append(p, n) : n \in Entries(q)})
<1> DEFINE X == {x \in FT!Inside(tree, q) : Front(x) = q}
           f == [x \in X |-> Last(x)]
           E == Entries(q)
           g == [n \in E |-> Append(p, n)]
<1>1. IsFiniteSet(X)
  <2>1. IsFiniteSet(Node)
    BY NamespaceAssumption, Zenon
  <2>2. X \in SUBSET Node
    BY DEF FT!Inside
  <2> HIDE DEF X
  <2> QED
    BY <2>1, <2>2, FS_Subset
<1>2. IsFiniteSet({f[x] : x \in X})
  <2>1. f \in [X -> {f[x] : x \in X}]
    OBVIOUS
  <2> HIDE DEF X, f
  <2> QED
    BY <1>1, <2>1, ImageFinite
<1>3. E = {".", ".."} \cup {f[x] : x \in X}
  BY DEF Entries
<1>4. IsFiniteSet({".", ".."})
  <2>1. IsFiniteSet({"."}) /\ {".", ".."} = {"."} \cup {".."}
    BY FS_Singleton
  <2> QED
    BY <2>1, FS_AddElement
<1>5. IsFiniteSet(E)
  <2> DEFINE I == {f[x] : x \in X}
  <2> HIDE DEF I, E
  <2>1. E = {".", ".."} \cup I /\ IsFiniteSet(I)
    BY <1>2, <1>3 DEF I
  <2> QED
    BY <1>4, <2>1, FS_Union
<1>6. IsFiniteSet({g[n] : n \in E})
  <2>1. g \in [E -> {g[n] : n \in E}]
    OBVIOUS
  <2> HIDE DEF E, g
  <2> QED
    BY <1>5, <2>1, ImageFinite
<1>7. {g[n] : n \in E} = {Append(p, n) : n \in Entries(q)}
  OBVIOUS
<1> QED
  BY <1>6, <1>7, Zenon

\* The paths of P that table t does not have, and the handles they get.
Fresh(t, P) == {p \in P : ~Mapped(t, p)}
Numbers(t, P) == t.fhcount .. t.fhcount + Cardinality(Fresh(t, P)) - 1

\* A readdir gives the new paths the next handles, one each.
LEMMA AddAllFacts ==
    ASSUME NEW t \in Table, NEW P \in SUBSET Path, IsFiniteSet(P)
    PROVE  LET u == AddAll(t, P) IN
           /\ u.fhcount = t.fhcount + Cardinality(Fresh(t, P)) /\ u.fhcount \in Nat
           /\ Cardinality(Fresh(t, P)) \in Nat
           /\ u.pathToFh = [p \in Path |-> u.pathToFh[p]] /\ u.fhToPath = [h \in Fh |-> u.fhToPath[h]]
           /\ \A p \in Path :
                IF p \in Fresh(t, P)
                THEN /\ u.pathToFh[p] \in Numbers(t, P)
                     /\ u.pathToFh[p] \in Fh => u.fhToPath[u.pathToFh[p]] = p
                ELSE u.pathToFh[p] = t.pathToFh[p]
           /\ \A h \in Fh :
                IF h \in Numbers(t, P)
                THEN u.fhToPath[h] \in Fresh(t, P) /\ u.pathToFh[u.fhToPath[h]] = h
                ELSE u.fhToPath[h] = t.fhToPath[h]
           /\ u = [pathToFh |-> u.pathToFh, fhToPath |-> u.fhToPath, fhcount |-> u.fhcount]
<1> DEFINE new == Fresh(t, P)
           n == Cardinality(new)
           next == Numbers(t, P)
           number == CHOOSE f \in Bijection(new, next) : TRUE
           u == AddAll(t, P)
<1>1. IsFiniteSet(new) /\ n \in Nat /\ new \subseteq Path
  <2>1. new \in SUBSET P
    BY DEF Fresh
  <2> HIDE DEF new
  <2>2. IsFiniteSet(new)
    BY <2>1, FS_Subset
  <2> QED
    BY <2>1, <2>2, FS_CardinalityType
<1>2. t.fhcount \in Nat
  BY DEF Table
<1>3. IsFiniteSet(next) /\ Cardinality(next) = n
  <2> DEFINE a == t.fhcount
             b == t.fhcount + n - 1
  <2>1. a \in Int /\ b \in Int /\ next = a .. b /\ (a > b => n = 0) /\ (~(a > b) => b - a + 1 = n)
    BY <1>1, <1>2 DEF Numbers
  <2> HIDE DEF a, b, next, n
  <2>2. IsFiniteSet(a .. b) /\ Cardinality(a .. b) = IF a > b THEN 0 ELSE b - a + 1
    BY <2>1, FS_Interval
  <2> QED
    BY <2>1, <2>2
<1>4. number \in Bijection(new, next)
  <2> HIDE DEF new, next, n
  <2>1. ExistsBijection(new, next)
    BY <1>1, <1>3, FS_SameCardinalityBij DEF n
  <2>2. Bijection(new, next) # {}
    BY <2>1 DEF ExistsBijection
  <2> QED
    BY <2>2
<1> HIDE DEF number
<1>5. /\ \A p \in new : number[p] \in next
      /\ \A p, q \in new : number[p] = number[q] => p = q
      /\ \A h \in next : \E p \in new : number[p] = h
  <2> HIDE DEF new, next
  <2> QED
    BY <1>4 DEF Bijection, Injection, Surjection, IsInjective
<1>6. u = [pathToFh |-> [p \in Path |-> IF p \in new THEN number[p] ELSE t.pathToFh[p]],
           fhToPath |-> [h \in Fh |-> IF h \in next THEN CHOOSE p \in new : number[p] = h
                                      ELSE t.fhToPath[h]],
           fhcount  |-> t.fhcount + n]
  BY DEF AddAll, Fresh, Numbers, number
<1> HIDE DEF new, next, n, u
<1>7. \A h \in next : LET p == CHOOSE p \in new : number[p] = h IN p \in new /\ number[p] = h
  BY <1>5
<1>8. ASSUME NEW p \in Path
      PROVE  IF p \in new
             THEN /\ u.pathToFh[p] \in next
                  /\ u.pathToFh[p] \in Fh => u.fhToPath[u.pathToFh[p]] = p
             ELSE u.pathToFh[p] = t.pathToFh[p]
  <2>1. u.pathToFh[p] = IF p \in new THEN number[p] ELSE t.pathToFh[p]
    BY <1>6
  <2>2. ASSUME p \in new, number[p] \in Fh
        PROVE  u.fhToPath[number[p]] = p
    <3>1. number[p] \in next
      BY <1>5, <2>2
    <3>2. u.fhToPath[number[p]] = CHOOSE q \in new : number[q] = number[p]
      BY <1>6, <2>2, <3>1
    <3> QED
      BY <1>5, <1>7, <2>2, <3>1, <3>2
  <2> QED
    BY <1>5, <2>1, <2>2
<1>9. ASSUME NEW h \in Fh
      PROVE  IF h \in next
             THEN u.fhToPath[h] \in new /\ u.pathToFh[u.fhToPath[h]] = h
             ELSE u.fhToPath[h] = t.fhToPath[h]
  <2>1. u.fhToPath[h] = IF h \in next THEN CHOOSE p \in new : number[p] = h ELSE t.fhToPath[h]
    BY <1>6
  <2>2. ASSUME h \in next
        PROVE  u.fhToPath[h] \in new /\ u.pathToFh[u.fhToPath[h]] = h
    <3>1. u.fhToPath[h] \in new /\ number[u.fhToPath[h]] = h
      BY <1>7, <2>1, <2>2
    <3>2. u.pathToFh[u.fhToPath[h]] = number[u.fhToPath[h]]
      BY <1>1, <1>6, <3>1
    <3> QED
      BY <3>1, <3>2
  <2> QED
    BY <2>1, <2>2
<1>10. u.fhcount = t.fhcount + n /\ u.fhcount \in Nat
  BY <1>1, <1>2, <1>6
<1>11. u = [pathToFh |-> u.pathToFh, fhToPath |-> u.fhToPath, fhcount |-> u.fhcount]
  BY <1>6
<1>12. u.pathToFh = [p \in Path |-> u.pathToFh[p]] /\ u.fhToPath = [h \in Fh |-> u.fhToPath[h]]
  BY <1>6
<1> QED
  BY <1>1, <1>8, <1>9, <1>10, <1>11, <1>12 DEF new, next, n, u

\* What AddAllFacts says of the table, for its type.
LEMMA AddAllShape ==
    ASSUME NEW t \in Table, NEW P \in SUBSET Path, IsFiniteSet(P)
    PROVE  LET u == AddAll(t, P) IN
           /\ u.fhcount = t.fhcount + Cardinality(Fresh(t, P)) /\ u.fhcount \in Nat
           /\ Cardinality(Fresh(t, P)) \in Nat
           /\ u.pathToFh = [p \in Path |-> u.pathToFh[p]] /\ u.fhToPath = [h \in Fh |-> u.fhToPath[h]]
           /\ \A p \in Path : u.pathToFh[p] \in Numbers(t, P) \/ u.pathToFh[p] = t.pathToFh[p]
           /\ \A h \in Fh : u.fhToPath[h] \in Fresh(t, P) \/ u.fhToPath[h] = t.fhToPath[h]
           /\ u = [pathToFh |-> u.pathToFh, fhToPath |-> u.fhToPath, fhcount |-> u.fhcount]
BY AddAllFacts

\* The table after a readdir, or after a part of one, has its type.
LEMMA AddAllType ==
    ASSUME NEW t \in Table, NEW P \in SUBSET Path, IsFiniteSet(P),
           AddAll(t, P).fhcount - 1 \in Fh \/ AddAll(t, P).fhcount \in Fh
    PROVE  AddAll(t, P) \in Table
<1> DEFINE u == AddAll(t, P)
           new == Fresh(t, P)
           next == Numbers(t, P)
<1>1. /\ u.fhcount = t.fhcount + Cardinality(new) /\ u.fhcount \in Nat
      /\ Cardinality(new) \in Nat
      /\ u.pathToFh = [p \in Path |-> u.pathToFh[p]] /\ u.fhToPath = [h \in Fh |-> u.fhToPath[h]]
      /\ \A p \in Path : u.pathToFh[p] \in next \/ u.pathToFh[p] = t.pathToFh[p]
      /\ \A h \in Fh : u.fhToPath[h] \in new \/ u.fhToPath[h] = t.fhToPath[h]
      /\ u = [pathToFh |-> u.pathToFh, fhToPath |-> u.fhToPath, fhcount |-> u.fhcount]
  BY AddAllShape, Zenon
<1>2. new \subseteq Path
  BY DEF Fresh
<1>3. next \subseteq Fh
  BY <1>1, MaxFhAssumption DEF Numbers, Fh, Table
<1> HIDE DEF u, new, next
<1>4. u.pathToFh \in PathMap
  <2>1. \A p \in Path : u.pathToFh[p] \in Fh \cup {NoFh}
    BY <1>1, <1>3 DEF Table, PathMap
  <2> QED
    BY <1>1, <2>1 DEF PathMap
<1>5. u.fhToPath \in FhMap
  <2>1. \A h \in Fh : u.fhToPath[h] \in Path \cup {NoPath}
    BY <1>1, <1>2 DEF Table, FhMap
  <2> QED
    BY <1>1, <2>1 DEF FhMap
<1> QED
  BY <1>1, <1>4, <1>5 DEF Table, u

\* The other tables a handler makes.
LEMMA WithDirType ==
    ASSUME NEW t \in Table, NEW h \in Fh
    PROVE  WithDir(t, h) \in Table /\ WithDir(t, h).fhToPath[h] \in Path
BY RootIsNode DEF WithDir, Table, FhMap, Known

LEMMA OverType ==
    ASSUME NEW t \in Table, NEW r \in Request, <<r.name>> \in Path
    PROVE  Over(t, r) \in Table
BY DEF Over, Table, PathMap, FhMap, Request

LEMMA GoneType ==
    ASSUME NEW t \in Table, NEW r
    PROVE  Gone(t, r) \in Table
BY DEF Gone, Table, PathMap, FhMap


-----------------------------------------------------------------------------
(* What a client knows between two steps.                                   *)

Rpc == [phase : {"none", "sent", "replied", "failed"}, req : Request, rep : Response]

\* The system call of a client is one an application may ask for.
Asking(c) ==
    /\ sys[c].cb \in {"mkdir", "rmdir", "create", "unlink", "rename"} => sys[c].path # Root
    /\ sys[c].excl => sys[c].cb = "create"
    /\ sys[c].path \in load.target
    /\ IF sys[c].cb = "rename"
       THEN /\ sys[c].to # Root /\ sys[c].to \in load.target /\ Front(sys[c].to) \in load.into
            /\ ~IsPrefix(sys[c].path, sys[c].to) /\ ~IsPrefix(sys[c].to, sys[c].path)
       ELSE sys[c].to = Root

\* The request under way is the one the client would send now.
InDoing(c) ==
    \/ Handle(c) = NoFh /\ call[c].req = LookupRequest(c)
    \/ /\ Handle(c) # NoFh /\ call[c].req = CallRequest(c)
       /\ Callback(c).cb = "rename" => fromfh[c] # NoFh

ClientFits(c) ==
    /\ pathtofh[c][Root] = 0
    /\ sys[c] = NoCall => todo[c] = <<>> /\ fromfh[c] = NoFh /\ call[c].phase = "none" /\ c \notin did
    /\ sys[c] # NoCall => Asking(c)
    /\ fromfh[c] # NoFh => todo[c] = <<>> /\ sys[c].cb = "rename"
    /\ call[c].phase # "none" => InDoing(c)

Shape == \A c \in Client : ClientFits(c)

\* What the type invariant says of the calls, and of the workload.
LEMMA LoadFacts ==
    ASSUME TypeOK
    PROVE  /\ load.asks \in [Client -> Nat] /\ load.use \subseteq FT!Calls
           /\ load.target \subseteq Node /\ load.into \subseteq Node /\ load.excl \subseteq BOOLEAN
           /\ load.lost \in Nat /\ load.crash \in Nat /\ load.torn \in Nat
<1>1. load \in Bounds
  BY NamespaceAssumption, Zenon DEF TypeOK
<1> QED
  BY <1>1 DEF Bounds, FT!Calls

\* The callback in progress is a call on paths that make sense for it, and it
\* works on a path of the tree.
LEMMA GoalFacts ==
    ASSUME TypeOK, NEW c \in Client, ClientFits(c), sys[c] # NoCall
    PROVE  /\ Callback(c) \in FT!Asked /\ Goal(c) \in Node
           /\ Callback(c).cb \in {"mkdir", "create"} => Callback(c).path # Root
           /\ Callback(c).cb = "rename" => Callback(c).to # Root
           /\ todo[c] # <<>> => Head(todo[c]) \in Node /\ Goal(c) = Head(todo[c])
                                /\ Callback(c).cb = "getattr"
<1>1. sys[c] \in FT!Asked /\ todo[c] \in Seq(Node)
  BY DEF TypeOK
<1>2. CASE todo[c] # <<>>
  <2>1. Head(todo[c]) \in Node
    BY <1>1, <1>2, HeadTailProperties
  <2>2. Callback(c) = [cb |-> "getattr", path |-> Head(todo[c]), to |-> Root, excl |-> FALSE]
    BY <1>2 DEF Callback
  <2>3. Goal(c) = Head(todo[c])
    BY <2>2 DEF Goal
  <2> QED
    BY <1>2, <2>1, <2>2, <2>3, RootIsNode DEF FT!Asked, FT!Calls
<1>3. CASE todo[c] = <<>>
  <2>1. Callback(c) = sys[c] /\ Asking(c)
    BY <1>3 DEF Callback, ClientFits
  <2>2. /\ sys[c].cb \in {"mkdir", "create"} => sys[c].path # Root
        /\ sys[c].cb = "rename" => sys[c].to # Root
    BY <2>1 DEF Asking
  <2>3. sys[c].path \in Node /\ sys[c].to \in Node
    BY <1>1 DEF FT!Asked
  <2>4. /\ sys[c].cb \in {"mkdir", "create"} => Front(sys[c].path) \in Node
        /\ sys[c].cb = "rename" => Front(sys[c].to) \in Node
    BY <2>2, <2>3, NodeFacts
  <2>5. Goal(c) \in Node
    BY <2>1, <2>3, <2>4 DEF Goal
  <2> QED
    BY <1>1, <1>3, <2>1, <2>2, <2>5
<1> QED
  BY <1>2, <1>3

\* Names of the paths.
LEMMA NameIsName ==
    ASSUME NEW p \in Path, p # Root
    PROVE  Last(p) \in Names
BY DEF Names

\* The requests of a client have their types, and a lookup asks for the first path
\* it does not know.
LEMMA LookupFacts ==
    ASSUME TypeOK, NEW c \in Client, ClientFits(c), sys[c] # NoCall, Handle(c) = NoFh
    PROVE  /\ LookupRequest(c) \in Request
           /\ Unknown(c) \in Node \ {Root} /\ Front(Unknown(c)) \in Node
           /\ pathtofh[c][Front(Unknown(c))] \in Fh /\ pathtofh[c][Unknown(c)] = NoFh
           /\ LookupRequest(c).command = "lookup" /\ LookupRequest(c).name = Last(Unknown(c))
           /\ LookupRequest(c).fh = pathtofh[c][Front(Unknown(c))]
           /\ Len(Unknown(c)) <= Len(Goal(c))
<1>1. Goal(c) \in Node /\ pathtofh[c] \in PathMap
  BY GoalFacts DEF TypeOK
<1>2. pathtofh[c][Root] # NoFh /\ pathtofh[c][Goal(c)] = NoFh
  BY DEF ClientFits, Handle, NoFh
<1>3. Unknown(c) = Climb(pathtofh[c], Goal(c))
  BY DEF Unknown, Climb
<1>4. /\ Unknown(c) \in Node \ {Root} /\ Front(Unknown(c)) \in Node
      /\ pathtofh[c][Front(Unknown(c))] # NoFh /\ pathtofh[c][Unknown(c)] = NoFh
      /\ Len(Unknown(c)) <= Len(Goal(c))
  BY <1>1, <1>2, <1>3, ClimbFacts
<1>5. pathtofh[c][Front(Unknown(c))] \in Fh
  BY <1>1, <1>4, RootIsNode DEF PathMap
<1>6. Last(Unknown(c)) \in Names
  BY <1>4, NameIsName, RootIsNode
<1>7. LookupRequest(c) = [command |-> "lookup", fh |-> pathtofh[c][Front(Unknown(c))], todirfh |-> 0,
                          name |-> Last(Unknown(c)), path |-> Root, excl |-> FALSE]
  <2> DEFINE h == pathtofh[c][Front(Unknown(c))]
             n == Last(Unknown(c))
  <2>1. LookupRequest(c) = [NoRequest EXCEPT !.command = "lookup", !.name = n, !.fh = h]
    BY DEF LookupRequest
  <2> HIDE DEF h, n
  <2>2. LookupRequest(c) = [command |-> "lookup", fh |-> h, todirfh |-> 0, name |-> n,
                            path |-> Root, excl |-> FALSE]
    BY <2>1 DEF NoRequest
  <2> QED
    BY <2>2 DEF h, n
<1>8. 0 \in Fh
  BY MaxFhAssumption DEF Fh
<1> QED
  BY <1>4, <1>5, <1>6, <1>7, <1>8, RootIsNode DEF Request

LEMMA CallFacts ==
    ASSUME TypeOK, NEW c \in Client, ClientFits(c), sys[c] # NoCall, Handle(c) # NoFh,
           Callback(c).cb = "rename" => fromfh[c] # NoFh
    PROVE  /\ CallRequest(c) \in Request
           /\ CallRequest(c).command = Callback(c).cb
           /\ Callback(c).cb \in {"mkdir", "create"} =>
                CallRequest(c).name = Last(Callback(c).path) /\ CallRequest(c).fh = Handle(c)
           /\ Callback(c).cb = "rename" =>
                /\ CallRequest(c).name = Last(Callback(c).to)
                /\ CallRequest(c).fh = fromfh[c] /\ CallRequest(c).todirfh = Handle(c)
           /\ Callback(c).cb # "rename" => CallRequest(c).fh = Handle(c)
           /\ Callback(c).cb = "getattr" => CallRequest(c).path = Spelt(Callback(c).path)
           /\ CallRequest(c).excl = Callback(c).excl
           /\ CallRequest(c).command # "lookup"
<1> DEFINE k == Callback(c)
<1>1. k \in FT!Asked /\ Goal(c) \in Node
  BY GoalFacts
<1>2. Handle(c) \in Fh
  BY <1>1, RootIsNode DEF Handle, TypeOK, PathMap
<1>3. k.path \in Node /\ k.to \in Node /\ k.cb \in FT!Calls /\ k.excl \in BOOLEAN
  BY <1>1 DEF FT!Asked
<1>4. NameIn(k) \in Names
  <2>1. k.cb \in {"mkdir", "create"} => Last(k.path) \in Names
    BY <1>3, GoalFacts, NameIsName, RootIsNode
  <2>2. k.cb = "rename" => Last(k.to) \in Names
    BY <1>3, GoalFacts, NameIsName, RootIsNode
  <2> QED
    BY <2>1, <2>2 DEF NameIn, Names
<1>5. Spelt(k.path) \in Path
  <2>1. <<"">> \in Path
    BY NamespaceAssumption, Zenon
  <2> QED
    BY <1>3, <2>1, RootIsNode DEF Spelt
<1>6. k.cb = "rename" => fromfh[c] \in Fh
  BY DEF TypeOK
<1>7. 0 \in Fh
  BY MaxFhAssumption DEF Fh
<1>8. CallRequest(c) = [command |-> k.cb, fh |-> IF k.cb = "rename" THEN fromfh[c] ELSE Handle(c),
                        todirfh |-> IF k.cb = "rename" THEN Handle(c) ELSE 0,
                        name |-> NameIn(k),
                        path |-> IF k.cb = "getattr" THEN Spelt(k.path) ELSE Root,
                        excl |-> k.excl]
  BY DEF CallRequest, NoRequest
<1>9. CallRequest(c) \in Request
  BY <1>2, <1>3, <1>4, <1>5, <1>6, <1>7, <1>8, RootIsNode DEF Request
<1>10. k.cb # "lookup"
  BY <1>3 DEF FT!Calls
<1>11. /\ k.cb \in {"mkdir", "create"} => NameIn(k) = Last(k.path)
       /\ k.cb = "rename" => NameIn(k) = Last(k.to)
  BY DEF NameIn
<1> HIDE DEF k
<1> QED
  BY <1>8, <1>9, <1>10, <1>11 DEF k


-----------------------------------------------------------------------------
(* The types of what the server does.                                       *)

\* What a step may do to the calls when no client takes part: the requests stay,
\* and none is made or taken away.
CallsGoOn ==
    /\ call' \in [Client -> Rpc]
    /\ \A c \in Client : /\ call'[c].req = call[c].req
                         /\ call'[c].phase = "none" <=> call[c].phase = "none"

LEMMA ReplyFacts ==
    ASSUME TypeOK, NEW c \in Client, call[c].phase = "sent", NEW rep \in Response, Reply(c, rep)
    PROVE  /\ CallsGoOn
           /\ call'[c] = [phase |-> "replied", req |-> call[c].req, rep |-> rep]
           /\ \A d \in Client : d # c => call'[d] = call[d]
<1>1. call \in [Client -> Rpc]
  BY DEF TypeOK, Rpc
<1>2. call'[c] = [phase |-> "replied", req |-> call[c].req, rep |-> rep]
  BY <1>1 DEF Reply, Rpc
<1>3. \A d \in Client : d # c => call'[d] = call[d]
  BY <1>1 DEF Reply
<1>4. call' = [d \in Client |-> call'[d]]
  BY <1>1 DEF Reply
<1>5. \A d \in Client : call'[d] \in Rpc
  BY <1>1, <1>2, <1>3 DEF Rpc
<1> QED
  BY <1>2, <1>3, <1>4, <1>5 DEF CallsGoOn

LEMMA ThrowFacts ==
    ASSUME TypeOK, NEW c \in Client, call[c].phase # "none", Throw(c)
    PROVE  /\ CallsGoOn
           /\ call'[c] = [phase |-> "failed", req |-> call[c].req, rep |-> call[c].rep]
           /\ \A d \in Client : d # c => call'[d] = call[d]
<1>1. call \in [Client -> Rpc]
  BY DEF TypeOK, Rpc
<1>2. call'[c] = [phase |-> "failed", req |-> call[c].req, rep |-> call[c].rep]
  BY <1>1 DEF Throw, Rpc
<1>3. \A d \in Client : d # c => call'[d] = call[d]
  BY <1>1 DEF Throw
<1>4. call' = [d \in Client |-> call'[d]]
  BY <1>1 DEF Throw
<1>5. \A d \in Client : call'[d] \in Rpc
  BY <1>1, <1>2, <1>3 DEF Rpc
<1> QED
  BY <1>2, <1>3, <1>4, <1>5 DEF CallsGoOn

\* The answers have their type.
LEMMA ResponseTypes ==
    /\ NoResponse \in Response /\ Refused \in Response
    /\ \A h \in Fh : [NoResponse EXCEPT !.fh = h] \in Response
    /\ \A k \in FT!Kind : [NoResponse EXCEPT !.kind = k] \in Response
BY MaxFhAssumption DEF NoResponse, Refused, Response, Fh, FT!Kind

\* A step that leaves the numbering within the table has room for what it adds.
LEMMA RoomToAdd ==
    ASSUME NEW t \in Table, NEW p \in Path, AddLookup(t, p).fhcount - 1 \in Fh
    PROVE  Mapped(t, p) \/ t.fhcount \in Fh
<1>1. CASE ~Mapped(t, p)
  <2>1. AddLookup(t, p).fhcount = t.fhcount + 1 /\ t.fhcount \in Nat
    BY <1>1 DEF AddLookup, Table
  <2>2. t.fhcount = AddLookup(t, p).fhcount - 1
    BY <2>1
  <2> QED
    BY <2>2
<1> QED
  BY <1>1

\* Every name is the name of an entry of the root.
LEMMA NameInRoot ==
    ASSUME NEW n \in Names
    PROVE  <<n>> \in Path
<1>1. <<"">> \in Path
  BY NamespaceAssumption, Zenon
<1>2. ASSUME NEW p \in Path, p # Root
      PROVE  <<Last(p)>> \in Path
  <2>1. p \in Seq(STRING) /\ Len(p) > 0 /\ Len(p) \in Nat
    BY <1>2, PathIsSeq, EmptySeq, RootIsNode
  <2>2. Len(p) \in DOMAIN p
    BY <2>1
  <2>3. <<p[Len(p)]>> \in Path
    BY <2>2, NamespaceAssumption, Zenon
  <2> QED
    BY <2>3 DEF Last
<1> QED
  BY <1>1, <1>2 DEF Names

\* The tables findLookup leaves in a rename.
LEMMA SeenTypes ==
    ASSUME TypeOK, NEW r \in Request
    PROVE  /\ Seen(r) \in Table /\ SeenDir(r) \in Table /\ SeenBoth(r) \in Table
           /\ Resolves(table, log, r.fh) => PathOf(table, log, r.fh) \in Path
BY FoundType, PathOfType DEF TypeOK, Seen, SeenDir, SeenBoth, Request

\* A handler leaves a table, files and a tree, and an answer.
Handled(c) ==
    /\ table' \in Table /\ log' \in Log
    /\ tree' \in FT!Tree /\ Rooted(tree')
    /\ did \subseteq did' /\ did' \subseteq did \cup {c}
    /\ CallsGoOn

LEMMA PerformFacts ==
    ASSUME TypeOK, NEW c \in Client, NEW a, FT!Succeeds(tree, a), Perform(c, a)
    PROVE  tree' \in FT!Tree /\ Rooted(tree') /\ did \subseteq did' /\ did' \subseteq did \cup {c}
<1>1. tree \in FT!Tree /\ Rooted(tree)
  BY DEF TypeOK, Rooted
<1>2. tree' = FT!Effect(tree, a) /\ did' = did \cup {c}
  BY DEF Perform
<1>3. FT!Effect(tree, a) \in FT!Tree /\ Rooted(FT!Effect(tree, a))
  BY <1>1, EffectKeeps
<1> QED
  BY <1>2, <1>3

LEMMA NotPerformedFacts ==
    ASSUME TypeOK, NotPerformed, NEW c
    PROVE  tree' \in FT!Tree /\ Rooted(tree') /\ did \subseteq did' /\ did' \subseteq did \cup {c}
BY DEF TypeOK, NotPerformed, Rooted

LEMMA ServeTypes ==
    ASSUME TypeOK, NEW c \in Client, call[c].phase = "sent", NEW r \in Request,
           Serve(c, r), table'.fhcount - 1 \in Fh
    PROVE  Handled(c)
<1>1. table \in Table /\ log \in Log /\ r.fh \in Fh /\ r.path \in Path /\ r.name \in Names
  BY DEF TypeOK, Request
<1>2. CASE ServeLookup(c, r)
  <2> DEFINE t == WithDir(table, r.fh)
             p == Append(t.fhToPath[r.fh], r.name)
  <2>1. t \in Table
    BY <1>1, WithDirType
  <2>2. p \in Path /\ table' = AddLookup(t, p) /\ log' = LogAfterAdd(t, log, p)
    BY <1>2 DEF ServeLookup, Looked
  <2> HIDE DEF t, p
  <2>3. Mapped(t, p) \/ t.fhcount \in Fh
    BY <2>1, <2>2, RoomToAdd
  <2>4. AddLookup(t, p) \in Table /\ AddLookup(t, p).pathToFh[p] \in Fh
    BY <2>1, <2>2, <2>3, AddLookupType
  <2>5. log' \in Log
    BY <1>1, <2>1, <2>2, <2>3, LogAfterAddType
  <2>6. CallsGoOn
    <3>1. Reply(c, [NoResponse EXCEPT !.fh = AddLookup(t, p).pathToFh[p]])
      BY <1>2 DEF ServeLookup, Looked, t, p
    <3>2. [NoResponse EXCEPT !.fh = AddLookup(t, p).pathToFh[p]] \in Response
      BY <2>4, ResponseTypes
    <3> QED
      BY <3>1, <3>2, ReplyFacts
  <2>7. NotPerformed
    BY <1>2 DEF ServeLookup, Looked
  <2> QED
    BY <2>2, <2>4, <2>5, <2>6, <2>7, NotPerformedFacts DEF Handled
<1>3. CASE ServeUnresolved(c, r)
  <2>1. table' = Seen(r) /\ Throw(c) /\ NotPerformed /\ log' = log
    BY <1>3 DEF ServeUnresolved
  <2>2. CallsGoOn
    BY <2>1, ThrowFacts
  <2> QED
    BY <1>1, <2>1, <2>2, SeenTypes, NotPerformedFacts DEF Handled
<1>4. CASE ServeAdd(c, r)
  <2> DEFINE a == Syscall(r.command, Within(r), Root, r.excl)
             t == Seen(r)
             p == Within(r)
  <2>1. t \in Table /\ p \in Path
    BY <1>4, SeenTypes DEF ServeAdd
  <2>2. CASE FT!Succeeds(tree, a)
    <3>1. /\ Perform(c, a) /\ table' = AddLookup(t, p) /\ log' = LogAfterAdd(t, log, p)
          /\ Reply(c, NoResponse)
      BY <1>4, <2>2 DEF ServeAdd
    <3> HIDE DEF a, t, p
    <3>2. Mapped(t, p) \/ t.fhcount \in Fh
      BY <2>1, <3>1, RoomToAdd
    <3>3. table' \in Table /\ log' \in Log
      BY <1>1, <2>1, <3>1, <3>2, AddLookupType, LogAfterAddType
    <3>4. CallsGoOn
      BY <3>1, ReplyFacts, ResponseTypes
    <3> QED
      BY <2>2, <3>1, <3>3, <3>4, PerformFacts DEF Handled
  <2>3. CASE ~FT!Succeeds(tree, a)
    <3>1. NotPerformed /\ log' = log /\ table' = t /\ Reply(c, Refused)
      BY <1>4, <2>3 DEF ServeAdd
    <3> HIDE DEF a, t, p
    <3>2. CallsGoOn
      BY <3>1, ReplyFacts, ResponseTypes
    <3> QED
      BY <1>1, <2>1, <3>1, <3>2, NotPerformedFacts DEF Handled
  <2> QED
    BY <2>2, <2>3
<1>5. CASE ServeRemove(c, r)
  <2> DEFINE a == Syscall(r.command, PathOf(table, log, r.fh), Root, FALSE)
  <2>1. table' = Seen(r) /\ log' = log
    BY <1>5 DEF ServeRemove
  <2>2. CASE FT!Succeeds(tree, a)
    <3>1. Perform(c, a) /\ Reply(c, NoResponse)
      BY <1>5, <2>2 DEF ServeRemove
    <3> HIDE DEF a
    <3> QED
      BY <1>1, <2>1, <2>2, <3>1, SeenTypes, ReplyFacts, ResponseTypes, PerformFacts DEF Handled
  <2>3. CASE ~FT!Succeeds(tree, a)
    <3>1. NotPerformed /\ Reply(c, Refused)
      BY <1>5, <2>3 DEF ServeRemove
    <3> HIDE DEF a
    <3> QED
      BY <1>1, <2>1, <3>1, SeenTypes, ReplyFacts, ResponseTypes, NotPerformedFacts DEF Handled
  <2> QED
    BY <2>2, <2>3
<1>6. CASE ServeReaddir(c, r)
  <2> DEFINE p == PathOf(table, log, r.fh)
             P == {Append(p, n) : n \in Entries(Location(p))}
             t == Seen(r)
  <2>1. t \in Table /\ NotPerformed
    BY <1>6, SeenTypes DEF ServeReaddir
  <2>2. CASE FT!KindOf(tree, Location(p)) = "dir"
    <3>1. /\ P \in SUBSET Path /\ table' = AddAll(t, P) /\ Reply(c, NoResponse)
          /\ log' = log \/ log' = Stored(AddAll(t, P))
      BY <1>6, <2>2 DEF ServeReaddir
    <3>2. IsFiniteSet(P)
      BY EntriesFinite
    <3> HIDE DEF p, P, t
    <3>3. AddAll(t, P) \in Table
      BY <2>1, <3>1, <3>2, AddAllType
    <3>4. log' \in Log
      BY <1>1, <3>1, <3>3, StoredType
    <3>5. CallsGoOn
      BY <3>1, ReplyFacts, ResponseTypes
    <3> QED
      BY <2>1, <3>1, <3>3, <3>4, <3>5, NotPerformedFacts DEF Handled
  <2>3. CASE FT!KindOf(tree, Location(p)) # "dir"
    <3>1. table' = t /\ log' = log /\ Reply(c, Refused)
      BY <1>6, <2>3 DEF ServeReaddir
    <3> HIDE DEF p, P, t
    <3>2. CallsGoOn
      BY <3>1, ReplyFacts, ResponseTypes
    <3> QED
      BY <1>1, <2>1, <3>1, <3>2, NotPerformedFacts DEF Handled
  <2> QED
    BY <2>2, <2>3
<1>7. CASE ServeGetattr(c, r)
  <2> DEFINE t == Seen(r)
             k == FT!KindOf(tree, Location(PathOf(table, log, r.fh)))
             p == PathOf(table, log, r.fh)
  <2>1. t \in Table /\ NotPerformed
    BY <1>7, SeenTypes DEF ServeGetattr
  <2>2. k \in FT!Kind
    BY DEF TypeOK, FT!Tree, FT!KindOf, FT!Kind
  <2>3. /\ table' = IF p = Root THEN AddLookup(t, r.path) ELSE t
        /\ log' = IF p = Root THEN LogAfterAdd(t, log, r.path) ELSE log
        /\ Reply(c, [NoResponse EXCEPT !.kind = k])
    BY <1>7 DEF ServeGetattr
  <2> HIDE DEF t, k, p
  <2>4. CallsGoOn
    BY <2>2, <2>3, ReplyFacts, ResponseTypes
  <2>5. table' \in Table /\ log' \in Log
    <3>1. CASE p = Root
      <4>1. Mapped(t, r.path) \/ t.fhcount \in Fh
        BY <1>1, <2>1, <2>3, <3>1, RoomToAdd
      <4> QED
        BY <1>1, <2>1, <2>3, <3>1, <4>1, AddLookupType, LogAfterAddType
    <3>2. CASE p # Root
      BY <1>1, <2>1, <2>3, <3>2
    <3> QED
      BY <3>1, <3>2
  <2> QED
    BY <2>1, <2>4, <2>5, NotPerformedFacts DEF Handled
<1>8. CASE ServeRenameUnresolved(c, r)
  <2>1. table' \in {SeenBoth(r), SeenDir(r)} /\ Throw(c) /\ NotPerformed /\ log' = log
    BY <1>8 DEF ServeRenameUnresolved
  <2> QED
    BY <1>1, <2>1, SeenTypes, ThrowFacts, NotPerformedFacts DEF Handled
<1>9. CASE ServeRenameRefused(c, r)
  <2>1. table' = SeenBoth(r) /\ Reply(c, Refused) /\ NotPerformed /\ log' = log
    BY <1>9 DEF ServeRenameRefused
  <2> QED
    BY <1>1, <2>1, SeenTypes, ReplyFacts, ResponseTypes, NotPerformedFacts DEF Handled
<1>10. CASE ServeRenameOver(c, r)
  <2> DEFINE t == SeenBoth(r)
             a == RenameCall(r)
  <2>1. /\ FT!Succeeds(tree, a) /\ Perform(c, a) /\ table' = Over(t, r) /\ Reply(c, NoResponse)
        /\ log' = log
    BY <1>10 DEF ServeRenameOver
  <2> HIDE DEF t, a
  <2>2. table' \in Table
    BY <1>1, <2>1, SeenTypes, OverType, NameInRoot DEF t
  <2> QED
    BY <1>1, <2>1, <2>2, ReplyFacts, ResponseTypes, PerformFacts DEF Handled
<1>11. CASE ServeRenameNew(c, r)
  <2> DEFINE t == SeenBoth(r)
             a == RenameCall(r)
             q == NewPath(t, r)
             u == AddLookup(t, q)
  <2>1. FT!Succeeds(tree, a) /\ Perform(c, a) /\ t \in Table
    BY <1>11, SeenTypes DEF ServeRenameNew
  <2>2. CASE Known(t, r.todirfh)
    <3>1. q \in Path /\ table' = Gone(u, r) /\ log' = LogAfterAdd(t, log, q) /\ Reply(c, NoResponse)
      BY <1>11, <2>2 DEF ServeRenameNew
    <3> HIDE DEF t, a, q
    <3>2. Gone(u, r).fhcount = u.fhcount
      BY DEF Gone, AddLookup
    <3>3. Mapped(t, q) \/ t.fhcount \in Fh
      BY <2>1, <3>1, <3>2, RoomToAdd
    <3>4. table' \in Table /\ log' \in Log
      BY <1>1, <2>1, <3>1, <3>3, AddLookupType, LogAfterAddType, GoneType
    <3>5. CallsGoOn
      BY <3>1, ReplyFacts, ResponseTypes
    <3> QED
      BY <2>1, <3>4, <3>5, PerformFacts DEF Handled
  <2>3. CASE ~Known(t, r.todirfh)
    <3>1. table' = t /\ Throw(c) /\ log' = log
      BY <1>11, <2>3 DEF ServeRenameNew
    <3> HIDE DEF t, a, q
    <3> QED
      BY <1>1, <2>1, <3>1, ThrowFacts, PerformFacts DEF Handled
  <2> QED
    BY <2>2, <2>3
<1> QED
  BY <1>2, <1>3, <1>4, <1>5, <1>6, <1>7, <1>8, <1>9, <1>10, <1>11 DEF Serve


-----------------------------------------------------------------------------
(* Types.                                                                   *)

\* What a client would do next depends on its own state alone.
LEMMA SameCallback ==
    ASSUME NEW c \in Client, pathtofh'[c] = pathtofh[c], sys'[c] = sys[c],
           todo'[c] = todo[c], fromfh'[c] = fromfh[c]
    PROVE  /\ Callback(c)' = Callback(c) /\ Goal(c)' = Goal(c) /\ Handle(c)' = Handle(c)
           /\ Unknown(c)' = Unknown(c)
           /\ LookupRequest(c)' = LookupRequest(c) /\ CallRequest(c)' = CallRequest(c)
<1>1. Callback(c)' = Callback(c)
  BY DEF Callback
<1>2. Goal(c)' = Goal(c)
  BY <1>1 DEF Goal
<1>3. Handle(c)' = Handle(c)
  BY <1>2 DEF Handle
<1>4. Unknown(c)' = Unknown(c)
  BY <1>2 DEF Unknown
<1>5. LookupRequest(c)' = LookupRequest(c)
  BY <1>4 DEF LookupRequest
<1>6. CallRequest(c)' = CallRequest(c)
  BY <1>1, <1>3 DEF CallRequest
<1> QED
  BY <1>1, <1>2, <1>3, <1>4, <1>5, <1>6

LEMMA ClientStays ==
    ASSUME NEW c \in Client, ClientFits(c), load' = load, pathtofh'[c] = pathtofh[c],
           sys'[c] = sys[c], todo'[c] = todo[c], fromfh'[c] = fromfh[c],
           call'[c].req = call[c].req, call'[c].phase = "none" <=> call[c].phase = "none",
           c \in did' => c \in did \/ call[c].phase # "none"
    PROVE  ClientFits(c)'
<1>1. InDoing(c) => InDoing(c)'
  BY SameCallback DEF InDoing
<1>2. Asking(c) => Asking(c)'
  BY DEF Asking
<1> QED
  BY <1>1, <1>2 DEF ClientFits

LEMMA ClientsStay ==
    ASSUME Shape, UNCHANGED clientVars, CallsGoOn,
           \A c \in Client : c \in did' => c \in did \/ call[c].phase # "none"
    PROVE  Shape'
<1> SUFFICES ASSUME NEW c \in Client
             PROVE  ClientFits(c)'
  BY DEF Shape
<1>1. ClientFits(c) /\ UNCHANGED <<pathtofh, sys, todo, fromfh, load>>
  BY DEF Shape, clientVars
<1>2. call'[c].req = call[c].req /\ (call'[c].phase = "none" <=> call[c].phase = "none")
  BY DEF CallsGoOn
<1> QED
  BY <1>1, <1>2, ClientStays

LEMMA InitFacts ==
    ASSUME Init
    PROVE  TypeOK /\ Shape
<1>1. /\ Root \in Node /\ Root \in Path /\ Root = <<>> /\ 0 \in Fh
  BY RootIsNode, MaxFhAssumption DEF Fh
<1>2. NoRpc \in Rpc
  BY <1>1, ResponseTypes DEF NoRpc, Rpc, Request, NoRequest, Names
<1>3. tree \in FT!Tree /\ \A p \in Node \ {Root} : tree[p] = "none"
  BY <1>1 DEF Init, FT!Tree, FT!Kind
<1>4. load \in Bounds
  BY NamespaceAssumption, Zenon DEF Init
<1>5. load.asks \in [Client -> Nat] /\ load.lost \in Nat /\ load.crash \in Nat /\ load.torn \in Nat
  BY <1>4 DEF Bounds
<1>6. up \in BOOLEAN /\ table \in Table /\ log \in Log
  BY NewTableType DEF Init, NoLog, Log
<1>7. pathtofh \in [Client -> PathMap] /\ fhtopath \in [Client -> FhMap]
  BY <1>1 DEF Init, ClientPaths, ClientFhs, PathMap, FhMap
<1>8. /\ sys \in [Client -> FT!Asked \cup {NoCall}]
      /\ fromfh \in [Client -> Fh \cup {NoFh}]
      /\ did \subseteq Client /\ load \in Workload
      /\ call \in [Client -> Rpc]
  BY <1>2 DEF Init
<1>9. todo \in [Client -> Seq(Node)]
  BY DEF Init
<1>10. asks \in [Client -> Nat] /\ \A c \in Client : asks[c] <= load.asks[c]
  BY <1>5 DEF Init
<1>11. faults \in [lost : 0 .. load.lost, crash : 0 .. load.crash, torn : 0 .. load.torn]
  <2>1. 0 \in 0 .. load.lost /\ 0 \in 0 .. load.crash /\ 0 \in 0 .. load.torn
    BY <1>5
  <2> QED
    BY <2>1 DEF Init
<1>12. TypeOK
  BY <1>3, <1>6, <1>7, <1>8, <1>9, <1>10, <1>11 DEF TypeOK, Rpc
<1>13. ASSUME NEW c \in Client PROVE ClientFits(c)
  <2>1. /\ pathtofh[c][Root] = 0 /\ sys[c] = NoCall /\ todo[c] = <<>> /\ fromfh[c] = NoFh
        /\ call[c].phase = "none" /\ c \notin did
    BY <1>1 DEF Init, ClientPaths, NoRpc
  <2> QED
    BY <2>1 DEF ClientFits
<1> QED
  BY <1>12, <1>13 DEF Shape


\* The clients take no part in a step of the server or of the network.
LEMMA ServerTypes ==
    ASSUME TypeOK, UNCHANGED clientVars, CallsGoOn, up' \in BOOLEAN,
           table' \in Table, log' \in Log, tree' \in FT!Tree, Rooted(tree'), did' \subseteq Client,
           faults' \in [lost : 0 .. load.lost, crash : 0 .. load.crash, torn : 0 .. load.torn]
    PROVE  TypeOK'
<1>1. \A p \in Node \ {Root} : tree'[p] # "none" => tree'[Front(p)] = "dir"
  BY DEF Rooted
<1>2. call' \in [Client -> [phase : {"none", "sent", "replied", "failed"},
                            req : Request, rep : Response]]
  BY DEF CallsGoOn, Rpc
<1>3. /\ load' = load /\ asks' = asks /\ sys' = sys /\ todo' = todo /\ fromfh' = fromfh
      /\ pathtofh' = pathtofh /\ fhtopath' = fhtopath
  BY DEF clientVars
<1>4. /\ sys \in [Client -> FT!Asked \cup {NoCall}] /\ todo \in [Client -> Seq(Node)]
      /\ fromfh \in [Client -> Fh \cup {NoFh}] /\ load \in Workload
      /\ pathtofh \in [Client -> PathMap] /\ fhtopath \in [Client -> FhMap]
      /\ asks \in [Client -> Nat] /\ \A c \in Client : asks[c] <= load.asks[c]
  BY DEF TypeOK
<1> QED
  BY <1>1, <1>2, <1>3, <1>4 DEF TypeOK

LEMMA CountFault ==
    ASSUME TypeOK
    PROVE  /\ faults.lost < load.lost => [faults EXCEPT !.lost = @ + 1] \in
                [lost : 0 .. load.lost, crash : 0 .. load.crash, torn : 0 .. load.torn]
           /\ faults.crash < load.crash => [faults EXCEPT !.crash = @ + 1] \in
                [lost : 0 .. load.lost, crash : 0 .. load.crash, torn : 0 .. load.torn]
           /\ faults.torn < load.torn => [faults EXCEPT !.torn = @ + 1] \in
                [lost : 0 .. load.lost, crash : 0 .. load.crash, torn : 0 .. load.torn]
<1>1. faults \in [lost : 0 .. load.lost, crash : 0 .. load.crash, torn : 0 .. load.torn]
  BY DEF TypeOK
<1> QED
  BY <1>1, LoadFacts

LEMMA ServerKeeps ==
    ASSUME TypeOK, Shape, NEW c \in Client, ServeCall(c)
    PROVE  TypeOK' /\ Shape'
<1>1. call[c].phase = "sent" /\ call[c].req \in Request
  BY DEF ServeCall, TypeOK
<1>2. Handled(c)
  BY <1>1, ServeTypes DEF ServeCall
<1>3. UNCHANGED clientVars /\ up' = up /\ faults' = faults
  BY DEF ServeCall
<1>4. did' \subseteq Client /\ \A d \in Client : d \in did' => d \in did \/ call[d].phase # "none"
  BY <1>1, <1>2 DEF Handled, TypeOK
<1>5. up \in BOOLEAN /\ faults \in [lost : 0 .. load.lost, crash : 0 .. load.crash, torn : 0 .. load.torn]
  BY DEF TypeOK
<1>6. TypeOK'
  BY <1>2, <1>3, <1>4, <1>5, ServerTypes DEF Handled
<1>7. Shape'
  BY <1>2, <1>3, <1>4, ClientsStay DEF Handled
<1> QED
  BY <1>6, <1>7

\* A call of client c fails.
LEMMA FailKeeps ==
    ASSUME TypeOK, Shape, NEW c \in Client, call[c].phase # "none", Throw(c),
           UNCHANGED <<serverVars, tree, clientVars, did>>,
           faults' \in [lost : 0 .. load.lost, crash : 0 .. load.crash, torn : 0 .. load.torn]
    PROVE  TypeOK' /\ Shape'
<1>1. CallsGoOn
  BY ThrowFacts
<1>2. UNCHANGED clientVars /\ up' = up /\ table' = table /\ log' = log /\ tree' = tree /\ did' = did
  BY DEF serverVars
<1>3. /\ up \in BOOLEAN /\ table \in Table /\ log \in Log /\ tree \in FT!Tree /\ Rooted(tree)
      /\ did \subseteq Client
  BY DEF TypeOK, Rooted
<1>4. Rooted(tree')
  BY <1>2, <1>3
<1>5. TypeOK'
  BY <1>1, <1>2, <1>3, <1>4, ServerTypes
<1>6. Shape'
  BY <1>1, <1>2, ClientsStay
<1> QED
  BY <1>5, <1>6

\* The process dies, and the files and the tree are what the step makes them.
LEMMA DiesKeeps ==
    ASSUME TypeOK, Shape, Dies, log' \in Log, tree' \in FT!Tree, Rooted(tree'),
           did' \subseteq Client, \A d \in Client : d \in did' => d \in did \/ call[d].phase # "none",
           faults' \in [lost : 0 .. load.lost, crash : 0 .. load.crash, torn : 0 .. load.torn]
    PROVE  TypeOK' /\ Shape'
<1>1. UNCHANGED clientVars /\ up' \in BOOLEAN /\ table' \in Table
  BY NewTableType DEF Dies
<1>2. CallsGoOn
  <2>1. PICK S \in SUBSET {c \in Client : call[c].phase = "replied"} :
          call' = [c \in Client |-> IF call[c].phase = "sent" \/ c \in S
                                    THEN [call[c] EXCEPT !.phase = "failed"] ELSE call[c]]
    BY DEF Dies
  <2>2. call \in [Client -> Rpc]
    BY DEF TypeOK, Rpc
  <2>3. ASSUME NEW c \in Client
        PROVE  /\ call'[c] \in Rpc /\ call'[c].req = call[c].req
               /\ call'[c].phase = "none" <=> call[c].phase = "none"
    <3>1. CASE call[c].phase = "sent" \/ c \in S
      <4>1. call'[c] = [call[c] EXCEPT !.phase = "failed"] /\ call[c].phase # "none"
        BY <2>1, <3>1
      <4> QED
        BY <2>2, <4>1 DEF Rpc
    <3>2. CASE ~(call[c].phase = "sent" \/ c \in S)
      BY <2>1, <2>2, <3>2
    <3> QED
      BY <3>1, <3>2
  <2>4. call' = [c \in Client |-> call'[c]]
    BY <2>1
  <2> QED
    BY <2>3, <2>4 DEF CallsGoOn
<1>3. TypeOK'
  BY <1>1, <1>2, ServerTypes
<1>4. Shape'
  BY <1>1, <1>2, ClientsStay
<1> QED
  BY <1>3, <1>4

\* What a crash in storeMapping interrupts.
LEMMA AddingTypes ==
    ASSUME TypeOK, NEW r \in Request, NEW a \in Adding(r), a.table.fhcount \in Fh
    PROVE  a.table \in Table /\ a.log \in Log
<1>1. table \in Table /\ log \in Log /\ r.fh \in Fh /\ Seen(r) \in Table /\ SeenBoth(r) \in Table
  BY SeenTypes DEF TypeOK, Request
<1>2. CASE r.command = "lookup"
  <2>1. a \in {Added(WithDir(table, r.fh), log, Looked(r))}
    BY <1>2 DEF Adding, Renames
  <2>2. a.table = WithDir(table, r.fh) /\ a.log = log
    BY <2>1 DEF Added
  <2> QED
    BY <1>1, <2>2, WithDirType
<1>3. CASE r.command \in {"mkdir", "create", "getattr"}
  <2>1. a = Added(Seen(r), log, Within(r)) \/ a = Added(Seen(r), log, r.path)
    BY <1>3 DEF Adding, Renames
  <2>2. a.table = Seen(r) /\ a.log = log
    BY <2>1 DEF Added
  <2> QED
    BY <1>1, <2>2
<1>4. CASE r.command = "readdir"
  <2> DEFINE d == PathOf(table, log, r.fh)
             P == {Append(d, n) : n \in Entries(Location(d))}
             t == Seen(r)
  <2>0. a \in AddingListed(r)
    BY <1>4 DEF Adding, Renames
  <2>1. PICK Q \in SUBSET P :
          /\ P \subseteq Path
          /\ a.table = AddAll(t, Q)
          /\ a.log = log \/ a.log = Stored(AddAll(t, Q))
    BY <2>0 DEF AddingListed, Added
  <2>2. IsFiniteSet(P)
    BY EntriesFinite
  <2> HIDE DEF d, P
  <2>3. IsFiniteSet(Q)
    BY <2>2, FS_Subset
  <2>4. t \in Table
    BY <1>1
  <2> HIDE DEF t
  <2>5. AddAll(t, Q) \in Table
    BY <2>1, <2>3, <2>4, AddAllType
  <2> QED
    BY <1>1, <2>1, <2>5, StoredType
<1>5. CASE r.command = "rename"
  <2>1. a \in AddingMoved(r)
    BY <1>5 DEF Adding
  <2>2. a.table = SeenBoth(r) /\ a.log = log
    BY <2>1 DEF AddingMoved, Added
  <2> QED
    BY <1>1, <2>2
<1>6. CASE r.command \notin {"lookup", "mkdir", "create", "getattr", "readdir", "rename"}
  BY <1>6 DEF Adding, Renames
<1> QED
  BY <1>2, <1>3, <1>4, <1>5, <1>6

LEMMA FaultsKeep ==
    ASSUME TypeOK, Shape,
           \/ \E c \in Client : Lose(c) \/ Refuse(c) \/ CrashInStore(c) \/ CrashInCall(c)
           \/ Crash \/ Restart
    PROVE  TypeOK' /\ Shape'
<1>1. /\ up \in BOOLEAN /\ table \in Table /\ log \in Log /\ tree \in FT!Tree /\ Rooted(tree)
      /\ did \subseteq Client /\ call \in [Client -> Rpc]
      /\ faults \in [lost : 0 .. load.lost, crash : 0 .. load.crash, torn : 0 .. load.torn]
  BY DEF TypeOK, Rooted, Rpc
<1>2. ASSUME NEW c \in Client, Lose(c) \/ Refuse(c)
      PROVE  TypeOK' /\ Shape'
  <2>1. call[c].phase # "none" /\ Throw(c) /\ UNCHANGED <<serverVars, tree, clientVars, did>>
    BY <1>2 DEF Lose, Refuse, Throw
  <2>2. faults' \in [lost : 0 .. load.lost, crash : 0 .. load.crash, torn : 0 .. load.torn]
    BY <1>1, <1>2, CountFault DEF Lose, Refuse
  <2> QED
    BY <2>1, <2>2, FailKeeps
<1>3. ASSUME NEW c \in Client, CrashInStore(c)
      PROVE  TypeOK' /\ Shape'
  <2>1. /\ call[c].phase = "sent" /\ faults.torn < load.torn /\ Dies
        /\ faults' = [faults EXCEPT !.torn = @ + 1]
    BY <1>3 DEF CrashInStore
  <2>2. PICK a \in Adding(call[c].req) :
          /\ a.path \in Path /\ a.table.fhcount \in Fh
          /\ log' \in CutStores(AddLookup(a.table, a.path), a.log)
    BY <1>3 DEF CrashInStore
  <2>3. log' \in Log
    <3>1. call[c].req \in Request
      BY <1>1 DEF Rpc
    <3>2. a.table \in Table /\ a.log \in Log
      BY <2>2, <3>1, AddingTypes
    <3> QED
      BY <2>2, <3>2, AddLookupType, CutStoresType
  <2>4. tree' \in FT!Tree /\ Rooted(tree') /\ did' \subseteq did \cup {c}
    <3>1. CASE Begun(call[c].req) = {}
      <4>1. NotPerformed
        BY <1>3, <3>1 DEF CrashInStore
      <4> QED
        BY <4>1, NotPerformedFacts
    <3>2. CASE Begun(call[c].req) # {}
      <4>1. PICK b \in Begun(call[c].req) : FT!Succeeds(tree, b) /\ Perform(c, b)
        BY <1>3, <3>2 DEF CrashInStore
      <4> QED
        BY <4>1, PerformFacts
    <3> QED
      BY <3>1, <3>2
  <2>5. faults' \in [lost : 0 .. load.lost, crash : 0 .. load.crash, torn : 0 .. load.torn]
    BY <2>1, CountFault
  <2>6. did' \subseteq Client /\ \A d \in Client : d \in did' => d \in did \/ call[d].phase # "none"
    BY <1>1, <2>1, <2>4
  <2> QED
    BY <2>1, <2>3, <2>4, <2>5, <2>6, DiesKeeps
<1>4. ASSUME NEW c \in Client, CrashInCall(c)
      PROVE  TypeOK' /\ Shape'
  <2>1. /\ call[c].phase = "sent" /\ Dies /\ log' = log
        /\ faults' = faults \/ (faults.crash < load.crash /\ faults' = [faults EXCEPT !.crash = @ + 1])
    BY <1>4 DEF CrashInCall
  <2>2. PICK a \in Begun(call[c].req) : FT!Succeeds(tree, a) /\ Perform(c, a)
    BY <1>4 DEF CrashInCall
  <2>3. tree' \in FT!Tree /\ Rooted(tree') /\ did' \subseteq did \cup {c}
    BY <2>2, PerformFacts
  <2>4. faults' \in [lost : 0 .. load.lost, crash : 0 .. load.crash, torn : 0 .. load.torn]
    BY <1>1, <2>1, CountFault
  <2> QED
    BY <1>1, <2>1, <2>3, <2>4, DiesKeeps
<1>5. CASE Crash
  <2>1. /\ faults.crash < load.crash /\ Dies /\ faults' = [faults EXCEPT !.crash = @ + 1]
        /\ log' = log /\ tree' = tree /\ did' = did
    BY <1>5 DEF Crash
  <2>2. Rooted(tree')
    BY <1>1, <2>1
  <2>3. faults' \in [lost : 0 .. load.lost, crash : 0 .. load.crash, torn : 0 .. load.torn]
    BY <2>1, CountFault
  <2> QED
    BY <1>1, <2>1, <2>2, <2>3, DiesKeeps
<1>6. CASE Restart
  <2>1. /\ up' = TRUE /\ UNCHANGED clientVars
        /\ table' = table /\ log' = log /\ tree' = tree /\ did' = did /\ call' = call /\ faults' = faults
    BY <1>6 DEF Restart
  <2>2. CallsGoOn
    BY <1>1, <2>1 DEF CallsGoOn
  <2>3. Rooted(tree')
    BY <1>1, <2>1
  <2>4. TypeOK'
    BY <1>1, <2>1, <2>2, <2>3, ServerTypes
  <2>5. Shape'
    BY <2>1, <2>2, ClientsStay
  <2> QED
    BY <2>4, <2>5
<1> QED
  BY <1>2, <1>3, <1>4, <1>5, <1>6


\* The server takes no part in a step of a client.
LEMMA ClientTypes ==
    ASSUME TypeOK, UNCHANGED <<serverVars, tree, load, faults>>,
           pathtofh' \in [Client -> PathMap], fhtopath' \in [Client -> FhMap],
           sys' \in [Client -> FT!Asked \cup {NoCall}], todo' \in [Client -> Seq(Node)],
           fromfh' \in [Client -> Fh \cup {NoFh}], did' \subseteq did, call' \in [Client -> Rpc],
           asks' \in [Client -> Nat], \A d \in Client : asks'[d] <= load.asks[d]
    PROVE  TypeOK'
<1>1. /\ up' = up /\ table' = table /\ log' = log /\ tree' = tree /\ load' = load /\ faults' = faults
  BY DEF serverVars
<1>2. /\ up \in BOOLEAN /\ table \in Table /\ log \in Log /\ tree \in FT!Tree /\ load \in Workload
      /\ \A p \in Node \ {Root} : tree[p] # "none" => tree[Front(p)] = "dir"
      /\ did \subseteq Client
      /\ faults \in [lost : 0 .. load.lost, crash : 0 .. load.crash, torn : 0 .. load.torn]
  BY DEF TypeOK
<1> QED
  BY <1>1, <1>2 DEF TypeOK, Rpc

\* Nothing that client d knows changes.
Elsewhere(d) ==
    /\ pathtofh'[d] = pathtofh[d] /\ sys'[d] = sys[d] /\ todo'[d] = todo[d] /\ fromfh'[d] = fromfh[d]
    /\ call'[d] = call[d] /\ (d \in did' => d \in did)

LEMMA OneClient ==
    ASSUME Shape, NEW c \in Client, load' = load, ClientFits(c)',
           \A d \in Client : d # c => Elsewhere(d)
    PROVE  Shape'
<1>1. ASSUME NEW d \in Client, d # c PROVE ClientFits(d)'
  <2>1. Elsewhere(d) /\ ClientFits(d)
    BY <1>1 DEF Shape
  <2> QED
    BY <2>1, ClientStays DEF Elsewhere
<1> QED
  BY <1>1 DEF Shape

\* What the kernel stats is in the tree.
LEMMA WalkType ==
    ASSUME NEW a \in FT!Asked
    PROVE  Walk(a) \in Seq(Node)
<1>1. a.path \in Node /\ a.to \in Node
  BY DEF FT!Asked
<1>2. \A p \in Node : StepsTo(p) \in Seq(Node)
  BY NodeFacts DEF StepsTo
<1>3. Front(a.path) \in Node
  <2>1. CASE a.path = Root
    <3>1. Front(Root) = <<>>
      BY RootIsNode, SubSeqEmpty DEF Front
    <3> QED
      BY <2>1, <3>1, RootIsNode
  <2>2. CASE a.path # Root
    BY <1>1, <2>2, NodeFacts
  <2> QED
    BY <2>1, <2>2
<1>4. StepsTo(a.path) \o StepsTo(a.to) \in Seq(Node)
  BY <1>1, <1>2, ConcatProperties
<1> QED
  BY <1>1, <1>2, <1>3, <1>4 DEF Walk

\* What the types say of the clients.
LEMMA ClientVarTypes ==
    ASSUME TypeOK
    PROVE  /\ pathtofh \in [Client -> PathMap] /\ fhtopath \in [Client -> FhMap]
           /\ sys \in [Client -> FT!Asked \cup {NoCall}] /\ todo \in [Client -> Seq(Node)]
           /\ fromfh \in [Client -> Fh \cup {NoFh}] /\ call \in [Client -> Rpc]
           /\ asks \in [Client -> Nat] /\ \A d \in Client : asks[d] <= load.asks[d]
           /\ NoRpc \in Rpc
<1>1. 0 \in Fh
  BY MaxFhAssumption DEF Fh
<1>2. NoRpc \in Rpc
  BY <1>1, ResponseTypes, RootIsNode DEF NoRpc, Rpc, Request, NoRequest, Names
<1> QED
  BY <1>2 DEF TypeOK, Rpc

LEMMA AskKeeps ==
    ASSUME TypeOK, Shape, NEW c \in Client, Ask(c)
    PROVE  TypeOK' /\ Shape'
<1>1. PICK cb \in load.use, p \in load.target, q \in load.target, x \in load.excl \cup {FALSE} :
        LET a == [cb |-> cb, path |-> p, to |-> q, excl |-> x]
        IN  /\ Sensible(a)
            /\ sys' = [sys EXCEPT ![c] = a]
            /\ todo' = [todo EXCEPT ![c] = Walk(a)]
  BY DEF Ask
<1> DEFINE a == [cb |-> cb, path |-> p, to |-> q, excl |-> x]
<1>2. a \in FT!Asked
  BY LoadFacts DEF FT!Asked
<1>3. Sensible(a) /\ sys' = [sys EXCEPT ![c] = a] /\ todo' = [todo EXCEPT ![c] = Walk(a)]
  BY <1>1
<1>4. a.path \in load.target /\ a.to \in load.target
  OBVIOUS
<1> HIDE DEF a
<1>5. /\ sys[c] = NoCall /\ asks[c] < load.asks[c] /\ asks' = [asks EXCEPT ![c] = @ + 1]
      /\ UNCHANGED <<serverVars, tree, load, faults>>
      /\ pathtofh' = pathtofh /\ fhtopath' = fhtopath /\ fromfh' = fromfh /\ did' = did /\ call' = call
  BY DEF Ask
<1>6. sys'[c] = a /\ todo'[c] = Walk(a) /\ a # NoCall
  BY <1>2, <1>3, ClientVarTypes, NoCallAssumption
<1>7. TypeOK'
  <2>1. sys' \in [Client -> FT!Asked \cup {NoCall}] /\ todo' \in [Client -> Seq(Node)]
    BY <1>2, <1>3, ClientVarTypes, WalkType
  <2>2. asks' \in [Client -> Nat] /\ \A d \in Client : asks'[d] <= load.asks[d]
    BY <1>5, ClientVarTypes, LoadFacts
  <2> QED
    BY <1>5, <2>1, <2>2, ClientTypes, ClientVarTypes
<1>8. ClientFits(c)
  BY DEF Shape
<1>9. ClientFits(c)'
  <2>1. Asking(c)'
    BY <1>3, <1>4, <1>5, <1>6 DEF Sensible, Asking
  <2> QED
    BY <1>5, <1>6, <1>8, <2>1 DEF ClientFits
<1>10. \A d \in Client : d # c => Elsewhere(d)
  BY <1>3, <1>5, ClientVarTypes DEF Elsewhere
<1> QED
  BY <1>5, <1>7, <1>9, <1>10, OneClient

\* A client sends a request.
LEMMA SendKeeps ==
    ASSUME TypeOK, Shape, NEW c \in Client, Running(c), SendLookup(c) \/ SendCall(c)
    PROVE  TypeOK' /\ Shape'
<1>1. sys[c] # NoCall /\ call[c].phase = "none" /\ ClientFits(c)
  BY DEF Running, Shape
<1> DEFINE r == IF Handle(c) = NoFh THEN LookupRequest(c) ELSE CallRequest(c)
<1>2. r \in Request /\ Send(c, r)
  <2>1. CASE SendLookup(c)
    BY <1>1, <2>1, LookupFacts DEF SendLookup
  <2>2. CASE SendCall(c)
    BY <1>1, <2>2, CallFacts DEF SendCall
  <2> QED
    BY <2>1, <2>2
<1>3. Handle(c) # NoFh /\ Callback(c).cb = "rename" => fromfh[c] # NoFh
  BY DEF SendLookup, SendCall
<1>4. (Handle(c) = NoFh /\ r = LookupRequest(c)) \/ (Handle(c) # NoFh /\ r = CallRequest(c))
  OBVIOUS
<1> HIDE DEF r
<1>5. /\ call' = [call EXCEPT ![c] = [phase |-> "sent", req |-> r, rep |-> NoResponse]]
      /\ UNCHANGED <<serverVars, tree, load, faults>>
      /\ pathtofh' = pathtofh /\ fhtopath' = fhtopath /\ fromfh' = fromfh /\ did' = did
      /\ sys' = sys /\ todo' = todo /\ asks' = asks
  BY <1>2 DEF Send, clientVars
<1>6. call' \in [Client -> Rpc] /\ call'[c].req = r /\ call'[c].phase = "sent"
  BY <1>2, <1>5, ClientVarTypes, ResponseTypes DEF Rpc
<1>7. TypeOK'
  BY <1>5, <1>6, ClientTypes, ClientVarTypes
<1>8. ClientFits(c)'
  <2>1. InDoing(c)'
    BY <1>3, <1>4, <1>5, <1>6, SameCallback DEF InDoing
  <2>2. Asking(c)'
    BY <1>1, <1>5 DEF ClientFits, Asking
  <2> QED
    BY <1>1, <1>5, <1>6, <2>1, <2>2 DEF ClientFits
<1>9. \A d \in Client : d # c => Elsewhere(d)
  BY <1>5, ClientVarTypes DEF Elsewhere
<1> QED
  BY <1>5, <1>7, <1>8, <1>9, OneClient

LEMMA TakeFromKeeps ==
    ASSUME TypeOK, Shape, NEW c \in Client, TakeFrom(c)
    PROVE  TypeOK' /\ Shape'
<1>1. /\ sys[c] # NoCall /\ call[c].phase = "none" /\ ClientFits(c)
      /\ Callback(c).cb = "rename" /\ Handle(c) # NoFh
  BY DEF TakeFrom, Running, Shape
<1>2. /\ fromfh' = [fromfh EXCEPT ![c] = Handle(c)]
      /\ UNCHANGED <<serverVars, tree, load, faults>>
      /\ pathtofh' = pathtofh /\ fhtopath' = fhtopath /\ did' = did
      /\ sys' = sys /\ todo' = todo /\ asks' = asks /\ call' = call
  BY DEF TakeFrom
<1>3. Handle(c) \in Fh
  <2>1. Goal(c) \in Path /\ pathtofh[c] \in PathMap
    BY <1>1, GoalFacts, RootIsNode, ClientVarTypes
  <2> QED
    BY <1>1, <2>1 DEF Handle, PathMap
<1>4. TypeOK'
  BY <1>2, <1>3, ClientTypes, ClientVarTypes
<1>5. ClientFits(c)'
  <2>1. todo[c] = <<>> /\ Callback(c) = sys[c]
    BY <1>1, GoalFacts DEF Callback
  <2>2. Asking(c)'
    BY <1>1, <1>2 DEF ClientFits, Asking
  <2> QED
    BY <1>1, <1>2, <2>1, <2>2 DEF ClientFits
<1>6. \A d \in Client : d # c => Elsewhere(d)
  BY <1>2, ClientVarTypes DEF Elsewhere
<1> QED
  BY <1>2, <1>4, <1>5, <1>6, OneClient


\* A call under way is the one its command says, and belongs to the system call.
LEMMA UnderWay ==
    ASSUME TypeOK, Shape, NEW c \in Client, call[c].phase # "none"
    PROVE  /\ sys[c] # NoCall /\ sys[c] \in FT!Asked /\ ClientFits(c) /\ Asking(c)
           /\ call[c].req.command = "lookup" => Handle(c) = NoFh /\ call[c].req = LookupRequest(c)
           /\ call[c].req.command # "lookup" =>
                /\ Handle(c) # NoFh /\ call[c].req = CallRequest(c)
                /\ call[c].req.command = Callback(c).cb
                /\ Callback(c).cb = "rename" => fromfh[c] # NoFh
           /\ call[c].req.command \notin {"lookup", "getattr"} =>
                todo[c] = <<>> /\ sys[c].cb = call[c].req.command
<1>1. sys[c] # NoCall /\ ClientFits(c) /\ InDoing(c) /\ Asking(c)
  BY DEF Shape, ClientFits
<1>2. sys[c] \in FT!Asked
  BY <1>1, ClientVarTypes
<1>3. CASE Handle(c) = NoFh
  <2>1. call[c].req = LookupRequest(c) /\ call[c].req.command = "lookup"
    BY <1>1, <1>3, LookupFacts DEF InDoing
  <2> QED
    BY <1>1, <1>2, <1>3, <2>1
<1>4. CASE Handle(c) # NoFh
  <2>1. /\ call[c].req = CallRequest(c) /\ CallRequest(c).command = Callback(c).cb
        /\ CallRequest(c).command # "lookup"
        /\ Callback(c).cb = "rename" => fromfh[c] # NoFh
    BY <1>1, <1>4, CallFacts DEF InDoing
  <2>2. Callback(c).cb # "getattr" => todo[c] = <<>> /\ Callback(c) = sys[c]
    BY <1>1, GoalFacts DEF Callback
  <2> QED
    BY <1>1, <1>2, <1>4, <2>1, <2>2
<1> QED
  BY <1>3, <1>4

LEMMA AnsweredFacts ==
    ASSUME TypeOK, NEW c \in Client, Answered(c)
    PROVE  /\ call[c].phase = "replied" /\ call[c].rep \in Response
           /\ call' \in [Client -> Rpc] /\ call'[c] = NoRpc /\ NoRpc.phase = "none"
           /\ \A d \in Client : d # c => call'[d] = call[d]
           /\ UNCHANGED <<serverVars, tree, asks, load, faults>>
BY ClientVarTypes DEF Answered, NoRpc, Rpc

\* The system call of a client returns.
LEMMA ReturnKeeps ==
    ASSUME TypeOK, Shape, NEW c \in Client, Answered(c), Return(c),
           pathtofh' \in [Client -> PathMap], fhtopath' \in [Client -> FhMap],
           pathtofh'[c][Root] = 0, \A d \in Client : d # c => pathtofh'[d] = pathtofh[d]
    PROVE  TypeOK' /\ Shape'
<1>1. /\ sys' = [sys EXCEPT ![c] = NoCall] /\ todo' = [todo EXCEPT ![c] = <<>>]
      /\ fromfh' = [fromfh EXCEPT ![c] = NoFh] /\ did' = did \ {c}
  BY DEF Return
<1>2. /\ call' \in [Client -> Rpc] /\ call'[c].phase = "none"
      /\ \A d \in Client : d # c => call'[d] = call[d]
      /\ UNCHANGED <<serverVars, tree, asks, load, faults>>
  BY AnsweredFacts
<1>3. /\ sys' \in [Client -> FT!Asked \cup {NoCall}] /\ todo' \in [Client -> Seq(Node)]
      /\ fromfh' \in [Client -> Fh \cup {NoFh}]
  BY <1>1, ClientVarTypes
<1>4. asks' = asks /\ load' = load
  BY <1>2
<1>5. TypeOK'
  BY <1>1, <1>2, <1>3, <1>4, ClientTypes, ClientVarTypes
<1>6. ClientFits(c)'
  <2>1. sys'[c] = NoCall /\ todo'[c] = <<>> /\ fromfh'[c] = NoFh /\ c \notin did'
    BY <1>1, ClientVarTypes
  <2> QED
    BY <1>2, <2>1 DEF ClientFits
<1>7. \A d \in Client : d # c => Elsewhere(d)
  BY <1>1, <1>2, ClientVarTypes DEF Elsewhere
<1> QED
  BY <1>4, <1>5, <1>6, <1>7, OneClient

LEMMA GotHandleKeeps ==
    ASSUME TypeOK, Shape, NEW c \in Client, GotHandle(c)
    PROVE  TypeOK' /\ Shape'
<1> DEFINE u == Unknown(c)
           h == call[c].rep.fh
<1>1. /\ Answered(c) /\ call[c].req.command = "lookup"
      /\ pathtofh' = [pathtofh EXCEPT ![c][u] = h] /\ fhtopath' = [fhtopath EXCEPT ![c][h] = u]
      /\ sys' = sys /\ todo' = todo /\ fromfh' = fromfh /\ did' = did
  BY DEF GotHandle
<1>2. /\ call[c].phase = "replied" /\ call' \in [Client -> Rpc] /\ call'[c].phase = "none"
      /\ \A d \in Client : d # c => call'[d] = call[d]
      /\ UNCHANGED <<serverVars, tree, load, faults>> /\ asks' = asks /\ load' = load
      /\ call[c].rep \in Response
  BY <1>1, AnsweredFacts
<1>3. u \in Node \ {Root} /\ u \in Path /\ h \in Fh /\ sys[c] # NoCall /\ ClientFits(c) /\ Asking(c)
  <2>1. sys[c] # NoCall /\ ClientFits(c) /\ Asking(c) /\ Handle(c) = NoFh
    BY <1>1, <1>2, UnderWay
  <2>2. u \in Node \ {Root}
    BY <2>1, LookupFacts
  <2> QED
    BY <1>2, <2>1, <2>2, RootIsNode DEF Response
<1> HIDE DEF u, h
<1>4. pathtofh' \in [Client -> PathMap] /\ fhtopath' \in [Client -> FhMap]
  <2>1. [pathtofh[c] EXCEPT ![u] = h] \in PathMap /\ [fhtopath[c] EXCEPT ![h] = u] \in FhMap
    BY <1>3, ClientVarTypes DEF PathMap, FhMap
  <2> QED
    BY <1>1, <2>1, ClientVarTypes
<1>5. TypeOK'
  BY <1>1, <1>2, <1>4, ClientTypes, ClientVarTypes
<1>6. ClientFits(c)'
  <2>1. pathtofh'[c][Root] = 0
    <3>1. pathtofh[c][Root] = 0
      BY <1>3 DEF ClientFits
    <3> QED
      BY <1>1, <1>3, <3>1, ClientVarTypes, RootIsNode DEF PathMap
  <2>2. Asking(c)'
    BY <1>1, <1>2, <1>3 DEF Asking
  <2> QED
    BY <1>1, <1>2, <1>3, <2>1, <2>2 DEF ClientFits
<1>7. \A d \in Client : d # c => Elsewhere(d)
  BY <1>1, <1>2, ClientVarTypes DEF Elsewhere
<1> QED
  BY <1>2, <1>5, <1>6, <1>7, OneClient

LEMMA StatedKeeps ==
    ASSUME TypeOK, Shape, NEW c \in Client, Stated(c)
    PROVE  TypeOK' /\ Shape'
<1>1. /\ Answered(c) /\ pathtofh' = pathtofh /\ fhtopath' = fhtopath /\ todo[c] # <<>>
      /\ \/ todo' = [todo EXCEPT ![c] = Tail(@)] /\ sys' = sys /\ fromfh' = fromfh /\ did' = did
         \/ Return(c)
  BY DEF Stated
<1>2. /\ call' \in [Client -> Rpc] /\ call'[c].phase = "none" /\ call[c].phase = "replied"
      /\ \A d \in Client : d # c => call'[d] = call[d]
      /\ UNCHANGED <<serverVars, tree, load, faults>> /\ asks' = asks /\ load' = load
  BY <1>1, AnsweredFacts
<1>3. ClientFits(c) /\ sys[c] # NoCall /\ Asking(c)
  BY <1>2, UnderWay
<1>4. CASE Return(c)
  BY <1>1, <1>3, <1>4, ReturnKeeps, ClientVarTypes DEF ClientFits
<1>5. CASE todo' = [todo EXCEPT ![c] = Tail(@)] /\ sys' = sys /\ fromfh' = fromfh /\ did' = did
  <2>1. todo' \in [Client -> Seq(Node)]
    BY <1>1, <1>5, ClientVarTypes, HeadTailProperties
  <2>2. TypeOK'
    BY <1>1, <1>2, <1>5, <2>1, ClientTypes, ClientVarTypes
  <2>3. ClientFits(c)'
    <3>1. Asking(c)'
      BY <1>2, <1>3, <1>5 DEF Asking
    <3> QED
      BY <1>1, <1>2, <1>3, <1>5, <3>1 DEF ClientFits
  <2>4. \A d \in Client : d # c => Elsewhere(d)
    BY <1>1, <1>2, <1>5, ClientVarTypes DEF Elsewhere
  <2> QED
    BY <1>2, <2>2, <2>3, <2>4, OneClient
<1> QED
  BY <1>1, <1>4, <1>5

\* The maps of a client when it forgets a path, a handle, or everything.
LEMMA ForgetTypes ==
    ASSUME TypeOK, NEW c \in Client
    PROVE  /\ \A p : [pathtofh EXCEPT ![c][p] = NoFh] \in [Client -> PathMap]
           /\ \A h : [fhtopath EXCEPT ![c][h] = NoPath] \in [Client -> FhMap]
           /\ [pathtofh EXCEPT ![c] = ClientPaths] \in [Client -> PathMap]
           /\ [fhtopath EXCEPT ![c] = ClientFhs] \in [Client -> FhMap]
           /\ ClientPaths[Root] = 0
<1>1. pathtofh \in [Client -> PathMap] /\ fhtopath \in [Client -> FhMap]
  BY ClientVarTypes
<1>2. \A p : [pathtofh[c] EXCEPT ![p] = NoFh] \in PathMap
  BY <1>1 DEF PathMap
<1>3. \A h : [fhtopath[c] EXCEPT ![h] = NoPath] \in FhMap
  BY <1>1 DEF FhMap
<1>4. ClientPaths \in PathMap /\ ClientFhs \in FhMap /\ ClientPaths[Root] = 0
  BY RootIsNode, MaxFhAssumption DEF ClientPaths, ClientFhs, PathMap, FhMap, Fh
<1> QED
  BY <1>1, <1>2, <1>3, <1>4

LEMMA EndsKeep ==
    ASSUME TypeOK, Shape, NEW c \in Client,
           Passed(c) \/ Removed(c) \/ MovesOver(c) \/ MovesNew(c) \/ Aborts(c)
    PROVE  TypeOK' /\ Shape'
<1>1. Answered(c) /\ Return(c)
  BY DEF Passed, Removed, MovesOver, MovesNew, Aborts, Moves
<1>2. call[c].phase = "replied"
  BY <1>1, AnsweredFacts
<1>3. /\ sys[c] # NoCall /\ sys[c].path \in Path /\ sys[c].to \in Path /\ pathtofh[c][Root] = 0
      /\ call[c].req.command = "rmdir" => sys[c].path # Root
      /\ call[c].req.command = "rename" => sys[c].path # Root /\ sys[c].to # Root
  <2>1. sys[c] \in FT!Asked /\ Asking(c) /\ ClientFits(c) /\ sys[c] # NoCall
    BY <1>2, UnderWay
  <2>2. call[c].req.command \in {"rmdir", "rename"} => sys[c].cb = call[c].req.command
    BY <1>2, UnderWay
  <2> QED
    BY <2>1, <2>2, RootIsNode DEF FT!Asked, Asking, ClientFits
<1>4. pathtofh \in [Client -> PathMap] /\ fhtopath \in [Client -> FhMap]
  BY ClientVarTypes
<1>5. /\ pathtofh' \in [Client -> PathMap] /\ fhtopath' \in [Client -> FhMap]
      /\ pathtofh'[c][Root] = 0 /\ \A d \in Client : d # c => pathtofh'[d] = pathtofh[d]
  <2>1. CASE Passed(c)
    BY <1>3, <1>4, <2>1 DEF Passed
  <2>2. CASE Removed(c)
    <3>1. pathtofh' = [pathtofh EXCEPT ![c][sys[c].path] = NoFh] /\ sys[c].path # Root
      BY <1>3, <2>2 DEF Removed
    <3>2. fhtopath' \in [Client -> FhMap]
      BY <2>2, ForgetTypes DEF Removed
    <3> QED
      BY <1>3, <1>4, <3>1, <3>2, ForgetTypes, RootIsNode DEF PathMap
  <2>3. CASE MovesOver(c)
    <3> DEFINE f == FromFh(c)
               g == ToFh(c)
               p == sys[c].path
               q == sys[c].to
    <3>1. /\ pathtofh' = [pathtofh EXCEPT ![c][p] = NoFh, ![c][q] = f]
          /\ fhtopath' = [fhtopath EXCEPT ![c][g] = NoPath, ![c][f] = q]
          /\ p # Root /\ q # Root /\ p \in Path /\ q \in Path
      BY <1>3, <2>3 DEF MovesOver, Moves
    <3>2. f \in Fh
      BY <1>3, <1>4, MaxFhAssumption DEF FromFh, PathMap, Fh
    <3> HIDE DEF f, g, p, q
    <3>3. [[pathtofh[c] EXCEPT ![p] = NoFh] EXCEPT ![q] = f] \in PathMap
      BY <1>4, <3>1, <3>2 DEF PathMap
    <3>4. [[fhtopath[c] EXCEPT ![g] = NoPath] EXCEPT ![f] = q] \in FhMap
      BY <1>4, <3>1, <3>2 DEF FhMap
    <3>5. /\ pathtofh'[c] = [[pathtofh[c] EXCEPT ![p] = NoFh] EXCEPT ![q] = f]
          /\ \A d \in Client : d # c => pathtofh'[d] = pathtofh[d]
      BY <1>4, <3>1
    <3>6. fhtopath'[c] = [[fhtopath[c] EXCEPT ![g] = NoPath] EXCEPT ![f] = q]
      BY <1>4, <3>1
    <3>7. pathtofh'[c][Root] = 0
      BY <1>3, <1>4, <3>1, <3>5, RootIsNode DEF PathMap
    <3> QED
      BY <1>4, <3>1, <3>3, <3>4, <3>5, <3>6, <3>7
  <2>4. CASE MovesNew(c)
    <3>1. pathtofh' = [pathtofh EXCEPT ![c][sys[c].path] = NoFh] /\ sys[c].path # Root
      BY <1>3, <2>4 DEF MovesNew, Moves
    <3>2. fhtopath' \in [Client -> FhMap]
      BY <2>4, ForgetTypes DEF MovesNew
    <3> QED
      BY <1>3, <1>4, <3>1, <3>2, ForgetTypes, RootIsNode DEF PathMap
  <2>5. CASE Aborts(c)
    BY <1>4, <2>5, ForgetTypes DEF Aborts
  <2> QED
    BY <2>1, <2>2, <2>3, <2>4, <2>5
<1> QED
  BY <1>1, <1>5, ReturnKeeps

LEMMA RetryKeeps ==
    ASSUME TypeOK, Shape, NEW c \in Client, Retry(c)
    PROVE  TypeOK' /\ Shape'
<1>1. /\ call[c].phase = "failed" /\ call' = [call EXCEPT ![c] = NoRpc]
      /\ pathtofh' = [pathtofh EXCEPT ![c] = ClientPaths] /\ fhtopath' = [fhtopath EXCEPT ![c] = ClientFhs]
      /\ fromfh' = [fromfh EXCEPT ![c] = @] \/ fromfh' = [fromfh EXCEPT ![c] = NoFh]
      /\ UNCHANGED <<serverVars, tree, load, faults>>
      /\ sys' = sys /\ todo' = todo /\ asks' = asks /\ did' = did /\ load' = load
  BY DEF Retry
<1>2. ClientFits(c) /\ sys[c] # NoCall /\ Asking(c)
  BY <1>1, UnderWay
<1>3. /\ call' \in [Client -> Rpc] /\ call'[c].phase = "none"
      /\ fromfh' \in [Client -> Fh \cup {NoFh}] /\ fromfh'[c] \in {NoFh, fromfh[c]}
  BY <1>1, ClientVarTypes DEF NoRpc
<1>4. TypeOK'
  BY <1>1, <1>3, ClientTypes, ClientVarTypes, ForgetTypes
<1>5. ClientFits(c)'
  <2>1. Asking(c)'
    BY <1>1, <1>2 DEF Asking
  <2>2. pathtofh'[c][Root] = 0
    BY <1>1, ClientVarTypes, ForgetTypes
  <2> QED
    BY <1>1, <1>2, <1>3, <2>1, <2>2 DEF ClientFits
<1>6. \A d \in Client : d # c => Elsewhere(d)
  BY <1>1, ClientVarTypes DEF Elsewhere
<1> QED
  BY <1>1, <1>4, <1>5, <1>6, OneClient

\* Whatever the applications ask for and whatever fails, every variable has its type:
\* what a crash leaves of the files is never taken for a map, and the table and the maps
\* of the clients hold paths and handles.
THEOREM NamespaceTypeCorrect == Spec => [](TypeOK /\ Shape)
<1>1. Init => TypeOK /\ Shape
  BY InitFacts
<1>2. TypeOK /\ Shape /\ [Next]_vars => TypeOK' /\ Shape'
  <2> SUFFICES ASSUME TypeOK, Shape, [Next]_vars
               PROVE  TypeOK' /\ Shape'
    OBVIOUS
  <2>1. CASE UNCHANGED vars
    <3>1. UNCHANGED clientVars /\ up' = up /\ table' = table /\ log' = log /\ tree' = tree
          /\ did' = did /\ call' = call /\ faults' = faults
      BY <2>1 DEF vars, serverVars
    <3>2. CallsGoOn
      BY <3>1, ClientVarTypes DEF CallsGoOn
    <3>3. /\ up \in BOOLEAN /\ table \in Table /\ log \in Log /\ tree \in FT!Tree /\ Rooted(tree)
          /\ did \subseteq Client
          /\ faults \in [lost : 0 .. load.lost, crash : 0 .. load.crash, torn : 0 .. load.torn]
      BY DEF TypeOK, Rooted
    <3>4. Rooted(tree')
      BY <3>1, <3>3
    <3> QED
      BY <3>1, <3>2, <3>3, <3>4, ServerTypes, ClientsStay
  <2>2. ASSUME NEW c \in Client, Proceed(c)
        PROVE  TypeOK' /\ Shape'
    <3>1. CASE SendLookup(c) \/ SendCall(c)
      BY <3>1, SendKeeps DEF SendLookup, SendCall
    <3>2. CASE TakeFrom(c)
      BY <3>2, TakeFromKeeps
    <3>3. CASE GotHandle(c)
      BY <3>3, GotHandleKeeps
    <3>4. CASE Stated(c)
      BY <3>4, StatedKeeps
    <3>5. CASE Passed(c) \/ Removed(c) \/ MovesOver(c) \/ MovesNew(c) \/ Aborts(c)
      BY <3>5, EndsKeep
    <3>6. CASE Retry(c)
      BY <3>6, RetryKeeps
    <3> QED
      BY <2>2, <3>1, <3>2, <3>3, <3>4, <3>5, <3>6 DEF Proceed
  <2>3. ASSUME NEW c \in Client, Ask(c) \/ ServeCall(c)
        PROVE  TypeOK' /\ Shape'
    BY <2>3, AskKeeps, ServerKeeps
  <2>4. CASE \/ \E c \in Client : Lose(c) \/ Refuse(c) \/ CrashInStore(c) \/ CrashInCall(c)
             \/ Crash \/ Restart
    BY <2>4, FaultsKeep
  <2>5. CASE Finished
    BY <2>1, <2>5 DEF Finished
  <2> QED
    BY <2>1, <2>2, <2>3, <2>4, <2>5 DEF Next
<1> QED
  BY <1>1, <1>2, PTL DEF Spec


-----------------------------------------------------------------------------
(* Every path of a handle is in the map from paths.                         *)

\* A map from handles leads to the root, or to a path that leads back.
Back(p2f, f2p) ==
    /\ p2f[Root] # NoFh
    /\ \A h \in Fh : f2p[h] # NoPath => f2p[h] = Root \/ p2f[f2p[h]] = h

BackTable(t) == Back(t.pathToFh, t.fhToPath)
BackLog(l) ==
    \/ l = NoLog
    \/ /\ l.pathToFh # Unreadable /\ l.fhToPath # Unreadable
       /\ Back(l.pathToFh, l.fhToPath)

\* So it does in the table, and in the files unless a crash tore them.
Backs == faults.torn = 0 => BackTable(table) /\ BackLog(log)

LEMMA BackNew == BackTable(NewTable) /\ BackLog(NoLog)
<1>1. NewTable.pathToFh[Root] = 0
  BY RootIsNode DEF NewTable
<1>2. \A h \in Fh : NewTable.fhToPath[h] # NoPath => NewTable.fhToPath[h] = Root
  BY DEF NewTable
<1> QED
  BY <1>1, <1>2 DEF BackTable, BackLog, Back, NoFh

LEMMA BackFound ==
    ASSUME NEW t \in Table, NEW l \in Log, BackTable(t), BackLog(l), NEW h
    PROVE  BackTable(Found(t, l, h))
<1>1. CASE l = NoLog
  <2>1. Loaded(t, l).pathToFh = t.pathToFh /\ Loaded(t, l).fhToPath = t.fhToPath
    BY <1>1 DEF Loaded, NoLog, Table
  <2> QED
    BY <2>1 DEF Found, BackTable
<1>2. CASE l # NoLog
  <2>1. /\ l.pathToFh # Unreadable /\ l.fhToPath # Unreadable
        /\ Back(l.pathToFh, l.fhToPath)
    BY <1>2 DEF BackLog
  <2>2. Loaded(t, l).pathToFh = l.pathToFh /\ Loaded(t, l).fhToPath = l.fhToPath
    BY <2>1 DEF Loaded, Table
  <2> QED
    BY <2>1, <2>2 DEF Found, BackTable
<1> QED
  BY <1>1, <1>2

LEMMA BackAdd ==
    ASSUME NEW t \in Table, BackTable(t), NEW p \in Path, Mapped(t, p) \/ t.fhcount \in Fh
    PROVE  BackTable(AddLookup(t, p))
<1>1. CASE Mapped(t, p)
  BY <1>1 DEF AddLookup
<1>2. CASE ~Mapped(t, p)
  <2> DEFINE u == AddLookup(t, p)
             n == t.fhcount
  <2>1. n \in Fh /\ t.pathToFh \in PathMap /\ t.fhToPath \in FhMap /\ t.pathToFh[p] = NoFh
    BY <1>2 DEF Table, Mapped
  <2>2. u.pathToFh = [t.pathToFh EXCEPT ![p] = n] /\ u.fhToPath = [t.fhToPath EXCEPT ![n] = p]
    BY <1>2 DEF AddLookup
  <2> HIDE DEF u, n
  <2>3. p # Root /\ t.pathToFh[Root] # NoFh
    BY <2>1 DEF BackTable, Back
  <2>4. u.pathToFh[Root] # NoFh
    BY <2>1, <2>2, <2>3, RootIsNode DEF PathMap
  <2>5. ASSUME NEW h \in Fh, u.fhToPath[h] # NoPath, u.fhToPath[h] # Root
        PROVE  u.pathToFh[u.fhToPath[h]] = h
    <3>1. CASE h = n
      BY <2>1, <2>2, <3>1 DEF PathMap, FhMap
    <3>2. CASE h # n
      <4>1. u.fhToPath[h] = t.fhToPath[h] /\ t.fhToPath[h] \in Path
        BY <2>1, <2>2, <2>5, <3>2 DEF FhMap
      <4>2. t.pathToFh[t.fhToPath[h]] = h
        BY <2>5, <4>1 DEF BackTable, Back
      <4>3. t.fhToPath[h] # p
        BY <2>1, <4>2, MaxFhAssumption DEF Fh, NoFh
      <4> QED
        BY <2>1, <2>2, <4>1, <4>2, <4>3 DEF PathMap
    <3> QED
      BY <3>1, <3>2
  <2> QED
    BY <2>4, <2>5 DEF BackTable, Back, u
<1> QED
  BY <1>1, <1>2

\* What is stored is what the table holds.
LEMMA BackStored ==
    ASSUME NEW t \in Table, BackTable(t)
    PROVE  BackLog(Stored(t))
BY PathAssumption DEF BackLog, BackTable, Stored, Table

LEMMA BackLogAdd ==
    ASSUME NEW t \in Table, BackTable(t), NEW l, BackLog(l), NEW p \in Path,
           Mapped(t, p) \/ t.fhcount \in Fh
    PROVE  BackLog(LogAfterAdd(t, l, p))
BY BackAdd, BackStored, AddLookupType DEF LogAfterAdd

LEMMA BackAddAll ==
    ASSUME NEW t \in Table, BackTable(t), NEW P \in SUBSET Path, IsFiniteSet(P),
           AddAll(t, P).fhcount - 1 \in Fh
    PROVE  BackTable(AddAll(t, P))
<1> DEFINE u == AddAll(t, P)
           new == Fresh(t, P)
           next == Numbers(t, P)
<1>1. \A p \in Path : p \notin new => u.pathToFh[p] = t.pathToFh[p]
  BY AddAllFacts
<1>2. \A h \in Fh : IF h \in next THEN u.fhToPath[h] \in new /\ u.pathToFh[u.fhToPath[h]] = h
                    ELSE u.fhToPath[h] = t.fhToPath[h]
  BY AddAllFacts
<1>3. \A p \in new : p \in Path /\ t.pathToFh[p] = NoFh
  BY DEF Fresh, Mapped
<1>4. t.fhToPath \in FhMap /\ t.pathToFh[Root] # NoFh
  BY DEF Table, BackTable, Back
<1> HIDE DEF u, new, next
<1>5. u.pathToFh[Root] # NoFh
  BY <1>1, <1>3, <1>4, RootIsNode
<1>6. ASSUME NEW h \in Fh, u.fhToPath[h] # NoPath, u.fhToPath[h] # Root
      PROVE  u.pathToFh[u.fhToPath[h]] = h
  <2>1. CASE h \in next
    BY <1>2, <2>1
  <2>2. CASE h \notin next
    <3>1. u.fhToPath[h] = t.fhToPath[h] /\ t.fhToPath[h] \in Path
      BY <1>2, <1>4, <1>6, <2>2 DEF FhMap
    <3>2. t.pathToFh[t.fhToPath[h]] = h
      BY <1>6, <3>1 DEF BackTable, Back
    <3>3. t.fhToPath[h] \notin new
      BY <1>3, <3>2, MaxFhAssumption DEF Fh, NoFh
    <3> QED
      BY <1>1, <3>1, <3>2, <3>3
  <2> QED
    BY <2>1, <2>2
<1> QED
  BY <1>5, <1>6 DEF BackTable, Back, u

LEMMA BackWithDir ==
    ASSUME NEW t \in Table, BackTable(t), NEW h \in Fh
    PROVE  BackTable(WithDir(t, h))
BY DEF BackTable, Back, WithDir, Table, FhMap

\* What a rename moves is a path of the table, and not the root.
LEMMA RenameFacts ==
    ASSUME TypeOK, NEW r \in Request, Renames(r), FT!Succeeds(tree, RenameCall(r))
    PROVE  /\ SeenBoth(r) \in Table
           /\ SeenBoth(r).fhToPath[r.fh] \in Path \ {Root}
<1> DEFINE t == SeenBoth(r)
           p == t.fhToPath[r.fh]
<1>1. t \in Table /\ r.fh \in Fh
  BY SeenTypes DEF Request
<1>2. p = PathOf(SeenDir(r), log, r.fh) /\ p # NoPath
  BY DEF Renames, Resolves, PathOf, Known, SeenBoth
<1>3. p \in Path
  BY <1>1, <1>2 DEF Table, FhMap
<1>4. RenameCall(r).path = Location(p) /\ RenameCall(r).cb = "rename"
  BY <1>2 DEF RenameCall, Syscall
<1>5. Location(p) # <<>>
  BY <1>4 DEF FT!Succeeds, FT!CanRename
<1>6. Location(Root) = <<>>
  BY RootIsNode DEF Location, Plain
<1> QED
  BY <1>1, <1>3, <1>5, <1>6

LEMMA BackOver ==
    ASSUME NEW t \in Table, BackTable(t), NEW r \in Request, <<r.name>> \in Path,
           t.fhToPath[r.fh] \in Path \ {Root}
    PROVE  BackTable(Over(t, r))
<1> DEFINE p == t.fhToPath[r.fh]
           f == r.fh
           q == <<r.name>>
           g == t.pathToFh[q]
           u == Over(t, r)
<1>1. t.pathToFh \in PathMap /\ t.fhToPath \in FhMap /\ f \in Fh /\ q # Root /\ q \in Path /\ p \in Path
  BY RootIsNode DEF Table, Request
<1>2. /\ u.pathToFh = [[t.pathToFh EXCEPT ![p] = NoFh] EXCEPT ![q] = f]
      /\ u.fhToPath = [[t.fhToPath EXCEPT ![g] = NoPath] EXCEPT ![f] = q]
  BY DEF Over
<1>3. t.pathToFh[p] = f /\ p # Root /\ t.pathToFh[Root] # NoFh
  BY <1>1, PathAssumption DEF BackTable, Back
<1>4. \A h \in Fh : t.fhToPath[h] # NoPath => t.fhToPath[h] = Root \/ t.pathToFh[t.fhToPath[h]] = h
  BY DEF BackTable, Back
<1>5. g = t.pathToFh[q] /\ p = t.fhToPath[f]
  OBVIOUS
<1> HIDE DEF p, f, q, g, u
<1>6. u.pathToFh[Root] # NoFh
  BY <1>1, <1>2, <1>3, RootIsNode DEF PathMap
<1>7. \A x \in Path : u.pathToFh[x] = IF x = q THEN f ELSE IF x = p THEN NoFh ELSE t.pathToFh[x]
  BY <1>1, <1>2 DEF PathMap
<1>8. \A h \in Fh : u.fhToPath[h] = IF h = f THEN q ELSE IF h = g THEN NoPath ELSE t.fhToPath[h]
  BY <1>1, <1>2 DEF FhMap
<1>9. ASSUME NEW h \in Fh, u.fhToPath[h] # NoPath, u.fhToPath[h] # Root
      PROVE  u.pathToFh[u.fhToPath[h]] = h
  <2>1. CASE h = f
    BY <1>1, <1>7, <1>8, <2>1
  <2>2. CASE h # f
    <3>1. h # g /\ u.fhToPath[h] = t.fhToPath[h] /\ t.fhToPath[h] \in Path
      BY <1>1, <1>8, <1>9, <2>2 DEF FhMap
    <3>2. t.pathToFh[t.fhToPath[h]] = h
      BY <1>4, <1>9, <3>1
    <3>3. t.fhToPath[h] # p /\ t.fhToPath[h] # q
      BY <1>3, <1>5, <2>2, <3>1, <3>2
    <3> QED
      BY <1>7, <3>1, <3>2, <3>3
  <2> QED
    BY <2>1, <2>2
<1> QED
  BY <1>6, <1>9 DEF BackTable, Back, u

LEMMA BackGone ==
    ASSUME NEW t \in Table, BackTable(t), NEW r \in Request, t.fhToPath[r.fh] \in Path \ {Root}
    PROVE  BackTable(Gone(t, r))
<1> DEFINE p == t.fhToPath[r.fh]
           f == r.fh
           u == Gone(t, r)
<1>1. t.pathToFh \in PathMap /\ t.fhToPath \in FhMap /\ f \in Fh /\ p \in Path /\ p # Root
  BY DEF Table, Request
<1>2. u.pathToFh = [t.pathToFh EXCEPT ![p] = NoFh] /\ u.fhToPath = [t.fhToPath EXCEPT ![f] = NoPath]
  BY DEF Gone
<1>3. t.pathToFh[p] = f /\ t.pathToFh[Root] # NoFh
  BY <1>1, PathAssumption DEF BackTable, Back
<1>4. \A h \in Fh : t.fhToPath[h] # NoPath => t.fhToPath[h] = Root \/ t.pathToFh[t.fhToPath[h]] = h
  BY DEF BackTable, Back
<1> HIDE DEF p, f, u
<1>5. u.pathToFh[Root] # NoFh
  BY <1>1, <1>2, <1>3, RootIsNode DEF PathMap
<1>6. ASSUME NEW h \in Fh, u.fhToPath[h] # NoPath, u.fhToPath[h] # Root
      PROVE  u.pathToFh[u.fhToPath[h]] = h
  <2>1. h # f /\ u.fhToPath[h] = t.fhToPath[h] /\ t.fhToPath[h] \in Path
    BY <1>1, <1>2, <1>6 DEF FhMap
  <2>2. t.pathToFh[t.fhToPath[h]] = h
    BY <1>4, <1>6, <2>1
  <2>3. t.fhToPath[h] # p
    BY <1>3, <2>1, <2>2
  <2> QED
    BY <1>1, <1>2, <2>1, <2>2, <2>3 DEF PathMap
<1> QED
  BY <1>5, <1>6 DEF BackTable, Back, u


\* So no handler loses a path of a handle.
LEMMA ServeBacks ==
    ASSUME TypeOK, BackTable(table), BackLog(log), NEW c \in Client, NEW r \in Request,
           Serve(c, r), table'.fhcount - 1 \in Fh
    PROVE  BackTable(table') /\ BackLog(log')
<1>1. table \in Table /\ log \in Log /\ r.fh \in Fh /\ r.path \in Path /\ r.name \in Names
  BY DEF TypeOK, Request
<1>2. /\ Seen(r) \in Table /\ SeenDir(r) \in Table /\ SeenBoth(r) \in Table
      /\ BackTable(Seen(r)) /\ BackTable(SeenDir(r)) /\ BackTable(SeenBoth(r))
  BY <1>1, SeenTypes, BackFound DEF Seen, SeenDir, SeenBoth
<1>3. CASE ServeLookup(c, r)
  <2> DEFINE t == WithDir(table, r.fh)
             p == Append(t.fhToPath[r.fh], r.name)
  <2>1. t \in Table /\ BackTable(t)
    BY <1>1, WithDirType, BackWithDir
  <2>2. p \in Path /\ table' = AddLookup(t, p) /\ log' = LogAfterAdd(t, log, p)
    BY <1>3 DEF ServeLookup, Looked
  <2> HIDE DEF t, p
  <2>3. Mapped(t, p) \/ t.fhcount \in Fh
    BY <2>1, <2>2, RoomToAdd
  <2> QED
    BY <2>1, <2>2, <2>3, BackAdd, BackLogAdd
<1>4. CASE ServeUnresolved(c, r) \/ ServeRemove(c, r)
  <2>1. table' = Seen(r) /\ log' = log
    BY <1>4 DEF ServeUnresolved, ServeRemove
  <2> QED
    BY <1>2, <2>1
<1>5. CASE ServeAdd(c, r)
  <2> DEFINE t == Seen(r)
             p == Within(r)
  <2>1. /\ p \in Path
        /\ \/ table' = t /\ log' = log
           \/ table' = AddLookup(t, p) /\ log' = LogAfterAdd(t, log, p)
    BY <1>5 DEF ServeAdd
  <2>2. t \in Table /\ BackTable(t)
    BY <1>2
  <2> HIDE DEF t, p
  <2>3. CASE table' = AddLookup(t, p) /\ log' = LogAfterAdd(t, log, p)
    <3>1. Mapped(t, p) \/ t.fhcount \in Fh
      BY <2>1, <2>2, <2>3, RoomToAdd
    <3> QED
      BY <2>1, <2>2, <2>3, <3>1, BackAdd, BackLogAdd
  <2> QED
    BY <2>1, <2>2, <2>3
<1>6. CASE ServeReaddir(c, r)
  <2> DEFINE q == PathOf(table, log, r.fh)
             P == {Append(q, n) : n \in Entries(Location(q))}
             t == Seen(r)
  <2>1. \/ table' = t /\ log' = log
        \/ /\ P \in SUBSET Path /\ table' = AddAll(t, P)
           /\ log' = log \/ log' = Stored(AddAll(t, P))
    BY <1>6 DEF ServeReaddir
  <2>2. t \in Table /\ BackTable(t) /\ IsFiniteSet(P)
    BY <1>2, EntriesFinite
  <2> HIDE DEF t, q, P
  <2>3. CASE /\ P \in SUBSET Path /\ table' = AddAll(t, P)
             /\ log' = log \/ log' = Stored(AddAll(t, P))
    <3>1. BackTable(table') /\ table' \in Table
      BY <2>2, <2>3, BackAddAll, AddAllType
    <3> QED
      BY <2>3, <3>1, BackStored
  <2> QED
    BY <2>1, <2>2, <2>3
<1>7. CASE ServeGetattr(c, r)
  <2> DEFINE t == Seen(r)
             p == r.path
  <2>1. \/ table' = t /\ log' = log
        \/ table' = AddLookup(t, p) /\ log' = LogAfterAdd(t, log, p)
    BY <1>7 DEF ServeGetattr
  <2>2. t \in Table /\ BackTable(t) /\ p \in Path
    BY <1>1, <1>2
  <2> HIDE DEF t, p
  <2>3. CASE table' = AddLookup(t, p) /\ log' = LogAfterAdd(t, log, p)
    <3>1. Mapped(t, p) \/ t.fhcount \in Fh
      BY <2>2, <2>3, RoomToAdd
    <3> QED
      BY <2>2, <2>3, <3>1, BackAdd, BackLogAdd
  <2> QED
    BY <2>1, <2>2, <2>3
<1>8. CASE ServeRenameUnresolved(c, r) \/ ServeRenameRefused(c, r)
  <2>1. table' \in {SeenBoth(r), SeenDir(r)} /\ log' = log
    BY <1>8 DEF ServeRenameUnresolved, ServeRenameRefused
  <2> QED
    BY <1>2, <2>1
<1>9. CASE ServeRenameOver(c, r)
  <2>1. table' = Over(SeenBoth(r), r) /\ log' = log
    BY <1>9 DEF ServeRenameOver
  <2>2. SeenBoth(r).fhToPath[r.fh] \in Path \ {Root}
    BY <1>9, RenameFacts DEF ServeRenameOver
  <2> QED
    BY <1>1, <1>2, <2>1, <2>2, NameInRoot, BackOver
<1>10. CASE ServeRenameNew(c, r)
  <2> DEFINE t == SeenBoth(r)
             q == NewPath(t, r)
             u == AddLookup(t, q)
  <2>1. t \in Table /\ BackTable(t) /\ t.fhToPath[r.fh] \in Path \ {Root}
    BY <1>2, <1>10, RenameFacts DEF ServeRenameNew
  <2>2. CASE ~Known(t, r.todirfh)
    <3>1. table' = t /\ log' = log
      BY <1>10, <2>2 DEF ServeRenameNew
    <3> QED
      BY <2>1, <3>1
  <2>3. CASE Known(t, r.todirfh)
    <3>1. q \in Path /\ table' = Gone(u, r) /\ log' = LogAfterAdd(t, log, q)
      BY <1>10, <2>3 DEF ServeRenameNew
    <3>2. q # Root
      <4>1. t.fhToPath[r.todirfh] \in Path
        BY <2>1, <2>3 DEF Known, Table, FhMap, Request
      <4> QED
        BY <4>1, AppendFacts, PathIsSeq DEF NewPath
    <3> HIDE DEF t, q
    <3>3. Gone(u, r).fhcount = u.fhcount
      BY DEF Gone, AddLookup
    <3>4. Mapped(t, q) \/ t.fhcount \in Fh
      BY <2>1, <3>1, <3>3, RoomToAdd
    <3>5. u \in Table /\ BackTable(u) /\ BackLog(log')
      BY <2>1, <3>1, <3>4, AddLookupType, BackAdd, BackLogAdd
    <3>6. u.fhToPath[r.fh] \in Path \ {Root}
      BY <1>1, <2>1, <3>1, <3>2 DEF AddLookup, Table, FhMap
    <3> QED
      BY <3>1, <3>5, <3>6, BackGone
  <2> QED
    BY <2>2, <2>3
<1> QED
  BY <1>3, <1>4, <1>5, <1>6, <1>7, <1>8, <1>9, <1>10 DEF Serve

\* For all clients and faults: unless a crash tears the files, every path that a
\* handle of the server stands for is in its map from paths, whatever restarted
\* servers renumber and whatever is renamed over whatever.
THEOREM PathsStayMapped == Spec => []PathsMapped
<1>1. Init => Backs
  BY BackNew DEF Init, Backs
<1>2. TypeOK /\ Backs /\ [Next]_vars => Backs'
  <2> SUFFICES ASSUME TypeOK, BackTable(table), BackLog(log), [Next]_vars, faults'.torn = 0,
                      faults.torn = 0
               PROVE  BackTable(table') /\ BackLog(log')
    <3>1. ASSUME TypeOK, [Next]_vars, faults'.torn = 0 PROVE faults.torn = 0
      <4>1. faults \in [lost : 0 .. load.lost, crash : 0 .. load.crash, torn : 0 .. load.torn]
        BY <3>1 DEF TypeOK
      <4>2. \/ faults' = faults \/ faults' = [faults EXCEPT !.lost = @ + 1]
            \/ faults' = [faults EXCEPT !.crash = @ + 1] \/ faults' = [faults EXCEPT !.torn = @ + 1]
        <5>1. CASE UNCHANGED vars
          BY <5>1 DEF vars
        <5>2. CASE Next
          BY <5>2 DEF Next, Ask, Proceed, SendLookup, SendCall, Send, TakeFrom, GotHandle, Stated,
             Passed, Removed, MovesOver, MovesNew, Aborts, Moves, Answered, Retry, ServeCall,
             Lose, Refuse, CrashInStore, CrashInCall, Crash, Restart, Finished, vars
        <5> QED
          BY <3>1, <5>1, <5>2
      <4> QED
        BY <3>1, <4>1, <4>2, LoadFacts
    <3> QED
      BY <3>1 DEF Backs, BackTable, BackLog
  <2>1. CASE table' = table /\ log' = log
    BY <2>1
  <2>2. CASE Dies /\ log' = log
    BY <2>2, BackNew DEF Dies
  <2>3. ASSUME NEW c \in Client, ServeCall(c)
        PROVE  BackTable(table') /\ BackLog(log')
    <3>1. call[c].req \in Request
      BY DEF TypeOK
    <3> QED
      BY <2>3, <3>1, ServeBacks DEF ServeCall
  <2>4. ASSUME NEW c \in Client, CrashInStore(c)
        PROVE  FALSE
    <3>1. faults' = [faults EXCEPT !.torn = @ + 1]
      BY <2>4 DEF CrashInStore
    <3>2. faults'.torn = 0 + 1
      BY <3>1 DEF TypeOK
    <3> QED
      BY <3>2
  <2>5. CASE UNCHANGED vars
    BY <2>1, <2>5 DEF vars, serverVars
  <2>6. CASE \E c \in Client : Ask(c) \/ Lose(c) \/ Refuse(c)
    BY <2>1, <2>6 DEF Ask, Lose, Refuse, serverVars
  <2>7. ASSUME NEW c \in Client, Proceed(c) PROVE table' = table /\ log' = log
    BY <2>7 DEF Proceed, SendLookup, SendCall, Send, TakeFrom, GotHandle, Stated,
       Passed, Removed, MovesOver, MovesNew, Aborts, Moves, Answered, Retry, serverVars
  <2>8. CASE Restart
    BY <2>1, <2>8 DEF Restart
  <2>9. CASE Crash \/ \E c \in Client : CrashInCall(c)
    BY <2>2, <2>9 DEF Crash, CrashInCall
  <2> QED
    BY <2>1, <2>3, <2>4, <2>5, <2>6, <2>7, <2>8, <2>9 DEF Next, Finished
<1>3. TypeOK /\ Backs => PathsMapped
  <2> SUFFICES ASSUME TypeOK, BackTable(table), NEW h \in Fh, Known(table, h)
               PROVE  Mapped(table, table.fhToPath[h])
    BY DEF Backs, PathsMapped
  <2>1. \/ table.fhToPath[h] = Root /\ table.pathToFh[Root] # NoFh
        \/ table.pathToFh[table.fhToPath[h]] = h
    BY DEF Known, BackTable, Back
  <2> QED
    BY <2>1, MaxFhAssumption DEF Mapped, Fh, NoFh
<1> QED
  BY <1>1, <1>2, <1>3, NamespaceTypeCorrect, PTL DEF Spec


-----------------------------------------------------------------------------
(* The two maps of the server are inverse to each other.                    *)

\* Handle 0 is the root, the maps are inverse, and handles from n on are unused.
Inv(p2f, f2p, n) ==
    /\ f2p[0] = Root
    /\ \A p \in Path, h \in Fh : p2f[p] = h <=> f2p[h] = p
    /\ \A h \in Fh : f2p[h] # NoPath => h < n

InvTable(t) == Inv(t.pathToFh, t.fhToPath, t.fhcount)
InvLog(l, n) ==
    \/ l = NoLog
    \/ /\ l.pathToFh # Unreadable /\ l.fhToPath # Unreadable
       /\ Inv(l.pathToFh, l.fhToPath, n)

LEMMA InvNew == InvTable(NewTable) /\ \A n : InvLog(NoLog, n)
<1>1. \A p \in Path : NewTable.pathToFh[p] = IF p = Root THEN 0 ELSE NoFh
  BY DEF NewTable
<1>2. \A h \in Fh : NewTable.fhToPath[h] = IF h = 0 THEN Root ELSE NoPath
  BY DEF NewTable
<1>3. 0 \in Fh /\ NewTable.fhcount = 1 /\ \A h \in Fh : h # NoFh
  BY MaxFhAssumption DEF Fh, NewTable, NoFh
<1>4. Inv(NewTable.pathToFh, NewTable.fhToPath, 1)
  BY <1>1, <1>2, <1>3, RootIsNode, PathAssumption DEF Inv
<1> QED
  BY <1>3, <1>4 DEF InvTable, InvLog

LEMMA InvGrows ==
    ASSUME NEW l, NEW n \in Nat, NEW m \in Nat, n <= m, InvLog(l, n)
    PROVE  InvLog(l, m)
BY MaxFhAssumption DEF InvLog, Inv, Fh

LEMMA InvFound ==
    ASSUME NEW t \in Table, NEW l \in Log, InvTable(t), InvLog(l, t.fhcount), NEW h
    PROVE  InvTable(Found(t, l, h)) /\ Found(t, l, h).fhcount = t.fhcount
<1>1. Loaded(t, l).fhcount = t.fhcount
  BY DEF Loaded
<1>2. CASE l = NoLog
  <2>1. Loaded(t, l).pathToFh = t.pathToFh /\ Loaded(t, l).fhToPath = t.fhToPath
    BY <1>2 DEF Loaded, NoLog, Table
  <2> QED
    BY <1>1, <2>1 DEF Found, InvTable
<1>3. CASE l # NoLog
  <2>1. /\ l.pathToFh # Unreadable /\ l.fhToPath # Unreadable
        /\ Inv(l.pathToFh, l.fhToPath, t.fhcount)
    BY <1>3 DEF InvLog
  <2>2. Loaded(t, l).pathToFh = l.pathToFh /\ Loaded(t, l).fhToPath = l.fhToPath
    BY <2>1 DEF Loaded, Table
  <2> QED
    BY <1>1, <2>1, <2>2 DEF Found, InvTable
<1> QED
  BY <1>2, <1>3

\* The first map, path by path, follows from the second.
LEMMA InvMeans ==
    ASSUME NEW t \in Table, InvTable(t)
    PROVE  /\ t.pathToFh \in PathMap /\ t.fhToPath \in FhMap /\ t.fhcount \in Nat
           /\ t.fhToPath[0] = Root /\ t.pathToFh[Root] = 0 /\ 0 \in Fh /\ 0 < t.fhcount
           /\ \A p \in Path, h \in Fh : t.pathToFh[p] = h <=> t.fhToPath[h] = p
           /\ \A h \in Fh : t.fhToPath[h] # NoPath => h < t.fhcount /\ t.fhToPath[h] \in Path
           /\ \A p \in Path : t.pathToFh[p] # NoFh => t.pathToFh[p] \in Fh
           /\ \A h \in Fh : h # NoFh
<1>1. 0 \in Fh /\ \A h \in Fh : h # NoFh
  BY MaxFhAssumption DEF Fh, NoFh
<1>2. t.pathToFh \in PathMap /\ t.fhToPath \in FhMap /\ t.fhcount \in Nat
  BY DEF Table
<1>3. /\ t.fhToPath[0] = Root
      /\ \A p \in Path, h \in Fh : t.pathToFh[p] = h <=> t.fhToPath[h] = p
      /\ \A h \in Fh : t.fhToPath[h] # NoPath => h < t.fhcount
  BY DEF InvTable, Inv
<1>4. t.pathToFh[Root] = 0 /\ Root # NoPath
  BY <1>1, <1>3, RootIsNode, PathAssumption
<1>5. 0 < t.fhcount
  BY <1>1, <1>3, <1>4
<1>6. \A h \in Fh : t.fhToPath[h] # NoPath => t.fhToPath[h] \in Path
  BY <1>2 DEF FhMap
<1>7. \A p \in Path : t.pathToFh[p] # NoFh => t.pathToFh[p] \in Fh
  BY <1>2 DEF PathMap
<1> QED
  BY <1>1, <1>2, <1>3, <1>4, <1>5, <1>6, <1>7

LEMMA InvAdd ==
    ASSUME NEW t \in Table, InvTable(t), NEW p \in Path, Mapped(t, p) \/ t.fhcount \in Fh
    PROVE  InvTable(AddLookup(t, p)) /\ AddLookup(t, p).fhcount >= t.fhcount
<1>1. CASE Mapped(t, p)
  BY <1>1, InvMeans DEF AddLookup
<1>2. CASE ~Mapped(t, p)
  <2> DEFINE u == AddLookup(t, p)
             n == t.fhcount
  <2>1. n \in Fh /\ n \in Nat /\ t.pathToFh[p] = NoFh
    BY <1>2, InvMeans DEF Mapped
  <2>2. /\ u.pathToFh = [t.pathToFh EXCEPT ![p] = n] /\ u.fhToPath = [t.fhToPath EXCEPT ![n] = p]
        /\ u.fhcount = n + 1
    BY <1>2 DEF AddLookup
  <2>3. /\ t.pathToFh \in PathMap /\ t.fhToPath \in FhMap
        /\ t.fhToPath[0] = Root /\ 0 \in Fh /\ 0 < n
        /\ \A q \in Path, h \in Fh : t.pathToFh[q] = h <=> t.fhToPath[h] = q
        /\ \A h \in Fh : t.fhToPath[h] # NoPath => h < n
        /\ \A h \in Fh : h # NoFh
    BY InvMeans
  <2> HIDE DEF u, n
  <2>4. \A q \in Path : u.pathToFh[q] = IF q = p THEN n ELSE t.pathToFh[q]
    BY <2>2, <2>3 DEF PathMap
  <2>5. \A h \in Fh : u.fhToPath[h] = IF h = n THEN p ELSE t.fhToPath[h]
    BY <2>2, <2>3 DEF FhMap
  <2>6. t.fhToPath[n] = NoPath
    BY <2>1, <2>3
  <2>7. u.fhToPath[0] = Root
    BY <2>1, <2>3, <2>5
  <2>8. ASSUME NEW q \in Path, NEW h \in Fh
        PROVE  u.pathToFh[q] = h <=> u.fhToPath[h] = q
    <3>1. t.pathToFh[q] = h <=> t.fhToPath[h] = q
      BY <2>3
    <3>2. q # NoPath /\ h # NoFh
      BY <2>3, PathAssumption
    <3> QED
      BY <2>1, <2>4, <2>5, <2>6, <3>1, <3>2
  <2>9. ASSUME NEW h \in Fh, u.fhToPath[h] # NoPath PROVE h < u.fhcount
    <3>1. h \in Int
      BY DEF Fh
    <3>2. h = n \/ h < n
      BY <2>3, <2>5, <2>9
    <3> QED
      BY <2>1, <2>2, <3>1, <3>2
  <2>10. u.fhcount >= n
    BY <2>1, <2>2
  <2> QED
    BY <2>7, <2>8, <2>9, <2>10 DEF InvTable, Inv, u, n
<1> QED
  BY <1>1, <1>2

LEMMA InvStored ==
    ASSUME NEW t \in Table, InvTable(t)
    PROVE  InvLog(Stored(t), t.fhcount)
BY PathAssumption DEF InvLog, InvTable, Stored, Table

LEMMA InvLogAdd ==
    ASSUME NEW t \in Table, InvTable(t), NEW l, InvLog(l, t.fhcount), NEW p \in Path,
           Mapped(t, p) \/ t.fhcount \in Fh
    PROVE  InvLog(LogAfterAdd(t, l, p), AddLookup(t, p).fhcount)
<1>1. CASE Mapped(t, p)
  BY <1>1 DEF LogAfterAdd, AddLookup
<1>2. CASE ~Mapped(t, p)
  <2>1. AddLookup(t, p) \in Table /\ InvTable(AddLookup(t, p))
    BY InvAdd, AddLookupType
  <2> QED
    BY <1>2, <2>1, InvStored DEF LogAfterAdd
<1> QED
  BY <1>1, <1>2

LEMMA InvAddAll ==
    ASSUME NEW t \in Table, InvTable(t), NEW P \in SUBSET Path, IsFiniteSet(P),
           AddAll(t, P).fhcount - 1 \in Fh
    PROVE  InvTable(AddAll(t, P)) /\ AddAll(t, P).fhcount >= t.fhcount
<1> DEFINE u == AddAll(t, P)
           new == Fresh(t, P)
           next == Numbers(t, P)
           k == Cardinality(new)
<1>1. u.fhcount = t.fhcount + k /\ u.fhcount \in Nat /\ k \in Nat
  BY AddAllFacts
<1>2. \A p \in Path : IF p \in new
                      THEN u.pathToFh[p] \in next /\ (u.pathToFh[p] \in Fh => u.fhToPath[u.pathToFh[p]] = p)
                      ELSE u.pathToFh[p] = t.pathToFh[p]
  BY AddAllFacts
<1>3. \A h \in Fh : IF h \in next THEN u.fhToPath[h] \in new /\ u.pathToFh[u.fhToPath[h]] = h
                    ELSE u.fhToPath[h] = t.fhToPath[h]
  BY AddAllFacts
<1>4. \A p \in new : p \in Path /\ t.pathToFh[p] = NoFh
  BY DEF Fresh, Mapped
<1>5. next = t.fhcount .. t.fhcount + k - 1
  BY DEF Numbers
<1>6. /\ t.fhToPath[0] = Root /\ 0 \in Fh /\ 0 < t.fhcount /\ t.fhcount \in Nat
      /\ \A q \in Path, h \in Fh : t.pathToFh[q] = h <=> t.fhToPath[h] = q
      /\ \A h \in Fh : t.fhToPath[h] # NoPath => h < t.fhcount
      /\ \A h \in Fh : h # NoFh
  BY InvMeans
<1> HIDE DEF u, new, next, k
<1>7. \A h \in next : h \in Int /\ t.fhcount <= h /\ h < u.fhcount
  BY <1>1, <1>5, <1>6
<1>8. u.fhToPath[0] = Root
  <2>1. 0 \notin next
    BY <1>6, <1>7
  <2> QED
    BY <1>3, <1>6, <2>1
<1>9. ASSUME NEW q \in Path, NEW h \in Fh
      PROVE  u.pathToFh[q] = h <=> u.fhToPath[h] = q
  <2>1. t.pathToFh[q] = h <=> t.fhToPath[h] = q
    BY <1>6
  <2>2. q # NoPath /\ h # NoFh
    BY <1>6, PathAssumption
  <2>3. h \in next => t.fhToPath[h] = NoPath
    BY <1>6, <1>7
  <2>4. CASE q \in new
    <3>1. u.pathToFh[q] = h => u.fhToPath[h] = q
      BY <1>2, <2>4
    <3>2. ASSUME u.fhToPath[h] = q PROVE u.pathToFh[q] = h
      <4>1. CASE h \in next
        BY <1>3, <3>2, <4>1
      <4>2. CASE h \notin next
        BY <1>3, <1>4, <2>1, <2>2, <2>4, <3>2, <4>2
      <4> QED
        BY <4>1, <4>2
    <3> QED
      BY <3>1, <3>2
  <2>5. CASE q \notin new
    <3>1. u.pathToFh[q] = t.pathToFh[q]
      BY <1>2, <2>5
    <3>2. CASE h \in next
      BY <1>3, <2>1, <2>2, <2>3, <2>5, <3>1, <3>2
    <3>3. CASE h \notin next
      BY <1>3, <2>1, <3>1, <3>3
    <3> QED
      BY <3>2, <3>3
  <2> QED
    BY <2>4, <2>5
<1>10. ASSUME NEW h \in Fh, u.fhToPath[h] # NoPath PROVE h < u.fhcount
  <2>1. CASE h \in next
    BY <1>7, <2>1
  <2>2. CASE h \notin next
    <3>1. h < t.fhcount /\ h \in Int
      BY <1>3, <1>6, <1>10, <2>2 DEF Fh
    <3> QED
      BY <1>1, <1>6, <3>1
  <2> QED
    BY <2>1, <2>2
<1>11. u.fhcount >= t.fhcount
  BY <1>1, <1>6
<1> QED
  BY <1>8, <1>9, <1>10, <1>11 DEF InvTable, Inv, u

LEMMA InvOver ==
    ASSUME NEW t \in Table, InvTable(t), NEW r \in Request, <<r.name>> \in Path,
           t.fhToPath[r.fh] \in Path \ {Root}, Mapped(t, <<r.name>>)
    PROVE  InvTable(Over(t, r)) /\ Over(t, r).fhcount = t.fhcount
<1> DEFINE p == t.fhToPath[r.fh]
           f == r.fh
           q == <<r.name>>
           g == t.pathToFh[q]
           u == Over(t, r)
<1>1. f \in Fh /\ q # Root /\ q \in Path /\ p \in Path /\ p # Root /\ g \in Fh
  BY RootIsNode, InvMeans DEF Request, Mapped
<1>2. /\ u.pathToFh = [[t.pathToFh EXCEPT ![p] = NoFh] EXCEPT ![q] = f]
      /\ u.fhToPath = [[t.fhToPath EXCEPT ![g] = NoPath] EXCEPT ![f] = q]
      /\ u.fhcount = t.fhcount
  BY DEF Over
<1>3. /\ t.fhToPath[0] = Root /\ 0 \in Fh
      /\ \A x \in Path, h \in Fh : t.pathToFh[x] = h <=> t.fhToPath[h] = x
      /\ \A h \in Fh : t.fhToPath[h] # NoPath => h < t.fhcount
      /\ \A h \in Fh : h # NoFh
  BY InvMeans
<1>m. t.pathToFh \in PathMap /\ t.fhToPath \in FhMap
  BY InvMeans
<1>4. t.pathToFh[p] = f /\ t.fhToPath[g] = q /\ g = t.pathToFh[q] /\ p = t.fhToPath[f]
  BY <1>1, <1>3
<1> HIDE DEF p, f, q, g, u
<1>5. \A x \in Path : u.pathToFh[x] = IF x = q THEN f ELSE IF x = p THEN NoFh ELSE t.pathToFh[x]
  BY <1>1, <1>2, <1>m DEF PathMap
<1>6. \A h \in Fh : u.fhToPath[h] = IF h = f THEN q ELSE IF h = g THEN NoPath ELSE t.fhToPath[h]
  BY <1>1, <1>2, <1>m DEF FhMap
<1>7. f # 0 /\ g # 0
  BY <1>1, <1>3, <1>4
<1>8. u.fhToPath[0] = Root
  BY <1>3, <1>6, <1>7
<1>9. ASSUME NEW x \in Path, NEW h \in Fh
      PROVE  u.pathToFh[x] = h <=> u.fhToPath[h] = x
  <2>1. t.pathToFh[x] = h <=> t.fhToPath[h] = x
    BY <1>3
  <2>2. x # NoPath /\ h # NoFh
    BY <1>3, PathAssumption
  <2> QED
    BY <1>1, <1>4, <1>5, <1>6, <2>1, <2>2
<1>10. ASSUME NEW h \in Fh, u.fhToPath[h] # NoPath PROVE h < u.fhcount
  BY <1>1, <1>2, <1>3, <1>4, <1>6, <1>10, PathAssumption
<1> QED
  BY <1>2, <1>8, <1>9, <1>10 DEF InvTable, Inv, u

LEMMA InvGone ==
    ASSUME NEW t \in Table, InvTable(t), NEW r \in Request, t.fhToPath[r.fh] \in Path \ {Root}
    PROVE  InvTable(Gone(t, r)) /\ Gone(t, r).fhcount = t.fhcount
<1> DEFINE p == t.fhToPath[r.fh]
           f == r.fh
           u == Gone(t, r)
<1>1. f \in Fh /\ p \in Path /\ p # Root
  BY DEF Request
<1>2. /\ u.pathToFh = [t.pathToFh EXCEPT ![p] = NoFh] /\ u.fhToPath = [t.fhToPath EXCEPT ![f] = NoPath]
      /\ u.fhcount = t.fhcount
  BY DEF Gone
<1>3. /\ t.fhToPath[0] = Root /\ 0 \in Fh
      /\ \A x \in Path, h \in Fh : t.pathToFh[x] = h <=> t.fhToPath[h] = x
      /\ \A h \in Fh : t.fhToPath[h] # NoPath => h < t.fhcount
      /\ \A h \in Fh : h # NoFh
  BY InvMeans
<1>m. t.pathToFh \in PathMap /\ t.fhToPath \in FhMap
  BY InvMeans
<1>4. t.pathToFh[p] = f /\ p = t.fhToPath[f]
  BY <1>1, <1>3
<1> HIDE DEF p, f, u
<1>5. \A x \in Path : u.pathToFh[x] = IF x = p THEN NoFh ELSE t.pathToFh[x]
  BY <1>1, <1>2, <1>m DEF PathMap
<1>6. \A h \in Fh : u.fhToPath[h] = IF h = f THEN NoPath ELSE t.fhToPath[h]
  BY <1>1, <1>2, <1>m DEF FhMap
<1>7. u.fhToPath[0] = Root
  BY <1>1, <1>3, <1>4, <1>6
<1>8. ASSUME NEW x \in Path, NEW h \in Fh
      PROVE  u.pathToFh[x] = h <=> u.fhToPath[h] = x
  <2>1. t.pathToFh[x] = h <=> t.fhToPath[h] = x
    BY <1>3
  <2>2. x # NoPath /\ h # NoFh
    BY <1>3, PathAssumption
  <2> QED
    BY <1>1, <1>4, <1>5, <1>6, <2>1, <2>2
<1>9. ASSUME NEW h \in Fh, u.fhToPath[h] # NoPath PROVE h < u.fhcount
  BY <1>2, <1>3, <1>6, <1>9
<1> QED
  BY <1>2, <1>7, <1>8, <1>9 DEF InvTable, Inv, u


LEMMA ServeInverts ==
    ASSUME TypeOK, InvTable(table), InvLog(log, table.fhcount), NEW c \in Client,
           NEW r \in Request, r.command = "lookup" => Known(table, r.fh),
           Serve(c, r), table'.fhcount - 1 \in Fh
    PROVE  InvTable(table') /\ InvLog(log', table'.fhcount)
<1>1. /\ table \in Table /\ log \in Log /\ r.fh \in Fh /\ r.path \in Path /\ r.name \in Names
      /\ table.fhcount \in Nat
  BY DEF TypeOK, Request, Table
<1>2. /\ Seen(r) \in Table /\ SeenDir(r) \in Table /\ SeenBoth(r) \in Table
      /\ InvTable(Seen(r)) /\ InvTable(SeenDir(r)) /\ InvTable(SeenBoth(r))
      /\ Seen(r).fhcount = table.fhcount /\ SeenDir(r).fhcount = table.fhcount
      /\ SeenBoth(r).fhcount = table.fhcount
  <2>1. /\ Seen(r) \in Table /\ SeenDir(r) \in Table /\ SeenBoth(r) \in Table
        /\ InvTable(Seen(r)) /\ InvTable(SeenDir(r))
        /\ Seen(r).fhcount = table.fhcount /\ SeenDir(r).fhcount = table.fhcount
    BY <1>1, SeenTypes, InvFound DEF Seen, SeenDir
  <2>2. InvTable(SeenBoth(r)) /\ SeenBoth(r).fhcount = table.fhcount
    BY <1>1, <2>1, InvFound DEF SeenBoth
  <2> QED
    BY <2>1, <2>2
<1>3. CASE ServeLookup(c, r)
  <2> DEFINE t == WithDir(table, r.fh)
             p == Append(t.fhToPath[r.fh], r.name)
  <2>1. t = table
    BY <1>3 DEF ServeLookup, Looked, WithDir
  <2>2. p \in Path /\ table' = AddLookup(t, p) /\ log' = LogAfterAdd(t, log, p)
    BY <1>3 DEF ServeLookup, Looked
  <2> HIDE DEF t, p
  <2>3. Mapped(t, p) \/ t.fhcount \in Fh
    BY <1>1, <2>1, <2>2, RoomToAdd
  <2> QED
    BY <1>1, <2>1, <2>2, <2>3, InvAdd, InvLogAdd
<1>4. CASE ServeUnresolved(c, r) \/ ServeRemove(c, r)
  <2>1. table' = Seen(r) /\ log' = log
    BY <1>4 DEF ServeUnresolved, ServeRemove
  <2> QED
    BY <1>2, <2>1
<1>5. CASE ServeAdd(c, r)
  <2> DEFINE t == Seen(r)
             p == Within(r)
  <2>1. /\ p \in Path
        /\ \/ table' = t /\ log' = log
           \/ table' = AddLookup(t, p) /\ log' = LogAfterAdd(t, log, p)
    BY <1>5 DEF ServeAdd
  <2>2. t \in Table /\ InvTable(t) /\ t.fhcount = table.fhcount
    BY <1>2
  <2> HIDE DEF t, p
  <2>3. CASE table' = AddLookup(t, p) /\ log' = LogAfterAdd(t, log, p)
    <3>1. Mapped(t, p) \/ t.fhcount \in Fh
      BY <2>1, <2>2, <2>3, RoomToAdd
    <3> QED
      BY <2>1, <2>2, <2>3, <3>1, InvAdd, InvLogAdd
  <2> QED
    BY <2>1, <2>2, <2>3
<1>6. CASE ServeReaddir(c, r)
  <2> DEFINE q == PathOf(table, log, r.fh)
             P == {Append(q, n) : n \in Entries(Location(q))}
             t == Seen(r)
  <2>1. \/ table' = t /\ log' = log
        \/ /\ P \in SUBSET Path /\ table' = AddAll(t, P)
           /\ log' = log \/ log' = Stored(AddAll(t, P))
    BY <1>6 DEF ServeReaddir
  <2>2. t \in Table /\ InvTable(t) /\ IsFiniteSet(P) /\ t.fhcount = table.fhcount
    BY <1>2, EntriesFinite
  <2> HIDE DEF t, q, P
  <2>3. CASE /\ P \in SUBSET Path /\ table' = AddAll(t, P)
             /\ log' = log \/ log' = Stored(AddAll(t, P))
    <3>1. InvTable(table') /\ table' \in Table /\ table'.fhcount >= table.fhcount
      BY <2>2, <2>3, InvAddAll, AddAllType
    <3>2. table'.fhcount \in Nat
      BY <3>1 DEF Table
    <3>3. InvLog(log, table'.fhcount)
      BY <1>1, <3>1, <3>2, InvGrows
    <3> QED
      BY <2>3, <3>1, <3>3, InvStored
  <2> QED
    BY <2>1, <2>2, <2>3
<1>7. CASE ServeGetattr(c, r)
  <2> DEFINE t == Seen(r)
             p == r.path
  <2>1. \/ table' = t /\ log' = log
        \/ table' = AddLookup(t, p) /\ log' = LogAfterAdd(t, log, p)
    BY <1>7 DEF ServeGetattr
  <2>2. t \in Table /\ InvTable(t) /\ p \in Path /\ t.fhcount = table.fhcount
    BY <1>1, <1>2
  <2> HIDE DEF t, p
  <2>3. CASE table' = AddLookup(t, p) /\ log' = LogAfterAdd(t, log, p)
    <3>1. Mapped(t, p) \/ t.fhcount \in Fh
      BY <2>2, <2>3, RoomToAdd
    <3> QED
      BY <2>2, <2>3, <3>1, InvAdd, InvLogAdd
  <2> QED
    BY <2>1, <2>2, <2>3
<1>8. CASE ServeRenameUnresolved(c, r) \/ ServeRenameRefused(c, r)
  <2>1. table' \in {SeenBoth(r), SeenDir(r)} /\ log' = log
    BY <1>8 DEF ServeRenameUnresolved, ServeRenameRefused
  <2> QED
    BY <1>2, <2>1
<1>9. CASE ServeRenameOver(c, r)
  <2>1. table' = Over(SeenBoth(r), r) /\ log' = log /\ Mapped(SeenBoth(r), <<r.name>>)
    BY <1>9 DEF ServeRenameOver, Overwrites
  <2>2. SeenBoth(r).fhToPath[r.fh] \in Path \ {Root}
    BY <1>9, RenameFacts DEF ServeRenameOver
  <2>3. InvTable(table') /\ table'.fhcount = SeenBoth(r).fhcount
    BY <1>1, <1>2, <2>1, <2>2, NameInRoot, InvOver
  <2> QED
    BY <1>2, <2>1, <2>3
<1>10. CASE ServeRenameNew(c, r)
  <2> DEFINE t == SeenBoth(r)
             q == NewPath(t, r)
             u == AddLookup(t, q)
  <2>1. /\ t \in Table /\ InvTable(t) /\ t.fhToPath[r.fh] \in Path \ {Root}
        /\ t.fhcount = table.fhcount
    BY <1>2, <1>10, RenameFacts DEF ServeRenameNew
  <2>2. CASE ~Known(t, r.todirfh)
    <3>1. table' = t /\ log' = log
      BY <1>10, <2>2 DEF ServeRenameNew
    <3> QED
      BY <2>1, <3>1
  <2>3. CASE Known(t, r.todirfh)
    <3>1. q \in Path /\ table' = Gone(u, r) /\ log' = LogAfterAdd(t, log, q)
      BY <1>10, <2>3 DEF ServeRenameNew
    <3>2. q # Root
      <4>1. t.fhToPath[r.todirfh] \in Path
        BY <2>1, <2>3 DEF Known, Table, FhMap, Request
      <4> QED
        BY <4>1, AppendFacts, PathIsSeq DEF NewPath
    <3> HIDE DEF t, q
    <3>3. Gone(u, r).fhcount = u.fhcount
      BY DEF Gone, AddLookup
    <3>4. Mapped(t, q) \/ t.fhcount \in Fh
      BY <2>1, <3>1, <3>3, RoomToAdd
    <3>5. u \in Table /\ InvTable(u) /\ InvLog(log', u.fhcount)
      BY <2>1, <3>1, <3>4, AddLookupType, InvAdd, InvLogAdd
    <3>6. u.fhToPath[r.fh] \in Path \ {Root}
      BY <1>1, <2>1, <3>1, <3>2 DEF AddLookup, Table, FhMap
    <3> QED
      BY <3>1, <3>5, <3>6, InvGone
  <2> QED
    BY <2>2, <2>3
<1> QED
  BY <1>3, <1>4, <1>5, <1>6, <1>7, <1>8, <1>9, <1>10 DEF Serve

\* The erase(find()) of a rename in the root finds what it erases.
LEMMA ErasesDefined ==
    ASSUME TypeOK, InvTable(table), InvLog(log, table.fhcount), NEW r \in Request,
           NEW a \in Begun(r), FT!Succeeds(tree, a)
    PROVE  ~Undefined(r)
<1> SUFFICES ASSUME Undefined(r)
             PROVE  FALSE
  OBVIOUS
<1> DEFINE t == SeenBoth(r)
           q == NewPath(t, r)
           u == AddLookup(t, q)
<1>1. Renames(r) /\ r.command = "rename"
  BY DEF Undefined, Renames
<1>2. a = RenameCall(r)
  BY <1>1 DEF Begun
<1>3. t \in Table /\ t.fhToPath[r.fh] \in Path \ {Root} /\ r.fh \in Fh /\ r.name \in Names
  BY <1>1, <1>2, RenameFacts DEF Request
<1>4. InvTable(t)
  <2>1. table \in Table /\ log \in Log /\ SeenDir(r) \in Table
    BY SeenTypes DEF TypeOK
  <2>2. InvTable(SeenDir(r)) /\ SeenDir(r).fhcount = table.fhcount
    BY <2>1, InvFound DEF SeenDir
  <2> QED
    BY <2>1, <2>2, InvFound DEF SeenBoth
<1>5. \/ Mapped(t, <<r.name>>) /\ ~OverErases(t, r)
      \/ q \in Path /\ ~NewErases(u, r)
  BY DEF Undefined, Overwrites
<1>6. /\ \A p \in Path, h \in Fh : t.pathToFh[p] = h <=> t.fhToPath[h] = p
      /\ \A p \in Path : t.pathToFh[p] # NoFh => t.pathToFh[p] \in Fh
      /\ \A h \in Fh : h # NoFh
      /\ \A h \in Fh : t.fhToPath[h] # NoPath => h < t.fhcount
      /\ t.fhcount \in Nat
  BY <1>3, <1>4, InvMeans
<1>7. t.pathToFh[t.fhToPath[r.fh]] = r.fh /\ r.fh # NoFh /\ r.fh < t.fhcount
  BY <1>3, <1>6, PathAssumption
<1>8. CASE Mapped(t, <<r.name>>) /\ ~OverErases(t, r)
  <2>1. <<r.name>> \in Path
    BY <1>3, NameInRoot
  <2>2. t.fhToPath[t.pathToFh[<<r.name>>]] = <<r.name>>
    BY <1>6, <1>8, <2>1 DEF Mapped
  <2> QED
    BY <1>7, <1>8, <2>1, <2>2, PathAssumption DEF OverErases, Mapped, Known
<1>9. CASE q \in Path /\ ~NewErases(u, r)
  <2>1. CASE Mapped(t, q)
    BY <1>7, <1>9, <2>1 DEF AddLookup, NewErases, Mapped
  <2>2. CASE ~Mapped(t, q)
    <3> DEFINE p == t.fhToPath[r.fh]
               n == t.fhcount
    <3>1. /\ u.pathToFh = [t.pathToFh EXCEPT ![q] = n]
          /\ u.fhToPath = [t.fhToPath EXCEPT ![n] = q]
      BY <2>2 DEF AddLookup
    <3>2. p \in Path /\ n \in Nat /\ r.fh # n /\ t.pathToFh[p] = r.fh
      BY <1>3, <1>6, <1>7
    <3>3. t.pathToFh \in PathMap /\ t.fhToPath \in FhMap
      BY <1>3 DEF Table
    <3> HIDE DEF t, q, u, n
    <3>4. u.fhToPath[r.fh] = t.fhToPath[r.fh]
      BY <1>3, <3>1, <3>2, <3>3 DEF FhMap
    <3> HIDE DEF p
    <3>5. u.pathToFh[p] = n \/ u.pathToFh[p] = r.fh
      BY <3>1, <3>2, <3>3 DEF PathMap
    <3>6. u.pathToFh[p] # NoFh
      BY <1>7, <3>2, <3>5 DEF NoFh
    <3> QED
      BY <1>9, <3>4, <3>6 DEF NewErases, Mapped, p
  <2> QED
    BY <2>1, <2>2
<1> QED
  BY <1>5, <1>8, <1>9


\* With files of the root alone, the kernel stats these paths, and every directory
\* in a request is the root.
AtTop == {p \in Node : Len(p) <= 1}

StaysAtTop(c) ==
    /\ todo[c] \in Seq(AtTop)
    /\ call[c].phase # "none" => /\ call[c].req.command = "lookup" => call[c].req.fh = 0
                                 /\ call[c].req.command = "rename" => call[c].req.todirfh = 0

Inverses ==
    InRoot /\ faults.crash = 0 /\ faults.torn = 0 =>
        /\ up /\ InvTable(table) /\ InvLog(log, table.fhcount)
        /\ \A c \in Client : StaysAtTop(c)

LEMMA TopWalk ==
    ASSUME NEW a \in FT!Asked, Len(a.path) <= 1, Len(a.to) <= 1
    PROVE  Walk(a) \in Seq(AtTop)
<1>1. a.path \in Node /\ a.to \in Node
  BY DEF FT!Asked
<1>2. ASSUME NEW p \in Node, Len(p) <= 1
      PROVE  StepsTo(p) \in Seq(AtTop)
  <2>1. \A i \in 1 .. Len(p) : SubSeq(p, 1, i) \in AtTop
    <3> SUFFICES ASSUME NEW i \in 1 .. Len(p)
                 PROVE  SubSeq(p, 1, i) \in AtTop
      OBVIOUS
    <3>1. Len(p) \in Nat /\ SubSeq(p, 1, Len(p)) = p
      BY <1>2, NodeFacts
    <3>2. i = 1 /\ Len(p) = 1
      BY <1>2, <3>1
    <3> QED
      BY <1>2, <3>1, <3>2 DEF AtTop
  <2>2. Len(p) \in Nat
    BY NodeFacts
  <2> QED
    BY <2>1, <2>2 DEF StepsTo
<1>3. Front(a.path) \in Node /\ Len(Front(a.path)) <= 1
  <2>1. CASE a.path = Root
    <3>1. Front(Root) = <<>>
      BY RootIsNode, SubSeqEmpty DEF Front
    <3> QED
      BY <2>1, <3>1, RootIsNode
  <2>2. CASE a.path # Root
    BY <1>1, <2>2, NodeFacts
  <2> QED
    BY <2>1, <2>2
<1>4. StepsTo(a.path) \o StepsTo(a.to) \in Seq(AtTop)
  BY <1>1, <1>2, ConcatProperties
<1> QED
  BY <1>1, <1>2, <1>3, <1>4 DEF Walk

\* The parent of a path of the root is the root.
LEMMA ParentIsRoot ==
    ASSUME NEW p \in Node, p # Root, Len(p) <= 1
    PROVE  Front(p) = Root
<1>1. Len(p) \in Nat /\ Len(p) > 0
  BY NodeFacts
<1>2. Front(p) \in Node /\ Len(Front(p)) = Len(p) - 1
  BY NodeFacts
<1>3. Front(p) \in Seq(STRING)
  BY <1>2, NodeFacts
<1>4. Len(Front(p)) = 0
  BY <1>1, <1>2
<1> QED
  BY <1>3, <1>4, EmptySeq, RootIsNode

LEMMA TopGoal ==
    ASSUME TypeOK, InRoot, NEW c \in Client, ClientFits(c), sys[c] # NoCall, StaysAtTop(c)
    PROVE  /\ Len(Goal(c)) <= 1
           /\ Callback(c).cb = "rename" /\ fromfh[c] # NoFh => Goal(c) = Root
<1>1. sys[c] \in FT!Asked /\ todo[c] \in Seq(Node)
  BY ClientVarTypes
<1>2. CASE todo[c] # <<>>
  <2>1. Goal(c) = Head(todo[c]) /\ Callback(c).cb = "getattr"
    BY <1>2, GoalFacts
  <2>2. Head(todo[c]) \in AtTop
    BY <1>2, HeadTailProperties DEF StaysAtTop
  <2> QED
    BY <2>1, <2>2 DEF AtTop
<1>3. CASE todo[c] = <<>>
  <2>1. Callback(c) = sys[c] /\ Asking(c)
    BY <1>3 DEF Callback, ClientFits
  <2>2. /\ sys[c].path \in Node /\ sys[c].to \in Node /\ Len(sys[c].path) <= 1
        /\ sys[c].cb = "rename" => Len(sys[c].to) <= 1 /\ sys[c].to # Root
        /\ sys[c].cb \in {"mkdir", "create"} => sys[c].path # Root
    BY <1>1, <2>1 DEF FT!Asked, Asking, InRoot
  <2>3. CASE sys[c].cb \in {"mkdir", "create"}
    <3>1. Goal(c) = Root
      BY <2>1, <2>2, <2>3, ParentIsRoot DEF Goal
    <3> QED
      BY <2>1, <2>3, <3>1, RootIsNode
  <2>4. CASE sys[c].cb = "rename" /\ fromfh[c] # NoFh
    <3>1. Goal(c) = Root
      BY <2>1, <2>2, <2>4, ParentIsRoot DEF Goal
    <3> QED
      BY <3>1, RootIsNode
  <2>5. CASE sys[c].cb \notin {"mkdir", "create"} /\ ~(sys[c].cb = "rename" /\ fromfh[c] # NoFh)
    <3>1. Goal(c) = sys[c].path
      BY <2>1, <2>5 DEF Goal
    <3> QED
      BY <2>1, <2>2, <2>5, <3>1
  <2> QED
    BY <2>3, <2>4, <2>5
<1> QED
  BY <1>2, <1>3

\* A step of the server leaves the clients where they are.
LEMMA TopStays ==
    ASSUME \A c \in Client : StaysAtTop(c), UNCHANGED clientVars, CallsGoOn
    PROVE  \A c \in Client : StaysAtTop(c)'
<1> SUFFICES ASSUME NEW c \in Client
             PROVE  StaysAtTop(c)'
  OBVIOUS
<1>1. StaysAtTop(c) /\ todo' = todo
  BY DEF clientVars
<1>2. call'[c].req = call[c].req /\ (call'[c].phase = "none" <=> call[c].phase = "none")
  BY DEF CallsGoOn
<1> QED
  BY <1>1, <1>2 DEF StaysAtTop

\* A step of a client.
LEMMA TopSteps ==
    ASSUME TypeOK, Shape, InRoot, \A c \in Client : StaysAtTop(c),
           NEW c \in Client, Ask(c) \/ Proceed(c)
    PROVE  \A d \in Client : StaysAtTop(d)'
<1>1. /\ todo \in [Client -> Seq(Node)] /\ call \in [Client -> Rpc]
      /\ StaysAtTop(c) /\ ClientFits(c)
  BY ClientVarTypes DEF Shape
<1>2. /\ todo'[c] \in Seq(AtTop)
      /\ call'[c].phase # "none" => /\ call'[c].req.command = "lookup" => call'[c].req.fh = 0
                                    /\ call'[c].req.command = "rename" => call'[c].req.todirfh = 0
      /\ \A d \in Client : d # c => todo'[d] = todo[d] /\ call'[d] = call[d]
  <2>1. CASE Ask(c)
    <3>1. PICK cb \in load.use, p \in load.target, q \in load.target, x \in load.excl \cup {FALSE} :
            todo' = [todo EXCEPT ![c] = Walk([cb |-> cb, path |-> p, to |-> q, excl |-> x])]
      BY <2>1 DEF Ask
    <3> DEFINE a == [cb |-> cb, path |-> p, to |-> q, excl |-> x]
    <3>2. a \in FT!Asked /\ Len(a.path) <= 1 /\ Len(a.to) <= 1
      BY LoadFacts DEF FT!Asked, InRoot
    <3>3. todo' = [todo EXCEPT ![c] = Walk(a)]
      BY <3>1
    <3> HIDE DEF a
    <3>4. Walk(a) \in Seq(AtTop)
      BY <3>2, TopWalk
    <3>5. call' = call
      BY <2>1 DEF Ask
    <3> QED
      BY <1>1, <3>3, <3>4, <3>5 DEF StaysAtTop
  <2>2. CASE SendLookup(c)
    <3>1. /\ sys[c] # NoCall /\ Handle(c) = NoFh /\ Send(c, LookupRequest(c))
      BY <2>2 DEF SendLookup, Running
    <3>2. LookupRequest(c).command = "lookup" /\ LookupRequest(c).fh = 0
      <4>1. /\ Unknown(c) \in Node \ {Root} /\ Len(Unknown(c)) <= Len(Goal(c))
            /\ LookupRequest(c).command = "lookup"
            /\ LookupRequest(c).fh = pathtofh[c][Front(Unknown(c))]
        BY <1>1, <3>1, LookupFacts
      <4>2. Len(Goal(c)) <= 1 /\ Goal(c) \in Node
        BY <1>1, <3>1, TopGoal, GoalFacts
      <4>3. Len(Unknown(c)) <= 1
        BY <4>1, <4>2, NodeFacts
      <4>4. Front(Unknown(c)) = Root
        BY <4>1, <4>3, ParentIsRoot
      <4> QED
        BY <1>1, <4>1, <4>4 DEF ClientFits
    <3>3. call' = [call EXCEPT ![c] = [phase |-> "sent", req |-> LookupRequest(c), rep |-> NoResponse]]
      BY <3>1 DEF Send
    <3>4. todo' = todo
      BY <3>1 DEF Send, clientVars
    <3> QED
      BY <1>1, <3>2, <3>3, <3>4 DEF StaysAtTop
  <2>3. CASE SendCall(c)
    <3>1. /\ sys[c] # NoCall /\ Handle(c) # NoFh /\ Send(c, CallRequest(c))
          /\ Callback(c).cb = "rename" => fromfh[c] # NoFh
      BY <2>3 DEF SendCall, Running
    <3>2. /\ CallRequest(c).command # "lookup"
          /\ CallRequest(c).command = "rename" => CallRequest(c).todirfh = 0
      <4>1. /\ CallRequest(c).command # "lookup" /\ CallRequest(c).command = Callback(c).cb
            /\ Callback(c).cb = "rename" => CallRequest(c).todirfh = Handle(c)
        BY <1>1, <3>1, CallFacts
      <4>2. Callback(c).cb = "rename" => Goal(c) = Root
        BY <1>1, <3>1, TopGoal
      <4> QED
        BY <1>1, <4>1, <4>2 DEF ClientFits, Handle
    <3>3. call' = [call EXCEPT ![c] = [phase |-> "sent", req |-> CallRequest(c), rep |-> NoResponse]]
      BY <3>1 DEF Send
    <3>4. todo' = todo
      BY <3>1 DEF Send, clientVars
    <3> QED
      BY <1>1, <3>2, <3>3, <3>4 DEF StaysAtTop
  <2>4. CASE TakeFrom(c)
    <3>1. todo' = todo /\ call' = call
      BY <2>4 DEF TakeFrom
    <3> QED
      BY <1>1, <3>1 DEF StaysAtTop
  <2>5. CASE GotHandle(c) \/ Retry(c)
    <3>1. todo' = todo /\ call' = [call EXCEPT ![c] = NoRpc]
      BY <2>5 DEF GotHandle, Answered, Retry
    <3> QED
      BY <1>1, <3>1 DEF StaysAtTop, NoRpc
  <2>6. CASE Stated(c)
    <3>1. /\ call' = [call EXCEPT ![c] = NoRpc] /\ todo[c] # <<>>
          /\ todo' = [todo EXCEPT ![c] = Tail(@)] \/ todo' = [todo EXCEPT ![c] = <<>>]
      BY <2>6 DEF Stated, Answered, Return
    <3>2. Tail(todo[c]) \in Seq(AtTop) /\ <<>> \in Seq(AtTop)
      BY <1>1, <3>1, HeadTailProperties, EmptySeq DEF StaysAtTop
    <3> QED
      BY <1>1, <3>1, <3>2 DEF NoRpc
  <2>7. CASE Passed(c) \/ Removed(c) \/ MovesOver(c) \/ MovesNew(c) \/ Aborts(c)
    <3>1. call' = [call EXCEPT ![c] = NoRpc] /\ todo' = [todo EXCEPT ![c] = <<>>]
      BY <2>7 DEF Passed, Removed, MovesOver, MovesNew, Aborts, Moves, Answered, Return
    <3>2. <<>> \in Seq(AtTop)
      BY EmptySeq
    <3> QED
      BY <1>1, <3>1, <3>2 DEF NoRpc
  <2> QED
    BY <2>1, <2>2, <2>3, <2>4, <2>5, <2>6, <2>7 DEF Proceed
<1> QED
  BY <1>2 DEF StaysAtTop

\* A step counts its fault; the workload stays.
LEMMA CountsFaults ==
    ASSUME TypeOK, [Next]_vars
    PROVE  /\ load' = load
           /\ faults.crash \in Nat /\ faults.torn \in Nat
           /\ \/ faults' = faults
              \/ faults' = [faults EXCEPT !.lost = @ + 1]
              \/ faults' = [faults EXCEPT !.crash = @ + 1]
              \/ faults' = [faults EXCEPT !.torn = @ + 1]
           /\ faults'.crash = 0 => faults.crash = 0
           /\ faults'.torn = 0 => faults.torn = 0
<1>1. faults \in [lost : 0 .. load.lost, crash : 0 .. load.crash, torn : 0 .. load.torn]
  BY DEF TypeOK
<1>2. /\ load' = load
      /\ \/ faults' = faults \/ faults' = [faults EXCEPT !.lost = @ + 1]
         \/ faults' = [faults EXCEPT !.crash = @ + 1] \/ faults' = [faults EXCEPT !.torn = @ + 1]
  <2>1. CASE UNCHANGED vars
    BY <2>1 DEF vars, clientVars
  <2>2. CASE Next
    BY <2>2 DEF Next, Ask, Proceed, SendLookup, SendCall, Send, TakeFrom, GotHandle, Stated,
       Passed, Removed, MovesOver, MovesNew, Aborts, Moves, Answered, Retry, ServeCall,
       Lose, Refuse, CrashInStore, CrashInCall, Crash, Dies, Restart, Finished, vars, clientVars
  <2> QED
    BY <2>1, <2>2
<1> QED
  BY <1>1, <1>2, LoadFacts

\* For all clients that name files of the root, and while the server stays up:
\* addLookup and both branches of rename keep its two maps inverse to each other,
\* and the next number unused.
THEOREM TablesStayInverse == Spec => []TablesInverse
<1>1. Init => Inverses
  <2> SUFFICES ASSUME Init
               PROVE  up /\ InvTable(table) /\ InvLog(log, table.fhcount)
                      /\ \A c \in Client : StaysAtTop(c)
    BY DEF Inverses
  <2>1. up /\ table = NewTable /\ log = NoLog
    BY DEF Init
  <2>2. \A c \in Client : StaysAtTop(c)
    BY EmptySeq DEF Init, StaysAtTop, NoRpc
  <2> QED
    BY <2>1, <2>2, InvNew
<1>2. TypeOK /\ Shape /\ Inverses /\ [Next]_vars => Inverses'
  <2> SUFFICES ASSUME TypeOK, Shape, Inverses, [Next]_vars, InRoot', faults'.crash = 0, faults'.torn = 0
               PROVE  /\ up' /\ InvTable(table') /\ InvLog(log', table'.fhcount)
                      /\ \A c \in Client : StaysAtTop(c)'
    BY DEF Inverses, InvTable, InvLog
  <2>1. InRoot /\ faults.crash = 0 /\ faults.torn = 0
    BY CountsFaults DEF InRoot
  <2>2. up /\ InvTable(table) /\ InvLog(log, table.fhcount) /\ \A c \in Client : StaysAtTop(c)
    BY <2>1 DEF Inverses
  <2>3. CASE UNCHANGED <<serverVars, clientVars>> /\ CallsGoOn
    <3>1. up' = up /\ table' = table /\ log' = log
      BY <2>3 DEF serverVars
    <3> QED
      BY <2>2, <2>3, <3>1, TopStays
  <2>4. ASSUME NEW c \in Client, ServeCall(c)
        PROVE  /\ up' /\ InvTable(table') /\ InvLog(log', table'.fhcount)
               /\ \A d \in Client : StaysAtTop(d)'
    <3>1. call[c].phase = "sent" /\ call[c].req \in Request /\ Serve(c, call[c].req)
      BY <2>4 DEF TypeOK, ServeCall
    <3>2. table'.fhcount - 1 \in Fh /\ up' = up /\ UNCHANGED clientVars
      BY <2>4 DEF ServeCall
    <3>3. call[c].req.command = "lookup" => Known(table, call[c].req.fh)
      <4>1. table.fhToPath[0] = Root
        BY <2>2, InvMeans DEF TypeOK
      <4> QED
        BY <2>2, <3>1, <4>1, RootIsNode, PathAssumption DEF StaysAtTop, Known
    <3>4. InvTable(table') /\ InvLog(log', table'.fhcount)
      BY <2>2, <3>1, <3>2, <3>3, ServeInverts
    <3>5. CallsGoOn
      BY <3>1, <3>2, ServeTypes DEF Handled
    <3> QED
      BY <2>2, <3>2, <3>4, <3>5, TopStays
  <2>5. ASSUME NEW c \in Client, Lose(c) \/ Refuse(c)
        PROVE  UNCHANGED <<serverVars, clientVars>> /\ CallsGoOn
    <3>1. call[c].phase # "none" /\ Throw(c) /\ UNCHANGED <<serverVars, clientVars>>
      BY <2>5 DEF Lose, Refuse, Throw
    <3> QED
      BY <3>1, ThrowFacts
  <2>6. ASSUME NEW c \in Client, CrashInCall(c) PROVE FALSE
    <3>1. PICK a \in Begun(call[c].req) : FT!Succeeds(tree, a)
      BY <2>6 DEF CrashInCall
    <3>2. call[c].req \in Request
      BY DEF TypeOK
    <3>3. ~Undefined(call[c].req)
      BY <2>2, <3>1, <3>2, ErasesDefined
    <3>4. faults' = [faults EXCEPT !.crash = @ + 1]
      BY <2>6, <3>3 DEF CrashInCall
    <3>5. faults'.crash = 0 + 1
      BY <2>1, <3>4 DEF TypeOK
    <3> QED
      BY <3>5
  <2>7. ASSUME Crash \/ \E c \in Client : CrashInStore(c) PROVE FALSE
    <3>1. faults' = [faults EXCEPT !.crash = @ + 1] \/ faults' = [faults EXCEPT !.torn = @ + 1]
      BY <2>7 DEF Crash, CrashInStore
    <3>2. faults'.crash = 0 + 1 \/ faults'.torn = 0 + 1
      BY <2>1, <3>1 DEF TypeOK
    <3> QED
      BY <3>2
  <2>8. CASE UNCHANGED vars
    <3>1. CallsGoOn
      BY <2>8, ClientVarTypes DEF CallsGoOn, vars
    <3> QED
      BY <2>3, <2>8, <3>1 DEF vars
  <2>9. ASSUME NEW c \in Client, Ask(c) \/ Proceed(c)
        PROVE  /\ up' /\ InvTable(table') /\ InvLog(log', table'.fhcount)
               /\ \A d \in Client : StaysAtTop(d)'
    <3>1. up' = up /\ table' = table /\ log' = log
      BY <2>9 DEF Ask, Proceed, SendLookup, SendCall, Send, TakeFrom, GotHandle, Stated,
         Passed, Removed, MovesOver, MovesNew, Aborts, Moves, Answered, Retry, serverVars
    <3>2. \A d \in Client : StaysAtTop(d)'
      BY <2>1, <2>2, <2>9, TopSteps
    <3> QED
      BY <2>2, <3>1, <3>2
  <2>10. CASE Restart
    BY <2>2, <2>10 DEF Restart
  <2> QED
    BY <2>3, <2>4, <2>5, <2>6, <2>7, <2>8, <2>9, <2>10 DEF Next, Finished
<1>3. TypeOK /\ Inverses => TablesInverse
  BY DEF Inverses, InvTable, Inv, TablesInverse, Known
<1> QED
  BY <1>1, <1>2, <1>3, NamespaceTypeCorrect, PTL DEF Spec

=============================================================================
