--------------------------- MODULE MessagesProofs ---------------------------
(***************************************************************************)
(* Proofs about the codec of Messages: a message of the types of nfs.proto *)
(* is encoded in as many bytes as ByteSizeLong says, and decoding gives it *)
(* back, unless one of its names is not UTF-8.                             *)
(***************************************************************************)
EXTENDS Messages, FiniteSetTheorems, WellFoundedInduction, TLAPS

-----------------------------------------------------------------------------
(* Recursive functions, by the least number at which something fails.       *)

\* A set of naturals that is not empty has a least member.
LEMMA LeastNat == ASSUME NEW T \in SUBSET Nat, T # {} PROVE \E x \in T : \A y \in T : x <= y
  <1>1. PICK x \in T : \A y \in T : ~ (<<y, x>> \in OpToRel(<, Nat))
    BY NatLessThanWellFounded, WFMin
  <1>2. ASSUME NEW y \in T, y < x PROVE FALSE
    <2>1. <<y, x>> \in OpToRel(<, Nat)
      BY <1>2 DEF OpToRel
    <2> QED BY <1>1, <2>1
  <1>3. \A y \in T : x <= y
    BY <1>2
  <1> QED BY <1>3

\* A set that holds 0 and the successor of each of its members up to n holds 0 .. n.
LEMMA UpTo ==
    ASSUME NEW n \in Nat, NEW S, 0 \in S, \A i \in 0 .. n - 1 : i \in S => i + 1 \in S
    PROVE  0 .. n \subseteq S
  <1> DEFINE T == {i \in 0 .. n : i \notin S}
  <1> SUFFICES ASSUME T # {} PROVE FALSE
    OBVIOUS
  <1>1. T \in SUBSET Nat
    OBVIOUS
  <1>2. PICK x \in T : \A y \in T : x <= y
    BY <1>1, LeastNat
  <1>3. x \in 1 .. n /\ x \notin S
    OBVIOUS
  <1>4. x - 1 \in 0 .. n - 1 /\ x - 1 \in S
    BY <1>2, <1>3
  <1>5. (x - 1) + 1 \in S
    BY <1>4
  <1> QED BY <1>3, <1>5

\* The steps of a recursion over 0 .. n that keep a set V, and its solutions from e.
StepsOn(n, V) == [1 .. n -> [V -> V]]
RunsOf(n, V, e, h) ==
    {g \in [0 .. n -> V] : g[0] = e /\ \A i \in 1 .. n : g[i] = h[i][g[i - 1]]}

\* A recursion over 0 .. n whose steps h keep a set V has a solution with values in V.
LEMMA Recursion ==
    ASSUME NEW n \in Nat, NEW V, NEW e \in V, NEW h \in StepsOn(n, V)
    PROVE  RunsOf(n, V, e, h) # {}
  <1> DEFINE Solves(k, g) == g[0] = e /\ \A i \in 1 .. k : g[i] = h[i][g[i - 1]]
             S == {k \in 0 .. n : \E g \in [0 .. k -> V] : Solves(k, g)}
  <1>1. 0 \in S
    <2> DEFINE g == [i \in 0 .. 0 |-> e]
    <2>1. g \in [0 .. 0 -> V] /\ Solves(0, g)
      OBVIOUS
    <2>2. \E f \in [0 .. 0 -> V] : Solves(0, f)
      <3> HIDE DEF g, Solves
      <3> QED BY <2>1
    <2> QED BY <2>2
  <1>2. ASSUME NEW k \in 0 .. n - 1, k \in S PROVE k + 1 \in S
    <2>1. PICK g \in [0 .. k -> V] : Solves(k, g)
      BY <1>2
    <2> DEFINE G == [i \in 0 .. k + 1 |-> IF i = k + 1 THEN h[k + 1][g[k]] ELSE g[i]]
    <2>2. g[k] \in V /\ h[k + 1][g[k]] \in V
      BY DEF StepsOn
    <2>3. G \in [0 .. k + 1 -> V]
      BY <2>2
    <2>4. ASSUME NEW i \in 1 .. k + 1 PROVE G[i] = h[i][G[i - 1]]
      <3>1. CASE i = k + 1
        <4>1. i - 1 = k /\ i - 1 \in 0 .. k + 1 /\ i - 1 # k + 1
          BY <3>1
        <4> QED BY <3>1, <4>1
      <3>2. CASE i \in 1 .. k
        <4>1. g[i] = h[i][g[i - 1]]
          BY <3>2, <2>1
        <4>2. i - 1 \in 0 .. k + 1 /\ i - 1 # k + 1 /\ i # k + 1 /\ i # 0
          BY <3>2
        <4> QED BY <4>1, <4>2
      <3> QED BY <3>1, <3>2
    <2>5. Solves(k + 1, G)
      <3>1. G[0] = e
        BY <2>1
      <3> HIDE DEF G
      <3> QED BY <2>4, <3>1
    <2>6. \E f \in [0 .. k + 1 -> V] : Solves(k + 1, f)
      <3> HIDE DEF G, Solves
      <3> QED BY <2>3, <2>5
    <2>7. k + 1 \in 0 .. n
      OBVIOUS
    <2> QED
      <3> HIDE DEF Solves
      <3> QED BY <2>6, <2>7
  <1>3. 0 .. n \subseteq S
    <2> HIDE DEF S
    <2> QED BY <1>1, <1>2, UpTo
  <1>4. n \in S
    BY <1>3
  <1>5. PICK g \in [0 .. n -> V] : Solves(n, g)
    <2> HIDE DEF Solves
    <2> QED BY <1>4
  <1> QED BY <1>5 DEF RunsOf

-----------------------------------------------------------------------------
(* Sum, Joined and WireSize.                                                *)

\* The partial sums of s, each by one more member.
LEMMA SumSteps ==
    ASSUME NEW n \in Nat, NEW s, \A i \in 1 .. n : s[i] \in Nat
    PROVE  /\ Sum(0, s) = 0
           /\ \A i \in 0 .. n : Sum(i, s) \in Nat
           /\ \A i \in 1 .. n : Sum(i, s) = Sum(i - 1, s) + s[i]
  <1> DEFINE V == Nat
             h == [i \in 1 .. n |-> [v \in V |-> v + s[i]]]
  <1>1. h \in StepsOn(n, V)
    BY DEF StepsOn
  <1>2. PICK g \in RunsOf(n, V, 0, h) : TRUE
    <2>1. 0 \in V
      OBVIOUS
    <2> HIDE DEF h, V
    <2> QED BY <1>1, <2>1, Recursion
  <1> g \in [0 .. n -> V]
    BY DEF RunsOf
  <1>3. g[0] = 0 /\ \A i \in 1 .. n : g[i] = g[i - 1] + s[i]
    <2>1. g[0] = 0
      BY DEF RunsOf
    <2>2. ASSUME NEW i \in 1 .. n PROVE g[i] = g[i - 1] + s[i]
      <3>1. i \in 0 .. n /\ i # 0 /\ i - 1 \in 0 .. n
        OBVIOUS
      <3>2. g[i] = h[i][g[i - 1]] /\ g[i - 1] \in V
        BY <3>1 DEF RunsOf
      <3> QED BY <3>2
    <2> QED BY <2>1, <2>2
  <1>4. ASSUME NEW i \in 0 .. n PROVE Sum(i, s) = g[i]
    <2> DEFINE r == [k \in 0 .. i |-> g[k]]
    <2>1. r = [k \in 0 .. i |-> IF k = 0 THEN 0 ELSE r[k - 1] + s[k]]
      BY <1>3
    <2>2. PICK f : Sum(i, s) = f[i] /\ f = [k \in 0 .. i |-> IF k = 0 THEN 0 ELSE f[k - 1] + s[k]]
      <3> HIDE DEF r
      <3> QED BY <2>1 DEF Sum
    <2> DEFINE S == {k \in 0 .. i : f[k] = g[k]}
    <2>3. 0 \in S
      BY <2>2, <1>3
    <2>4. ASSUME NEW k \in 0 .. i - 1, k \in S PROVE k + 1 \in S
      <3>0. k + 1 \in 0 .. i /\ k + 1 \in 1 .. n /\ k + 1 # 0 /\ (k + 1) - 1 = k
        OBVIOUS
      <3>1. f[k + 1] = f[k] + s[k + 1]
        BY <2>2, <3>0
      <3>2. g[k + 1] = g[k] + s[k + 1]
        BY <1>3, <3>0
      <3> QED BY <3>1, <3>2, <2>4
    <2>5. 0 .. i \subseteq S
      <3>1. i \in Nat
        OBVIOUS
      <3> HIDE DEF S
      <3> QED BY <2>3, <2>4, <3>1, UpTo
    <2> QED BY <2>2, <2>5
  <1> QED
    <2>1. Sum(0, s) = 0
      BY <1>3, <1>4
    <2>2. \A i \in 0 .. n : Sum(i, s) \in Nat
      BY <1>4
    <2>3. ASSUME NEW i \in 1 .. n PROVE Sum(i, s) = Sum(i - 1, s) + s[i]
      BY <1>3, <1>4
    <2> QED BY <2>1, <2>2, <2>3

\* The sum of no numbers.
LEMMA SumZero == ASSUME NEW s PROVE Sum(0, s) = 0
  <1>1. \A i \in 1 .. 0 : s[i] \in Nat
    OBVIOUS
  <1>2. \A n \in Nat : (\A i \in 1 .. n : s[i] \in Nat) => Sum(0, s) = 0
    BY SumSteps
  <1>3. 0 \in Nat
    OBVIOUS
  <1> QED BY <1>1, <1>2, <1>3

\* Joined, by one more sequence.
LEMMA JoinedSteps ==
    ASSUME NEW n \in Nat, NEW S, NEW s, \A i \in 1 .. n : s[i] \in Seq(S)
    PROVE  /\ Joined(0, s) = <<>>
           /\ \A i \in 0 .. n : Joined(i, s) \in Seq(S)
           /\ \A i \in 1 .. n : Joined(i, s) = Joined(i - 1, s) \o s[i]
  <1> DEFINE V == Seq(S)
             h == [i \in 1 .. n |-> [v \in V |-> v \o s[i]]]
  <1>1. <<>> \in V /\ h \in StepsOn(n, V)
    BY DEF StepsOn
  <1>2. PICK g \in RunsOf(n, V, <<>>, h) : TRUE
    <2> HIDE DEF h, V
    <2> QED BY <1>1, Recursion
  <1> g \in [0 .. n -> V]
    BY DEF RunsOf
  <1>3. g[0] = <<>> /\ \A i \in 1 .. n : g[i] = g[i - 1] \o s[i]
    <2>1. g[0] = <<>>
      BY DEF RunsOf
    <2>2. ASSUME NEW i \in 1 .. n PROVE g[i] = g[i - 1] \o s[i]
      <3>1. i \in 0 .. n /\ i # 0 /\ i - 1 \in 0 .. n
        OBVIOUS
      <3>2. g[i] = h[i][g[i - 1]] /\ g[i - 1] \in V
        BY <3>1 DEF RunsOf
      <3> QED BY <3>2
    <2> QED BY <2>1, <2>2
  <1>4. ASSUME NEW i \in 0 .. n PROVE Joined(i, s) = g[i]
    <2> DEFINE r == [k \in 0 .. i |-> g[k]]
    <2>1. r = [k \in 0 .. i |-> IF k = 0 THEN <<>> ELSE r[k - 1] \o s[k]]
      <3>1. ASSUME NEW k \in 0 .. i PROVE g[k] = IF k = 0 THEN <<>> ELSE r[k - 1] \o s[k]
        <4>1. CASE k = 0
          BY <4>1, <1>3
        <4>2. CASE k # 0
          <5>1. k \in 1 .. n /\ k - 1 \in 0 .. i
            BY <4>2
          <5>2. r[k - 1] = g[k - 1]
            BY <5>1
          <5> QED BY <4>2, <5>1, <5>2, <1>3
        <4> QED BY <4>1, <4>2
      <3> QED BY <3>1
    <2>2. PICK f : /\ Joined(i, s) = f[i]
                   /\ f = [k \in 0 .. i |-> IF k = 0 THEN <<>> ELSE f[k - 1] \o s[k]]
      <3> HIDE DEF r
      <3> QED BY <2>1 DEF Joined
    <2> DEFINE T == {k \in 0 .. i : f[k] = g[k]}
    <2>3. 0 \in T
      BY <2>2, <1>3
    <2>4. ASSUME NEW k \in 0 .. i - 1, k \in T PROVE k + 1 \in T
      <3>0. k + 1 \in 0 .. i /\ k + 1 \in 1 .. n /\ k + 1 # 0 /\ (k + 1) - 1 = k
        OBVIOUS
      <3>1. f[k + 1] = f[k] \o s[k + 1]
        BY <2>2, <3>0
      <3>2. g[k + 1] = g[k] \o s[k + 1]
        BY <1>3, <3>0
      <3>3. f[k + 1] = g[k + 1]
        BY <3>1, <3>2, <2>4
      <3> QED BY <3>0, <3>3
    <2>5. 0 .. i \subseteq T
      <3>1. i \in Nat
        OBVIOUS
      <3> HIDE DEF T
      <3> QED BY <2>3, <2>4, <3>1, UpTo
    <2>6. f[i] = g[i]
      BY <2>5
    <2> QED BY <2>2, <2>6
  <1> QED
    <2>1. Joined(0, s) = <<>>
      BY <1>3, <1>4
    <2>2. \A i \in 0 .. n : Joined(i, s) \in Seq(S)
      BY <1>4
    <2>3. ASSUME NEW i \in 1 .. n PROVE Joined(i, s) = Joined(i - 1, s) \o s[i]
      <3>1. i \in 0 .. n /\ i - 1 \in 0 .. n
        OBVIOUS
      <3> QED BY <1>3, <1>4, <3>1
    <2> QED BY <2>1, <2>2, <2>3

\* The bytes of a token are counted in naturals.
Token(S) == \A t \in S : t.head \in Nat /\ t.payload \in Nat

\* A sequence of tokens, and it with one of another sequence.
LEMMA WireSizeSteps ==
    ASSUME NEW S, Token(S), NEW w \in Seq(S)
    PROVE  /\ WireSize(w) \in Nat
           /\ \A k \in 0 .. Len(w) :
                Sum(k, [i \in DOMAIN w |-> w[i].head + w[i].payload]) \in Nat
           /\ \A k \in 1 .. Len(w) :
                Sum(k, [i \in DOMAIN w |-> w[i].head + w[i].payload]) =
                Sum(k - 1, [i \in DOMAIN w |-> w[i].head + w[i].payload]) + w[k].head + w[k].payload
  <1> DEFINE s == [i \in DOMAIN w |-> w[i].head + w[i].payload]
  <1>1. DOMAIN w = 1 .. Len(w) /\ Len(w) \in Nat
    OBVIOUS
  <1>2. \A i \in 1 .. Len(w) : /\ w[i].head \in Nat /\ w[i].payload \in Nat
                               /\ s[i] = w[i].head + w[i].payload
    BY <1>1 DEF Token
  <1>3. \A i \in 1 .. Len(w) : s[i] \in Nat
    <2> HIDE DEF s
    <2> QED BY <1>2
  <1>4. /\ \A k \in 0 .. Len(w) : Sum(k, s) \in Nat
        /\ \A k \in 1 .. Len(w) : Sum(k, s) = Sum(k - 1, s) + s[k]
    <2> HIDE DEF s
    <2> QED BY <1>1, <1>3, SumSteps
  <1>5. \A k \in 1 .. Len(w) : Sum(k, s) = Sum(k - 1, s) + w[k].head + w[k].payload
    <2> TAKE k \in 1 .. Len(w)
    <2>1. k - 1 \in 0 .. Len(w)
      BY <1>1
    <2> HIDE DEF s
    <2> QED BY <1>2, <1>4, <2>1
  <1>6. WireSize(w) \in Nat
    BY <1>1, <1>4 DEF WireSize
  <1> QED BY <1>4, <1>5, <1>6

\* The bytes of two sequences of tokens, one after the other.
LEMMA WireSizeConcat ==
    ASSUME NEW S, Token(S), NEW a \in Seq(S), NEW b \in Seq(S)
    PROVE  WireSize(a \o b) = WireSize(a) + WireSize(b)
  <1> DEFINE c == a \o b
             P(w, k) == Sum(k, [i \in DOMAIN w |-> w[i].head + w[i].payload])
             T == {k \in 0 .. Len(b) : P(c, Len(a) + k) = P(a, Len(a)) + P(b, k)}
             U == {k \in 0 .. Len(a) : P(c, k) = P(a, k)}
  <1>1. c \in Seq(S) /\ Len(c) = Len(a) + Len(b) /\ Len(a) \in Nat /\ Len(b) \in Nat
    OBVIOUS
  <1>2. \A w \in Seq(S) : /\ \A k \in 0 .. Len(w) : P(w, k) \in Nat
                          /\ \A k \in 1 .. Len(w) : P(w, k) = P(w, k - 1) + w[k].head + w[k].payload
    BY WireSizeSteps
  <1>3. \A w \in Seq(S) : P(w, 0) = 0 /\ WireSize(w) = P(w, Len(w))
    <2> TAKE w \in Seq(S)
    <2>1. Sum(0, [i \in DOMAIN w |-> w[i].head + w[i].payload]) = 0
      BY SumZero
    <2> QED BY <2>1 DEF WireSize
  <1> HIDE DEF P, c
  <1>4. 0 .. Len(a) \subseteq U
    <2>1. 0 \in U
      BY <1>1, <1>3
    <2>2. ASSUME NEW k \in 0 .. Len(a) - 1, k \in U PROVE k + 1 \in U
      <3>1. k + 1 \in 1 .. Len(a) /\ k + 1 \in 1 .. Len(c) /\ (k + 1) - 1 = k /\ k \in 0 .. Len(a)
        BY <1>1
      <3>2. c[k + 1] = a[k + 1]
        BY <3>1 DEF c
      <3>3. P(c, k + 1) = P(c, k) + a[k + 1].head + a[k + 1].payload
        BY <1>1, <1>2, <3>1, <3>2
      <3>4. P(a, k + 1) = P(a, k) + a[k + 1].head + a[k + 1].payload
        BY <1>2, <3>1
      <3> QED BY <3>1, <3>3, <3>4, <2>2
    <2> HIDE DEF U
    <2> QED BY <1>1, <2>1, <2>2, UpTo
  <1>5. 0 .. Len(b) \subseteq T
    <2>1. 0 \in T
      <3>1. Len(a) \in 0 .. Len(a) /\ Len(a) + 0 = Len(a) /\ 0 \in 0 .. Len(b)
        BY <1>1
      <3>2. P(c, Len(a)) = P(a, Len(a)) /\ P(a, Len(a)) \in Nat
        BY <1>2, <1>4, <3>1
      <3> QED BY <1>3, <3>1, <3>2
    <2>2. ASSUME NEW k \in 0 .. Len(b) - 1, k \in T PROVE k + 1 \in T
      <3>1. /\ k + 1 \in 1 .. Len(b) /\ Len(a) + (k + 1) \in 1 .. Len(c)
            /\ (k + 1) - 1 = k /\ (Len(a) + (k + 1)) - 1 = Len(a) + k /\ k \in 0 .. Len(b)
            /\ k + 1 \in 0 .. Len(b) /\ Len(a) \in 0 .. Len(a) /\ Len(a) + k \in 0 .. Len(c)
        BY <1>1
      <3>2. c[Len(a) + (k + 1)] = b[k + 1]
        BY <1>1, <3>1 DEF c
      <3>3. P(c, Len(a) + (k + 1)) = P(c, Len(a) + k) + b[k + 1].head + b[k + 1].payload
        BY <1>1, <1>2, <3>1, <3>2
      <3>4. P(b, k + 1) = P(b, k) + b[k + 1].head + b[k + 1].payload
        BY <1>2, <3>1
      <3>5. P(c, Len(a) + k) = P(a, Len(a)) + P(b, k)
        BY <2>2
      <3>6. P(a, Len(a)) \in Nat /\ P(b, k) \in Nat /\ b[k + 1].head \in Nat /\ b[k + 1].payload \in Nat
        <4>1. b[k + 1] \in S
          BY <3>1
        <4> QED BY <1>2, <3>1, <4>1 DEF Token
      <3>7. P(c, Len(a) + (k + 1)) = P(a, Len(a)) + P(b, k + 1)
        BY <3>3, <3>4, <3>5, <3>6
      <3> QED BY <3>1, <3>7
    <2> HIDE DEF T
    <2> QED BY <1>1, <2>1, <2>2, UpTo
  <1>6. P(c, Len(a) + Len(b)) = P(a, Len(a)) + P(b, Len(b))
    <2>1. Len(b) \in 0 .. Len(b)
      BY <1>1
    <2> QED BY <1>5, <2>1
  <1>7. WireSize(c) = WireSize(a) + WireSize(b)
    BY <1>1, <1>3, <1>6
  <1> QED BY <1>7 DEF c

\* The wire of a message is as long as its fields together.
LEMMA WireSizeJoined ==
    ASSUME NEW S, Token(S), NEW n \in Nat, NEW s, \A i \in 1 .. n : s[i] \in Seq(S),
           NEW z, \A i \in 1 .. n : z[i] = WireSize(s[i])
    PROVE  WireSize(Joined(n, s)) = Sum(n, z) /\ Sum(n, z) \in Nat
  <1> DEFINE T == {i \in 0 .. n : WireSize(Joined(i, s)) = Sum(i, z)}
  <1>1. \A i \in 1 .. n : z[i] \in Nat
    BY WireSizeSteps
  <1>2. /\ Sum(0, z) = 0 /\ \A i \in 0 .. n : Sum(i, z) \in Nat
        /\ \A i \in 1 .. n : Sum(i, z) = Sum(i - 1, z) + z[i]
    BY <1>1, SumSteps
  <1>3. /\ Joined(0, s) = <<>> /\ \A i \in 0 .. n : Joined(i, s) \in Seq(S)
        /\ \A i \in 1 .. n : Joined(i, s) = Joined(i - 1, s) \o s[i]
    BY JoinedSteps
  <1>4. 0 \in T
    <2> DEFINE e == [i \in DOMAIN <<>> |-> <<>>[i].head + <<>>[i].payload]
    <2>1. WireSize(<<>>) = Sum(0, e)
      BY DEF WireSize
    <2>2. Sum(0, e) = 0
      BY SumZero
    <2> QED BY <1>2, <1>3, <2>1, <2>2
  <1>5. ASSUME NEW i \in 0 .. n - 1, i \in T PROVE i + 1 \in T
    <2>1. i + 1 \in 1 .. n /\ (i + 1) - 1 = i /\ i \in 0 .. n /\ i + 1 \in 0 .. n
      OBVIOUS
    <2>2. Joined(i + 1, s) = Joined(i, s) \o s[i + 1]
      BY <1>3, <2>1
    <2>3. WireSize(Joined(i + 1, s)) = WireSize(Joined(i, s)) + WireSize(s[i + 1])
      BY <1>3, <2>1, <2>2, WireSizeConcat
    <2>4. Sum(i + 1, z) = Sum(i, z) + z[i + 1] /\ z[i + 1] = WireSize(s[i + 1])
      BY <1>2, <2>1
    <2> QED BY <1>5, <2>1, <2>3, <2>4
  <1>6. 0 .. n \subseteq T
    <2> HIDE DEF T
    <2> QED BY <1>4, <1>5, UpTo
  <1>7. n \in T
    BY <1>6
  <1> QED BY <1>2, <1>7

\* The i-th of the n sequences stands behind those before it, and nothing else is there.
Placed(n, s) ==
    /\ \A i \in 1 .. n :
         /\ Len(Joined(i, s)) = Len(Joined(i - 1, s)) + Len(s[i])
         /\ Len(Joined(i - 1, s)) \in Nat /\ Len(Joined(i, s)) <= Len(Joined(n, s))
         /\ \A k \in 1 .. Len(s[i]) : Joined(n, s)[Len(Joined(i - 1, s)) + k] = s[i][k]
    /\ \A j \in 1 .. Len(Joined(n, s)) : \E i \in 1 .. n : \E k \in 1 .. Len(s[i]) :
         j = Len(Joined(i - 1, s)) + k

\* Where the sequences that Joined puts together are found.
LEMMA JoinedAt ==
    ASSUME NEW S, NEW n \in Nat, NEW s, \A i \in 1 .. n : s[i] \in Seq(S)
    PROVE  Joined(n, s) \in Seq(S) /\ Placed(n, s)
  <1> DEFINE J(i) == Joined(i, s)
             Beginnings(m) == \A i \in 0 .. m : /\ Len(J(i)) <= Len(J(m))
                                              /\ \A k \in 1 .. Len(J(i)) : J(m)[k] = J(i)[k]
             Places(m) == \A j \in 1 .. Len(J(m)) : \E i \in 1 .. m : \E k \in 1 .. Len(s[i]) :
                            j = Len(J(i - 1)) + k
             T == {m \in 0 .. n : Beginnings(m) /\ Places(m)}
  <1>1. /\ J(0) = <<>> /\ \A i \in 0 .. n : J(i) \in Seq(S)
        /\ \A i \in 1 .. n : J(i) = J(i - 1) \o s[i]
    BY JoinedSteps
  <1> HIDE DEF J
  <1>2. ASSUME NEW i \in 1 .. n
        PROVE  /\ J(i - 1) \in Seq(S) /\ s[i] \in Seq(S)
               /\ Len(J(i)) = Len(J(i - 1)) + Len(s[i]) /\ Len(J(i - 1)) \in Nat
               /\ Len(s[i]) \in Nat
               /\ \A k \in 1 .. Len(s[i]) : J(i)[Len(J(i - 1)) + k] = s[i][k]
               /\ \A k \in 1 .. Len(J(i - 1)) : J(i)[k] = J(i - 1)[k]
    <2>0. i - 1 \in 0 .. n
      OBVIOUS
    <2>1. J(i - 1) \in Seq(S) /\ s[i] \in Seq(S) /\ J(i) = J(i - 1) \o s[i]
      BY <1>1, <2>0
    <2> QED BY <2>1
  <1>3. 0 \in T
    <2>1. Len(J(0)) = 0
      BY <1>1
    <2>2. Beginnings(0) /\ Places(0)
      BY <2>1
    <2> QED BY <2>2
  <1>4. ASSUME NEW m \in 0 .. n - 1, m \in T PROVE m + 1 \in T
    <2>0. m + 1 \in 1 .. n /\ (m + 1) - 1 = m /\ m + 1 \in 0 .. n
      OBVIOUS
    <2>1. /\ Len(J(m + 1)) = Len(J(m)) + Len(s[m + 1]) /\ Len(J(m)) \in Nat /\ Len(s[m + 1]) \in Nat
          /\ \A k \in 1 .. Len(s[m + 1]) : J(m + 1)[Len(J(m)) + k] = s[m + 1][k]
          /\ \A k \in 1 .. Len(J(m)) : J(m + 1)[k] = J(m)[k]
      BY <1>2, <2>0
    <2>2. Beginnings(m) /\ Places(m)
      BY <1>4
    <2>3. ASSUME NEW i \in 0 .. m + 1
          PROVE  /\ Len(J(i)) <= Len(J(m + 1))
                 /\ \A k \in 1 .. Len(J(i)) : J(m + 1)[k] = J(i)[k]
      <3>1. CASE i = m + 1
        <4>1. Len(J(m + 1)) \in Nat
          BY <2>1
        <4> QED BY <3>1, <4>1
      <3>2. CASE i \in 0 .. m
        <4>1. Len(J(i)) <= Len(J(m)) /\ \A k \in 1 .. Len(J(i)) : J(m)[k] = J(i)[k]
          BY <2>2, <3>2
        <4>2. Len(J(i)) \in Nat
          <5>1. i \in 0 .. n /\ J(i) \in Seq(S)
            BY <1>1, <3>2
          <5> QED BY <5>1
        <4>3. Len(J(i)) <= Len(J(m + 1))
          BY <2>1, <4>1, <4>2
        <4>4. ASSUME NEW k \in 1 .. Len(J(i)) PROVE J(m + 1)[k] = J(i)[k]
          <5>1. k \in 1 .. Len(J(m))
            BY <2>1, <4>1, <4>2
          <5> QED BY <2>1, <4>1, <5>1
        <4> QED BY <4>3, <4>4
      <3> QED BY <3>1, <3>2
    <2>4. ASSUME NEW j \in 1 .. Len(J(m + 1))
          PROVE  \E i \in 1 .. m + 1 : \E k \in 1 .. Len(s[i]) : j = Len(J(i - 1)) + k
      <3>1. CASE j \in 1 .. Len(J(m))
        <4>1. PICK i \in 1 .. m : \E k \in 1 .. Len(s[i]) : j = Len(J(i - 1)) + k
          BY <2>2, <3>1
        <4>2. i \in 1 .. m + 1
          OBVIOUS
        <4> QED BY <4>1, <4>2
      <3>2. CASE j \notin 1 .. Len(J(m))
        <4> DEFINE k == j - Len(J(m))
        <4>1. k \in 1 .. Len(s[m + 1]) /\ j = Len(J(m)) + k
          BY <2>1, <3>2
        <4>2. m + 1 \in 1 .. m + 1
          OBVIOUS
        <4> HIDE DEF k
        <4> QED BY <2>0, <4>1, <4>2
      <3> QED BY <3>1, <3>2
    <2>5. Beginnings(m + 1) /\ Places(m + 1)
      BY <2>3, <2>4
    <2> QED BY <2>0, <2>5
  <1>5. 0 .. n \subseteq T
    <2> HIDE DEF T
    <2> QED BY <1>3, <1>4, UpTo
  <1>6. n \in T
    <2>1. n \in 0 .. n
      OBVIOUS
    <2> HIDE DEF T
    <2> QED BY <1>5, <2>1
  <1>7. J(n) \in Seq(S)
    BY <1>1
  <1>8. ASSUME NEW i \in 1 .. n
        PROVE  /\ Len(J(i)) <= Len(J(n))
               /\ \A k \in 1 .. Len(s[i]) : J(n)[Len(J(i - 1)) + k] = s[i][k]
    <2>1. i \in 0 .. n
      OBVIOUS
    <2>2. Len(J(i)) <= Len(J(n)) /\ \A k \in 1 .. Len(J(i)) : J(n)[k] = J(i)[k]
      BY <1>6, <2>1
    <2>3. ASSUME NEW k \in 1 .. Len(s[i]) PROVE J(n)[Len(J(i - 1)) + k] = s[i][k]
      <3>0. Len(J(i)) = Len(J(i - 1)) + Len(s[i]) /\ Len(J(i - 1)) \in Nat /\ Len(s[i]) \in Nat
        BY <1>2
      <3>1. Len(J(i - 1)) + k \in 1 .. Len(J(i))
        BY <3>0
      <3> QED BY <1>2, <2>2, <3>1
    <2> QED BY <2>2, <2>3
  <1>9. Places(n)
    BY <1>6
  <1> QED BY <1>2, <1>7, <1>8, <1>9 DEF J, Placed

-----------------------------------------------------------------------------
(* Integers of two widths.                                                  *)

Signed == -(2^(Bits32 - 1)) .. 2^(Bits32 - 1) - 1
Unsigned32 == 0 .. 2^Bits32 - 1
Unsigned64 == 0 .. 2^Bits64 - 1

\* x is k times N and r more.
Splits(x, N, k, r) == x = k * N + r

\* The remainder of a number is the one number of the range that is congruent to it.
LEMMA Remainder ==
    ASSUME NEW N \in Nat, N > 0, NEW x \in Int
    PROVE  /\ x % N \in 0 .. N - 1
           /\ \A r \in 0 .. N - 1, k \in Int : Splits(x, N, k, r) => x % N = r
  <1>1. x % N \in 0 .. N - 1
    OBVIOUS
  <1>2. ASSUME NEW r \in 0 .. N - 1, NEW k \in Int, Splits(x, N, k, r) PROVE x % N = r
    <2> DEFINE q == x \div N
               s == x % N
    <2>1. q \in Int /\ s \in 0 .. N - 1 /\ x = N * q + s
      OBVIOUS
    <2> HIDE DEF q, s
    <2>2. N * (q - k) = r - s
      BY <2>1, <1>2 DEF Splits
    <2> DEFINE d == q - k
    <2>3. d \in Int /\ N * d = r - s
      BY <2>1, <2>2
    <2> HIDE DEF d
    <2>4. ~ (d >= 1)
      <3>1. ASSUME d >= 1 PROVE N * d >= N
        BY <3>1, <2>3
      <3> QED BY <3>1, <2>1, <2>3
    <2>5. ~ (d <= -1)
      <3>1. ASSUME d <= -1 PROVE N * d <= -N
        BY <3>1, <2>3
      <3> QED BY <3>1, <2>1, <2>3
    <2>6. d = 0
      BY <2>3, <2>4, <2>5
    <2>7. r = s
      BY <2>1, <2>3, <2>6
    <2> QED BY <2>7 DEF s
  <1> QED BY <1>1, <1>2

\* The ranges of the integer types.
LEMMA Widths ==
    /\ 2^(Bits32 - 1) \in Nat /\ 2^(Bits32 - 1) > 0 /\ 2^Bits32 = 2 * 2^(Bits32 - 1)
    /\ 2^Bits32 \in Nat /\ 2^Bits32 > 0
    /\ 2^Bits64 \in Nat /\ 2^Bits64 >= 2 * 2^Bits32
    /\ \E k \in Nat : 2^Bits64 = k * 2^Bits32
  <1> DEFINE H == 2^(Bits32 - 1)
             N == 2^Bits32
             M == 2^Bits64
             K == 2^(Bits64 - Bits32)
  <1>1. H \in Nat /\ H > 0 /\ N = 2 * H /\ K \in Nat /\ K > 1 /\ M = K * N
    BY PowerAssumption
  <1> HIDE DEF H, N, M, K
  <1>2. N \in Nat /\ N > 0
    BY <1>1
  <1>3. K * N >= 2 * N /\ K * N \in Nat
    BY <1>1, <1>2
  <1> QED BY <1>1, <1>2, <1>3 DEF H, N, M, K

\* What the conversions return, and which numbers they keep.
LEMMA Conversions ==
    /\ \A x \in Int : Int32(x) \in Signed /\ UInt32(x) \in Unsigned32 /\ UInt64(x) \in Unsigned64
    /\ \A v \in Signed : Int32(v) = v /\ Int32(UInt64(v)) = v
    /\ \A v \in Unsigned32 : UInt32(v) = v /\ UInt32(UInt64(v)) = v
    /\ \A v \in Unsigned64 : UInt64(v) = v
    /\ Unsigned32 \subseteq Unsigned64
  <1> DEFINE H == 2^(Bits32 - 1)
             N == 2^Bits32
             M == 2^Bits64
  <1>1. PICK K \in Nat : M = K * N
    BY Widths
  <1>2. H \in Nat /\ H > 0 /\ N = 2 * H /\ N \in Nat /\ N > 0 /\ M \in Nat /\ M >= 2 * N
    BY Widths
  <1>3. /\ Signed = -H .. H - 1 /\ Unsigned32 = 0 .. N - 1 /\ Unsigned64 = 0 .. M - 1
        /\ \A x : UInt32(x) = x % N /\ UInt64(x) = x % M
        /\ \A x : Int32(x) = IF x % N < H THEN x % N ELSE (x % N) - N
    BY DEF Signed, Unsigned32, Unsigned64, UInt32, UInt64, Int32
  <1> HIDE DEF H, N, M
  <1>4. \A x \in Int : x % N \in 0 .. N - 1 /\ x % M \in 0 .. M - 1
    BY <1>2, Remainder
  <1>5. ASSUME NEW x \in Int PROVE Int32(x) \in Signed /\ UInt32(x) \in Unsigned32 /\ UInt64(x) \in Unsigned64
    <2> DEFINE r == x % N
    <2>1. r \in 0 .. N - 1
      BY <1>4
    <2>2. Int32(x) = IF r < H THEN r ELSE r - N
      BY <1>3
    <2> HIDE DEF r
    <2>3. Int32(x) \in -H .. H - 1
      BY <1>2, <2>1, <2>2
    <2> QED BY <1>3, <1>4, <2>3
  <1>6. ASSUME NEW v \in Signed PROVE Int32(v) = v /\ Int32(UInt64(v)) = v
    <2>1. v \in Int /\ -H <= v /\ v < H
      BY <1>2, <1>3
    <2>2. CASE v >= 0
      <3>1. v % N = v /\ v % M = v
        BY <1>2, <2>1, <2>2
      <3> QED BY <1>3, <2>1, <3>1
    <2>3. CASE v < 0
      <3>1. v % N = v + N /\ v % M = v + M
        BY <1>2, <2>1, <2>3
      <3>2. v + M = K * N + v /\ v + M = (K - 1) * N + (v + N) /\ v + N \in 0 .. N - 1 /\ K - 1 \in Int
        BY <1>1, <1>2, <2>1, <2>3
      <3>3. (v + M) % N = v + N
        <4> DEFINE y == v + M
        <4>1. y \in Int /\ Splits(y, N, K - 1, v + N)
          BY <1>2, <2>1, <3>2 DEF Splits
        <4> HIDE DEF y
        <4>2. \A r \in 0 .. N - 1, k \in Int : Splits(y, N, k, r) => y % N = r
          BY <1>2, <4>1, Remainder
        <4>3. y % N = v + N
          BY <3>2, <4>1, <4>2
        <4> QED BY <4>3 DEF y
      <3>4. ~ (v + N < H) /\ (v + N) - N = v
        BY <1>2, <2>1
      <3> QED BY <1>3, <3>1, <3>3, <3>4
    <2> QED BY <2>1, <2>2, <2>3
  <1>7. ASSUME NEW v \in Unsigned32 PROVE UInt32(v) = v /\ UInt32(UInt64(v)) = v
    <2>1. v \in Int /\ 0 <= v /\ v < N
      BY <1>2, <1>3
    <2>2. v % N = v /\ v % M = v
      BY <1>2, <2>1
    <2> QED BY <1>3, <2>2
  <1>8. ASSUME NEW v \in Unsigned64 PROVE UInt64(v) = v
    <2>1. v \in Int /\ 0 <= v /\ v < M
      BY <1>2, <1>3
    <2>2. v % M = v
      BY <1>2, <2>1
    <2> QED BY <1>3, <2>2
  <1>9. Unsigned32 \subseteq Unsigned64
    BY <1>2, <1>3
  <1> QED BY <1>5, <1>6, <1>7, <1>8, <1>9

\* A converted integer is one.
LEMMA ConversionTypes == \A x \in Int : Int32(x) \in Int /\ UInt32(x) \in Int /\ UInt64(x) \in Int
  <1>1. Signed \subseteq Int /\ Unsigned32 \subseteq Int /\ Unsigned64 \subseteq Int
    BY Widths DEF Signed, Unsigned32, Unsigned64
  <1> QED BY <1>1, Conversions

\* A varint takes at least one byte.
LEMMA VarintSizeType == \A x : VarintSize(x) \in Nat
  <1> TAKE x
  <1> DEFINE S == {k \in 1 .. Bits64 \div Septet : x >= 2^(Septet * k)}
             n == Bits64 \div Septet
  <1>1. n \in Int
    BY WidthAssumption
  <1> HIDE DEF n
  <1>2. IsFiniteSet(1 .. n)
    BY <1>1, FS_Interval
  <1>3. IsFiniteSet(S)
    BY <1>2, FS_Subset DEF n
  <1>4. Cardinality(S) \in Nat
    <2> HIDE DEF S
    <2> QED BY <1>3, FS_CardinalityType
  <1>5. VarintSize(x) = 1 + Cardinality(S)
    BY DEF VarintSize
  <1> HIDE DEF S
  <1> QED BY <1>4, <1>5

-----------------------------------------------------------------------------
(* The types of the messages; C are the characters of texts and data.       *)

Kinds == Scalar \cup Text \cup {"int32s", "attributes", "fileInfo", "directory"}

\* Fields of known kinds and different names.
FieldList(F) ==
    /\ Len(F) \in Nat /\ DOMAIN F = 1 .. Len(F)
    /\ \A i \in 1 .. Len(F) : F[i].kind \in Kinds
    /\ \A i, j \in 1 .. Len(F) : F[i].name = F[j].name => i = j

ScalarValues(kind) ==
    IF kind = "int32" THEN Signed ELSE IF kind = "uint32" THEN Unsigned32 ELSE Unsigned64

LeafList(F) == FieldList(F) /\ \A i \in 1 .. Len(F) : F[i].kind \in Scalar
Leaves(F) ==
    {m \in [Names(F) -> Int] : \A i \in 1 .. Len(F) : m[F[i].name] \in ScalarValues(F[i].kind)}

Optional(S) == {<<>>} \cup {<<x>> : x \in S}
Attributes == Leaves(attributes_Fields)
FileInfos == Leaves(fileInfo_Fields)
Directories(C) ==
    {d \in [Names(directory_Fields) -> Seq(C) \cup Optional(Attributes)] :
        d.name \in Seq(C) /\ d.attr \in Optional(Attributes)}

Values(kind, C) ==
    CASE kind \in Scalar      -> ScalarValues(kind)
      [] kind \in Text        -> Seq(C)
      [] kind = "int32s"      -> Seq(Signed)
      [] kind = "attributes"  -> Optional(Attributes)
      [] kind = "fileInfo"    -> Optional(FileInfos)
      [] OTHER                -> Seq(Directories(C))
MessagesOf(F, C) ==
    {m \in [Names(F) -> UNION {Values(kind, C) : kind \in Kinds}] :
        \A i \in 1 .. Len(F) : m[F[i].name] \in Values(F[i].kind, C)}

\* The field lists of nfs.proto number their fields and name each one once.
LEMMA Lists ==
    /\ LeafList(attributes_Fields) /\ LeafList(fileInfo_Fields)
    /\ FieldList(directory_Fields) /\ FieldList(request_Fields) /\ FieldList(response_Fields)
  <1>1. LeafList(attributes_Fields)
    BY DEF LeafList, FieldList, attributes_Fields, Field, Kinds, Scalar
  <1>2. LeafList(fileInfo_Fields)
    BY DEF LeafList, FieldList, fileInfo_Fields, Field, Kinds, Scalar
  <1>3. FieldList(directory_Fields)
    BY DEF FieldList, directory_Fields, Field, Kinds, Scalar, Text
  <1>4. FieldList(request_Fields)
    BY DEF FieldList, request_Fields, Field, Kinds, Scalar, Text
  <1>5. FieldList(response_Fields)
    BY DEF FieldList, response_Fields, Field, Kinds, Scalar, Text
  <1> QED BY <1>1, <1>2, <1>3, <1>4, <1>5

-----------------------------------------------------------------------------
(* Reading field by field.                                                  *)

\* From position a to position b of the values g a message takes over field x from m.
TakesOver(g, a, b, x, e, m) == g[a][x] = e[x] => g[b] = [g[a] EXCEPT ![x] = m[x]]

\* The values g begin with e at off[0] and take over the n fields of X one by one.
TakesAll(g, off, n, name, X, U, e, m) ==
    /\ n \in Nat /\ e \in [X -> U] /\ m \in [X -> U]
    /\ X = {name[i] : i \in 1 .. n} /\ \A i, j \in 1 .. n : name[i] = name[j] => i = j
    /\ g[off[0]] = e
    /\ \A i \in 1 .. n : TakesOver(g, off[i - 1], off[i], name[i], e, m)

\* A reading that begins with the empty message e and takes over each field ends with m.
LEMMA FieldByField ==
    ASSUME NEW n, NEW name, NEW X, NEW U, NEW e, NEW m, NEW off, NEW g,
           TakesAll(g, off, n, name, X, U, e, m)
    PROVE  g[off[n]] = m
  <1>0. /\ n \in Nat /\ e \in [X -> U] /\ m \in [X -> U]
        /\ X = {name[i] : i \in 1 .. n} /\ \A i, j \in 1 .. n : name[i] = name[j] => i = j
        /\ g[off[0]] = e
        /\ \A i \in 1 .. n : TakesOver(g, off[i - 1], off[i], name[i], e, m)
    BY DEF TakesAll
  <1> n \in Nat
    BY <1>0
  <1> DEFINE Part(i) == [x \in X |-> IF \E j \in 1 .. i : name[j] = x THEN m[x] ELSE e[x]]
             T == {i \in 0 .. n : g[off[i]] = Part(i)}
  <1>1. 0 \in T
    <2>1. Part(0) = e
      BY <1>0
    <2> QED BY <1>0, <2>1
  <1>2. ASSUME NEW i \in 0 .. n - 1, i \in T PROVE i + 1 \in T
    <2>1. i + 1 \in 1 .. n /\ (i + 1) - 1 = i /\ i + 1 \in 0 .. n
      OBVIOUS
    <2> DEFINE x == name[i + 1]
    <2>2. x \in X
      BY <1>0, <2>1
    <2>3. ~ \E j \in 1 .. i : name[j] = x
      <3> SUFFICES ASSUME NEW j \in 1 .. i, name[j] = x PROVE FALSE
        OBVIOUS
      <3>1. j \in 1 .. n /\ j # i + 1
        OBVIOUS
      <3> QED BY <1>0, <2>1, <3>1
    <2>4. g[off[i]] = Part(i)
      BY <1>2
    <2>5. g[off[i]][x] = e[x]
      BY <2>2, <2>3, <2>4
    <2>6. g[off[i + 1]] = [Part(i) EXCEPT ![x] = m[x]]
      BY <1>0, <2>1, <2>4, <2>5 DEF TakesOver
    <2>7. ASSUME NEW y \in X
          PROVE  [Part(i) EXCEPT ![x] = m[x]][y] = Part(i + 1)[y]
      <3>1. CASE y = x
        <4>1. \E j \in 1 .. i + 1 : name[j] = y
          BY <3>1, <2>1
        <4> QED BY <3>1, <4>1, <2>2
      <3>2. CASE y # x
        <4>1. (\E j \in 1 .. i + 1 : name[j] = y) <=> (\E j \in 1 .. i : name[j] = y)
          <5>1. \A j \in 1 .. i + 1 : j \in 1 .. i \/ j = i + 1
            OBVIOUS
          <5>2. 1 .. i \subseteq 1 .. i + 1
            OBVIOUS
          <5> QED BY <3>2, <5>1, <5>2
        <4> QED BY <3>2, <4>1
      <3> QED BY <3>1, <3>2
    <2>8. [Part(i) EXCEPT ![x] = m[x]] = Part(i + 1)
      BY <2>7
    <2> QED BY <2>1, <2>6, <2>8
  <1>3. 0 .. n \subseteq T
    <2> HIDE DEF T
    <2> QED BY <1>1, <1>2, UpTo
  <1>4. n \in T
    <2>1. n \in 0 .. n
      OBVIOUS
    <2> HIDE DEF T
    <2> QED BY <1>3, <2>1
  <1>5. Part(n) = m
    BY <1>0
  <1> QED BY <1>4, <1>5

\* The tokens of no field, and one token.
LEMMA WireSizeFew ==
    /\ WireSize(<<>>) = 0
    /\ \A t : t.head \in Nat /\ t.payload \in Nat => WireSize(<<t>>) = t.head + t.payload
  <1>1. WireSize(<<>>) = 0
    BY SumZero DEF WireSize
  <1>2. ASSUME NEW t, t.head \in Nat, t.payload \in Nat PROVE WireSize(<<t>>) = t.head + t.payload
    <2> DEFINE S == {t}
               w == <<t>>
               s == [i \in DOMAIN w |-> w[i].head + w[i].payload]
    <2>1. Token(S) /\ w \in Seq(S) /\ Len(w) = 1 /\ w[1] = t
      BY <1>2 DEF Token
    <2>2. s[1] = t.head + t.payload
      OBVIOUS
    <2>3. \A i \in 1 .. 1 : s[i] \in Nat
      BY <1>2, <2>2
    <2>4. WireSize(w) = Sum(1, s)
      BY <2>1 DEF WireSize
    <2>5. Sum(1, s) = Sum(1 - 1, s) + s[1]
      <3> HIDE DEF s
      <3>1. \A n \in Nat : (\A i \in 1 .. n : s[i] \in Nat) => \A i \in 1 .. n : Sum(i, s) = Sum(i - 1, s) + s[i]
        BY SumSteps
      <3>2. 1 \in Nat /\ 1 \in 1 .. 1
        OBVIOUS
      <3> QED BY <2>3, <3>1, <3>2
    <2>6. Sum(1 - 1, s) = 0
      <3> HIDE DEF s
      <3> QED BY SumZero
    <2> QED BY <1>2, <2>2, <2>4, <2>5, <2>6
  <1> QED BY <1>1, <1>2

\* What a token holds.
LEMMA TokenParts ==
    /\ \A num, x : LET t == Varint(num, x) IN
         t.num = num /\ t.val = x /\ t.head = 1 /\ t.len = VarintSize(x) /\ t.payload = VarintSize(x)
    /\ \A num, val, len, payload : LET t == Delimited(num, val, len, payload) IN
         /\ t.num = num /\ t.val = val /\ t.head = 1 + VarintSize(len)
         /\ t.len = len /\ t.payload = payload
  BY DEF Varint, Delimited

-----------------------------------------------------------------------------
(* The codec of messages whose fields are integers.                         *)

\* A scalar survives its conversion to a varint and back.
LEMMA ScalarBack ==
    ASSUME NEW kind \in Scalar, NEW v \in ScalarValues(kind)
    PROVE  /\ Default(kind) = 0 /\ v \in Int /\ UInt64(v) \in Unsigned64
           /\ kind = "int32" => Int32(UInt64(v)) = v
           /\ kind = "uint32" => UInt32(UInt64(v)) = v
           /\ kind = "uint64" => UInt64(v) = v
  <1>1. Default(kind) = 0
    BY DEF Default
  <1>2. v \in Int
    BY Widths DEF ScalarValues, Signed, Unsigned32, Unsigned64
  <1> QED BY <1>1, <1>2, Conversions DEF ScalarValues, Scalar

-----------------------------------------------------------------------------
(* The tokens of a field, with its submessages encoded as b in z bytes.     *)

SubKinds == {"attributes", "fileInfo", "directory"}

DelimitedEach(num, v, b, z) ==
    [j \in DOMAIN v |-> Delimited(num, b[j], z[j], WireSize(b[j]))]

\* The tokens of submessages, one each.
LEMMA SubTokens ==
    ASSUME NEW num, NEW f, f.kind \in SubKinds, NEW v, v # Default(f.kind), NEW b, NEW z
    PROVE  Tokens(num, f, v, b, z) = DelimitedEach(num, v, b, z)
  <1> DEFINE T(j) == {Delimited(num, w, n, WireSize(w)) : w \in {b[j]}, n \in {z[j]}}
  <1>1. Tokens(num, f, v, b, z) = [j \in DOMAIN v |-> CHOOSE t \in T(j) : TRUE]
    BY DEF Tokens, Scalar, Text, SubKinds
  <1>2. ASSUME NEW j PROVE (CHOOSE t \in T(j) : TRUE) = Delimited(num, b[j], z[j], WireSize(b[j]))
    <2> DEFINE d == Delimited(num, b[j], z[j], WireSize(b[j]))
    <2>1. T(j) = {d}
      OBVIOUS
    <2>2. (CHOOSE t \in {d} : TRUE) = d
      OBVIOUS
    <2> QED BY <2>1, <2>2
  <1> QED BY <1>1, <1>2 DEF DelimitedEach

\* The size in front of each submessage is the one it has.
Sized(v, b, z) == \A j \in DOMAIN v : z[j] \in Nat /\ WireSize(b[j]) = z[j]

\* Tokens of field num whose two lengths agree.
Sound(num, s) ==
    /\ s \in Seq({s[k] : k \in 1 .. Len(s)})
    /\ \A k \in 1 .. Len(s) : /\ s[k].num = num /\ s[k].len = s[k].payload
                              /\ s[k].head \in Nat /\ s[k].payload \in Nat

\* One sound token.
LEMMA SoundOne ==
    ASSUME NEW num, NEW t, t.num = num, t.len = t.payload, t.head \in Nat, t.payload \in Nat
    PROVE  Sound(num, <<t>>) /\ WireSize(<<t>>) = t.head + t.payload
  <1>1. Sound(num, <<t>>)
    BY DEF Sound
  <1> QED BY <1>1, WireSizeFew

\* A list of integers is packed in a natural number of bytes.
LEMMA PackedSizeType == ASSUME NEW S, NEW v \in Seq(S) PROVE PackedSize(v) \in Nat
  <1> DEFINE s == [j \in DOMAIN v |-> VarintSize(UInt64(v[j]))]
  <1>1. Len(v) \in Nat /\ \A j \in 1 .. Len(v) : s[j] \in Nat
    BY VarintSizeType
  <1>2. PackedSize(v) = Sum(Len(v), s)
    BY DEF PackedSize
  <1> HIDE DEF s
  <1>3. Len(v) \in 0 .. Len(v)
    BY <1>1
  <1>4. \A i \in 0 .. Len(v) : Sum(i, s) \in Nat
    BY <1>1, SumSteps
  <1> QED BY <1>2, <1>3, <1>4

\* A value of a field of submessages is a sequence.
LEMMA SubSequences ==
    ASSUME NEW kind \in SubKinds, NEW C, NEW v \in Values(kind, C)
    PROVE  Default(kind) = <<>> /\ v = [j \in 1 .. Len(v) |-> v[j]] /\ Len(v) \in Nat
  <1>1. Default(kind) = <<>>
    BY DEF Default, SubKinds, Scalar
  <1>2. v \in Optional(Attributes) \/ v \in Optional(FileInfos) \/ v \in Seq(Directories(C))
    BY DEF SubKinds, Values, Scalar, Text
  <1>3. CASE v \in Seq(Directories(C))
    BY <1>1, <1>3
  <1>4. ASSUME NEW X, v \in Optional(X) PROVE v = [j \in 1 .. Len(v) |-> v[j]] /\ Len(v) \in Nat
    <2>1. CASE v = <<>>
      BY <2>1
    <2>2. ASSUME NEW x, v = <<x>> PROVE v = [j \in 1 .. Len(v) |-> v[j]] /\ Len(v) \in Nat
      <3>1. v \in Seq({x})
        BY <2>2
      <3> QED BY <3>1
    <2> QED BY <1>4, <2>1, <2>2 DEF Optional
  <1> QED BY <1>1, <1>2, <1>3, <1>4

\* A value v of field f, with the submessages encoded as b in z bytes.
Encodable(f, C, v, b, z) ==
    /\ f.kind \in Kinds /\ v \in Values(f.kind, C)
    /\ f.kind \in SubKinds => Sized(v, b, z)

\* The tokens of a field are sound and as long as its size says.
LEMMA FieldEncoded ==
    ASSUME NEW num, NEW f, NEW C, NEW v, NEW b, NEW z, Encodable(f, C, v, b, z)
    PROVE  Sound(num, Tokens(num, f, v, b, z)) /\ WireSize(Tokens(num, f, v, b, z)) = FieldSize(f, v, z)
  <1> DEFINE T == Tokens(num, f, v, b, z)
             Z == FieldSize(f, v, z)
  <1>0. /\ f.kind \in Kinds /\ v \in Values(f.kind, C)
        /\ f.kind \in SubKinds => Sized(v, b, z)
    BY DEF Encodable
  <1>1. CASE v = Default(f.kind)
    <2>1. T = <<>> /\ Z = 0
      BY <1>1 DEF Tokens, FieldSize
    <2>2. Sound(num, <<>>)
      BY DEF Sound
    <2> QED BY <2>1, <2>2, WireSizeFew
  <1>2. CASE v # Default(f.kind) /\ f.kind \in Scalar
    <2> DEFINE t == Varint(num, UInt64(v))
    <2>1. T = <<t>> /\ Z = 1 + VarintSize(UInt64(v))
      BY <1>2 DEF Tokens, FieldSize, Text, Scalar
    <2>2. /\ t.num = num /\ t.head = 1 /\ t.len = VarintSize(UInt64(v))
          /\ t.payload = VarintSize(UInt64(v)) /\ VarintSize(UInt64(v)) \in Nat
      BY TokenParts, VarintSizeType
    <2> HIDE DEF t
    <2> QED BY <2>1, <2>2, SoundOne
  <1>3. CASE v # Default(f.kind) /\ f.kind \in Text
    <2> DEFINE t == Delimited(num, v, Len(v), Len(v))
    <2>1. T = <<t>> /\ Z = 1 + Prefixed(Len(v))
      BY <1>3 DEF Tokens, FieldSize, Text, Scalar
    <2>2. Len(v) \in Nat
      BY <1>0, <1>3 DEF Values, Text, Scalar
    <2>3. /\ t.num = num /\ t.head = 1 + VarintSize(Len(v)) /\ t.len = Len(v)
          /\ t.payload = Len(v) /\ VarintSize(Len(v)) \in Nat
      BY TokenParts, VarintSizeType
    <2>4. Prefixed(Len(v)) = VarintSize(Len(v)) + Len(v)
      BY DEF Prefixed
    <2> HIDE DEF t
    <2>5. Sound(num, <<t>>) /\ WireSize(<<t>>) = (1 + VarintSize(Len(v))) + Len(v)
      BY <2>2, <2>3, SoundOne
    <2> QED BY <2>1, <2>2, <2>3, <2>4, <2>5
  <1>4. CASE v # Default(f.kind) /\ f.kind = "int32s"
    <2> DEFINE P == PackedSize(v)
               t == Delimited(num, [j \in DOMAIN v |-> UInt64(v[j])], P, P)
    <2>1. T = <<t>> /\ Z = 1 + Prefixed(P)
      BY <1>4 DEF Tokens, FieldSize, Text, Scalar
    <2>2. P \in Nat
      <3>1. v \in Seq(Signed)
        BY <1>0, <1>4 DEF Values, Text, Scalar
      <3> QED BY <3>1, PackedSizeType
    <2>3. t.num = num /\ t.head = 1 + VarintSize(P) /\ t.len = P /\ t.payload = P /\ VarintSize(P) \in Nat
      BY TokenParts, VarintSizeType
    <2>4. Prefixed(P) = VarintSize(P) + P
      BY DEF Prefixed
    <2> HIDE DEF t, P
    <2>5. Sound(num, <<t>>) /\ WireSize(<<t>>) = (1 + VarintSize(P)) + P
      BY <2>2, <2>3, SoundOne
    <2> QED BY <2>1, <2>2, <2>3, <2>4, <2>5
  <1>5. CASE v # Default(f.kind) /\ f.kind \in SubKinds
    <2> DEFINE y == [j \in DOMAIN v |-> 1 + Prefixed(z[j])]
    <2>1. T = [j \in DOMAIN v |-> Delimited(num, b[j], z[j], WireSize(b[j]))] /\ Z = Sum(Len(v), y)
      <3>1. T = [j \in DOMAIN v |-> Delimited(num, b[j], z[j], WireSize(b[j]))]
        BY <1>5, SubTokens DEF DelimitedEach
      <3>2. Z = Sum(Len(v), y)
        BY <1>5 DEF FieldSize, Text, Scalar, SubKinds
      <3> QED BY <3>1, <3>2
    <2>2. DOMAIN v = 1 .. Len(v) /\ Len(v) \in Nat
      BY <1>0, <1>5, SubSequences
    <2>3. Len(T) = Len(v) /\ DOMAIN T = 1 .. Len(v)
      BY <2>1, <2>2
    <2>4. ASSUME NEW j \in 1 .. Len(v)
          PROVE  /\ T[j].num = num /\ T[j].len = T[j].payload
                 /\ T[j].head \in Nat /\ T[j].payload \in Nat
                 /\ y[j] = T[j].head + T[j].payload
      <3> DEFINE t == Delimited(num, b[j], z[j], WireSize(b[j]))
      <3>1. T[j] = t /\ y[j] = 1 + Prefixed(z[j])
        BY <2>1, <2>2
      <3>2. z[j] \in Nat /\ WireSize(b[j]) = z[j]
        BY <1>0, <1>5, <2>2 DEF Sized
      <3>3. /\ t.num = num /\ t.head = 1 + VarintSize(z[j]) /\ t.len = z[j] /\ t.payload = WireSize(b[j])
            /\ VarintSize(z[j]) \in Nat
        BY TokenParts, VarintSizeType
      <3>4. Prefixed(z[j]) = VarintSize(z[j]) + z[j]
        BY DEF Prefixed
      <3> HIDE DEF t, T, y
      <3> QED BY <3>1, <3>2, <3>3, <3>4
    <2>5. Sound(num, T)
      <3>1. T \in Seq({T[k] : k \in 1 .. Len(T)})
        <4>1. T = [j \in 1 .. Len(v) |-> T[j]]
          BY <2>1, <2>2
        <4> HIDE DEF T
        <4> QED BY <2>2, <2>3, <4>1
      <3> HIDE DEF T
      <3> QED BY <2>3, <2>4, <3>1 DEF Sound
    <2>6. WireSize(T) = Z
      <3>1. [i \in DOMAIN T |-> T[i].head + T[i].payload] = y
        <4>1. DOMAIN y = 1 .. Len(v)
          BY <2>2
        <4>2. y = [i \in 1 .. Len(v) |-> y[i]]
          BY <4>1
        <4> HIDE DEF T, y
        <4> QED BY <2>3, <2>4, <4>2
      <3> HIDE DEF T, y
      <3> QED BY <2>1, <2>3, <3>1 DEF WireSize
    <2> QED BY <2>5, <2>6
  <1> QED BY <1>0, <1>1, <1>2, <1>3, <1>4, <1>5 DEF Kinds, SubKinds

\* Token k of the tokens of value v, whose submessage is parsed as p.
Arrives(num, f, C, v, b, z, toks, k, p) ==
    /\ f.kind \in Kinds /\ v \in Values(f.kind, C)
    /\ toks = Tokens(num, f, v, b, z) /\ k \in 1 .. Len(toks)
    /\ f.kind \in SubKinds => p = {v[k]}

\* What reading this token does to its field: a list of entries grows by one, any
\* other field takes its value at once.
Delivers(f, C, v, b, toks, k, p) ==
    /\ \A old \in Values(f.kind, C) : Merged(f, old, toks[k].val, p) \in Values(f.kind, C)
    /\ f.kind = "directory" =>
            \A old : Merged(f, old, toks[k].val, p) = Append(old, v[k])
    /\ f.kind # "directory" =>
            Len(toks) = 1 /\ Merged(f, Default(f.kind), toks[k].val, p) = v
    /\ f.kind \in SubKinds => Len(toks) = Len(v) /\ toks[k].val = b[k]

\* A token that arrives delivers its part of the value.
LEMMA TokenMerged ==
    ASSUME NEW num, NEW f, NEW C, NEW v, NEW b, NEW z, NEW toks, NEW k, NEW p,
           Arrives(num, f, C, v, b, z, toks, k, p)
    PROVE  Delivers(f, C, v, b, toks, k, p)
  <1> SUFFICES ASSUME f.kind \in Kinds, v \in Values(f.kind, C), toks = Tokens(num, f, v, b, z),
                      k \in 1 .. Len(toks), f.kind \in SubKinds => p = {v[k]}
               PROVE  /\ \A old \in Values(f.kind, C) :
                            Merged(f, old, toks[k].val, p) \in Values(f.kind, C)
                      /\ f.kind = "directory" =>
                            \A old : Merged(f, old, toks[k].val, p) = Append(old, v[k])
                      /\ f.kind # "directory" =>
                            Len(toks) = 1 /\ Merged(f, Default(f.kind), toks[k].val, p) = v
                      /\ f.kind \in SubKinds => Len(toks) = Len(v) /\ toks[k].val = b[k]
    BY DEF Arrives, Delivers
  <1>0. v # Default(f.kind)
    BY DEF Tokens
  <1>1. CASE f.kind \in Scalar
    <2> DEFINE t == Varint(num, UInt64(v))
    <2>1. toks = <<t>> /\ k = 1
      BY <1>0, <1>1 DEF Tokens, Scalar, Text
    <2>2. t.val = UInt64(v)
      BY TokenParts
    <2>3. /\ UInt64(v) \in Unsigned64 /\ UInt64(v) \in Int
          /\ v \in ScalarValues(f.kind)
      <3>1. v \in ScalarValues(f.kind)
        BY <1>1 DEF Values, Scalar, Text
      <3>2. UInt64(v) \in Unsigned64
        BY <1>1, <3>1, ScalarBack
      <3> QED BY <3>1, <3>2, Widths DEF Unsigned64
    <2>4. ASSUME NEW old PROVE Merged(f, old, t.val, p) = v
      <3>1. CASE f.kind = "int32"
        <4>1. Merged(f, old, t.val, p) = Int32(UInt64(v))
          BY <2>2, <3>1 DEF Merged, Text
        <4> QED BY <1>1, <2>3, <3>1, <4>1, ScalarBack
      <3>2. CASE f.kind = "uint32"
        <4>1. Merged(f, old, t.val, p) = UInt32(UInt64(v))
          BY <2>2, <3>2 DEF Merged, Text
        <4> QED BY <1>1, <2>3, <3>2, <4>1, ScalarBack
      <3>3. CASE f.kind = "uint64"
        <4>1. Merged(f, old, t.val, p) = UInt64(v)
          BY <2>2, <3>3 DEF Merged, Text
        <4> QED BY <1>1, <2>3, <3>3, <4>1, ScalarBack
      <3> QED BY <1>1, <3>1, <3>2, <3>3 DEF Scalar
    <2> HIDE DEF t
    <2>5. f.kind # "directory" /\ f.kind \notin SubKinds
      BY <1>1 DEF Scalar, SubKinds
    <2>6. Len(toks) = 1 /\ toks[k] = t
      BY <2>1
    <2> QED BY <2>4, <2>5, <2>6
  <1>2. CASE f.kind \in Text
    <2> DEFINE t == Delimited(num, v, Len(v), Len(v))
    <2>1. toks = <<t>> /\ k = 1
      BY <1>0, <1>2 DEF Tokens, Scalar, Text
    <2>2. t.val = v
      BY TokenParts
    <2> HIDE DEF t
    <2>3. ASSUME NEW old PROVE Merged(f, old, t.val, p) = v
      BY <1>2, <2>2 DEF Merged, Text
    <2>4. f.kind # "directory" /\ f.kind \notin SubKinds
      BY <1>2 DEF Text, SubKinds
    <2>5. Len(toks) = 1 /\ toks[k] = t
      BY <2>1
    <2> QED BY <2>3, <2>4, <2>5
  <1>3. CASE f.kind = "int32s"
    <2> DEFINE u == [j \in DOMAIN v |-> UInt64(v[j])]
               t == Delimited(num, u, PackedSize(v), PackedSize(v))
    <2>1. toks = <<t>> /\ k = 1
      BY <1>0, <1>3 DEF Tokens, Scalar, Text
    <2>2. t.val = u
      BY TokenParts
    <2>3. v \in Seq(Signed) /\ Values(f.kind, C) = Seq(Signed)
      BY <1>3 DEF Values, Text, Scalar
    <2>4. [j \in DOMAIN u |-> Int32(u[j])] = v
      <3>1. ASSUME NEW j \in 1 .. Len(v) PROVE Int32(UInt64(v[j])) = v[j]
        <4>1. v[j] \in Signed
          BY <2>3
        <4> QED BY <4>1, Conversions
      <3> QED BY <2>3, <3>1
    <2>5. ASSUME NEW old PROVE Merged(f, old, t.val, p) = old \o v
      <3> HIDE DEF u, t
      <3> QED BY <1>3, <2>2, <2>4 DEF Merged, Text
    <2> HIDE DEF t
    <2>6. ASSUME NEW old \in Seq(Signed) PROVE Merged(f, old, t.val, p) \in Seq(Signed)
      <3>1. old \o v \in Seq(Signed)
        BY <2>3
      <3> QED BY <2>5, <3>1
    <2>7. Default(f.kind) = <<>> /\ <<>> \o v = v
      BY <1>3, <2>3 DEF Default, Scalar
    <2>8. f.kind # "directory" /\ f.kind \notin SubKinds
      BY <1>3 DEF SubKinds
    <2>9. Len(toks) = 1 /\ toks[k] = t
      BY <2>1
    <2> QED BY <2>3, <2>5, <2>6, <2>7, <2>8, <2>9
  <1>4. CASE f.kind \in SubKinds
    <2>1. toks = [j \in DOMAIN v |-> Delimited(num, b[j], z[j], WireSize(b[j]))]
      <3>1. Tokens(num, f, v, b, z) = DelimitedEach(num, v, b, z)
        BY <1>0, <1>4, SubTokens
      <3> QED BY <3>1 DEF DelimitedEach
    <2>2. DOMAIN v = 1 .. Len(v) /\ Len(v) \in Nat /\ Default(f.kind) = <<>>
      BY <1>4, SubSequences
    <2>3. Len(toks) = Len(v) /\ DOMAIN toks = 1 .. Len(v)
      BY <2>1, <2>2
    <2>4. toks[k].val = b[k]
      <3>1. toks[k] = Delimited(num, b[k], z[k], WireSize(b[k]))
        BY <2>1, <2>2, <2>3
      <3> QED BY <3>1, TokenParts
    <2>5. (CHOOSE x \in p : TRUE) = v[k]
      BY <1>4
    <2>6. CASE f.kind = "directory"
      <3>1. ASSUME NEW old PROVE Merged(f, old, toks[k].val, p) = Append(old, v[k])
        BY <2>5, <2>6 DEF Merged, Text
      <3>2. Values(f.kind, C) = Seq(Directories(C))
        BY <2>6 DEF Values, Scalar, Text
      <3>3. v[k] \in Directories(C)
        BY <2>2, <2>3, <3>2
      <3>4. ASSUME NEW old \in Seq(Directories(C))
            PROVE  Merged(f, old, toks[k].val, p) \in Seq(Directories(C))
        <4>1. Append(old, v[k]) \in Seq(Directories(C))
          BY <3>3
        <4> QED BY <3>1, <4>1
      <3> QED BY <2>3, <2>4, <2>6, <3>1, <3>2, <3>4
    <2>7. CASE f.kind # "directory"
      <3>1. ASSUME NEW old PROVE Merged(f, old, toks[k].val, p) = <<v[k]>>
        BY <1>4, <2>5, <2>7 DEF Merged, Text, SubKinds
      <3>2. v \in Optional(Attributes) \/ v \in Optional(FileInfos)
        BY <1>4, <2>7 DEF SubKinds, Values, Scalar, Text
      <3>3. ASSUME NEW X, v \in Optional(X) PROVE Len(v) = 1 /\ v = <<v[1]>>
        BY <1>0, <2>2, <3>3 DEF Optional
      <3>4. Len(v) = 1 /\ v = <<v[k]>> /\ k = 1
        BY <2>3, <3>2, <3>3
      <3> QED BY <1>4, <2>3, <2>4, <2>7, <3>1, <3>4
    <2> QED BY <2>6, <2>7
  <1> QED BY <1>1, <1>2, <1>3, <1>4 DEF Kinds, SubKinds

\* s are the tokens of the fields of m, with the submessages encoded as b in z bytes.
Encodes(F, m, b, z, s) ==
    \A i \in 1 .. Len(F) :
        /\ s[i] = Tokens(i, F[i], m[F[i].name], b[i], z[i])
        /\ F[i].kind \in SubKinds => Sized(m[F[i].name], b[i], z[i])

\* The token at position k of w is the j-th of field i.
At(s, w, k, i, j) ==
    j \in 1 .. Len(s[i]) /\ k = Len(Joined(i - 1, s)) + j /\ w[k] = s[i][j] /\ w[k].num = i

\* The tokens of an encoded message are those of its fields, in order.
LEMMA EncodedAt ==
    ASSUME NEW F, FieldList(F), NEW C, NEW m \in MessagesOf(F, C), NEW b, NEW z, NEW s,
           Encodes(F, m, b, z, s), NEW w, w = Joined(Len(F), s)
    PROVE  /\ Len(w) \in Nat /\ DOMAIN w = 1 .. Len(w) /\ Placed(Len(F), s)
           /\ \A i \in 1 .. Len(F) : Sound(i, s[i]) /\ Len(s[i]) \in Nat
           /\ \A k \in 1 .. Len(w) : \E i \in 1 .. Len(F) : \E j \in Nat : At(s, w, k, i, j)
           /\ \A i \in 1 .. Len(F), j \in Nat :
                j \in 1 .. Len(s[i]) =>
                    /\ Len(Joined(i - 1, s)) + j \in 1 .. Len(w)
                    /\ At(s, w, Len(Joined(i - 1, s)) + j, i, j)
           /\ \A q : (\A i \in 1 .. Len(F) : q[i] = FieldSize(F[i], m[F[i].name], z[i])) =>
                WireSize(w) = Sum(Len(F), q) /\ Sum(Len(F), q) \in Nat
  <1> DEFINE n == Len(F)
             S == UNION {{s[i][k] : k \in 1 .. Len(s[i])} : i \in 1 .. n}
  <1>1. n \in Nat /\ \A i \in 1 .. n : F[i].kind \in Kinds /\ m[F[i].name] \in Values(F[i].kind, C)
    BY DEF FieldList, MessagesOf
  <1>2. ASSUME NEW i \in 1 .. n
        PROVE  Sound(i, s[i]) /\ WireSize(s[i]) = FieldSize(F[i], m[F[i].name], z[i])
    <2>1. /\ s[i] = Tokens(i, F[i], m[F[i].name], b[i], z[i])
          /\ F[i].kind \in SubKinds => Sized(m[F[i].name], b[i], z[i])
      BY DEF Encodes
    <2>2. Encodable(F[i], C, m[F[i].name], b[i], z[i])
      BY <1>1, <2>1 DEF Encodable
    <2>3. /\ Sound(i, Tokens(i, F[i], m[F[i].name], b[i], z[i]))
          /\ WireSize(Tokens(i, F[i], m[F[i].name], b[i], z[i])) = FieldSize(F[i], m[F[i].name], z[i])
      BY <2>2, FieldEncoded
    <2> QED BY <2>1, <2>3
  <1>3. ASSUME NEW i \in 1 .. n
        PROVE  s[i] \in Seq(S) /\ \A k \in 1 .. Len(s[i]) : s[i][k].num = i
    <2>1. s[i] \in Seq({s[i][k] : k \in 1 .. Len(s[i])})
      BY <1>2 DEF Sound
    <2>2. {s[i][k] : k \in 1 .. Len(s[i])} \subseteq S
      OBVIOUS
    <2>3. \A k \in 1 .. Len(s[i]) : s[i][k].num = i
      BY <1>2 DEF Sound
    <2> HIDE DEF S
    <2> QED BY <2>1, <2>2, <2>3
  <1>4. Token(S)
    <2> SUFFICES ASSUME NEW t \in S PROVE t.head \in Nat /\ t.payload \in Nat
      BY DEF Token
    <2>1. PICK i \in 1 .. n : \E k \in 1 .. Len(s[i]) : t = s[i][k]
      OBVIOUS
    <2> QED BY <1>2, <2>1 DEF Sound
  <1> HIDE DEF S
  <1>5. w \in Seq(S) /\ Placed(n, s)
    BY <1>1, <1>3, JoinedAt
  <1>6. Len(w) \in Nat /\ DOMAIN w = 1 .. Len(w)
    BY <1>5
  <1>7. \A i \in 1 .. n : Len(s[i]) \in Nat
    BY <1>3
  <1>8. ASSUME NEW i \in 1 .. n, NEW j \in Nat, j \in 1 .. Len(s[i])
        PROVE  /\ Len(Joined(i - 1, s)) + j \in 1 .. Len(w)
               /\ At(s, w, Len(Joined(i - 1, s)) + j, i, j)
    <2>1. /\ Len(Joined(i, s)) = Len(Joined(i - 1, s)) + Len(s[i])
          /\ Len(Joined(i - 1, s)) \in Nat /\ Len(Joined(i, s)) <= Len(w)
          /\ w[Len(Joined(i - 1, s)) + j] = s[i][j]
      BY <1>5, <1>8 DEF Placed
    <2>2. Len(s[i]) \in Nat
      BY <1>7
    <2>3. Len(Joined(i - 1, s)) + j \in 1 .. Len(w)
      <3> DEFINE a == Len(Joined(i - 1, s))
                 c == Len(Joined(i, s))
                 d == Len(s[i])
                 e == Len(w)
      <3>1. c = a + d /\ a \in Nat /\ c <= e /\ d \in Nat /\ e \in Nat /\ j \in 1 .. d
        BY <1>6, <1>8, <2>1, <2>2
      <3> HIDE DEF a, c, d, e
      <3>2. a + j \in 1 .. e
        BY <3>1
      <3> QED BY <3>2 DEF a, e
    <2> QED BY <1>3, <1>8, <2>1, <2>3 DEF At
  <1>9. ASSUME NEW k \in 1 .. Len(w) PROVE \E i \in 1 .. n : \E j \in Nat : At(s, w, k, i, j)
    <2>1. PICK i \in 1 .. n : \E j \in 1 .. Len(s[i]) : k = Len(Joined(i - 1, s)) + j
      BY <1>5 DEF Placed
    <2>2. PICK j \in 1 .. Len(s[i]) : k = Len(Joined(i - 1, s)) + j
      BY <2>1
    <2>3. At(s, w, k, i, j) /\ j \in Nat
      BY <1>8, <2>2
    <2> QED BY <2>3
  <1>10. ASSUME NEW q, \A i \in 1 .. n : q[i] = FieldSize(F[i], m[F[i].name], z[i])
         PROVE  WireSize(w) = Sum(n, q) /\ Sum(n, q) \in Nat
    <2>1. \A i \in 1 .. n : q[i] = WireSize(s[i])
      BY <1>2, <1>10
    <2> QED BY <1>1, <1>3, <1>4, <2>1, WireSizeJoined
  <1> QED BY <1>2, <1>5, <1>6, <1>7, <1>8, <1>9, <1>10

\* The empty message of a type is one of its messages.
LEMMA EmptyMessage ==
    ASSUME NEW F, FieldList(F), NEW C
    PROVE  /\ Empty(F) \in MessagesOf(F, C)
           /\ \A i \in 1 .. Len(F) : Empty(F)[F[i].name] = Default(F[i].kind)
  <1> DEFINE n == Len(F)
             e == Empty(F)
             X == Names(F)
  <1>0. /\ n \in Nat /\ DOMAIN F = 1 .. n
        /\ \A i \in 1 .. n : F[i].kind \in Kinds
        /\ \A i, j \in 1 .. n : F[i].name = F[j].name => i = j
    BY DEF FieldList
  <1>1. ASSUME NEW i \in 1 .. n PROVE F[i].name \in X /\ Number(F, F[i].name) = i
    BY <1>0 DEF Number, Names
  <1>2. e = [x \in X |-> Default(F[Number(F, x)].kind)]
    BY DEF Empty
  <1>3. ASSUME NEW i \in 1 .. n PROVE e[F[i].name] = Default(F[i].kind)
    BY <1>1, <1>2
  <1>4. ASSUME NEW kind \in Kinds PROVE Default(kind) \in Values(kind, C)
    <2>1. CASE kind \in Scalar
      <3>1. 0 \in Signed /\ 0 \in Unsigned32 /\ 0 \in Unsigned64
        <4> DEFINE H == 2^(Bits32 - 1)
                   N == 2^Bits32
                   M == 2^Bits64
        <4>1. H \in Nat /\ H > 0 /\ N \in Nat /\ N > 0 /\ M \in Nat /\ M >= 2 * N
          BY Widths
        <4> HIDE DEF H, N, M
        <4>2. 0 \in -H .. H - 1 /\ 0 \in 0 .. N - 1 /\ 0 \in 0 .. M - 1
          BY <4>1
        <4> QED BY <4>2 DEF Signed, Unsigned32, Unsigned64, H, N, M
      <3>2. Default(kind) = 0 /\ Values(kind, C) = ScalarValues(kind)
        BY <2>1 DEF Default, Values, Scalar, Text
      <3> QED BY <3>1, <3>2 DEF ScalarValues
    <2>2. CASE kind \in Text
      <3>1. kind \notin Scalar
        BY <2>2 DEF Text, Scalar
      <3>2. Default(kind) = <<>>
        BY <3>1 DEF Default
      <3>3. Values(kind, C) = Seq(C)
        BY <2>2, <3>1 DEF Values, Text, Scalar
      <3> QED BY <3>2, <3>3
    <2>3. CASE kind = "int32s"
      BY <2>3 DEF Default, Values, Text, Scalar
    <2>4. CASE kind = "attributes"
      BY <2>4 DEF Default, Values, Text, Scalar, Optional
    <2>5. CASE kind = "fileInfo"
      BY <2>5 DEF Default, Values, Text, Scalar, Optional
    <2>6. CASE kind = "directory"
      BY <2>6 DEF Default, Values, Text, Scalar
    <2> QED BY <2>1, <2>2, <2>3, <2>4, <2>5, <2>6 DEF Kinds
  <1>5. \A i \in 1 .. n : e[F[i].name] \in Values(F[i].kind, C)
    BY <1>0, <1>3, <1>4
  <1>6. X = {F[i].name : i \in 1 .. n}
    BY <1>0 DEF Names
  <1>7. \A x \in X : e[x] \in UNION {Values(kind, C) : kind \in Kinds}
    BY <1>0, <1>5, <1>6
  <1> HIDE DEF e, n
  <1>8. e \in [X -> UNION {Values(kind, C) : kind \in Kinds}]
    BY <1>2, <1>7
  <1>9. e \in MessagesOf(F, C)
    BY <1>5, <1>8 DEF MessagesOf, n
  <1> QED BY <1>3, <1>9 DEF e, n

\* A field of a message can be given any value of its kind.
LEMMA FieldSet ==
    ASSUME NEW F, FieldList(F), NEW C, NEW u \in MessagesOf(F, C), NEW i \in 1 .. Len(F),
           NEW x \in Values(F[i].kind, C)
    PROVE  [u EXCEPT ![F[i].name] = x] \in MessagesOf(F, C)
  <1> DEFINE r == [u EXCEPT ![F[i].name] = x]
             U == UNION {Values(kind, C) : kind \in Kinds}
  <1>0. F[i].kind \in Kinds /\ \A j \in 1 .. Len(F) : F[i].name = F[j].name => i = j
    BY DEF FieldList
  <1>1. u \in [Names(F) -> U] /\ \A j \in 1 .. Len(F) : u[F[j].name] \in Values(F[j].kind, C)
    BY DEF MessagesOf
  <1>2. F[i].name \in Names(F) /\ \A j \in 1 .. Len(F) : F[j].name \in Names(F)
    BY DEF Names, FieldList
  <1>3. x \in U
    BY <1>0
  <1> HIDE DEF U
  <1>4. r \in [Names(F) -> U]
    BY <1>1, <1>2, <1>3
  <1>5. ASSUME NEW j \in 1 .. Len(F) PROVE r[F[j].name] \in Values(F[j].kind, C)
    <2>1. CASE j = i
      BY <1>1, <1>2, <2>1
    <2>2. CASE j # i
      BY <1>0, <1>1, <1>2, <2>2
    <2> QED BY <2>1, <2>2
  <1> QED BY <1>4, <1>5 DEF MessagesOf, U

\* Only a default value has no token.
LEMMA SomeToken ==
    ASSUME NEW num, NEW f, f.kind \in Kinds, NEW C, NEW v \in Values(f.kind, C), NEW b, NEW z
    PROVE  /\ v = Default(f.kind) => Tokens(num, f, v, b, z) = <<>>
           /\ v # Default(f.kind) => Len(Tokens(num, f, v, b, z)) # 0
  <1>1. CASE v = Default(f.kind)
    BY <1>1 DEF Tokens
  <1>2. CASE v # Default(f.kind) /\ f.kind \in SubKinds
    <2>1. Tokens(num, f, v, b, z) = [j \in DOMAIN v |-> Delimited(num, b[j], z[j], WireSize(b[j]))]
      BY <1>2, SubTokens DEF DelimitedEach
    <2>2. DOMAIN v = 1 .. Len(v) /\ Len(v) \in Nat /\ Default(f.kind) = <<>>
          /\ v = [j \in 1 .. Len(v) |-> v[j]]
      BY <1>2, SubSequences
    <2>3. Len(v) # 0
      BY <1>2, <2>2
    <2> QED BY <1>2, <2>1, <2>2, <2>3
  <1>3. CASE v # Default(f.kind) /\ f.kind \notin SubKinds
    <2>1. \E t : Tokens(num, f, v, b, z) = <<t>>
      <3>1. CASE f.kind \in Scalar
        BY <1>3, <3>1 DEF Tokens, Scalar, Text
      <3>2. CASE f.kind \in Text
        BY <1>3, <3>2 DEF Tokens, Scalar, Text
      <3>3. CASE f.kind = "int32s"
        BY <1>3, <3>3 DEF Tokens, Scalar, Text
      <3> QED BY <1>3, <3>1, <3>2, <3>3 DEF Kinds, SubKinds
    <2> QED BY <1>3, <2>1
  <1> QED BY <1>1, <1>2, <1>3

\* Each submessage of m that stands in w is parsed as itself.
Restores(F, m, s, w, parsed) ==
    \A k \in 1 .. Len(w), i \in 1 .. Len(F), j \in Nat :
        At(s, w, k, i, j) /\ F[i].kind \in SubKinds => parsed[k] = {m[F[i].name][j]}

\* Reading the tokens of a message gives the message.
LEMMA ReadBack ==
    ASSUME NEW F, FieldList(F), NEW C, NEW m \in MessagesOf(F, C), NEW b, NEW z, NEW s,
           Encodes(F, m, b, z, s), NEW w, w = Joined(Len(F), s), NEW parsed,
           Restores(F, m, s, w, parsed)
    PROVE  Read(F, w, Len(w), parsed) = m
  <1> DEFINE n == Len(F)
             L == Len(w)
             V == MessagesOf(F, C)
             e == Empty(F)
             h == [k \in 1 .. L |-> [u \in V |-> Taken(F, u, w[k], parsed[k])]]
  <1>0. /\ n \in Nat /\ DOMAIN F = 1 .. n
        /\ \A i \in 1 .. n : F[i].kind \in Kinds /\ m[F[i].name] \in Values(F[i].kind, C)
        /\ \A i, j \in 1 .. n : F[i].name = F[j].name => i = j
    BY DEF FieldList, MessagesOf
  <1>1. /\ L \in Nat /\ Placed(n, s) /\ \A i \in 1 .. n : Len(s[i]) \in Nat
        /\ \A k \in 1 .. L : \E i \in 1 .. n : \E j \in Nat : At(s, w, k, i, j)
        /\ \A i \in 1 .. n, j \in Nat : j \in 1 .. Len(s[i]) =>
                /\ Len(Joined(i - 1, s)) + j \in 1 .. L
                /\ At(s, w, Len(Joined(i - 1, s)) + j, i, j)
    BY EncodedAt
  \* What a token does to its field.
  <1>2. ASSUME NEW k \in 1 .. L, NEW i \in 1 .. n, NEW j \in Nat, At(s, w, k, i, j)
        PROVE  /\ w[k].num = i /\ j \in 1 .. Len(s[i]) /\ w[k] = s[i][j]
               /\ Delivers(F[i], C, m[F[i].name], b[i], s[i], j, parsed[k])
    <2>1. w[k].num = i /\ j \in 1 .. Len(s[i]) /\ w[k] = s[i][j]
      BY <1>2 DEF At
    <2>2. s[i] = Tokens(i, F[i], m[F[i].name], b[i], z[i])
      BY DEF Encodes
    <2>3. F[i].kind \in SubKinds => parsed[k] = {m[F[i].name][j]}
      BY <1>2 DEF Restores
    <2>4. F[i].kind \in Kinds /\ m[F[i].name] \in Values(F[i].kind, C)
      BY <1>0
    <2>5. Arrives(i, F[i], C, m[F[i].name], b[i], z[i], s[i], j, parsed[k])
      BY <2>1, <2>2, <2>3, <2>4 DEF Arrives
    <2>6. Delivers(F[i], C, m[F[i].name], b[i], s[i], j, parsed[k])
      BY <2>5, TokenMerged
    <2> QED BY <2>1, <2>6
  <1>3. e \in V /\ \A i \in 1 .. n : e[F[i].name] = Default(F[i].kind)
    BY EmptyMessage
  <1>4. ASSUME NEW k \in 1 .. L, NEW u \in V PROVE Taken(F, u, w[k], parsed[k]) \in V
    <2>1. PICK i \in 1 .. n : \E j \in Nat : At(s, w, k, i, j)
      BY <1>1
    <2>2. PICK j \in Nat : At(s, w, k, i, j)
      BY <2>1
    <2>3. w[k].num = i /\ \A old \in Values(F[i].kind, C) :
                            Merged(F[i], old, w[k].val, parsed[k]) \in Values(F[i].kind, C)
      <3>1. /\ w[k].num = i /\ w[k] = s[i][j]
            /\ Delivers(F[i], C, m[F[i].name], b[i], s[i], j, parsed[k])
        BY <1>2, <2>2
      <3>2. \A old \in Values(F[i].kind, C) :
                Merged(F[i], old, s[i][j].val, parsed[k]) \in Values(F[i].kind, C)
        BY <3>1 DEF Delivers
      <3> QED BY <3>1, <3>2
    <2>4. u[F[i].name] \in Values(F[i].kind, C)
      BY DEF MessagesOf
    <2> DEFINE x == Merged(F[i], u[F[i].name], w[k].val, parsed[k])
    <2>5. x \in Values(F[i].kind, C)
      BY <2>3, <2>4
    <2>6. Taken(F, u, w[k], parsed[k]) = [u EXCEPT ![F[i].name] = x]
      BY <2>3 DEF Taken
    <2>7. [u EXCEPT ![F[i].name] = x] \in MessagesOf(F, C)
      <3> HIDE DEF x, h
      <3> QED BY <2>5, FieldSet
    <2> QED BY <2>6, <2>7
  <1>5. h \in StepsOn(L, V)
    <2> HIDE DEF V, L
    <2> QED BY <1>4 DEF StepsOn
  <1>6. PICK r \in RunsOf(L, V, e, h) : TRUE
    <2> HIDE DEF h, e, V, L
    <2> QED BY <1>1, <1>3, <1>5, Recursion
  <1>7. /\ r \in [0 .. L -> V] /\ r[0] = e
        /\ \A k \in 1 .. L : r[k] = Taken(F, r[k - 1], w[k], parsed[k])
    <2>1. r \in [0 .. L -> V] /\ r[0] = e /\ \A k \in 1 .. L : r[k] = h[k][r[k - 1]]
      <3> HIDE DEF h, e, V, L
      <3> QED BY DEF RunsOf
    <2>2. ASSUME NEW k \in 1 .. L PROVE r[k] = Taken(F, r[k - 1], w[k], parsed[k])
      <3>1. k - 1 \in 0 .. L
        BY <1>1
      <3>2. r[k - 1] \in V
        BY <2>1, <3>1
      <3> HIDE DEF V, L
      <3> QED BY <2>1, <3>2
    <2> QED BY <2>1, <2>2
  <1>8. ASSUME NEW k \in 0 .. L
        PROVE  r[k] = IF k = 0 THEN Empty(F) ELSE Taken(F, r[k - 1], w[k], parsed[k])
    <2>1. CASE k = 0
      BY <1>7, <2>1
    <2>2. CASE k # 0
      <3>1. k \in 1 .. L
        BY <1>1, <2>2
      <3>2. r[k] = Taken(F, r[k - 1], w[k], parsed[k])
        BY <1>7, <3>1
      <3> QED BY <2>2, <3>2
    <2> QED BY <2>1, <2>2
  <1>9. PICK g : /\ Read(F, w, L, parsed) = g[L]
                 /\ g = [k \in 0 .. L |->
                        IF k = 0 THEN Empty(F) ELSE Taken(F, g[k - 1], w[k], parsed[k])]
    <2>1. r = [k \in 0 .. L |->
                  IF k = 0 THEN Empty(F) ELSE Taken(F, r[k - 1], w[k], parsed[k])]
      <3> HIDE DEF h, e, V, L
      <3> QED BY <1>7, <1>8
    <2> HIDE DEF h, e, V, L
    <2> QED BY <2>1 DEF Read
  <1>10. g[0] = e /\ \A k \in 1 .. L : g[k] = Taken(F, g[k - 1], w[k], parsed[k])
    <2>1. 0 \in 0 .. L /\ \A k \in 1 .. L : k \in 0 .. L /\ k # 0
      BY <1>1
    <2> HIDE DEF L
    <2> QED BY <1>9, <2>1
  <1> DEFINE off == [i \in 0 .. n |-> Len(Joined(i, s))]
  <1>11. \A k \in 0 .. L : g[k] \in V
    <2> DEFINE T == {k \in 0 .. L : g[k] \in V}
    <2>1. 0 \in T
      BY <1>1, <1>3, <1>10
    <2>2. ASSUME NEW k \in 0 .. L - 1, k \in T PROVE k + 1 \in T
      <3>1. k + 1 \in 1 .. L /\ (k + 1) - 1 = k /\ k + 1 \in 0 .. L
        BY <1>1
      <3>2. g[k] \in V
        BY <2>2
      <3>3. g[k + 1] = Taken(F, g[k], w[k + 1], parsed[k + 1])
        BY <1>10, <3>1
      <3> HIDE DEF V, L
      <3>4. g[k + 1] \in V
        BY <1>4, <3>1, <3>2, <3>3
      <3> QED BY <3>1, <3>4
    <2>3. 0 .. L \subseteq T
      <3> HIDE DEF T, L
      <3> QED BY <1>1, <2>1, <2>2, UpTo DEF L
    <2> QED BY <2>3
  <1>12. ASSUME NEW i \in 1 .. n
         PROVE  TakesOver(g, off[i - 1], off[i], F[i].name, e, m)
    <2> DEFINE x == F[i].name
               f == F[i]
               v == m[x]
               a == Len(Joined(i - 1, s))
               len == Len(s[i])
    <2>1. /\ off[i - 1] = a /\ off[i] = a + len /\ a \in Nat /\ len \in Nat
          /\ f.kind \in Kinds /\ v \in Values(f.kind, C) /\ e[x] = Default(f.kind)
      <3>1. i - 1 \in 0 .. n /\ i \in 0 .. n
        OBVIOUS
      <3>2. Len(Joined(i, s)) = a + len /\ a \in Nat /\ len \in Nat
        BY <1>1 DEF Placed
      <3> QED BY <1>0, <1>3, <3>1, <3>2
    <2>2. SUFFICES ASSUME g[a][x] = Default(f.kind) PROVE g[a + len] = [g[a] EXCEPT ![x] = v]
      BY <2>1 DEF TakesOver
    <2>3. ASSUME NEW j \in 1 .. len
          PROVE  /\ Delivers(f, C, v, b[i], s[i], j, parsed[a + j])
                 /\ a + j \in 1 .. L
                 /\ g[a + j] = [g[a + j - 1] EXCEPT ![x] =
                                    Merged(f, @, s[i][j].val, parsed[a + j])]
      <3>1. j \in Nat /\ a + j \in 1 .. L /\ At(s, w, a + j, i, j)
        BY <1>1
      <3>2. /\ w[a + j].num = i /\ w[a + j] = s[i][j]
            /\ Delivers(f, C, v, b[i], s[i], j, parsed[a + j])
        BY <1>2, <3>1
      <3>3. g[a + j] = Taken(F, g[a + j - 1], w[a + j], parsed[a + j])
        BY <1>10, <3>1
      <3> QED BY <3>1, <3>2, <3>3 DEF Taken
    <2>4. PICK X, U : x \in X /\ g[a] \in [X -> U]
      <3>1. Len(Joined(i, s)) <= L /\ Len(Joined(i, s)) = a + len
        BY <1>1 DEF Placed
      <3>2. a \in 0 .. L
        <4> HIDE DEF a, len, L
        <4> QED BY <1>1, <2>1, <3>1
      <3>3. g[a] \in V
        <4> HIDE DEF V, L, a
        <4> QED BY <1>11, <3>2
      <3>4. x \in Names(F)
        BY <1>0 DEF Names
      <3>5. \E U : g[a] \in [Names(F) -> U]
        BY <3>3 DEF MessagesOf
      <3> QED BY <3>4, <3>5
    <2>6. CASE v = Default(f.kind)
      <3>1. Tokens(i, f, v, b[i], z[i]) = <<>>
        <4> HIDE DEF f, v
        <4> QED BY <2>1, <2>6, SomeToken
      <3>2. s[i] = <<>>
        BY <3>1 DEF Encodes
      <3>3. len = 0 /\ a + len = a
        BY <2>1, <3>2
      <3> HIDE DEF f, v, x, a, len
      <3> QED BY <2>2, <2>4, <2>6, <3>3
    <2>7. CASE v # Default(f.kind)
      <3>1. len # 0
        <4>1. s[i] = Tokens(i, f, v, b[i], z[i])
          BY DEF Encodes
        <4>2. Len(Tokens(i, f, v, b[i], z[i])) # 0
          <5> HIDE DEF f, v
          <5> QED BY <2>1, <2>7, SomeToken
        <4> QED BY <4>1, <4>2
      <3>2. 1 \in 1 .. len
        BY <2>1, <3>1
      <3>3. CASE f.kind # "directory"
        <4>1. len = 1 /\ Merged(f, Default(f.kind), s[i][1].val, parsed[a + 1]) = v
          BY <2>3, <3>2, <3>3 DEF Delivers
        <4>2. g[a + 1] = [g[a + 1 - 1] EXCEPT ![x] = Merged(f, @, s[i][1].val, parsed[a + 1])]
          BY <2>3, <3>2
        <4>3. a + 1 - 1 = a
          BY <2>1
        <4> HIDE DEF f, v, x, a, len
        <4> QED BY <2>2, <4>1, <4>2, <4>3
      <3>4. CASE f.kind = "directory"
        <4> DEFINE T == {j \in 0 .. len : g[a + j] = [g[a] EXCEPT ![x] = SubSeq(v, 1, j)]}
        <4>1. v \in Seq(Directories(C)) /\ Default(f.kind) = <<>>
          BY <2>1, <3>4 DEF Values, Scalar, Text, Default
        <4>2. len = Len(v)
          <5>1. f.kind \in SubKinds
            BY <3>4 DEF SubKinds
          <5> QED BY <2>3, <3>2, <5>1 DEF Delivers
        <4>3. 0 \in T
          <5>1. SubSeq(v, 1, 0) = <<>> /\ a + 0 = a /\ 0 \in 0 .. len
            BY <2>1, <4>1
          <5> HIDE DEF f, v, x, a, len
          <5> QED BY <2>2, <2>4, <4>1, <5>1
        <4>4. ASSUME NEW j \in 0 .. len - 1, j \in T PROVE j + 1 \in T
          <5>1. j + 1 \in 1 .. len /\ a + (j + 1) - 1 = a + j /\ j + 1 \in 0 .. len
            BY <2>1
          <5>2. \A old : Merged(f, old, s[i][j + 1].val, parsed[a + (j + 1)]) = Append(old, v[j + 1])
            BY <2>3, <3>4, <5>1 DEF Delivers
          <5>3. g[a + (j + 1)] = [g[a + j] EXCEPT ![x] =
                                    Merged(f, @, s[i][j + 1].val, parsed[a + (j + 1)])]
            BY <2>3, <5>1
          <5>4. g[a + j] = [g[a] EXCEPT ![x] = SubSeq(v, 1, j)]
            BY <4>4
          <5>5. Append(SubSeq(v, 1, j), v[j + 1]) = SubSeq(v, 1, j + 1)
            BY <4>1, <4>2, <5>1
          <5>6. x \in DOMAIN g[a]
            BY <2>4
          <5>7. g[a + (j + 1)] = [g[a] EXCEPT ![x] = SubSeq(v, 1, j + 1)]
            <6> DEFINE G == g[a]
                       p == SubSeq(v, 1, j)
                       q == SubSeq(v, 1, j + 1)
            <6>1. g[a + (j + 1)] = [[G EXCEPT ![x] = p] EXCEPT ![x] = Append(@, v[j + 1])]
              BY <5>2, <5>3, <5>4
            <6> HIDE DEF f, v, x, a, len, G, p, q
            <6>2. [G EXCEPT ![x] = p][x] = p
              BY <5>6 DEF G
            <6>3. g[a + (j + 1)] = [[G EXCEPT ![x] = p] EXCEPT ![x] = q]
              BY <6>1, <6>2, <5>5 DEF p, q
            <6> QED BY <6>3 DEF G, q
          <5> QED BY <5>1, <5>7
        <4>5. 0 .. len \subseteq T
          <5> HIDE DEF T, f, v, x, a, len
          <5> QED BY <2>1, <4>3, <4>4, UpTo
        <4>6. len \in 0 .. len /\ SubSeq(v, 1, len) = v
          BY <2>1, <4>1, <4>2
        <4>7. len \in T
          <5> HIDE DEF T, len
          <5> QED BY <4>5, <4>6
        <4> QED BY <4>6, <4>7
      <3> QED BY <3>3, <3>4
    <2> QED BY <2>6, <2>7
  <1>13. g[off[n]] = m
    <2> DEFINE X == Names(F)
               U == UNION {Values(kind, C) : kind \in Kinds}
               name == [i \in 1 .. n |-> F[i].name]
    <2>1. X = {name[i] : i \in 1 .. n}
      BY <1>0 DEF Names
    <2>2. \A i, j \in 1 .. n : name[i] = name[j] => i = j
      BY <1>0
    <2>3. e \in [X -> U] /\ m \in [X -> U]
      BY <1>3 DEF MessagesOf
    <2>4. g[off[0]] = e
      <3>1. Joined(0, s) = <<>>
        <4>1. \A N \in Nat : \A S : (\A i \in 1 .. N : s[i] \in Seq(S)) => Joined(0, s) = <<>>
          BY JoinedSteps
        <4>2. 0 \in Nat /\ \A i \in 1 .. 0 : s[i] \in Seq({})
          OBVIOUS
        <4> QED BY <4>1, <4>2
      <3>2. off[0] = 0
        BY <1>0, <3>1
      <3> QED BY <1>10, <3>2
    <2>5. \A i \in 1 .. n : TakesOver(g, off[i - 1], off[i], name[i], e, m)
      <3> HIDE DEF off, e
      <3> QED BY <1>12
    <2> HIDE DEF X, U, name, off, e
    <2>6. TakesAll(g, off, n, name, X, U, e, m)
      BY <1>0, <2>1, <2>2, <2>3, <2>4, <2>5 DEF TakesAll
    <2> HIDE DEF n, L, V, h
    <2> QED BY <2>6, FieldByField
  <1>14. off[n] = L
    BY <1>0
  <1> QED BY <1>9, <1>13, <1>14

\* What each submessage that stands in w is parsed as.
SubParsed(F, s, w, parsed, sub) ==
    \A k \in 1 .. Len(w), i \in 1 .. Len(F), j \in Nat :
        At(s, w, k, i, j) /\ F[i].kind \in SubKinds => parsed[k] = sub[i][j]

\* Each submessage is parsed as itself or as none.
SubBack(F, m, sub) ==
    \A i \in 1 .. Len(F), j \in Nat :
        F[i].kind \in SubKinds /\ j \in DOMAIN m[F[i].name] =>
            sub[i][j] \in {{}, {m[F[i].name][j]}}

\* The texts of m are UTF-8 and its submessages decode.
Decodable(F, m, sub) ==
    \A i \in 1 .. Len(F) :
        /\ F[i].kind = "string" => IsUtf8(m[F[i].name])
        /\ F[i].kind \in SubKinds => \A j \in DOMAIN m[F[i].name] : sub[i][j] # {}

\* Decoding the tokens of a message gives the message if all of it decodes.
LEMMA ParseBack ==
    ASSUME NEW F, FieldList(F), NEW C, NEW m \in MessagesOf(F, C), NEW b, NEW z, NEW s,
           Encodes(F, m, b, z, s), NEW w, w = Joined(Len(F), s), NEW parsed, NEW sub,
           SubParsed(F, s, w, parsed, sub), SubBack(F, m, sub)
    PROVE  /\ Decodable(F, m, sub) => Parse(F, w, parsed) = {m}
           /\ ~ Decodable(F, m, sub) => Parse(F, w, parsed) = {}
  <1> DEFINE n == Len(F)
             L == Len(w)
  <1>0. /\ n \in Nat /\ \A i \in 1 .. n : F[i].kind \in Kinds /\ m[F[i].name] \in Values(F[i].kind, C)
    BY DEF FieldList, MessagesOf
  <1>1. /\ L \in Nat /\ DOMAIN w = 1 .. L /\ \A i \in 1 .. n : Sound(i, s[i]) /\ Len(s[i]) \in Nat
        /\ \A k \in 1 .. L : \E i \in 1 .. n : \E j \in Nat : At(s, w, k, i, j)
        /\ \A i \in 1 .. n, j \in Nat : j \in 1 .. Len(s[i]) =>
                /\ Len(Joined(i - 1, s)) + j \in 1 .. L
                /\ At(s, w, Len(Joined(i - 1, s)) + j, i, j)
    BY EncodedAt
  <1>2. ASSUME NEW i \in 1 .. n
        PROVE  /\ F[i].kind \in SubKinds =>
                    DOMAIN m[F[i].name] = 1 .. Len(s[i]) /\ Len(s[i]) \in Nat
               /\ F[i].kind = "string" =>
                    \/ m[F[i].name] = <<>> /\ s[i] = <<>>
                    \/ Len(s[i]) = 1 /\ s[i][1].val = m[F[i].name]
    <2> DEFINE f == F[i]
               v == m[F[i].name]
    <2>1. f.kind \in Kinds /\ v \in Values(f.kind, C) /\ s[i] = Tokens(i, f, v, b[i], z[i])
      BY <1>0 DEF Encodes
    <2> HIDE DEF f, v
    <2>2. ASSUME f.kind \in SubKinds PROVE DOMAIN v = 1 .. Len(s[i]) /\ Len(s[i]) \in Nat
      <3>1. Default(f.kind) = <<>> /\ v = [j \in 1 .. Len(v) |-> v[j]] /\ Len(v) \in Nat
        BY <2>1, <2>2, SubSequences
      <3>2. CASE v = Default(f.kind)
        BY <2>1, <3>1, <3>2 DEF Tokens
      <3>3. CASE v # Default(f.kind)
        <4>1. s[i] = [j \in DOMAIN v |-> Delimited(i, b[i][j], z[i][j], WireSize(b[i][j]))]
          <5>1. Tokens(i, f, v, b[i], z[i]) = DelimitedEach(i, v, b[i], z[i])
            BY <2>2, <3>3, SubTokens
          <5> QED BY <2>1, <5>1 DEF DelimitedEach
        <4> QED BY <3>1, <4>1
      <3> QED BY <3>2, <3>3
    <2>3. ASSUME f.kind = "string"
          PROVE  \/ v = <<>> /\ s[i] = <<>>
                 \/ Len(s[i]) = 1 /\ s[i][1].val = v
      <3>1. Default(f.kind) = <<>>
        BY <2>3 DEF Default, Scalar
      <3>2. CASE v = <<>>
        BY <2>1, <3>1, <3>2 DEF Tokens
      <3>3. CASE v # <<>>
        <4>1. s[i] = <<Delimited(i, v, Len(v), Len(v))>>
          BY <2>1, <2>3, <3>1, <3>3 DEF Tokens, Text, Scalar
        <4> QED BY <4>1, TokenParts
      <3> QED BY <3>2, <3>3
    <2> QED BY <2>2, <2>3 DEF f, v
  <1>3. ASSUME NEW k \in 1 .. L, NEW i \in 1 .. n, NEW j \in Nat, At(s, w, k, i, j)
        PROVE  /\ w[k] = s[i][j] /\ w[k].num = i /\ w[k].len = w[k].payload /\ j \in 1 .. Len(s[i])
               /\ F[i].kind \in SubKinds => parsed[k] = sub[i][j]
    <2>1. w[k] = s[i][j] /\ w[k].num = i /\ j \in 1 .. Len(s[i])
      BY <1>3 DEF At
    <2>2. s[i][j].len = s[i][j].payload
      BY <1>1, <2>1 DEF Sound
    <2> QED BY <1>3, <2>1, <2>2 DEF SubParsed
  <1> DEFINE Good(k) == Valid(F[w[k].num], w[k], parsed[k])
  <1>4. ASSUME Decodable(F, m, sub) PROVE \A k \in 1 .. L : Good(k)
    <2> TAKE k \in 1 .. L
    <2>1. PICK i \in 1 .. n : \E j \in Nat : At(s, w, k, i, j)
      BY <1>1
    <2>2. PICK j \in Nat : At(s, w, k, i, j)
      BY <2>1
    <2>3. /\ w[k] = s[i][j] /\ w[k].num = i /\ w[k].len = w[k].payload /\ j \in 1 .. Len(s[i])
          /\ F[i].kind \in SubKinds => parsed[k] = sub[i][j]
      BY <1>3, <2>2
    <2>4. F[i].kind = "string" => IsUtf8(w[k].val)
      <3> SUFFICES ASSUME F[i].kind = "string" PROVE IsUtf8(w[k].val)
        OBVIOUS
      <3>1. Len(s[i]) = 1 /\ s[i][1].val = m[F[i].name]
        BY <1>2, <2>3
      <3>2. IsUtf8(m[F[i].name])
        BY <1>4 DEF Decodable
      <3>3. j = 1
        BY <2>3, <3>1
      <3> QED BY <2>3, <3>1, <3>2, <3>3
    <2>5. F[i].kind \in SubKinds => parsed[k] # {}
      BY <1>2, <1>4, <2>3 DEF Decodable
    <2>6. F[i].kind \notin Scalar \cup Text \cup {"int32s"} => F[i].kind \in SubKinds
      BY <1>0 DEF Kinds, SubKinds
    <2> QED BY <2>3, <2>4, <2>5, <2>6 DEF Valid
  <1>5. ASSUME \A k \in 1 .. L : Good(k) PROVE Decodable(F, m, sub)
    <2> SUFFICES ASSUME NEW i \in 1 .. n
                 PROVE  /\ F[i].kind = "string" => IsUtf8(m[F[i].name])
                        /\ F[i].kind \in SubKinds => \A j \in DOMAIN m[F[i].name] : sub[i][j] # {}
      BY DEF Decodable
    <2>1. ASSUME NEW j \in 1 .. Len(s[i])
          PROVE  /\ F[i].kind = "string" => IsUtf8(s[i][j].val)
                 /\ F[i].kind \in SubKinds => sub[i][j] # {}
      <3> DEFINE k == Len(Joined(i - 1, s)) + j
      <3>1. j \in Nat /\ k \in 1 .. L /\ At(s, w, k, i, j)
        BY <1>1
      <3>2. Valid(F[w[k].num], w[k], parsed[k])
        BY <1>5, <3>1
      <3> HIDE DEF k
      <3>3. w[k] = s[i][j] /\ w[k].num = i /\ (F[i].kind \in SubKinds => parsed[k] = sub[i][j])
        BY <1>3, <3>1
      <3>4. F[i].kind \in SubKinds => F[i].kind \notin Scalar \cup Text \cup {"int32s"}
        BY DEF SubKinds, Scalar, Text
      <3> QED BY <3>2, <3>3, <3>4 DEF Valid
    <2>2. ASSUME F[i].kind = "string" PROVE IsUtf8(m[F[i].name])
      <3>1. CASE m[F[i].name] = <<>>
        BY <3>1 DEF IsUtf8
      <3>2. CASE Len(s[i]) = 1 /\ s[i][1].val = m[F[i].name]
        <4>1. 1 \in 1 .. Len(s[i])
          BY <3>2
        <4> QED BY <2>1, <2>2, <3>2, <4>1
      <3> QED BY <1>2, <2>2, <3>1, <3>2
    <2>3. ASSUME F[i].kind \in SubKinds, NEW j \in DOMAIN m[F[i].name] PROVE sub[i][j] # {}
      <3>1. j \in 1 .. Len(s[i])
        BY <1>2, <2>3
      <3> QED BY <2>1, <2>3, <3>1
    <2> QED BY <2>2, <2>3
  <1>6. ASSUME Decodable(F, m, sub) PROVE Restores(F, m, s, w, parsed)
    <2> SUFFICES ASSUME NEW k \in 1 .. L, NEW i \in 1 .. n, NEW j \in Nat, At(s, w, k, i, j),
                        F[i].kind \in SubKinds
                 PROVE  parsed[k] = {m[F[i].name][j]}
      BY DEF Restores
    <2>1. parsed[k] = sub[i][j] /\ j \in 1 .. Len(s[i])
      BY <1>3
    <2>2. j \in DOMAIN m[F[i].name]
      BY <1>2, <2>1
    <2>3. sub[i][j] # {}
      BY <1>6, <2>2 DEF Decodable
    <2>4. sub[i][j] \in {{}, {m[F[i].name][j]}}
      BY <2>2 DEF SubBack
    <2> QED BY <2>1, <2>3, <2>4
  <1>7. ASSUME Decodable(F, m, sub) PROVE Parse(F, w, parsed) = {m}
    <2>1. Read(F, w, L, parsed) = m
      BY <1>6, <1>7, ReadBack
    <2>2. \A k \in DOMAIN w : Valid(F[w[k].num], w[k], parsed[k])
      BY <1>1, <1>4, <1>7
    <2> QED BY <2>1, <2>2 DEF Parse
  <1>8. ASSUME ~ Decodable(F, m, sub) PROVE Parse(F, w, parsed) = {}
    <2>1. ~ \A k \in DOMAIN w : Valid(F[w[k].num], w[k], parsed[k])
      BY <1>1, <1>5, <1>8
    <2> QED BY <2>1 DEF Parse
  <1> QED BY <1>7, <1>8

\* m is encoded as w in size bytes and decoded as parse, which is m if it is ok.
Codes(m, w, size, parse, ok) ==
    /\ WireSize(w) = size /\ size \in Nat
    /\ ok => parse = {m}
    /\ ~ ok => parse = {}

\* The tokens s, the sizes q and the parsed submessages of an encoded message belong together.
Level(F, m, b, z, s, q, w, parsed, sub) ==
    /\ Encodes(F, m, b, z, s) /\ w = Joined(Len(F), s)
    /\ \A i \in 1 .. Len(F) : q[i] = FieldSize(F[i], m[F[i].name], z[i])
    /\ SubParsed(F, s, w, parsed, sub) /\ SubBack(F, m, sub)

\* Encoding and decoding a message whose submessages are encoded and decoded.
LEMMA LevelCodes ==
    ASSUME NEW F, FieldList(F), NEW C, NEW m \in MessagesOf(F, C), NEW b, NEW z, NEW s, NEW q,
           NEW w, NEW parsed, NEW sub, Level(F, m, b, z, s, q, w, parsed, sub)
    PROVE  Codes(m, w, Sum(Len(F), q), Parse(F, w, parsed), Decodable(F, m, sub))
  <1>1. /\ Encodes(F, m, b, z, s) /\ w = Joined(Len(F), s)
        /\ \A i \in 1 .. Len(F) : q[i] = FieldSize(F[i], m[F[i].name], z[i])
        /\ SubParsed(F, s, w, parsed, sub) /\ SubBack(F, m, sub)
    BY DEF Level
  <1>2. WireSize(w) = Sum(Len(F), q) /\ Sum(Len(F), q) \in Nat
    BY <1>1, EncodedAt
  <1>3. /\ Decodable(F, m, sub) => Parse(F, w, parsed) = {m}
        /\ ~ Decodable(F, m, sub) => Parse(F, w, parsed) = {}
    BY <1>1, ParseBack
  <1> QED BY <1>2, <1>3 DEF Codes

\* Each submessage is encoded and decoded.
SubCodes(F, m, b, z, sub) ==
    \A i \in 1 .. Len(F), j \in Nat :
        F[i].kind \in SubKinds /\ j \in DOMAIN m[F[i].name] =>
            \E ok : Codes(m[F[i].name][j], b[i][j], z[i][j], sub[i][j], ok)

\* Wherever the submessage b[i][j] stands in w, it is parsed as sub[i][j].
ParsesAs(F, m, b, w, parsed, sub) ==
    \A k \in DOMAIN w, i \in 1 .. Len(F) :
        F[i].kind \in SubKinds /\ w[k].num = i =>
            \A j \in DOMAIN m[F[i].name] : w[k].val = b[i][j] => parsed[k] = sub[i][j]

\* A message whose submessages are encoded and decoded.
LEMMA LevelOf ==
    ASSUME NEW F, FieldList(F), NEW C, NEW m \in MessagesOf(F, C), NEW b, NEW z, NEW sub,
           SubCodes(F, m, b, z, sub),
           NEW s, s = [i \in DOMAIN F |-> Tokens(i, F[i], m[F[i].name], b[i], z[i])],
           NEW q, q = [i \in DOMAIN F |-> FieldSize(F[i], m[F[i].name], z[i])],
           NEW w, w = Joined(Len(F), s), NEW parsed, ParsesAs(F, m, b, w, parsed, sub)
    PROVE  Level(F, m, b, z, s, q, w, parsed, sub)
  <1> DEFINE n == Len(F)
  <1>1. /\ n \in Nat /\ DOMAIN F = 1 .. n
        /\ \A i \in 1 .. n : F[i].kind \in Kinds /\ m[F[i].name] \in Values(F[i].kind, C)
    BY DEF FieldList, MessagesOf
  <1>2. ASSUME NEW i \in 1 .. n, F[i].kind \in SubKinds, NEW j \in DOMAIN m[F[i].name]
        PROVE  /\ j \in Nat /\ z[i][j] \in Nat /\ WireSize(b[i][j]) = z[i][j]
               /\ sub[i][j] \in {{}, {m[F[i].name][j]}}
    <2>1. j \in Nat
      <3> DEFINE v == m[F[i].name]
                 kind == F[i].kind
      <3>1. kind \in SubKinds /\ v \in Values(kind, C)
        BY <1>1, <1>2
      <3> HIDE DEF v, kind
      <3>2. v = [h \in 1 .. Len(v) |-> v[h]] /\ Len(v) \in Nat
        BY <3>1, SubSequences
      <3>3. DOMAIN v = 1 .. Len(v)
        BY <3>2
      <3>4. j \in DOMAIN v
        BY DEF v
      <3> QED BY <3>2, <3>3, <3>4
    <2>2. PICK ok : Codes(m[F[i].name][j], b[i][j], z[i][j], sub[i][j], ok)
      BY <1>2, <2>1 DEF SubCodes
    <2> QED BY <2>1, <2>2 DEF Codes
  <1>3. Encodes(F, m, b, z, s)
    <2>1. ASSUME NEW i \in 1 .. n, F[i].kind \in SubKinds PROVE Sized(m[F[i].name], b[i], z[i])
      BY <1>2, <2>1 DEF Sized
    <2>2. \A i \in 1 .. n : s[i] = Tokens(i, F[i], m[F[i].name], b[i], z[i])
      BY <1>1
    <2> QED BY <2>1, <2>2 DEF Encodes
  <1>4. \A i \in 1 .. n : q[i] = FieldSize(F[i], m[F[i].name], z[i])
    BY <1>1
  <1>5. SubBack(F, m, sub)
    BY <1>2 DEF SubBack
  <1>6. SubParsed(F, s, w, parsed, sub)
    <2> SUFFICES ASSUME NEW k \in 1 .. Len(w), NEW i \in 1 .. n, NEW j \in Nat, At(s, w, k, i, j),
                        F[i].kind \in SubKinds
                 PROVE  parsed[k] = sub[i][j]
      BY DEF SubParsed
    <2>1. w[k].num = i /\ w[k] = s[i][j] /\ j \in 1 .. Len(s[i])
      BY DEF At
    <2>2. s[i][j].val = b[i][j] /\ j \in DOMAIN m[F[i].name]
      <3> DEFINE f == F[i]
                 v == m[F[i].name]
                 t == s[i]
                 bi == b[i]
                 zi == z[i]
      <3>1. t = Tokens(i, f, v, bi, zi) /\ f.kind \in SubKinds /\ v \in Values(f.kind, C)
            /\ j \in 1 .. Len(t)
        BY <1>1, <2>1
      <3> HIDE DEF f, v, t, bi, zi
      <3>2. Default(f.kind) = <<>> /\ v = [h \in 1 .. Len(v) |-> v[h]] /\ Len(v) \in Nat
        BY <3>1, SubSequences
      <3>3. v # Default(f.kind)
        <4> SUFFICES ASSUME v = Default(f.kind) PROVE FALSE
          OBVIOUS
        <4>1. f.kind \in Kinds
          BY <3>1 DEF Kinds, SubKinds
        <4>2. Tokens(i, f, v, bi, zi) = <<>>
          BY <3>1, <4>1, SomeToken
        <4> QED BY <3>1, <4>2
      <3>4. Tokens(i, f, v, bi, zi) = DelimitedEach(i, v, bi, zi)
        BY <3>1, <3>3, SubTokens
      <3>5. t = [h \in 1 .. Len(v) |-> Delimited(i, bi[h], zi[h], WireSize(bi[h]))]
        BY <3>1, <3>2, <3>4 DEF DelimitedEach
      <3>6. Len(t) = Len(v)
        BY <3>2, <3>5
      <3>7. t[j] = Delimited(i, bi[j], zi[j], WireSize(bi[j]))
        BY <3>1, <3>2, <3>5, <3>6
      <3>8. t[j].val = bi[j]
        BY <3>7, TokenParts
      <3>9. j \in DOMAIN v
        BY <3>1, <3>2, <3>6
      <3> QED BY <3>8, <3>9 DEF t, bi, v
    <2>3. k \in DOMAIN w
      BY <1>3, EncodedAt
    <2>4. F[i].kind \in SubKinds /\ w[k].num = i /\ w[k].val = b[i][j]
      BY <2>1, <2>2
    <2>5. \A h \in DOMAIN m[F[i].name] : w[k].val = b[i][h] => parsed[k] = sub[i][h]
      BY <2>3, <2>4 DEF ParsesAs
    <2> QED BY <2>2, <2>4, <2>5
  <1> QED BY <1>3, <1>4, <1>5, <1>6 DEF Level

-----------------------------------------------------------------------------
(* The codec, class by class.                                               *)

LeafSerialize(F, m) == Serialize(F, m, NoBytes, NoSubSize)
LeafByteSize(F, m) == ByteSize(F, m, NoSubSize)
LeafParsing(F, w) == Parse(F, w, Parsed(F, w, NoParse))

\* A message of integers.
LEMMA LeafCodes ==
    ASSUME NEW F, LeafList(F), NEW m \in Leaves(F)
    PROVE  Codes(m, LeafSerialize(F, m), LeafByteSize(F, m), LeafParsing(F, LeafSerialize(F, m)), TRUE)
  <1> DEFINE n == Len(F)
             b == [i \in DOMAIN F |-> Each(NoBytes, F[i], m)]
             z == [i \in DOMAIN F |-> Each(NoSubSize, F[i], m)]
             s == [i \in DOMAIN F |-> Tokens(i, F[i], m[F[i].name], b[i], z[i])]
             q == [i \in DOMAIN F |-> FieldSize(F[i], m[F[i].name], z[i])]
             w == Joined(n, s)
             parsed == Parsed(F, w, NoParse)
             sub == <<>>
  <1>1. /\ FieldList(F) /\ n \in Nat /\ DOMAIN F = 1 .. n
        /\ \A i \in 1 .. n : F[i].kind \in Scalar /\ F[i].kind \notin SubKinds /\ F[i].kind # "string"
    BY DEF LeafList, FieldList, Scalar, SubKinds
  <1>2. m \in MessagesOf(F, {})
    <2>1. ASSUME NEW i \in 1 .. n
          PROVE  F[i].kind \in Kinds /\ m[F[i].name] \in Values(F[i].kind, {})
      <3>1. F[i].kind \in Kinds
        BY <1>1 DEF Kinds
      <3>2. Values(F[i].kind, {}) = ScalarValues(F[i].kind)
        BY <1>1 DEF Values, Scalar, Text
      <3> QED BY <3>1, <3>2 DEF Leaves
    <2>2. m \in [Names(F) -> Int] /\ Names(F) = {F[i].name : i \in 1 .. n}
      BY <1>1 DEF Leaves, Names
    <2> QED BY <2>1, <2>2 DEF MessagesOf
  <1>3. LeafSerialize(F, m) = w
    BY DEF LeafSerialize, Serialize
  <1>4. LeafByteSize(F, m) = Sum(n, q)
    BY DEF LeafByteSize, ByteSize
  <1>5. LeafParsing(F, w) = Parse(F, w, parsed)
    BY DEF LeafParsing
  <1>6. Encodes(F, m, b, z, s)
    BY <1>1 DEF Encodes
  <1>7. \A i \in 1 .. n : q[i] = FieldSize(F[i], m[F[i].name], z[i])
    BY <1>1
  <1> HIDE DEF b, z, s, q, w, parsed, sub
  <1>8. SubParsed(F, s, w, parsed, sub) /\ SubBack(F, m, sub) /\ Decodable(F, m, sub)
    BY <1>1 DEF SubParsed, SubBack, Decodable
  <1>9. Level(F, m, b, z, s, q, w, parsed, sub)
    BY <1>6, <1>7, <1>8 DEF Level, w
  <1>10. Codes(m, w, Sum(n, q), Parse(F, w, parsed), Decodable(F, m, sub))
    BY <1>1, <1>2, <1>9, LevelCodes
  <1>11. Codes(m, w, Sum(n, q), Parse(F, w, parsed), TRUE)
    BY <1>8, <1>10 DEF Codes
  <1> QED BY <1>3, <1>4, <1>5, <1>11

\* The classes of messages without submessages.
LEMMA Leafs ==
    /\ \A x \in Attributes : Codes(x, attributes_Serialize(x), attributes_ByteSize(x),
                                   attributes_Parse(attributes_Serialize(x)), TRUE)
    /\ \A x \in FileInfos : Codes(x, fileInfo_Serialize(x), fileInfo_ByteSize(x),
                                  fileInfo_Parse(fileInfo_Serialize(x)), TRUE)
  <1>1. ASSUME NEW x \in Attributes
        PROVE  Codes(x, attributes_Serialize(x), attributes_ByteSize(x),
                     attributes_Parse(attributes_Serialize(x)), TRUE)
    <2> DEFINE F == attributes_Fields
               w == LeafSerialize(F, x)
    <2>1. Codes(x, w, LeafByteSize(F, x), LeafParsing(F, w), TRUE)
      BY Lists, LeafCodes DEF Attributes
    <2>2. attributes_Serialize(x) = w
      BY DEF attributes_Serialize, LeafSerialize
    <2>3. attributes_ByteSize(x) = LeafByteSize(F, x)
      BY DEF attributes_ByteSize, LeafByteSize
    <2>4. attributes_Parse(w) = LeafParsing(F, w)
      BY DEF attributes_Parse, LeafParsing
    <2> QED BY <2>1, <2>2, <2>3, <2>4
  <1>2. ASSUME NEW x \in FileInfos
        PROVE  Codes(x, fileInfo_Serialize(x), fileInfo_ByteSize(x),
                     fileInfo_Parse(fileInfo_Serialize(x)), TRUE)
    <2> DEFINE F == fileInfo_Fields
               w == LeafSerialize(F, x)
    <2>1. Codes(x, w, LeafByteSize(F, x), LeafParsing(F, w), TRUE)
      BY Lists, LeafCodes DEF FileInfos
    <2>2. fileInfo_Serialize(x) = w
      BY DEF fileInfo_Serialize, LeafSerialize
    <2>3. fileInfo_ByteSize(x) = LeafByteSize(F, x)
      BY DEF fileInfo_ByteSize, LeafByteSize
    <2>4. fileInfo_Parse(w) = LeafParsing(F, w)
      BY DEF fileInfo_Parse, LeafParsing
    <2> QED BY <2>1, <2>2, <2>3, <2>4
  <1> QED BY <1>1, <1>2

\* A directory entry: it decodes if its name is UTF-8.
LEMMA DirectoryCodes ==
    ASSUME NEW C, NEW m \in Directories(C)
    PROVE  Codes(m, directory_Serialize(m), directory_ByteSize(m),
                 directory_Parse(directory_Serialize(m)), IsUtf8(m.name))
  <1> DEFINE F == directory_Fields
             n == Len(F)
             b == [i \in DOMAIN F |-> Each(LeafBytes, F[i], m)]
             z == [i \in DOMAIN F |-> Each(LeafSize, F[i], m)]
             s == [i \in DOMAIN F |-> Tokens(i, F[i], m[F[i].name], b[i], z[i])]
             q == [i \in DOMAIN F |-> FieldSize(F[i], m[F[i].name], z[i])]
             w == Joined(n, s)
             parsed == Parsed(F, w, LeafParse)
             sub == [i \in DOMAIN F |-> [j \in DOMAIN m[F[i].name] |-> LeafParse(F[i].kind, b[i][j])]]
  <1>1. /\ FieldList(F) /\ n = 2 /\ DOMAIN F = 1 .. 2
        /\ F[1].name = "name" /\ F[1].kind = "string" /\ F[2].name = "attr" /\ F[2].kind = "attributes"
    BY Lists DEF directory_Fields, Field
  <1>2. m \in MessagesOf(F, C)
    <2>1. m \in [Names(F) -> Seq(C) \cup Optional(Attributes)] /\ m.name \in Seq(C)
          /\ m.attr \in Optional(Attributes)
      BY DEF Directories
    <2>2. Values("string", C) = Seq(C) /\ Values("attributes", C) = Optional(Attributes)
      BY DEF Values, Scalar, Text
    <2>3. {"string", "attributes"} \subseteq Kinds
      BY DEF Kinds, Text
    <2>4. Seq(C) \cup Optional(Attributes) \subseteq UNION {Values(kind, C) : kind \in Kinds}
      BY <2>2, <2>3
    <2>5. m \in [Names(F) -> UNION {Values(kind, C) : kind \in Kinds}]
      BY <2>1, <2>4
    <2>6. \A i \in 1 .. n : m[F[i].name] \in Values(F[i].kind, C)
      BY <1>1, <2>1, <2>2
    <2> HIDE DEF F
    <2> QED BY <2>5, <2>6 DEF MessagesOf
  <1> HIDE DEF F
  <1>3. directory_Serialize(m) = w
    BY DEF directory_Serialize, Serialize, F
  <1>4. directory_ByteSize(m) = Sum(n, q)
    BY DEF directory_ByteSize, ByteSize, F
  <1>5. directory_Parse(w) = Parse(F, w, parsed)
    BY DEF directory_Parse, F
  <1>6. ASSUME NEW i \in 1 .. n, F[i].kind \in SubKinds, NEW j \in DOMAIN m[F[i].name]
        PROVE  /\ b[i][j] = attributes_Serialize(m[F[i].name][j])
               /\ z[i][j] = attributes_ByteSize(m[F[i].name][j])
               /\ sub[i][j] = attributes_Parse(b[i][j])
               /\ m[F[i].name][j] \in Attributes
    <2>1. i = 2 /\ F[i].kind = "attributes" /\ F[i].name = "attr"
      BY <1>1, <1>6 DEF SubKinds
    <2>2. b[i][j] = LeafBytes(F[i].kind, m[F[i].name][j]) /\ z[i][j] = LeafSize(F[i].kind, m[F[i].name][j])
      BY <1>1 DEF Each
    <2>3. sub[i][j] = LeafParse(F[i].kind, b[i][j])
      <3> HIDE DEF b
      <3> QED BY <1>1
    <2>4. m.attr \in Optional(Attributes) /\ j \in DOMAIN m.attr
      BY <2>1 DEF Directories
    <2>5. m.attr[j] \in Attributes
      BY <2>4 DEF Optional
    <2> HIDE DEF b, z, sub
    <2> QED BY <2>1, <2>2, <2>3, <2>5 DEF LeafBytes, LeafSize, LeafParse
  <1>7. SubCodes(F, m, b, z, sub)
    <2> SUFFICES ASSUME NEW i \in 1 .. n, NEW j \in Nat, F[i].kind \in SubKinds, j \in DOMAIN m[F[i].name]
                 PROVE  Codes(m[F[i].name][j], b[i][j], z[i][j], sub[i][j], TRUE)
      <3> HIDE DEF b, z, sub
      <3> QED BY DEF SubCodes
    <2> HIDE DEF b, z, sub
    <2>1. /\ b[i][j] = attributes_Serialize(m[F[i].name][j])
          /\ z[i][j] = attributes_ByteSize(m[F[i].name][j])
          /\ sub[i][j] = attributes_Parse(b[i][j])
          /\ m[F[i].name][j] \in Attributes
      BY <1>6
    <2> QED BY <2>1, Leafs
  <1>8. ParsesAs(F, m, b, w, parsed, sub)
    <2> SUFFICES ASSUME NEW k \in DOMAIN w, NEW i \in 1 .. n, F[i].kind \in SubKinds, w[k].num = i,
                        NEW j \in DOMAIN m[F[i].name], w[k].val = b[i][j]
                 PROVE  parsed[k] = sub[i][j]
      <3> HIDE DEF b, parsed, sub, w
      <3> QED BY DEF ParsesAs
    <2> HIDE DEF b, w
    <2>1. parsed[k] = LeafParse(F[w[k].num].kind, w[k].val)
      BY DEF Parsed
    <2>2. sub[i][j] = LeafParse(F[i].kind, b[i][j])
      BY <1>1
    <2> QED BY <2>1, <2>2
  <1> HIDE DEF b, z, w, parsed, sub
  <1>9. Level(F, m, b, z, s, q, w, parsed, sub)
    BY <1>1, <1>2, <1>7, <1>8, LevelOf DEF w
  <1> HIDE DEF s, q
  <1>10. Codes(m, w, Sum(n, q), Parse(F, w, parsed), Decodable(F, m, sub))
    BY <1>1, <1>2, <1>9, LevelCodes
  <1>11. Decodable(F, m, sub) <=> IsUtf8(m.name)
    <2>1. ASSUME NEW i \in 1 .. n, F[i].kind \in SubKinds, NEW j \in DOMAIN m[F[i].name]
          PROVE  sub[i][j] # {}
      <3>1. /\ b[i][j] = attributes_Serialize(m[F[i].name][j])
            /\ z[i][j] = attributes_ByteSize(m[F[i].name][j])
            /\ sub[i][j] = attributes_Parse(b[i][j])
            /\ m[F[i].name][j] \in Attributes
        BY <1>6, <2>1
      <3>2. Codes(m[F[i].name][j], b[i][j], z[i][j], sub[i][j], TRUE)
        BY <3>1, Leafs
      <3> QED BY <3>2 DEF Codes
    <2>2. 1 \in 1 .. n /\ \A i \in 1 .. n : F[i].kind = "string" => i = 1
      BY <1>1
    <2> QED BY <1>1, <2>1, <2>2 DEF Decodable
  <1>12. Codes(m, w, Sum(n, q), Parse(F, w, parsed), IsUtf8(m.name))
    BY <1>10, <1>11 DEF Codes
  <1> QED BY <1>3, <1>4, <1>5, <1>12

TopSerialize(F, m) == Serialize(F, m, SubBytes, SubSize)
TopByteSize(F, m) == ByteSize(F, m, SubSize)
TopParsing(F, w) == Parse(F, w, Parsed(F, w, SubParse))

\* The texts of m, and the names in its lists, are UTF-8.
Utf8(F, m) ==
    \A i \in 1 .. Len(F) :
        /\ F[i].kind = "string" => IsUtf8(m[F[i].name])
        /\ F[i].kind = "directory" => \A j \in DOMAIN m[F[i].name] : IsUtf8(m[F[i].name][j].name)

\* A request or a response.
LEMMA TopCodes ==
    ASSUME NEW F, FieldList(F), NEW C, NEW m \in MessagesOf(F, C)
    PROVE  Codes(m, TopSerialize(F, m), TopByteSize(F, m), TopParsing(F, TopSerialize(F, m)), Utf8(F, m))
  <1> DEFINE n == Len(F)
             b == [i \in DOMAIN F |-> Each(SubBytes, F[i], m)]
             z == [i \in DOMAIN F |-> Each(SubSize, F[i], m)]
             s == [i \in DOMAIN F |-> Tokens(i, F[i], m[F[i].name], b[i], z[i])]
             q == [i \in DOMAIN F |-> FieldSize(F[i], m[F[i].name], z[i])]
             w == Joined(n, s)
             parsed == Parsed(F, w, SubParse)
             sub == [i \in DOMAIN F |-> [j \in DOMAIN m[F[i].name] |-> SubParse(F[i].kind, b[i][j])]]
  <1>1. /\ n \in Nat /\ DOMAIN F = 1 .. n
        /\ \A i \in 1 .. n : F[i].kind \in Kinds /\ m[F[i].name] \in Values(F[i].kind, C)
    BY DEF FieldList, MessagesOf
  <1>3. TopSerialize(F, m) = w
    BY DEF TopSerialize, Serialize
  <1>4. TopByteSize(F, m) = Sum(n, q)
    BY DEF TopByteSize, ByteSize
  <1>5. TopParsing(F, w) = Parse(F, w, parsed)
    BY DEF TopParsing
  <1>6. ASSUME NEW i \in 1 .. n, F[i].kind \in SubKinds, NEW j \in DOMAIN m[F[i].name]
        PROVE  Codes(m[F[i].name][j], b[i][j], z[i][j], sub[i][j],
                     F[i].kind = "directory" => IsUtf8(m[F[i].name][j].name))
    <2> DEFINE x == m[F[i].name][j]
               kind == F[i].kind
    <2>1. b[i][j] = SubBytes(kind, x) /\ z[i][j] = SubSize(kind, x)
      BY <1>1 DEF Each
    <2>2. sub[i][j] = SubParse(kind, b[i][j])
      <3> HIDE DEF b
      <3> QED BY <1>1
    <2> HIDE DEF b, z, sub
    <2>3. CASE kind = "directory"
      <3>1. m[F[i].name] \in Seq(Directories(C))
        BY <1>1, <2>3 DEF Values, Scalar, Text
      <3>2. x \in Directories(C)
        BY <3>1
      <3>3. b[i][j] = directory_Serialize(x) /\ z[i][j] = directory_ByteSize(x)
            /\ sub[i][j] = directory_Parse(b[i][j])
        BY <2>1, <2>2, <2>3 DEF SubBytes, SubSize, SubParse
      <3> HIDE DEF x
      <3>4. Codes(x, b[i][j], z[i][j], sub[i][j], IsUtf8(x.name))
        BY <3>2, <3>3, DirectoryCodes
      <3> QED BY <2>3, <3>4 DEF Codes, x
    <2>4. CASE kind = "attributes"
      <3>1. m[F[i].name] \in Optional(Attributes)
        BY <1>1, <2>4 DEF Values, Scalar, Text
      <3>2. x \in Attributes
        BY <3>1 DEF Optional
      <3>3. b[i][j] = attributes_Serialize(x) /\ z[i][j] = attributes_ByteSize(x)
            /\ sub[i][j] = attributes_Parse(b[i][j])
        BY <2>1, <2>2, <2>4 DEF SubBytes, SubSize, SubParse, LeafBytes, LeafSize, LeafParse
      <3> HIDE DEF x
      <3>4. Codes(x, b[i][j], z[i][j], sub[i][j], TRUE)
        BY <3>2, <3>3, Leafs
      <3> QED BY <2>4, <3>4 DEF Codes, x
    <2>5. CASE kind = "fileInfo"
      <3>1. m[F[i].name] \in Optional(FileInfos)
        BY <1>1, <2>5 DEF Values, Scalar, Text
      <3>2. x \in FileInfos
        BY <3>1 DEF Optional
      <3>3. b[i][j] = fileInfo_Serialize(x) /\ z[i][j] = fileInfo_ByteSize(x)
            /\ sub[i][j] = fileInfo_Parse(b[i][j])
        BY <2>1, <2>2, <2>5 DEF SubBytes, SubSize, SubParse, LeafBytes, LeafSize, LeafParse
      <3> HIDE DEF x
      <3>4. Codes(x, b[i][j], z[i][j], sub[i][j], TRUE)
        BY <3>2, <3>3, Leafs
      <3> QED BY <2>5, <3>4 DEF Codes, x
    <2> QED BY <1>6, <2>3, <2>4, <2>5 DEF SubKinds
  <1>7. SubCodes(F, m, b, z, sub)
    <2> HIDE DEF b, z, sub
    <2> QED BY <1>6 DEF SubCodes
  <1>8. ParsesAs(F, m, b, w, parsed, sub)
    <2> SUFFICES ASSUME NEW k \in DOMAIN w, NEW i \in 1 .. n, F[i].kind \in SubKinds, w[k].num = i,
                        NEW j \in DOMAIN m[F[i].name], w[k].val = b[i][j]
                 PROVE  parsed[k] = sub[i][j]
      <3> HIDE DEF b, parsed, sub, w
      <3> QED BY DEF ParsesAs
    <2> HIDE DEF b, w
    <2>1. parsed[k] = SubParse(F[w[k].num].kind, w[k].val)
      BY DEF Parsed
    <2>2. sub[i][j] = SubParse(F[i].kind, b[i][j])
      BY <1>1
    <2> QED BY <2>1, <2>2
  <1> HIDE DEF b, z, w, parsed, sub
  <1>9. Level(F, m, b, z, s, q, w, parsed, sub)
    BY <1>1, <1>7, <1>8, LevelOf DEF w
  <1> HIDE DEF s, q
  <1>10. Codes(m, w, Sum(n, q), Parse(F, w, parsed), Decodable(F, m, sub))
    BY <1>1, <1>9, LevelCodes
  <1>11. Decodable(F, m, sub) <=> Utf8(F, m)
    <2>1. ASSUME NEW i \in 1 .. n, F[i].kind \in SubKinds, NEW j \in DOMAIN m[F[i].name]
          PROVE  sub[i][j] # {} <=> (F[i].kind = "directory" => IsUtf8(m[F[i].name][j].name))
      <3> DEFINE x == m[F[i].name][j]
                 ok == F[i].kind = "directory" => IsUtf8(x.name)
      <3>1. Codes(x, b[i][j], z[i][j], sub[i][j], ok)
        BY <1>6, <2>1
      <3> HIDE DEF ok, x
      <3>2. sub[i][j] # {} <=> ok
        BY <3>1 DEF Codes
      <3> QED BY <3>2 DEF ok, x
    <2>2. "directory" \in SubKinds
      BY DEF SubKinds
    <2>3. ASSUME NEW i \in 1 .. n, Decodable(F, m, sub), F[i].kind = "directory",
                 NEW j \in DOMAIN m[F[i].name]
          PROVE  IsUtf8(m[F[i].name][j].name)
      BY <2>1, <2>2, <2>3 DEF Decodable
    <2>4. ASSUME NEW i \in 1 .. n, Utf8(F, m), F[i].kind \in SubKinds,
                 NEW j \in DOMAIN m[F[i].name]
          PROVE  sub[i][j] # {}
      BY <2>1, <2>4 DEF Utf8
    <2> QED BY <2>3, <2>4 DEF Decodable, Utf8
  <1>12. Codes(m, w, Sum(n, q), Parse(F, w, parsed), Utf8(F, m))
    BY <1>10, <1>11 DEF Codes
  <1> QED BY <1>3, <1>4, <1>5, <1>12

\* Requests and responses of nfs.proto.
Requests(C) == MessagesOf(request_Fields, C)
Responses(C) == MessagesOf(response_Fields, C)

\* The size of every message is the one ByteSizeLong computes; it arrives as it was
\* sent unless a name is not UTF-8 or it is larger than gRPC takes: then nothing does.
THEOREM MessageArrives ==
    ASSUME NEW C
    PROVE  /\ \A m \in Requests(C) :
                /\ WireSize(request_Serialize(m)) = request_ByteSize(m)
                /\ ReceivedRequest(m) =
                        IF /\ IsUtf8(m.name) /\ IsUtf8(m.path) /\ IsUtf8(m.command)
                           /\ WireSize(request_Serialize(m)) <= MaxMessage
                        THEN {m} ELSE {}
           /\ \A m \in Responses(C) :
                /\ WireSize(response_Serialize(m)) = response_ByteSize(m)
                /\ ReceivedResponse(m) =
                        IF /\ \A j \in DOMAIN m.objects : IsUtf8(m.objects[j].name)
                           /\ WireSize(response_Serialize(m)) <= MaxMessage
                        THEN {m} ELSE {}
  <1>1. ASSUME NEW m \in Requests(C)
        PROVE  /\ WireSize(request_Serialize(m)) = request_ByteSize(m)
               /\ ReceivedRequest(m) =
                        IF /\ IsUtf8(m.name) /\ IsUtf8(m.path) /\ IsUtf8(m.command)
                           /\ WireSize(request_Serialize(m)) <= MaxMessage
                        THEN {m} ELSE {}
    <2> DEFINE F == request_Fields
               w == TopSerialize(F, m)
               size == TopByteSize(F, m)
    <2>1. Codes(m, w, size, TopParsing(F, w), Utf8(F, m))
      BY Lists, TopCodes DEF Requests
    <2>2. request_Serialize(m) = w /\ request_ByteSize(m) = size /\ request_Parse(w) = TopParsing(F, w)
      <3>1. request_Serialize(m) = w
        BY DEF request_Serialize, TopSerialize
      <3>2. request_ByteSize(m) = size
        BY DEF request_ByteSize, TopByteSize
      <3>3. request_Parse(w) = TopParsing(F, w)
        BY DEF request_Parse, TopParsing
      <3> QED BY <3>1, <3>2, <3>3
    <2>3. Utf8(F, m) <=> IsUtf8(m.name) /\ IsUtf8(m.path) /\ IsUtf8(m.command)
      BY DEF Utf8, request_Fields, Field
    <2> HIDE DEF w, size, F
    <2>4. WireSize(w) = size /\ size \in Nat /\ MaxMessage \in Nat
          /\ (Utf8(F, m) => TopParsing(F, w) = {m}) /\ (~ Utf8(F, m) => TopParsing(F, w) = {})
      BY <2>1, WidthAssumption DEF Codes
    <2>5. ReceivedRequest(m) = IF size > MaxMessage THEN {} ELSE TopParsing(F, w)
      BY <2>2 DEF ReceivedRequest
    <2> QED BY <2>2, <2>3, <2>4, <2>5
  <1>2. ASSUME NEW m \in Responses(C)
        PROVE  /\ WireSize(response_Serialize(m)) = response_ByteSize(m)
               /\ ReceivedResponse(m) =
                        IF /\ \A j \in DOMAIN m.objects : IsUtf8(m.objects[j].name)
                           /\ WireSize(response_Serialize(m)) <= MaxMessage
                        THEN {m} ELSE {}
    <2> DEFINE F == response_Fields
               w == TopSerialize(F, m)
               size == TopByteSize(F, m)
    <2>1. Codes(m, w, size, TopParsing(F, w), Utf8(F, m))
      BY Lists, TopCodes DEF Responses
    <2>2. response_Serialize(m) = w /\ response_ByteSize(m) = size /\ response_Parse(w) = TopParsing(F, w)
      <3>1. response_Serialize(m) = w
        BY DEF response_Serialize, TopSerialize
      <3>2. response_ByteSize(m) = size
        BY DEF response_ByteSize, TopByteSize
      <3>3. response_Parse(w) = TopParsing(F, w)
        BY DEF response_Parse, TopParsing
      <3> QED BY <3>1, <3>2, <3>3
    <2>3. Utf8(F, m) <=> \A j \in DOMAIN m.objects : IsUtf8(m.objects[j].name)
      BY DEF Utf8, response_Fields, Field
    <2> HIDE DEF w, size, F
    <2>4. WireSize(w) = size /\ size \in Nat /\ MaxMessage \in Nat
          /\ (Utf8(F, m) => TopParsing(F, w) = {m}) /\ (~ Utf8(F, m) => TopParsing(F, w) = {})
      BY <2>1, WidthAssumption DEF Codes
    <2>5. ReceivedResponse(m) = IF size > MaxMessage THEN {} ELSE TopParsing(F, w)
      BY <2>2 DEF ReceivedResponse
    <2> DEFINE ok == \A j \in DOMAIN m.objects : IsUtf8(m.objects[j].name)
    <2>6. Utf8(F, m) <=> ok
      BY <2>3
    <2>7. response_Serialize(m) = w /\ response_ByteSize(m) = size
      BY <2>2
    <2>8. ReceivedResponse(m) = IF ok /\ WireSize(response_Serialize(m)) <= MaxMessage THEN {m} ELSE {}
      <3> HIDE DEF ok
      <3> QED BY <2>4, <2>5, <2>6, <2>7
    <2> QED BY <2>4, <2>7, <2>8
  <1> QED BY <1>1, <1>2

=============================================================================
