--------------------------- MODULE ThreadsProofs ---------------------------
(***************************************************************************)
(* What TLAPS proves of Threads for every number of threads, files and     *)
(* paths, and every workload: type correctness; that handles and           *)
(* descriptors of different paths stay apart until lookups cross; and that *)
(* a copy is only lost to a write or a commit that met another commit.     *)
(***************************************************************************)
EXTENDS Threads, HandleTableProofs, FiniteSetTheorems, FunctionTheorems, SequenceTheorems

-----------------------------------------------------------------------------
(* The invariant.                                                           *)

\* A chunk of the client, and a Write of the server.
Chunk == [fh : Fh, gen : Nat, fd : Nat]

ThreadRecord ==
    [cb : {"none", "open", "write", "release"}, path : Path,
     pc : {"idle", "open", "push", "send", "collect", "committing", "resend", "resending", "close"},
     looks : Seq(Path), look : {"find", "get", "send"}, again : {"no", "sleep", "reconnect"},
     fh : Fh, copy : Seq(Chunk), at : Nat, upto : Nat]

CallRecord ==
    [phase : {"none", "sent", "number", "path", "count", "read", "loop", "wrote", "answered",
              "failed"},
     cmd : {"none", "lookup", "open", "write", "commit", "release"},
     fh : Fh, name : STRING \cup {"none"}, gen : Nat, gens : Seq(Nat), fd : Nat, path : Path, i : Nat, at : Nat,
     rep : Int]

ServerType ==
    /\ table \in Table /\ table.fhcount \in 1 .. MaxFh
    /\ writes \in Seq(Chunk) /\ fds \in Seq(Files) /\ disk \subseteq Nat \X Files

ClientType ==
    /\ load \in Workload
    /\ pathtofh \in PathMap /\ renewed \in BOOLEAN /\ chunks \in Seq(Chunk)
    /\ thread \in [Thread -> ThreadRecord] /\ opened \in [Thread -> [path : Path, fd : Nat]]
    /\ asks \in [Thread -> Nat] /\ drawn \in Nat /\ acked \subseteq 1 .. drawn

RestType ==
    /\ call \in [Thread -> CallRecord] /\ lost \in Nat
    /\ wild \in BOOLEAN /\ mixed \in BOOLEAN /\ crossed \in BOOLEAN

Types == ServerType /\ ClientType /\ RestType

\* The server has numbered p, and addLookup is done with it.
HandleOf(h, p) ==
    h \in 0 .. table.fhcount - 1 /\ table.fhToPath[h] = p /\ table.pathToFh[p] = h

\* The numbers below fhcount are handles; the only other one in the maps is that
\* of a handler in the middle of addLookup.
TableFits ==
    /\ HandleOf(0, Root)
    /\ \A h \in 0 .. table.fhcount - 1 :
         table.fhToPath[h] \in Path /\ HandleOf(h, table.fhToPath[h])
    /\ \A p \in Path : Mapped(table, p) =>
         \/ HandleOf(table.pathToFh[p], p)
         \/ /\ table.pathToFh[p] = table.fhcount
            /\ \E t \in Thread : call[t].phase \in {"path", "count"} /\ call[t].path = p

OneAdds == \A t, u \in Thread : call[t].phase \in Adding /\ call[u].phase \in Adding => t = u

MapFits == pathtofh[Root] = 0 /\ \A p \in Path : pathtofh[p] # NoFh => HandleOf(pathtofh[p], p)

\* The stack of a lookup leads from a path down to the one that was asked for.
StackFits(t) ==
    LET r == thread[t]
    IN  /\ \A i \in 2 .. Len(r.looks) :
              r.looks[i] # Root /\ r.looks[i - 1] = Parent(r.looks[i])
        /\ r.looks # <<>> => r.looks[Len(r.looks)] = r.path
        /\ r.looks # <<>> /\ r.look = "send" => Head(r.looks) # Root

\* What the lookup relies on is in the map, until a reset takes it away.
LooksFit(t) ==
    LET r == thread[t]
    IN  (r.looks # <<>> /\ r.again # "reconnect") =>
            /\ r.look = "get" => pathtofh[Head(r.looks)] # NoFh
            /\ r.look = "send" => pathtofh[Parent(Head(r.looks))] # NoFh

\* A callback that has done its lookup has the handle of its path.
FhFits(t) ==
    LET r == thread[t]
    IN  r.looks = <<>> /\ r.pc # "idle" => HandleOf(r.fh, r.path)

OpenedFits(t) ==
    /\ opened[t].fd # 0 => opened[t].fd \in DOMAIN fds /\ fds[opened[t].fd] = opened[t].path
    /\ thread[t].pc = "push" => opened[t].fd # 0

\* A write that was issued, through a descriptor that was given out.
Drawn(gen, fd) == gen \in 1 .. drawn /\ fd \in DOMAIN fds

CopyFits(t) ==
    thread[t].pc \in {"send", "resending"} =>
        Len(thread[t].copy) = 1 /\ Drawn(thread[t].copy[1].gen, thread[t].copy[1].fd)

\* A call belongs to the point its callback has reached.
CallFits(t) ==
    LET c == call[t]
        r == thread[t]
    IN  c.phase # "none" =>
            /\ r.again = "no"
            /\ c.cmd = "lookup" => r.looks # <<>> /\ r.look = "send"
            /\ c.cmd # "lookup" => r.looks = <<>> /\ c.phase \notin Adding \cup {"read"}
            /\ c.cmd = "open" => r.pc = "open" /\ c.fh = r.fh
            /\ c.cmd = "write" => r.pc \in {"send", "resending"} /\ Drawn(c.gen, c.fd)
            /\ c.cmd = "commit" => r.pc = "committing"
            /\ c.cmd = "release" => r.pc = "close"
            /\ c.cmd = "open" /\ c.phase = "answered" /\ c.rep # -1 =>
                 c.rep \in DOMAIN fds /\ fds[c.rep] = r.path
            /\ c.phase \in Looping => c.cmd = "commit"

\* How far the server is with a lookup.
LookupFits(t) ==
    LET c == call[t]
        p == Head(thread[t].looks)
    IN  (c.cmd = "lookup" /\ c.phase \notin {"none", "failed"}) =>
            /\ c.phase = "sent" => HandleOf(c.fh, Parent(p)) /\ c.name = Last(p)
            /\ c.phase \in Adding \cup {"read"} => c.path = p
            /\ c.phase = "number" => ~Mapped(table, p)
            /\ c.phase \in {"path", "count"} => table.pathToFh[p] = table.fhcount
            /\ c.phase = "count" => table.fhToPath[table.fhcount] = p
            /\ c.phase = "read" => HandleOf(table.pathToFh[p], p)
            /\ c.phase = "answered" => HandleOf(c.rep, p)

Handles ==
    /\ TableFits /\ MapFits
    /\ \A t \in Thread : StackFits(t) /\ FhFits(t) /\ OpenedFits(t) /\ CopyFits(t) /\ CallFits(t)
    /\ ~crossed => OneAdds /\ \A t \in Thread : LooksFit(t) /\ LookupFits(t)

\* The vectors hold writes that were issued, the client's each of them once.
VectorsFit ==
    /\ \A i \in DOMAIN writes : Drawn(writes[i].gen, writes[i].fd)
    /\ \A i \in DOMAIN chunks : Drawn(chunks[i].gen, chunks[i].fd)
    /\ \A i, j \in DOMAIN chunks : chunks[i].gen = chunks[j].gen => i = j
    /\ \A d \in disk : d[1] \in 1 .. drawn

Under(t) == call[t].cmd = "commit" /\ call[t].phase \notin {"none", "failed"}

GensFit(t) ==
    LET gens == call[t].gens
    IN  Under(t) => \A i, j \in DOMAIN gens : gens[i] = gens[j] => i = j

\* A commit names every chunk of its file, and finds in the vector, or has written,
\* every gen it names.
CommitFits(t) ==
    LET c == call[t]
    IN  /\ Under(t) =>
             \A k \in DOMAIN chunks : chunks[k].fh = thread[t].fh =>
                \E i \in DOMAIN c.gens : c.gens[i] = chunks[k].gen
        /\ c.phase \in Looping =>
             /\ c.i \in 1 .. Len(c.gens) + 1
             /\ \A i \in DOMAIN c.gens :
                  /\ i < c.i => OnDisk(c.gens[i])
                  /\ i > c.i => \E k \in DOMAIN writes : writes[k].gen = c.gens[i]
        /\ c.phase = "loop" /\ c.i \in DOMAIN c.gens =>
             \E k \in DOMAIN writes : writes[k].gen = c.gens[c.i] /\ k >= c.at
        /\ c.phase = "wrote" =>
             /\ c.i \in DOMAIN c.gens /\ OnDisk(c.gens[c.i])
             /\ c.at \in DOMAIN writes /\ writes[c.at].gen = c.gens[c.i]
        /\ Under(t) /\ c.phase = "answered" /\ c.rep = 0 =>
             \A i \in DOMAIN c.gens : OnDisk(c.gens[i])

\* No write that was issued is lost, whether it has returned or not.
NoneLost == \A gen \in 1 .. drawn : OnDisk(gen) \/ Copied(gen)

Copies ==
    /\ VectorsFit
    /\ \A t \in Thread : GensFit(t)
    /\ ~mixed => NoneLost /\ \A t \in Thread : CommitFits(t)

IInv == Types /\ Handles /\ Copies

-----------------------------------------------------------------------------
(* The chunks at some positions of the vector.                              *)

\* The number of a position among those of I, which are the numbers from 1 on.
LEMMA RankFact ==
    ASSUME NEW I \in SUBSET Nat, IsFiniteSet(I)
    PROVE  /\ Cardinality(I) \in Nat
           /\ \A i \in I : Cardinality({j \in I : j <= i}) \in 1 .. Cardinality(I)
           /\ \A i, k \in I :
                Cardinality({j \in I : j <= i}) = Cardinality({j \in I : j <= k}) => i = k
           /\ \A n \in 1 .. Cardinality(I) : \E i \in I : Cardinality({j \in I : j <= i}) = n
<1> DEFINE Upto(i) == {j \in I : j <= i}
           f == [i \in I |-> Cardinality(Upto(i))]
           N == 1 .. Cardinality(I)
<1>1. Cardinality(I) \in Nat
  BY FS_CardinalityType
<1>2. ASSUME NEW i \in I
      PROVE  /\ IsFiniteSet(Upto(i))
             /\ Cardinality(Upto(i)) \in Nat
             /\ Cardinality(Upto(i)) <= Cardinality(I)
             /\ Cardinality(Upto(i)) # 0
  <2>1. Upto(i) \in SUBSET I /\ i \in Upto(i)
    OBVIOUS
  <2>2. IsFiniteSet(Upto(i)) /\ Cardinality(Upto(i)) <= Cardinality(I)
    BY <2>1, FS_Subset
  <2> QED
    BY <2>1, <2>2, FS_CardinalityType, FS_EmptySet
<1>3. ASSUME NEW i \in I, NEW k \in I, i < k
      PROVE  Cardinality(Upto(i)) # Cardinality(Upto(k))
  <2>1. i \in Nat /\ k \in Nat
    OBVIOUS
  <2>2. Upto(i) \in SUBSET Upto(k)
    <3>1. ASSUME NEW j \in I, j <= i
          PROVE  j <= k
      BY <1>3, <2>1, <3>1
    <3> QED
      BY <3>1
  <2>3. k \in Upto(k) /\ k \notin Upto(i)
    BY <1>3, <2>1
  <2> QED
    BY <1>2, <2>2, <2>3, FS_Subset
<1>4. \A i, k \in I : Cardinality(Upto(i)) = Cardinality(Upto(k)) => i = k
  <2> SUFFICES ASSUME NEW i \in I, NEW k \in I, Cardinality(Upto(i)) = Cardinality(Upto(k))
               PROVE  i = k
    OBVIOUS
  <2>1. i \in Nat /\ k \in Nat
    OBVIOUS
  <2>2. ~(i < k) /\ ~(k < i)
    BY <1>3
  <2> QED
    BY <2>1, <2>2
<1>5. \A i \in I : Cardinality(Upto(i)) \in N
  BY <1>1, <1>2
<1>6. f \in Injection(I, N)
  <2>1. f \in [I -> N] /\ \A i, k \in I : f[i] = f[k] => i = k
    BY <1>4, <1>5
  <2> QED
    BY <2>1, Fun_IsInj
<1>7. IsFiniteSet(N) /\ Cardinality(N) = Cardinality(I)
  BY <1>1, FS_Interval
<1>8. f \in Surjection(I, N)
  BY <1>6, <1>7, FS_Injection
<1>9. \A n \in N : \E i \in I : f[i] = n
  <2> HIDE DEF f, N
  <2> QED
    BY <1>8, Fun_SurjectionProperties
<1> QED
  BY <1>1, <1>4, <1>5, <1>9

\* What is picked are the chunks at the positions, each of them once.
LEMMA PickedFact ==
    ASSUME chunks \in Seq(Chunk), NEW I \in SUBSET DOMAIN chunks
    PROVE  /\ Picked(I) \in Seq(Chunk)
           /\ \A n \in DOMAIN Picked(I) : \E i \in I : Picked(I)[n] = chunks[i]
           /\ \A i \in I : \E n \in DOMAIN Picked(I) : Picked(I)[n] = chunks[i]
           /\ (\A i, j \in I : chunks[i].gen = chunks[j].gen => i = j) =>
                \A m, n \in DOMAIN Picked(I) : Picked(I)[m].gen = Picked(I)[n].gen => m = n
<1> DEFINE rank(i) == Cardinality({j \in I : j <= i})
           pos(n) == CHOOSE i \in I : rank(i) = n
           N == 1 .. Cardinality(I)
<1>1. I \in SUBSET Nat /\ IsFiniteSet(I)
  <2>1. DOMAIN chunks = 1 .. Len(chunks) /\ Len(chunks) \in Nat
    OBVIOUS
  <2>2. IsFiniteSet(1 .. Len(chunks))
    BY <2>1, FS_Interval
  <2> QED
    BY <2>1, <2>2, FS_Subset
<1>2. /\ Cardinality(I) \in Nat
      /\ \A i \in I : rank(i) \in N
      /\ \A i, k \in I : rank(i) = rank(k) => i = k
      /\ \A n \in N : \E i \in I : rank(i) = n
  BY <1>1, RankFact
<1>3. \A n \in N : pos(n) \in I /\ rank(pos(n)) = n
  BY <1>2
<1>4. \A i \in I : pos(rank(i)) = i
  BY <1>2, <1>3
<1>5. Picked(I) = [n \in N |-> chunks[pos(n)]]
  BY DEF Picked
<1> HIDE DEF rank, pos
<1>6. Picked(I) \in Seq(Chunk) /\ DOMAIN Picked(I) = N
  BY <1>2, <1>3, <1>5
<1>7. \A m, n \in N : pos(m) = pos(n) => m = n
  BY <1>3
<1> QED
  BY <1>2, <1>3, <1>4, <1>5, <1>6, <1>7
-----------------------------------------------------------------------------
(* Types.                                                                   *)

\* What is left of a vector when one element is erased.
LEMMA RemoveAtFact ==
    ASSUME NEW S, NEW s \in Seq(S), NEW i \in DOMAIN s
    PROVE  /\ RemoveAt(s, i) \in Seq(S)
           /\ \A k \in DOMAIN RemoveAt(s, i) : \E j \in DOMAIN s : RemoveAt(s, i)[k] = s[j]
           /\ \A j \in DOMAIN s \ {i} : \E k \in DOMAIN RemoveAt(s, i) : RemoveAt(s, i)[k] = s[j]
<1> DEFINE n == Len(s)
           a == SubSeq(s, 1, i - 1)
           b == SubSeq(s, i + 1, n)
<1>1. n \in Nat /\ DOMAIN s = 1 .. n /\ i \in 1 .. n /\ i \in Int /\ \A k \in 1 .. n : s[k] \in S
  OBVIOUS
<1> HIDE DEF n
<1>2. /\ a \in Seq(S) /\ Len(a) = i - 1
      /\ \A k \in 1 .. i - 1 : a[k] = s[k]
  <2>1. 1 \in Int /\ i - 1 \in Int /\ \A k \in 1 .. i - 1 : s[k] \in S
    BY <1>1
  <2> QED
    BY <1>1, <2>1, SubSeqProperties
<1>3. /\ b \in Seq(S) /\ Len(b) = n - i
      /\ \A k \in 1 .. n - i : b[k] = s[i + k]
  <2>1. n \in Int /\ i + 1 \in Int /\ \A k \in i + 1 .. n : s[k] \in S
    BY <1>1
  <2>2. /\ b \in Seq(S)
        /\ Len(b) = IF i + 1 <= n THEN n - (i + 1) + 1 ELSE 0
        /\ \A k \in 1 .. n - (i + 1) + 1 : b[k] = s[i + 1 + k - 1]
    BY <2>1, SubSeqProperties
  <2>3. /\ n - (i + 1) + 1 = n - i /\ (~(i + 1 <= n) => n - i = 0)
        /\ \A k \in 1 .. n - i : i + 1 + k - 1 = i + k
    BY <1>1
  <2> QED
    BY <2>2, <2>3
<1>4. RemoveAt(s, i) = a \o b
  BY DEF RemoveAt, n
<1> DEFINE r == a \o b
<1> HIDE DEF a, b
<1>5. /\ r \in Seq(S) /\ Len(r) = n - 1
      /\ \A k \in 1 .. n - 1 : r[k] = IF k <= i - 1 THEN a[k] ELSE b[k - (i - 1)]
  <2>1. Len(a) + Len(b) = n - 1
    BY <1>1, <1>2, <1>3
  <2>2. /\ r \in Seq(S) /\ Len(r) = Len(a) + Len(b)
        /\ \A k \in 1 .. Len(a) + Len(b) : r[k] = IF k <= Len(a) THEN a[k] ELSE b[k - Len(a)]
    BY <1>2, <1>3, ConcatProperties
  <2> HIDE DEF r
  <2> QED
    BY <1>2, <2>1, <2>2
<1> HIDE DEF r
<1>6. \A k \in 1 .. n - 1 : r[k] = IF k < i THEN s[k] ELSE s[k + 1]
  <2> SUFFICES ASSUME NEW k \in 1 .. n - 1
               PROVE  r[k] = IF k < i THEN s[k] ELSE s[k + 1]
    OBVIOUS
  <2>1. CASE k < i
    BY <1>1, <1>2, <1>5, <2>1
  <2>2. CASE ~(k < i)
    <3>1. k - (i - 1) \in 1 .. n - i /\ i + (k - (i - 1)) = k + 1
      BY <1>1, <2>2
    <3>2. b[k - (i - 1)] = s[k + 1]
      BY <1>3, <3>1
    <3> QED
      BY <1>1, <1>5, <2>2, <3>2
  <2> QED
    BY <2>1, <2>2
<1>7. DOMAIN r = 1 .. n - 1
  BY <1>5
<1>8. ASSUME NEW k \in 1 .. n - 1
      PROVE  \E j \in 1 .. n : r[k] = s[j]
  BY <1>1, <1>6
<1>9. ASSUME NEW j \in 1 .. n, j # i
      PROVE  \E k \in 1 .. n - 1 : r[k] = s[j]
  <2>1. CASE j < i
    BY <1>1, <1>6, <2>1
  <2>2. CASE j > i
    <3>1. j - 1 \in 1 .. n - 1 /\ ~(j - 1 < i) /\ j - 1 + 1 = j
      BY <1>1, <2>2
    <3> QED
      BY <1>6, <3>1
  <2> QED
    BY <1>1, <1>9, <2>1, <2>2
<1> QED
  BY <1>1, <1>4, <1>5, <1>7, <1>8, <1>9 DEF r

\* The parent of a path is a path.
LEMMA ParentFact ==
    ASSUME NEW p \in Path
    PROVE  /\ Parent(p) \in Path
           /\ p # Root => Last(p) \in STRING /\ Append(Parent(p), Last(p)) = p
<1>1. CASE p = Root
  BY <1>1, ThreadsAssumption DEF Parent
<1>2. CASE p # Root
  <2>1. p \in Seq(STRING) /\ p # <<>> /\ Front(p) \in Path
    BY <1>2, ThreadsAssumption
  <2>2. Len(p) \in Nat \ {0} /\ Last(p) = p[Len(p)] /\ Front(p) = SubSeq(p, 1, Len(p) - 1)
    BY <2>1 DEF Last, Front
  <2>3. Append(Front(p), Last(p)) = p
    BY <2>1, <2>2
  <2> QED
    BY <1>2, <2>1, <2>2, <2>3 DEF Parent
<1> QED
  BY <1>1, <1>2

LEMMA JoinType ==
    ASSUME NEW p \in Path, NEW name
    PROVE  Join(p, name) \in Path
BY ThreadsAssumption DEF Join

LEMMA InitTypes == Init => Types
<1> SUFFICES ASSUME Init PROVE Types
  OBVIOUS
<1>1. NewTable \in Table /\ NewTable.fhcount = 1
  BY NewTableType DEF NewTable
<1>2. MaxFh \in Nat /\ MaxFh >= 1 /\ Root \in Path
  <2>1. IsFiniteSet(Path) /\ Path # {} /\ Cardinality(Path) <= MaxFh
    BY PathAssumption, ThreadsAssumption
  <2>2. Cardinality(Path) \in Nat /\ Cardinality(Path) # 0
    BY <2>1, FS_CardinalityType, FS_EmptySet
  <2> QED
    BY <2>1, <2>2, PathAssumption, MaxFhAssumption
<1>3. IdleThread \in ThreadRecord
  BY <1>2 DEF IdleThread, ThreadRecord, Fh
<1>4. NoCall \in CallRecord
  BY <1>2 DEF NoCall, CallRecord, Fh
<1>5. ServerType
  BY <1>1, <1>2 DEF Init, ServerType
<1>6. ClientType
  BY <1>2, <1>3 DEF Init, ClientType, PathMap, Fh, NoFh
<1>7. RestType
  BY <1>4 DEF Init, RestType
<1> QED
  BY <1>5, <1>6, <1>7 DEF Types

\* There is a handle left for every path: what was numbered are different paths.
LEMMA CountFact ==
    ASSUME IInv, NEW t \in Thread, Phase(t, "count")
    PROVE  table.fhcount + 1 \in 1 .. MaxFh
<1> DEFINE n == table.fhcount
           p == Head(thread[t].looks)
           f == [h \in 0 .. n |-> table.fhToPath[h]]
<1>1. n \in 1 .. MaxFh /\ MaxFh \in Nat
  BY MaxFhAssumption DEF IInv, Types, ServerType
<1>2. table.pathToFh[p] = n /\ table.fhToPath[n] = p /\ call[t].path = p /\ call[t].path \in Path
  <2>1. LookupFits(t) /\ CallFits(t)
    BY DEF Phase, Over, IInv, Handles
  <2>2. call[t].cmd = "lookup" /\ call[t].path \in Path
    BY <2>1 DEF Phase, CallFits, Adding, IInv, Types, RestType, CallRecord
  <2> QED
    BY <2>1, <2>2 DEF Phase, LookupFits, Adding
<1>3. \A h \in 0 .. n : table.fhToPath[h] \in Path /\ table.pathToFh[table.fhToPath[h]] = h
  BY <1>1, <1>2 DEF IInv, Handles, TableFits, HandleOf
<1>4. f \in [0 .. n -> Path] /\ \A h, k \in 0 .. n : f[h] = f[k] => h = k
  BY <1>3
<1>5. f \in Injection(0 .. n, Path)
  <2> HIDE DEF f
  <2> QED
    BY <1>4, Fun_IsInj
<1>6. Cardinality(0 .. n) <= Cardinality(Path)
  <2> HIDE DEF f
  <2> QED
    BY <1>5, FS_Injection, ThreadsAssumption
<1>7. Cardinality(0 .. n) = n + 1
  BY <1>1, FS_Interval
<1>8. Cardinality(Path) \in Nat /\ Cardinality(Path) <= MaxFh
  BY FS_CardinalityType, ThreadsAssumption
<1> QED
  BY <1>1, <1>6, <1>7, <1>8

\* The handlers of the server.
LEMMA ServeTypes ==
    ASSUME IInv, NEW t \in Thread, Serve(t) \/ Lose(t)
    PROVE  Types'
<1> USE DEF IInv, Types
<1> DEFINE c == call[t]
<1>0. /\ c \in CallRecord /\ c.fh \in Fh /\ c.path \in Path /\ c.gen \in Nat /\ c.fd \in Nat
      /\ c.i \in Nat /\ c.at \in Nat
      /\ table.pathToFh \in PathMap /\ table.fhToPath \in FhMap /\ table.fhcount \in 1 .. MaxFh
  BY DEF RestType, CallRecord, ServerType, Table
<1>1. ASSUME NEW d \in CallRecord, call' = [call EXCEPT ![t] = d], UNCHANGED lost,
             wild' \in BOOLEAN, mixed' \in BOOLEAN, crossed' \in BOOLEAN
      PROVE  RestType'
  BY <1>1 DEF RestType
<1>2. ASSUME UNCHANGED clientVars
      PROVE  ClientType'
  BY <1>2 DEF ClientType, clientVars
<1>3. ASSUME UNCHANGED serverVars
      PROVE  ServerType'
  BY <1>3 DEF ServerType, serverVars
<1>4. wild \in BOOLEAN /\ mixed \in BOOLEAN /\ crossed \in BOOLEAN
  BY DEF RestType
<1>5. ASSUME NEW h \in Fh, Known(table, h)
      PROVE  table.fhToPath[h] \in Path
  BY <1>0, <1>5 DEF Known, FhMap
<1>6. CASE ServeLookup(t)
  <2> DEFINE p == Join(PathFound(t), c.name)
             d == [c EXCEPT !.path = p, !.phase = IF Mapped(table, p) THEN "read" ELSE "number"]
  <2>1. p \in Path
    BY <1>0, <1>5, <1>6, JoinType DEF ServeLookup, Find, PathFound
  <2>2. d \in CallRecord
    BY <1>0, <2>1 DEF CallRecord
  <2>3. call' = [call EXCEPT ![t] = d]
    BY <1>6 DEF ServeLookup, RestType
  <2>4. crossed' \in BOOLEAN /\ UNCHANGED <<serverVars, clientVars, lost, wild, mixed>>
    BY <1>4, <1>6 DEF ServeLookup
  <2> HIDE DEF d
  <2> QED
    BY <1>1, <1>2, <1>3, <1>4, <2>2, <2>3, <2>4
<1>7. CASE AddNumber(t)
  <2>1. c.path \in Path /\ table.fhcount \in Fh
    BY <1>0, MaxFhAssumption DEF Fh
  <2>2. table' \in Table /\ table'.fhcount = table.fhcount
    BY <1>0, <1>7, <2>1 DEF AddNumber, Table, PathMap, ServerType
  <2>3. ServerType'
    BY <1>0, <1>7, <2>2 DEF AddNumber, AddStep, ServerType
  <2>4. call' = [call EXCEPT ![t] = [c EXCEPT !.phase = "path"]] /\ [c EXCEPT !.phase = "path"] \in CallRecord
    BY <1>0, <1>7 DEF AddNumber, AddStep, Goes, RestType, CallRecord
  <2> QED
    BY <1>1, <1>2, <1>4, <1>7, <2>3, <2>4 DEF AddNumber, AddStep
<1>8. CASE AddPath(t)
  <2>1. c.path \in Path /\ table.fhcount \in Fh
    BY <1>0, MaxFhAssumption DEF Fh
  <2>2. table' \in Table /\ table'.fhcount = table.fhcount
    BY <1>0, <1>8, <2>1 DEF AddPath, Table, FhMap, ServerType
  <2>3. ServerType'
    BY <1>0, <1>8, <2>2 DEF AddPath, AddStep, ServerType
  <2>4. call' = [call EXCEPT ![t] = [c EXCEPT !.phase = "count"]] /\ [c EXCEPT !.phase = "count"] \in CallRecord
    BY <1>0, <1>8 DEF AddPath, AddStep, Goes, RestType, CallRecord
  <2> QED
    BY <1>1, <1>2, <1>4, <1>8, <2>3, <2>4 DEF AddPath, AddStep
<1>9. CASE AddCount(t)
  <2>1. table.fhcount + 1 \in 1 .. MaxFh
    BY <1>9, CountFact DEF AddCount, AddStep
  <2>2. table' \in Table /\ table'.fhcount = table.fhcount + 1
    BY <1>0, <1>9, <2>1 DEF AddCount, Table, ServerType
  <2>3. ServerType'
    BY <1>0, <1>9, <2>1, <2>2 DEF AddCount, AddStep, ServerType
  <2>4. call' = [call EXCEPT ![t] = [c EXCEPT !.phase = "read"]] /\ [c EXCEPT !.phase = "read"] \in CallRecord
    BY <1>0, <1>9 DEF AddCount, AddStep, Goes, RestType, CallRecord
  <2> QED
    BY <1>1, <1>2, <1>4, <1>9, <2>3, <2>4 DEF AddCount, AddStep
<1>10. ASSUME NEW rep \in Int, Answer(t, rep)
       PROVE  \E d \in CallRecord : call' = [call EXCEPT ![t] = d]
  <2>1. call' = [call EXCEPT ![t] = [c EXCEPT !.phase = "answered", !.rep = rep]]
    BY <1>10 DEF Answer, RestType
  <2>2. [c EXCEPT !.phase = "answered", !.rep = rep] \in CallRecord
    BY <1>0, <1>10 DEF CallRecord
  <2> QED
    BY <2>1, <2>2
<1>11. CASE ReadHandle(t)
  <2>1. table.pathToFh[c.path] \in Int
    BY <1>0 DEF PathMap, Fh, NoFh
  <2> QED
    BY <1>1, <1>2, <1>3, <1>4, <1>10, <1>11, <2>1 DEF ReadHandle
<1>12. CASE ServeOpen(t)
  <2>1. fds \in Seq(Files) /\ Len(fds) + 1 \in Int
    BY DEF ServerType
  <2>2. fds' \in Seq(Files) /\ \E rep \in Int : Answer(t, rep)
    BY <1>12, <2>1 DEF ServeOpen
  <2>3. ServerType'
    BY <1>12, <2>2 DEF ServeOpen, ServerType
  <2> QED
    BY <1>1, <1>2, <1>4, <1>10, <1>12, <2>2, <2>3 DEF ServeOpen
<1>13. CASE ServeWrite(t)
  <2>1. [fh |-> c.fh, gen |-> c.gen, fd |-> c.fd] \in Chunk
    BY <1>0 DEF Chunk
  <2>2. writes' \in Seq(Chunk)
    BY <1>13, <2>1 DEF ServeWrite, ServerType
  <2>3. ServerType'
    BY <1>13, <2>2 DEF ServeWrite, ServerType
  <2>4. wild' \in BOOLEAN
    BY <1>13 DEF ServeWrite
  <2>5. \E d \in CallRecord : call' = [call EXCEPT ![t] = d]
    BY <1>10, <1>13 DEF ServeWrite
  <2> QED
    BY <1>1, <1>2, <1>4, <1>13, <2>3, <2>4, <2>5 DEF ServeWrite
<1>14. CASE ServeRelease(t)
  <2>1. \E d \in CallRecord : call' = [call EXCEPT ![t] = d]
    BY <1>10, <1>14 DEF ServeRelease
  <2> QED
    BY <1>1, <1>2, <1>3, <1>4, <1>14, <2>1 DEF ServeRelease
<1>15. CASE ServeCommit(t)
  <2> DEFINE d == [c EXCEPT !.phase = "loop", !.i = 1, !.at = 1]
  <2>1. d \in CallRecord
    BY <1>0 DEF CallRecord
  <2>2. \E f \in CallRecord : call' = [call EXCEPT ![t] = f]
    <3>1. Answer(t, 1) \/ call' = [call EXCEPT ![t] = d]
      BY <1>15 DEF ServeCommit, RestType
    <3> HIDE DEF d
    <3> QED
      BY <1>10, <2>1, <3>1
  <2> QED
    BY <1>1, <1>2, <1>3, <1>4, <1>15, <2>2 DEF ServeCommit
<1>16. CASE CommitScan(t)
  <2> DEFINE d == [c EXCEPT !.i = IF c.at > Len(writes) THEN @ + 1 ELSE @,
                            !.at = IF c.at > Len(writes) THEN 1 ELSE @ + 1]
             e == [c EXCEPT !.phase = "wrote"]
             hit == c.at \in DOMAIN writes /\ writes[c.at].gen = c.gens[c.i]
  <2>1. d \in CallRecord /\ e \in CallRecord
    <3>1. c.i + 1 \in Nat /\ c.at + 1 \in Nat
      BY <1>0
    <3> QED
      BY <1>0, <3>1 DEF CallRecord
  <2>2. disk' \subseteq Nat \X Files
    <3>1. CASE ~(UNCHANGED disk)
      <4>1. hit /\ disk' = disk \cup {<<writes[c.at].gen, fds[writes[c.at].fd]>>}
        BY <1>16, <3>1 DEF CommitScan
      <4>2. writes[c.at] \in Chunk /\ writes[c.at].fd \in DOMAIN fds
        BY <4>1 DEF ServerType, Copies, VectorsFit, Drawn
      <4>3. <<writes[c.at].gen, fds[writes[c.at].fd]>> \in Nat \X Files
        BY <4>2 DEF Chunk, ServerType
      <4> QED
        BY <4>1, <4>3 DEF ServerType
    <3> QED
      BY <3>1 DEF ServerType
  <2>3. ServerType'
    BY <1>16, <2>2 DEF CommitScan, ServerType
  <2>4. \E f \in CallRecord : call' = [call EXCEPT ![t] = f]
    <3>1. Answer(t, 0) \/ call' = [call EXCEPT ![t] = d] \/ call' = [call EXCEPT ![t] = e]
      BY <1>16 DEF CommitScan, Goes, RestType
    <3> HIDE DEF d, e
    <3> QED
      BY <1>10, <2>1, <3>1
  <2>5. wild' \in BOOLEAN
    BY <1>16 DEF CommitScan
  <2> QED
    BY <1>1, <1>2, <1>4, <1>16, <2>3, <2>4, <2>5 DEF CommitScan
<1>17. CASE CommitErase(t)
  <2>1. writes' \in Seq(Chunk)
    BY <1>17, RemoveAtFact DEF CommitErase, ServerType
  <2>2. ServerType'
    BY <1>17, <2>1 DEF CommitErase, ServerType
  <2>3. [c EXCEPT !.phase = "loop", !.i = @ + 1, !.at = 1] \in CallRecord
    <3>1. c.i + 1 \in Nat
      BY <1>0
    <3> QED
      BY <1>0, <3>1 DEF CallRecord
  <2>4. \E f \in CallRecord : call' = [call EXCEPT ![t] = f]
    BY <1>17, <2>3 DEF CommitErase, RestType
  <2>5. wild' \in BOOLEAN /\ mixed' \in BOOLEAN
    BY <1>4, <1>17 DEF CommitErase
  <2> QED
    BY <1>1, <1>2, <1>4, <1>17, <2>2, <2>4, <2>5 DEF CommitErase
<1>18. CASE Lose(t)
  <2>1. [c EXCEPT !.phase = "failed"] \in CallRecord
    BY <1>0 DEF CallRecord
  <2>2. call' = [call EXCEPT ![t] = [c EXCEPT !.phase = "failed"]]
    BY <1>18 DEF Lose, Goes, RestType
  <2> QED
    BY <1>2, <1>3, <1>18, <2>1, <2>2 DEF Lose, RestType
<1> QED
  BY <1>6, <1>7, <1>8, <1>9, <1>11, <1>12, <1>13, <1>14, <1>15, <1>16, <1>17, <1>18 DEF Serve

LEMMA RecordTypes ==
    ASSUME Types
    PROVE  IdleThread \in ThreadRecord /\ NoCall \in CallRecord /\ Root \in Path /\ 0 \in Fh
BY PathAssumption, MaxFhAssumption
DEF Types, ClientType, IdleThread, ThreadRecord, NoCall, CallRecord, Fh

\* A lookup starts, and a function that failed starts over, from a proper record.
LEMMA LookingUpType ==
    ASSUME NEW r \in ThreadRecord, NEW pc \in {"open", "push", "collect", "close"}
    PROVE  LookingUp(r, pc) \in ThreadRecord
<1>1. r.path \in Path /\ <<r.path>> \in Seq(Path)
  BY DEF ThreadRecord
<1> QED
  BY <1>1 DEF LookingUp, ThreadRecord

LEMMA RestartedType ==
    ASSUME NEW r \in ThreadRecord
    PROVE  Restarted(r) \in ThreadRecord
<1> DEFINE again == [r EXCEPT !.again = "no"]
<1>1. again \in ThreadRecord
  BY DEF ThreadRecord
<1>2. [again EXCEPT !.look = "find"] \in ThreadRecord /\ [again EXCEPT !.pc = "collect"] \in ThreadRecord
  BY DEF ThreadRecord
<1>3. LookingUp(again, "open") \in ThreadRecord /\ LookingUp(again, "collect") \in ThreadRecord
  <2> HIDE DEF again
  <2> QED
    BY <1>1, LookingUpType
<1> QED
  BY <1>1, <1>2, <1>3 DEF Restarted

\* The gens of some chunks.
LEMMA GensType ==
    ASSUME NEW s \in Seq(Chunk)
    PROVE  [i \in DOMAIN s |-> s[i].gen] \in Seq(Nat)
<1>1. DOMAIN s = 1 .. Len(s) /\ Len(s) \in Nat /\ \A i \in 1 .. Len(s) : s[i].gen \in Nat
  <2>1. DOMAIN s = 1 .. Len(s) /\ Len(s) \in Nat /\ \A i \in 1 .. Len(s) : s[i] \in Chunk
    OBVIOUS
  <2> QED
    BY <2>1 DEF Chunk
<1>2. [i \in DOMAIN s |-> s[i].gen] \in [1 .. Len(s) -> Nat]
  BY <1>1
<1> QED
  BY <1>1, <1>2, SeqDef

\* The steps of the client.
LEMMA StepTypes ==
    ASSUME IInv, NEW t \in Thread, Ask(t) \/ Step(t)
    PROVE  Types'
<1> USE DEF IInv, Types
<1> DEFINE r == thread[t]
           c == call[t]
           Threads == [Thread -> ThreadRecord]
<1>0. /\ r \in ThreadRecord /\ r.path \in Path /\ r.looks \in Seq(Path) /\ r.fh \in Fh
      /\ r.copy \in Seq(Chunk) /\ r.at \in Nat /\ r.upto \in Nat
      /\ c \in CallRecord /\ c.rep \in Int /\ c.fh \in Fh
      /\ opened[t].path \in Path /\ opened[t].fd \in Nat
      /\ \A p \in Path : pathtofh[p] \in Fh \cup {NoFh}
  BY DEF ClientType, RestType, ThreadRecord, CallRecord, PathMap
<1>1. ASSUME NEW d \in ThreadRecord, Becomes(t, d)
      PROVE  thread' \in Threads
  BY <1>1 DEF Becomes, ClientType
<1>2. ASSUME NEW d \in CallRecord, Send(t, d)
      PROVE  call' \in [Thread -> CallRecord]
  BY <1>2 DEF Send, RestType
<1>3. ASSUME Clear(t)
      PROVE  call' \in [Thread -> CallRecord]
  BY <1>2, <1>3, RecordTypes DEF Clear
<1>4. ASSUME UNCHANGED serverVars
      PROVE  ServerType'
  BY <1>4 DEF ServerType, serverVars
<1>5. NoCall \in CallRecord /\ IdleThread \in ThreadRecord /\ Root \in Path /\ 0 \in Fh
  BY RecordTypes
<1>6. wild \in BOOLEAN /\ mixed \in BOOLEAN /\ crossed \in BOOLEAN
  BY DEF RestType
<1>7. ASSUME r.looks # <<>>
      PROVE  Head(r.looks) \in Path /\ Tail(r.looks) \in Seq(Path)
  BY <1>0, <1>7
<1>8. ASSUME thread' \in Threads, call' \in [Thread -> CallRecord],
             UNCHANGED <<load, serverVars, pathtofh, renewed, chunks, opened, asks, drawn, acked,
                         lost, mixed, crossed>>, wild' \in BOOLEAN
      PROVE  Types'
  BY <1>4, <1>8 DEF ServerType, ClientType, RestType
<1>9. UNCHANGED call => call' \in [Thread -> CallRecord]
  BY DEF RestType
<1>10. UNCHANGED thread => thread' \in Threads
  BY DEF ClientType
<1>11. CASE Ask(t)
  <2>1. PICK d : Becomes(t, d) /\ d \in ThreadRecord
    <3>1. ASSUME NEW cb \in {"open", "write", "release"}, NEW p \in Path,
                 NEW pc \in {"open", "push", "collect", "close"}
          PROVE  LookingUp([IdleThread EXCEPT !.cb = cb, !.path = p], pc) \in ThreadRecord
      <4>1. [IdleThread EXCEPT !.cb = cb, !.path = p] \in ThreadRecord
        BY <1>5 DEF ThreadRecord
      <4> QED
        BY <4>1, LookingUpType
    <3>2. \A q \in load.uses[t] : q \in Path
      BY ThreadsAssumption DEF ClientType
    <3> QED
      BY <1>0, <1>11, <3>1, <3>2 DEF Ask
  <2>2. asks' \in [Thread -> Nat]
    <3>1. asks[t] + 1 \in Nat
      BY DEF ClientType
    <3> QED
      BY <1>11, <3>1 DEF Ask, ClientType
  <2> QED
    BY <1>1, <1>4, <1>11, <2>1, <2>2 DEF Ask, ClientType, RestType
<1>12. CASE LookupFind(t)
  <2> DEFINE p == Head(r.looks)
             d == [r EXCEPT !.look = "get"]
             e == [r EXCEPT !.looks = <<Parent(p)>> \o @]
  <2>1. d \in ThreadRecord /\ e \in ThreadRecord
    <3>1. Parent(p) \in Path
      BY <1>7, <1>12, ParentFact DEF LookupFind, Looks
    <3>2. <<Parent(p)>> \o r.looks \in Seq(Path)
      BY <1>0, <3>1
    <3> QED
      BY <1>0, <3>2 DEF ThreadRecord
  <2>2. Becomes(t, d) \/ Becomes(t, e)
    BY <1>12 DEF LookupFind
  <2>3. thread' \in Threads
    <3> HIDE DEF d, e
    <3> QED
      BY <1>1, <2>1, <2>2
  <2> QED
    BY <1>6, <1>8, <1>9, <1>12, <2>3 DEF LookupFind
<1>13. CASE LookupGet(t)
  <2> DEFINE h == pathtofh[Head(r.looks)]
             d == [r EXCEPT !.looks = Tail(@), !.look = "send", !.fh = h]
  <2>1. h \in Fh
    <3>1. LooksFit(t) /\ CallFits(t)
      BY <1>13 DEF LookupGet, Looks, Running, Over, Handles
    <3> QED
      BY <1>0, <1>7, <1>13, <3>1 DEF LookupGet, Looks, Running, LooksFit
  <2>2. d \in ThreadRecord
    BY <1>0, <1>7, <1>13, <2>1 DEF LookupGet, Looks, ThreadRecord
  <2>3. thread' \in Threads
    <3>1. Becomes(t, d)
      BY <1>13 DEF LookupGet
    <3> HIDE DEF d
    <3> QED
      BY <1>1, <2>2, <3>1
  <2> QED
    BY <1>6, <1>8, <1>9, <1>13, <2>3 DEF LookupGet
<1>14. CASE LookupSend(t)
  <2> DEFINE p == Head(r.looks)
             h == pathtofh[Parent(p)]
             d == [NoCall EXCEPT !.phase = "sent", !.cmd = "lookup", !.fh = h, !.name = Last(p)]
  <2>1. p \in Path /\ p # Root /\ Parent(p) \in Path /\ Last(p) \in STRING
    <3>1. StackFits(t)
      BY DEF Handles
    <3> QED
      BY <1>7, <1>14, <3>1, ParentFact DEF LookupSend, Looks, StackFits
  <2>2. h \in Fh
    <3>1. LooksFit(t)
      BY <1>14 DEF LookupSend, Looks, Running, Over, Handles
    <3> QED
      BY <1>0, <1>14, <2>1, <3>1 DEF LookupSend, Looks, Running, LooksFit
  <2>3. d \in CallRecord
    BY <1>5, <2>1, <2>2 DEF CallRecord
  <2>4. Send(t, d)
    BY <1>14 DEF LookupSend
  <2>5. call' \in [Thread -> CallRecord]
    <3> HIDE DEF d
    <3> QED
      BY <1>2, <2>3, <2>4
  <2> QED
    BY <1>6, <1>8, <1>10, <1>14, <2>5 DEF LookupSend, clientVars
<1>15. CASE GotHandle(t)
  <2>1. Head(r.looks) \in Path /\ c.rep \in Fh
    <3>1. CallFits(t) /\ LookupFits(t)
      BY <1>15 DEF GotHandle, Answered, Phase, Over, Handles
    <3>2. r.looks # <<>> /\ HandleOf(c.rep, Head(r.looks))
      BY <1>15, <3>1 DEF GotHandle, Answered, Phase, CallFits, LookupFits
    <3>3. table.fhcount \in 1 .. MaxFh
      BY DEF ServerType
    <3> QED
      BY <1>7, <3>2, <3>3, MaxFhAssumption DEF HandleOf, Fh
  <2>2. pathtofh' \in PathMap
    BY <1>15, <2>1 DEF GotHandle, ClientType, PathMap
  <2>3. thread' \in Threads
    <3>1. [r EXCEPT !.look = "get"] \in ThreadRecord
      BY <1>0 DEF ThreadRecord
    <3> QED
      BY <1>1, <1>15, <3>1 DEF GotHandle
  <2>4. call' \in [Thread -> CallRecord]
    BY <1>3, <1>15 DEF GotHandle, Answered
  <2> QED
    BY <1>4, <1>15, <2>2, <2>3, <2>4 DEF GotHandle, ClientType, RestType
<1>16. CASE SendOpen(t)
  <2>1. [NoCall EXCEPT !.phase = "sent", !.cmd = "open", !.fh = r.fh] \in CallRecord
    BY <1>0, <1>5 DEF CallRecord
  <2>2. call' \in [Thread -> CallRecord]
    BY <1>2, <1>16, <2>1 DEF SendOpen
  <2> QED
    BY <1>6, <1>8, <1>10, <1>16, <2>2 DEF SendOpen, clientVars
<1>17. CASE GotOpen(t)
  <2>1. c.rep # -1 => c.rep \in Nat
    <3>1. CallFits(t) /\ DOMAIN fds \subseteq Nat
      BY DEF Handles, ServerType
    <3> QED
      BY <1>17, <3>1 DEF GotOpen, Answered, Phase, CallFits
  <2>2. opened' \in [Thread -> [path : Path, fd : Nat]]
    BY <1>0, <1>17, <2>1 DEF GotOpen, ClientType
  <2>3. thread' \in Threads /\ call' \in [Thread -> CallRecord]
    BY <1>1, <1>3, <1>5, <1>17 DEF GotOpen, Answered
  <2> QED
    BY <1>4, <1>17, <2>2, <2>3 DEF GotOpen, ClientType, RestType
<1>18. CASE Push(t)
  <2> DEFINE k == [fh |-> r.fh, gen |-> drawn + 1, fd |-> opened[t].fd]
             d == [r EXCEPT !.copy = <<k>>, !.pc = "send"]
  <2>1. drawn \in Nat /\ drawn' = drawn + 1
    BY <1>18 DEF Push, ClientType
  <2>2. k \in Chunk
    BY <1>0, <2>1 DEF Chunk
  <2>3. chunks' \in Seq(Chunk)
    BY <1>18, <2>2 DEF Push, ClientType
  <2>4. d \in ThreadRecord
    <3>1. <<k>> \in Seq(Chunk)
      BY <2>2
    <3> QED
      BY <1>0, <3>1 DEF ThreadRecord
  <2>5. thread' \in Threads
    <3>1. Becomes(t, d)
      BY <1>18 DEF Push
    <3> HIDE DEF d
    <3> QED
      BY <1>1, <2>4, <3>1
  <2>6. acked' \subseteq 1 .. drawn'
    BY <1>18, <2>1 DEF Push, ClientType
  <2>7. wild' \in BOOLEAN /\ mixed' \in BOOLEAN
    BY <1>6, <1>18 DEF Push
  <2> QED
    BY <1>4, <1>18, <2>1, <2>3, <2>5, <2>6, <2>7 DEF Push, ClientType, RestType
<1>19. CASE SendWrite(t)
  <2> DEFINE k == r.copy[1]
             d == [NoCall EXCEPT !.phase = "sent", !.cmd = "write", !.fh = k.fh, !.gen = k.gen,
                                 !.fd = k.fd]
  <2>1. k \in Chunk
    <3>1. CopyFits(t)
      BY DEF Handles
    <3> QED
      BY <1>0, <1>19, <3>1 DEF SendWrite, At, CopyFits
  <2>2. d \in CallRecord
    BY <1>5, <2>1 DEF Chunk, CallRecord
  <2>3. call' \in [Thread -> CallRecord]
    <3>1. Send(t, d)
      BY <1>19 DEF SendWrite
    <3> HIDE DEF d
    <3> QED
      BY <1>2, <2>2, <3>1
  <2> QED
    BY <1>6, <1>8, <1>10, <1>19, <2>3 DEF SendWrite, clientVars
<1>20. CASE GotWrite(t)
  <2> DEFINE d == [r EXCEPT !.pc = "resend", !.at = @ + 1, !.copy = <<>>]
  <2>1. d \in ThreadRecord
    <3>1. r.at + 1 \in Nat /\ <<>> \in Seq(Chunk)
      BY <1>0
    <3> QED
      BY <1>0, <3>1 DEF ThreadRecord
  <2>2. thread' \in Threads
    <3>1. Becomes(t, IdleThread) \/ Becomes(t, d)
      BY <1>20 DEF GotWrite
    <3> HIDE DEF d
    <3> QED
      BY <1>1, <1>5, <2>1, <3>1
  <2>3. call' \in [Thread -> CallRecord]
    BY <1>3, <1>20 DEF GotWrite, Answered
  <2>4. acked' \subseteq 1 .. drawn
    <3>1. CopyFits(t)
      BY DEF Handles
    <3>2. r.pc = "send" => r.copy[1].gen \in 1 .. drawn
      BY <3>1 DEF CopyFits, Drawn
    <3> QED
      BY <1>20, <3>2 DEF GotWrite, ClientType
  <2> QED
    BY <1>4, <1>20, <2>2, <2>3, <2>4 DEF GotWrite, ClientType, RestType
<1>21. CASE Collect(t)
  <2> DEFINE gens == [i \in DOMAIN Dirty(t) |-> Dirty(t)[i].gen]
             d == [NoCall EXCEPT !.phase = "sent", !.cmd = "commit", !.fh = r.fh, !.gens = gens]
  <2>1. Dirty(t) \in Seq(Chunk)
    BY PickedFact DEF Dirty, ClientType
  <2>2. gens \in Seq(Nat)
    BY <2>1, GensType
  <2>3. d \in CallRecord
    <3> HIDE DEF gens
    <3> QED
      BY <1>0, <1>5, <2>2 DEF CallRecord
  <2>4. call' \in [Thread -> CallRecord]
    <3>1. UNCHANGED call \/ Send(t, d)
      BY <1>21 DEF Collect
    <3> HIDE DEF d
    <3> QED
      BY <1>2, <1>9, <2>3, <3>1
  <2>5. thread' \in Threads
    <3>1. [r EXCEPT !.pc = "committing"] \in ThreadRecord
      BY <1>0 DEF ThreadRecord
    <3> QED
      BY <1>0, <1>1, <1>21, <3>1, LookingUpType DEF Collect
  <2> QED
    BY <1>6, <1>8, <1>21, <2>4, <2>5 DEF Collect
<1>22. CASE GotCommit(t)
  <2>1. chunks' \in Seq(Chunk)
    BY <1>22, PickedFact DEF GotCommit, Kept, ClientType
  <2>2. Missing(r) \in ThreadRecord
    <3>1. Len(chunks) \in Nat
      BY DEF ClientType
    <3> QED
      BY <1>0, <3>1 DEF Missing, ThreadRecord
  <2>3. thread' \in Threads
    BY <1>0, <1>1, <1>22, <2>2, LookingUpType DEF GotCommit
  <2>4. call' \in [Thread -> CallRecord]
    BY <1>3, <1>22 DEF GotCommit, Answered
  <2> QED
    BY <1>4, <1>22, <2>1, <2>3, <2>4 DEF GotCommit, ClientType, RestType
<1>23. CASE Resend(t)
  <2> DEFINE d == [r EXCEPT !.pc = "resending", !.copy = <<chunks[r.at]>>]
  <2>1. [r EXCEPT !.pc = "collect"] \in ThreadRecord
    BY <1>0 DEF ThreadRecord
  <2>2. r.at \in DOMAIN chunks => d \in ThreadRecord
    <3>1. r.at \in DOMAIN chunks => <<chunks[r.at]>> \in Seq(Chunk)
      BY DEF ClientType
    <3> QED
      BY <1>0, <3>1 DEF ThreadRecord
  <2>3. thread' \in Threads /\ wild' \in BOOLEAN
    <3>1. \/ Becomes(t, [r EXCEPT !.pc = "collect"]) /\ UNCHANGED wild
          \/ UNCHANGED thread /\ wild' = TRUE
          \/ r.at \in DOMAIN chunks /\ Becomes(t, d) /\ UNCHANGED wild
      BY <1>23 DEF Resend
    <3> HIDE DEF d
    <3> QED
      BY <1>1, <1>6, <1>10, <2>1, <2>2, <3>1
  <2> QED
    BY <1>8, <1>9, <1>23, <2>3 DEF Resend
<1>24. CASE SendRelease(t)
  <2>1. [NoCall EXCEPT !.phase = "sent", !.cmd = "release", !.fh = r.fh, !.fd = opened[t].fd]
          \in CallRecord
    BY <1>0, <1>5 DEF CallRecord
  <2>2. call' \in [Thread -> CallRecord]
    BY <1>2, <1>24, <2>1 DEF SendRelease
  <2> QED
    BY <1>6, <1>8, <1>10, <1>24, <2>2 DEF SendRelease, clientVars
<1>25. CASE GotRelease(t)
  <2>1. opened' \in [Thread -> [path : Path, fd : Nat]]
    BY <1>5, <1>25 DEF GotRelease, ClientType
  <2>2. thread' \in Threads /\ call' \in [Thread -> CallRecord]
    BY <1>1, <1>3, <1>5, <1>25 DEF GotRelease, Answered
  <2> QED
    BY <1>4, <1>25, <2>1, <2>2 DEF GotRelease, ClientType, RestType
<1>26. CASE Failed(t)
  <2>1. [r EXCEPT !.again = "sleep"] \in ThreadRecord
    BY <1>0 DEF ThreadRecord
  <2>2. thread' \in Threads /\ call' \in [Thread -> CallRecord]
    BY <1>1, <1>3, <1>26, <2>1 DEF Failed
  <2> QED
    BY <1>4, <1>26, <2>2 DEF Failed, ClientType, RestType
<1>27. CASE Wake(t)
  <2>1. [r EXCEPT !.again = "reconnect"] \in ThreadRecord /\ Restarted(r) \in ThreadRecord
    BY <1>0, RestartedType DEF ThreadRecord
  <2>2. thread' \in Threads
    BY <1>1, <1>27, <2>1 DEF Wake
  <2>3. pathtofh' \in PathMap /\ crossed' \in BOOLEAN
    BY <1>5, <1>6, <1>27 DEF Wake, ClientType, PathMap
  <2> QED
    BY <1>4, <1>9, <1>27, <2>2, <2>3 DEF Wake, ClientType, RestType
<1>28. CASE Reconnect(t)
  <2>1. thread' \in Threads
    BY <1>0, <1>1, <1>28, RestartedType DEF Reconnect
  <2> QED
    BY <1>4, <1>9, <1>28, <2>1 DEF Reconnect, ClientType, RestType
<1> QED
  BY <1>11, <1>12, <1>13, <1>14, <1>15, <1>16, <1>17, <1>18, <1>19, <1>20, <1>21, <1>22, <1>23,
     <1>24, <1>25, <1>26, <1>27, <1>28 DEF Step
-----------------------------------------------------------------------------
(* Handles.                                                                 *)

\* What no step takes back: a handle, a descriptor, a gen.
Grows ==
    /\ \A h, p : HandleOf(h, p) => HandleOf(h, p)'
    /\ \A d \in DOMAIN fds : d \in DOMAIN fds' /\ fds'[d] = fds[d]
    /\ drawn \in Nat /\ drawn' \in Nat /\ drawn <= drawn'

Unmoved(u) == UNCHANGED <<thread[u], call[u], opened[u]>>

LEMMA DrawnKept ==
    ASSUME Grows, NEW gen, NEW fd, Drawn(gen, fd)
    PROVE  Drawn(gen, fd)'
BY DEF Grows, Drawn

LEMMA ThreadKept ==
    ASSUME Grows, NEW u, UNCHANGED <<thread[u], opened[u]>>,
           StackFits(u), FhFits(u), OpenedFits(u), CopyFits(u)
    PROVE  StackFits(u)' /\ FhFits(u)' /\ OpenedFits(u)' /\ CopyFits(u)'
<1>1. StackFits(u)'
  BY DEF StackFits
<1>2. FhFits(u)'
  BY DEF FhFits, Grows
<1>3. OpenedFits(u)'
  BY DEF OpenedFits, Grows
<1>4. CopyFits(u)'
  BY DrawnKept DEF CopyFits
<1> QED
  BY <1>1, <1>2, <1>3, <1>4

LEMMA CallKept ==
    ASSUME Grows, NEW u, UNCHANGED <<thread[u], call[u]>>, CallFits(u)
    PROVE  CallFits(u)'
<1>1. Drawn(call[u].gen, call[u].fd) => Drawn(call[u].gen, call[u].fd)'
  BY DrawnKept
<1>2. call[u].rep \in DOMAIN fds =>
        call[u].rep \in DOMAIN fds' /\ fds'[call[u].rep] = fds[call[u].rep]
  BY DEF Grows
<1> QED
  BY <1>1, <1>2 DEF CallFits, Adding, Looping

\* A step of one thread, or of the handler of its call, that leaves the table alone
\* and keeps the map right.
LEMMA MapStepKeeps ==
    ASSUME IInv, ~Over, NEW t \in Thread, \A u \in Others(t) : Unmoved(u),
           UNCHANGED table, Grows, call[t].phase \notin {"path", "count"},
           StackFits(t)', FhFits(t)', OpenedFits(t)', CopyFits(t)', CallFits(t)', MapFits',
           ~crossed' => /\ LooksFit(t)' /\ LookupFits(t)'
                        /\ \A u \in Others(t) : LooksFit(u)'
                        /\ call'[t].phase \in Adding =>
                             \A u \in Others(t) : call[u].phase \notin Adding
    PROVE  Handles'
<1> USE DEF IInv, Handles
<1>1. TableFits'
  <2>1. ASSUME NEW u \in Thread, call[u].phase \in {"path", "count"}
        PROVE  UNCHANGED call[u]
    BY <2>1 DEF Others, Unmoved
  <2>2. TableFits
    OBVIOUS
  <2> QED
    BY <2>1, <2>2 DEF TableFits, HandleOf, Mapped
<1>2. ASSUME NEW u \in Thread
      PROVE  StackFits(u)' /\ FhFits(u)' /\ OpenedFits(u)' /\ CopyFits(u)' /\ CallFits(u)'
  <2>1. CASE u = t
    BY <2>1
  <2>2. CASE u # t
    <3>1. Unmoved(u)
      BY <2>2 DEF Others
    <3> QED
      BY <3>1, ThreadKept, CallKept DEF Unmoved
  <2> QED
    BY <2>1, <2>2
<1>3. ASSUME ~crossed'
      PROVE  OneAdds' /\ \A u \in Thread : LooksFit(u)' /\ LookupFits(u)'
  <2>1. OneAdds /\ \A u \in Thread : LookupFits(u)
    BY DEF Over
  <2>2. ASSUME NEW u \in Thread
        PROVE  LooksFit(u)' /\ LookupFits(u)'
    <3>1. CASE u = t
      BY <1>3, <3>1
    <3>2. CASE u # t
      <4>1. Unmoved(u) /\ LooksFit(u)'
        BY <1>3, <3>2 DEF Others
      <4> QED
        BY <2>1, <4>1 DEF Unmoved, LookupFits, HandleOf, Mapped
    <3> QED
      BY <3>1, <3>2
  <2>3. OneAdds'
    BY <1>3, <2>1 DEF OneAdds, Others, Unmoved
  <2> QED
    BY <2>2, <2>3
<1> QED
  BY <1>1, <1>2, <1>3

\* The same for a step that does not touch the map, either.
LEMMA StepKeeps ==
    ASSUME IInv, ~Over, NEW t \in Thread, \A u \in Others(t) : Unmoved(u),
           UNCHANGED <<table, pathtofh>>, Grows, call[t].phase \notin {"path", "count"},
           StackFits(t)', FhFits(t)', OpenedFits(t)', CopyFits(t)', CallFits(t)',
           ~crossed' => /\ LooksFit(t)' /\ LookupFits(t)'
                        /\ call'[t].phase \in Adding =>
                             \A u \in Others(t) : call[u].phase \notin Adding
    PROVE  Handles'
<1>1. MapFits'
  BY DEF IInv, Handles, MapFits, HandleOf
<1>2. ASSUME NEW u \in Others(t)
      PROVE  LooksFit(u)'
  BY DEF IInv, Handles, Over, Others, Unmoved, LooksFit
<1> QED
  BY <1>1, <1>2, MapStepKeeps

LEMMA GrowsSame ==
    ASSUME IInv, UNCHANGED <<table, fds>>, drawn' = drawn \/ drawn' = drawn + 1
    PROVE  Grows
BY DEF Grows, HandleOf, IInv, Types, ClientType

\* A handler that only changes the call it serves.
LEMMA HandlerKeeps ==
    ASSUME IInv, ~Over, NEW t \in Thread, NEW d, call' = [call EXCEPT ![t] = d],
           UNCHANGED <<table, clientVars>>, Grows, call[t].phase \notin {"path", "count"},
           CallFits(t)',
           ~crossed' => /\ LookupFits(t)'
                        /\ d.phase \in Adding =>
                             \A u \in Others(t) : call[u].phase \notin Adding
    PROVE  Handles'
<1>1. \A u \in Others(t) : Unmoved(u)
  BY DEF Others, Unmoved, clientVars, IInv, Types, RestType
<1>2. StackFits(t)' /\ FhFits(t)' /\ OpenedFits(t)' /\ CopyFits(t)'
  <2>1. UNCHANGED <<thread[t], opened[t]>>
    BY DEF clientVars
  <2> QED
    BY <2>1, ThreadKept DEF IInv, Handles
<1>3. ~crossed' => LooksFit(t)'
  BY DEF IInv, Handles, Over, LooksFit, clientVars
<1>4. call'[t] = d
  BY DEF IInv, Types, RestType
<1>5. UNCHANGED <<table, pathtofh>>
  BY DEF clientVars
<1> QED
  BY <1>1, <1>2, <1>3, <1>4, <1>5, StepKeeps

\* A step of addLookup: nobody else is in it.
LEMMA AdderKeeps ==
    ASSUME IInv, ~Over, NEW t \in Thread, NEW d, call' = [call EXCEPT ![t] = d],
           call[t].phase \in Adding, UNCHANGED <<fds, clientVars, crossed>>, Grows,
           TableFits', CallFits(t)', LookupFits(t)'
    PROVE  Handles'
<1> USE DEF IInv, Handles
<1>1. OneAdds /\ \A u \in Thread : LooksFit(u) /\ LookupFits(u)
  BY DEF Over
<1>2. \A u \in Others(t) : Unmoved(u) /\ call[u].phase \notin Adding
  BY <1>1 DEF Others, Unmoved, clientVars, OneAdds, Types, RestType
<1>3. MapFits'
  BY DEF MapFits, clientVars, Grows
<1>4. ASSUME NEW u \in Thread
      PROVE  StackFits(u)' /\ FhFits(u)' /\ OpenedFits(u)' /\ CopyFits(u)' /\ CallFits(u)'
  <2>1. UNCHANGED <<thread[u], opened[u]>>
    BY DEF clientVars
  <2>2. CallFits(u)'
    BY <1>2, CallKept DEF Others, Unmoved
  <2> QED
    BY <2>1, <2>2, ThreadKept
<1>5. ASSUME NEW u \in Thread
      PROVE  LooksFit(u)'
  BY <1>1 DEF LooksFit, clientVars
<1>6. ASSUME NEW u \in Thread
      PROVE  LookupFits(u)'
  <2>1. CASE u = t
    BY <2>1
  <2>2. CASE u # t
    <3>1. call[u].phase \notin Adding /\ UNCHANGED <<call[u], thread[u]>> /\ LookupFits(u)
      BY <1>1, <1>2, <2>2 DEF Others, Unmoved
    <3>2. call[u].phase = "read" =>
            HandleOf(table.pathToFh[Head(thread[u].looks)], Head(thread[u].looks))'
      <4> DEFINE h == table.pathToFh[Head(thread[u].looks)]
      <4> SUFFICES ASSUME call[u].phase = "read", call[u].cmd = "lookup"
                   PROVE  HandleOf(table.pathToFh[Head(thread[u].looks)], Head(thread[u].looks))'
        BY DEF CallFits
      <4>1. HandleOf(h, Head(thread[u].looks))
        BY <3>1 DEF LookupFits
      <4>2. HandleOf(h, Head(thread[u].looks))'
        BY <3>1, <4>1 DEF Grows, HandleOf
      <4> QED
        BY <3>1, <4>2 DEF HandleOf
    <3> QED
      BY <3>1, <3>2 DEF LookupFits, Adding, Grows
  <2> QED
    BY <2>1, <2>2
<1>7. OneAdds'
  BY <1>2 DEF OneAdds, Others, Unmoved
<1> QED
  BY <1>3, <1>4, <1>5, <1>6, <1>7

\* A handler between two accesses to the table keeps what a lookup has reached.
LEMMA ServeHandles ==
    ASSUME IInv, NEW t \in Thread, Serve(t) \/ Lose(t), Types'
    PROVE  Handles'
<1> DEFINE c == call[t]
           r == thread[t]
           p == Head(r.looks)
<1>0. /\ c \in CallRecord /\ call \in [Thread -> CallRecord] /\ c.fh \in Fh /\ c.rep \in Int
      /\ CallFits(t) /\ FhFits(t) /\ StackFits(t)
  BY DEF IInv, Types, RestType, CallRecord, Handles
<1>1. ~crossed => LookupFits(t) /\ LooksFit(t) /\ OneAdds
  BY DEF IInv, Handles
<1>2. \A phase : Phase(t, phase) => c.phase = phase /\ ~Over /\ ~crossed
  BY DEF Phase, Over
<1>3. c.cmd = "lookup" /\ c.phase # "none" => p \in Path /\ p # Root /\ Append(Parent(p), Last(p)) = p
  <2>1. r.looks \in Seq(Path)
    BY DEF IInv, Types, ClientType, ThreadRecord
  <2> QED
    BY <1>0, <2>1, ParentFact DEF CallFits, StackFits
<1>4. CASE ServeLookup(t)
  <2> DEFINE q == Join(PathFound(t), c.name)
             d == [c EXCEPT !.path = q, !.phase = IF Mapped(table, q) THEN "read" ELSE "number"]
  <2>1. ~Over /\ ~crossed /\ c.phase = "sent" /\ c.cmd = "lookup"
    BY <1>2, <1>4 DEF ServeLookup, Request
  <2>2. HandleOf(c.fh, Parent(p)) /\ c.name = Last(p)
    BY <1>1, <2>1 DEF LookupFits
  <2>3. q = p
    BY <1>3, <2>1, <2>2 DEF HandleOf, Join, PathFound
  <2>4. call' = [call EXCEPT ![t] = d] /\ d.phase \in {"read", "number"}
    BY <1>0, <1>4 DEF ServeLookup, CallRecord
  <2>5. /\ UNCHANGED <<table, clientVars>> /\ Grows
    BY <1>4, GrowsSame DEF ServeLookup, serverVars, clientVars
  <2>6. d.path = p /\ d.cmd = "lookup" /\ d.phase = IF Mapped(table, p) THEN "read" ELSE "number"
    BY <1>0, <2>1, <2>3 DEF CallRecord
  <2>7. call'[t] = d
    BY <1>0, <2>4
  <2> HIDE DEF d, q
  <2>8. CallFits(t)'
    BY <1>0, <2>1, <2>4, <2>5, <2>6, <2>7 DEF CallFits, clientVars, Looping
  <2>9. ASSUME ~crossed'
        PROVE  LookupFits(t)' /\ \A u \in Others(t) : call[u].phase \notin Adding
    <3>1. \A u \in Others(t) : call[u].phase \notin Adding
      BY <1>4, <2>9 DEF ServeLookup
    <3>2. TableFits
      BY DEF IInv, Handles
    <3>3. Mapped(table, p) => HandleOf(table.pathToFh[p], p)
      BY <1>3, <2>1, <3>1, <3>2 DEF TableFits, Others, Adding
    <3>4. LookupFits(t)'
      BY <2>4, <2>5, <2>6, <2>7, <3>3 DEF LookupFits, clientVars, HandleOf, Adding
    <3> QED
      BY <3>1, <3>4
  <2> QED
    BY <2>1, <2>4, <2>5, <2>8, <2>9, HandlerKeeps
<1>5. CASE ReadHandle(t)
  <2> DEFINE d == [c EXCEPT !.phase = "answered", !.rep = table.pathToFh[c.path]]
  <2>1. ~Over /\ ~crossed /\ c.phase = "read" /\ c.cmd = "lookup"
    BY <1>0, <1>2, <1>5 DEF ReadHandle, CallFits
  <2>2. c.path = p /\ HandleOf(table.pathToFh[p], p)
    BY <1>1, <2>1 DEF LookupFits
  <2>3. call' = [call EXCEPT ![t] = d] /\ UNCHANGED <<table, clientVars>> /\ Grows
    BY <1>5, GrowsSame DEF ReadHandle, Answer, serverVars, clientVars
  <2>4. d.phase = "answered" /\ d.cmd = "lookup" /\ d.rep = table.pathToFh[p] /\ call'[t] = d
    BY <1>0, <2>1, <2>2, <2>3 DEF CallRecord
  <2> HIDE DEF d
  <2>5. CallFits(t)'
    BY <1>0, <2>1, <2>3, <2>4 DEF CallFits, clientVars, Looping
  <2>6. LookupFits(t)'
    BY <2>2, <2>3, <2>4 DEF LookupFits, clientVars, HandleOf, Adding
  <2> QED
    BY <2>1, <2>3, <2>4, <2>5, <2>6, HandlerKeeps DEF Adding
<1>6. ASSUME ~Over, c.phase \in Adding
      PROVE  /\ c.cmd = "lookup" /\ c.path = p /\ LookupFits(t) /\ ~crossed
             /\ p \in Path /\ p # Root /\ table.fhcount \in 1 .. MaxFh /\ table.fhcount \in Fh
             /\ table.pathToFh \in PathMap /\ table.fhToPath \in FhMap /\ TableFits
             /\ \A u \in Others(t) : call[u].phase \notin Adding
  <2>1. c.cmd = "lookup" /\ ~crossed /\ LookupFits(t) /\ OneAdds /\ c.phase # "none"
    BY <1>0, <1>1, <1>6 DEF CallFits, Over, Adding
  <2>2. c.path = p
    BY <1>6, <2>1 DEF LookupFits, Adding
  <2>3. /\ table.fhcount \in 1 .. MaxFh /\ MaxFh \in Nat
        /\ table.pathToFh \in PathMap /\ table.fhToPath \in FhMap /\ TableFits
    BY MaxFhAssumption DEF IInv, Types, ServerType, Table, Handles
  <2> QED
    BY <1>3, <1>6, <2>1, <2>2, <2>3 DEF OneAdds, Others, Fh
<1>7. CASE AddNumber(t)
  <2> DEFINE n == table.fhcount
             d == [c EXCEPT !.phase = "path"]
  <2>1. ~Over /\ c.phase = "number" /\ c.phase \in Adding
    BY <1>2, <1>7 DEF AddNumber, AddStep, Adding
  <2>2. ~Mapped(table, p) /\ n \in 1 .. MaxFh /\ n \in Fh /\ p \in Path /\ p # Root
    BY <1>6, <2>1 DEF LookupFits
  <2>3. /\ table'.pathToFh = [table.pathToFh EXCEPT ![p] = n] /\ table'.fhToPath = table.fhToPath
        /\ table'.fhcount = n
    BY <1>6, <1>7, <2>1 DEF AddNumber, IInv, Types, ServerType, Table
  <2>4. /\ table'.pathToFh[p] = n
        /\ \A q \in Path \ {p} : table'.pathToFh[q] = table.pathToFh[q]
    BY <1>6, <2>1, <2>2, <2>3 DEF PathMap
  <2>5. /\ call' = [call EXCEPT ![t] = d] /\ call'[t] = d /\ d.phase = "path" /\ d.path = p
        /\ d.cmd = "lookup" /\ UNCHANGED <<fds, clientVars, crossed>>
    BY <1>0, <1>6, <1>7, <2>1 DEF AddNumber, AddStep, Goes, CallRecord
  <2>6. \A h \in 0 .. n - 1 : h # NoFh
    BY <2>2 DEF NoFh
  <2> HIDE DEF d
  <2>7. ASSUME NEW h, NEW q, HandleOf(h, q)
        PROVE  HandleOf(h, q)'
    <3>1. h \in 0 .. n - 1 /\ q \in Path
      BY <1>6, <2>1, <2>7 DEF HandleOf, TableFits
    <3>2. q # p
      BY <2>2, <2>6, <2>7, <3>1 DEF HandleOf, Mapped
    <3> QED
      BY <2>3, <2>4, <2>7, <3>1, <3>2 DEF HandleOf
  <2>8. Grows
    BY <2>5, <2>7 DEF Grows, clientVars, IInv, Types, ClientType
  <2>9. TableFits'
    <3>0. TableFits
      BY <1>6, <2>1
    <3>1. HandleOf(0, Root)'
      BY <2>7, <3>0 DEF TableFits
    <3>2. ASSUME NEW h \in 0 .. n - 1
          PROVE  table'.fhToPath[h] \in Path /\ HandleOf(h, table.fhToPath[h])'
      <4>1. table.fhToPath[h] \in Path /\ HandleOf(h, table.fhToPath[h])
        BY <3>0 DEF TableFits
      <4> QED
        BY <2>3, <2>7, <4>1 DEF HandleOf
    <3>3. ASSUME NEW q \in Path, Mapped(table, q)'
          PROVE  \/ HandleOf(table.pathToFh[q], q)'
                 \/ /\ table'.pathToFh[q] = n
                    /\ \E u \in Thread : call'[u].phase \in {"path", "count"} /\ call'[u].path = q
      <4>1. CASE q = p
        BY <2>4, <2>5, <4>1
      <4>2. CASE q # p
        <5>1. Mapped(table, q) /\ table'.pathToFh[q] = table.pathToFh[q]
          BY <2>4, <3>3, <4>2 DEF Mapped
        <5>2. \A u \in Thread : call[u].phase \notin {"path", "count"}
          BY <1>6, <2>1 DEF Others, Adding
        <5>3. HandleOf(table.pathToFh[q], q)
          BY <3>0, <5>1, <5>2 DEF TableFits
        <5> QED
          BY <2>7, <5>1, <5>3 DEF HandleOf
      <4> QED
        BY <4>1, <4>2
    <3> QED
      BY <2>3, <3>1, <3>2, <3>3 DEF TableFits
  <2>10. CallFits(t)'
    BY <1>0, <2>1, <2>5 DEF CallFits, clientVars, Looping
  <2>11. LookupFits(t)'
    BY <2>3, <2>4, <2>5 DEF LookupFits, clientVars, Adding
  <2> QED
    BY <2>1, <2>5, <2>8, <2>9, <2>10, <2>11, AdderKeeps
<1>8. CASE AddPath(t)
  <2> DEFINE n == table.fhcount
             d == [c EXCEPT !.phase = "count"]
  <2>1. ~Over /\ c.phase = "path" /\ c.phase \in Adding
    BY <1>2, <1>8 DEF AddPath, AddStep, Adding
  <2>2. table.pathToFh[p] = n /\ n \in 1 .. MaxFh /\ n \in Fh /\ p \in Path /\ p # Root /\ TableFits
    BY <1>6, <2>1 DEF LookupFits
  <2>3. /\ table'.fhToPath = [table.fhToPath EXCEPT ![n] = p] /\ table'.pathToFh = table.pathToFh
        /\ table'.fhcount = n
    BY <1>6, <1>8, <2>1 DEF AddPath, IInv, Types, ServerType, Table
  <2>4. table'.fhToPath[n] = p /\ \A h \in 0 .. n - 1 : table'.fhToPath[h] = table.fhToPath[h]
    <3>1. \A h \in 0 .. n - 1 : h \in Fh /\ h # n
      BY <2>2, MaxFhAssumption DEF Fh
    <3> QED
      BY <1>6, <2>1, <2>2, <2>3, <3>1 DEF FhMap
  <2>5. /\ call' = [call EXCEPT ![t] = d] /\ call'[t] = d /\ d.phase = "count" /\ d.path = p
        /\ d.cmd = "lookup" /\ UNCHANGED <<fds, clientVars, crossed>>
    BY <1>0, <1>6, <1>8, <2>1 DEF AddPath, AddStep, Goes, CallRecord
  <2> HIDE DEF d
  <2>6. ASSUME NEW h, NEW q, HandleOf(h, q)
        PROVE  HandleOf(h, q)'
    BY <2>3, <2>4, <2>6 DEF HandleOf
  <2>7. Grows
    BY <2>5, <2>6 DEF Grows, clientVars, IInv, Types, ClientType
  <2>8. TableFits'
    <3>1. HandleOf(0, Root)'
      BY <2>2, <2>6 DEF TableFits
    <3>2. ASSUME NEW h \in 0 .. n - 1
          PROVE  table'.fhToPath[h] \in Path /\ HandleOf(h, table.fhToPath[h])'
      <4>1. table.fhToPath[h] \in Path /\ HandleOf(h, table.fhToPath[h])
        BY <2>2 DEF TableFits
      <4> QED
        BY <2>4, <2>6, <4>1 DEF HandleOf
    <3>3. ASSUME NEW q \in Path, Mapped(table, q)'
          PROVE  \/ HandleOf(table.pathToFh[q], q)'
                 \/ /\ table'.pathToFh[q] = n
                    /\ \E u \in Thread : call'[u].phase \in {"path", "count"} /\ call'[u].path = q
      <4>1. CASE HandleOf(table.pathToFh[q], q)
        BY <2>3, <2>6, <4>1 DEF HandleOf
      <4>2. CASE ~HandleOf(table.pathToFh[q], q)
        <5>1. /\ table.pathToFh[q] = n
              /\ \E u \in Thread : call[u].phase \in {"path", "count"} /\ call[u].path = q
          BY <2>2, <2>3, <3>3, <4>2 DEF TableFits, Mapped
        <5>2. c.path = q
          BY <1>6, <2>1, <5>1 DEF Others, Adding
        <5> QED
          BY <1>6, <2>1, <2>3, <2>5, <5>1, <5>2
      <4> QED
        BY <4>1, <4>2
    <3> QED
      BY <2>3, <3>1, <3>2, <3>3 DEF TableFits
  <2>9. CallFits(t)'
    BY <1>0, <2>1, <2>5 DEF CallFits, clientVars, Looping
  <2>10. LookupFits(t)'
    BY <2>2, <2>3, <2>4, <2>5 DEF LookupFits, clientVars, Adding
  <2> QED
    BY <2>1, <2>5, <2>7, <2>8, <2>9, <2>10, AdderKeeps
<1>9. CASE AddCount(t)
  <2> DEFINE n == table.fhcount
             d == [c EXCEPT !.phase = "read"]
  <2>1. ~Over /\ c.phase = "count" /\ c.phase \in Adding /\ Phase(t, "count")
    BY <1>2, <1>9 DEF AddCount, AddStep, Adding
  <2>2. /\ table.pathToFh[p] = n /\ table.fhToPath[n] = p /\ n \in 1 .. MaxFh
        /\ p \in Path /\ p # Root /\ TableFits
    BY <1>6, <2>1 DEF LookupFits
  <2>3. table'.fhToPath = table.fhToPath /\ table'.pathToFh = table.pathToFh /\ table'.fhcount = n + 1
    BY <1>9 DEF AddCount, IInv, Types, ServerType, Table
  <2>4. \A h : h \in 0 .. table'.fhcount - 1 <=> h \in 0 .. n - 1 \/ h = n
    BY <2>2, <2>3
  <2>5. /\ call' = [call EXCEPT ![t] = d] /\ call'[t] = d /\ d.phase = "read" /\ d.path = p
        /\ d.cmd = "lookup" /\ UNCHANGED <<fds, clientVars, crossed>>
    BY <1>0, <1>6, <1>9, <2>1 DEF AddCount, AddStep, Goes, CallRecord
  <2> HIDE DEF d
  <2>6. ASSUME NEW h, NEW q, HandleOf(h, q)
        PROVE  HandleOf(h, q)'
    BY <2>3, <2>4, <2>6 DEF HandleOf
  <2>7. ASSUME NEW h, h = n, NEW q, q = p
        PROVE  HandleOf(h, q)'
    BY <2>2, <2>3, <2>4, <2>7 DEF HandleOf
  <2>8. Grows
    BY <2>5, <2>6 DEF Grows, clientVars, IInv, Types, ClientType
  <2>9. TableFits'
    <3>1. HandleOf(0, Root)'
      BY <2>2, <2>6 DEF TableFits
    <3>2. ASSUME NEW h \in 0 .. table'.fhcount - 1
          PROVE  table'.fhToPath[h] \in Path /\ HandleOf(h, table.fhToPath[h])'
      <4>1. CASE h = n
        BY <2>2, <2>3, <2>7, <4>1 DEF HandleOf
      <4>2. CASE h # n
        <5>1. table.fhToPath[h] \in Path /\ HandleOf(h, table.fhToPath[h])
          BY <2>2, <2>3, <2>4, <4>2 DEF TableFits
        <5> QED
          BY <2>3, <2>6, <5>1 DEF HandleOf
      <4> QED
        BY <4>1, <4>2
    <3>3. ASSUME NEW q \in Path, Mapped(table, q)'
          PROVE  HandleOf(table.pathToFh[q], q)'
      <4>1. CASE HandleOf(table.pathToFh[q], q)
        BY <2>3, <2>6, <4>1 DEF HandleOf
      <4>2. CASE ~HandleOf(table.pathToFh[q], q)
        <5>1. /\ table.pathToFh[q] = n
              /\ \E u \in Thread : call[u].phase \in {"path", "count"} /\ call[u].path = q
          BY <2>2, <2>3, <3>3, <4>2 DEF TableFits, Mapped
        <5>2. p = q
          BY <1>6, <2>1, <5>1 DEF Others, Adding
        <5> QED
          BY <2>3, <2>7, <5>1, <5>2 DEF HandleOf
      <4> QED
        BY <4>1, <4>2
    <3> QED
      BY <3>1, <3>2, <3>3 DEF TableFits
  <2>10. CallFits(t)'
    BY <1>0, <2>1, <2>5 DEF CallFits, clientVars, Looping
  <2>11. LookupFits(t)'
    BY <2>2, <2>3, <2>5, <2>7 DEF LookupFits, clientVars, Adding, HandleOf
  <2> QED
    BY <2>1, <2>5, <2>8, <2>9, <2>10, <2>11, AdderKeeps
<1>10. ASSUME ~Over, c.cmd # "lookup", c.phase # "none", NEW d, call' = [call EXCEPT ![t] = d],
              UNCHANGED <<table, clientVars>>, Grows,
              d.cmd = c.cmd /\ d.fh = c.fh /\ d.gen = c.gen /\ d.fd = c.fd,
              d.phase \notin Adding \cup {"read"}, d.phase \in Looping => c.cmd = "commit",
              c.cmd = "open" /\ d.phase = "answered" /\ d.rep # -1 =>
                d.rep \in DOMAIN fds' /\ fds'[d.rep] = r.path
       PROVE  Handles'
  <2>1. call'[t] = d /\ UNCHANGED thread
    BY <1>0, <1>10 DEF clientVars
  <2>2. c.phase \notin {"path", "count"}
    BY <1>0, <1>10 DEF CallFits, Adding
  <2>3. Drawn(c.gen, c.fd) => Drawn(c.gen, c.fd)'
    BY <1>10, DrawnKept
  <2>4. CallFits(t)'
    BY <1>0, <1>10, <2>1, <2>3 DEF CallFits, Drawn
  <2>5. LookupFits(t)'
    BY <1>10, <2>1 DEF LookupFits
  <2> QED
    BY <1>10, <2>2, <2>4, <2>5, HandlerKeeps
<1>11. ASSUME NEW rep \in Int, Answer(t, rep), ~Over, c.cmd # "lookup", c.phase # "none",
              UNCHANGED <<table, clientVars>>, Grows,
              c.cmd = "open" /\ rep # -1 => rep \in DOMAIN fds' /\ fds'[rep] = r.path
       PROVE  Handles'
  <2> DEFINE d == [c EXCEPT !.phase = "answered", !.rep = rep]
  <2>1. call' = [call EXCEPT ![t] = d]
    BY <1>0, <1>11 DEF Answer
  <2>2. /\ d.cmd = c.cmd /\ d.fh = c.fh /\ d.gen = c.gen /\ d.fd = c.fd
        /\ d.phase = "answered" /\ d.rep = rep
    BY <1>0 DEF CallRecord
  <2> HIDE DEF d
  <2> QED
    BY <1>10, <1>11, <2>1, <2>2 DEF Adding, Looping
<1>12. CASE ServeOpen(t)
  <2>1. ~Over /\ c.phase = "sent" /\ c.cmd = "open"
    BY <1>2, <1>12 DEF ServeOpen, Request
  <2>2. PathFound(t) = r.path
    BY <1>0, <2>1 DEF CallFits, FhFits, HandleOf, PathFound
  <2>3. fds \in Seq(Files) /\ Len(fds) \in Nat /\ Len(fds) + 1 \in Int
    BY DEF IInv, Types, ServerType
  <2>4. /\ UNCHANGED <<table, clientVars>>
        /\ \/ UNCHANGED fds /\ Answer(t, -1)
           \/ fds' = Append(fds, r.path) /\ r.path \in Files /\ Answer(t, Len(fds) + 1)
    BY <1>12, <2>2 DEF ServeOpen
  <2>5. r.path \in Files /\ fds' = Append(fds, r.path) =>
          /\ \A k \in DOMAIN fds : k \in DOMAIN fds' /\ fds'[k] = fds[k]
          /\ Len(fds) + 1 \in DOMAIN fds' /\ fds'[Len(fds) + 1] = r.path
    BY <2>3
  <2>6. Grows
    BY <2>4, <2>5 DEF Grows, HandleOf, clientVars, IInv, Types, ClientType
  <2> QED
    BY <1>11, <2>1, <2>3, <2>4, <2>5, <2>6
<1>13. CASE ServeWrite(t)
  <2>1. ~Over /\ c.phase = "sent" /\ c.cmd = "write" /\ Answer(t, 0)
    BY <1>2, <1>13 DEF ServeWrite, Request
  <2>2. UNCHANGED <<table, clientVars>> /\ Grows
    BY <1>13, GrowsSame DEF ServeWrite, clientVars
  <2> QED
    BY <1>11, <2>1, <2>2
<1>14. CASE ServeRelease(t)
  <2>1. ~Over /\ c.phase = "sent" /\ c.cmd = "release" /\ Answer(t, 0)
    BY <1>2, <1>14 DEF ServeRelease, Request
  <2>2. UNCHANGED <<table, clientVars>> /\ Grows
    BY <1>14, GrowsSame DEF ServeRelease, serverVars, clientVars
  <2> QED
    BY <1>11, <2>1, <2>2
<1>15. CASE ServeCommit(t)
  <2> DEFINE d == [c EXCEPT !.phase = "loop", !.i = 1, !.at = 1]
  <2>1. ~Over /\ c.phase = "sent" /\ c.cmd = "commit"
    BY <1>2, <1>15 DEF ServeCommit, Request
  <2>2. UNCHANGED <<table, clientVars>> /\ Grows
    BY <1>15, GrowsSame DEF ServeCommit, serverVars, clientVars
  <2>3. CASE Answer(t, 1)
    BY <1>11, <2>1, <2>2, <2>3
  <2>4. CASE call' = [call EXCEPT ![t] = d]
    <3>1. /\ d.cmd = c.cmd /\ d.fh = c.fh /\ d.gen = c.gen /\ d.fd = c.fd /\ d.phase = "loop"
      BY <1>0 DEF CallRecord
    <3> HIDE DEF d
    <3> QED
      BY <1>10, <2>1, <2>2, <2>4, <3>1 DEF Adding
  <2> QED
    BY <1>0, <1>15, <2>3, <2>4 DEF ServeCommit
<1>16. CASE CommitScan(t)
  <2> DEFINE d == [c EXCEPT !.i = IF c.at > Len(writes) THEN @ + 1 ELSE @,
                            !.at = IF c.at > Len(writes) THEN 1 ELSE @ + 1]
             e == [c EXCEPT !.phase = "wrote"]
  <2>1. ~Over /\ c.phase = "loop" /\ c.cmd = "commit"
    BY <1>0, <1>2, <1>16 DEF CommitScan, CallFits, Looping
  <2>2. UNCHANGED <<table, clientVars>> /\ Grows
    BY <1>16, GrowsSame DEF CommitScan, clientVars
  <2>3. CASE Answer(t, 0)
    BY <1>11, <2>1, <2>2, <2>3
  <2>4. CASE call' = [call EXCEPT ![t] = d]
    <3>1. /\ d.cmd = c.cmd /\ d.fh = c.fh /\ d.gen = c.gen /\ d.fd = c.fd /\ d.phase = "loop"
      BY <1>0, <2>1 DEF CallRecord
    <3> HIDE DEF d
    <3> QED
      BY <1>10, <2>1, <2>2, <2>4, <3>1 DEF Adding
  <2>5. CASE call' = [call EXCEPT ![t] = e]
    <3>1. /\ e.cmd = c.cmd /\ e.fh = c.fh /\ e.gen = c.gen /\ e.fd = c.fd /\ e.phase = "wrote"
      BY <1>0 DEF CallRecord
    <3> HIDE DEF e
    <3> QED
      BY <1>10, <2>1, <2>2, <2>5, <3>1 DEF Adding
  <2> QED
    BY <1>0, <1>16, <2>3, <2>4, <2>5 DEF CommitScan, Goes
<1>17. CASE CommitErase(t)
  <2> DEFINE d == [c EXCEPT !.phase = "loop", !.i = @ + 1, !.at = 1]
  <2>1. ~Over /\ c.phase = "wrote" /\ c.cmd = "commit"
    BY <1>0, <1>2, <1>17 DEF CommitErase, CallFits, Looping
  <2>2. UNCHANGED <<table, clientVars>> /\ Grows
    BY <1>17, GrowsSame DEF CommitErase, clientVars
  <2>3. call' = [call EXCEPT ![t] = d]
    BY <1>0, <1>17 DEF CommitErase
  <2>4. /\ d.cmd = c.cmd /\ d.fh = c.fh /\ d.gen = c.gen /\ d.fd = c.fd /\ d.phase = "loop"
    BY <1>0 DEF CallRecord
  <2> HIDE DEF d
  <2> QED
    BY <1>10, <2>1, <2>2, <2>3, <2>4 DEF Adding
<1>18. CASE Lose(t)
  <2> DEFINE d == [c EXCEPT !.phase = "failed"]
  <2>1. ~Over /\ c.phase \in {"sent", "answered"}
    BY <1>18 DEF Lose
  <2>2. UNCHANGED <<table, clientVars>> /\ Grows
    BY <1>18, GrowsSame DEF Lose, serverVars, clientVars
  <2>3. call' = [call EXCEPT ![t] = d] /\ call'[t] = d
    BY <1>0, <1>18 DEF Lose, Goes
  <2>4. d.cmd = c.cmd /\ d.fh = c.fh /\ d.gen = c.gen /\ d.fd = c.fd /\ d.phase = "failed"
    BY <1>0 DEF CallRecord
  <2> HIDE DEF d
  <2>5. CallFits(t)'
    <3>1. ASSUME NEW gen, NEW fd, Drawn(gen, fd)
          PROVE  Drawn(gen, fd)'
      BY <2>2, <3>1, DrawnKept
    <3> QED
      BY <1>0, <2>1, <2>2, <2>3, <2>4, <3>1 DEF CallFits, Drawn, clientVars, Adding, Looping
  <2>6. LookupFits(t)'
    BY <2>3, <2>4 DEF LookupFits
  <2> QED
    BY <2>1, <2>2, <2>3, <2>4, <2>5, <2>6, HandlerKeeps DEF Adding
<1> QED
  BY <1>4, <1>5, <1>7, <1>8, <1>9, <1>12, <1>13, <1>14, <1>15, <1>16, <1>17, <1>18 DEF Serve
\* A thread that issues a call.
LEMMA SendKeeps ==
    ASSUME IInv, NEW t \in Thread, Running(t), NEW e, Send(t, e), e.phase = "sent",
           UNCHANGED <<serverVars, clientVars, crossed>>,
           \/ /\ e.cmd = "lookup" /\ thread[t].looks # <<>> /\ thread[t].look = "send"
              /\ HandleOf(e.fh, Parent(Head(thread[t].looks)))
              /\ e.name = Last(Head(thread[t].looks))
           \/ /\ thread[t].looks = <<>>
              /\ \/ e.cmd = "open" /\ thread[t].pc = "open" /\ e.fh = thread[t].fh
                 \/ e.cmd = "write" /\ thread[t].pc \in {"send", "resending"} /\ Drawn(e.gen, e.fd)
                 \/ e.cmd = "release" /\ thread[t].pc = "close"
    PROVE  Handles'
<1>1. ~Over /\ ~crossed /\ call[t].phase = "none" /\ thread[t].again = "no"
  BY DEF Running, Over
<1>2. call' = [call EXCEPT ![t] = e] /\ call'[t] = e
  BY DEF Send, IInv, Types, RestType
<1>3. Grows
  BY GrowsSame DEF serverVars, clientVars
<1>4. CallFits(t)'
  BY <1>1, <1>2 DEF CallFits, Drawn, serverVars, clientVars, Adding, Looping
<1>5. LookupFits(t)'
  BY <1>2 DEF LookupFits, HandleOf, serverVars, clientVars, Adding
<1>6. UNCHANGED <<table, clientVars>>
  BY DEF serverVars
<1> QED
  BY <1>1, <1>2, <1>3, <1>4, <1>5, <1>6, HandlerKeeps DEF Adding

\* A thread that goes on with no call under way.
LEMMA GoesOnKeeps ==
    ASSUME IInv, NEW t \in Thread, ~Over, call[t].phase \in {"none", "answered", "failed"},
           NEW d, Becomes(t, d), UNCHANGED call \/ Clear(t), call'[t].phase = "none",
           \A u \in Others(t) : UNCHANGED opened[u],
           UNCHANGED <<serverVars, pathtofh, crossed>>, drawn' = drawn \/ drawn' = drawn + 1,
           StackFits(t)', FhFits(t)', OpenedFits(t)', CopyFits(t)', LooksFit(t)'
    PROVE  Handles'
<1>1. \A u \in Others(t) : Unmoved(u)
  BY DEF Others, Unmoved, Becomes, Clear, Send, IInv, Types, ClientType, RestType
<1>2. Grows /\ UNCHANGED <<table, pathtofh>>
  BY GrowsSame DEF serverVars
<1>3. CallFits(t)' /\ LookupFits(t)'
  BY DEF CallFits, LookupFits
<1> QED
  BY <1>1, <1>2, <1>3, StepKeeps DEF Adding
\* What a lookup that starts relies on: nothing.
LEMMA LookingUpFits ==
    ASSUME NEW t \in Thread, NEW r \in ThreadRecord, NEW pc \in {"open", "push", "collect", "close"},
           thread'[t] = LookingUp(r, pc), pc = "push" => opened'[t].fd # 0,
           opened'[t].fd # 0 => opened'[t].fd \in DOMAIN fds' /\ fds'[opened'[t].fd] = opened'[t].path
    PROVE  StackFits(t)' /\ FhFits(t)' /\ OpenedFits(t)' /\ CopyFits(t)' /\ LooksFit(t)'
<1> DEFINE d == LookingUp(r, pc)
<1>1. d.looks = <<r.path>> /\ d.path = r.path /\ d.look = "find" /\ d.pc = pc
  BY DEF LookingUp, ThreadRecord
<1>2. Len(d.looks) = 1 /\ d.looks # <<>> /\ d.looks[1] = r.path
  BY <1>1
<1> HIDE DEF d
<1>3. thread'[t] = d
  BY DEF d
<1>4. StackFits(t)'
  BY <1>1, <1>2, <1>3 DEF StackFits
<1> QED
  BY <1>1, <1>2, <1>3, <1>4 DEF FhFits, OpenedFits, CopyFits, LooksFit

\* Nor does an idle thread rely on anything.
LEMMA IdleFits ==
    ASSUME NEW t \in Thread, thread'[t] = IdleThread,
           opened'[t].fd # 0 => opened'[t].fd \in DOMAIN fds' /\ fds'[opened'[t].fd] = opened'[t].path
    PROVE  StackFits(t)' /\ FhFits(t)' /\ OpenedFits(t)' /\ CopyFits(t)' /\ LooksFit(t)'
<1>1. IdleThread.looks = <<>> /\ IdleThread.pc = "idle" /\ Len(<<>>) = 0
  BY DEF IdleThread
<1>2. StackFits(t)'
  BY <1>1 DEF StackFits
<1> QED
  BY <1>1, <1>2 DEF FhFits, OpenedFits, CopyFits, LooksFit

\* A function that failed starts over with what it had.
LEMMA RestartedFits ==
    ASSUME IInv, NEW t \in Thread, thread'[t] = Restarted(thread[t]), UNCHANGED <<table, fds, opened, drawn>>
    PROVE  StackFits(t)' /\ FhFits(t)' /\ OpenedFits(t)' /\ CopyFits(t)' /\ LooksFit(t)'
<1> DEFINE r == thread[t]
           again == [r EXCEPT !.again = "no"]
<1>1. r \in ThreadRecord /\ StackFits(t) /\ FhFits(t) /\ OpenedFits(t) /\ CopyFits(t)
  BY DEF IInv, Types, ClientType, Handles
<1>2. again \in ThreadRecord /\ \A h, p : HandleOf(h, p) => HandleOf(h, p)'
  BY <1>1 DEF ThreadRecord, HandleOf
<1>3. opened'[t].fd # 0 => opened'[t].fd \in DOMAIN fds' /\ fds'[opened'[t].fd] = opened'[t].path
  BY <1>1 DEF OpenedFits
<1>4. CASE r.looks # <<>>
  <2> DEFINE d == [again EXCEPT !.look = "find"]
  <2>1. thread'[t] = d
    BY <1>4 DEF Restarted
  <2>2. d.looks = r.looks /\ d.path = r.path /\ d.pc = r.pc /\ d.look = "find" /\ d.copy = r.copy
    BY <1>1 DEF ThreadRecord
  <2> HIDE DEF d
  <2>3. StackFits(t)'
    BY <1>1, <2>1, <2>2 DEF StackFits
  <2>4. CopyFits(t)'
    BY <1>1, <2>1, <2>2 DEF CopyFits, Drawn
  <2> QED
    BY <1>1, <1>4, <2>1, <2>2, <2>3, <2>4 DEF FhFits, OpenedFits, LooksFit
<1>5. CASE r.looks = <<>> /\ r.pc \in {"open", "close"}
  <2>1. thread'[t] = LookingUp(again, "open") \/ thread'[t] = LookingUp(again, "collect")
    BY <1>5 DEF Restarted
  <2> HIDE DEF again
  <2> QED
    BY <1>2, <1>3, <2>1, LookingUpFits
<1>6. CASE r.looks = <<>> /\ r.pc \notin {"open", "close"}
  <2> DEFINE d == IF r.pc = "committing" THEN [again EXCEPT !.pc = "collect"] ELSE again
  <2>1. thread'[t] = d
    BY <1>6 DEF Restarted
  <2>2. /\ d.looks = <<>> /\ d.path = r.path /\ d.fh = r.fh /\ d.copy = r.copy
        /\ d.pc = IF r.pc = "committing" THEN "collect" ELSE r.pc
    BY <1>1, <1>6 DEF ThreadRecord
  <2> HIDE DEF d
  <2>3. StackFits(t)'
    BY <1>6, <2>1, <2>2 DEF StackFits
  <2>4. FhFits(t)'
    BY <1>1, <1>2, <1>6, <2>1, <2>2 DEF FhFits
  <2>5. CopyFits(t)'
    BY <1>1, <2>1, <2>2 DEF CopyFits, Drawn
  <2> QED
    BY <1>1, <2>1, <2>2, <2>3, <2>4, <2>5 DEF OpenedFits, LooksFit
<1> QED
  BY <1>4, <1>5, <1>6
\* The client keeps them, too.
LEMMA StepHandles ==
    ASSUME IInv, NEW t \in Thread, Ask(t) \/ Step(t), Types'
    PROVE  Handles'
<1> DEFINE c == call[t]
           r == thread[t]
           p == Head(r.looks)
<1>0. /\ r \in ThreadRecord /\ r.looks \in Seq(Path) /\ r.path \in Path
      /\ thread \in [Thread -> ThreadRecord]
      /\ call \in [Thread -> CallRecord] /\ opened \in [Thread -> [path : Path, fd : Nat]]
      /\ CallFits(t) /\ FhFits(t) /\ StackFits(t) /\ OpenedFits(t) /\ CopyFits(t)
  BY DEF IInv, Types, RestType, ClientType, ThreadRecord, Handles
<1>1. ~Over => ~crossed /\ LookupFits(t) /\ LooksFit(t)
  BY DEF IInv, Handles, Over
<1>2. \A phase : Phase(t, phase) => c.phase = phase /\ ~Over
  BY DEF Phase
<1>3. Running(t) => c.phase = "none" /\ r.again = "no" /\ ~Over
  BY DEF Running
<1>4. ASSUME NEW d, Becomes(t, d)
      PROVE  thread'[t] = d
  BY <1>0, <1>4 DEF Becomes
<1>5. Clear(t) => call'[t].phase = "none"
  BY <1>0 DEF Clear, Send, NoCall
<1>6. \A h, q : HandleOf(h, q) => h # NoFh
  BY DEF HandleOf, NoFh, IInv, Types, ServerType
<1>7. UNCHANGED fds => \A d \in DOMAIN fds : d \in DOMAIN fds' /\ fds'[d] = fds[d]
  OBVIOUS
<1>8. opened[t].fd # 0 => opened[t].fd \in DOMAIN fds /\ fds[opened[t].fd] = opened[t].path
  BY <1>0 DEF OpenedFits
<1>9. MapFits /\ TableFits
  BY DEF IInv, Handles
<1>10. r.looks # <<>> =>
         /\ p \in Path /\ p = r.looks[1] /\ Len(r.looks) \in Nat \ {0}
         /\ r.looks[Len(r.looks)] = r.path
         /\ \A i \in 1 .. Len(r.looks) : r.looks[i] \in Path
  BY <1>0 DEF StackFits
<1>11. CASE Ask(t)
  <2>1. At(t, "idle") /\ c.phase = "none" /\ ~Over
    BY <1>3, <1>11 DEF Ask, At
  <2>2. PICK d \in ThreadRecord, pc \in {"open", "push", "collect"} :
          Becomes(t, LookingUp(d, pc)) /\ (pc = "push" => opened[t].fd # 0)
    <3>1. ASSUME NEW cb \in {"open", "write", "release"}, NEW q \in Path
          PROVE  [IdleThread EXCEPT !.cb = cb, !.path = q] \in ThreadRecord
      BY RecordTypes DEF IInv, ThreadRecord
    <3>2. \A q \in load.uses[t] : q \in Path
      BY ThreadsAssumption DEF IInv, Types, ClientType
    <3>3. opened[t].path \in Path
      BY <1>0
    <3> QED
      BY <1>11, <3>1, <3>2, <3>3 DEF Ask
  <2>3. UNCHANGED <<serverVars, pathtofh, crossed, call, opened, drawn>> /\ UNCHANGED fds
    BY <1>11 DEF Ask, serverVars
  <2>4. StackFits(t)' /\ FhFits(t)' /\ OpenedFits(t)' /\ CopyFits(t)' /\ LooksFit(t)'
    BY <1>4, <1>8, <2>2, <2>3, LookingUpFits
  <2> HIDE DEF c
  <2> QED
    BY <2>1, <2>2, <2>3, <2>4, GoesOnKeeps DEF c
<1>12. CASE LookupFind(t)
  <2>1. Running(t) /\ r.looks # <<>> /\ r.look = "find" /\ c.phase = "none" /\ ~Over
    BY <1>3, <1>12 DEF LookupFind, Looks
  <2>2. /\ UNCHANGED <<serverVars, pathtofh, crossed, call, opened, drawn>>
        /\ UNCHANGED <<fds, table>>
    BY <1>12 DEF LookupFind, serverVars
  <2> DEFINE d == IF pathtofh[p] # NoFh THEN [r EXCEPT !.look = "get"]
                  ELSE [r EXCEPT !.looks = <<Parent(p)>> \o @]
  <2>3. Becomes(t, d) /\ thread'[t] = d
    BY <1>4, <1>12 DEF LookupFind
  <2>4. /\ d.path = r.path /\ d.pc = r.pc /\ d.copy = r.copy /\ d.looks # <<>>
        /\ d.look = IF pathtofh[p] # NoFh THEN "get" ELSE "find"
        /\ d.looks = IF pathtofh[p] # NoFh THEN r.looks ELSE <<Parent(p)>> \o r.looks
    BY <1>0, <2>1 DEF ThreadRecord
  <2> HIDE DEF d
  <2>5. StackFits(t)'
    <3>1. CASE pathtofh[p] # NoFh
      BY <1>0, <2>3, <2>4, <3>1 DEF StackFits
    <3>2. CASE pathtofh[p] = NoFh
      <4>1. p # Root
        BY <1>9, <3>2 DEF MapFits, NoFh
      <4>2. /\ d.looks = <<Parent(p)>> \o r.looks /\ Len(d.looks) = Len(r.looks) + 1
            /\ d.looks[1] = Parent(p)
            /\ \A i \in 2 .. Len(d.looks) : d.looks[i] = r.looks[i - 1]
        BY <1>0, <1>10, <2>1, <2>4, <3>2, ParentFact
      <4>3. \A i \in 2 .. Len(r.looks) : r.looks[i] # Root /\ r.looks[i - 1] = Parent(r.looks[i])
        BY <1>0 DEF StackFits
      <4>4. ASSUME NEW i \in 2 .. Len(d.looks)
            PROVE  d.looks[i] # Root /\ d.looks[i - 1] = Parent(d.looks[i])
        <5>1. CASE i = 2
          BY <1>10, <2>1, <4>1, <4>2, <5>1
        <5>2. CASE i # 2
          <6>1. i - 1 \in 2 .. Len(r.looks) /\ i - 1 \in 2 .. Len(d.looks)
            BY <1>10, <2>1, <4>2, <5>2
          <6>2. d.looks[i] = r.looks[i - 1] /\ d.looks[i - 1] = r.looks[i - 1 - 1]
            BY <4>2, <6>1
          <6> QED
            BY <4>3, <6>1, <6>2
        <5> QED
          BY <5>1, <5>2
      <4>5. d.looks[Len(d.looks)] = r.path
        <5>1. Len(d.looks) \in 2 .. Len(d.looks) /\ Len(d.looks) - 1 = Len(r.looks)
          BY <1>10, <2>1, <4>2
        <5> QED
          BY <1>10, <2>1, <4>2, <5>1
      <4> QED
        BY <2>3, <2>4, <3>2, <4>4, <4>5 DEF StackFits
    <3> QED
      BY <3>1, <3>2
  <2>6. FhFits(t)' /\ LooksFit(t)'
    BY <2>2, <2>3, <2>4 DEF FhFits, LooksFit
  <2>7. OpenedFits(t)' /\ CopyFits(t)'
    BY <1>0, <2>2, <2>3, <2>4 DEF OpenedFits, CopyFits, Drawn
  <2> QED
    BY <2>1, <2>2, <2>3, <2>5, <2>6, <2>7, GoesOnKeeps
<1>13. CASE LookupGet(t)
  <2>1. Running(t) /\ r.looks # <<>> /\ r.look = "get" /\ c.phase = "none" /\ ~Over
    BY <1>3, <1>13 DEF LookupGet, Looks
  <2>2. /\ UNCHANGED <<serverVars, pathtofh, crossed, call, opened, drawn>>
        /\ UNCHANGED <<fds, table>>
    BY <1>13 DEF LookupGet, serverVars
  <2> DEFINE d == [r EXCEPT !.looks = Tail(@), !.look = "send", !.fh = pathtofh[p]]
             rest == Tail(r.looks)
  <2>3. Becomes(t, d) /\ thread'[t] = d
    BY <1>4, <1>13 DEF LookupGet
  <2>4. /\ d.path = r.path /\ d.pc = r.pc /\ d.copy = r.copy /\ d.looks = rest
        /\ d.look = "send" /\ d.fh = pathtofh[p]
    BY <1>0 DEF ThreadRecord
  <2>5. /\ Len(rest) = Len(r.looks) - 1 /\ Len(rest) \in Nat
        /\ \A i \in 1 .. Len(rest) : rest[i] = r.looks[i + 1]
        /\ rest # <<>> => Len(rest) # 0 /\ Head(rest) = rest[1]
        /\ rest = <<>> => Len(rest) = 0
    <3>1. /\ rest \in Seq(Path) /\ Len(rest) = Len(r.looks) - 1
          /\ \A i \in 1 .. Len(rest) : rest[i] = r.looks[i + 1]
      BY <1>0, <1>10, <2>1, HeadTailProperties
    <3> HIDE DEF rest
    <3>2. Len(rest) \in Nat
      BY <3>1, LenProperties
    <3>3. rest = <<>> <=> Len(rest) = 0
      BY <3>1, EmptySeq
    <3>4. rest # <<>> => Head(rest) = rest[1]
      BY <3>1
    <3> QED
      BY <3>1, <3>2, <3>3, <3>4
  <2>6. pathtofh[p] # NoFh /\ HandleOf(pathtofh[p], p)
    BY <1>1, <1>9, <1>10, <2>1 DEF LooksFit, MapFits, Running
  <2>7. \A i \in 2 .. Len(r.looks) : r.looks[i] # Root /\ r.looks[i - 1] = Parent(r.looks[i])
    BY <1>0 DEF StackFits
  <2> HIDE DEF d, rest
  <2>8. rest # <<>> =>
          /\ Len(rest) \in 1 .. Len(rest) /\ Len(rest) + 1 = Len(r.looks)
          /\ Head(rest) # Root /\ Parent(Head(rest)) = p
    <3>1. rest # <<>> =>
            /\ 1 \in 1 .. Len(rest) /\ 1 + 1 \in 2 .. Len(r.looks) /\ 1 + 1 - 1 = 1
            /\ Len(rest) \in 1 .. Len(rest) /\ Len(rest) + 1 = Len(r.looks)
      BY <1>10, <2>1, <2>5
    <3>2. rest # <<>> => Head(rest) = r.looks[1 + 1]
      BY <2>5, <3>1
    <3>3. rest # <<>> => r.looks[1 + 1] # Root /\ r.looks[1] = Parent(r.looks[1 + 1])
      BY <2>7, <3>1
    <3> QED
      BY <1>10, <2>1, <3>1, <3>2, <3>3
  <2>9. StackFits(t)'
    <3>1. ASSUME NEW i \in 2 .. Len(rest)
          PROVE  rest[i] # Root /\ rest[i - 1] = Parent(rest[i])
      <4>1. /\ i \in 1 .. Len(rest) /\ i - 1 \in 1 .. Len(rest) /\ i + 1 \in 2 .. Len(r.looks)
            /\ i - 1 + 1 = i + 1 - 1
        BY <1>10, <2>1, <2>5
      <4> QED
        BY <2>5, <2>7, <4>1
    <3>2. rest # <<>> => rest[Len(rest)] = r.path
      BY <1>10, <2>1, <2>5, <2>8
    <3> QED
      BY <2>3, <2>4, <2>8, <3>1, <3>2 DEF StackFits
  <2>10. FhFits(t)'
    <3>1. rest = <<>> => p = r.path
      BY <1>10, <2>1, <2>5
    <3> QED
      BY <2>2, <2>3, <2>4, <2>6, <3>1 DEF FhFits, HandleOf
  <2>11. LooksFit(t)'
    BY <2>2, <2>3, <2>4, <2>6, <2>8 DEF LooksFit
  <2>12. OpenedFits(t)' /\ CopyFits(t)'
    BY <1>0, <2>2, <2>3, <2>4 DEF OpenedFits, CopyFits, Drawn
  <2> QED
    BY <2>1, <2>2, <2>3, <2>9, <2>10, <2>11, <2>12, GoesOnKeeps
<1>14. CASE LookupSend(t)
  <2> DEFINE e == [NoCall EXCEPT !.phase = "sent", !.cmd = "lookup", !.fh = pathtofh[Parent(p)],
                                 !.name = Last(p)]
  <2>1. Running(t) /\ r.looks # <<>> /\ r.look = "send" /\ ~Over
    BY <1>3, <1>14 DEF LookupSend, Looks
  <2>2. HandleOf(pathtofh[Parent(p)], Parent(p))
    BY <1>1, <1>9, <1>10, <2>1, ParentFact DEF LooksFit, MapFits, Running
  <2>3. /\ e.phase = "sent" /\ e.cmd = "lookup" /\ e.fh = pathtofh[Parent(p)] /\ e.name = Last(p)
    BY DEF NoCall
  <2>4. Send(t, e) /\ UNCHANGED <<serverVars, clientVars, crossed>>
    BY <1>14 DEF LookupSend
  <2> HIDE DEF e
  <2> QED
    BY <2>1, <2>2, <2>3, <2>4, SendKeeps
<1>15. CASE GotHandle(t)
  <2>1. c.phase = "answered" /\ c.cmd = "lookup" /\ ~Over /\ call'[t].phase = "none"
    BY <1>2, <1>5, <1>15 DEF GotHandle, Answered
  <2>2. r.looks # <<>> /\ r.look = "send" /\ HandleOf(c.rep, p) /\ r.again = "no"
    BY <1>0, <1>1, <2>1 DEF CallFits, LookupFits
  <2>3. UNCHANGED <<table, fds, crossed, opened, drawn>>
    BY <1>15 DEF GotHandle, serverVars
  <2> DEFINE d == [r EXCEPT !.look = "get"]
  <2>4. thread'[t] = d /\ thread' = [thread EXCEPT ![t] = d]
    BY <1>4, <1>15 DEF GotHandle, Becomes
  <2>5. /\ d.path = r.path /\ d.pc = r.pc /\ d.copy = r.copy /\ d.looks = r.looks
        /\ d.look = "get" /\ d.again = "no"
    BY <1>0, <2>2 DEF ThreadRecord
  <2> HIDE DEF d
  <2>6. pathtofh' = [pathtofh EXCEPT ![p] = c.rep] /\ pathtofh \in [Path -> Fh \cup {NoFh}]
    BY <1>15 DEF GotHandle, IInv, Types, ClientType, PathMap
  <2>7. pathtofh'[p] = c.rep /\ \A q \in Path \ {p} : pathtofh'[q] = pathtofh[q]
    BY <1>10, <2>2, <2>6
  <2>8. c.rep # NoFh
    BY <1>6, <2>2
  <2>9. \A u \in Others(t) : Unmoved(u)
    BY <1>0, <1>15, <2>3, <2>4 DEF Others, Unmoved, GotHandle, Answered, Clear, Send
  <2>10. Grows
    BY <2>3, GrowsSame
  <2>11. StackFits(t)' /\ FhFits(t)' /\ OpenedFits(t)' /\ CopyFits(t)' /\ LooksFit(t)'
    <3>1. StackFits(t)'
      BY <1>0, <2>4, <2>5 DEF StackFits
    <3>2. OpenedFits(t)' /\ CopyFits(t)'
      BY <1>0, <2>3, <2>4, <2>5 DEF OpenedFits, CopyFits, Drawn
    <3>3. FhFits(t)' /\ LooksFit(t)'
      BY <2>2, <2>4, <2>5, <2>7, <2>8 DEF FhFits, LooksFit
    <3> QED
      BY <3>1, <3>2, <3>3
  <2>12. MapFits'
    <3>1. \A h, q : HandleOf(h, q) => HandleOf(h, q)'
      BY <2>3 DEF HandleOf
    <3>2. p # Root \/ c.rep = 0
      BY <1>9, <2>2 DEF TableFits, HandleOf
    <3>3. Root \in Path
      BY PathAssumption
    <3> QED
      BY <1>9, <2>2, <2>7, <3>1, <3>2, <3>3 DEF MapFits, HandleOf
  <2>13. ASSUME NEW u \in Others(t)
         PROVE  LooksFit(u)'
    <3> DEFINE q == Head(thread[u].looks)
    <3>1. LooksFit(u) /\ UNCHANGED thread[u] /\ thread[u].looks \in Seq(Path)
      BY <1>0, <2>1, <2>9 DEF Others, Unmoved, IInv, Handles, Over, ThreadRecord
    <3>2. thread[u].looks # <<>> => q \in Path /\ Parent(q) \in Path
      BY <3>1, ParentFact
    <3> QED
      BY <2>7, <2>8, <3>1, <3>2 DEF LooksFit
  <2>14. CallFits(t)' /\ LookupFits(t)'
    BY <2>1 DEF CallFits, LookupFits
  <2> QED
    BY <2>1, <2>3, <2>9, <2>10, <2>11, <2>12, <2>13, <2>14, MapStepKeeps DEF Adding
<1>16. CASE SendOpen(t)
  <2> DEFINE e == [NoCall EXCEPT !.phase = "sent", !.cmd = "open", !.fh = r.fh]
  <2>1. Running(t) /\ r.looks = <<>> /\ r.pc = "open"
    BY <1>16 DEF SendOpen, At
  <2>2. e.phase = "sent" /\ e.cmd = "open" /\ e.fh = r.fh
    BY DEF NoCall
  <2>3. Send(t, e) /\ UNCHANGED <<serverVars, clientVars, crossed>>
    BY <1>16 DEF SendOpen
  <2> HIDE DEF e
  <2> QED
    BY <2>1, <2>2, <2>3, SendKeeps
<1>17. CASE GotOpen(t)
  <2>1. c.phase = "answered" /\ c.cmd = "open" /\ ~Over /\ call'[t].phase = "none" /\ Clear(t)
    BY <1>2, <1>5, <1>17 DEF GotOpen, Answered
  <2>2. c.rep # -1 => c.rep \in DOMAIN fds /\ fds[c.rep] = r.path
    BY <1>0, <2>1 DEF CallFits
  <2>3. UNCHANGED <<serverVars, pathtofh, crossed, drawn>> /\ UNCHANGED fds
    BY <1>17 DEF GotOpen, serverVars
  <2>4. Becomes(t, IdleThread) /\ thread'[t] = IdleThread
    BY <1>4, <1>17 DEF GotOpen
  <2>5. /\ opened'[t].fd # 0 => opened'[t].fd \in DOMAIN fds' /\ fds'[opened'[t].fd] = opened'[t].path
        /\ \A u \in Others(t) : UNCHANGED opened[u]
    <3>1. CASE c.rep = -1
      BY <1>8, <1>17, <2>3, <3>1 DEF GotOpen
    <3>2. CASE c.rep # -1
      <4>1. opened' = [opened EXCEPT ![t] = [path |-> r.path, fd |-> c.rep]]
        BY <1>17, <3>2 DEF GotOpen
      <4> QED
        BY <1>0, <2>2, <2>3, <3>2, <4>1 DEF Others
    <3> QED
      BY <3>1, <3>2
  <2>6. StackFits(t)' /\ FhFits(t)' /\ OpenedFits(t)' /\ CopyFits(t)' /\ LooksFit(t)'
    BY <2>4, <2>5, IdleFits
  <2> QED
    BY <2>1, <2>3, <2>4, <2>5, <2>6, GoesOnKeeps
<1>18. CASE Push(t)
  <2> DEFINE k == [fh |-> r.fh, gen |-> drawn + 1, fd |-> opened[t].fd]
             d == [r EXCEPT !.copy = <<k>>, !.pc = "send"]
  <2>1. Running(t) /\ r.looks = <<>> /\ r.pc = "push" /\ c.phase = "none" /\ ~Over
    BY <1>3, <1>18 DEF Push, At
  <2>2. UNCHANGED <<serverVars, pathtofh, crossed, opened, call>> /\ UNCHANGED <<fds, table>>
    BY <1>18 DEF Push, serverVars
  <2>3. Becomes(t, d) /\ thread'[t] = d /\ drawn' = drawn + 1 /\ drawn \in Nat
    BY <1>4, <1>18 DEF Push, IInv, Types, ClientType
  <2>4. /\ d.path = r.path /\ d.pc = "send" /\ d.copy = <<k>> /\ d.looks = <<>> /\ d.fh = r.fh
    BY <1>0, <2>1 DEF ThreadRecord
  <2>5. d.copy[1].gen \in 1 .. drawn' /\ d.copy[1].fd \in DOMAIN fds' /\ Len(d.copy) = 1
    <3>1. d.copy[1].gen = drawn + 1 /\ d.copy[1].fd = opened[t].fd /\ Len(d.copy) = 1
      BY <2>4
    <3>2. drawn + 1 \in 1 .. drawn' /\ opened[t].fd \in DOMAIN fds'
      BY <1>0, <2>1, <2>2, <2>3 DEF OpenedFits
    <3> QED
      BY <3>1, <3>2
  <2> HIDE DEF d
  <2>6. StackFits(t)'
    BY <1>0, <2>1, <2>3, <2>4 DEF StackFits
  <2>7. FhFits(t)' /\ LooksFit(t)'
    BY <1>0, <2>1, <2>2, <2>3, <2>4 DEF FhFits, LooksFit, HandleOf
  <2>8. OpenedFits(t)' /\ CopyFits(t)'
    BY <1>8, <2>2, <2>3, <2>4, <2>5 DEF OpenedFits, CopyFits, Drawn
  <2> QED
    BY <2>1, <2>2, <2>3, <2>6, <2>7, <2>8, GoesOnKeeps
<1>19. CASE SendWrite(t)
  <2> DEFINE k == r.copy[1]
             e == [NoCall EXCEPT !.phase = "sent", !.cmd = "write", !.fh = k.fh, !.gen = k.gen,
                                 !.fd = k.fd]
  <2>1. Running(t) /\ r.looks = <<>> /\ r.pc \in {"send", "resending"}
    BY <1>19 DEF SendWrite, At
  <2>2. Drawn(k.gen, k.fd)
    BY <1>0, <2>1 DEF CopyFits
  <2>3. e.phase = "sent" /\ e.cmd = "write" /\ e.gen = k.gen /\ e.fd = k.fd
    BY DEF NoCall
  <2>4. Send(t, e) /\ UNCHANGED <<serverVars, clientVars, crossed>>
    BY <1>19 DEF SendWrite
  <2> HIDE DEF e
  <2> QED
    BY <2>1, <2>2, <2>3, <2>4, SendKeeps
<1>20. CASE GotWrite(t)
  <2> DEFINE d == [r EXCEPT !.pc = "resend", !.at = @ + 1, !.copy = <<>>]
  <2>1. c.phase = "answered" /\ c.cmd = "write" /\ ~Over /\ call'[t].phase = "none" /\ Clear(t)
    BY <1>2, <1>5, <1>20 DEF GotWrite, Answered
  <2>2. r.looks = <<>> /\ r.pc \in {"send", "resending"}
    BY <1>0, <2>1 DEF CallFits
  <2>3. /\ UNCHANGED <<serverVars, pathtofh, crossed, drawn, opened>>
        /\ UNCHANGED <<fds, table>>
    BY <1>20 DEF GotWrite, serverVars
  <2>4. Becomes(t, IdleThread) \/ Becomes(t, d)
    BY <1>20 DEF GotWrite
  <2>5. d.path = r.path /\ d.pc = "resend" /\ d.looks = <<>> /\ d.fh = r.fh
    BY <1>0, <2>2 DEF ThreadRecord
  <2> HIDE DEF d
  <2>6. CASE Becomes(t, IdleThread)
    <3>1. StackFits(t)' /\ FhFits(t)' /\ OpenedFits(t)' /\ CopyFits(t)' /\ LooksFit(t)'
      BY <1>4, <1>8, <2>3, <2>6, IdleFits
    <3> QED
      BY <2>1, <2>3, <2>6, <3>1, GoesOnKeeps
  <2>7. CASE Becomes(t, d)
    <3>1. thread'[t] = d
      BY <1>4, <2>7
    <3>2. StackFits(t)'
      BY <1>0, <2>2, <2>5, <3>1 DEF StackFits
    <3>3. FhFits(t)' /\ OpenedFits(t)' /\ CopyFits(t)' /\ LooksFit(t)'
      BY <1>0, <1>8, <2>2, <2>3, <2>5, <3>1 DEF FhFits, OpenedFits, CopyFits, LooksFit, HandleOf
    <3> QED
      BY <2>1, <2>3, <2>7, <3>2, <3>3, GoesOnKeeps
  <2> QED
    BY <2>4, <2>6, <2>7
<1>21. CASE Collect(t)
  <2>1. Running(t) /\ r.looks = <<>> /\ r.pc = "collect" /\ c.phase = "none" /\ ~Over
    BY <1>3, <1>21 DEF Collect, At
  <2>2. /\ UNCHANGED <<serverVars, pathtofh, crossed, drawn, opened>>
        /\ UNCHANGED <<fds, table>>
    BY <1>21 DEF Collect, serverVars
  <2>3. CASE Dirty(t) = <<>>
    <3>1. Becomes(t, LookingUp(r, "close")) /\ UNCHANGED call
      BY <1>21, <2>3 DEF Collect
    <3>2. StackFits(t)' /\ FhFits(t)' /\ OpenedFits(t)' /\ CopyFits(t)' /\ LooksFit(t)'
      BY <1>0, <1>4, <1>8, <2>2, <3>1, LookingUpFits
    <3> QED
      BY <2>1, <2>2, <3>1, <3>2, GoesOnKeeps
  <2>4. CASE Dirty(t) # <<>>
    <3> DEFINE d == [r EXCEPT !.pc = "committing"]
               e == [NoCall EXCEPT !.phase = "sent", !.cmd = "commit", !.fh = r.fh,
                                   !.gens = [i \in DOMAIN Dirty(t) |-> Dirty(t)[i].gen]]
    <3>1. Becomes(t, d) /\ thread'[t] = d /\ Send(t, e)
      BY <1>4, <1>21, <2>4 DEF Collect
    <3>2. /\ d.path = r.path /\ d.pc = "committing" /\ d.looks = <<>> /\ d.fh = r.fh
          /\ d.again = "no"
      BY <1>0, <2>1 DEF ThreadRecord, Running
    <3>3. e.phase = "sent" /\ e.cmd = "commit" /\ call'[t] = e
      BY <1>0, <3>1 DEF NoCall, Send
    <3>4. \A u \in Others(t) : Unmoved(u)
      BY <1>0, <2>2, <3>1 DEF Others, Unmoved, Becomes, Send
    <3> HIDE DEF d, e
    <3>5. StackFits(t)'
      BY <1>0, <3>1, <3>2 DEF StackFits
    <3>6. FhFits(t)' /\ OpenedFits(t)' /\ CopyFits(t)' /\ LooksFit(t)'
      BY <1>0, <1>8, <2>1, <2>2, <3>1, <3>2 DEF FhFits, OpenedFits, CopyFits, LooksFit, HandleOf
    <3>7. CallFits(t)' /\ LookupFits(t)' /\ call'[t].phase \notin Adding
      BY <3>1, <3>2, <3>3 DEF CallFits, LookupFits, Adding, Looping
    <3>8. Grows /\ UNCHANGED <<table, pathtofh>>
      BY <2>2, GrowsSame
    <3> QED
      BY <2>1, <3>4, <3>5, <3>6, <3>7, <3>8, StepKeeps
  <2> QED
    BY <2>3, <2>4
<1>22. CASE GotCommit(t)
  <2> DEFINE d == Missing(r)
  <2>1. c.phase = "answered" /\ c.cmd = "commit" /\ ~Over /\ call'[t].phase = "none" /\ Clear(t)
    BY <1>2, <1>5, <1>22 DEF GotCommit, Answered
  <2>2. r.looks = <<>> /\ r.pc = "committing"
    BY <1>0, <2>1 DEF CallFits
  <2>3. /\ UNCHANGED <<serverVars, pathtofh, crossed, drawn, opened>>
        /\ UNCHANGED <<fds, table>>
    BY <1>22 DEF GotCommit, serverVars
  <2>4. Becomes(t, LookingUp(r, "close")) \/ Becomes(t, d)
    BY <1>22 DEF GotCommit
  <2>5. d.path = r.path /\ d.pc = "resend" /\ d.looks = <<>> /\ d.fh = r.fh
    BY <1>0, <2>2 DEF Missing, ThreadRecord
  <2> HIDE DEF d
  <2>6. CASE Becomes(t, LookingUp(r, "close"))
    <3>1. StackFits(t)' /\ FhFits(t)' /\ OpenedFits(t)' /\ CopyFits(t)' /\ LooksFit(t)'
      BY <1>0, <1>4, <1>8, <2>3, <2>6, LookingUpFits
    <3> QED
      BY <2>1, <2>3, <2>6, <3>1, GoesOnKeeps
  <2>7. CASE Becomes(t, d)
    <3>1. thread'[t] = d
      BY <1>4, <2>7
    <3>2. StackFits(t)'
      BY <1>0, <2>2, <2>5, <3>1 DEF StackFits
    <3>3. FhFits(t)' /\ OpenedFits(t)' /\ CopyFits(t)' /\ LooksFit(t)'
      BY <1>0, <1>8, <2>2, <2>3, <2>5, <3>1 DEF FhFits, OpenedFits, CopyFits, LooksFit, HandleOf
    <3> QED
      BY <2>1, <2>3, <2>7, <3>2, <3>3, GoesOnKeeps
  <2> QED
    BY <2>4, <2>6, <2>7
<1>23. CASE Resend(t)
  <2>1. Running(t) /\ r.looks = <<>> /\ r.pc = "resend" /\ c.phase = "none" /\ ~Over
    BY <1>3, <1>23 DEF Resend, At
  <2>2. /\ UNCHANGED <<serverVars, pathtofh, crossed, call, drawn, opened>>
        /\ UNCHANGED <<fds, table>>
    BY <1>23 DEF Resend, serverVars
  <2> DEFINE d == [r EXCEPT !.pc = "collect"]
             e == [r EXCEPT !.pc = "resending", !.copy = <<chunks[r.at]>>]
  <2>3. \/ Becomes(t, d)
        \/ UNCHANGED thread
        \/ Becomes(t, e) /\ r.at \in DOMAIN chunks
    BY <1>23 DEF Resend
  <2>4. CASE UNCHANGED thread
    <3>1. Becomes(t, r)
      BY <1>0, <2>4 DEF Becomes
    <3>2. Grows
      BY <2>2, GrowsSame
    <3>3. StackFits(t)' /\ FhFits(t)' /\ OpenedFits(t)' /\ CopyFits(t)'
      BY <1>0, <2>2, <2>4, <3>2, ThreadKept
    <3>4. LooksFit(t)'
      BY <2>1, <2>4 DEF LooksFit
    <3> QED
      BY <2>1, <2>2, <3>1, <3>3, <3>4, GoesOnKeeps
  <2>5. CASE Becomes(t, d)
    <3>1. thread'[t] = d
      BY <1>4, <2>5
    <3>2. d.path = r.path /\ d.pc = "collect" /\ d.looks = <<>> /\ d.fh = r.fh
      BY <1>0, <2>1 DEF ThreadRecord
    <3> HIDE DEF d
    <3>3. StackFits(t)'
      BY <1>0, <2>1, <3>1, <3>2 DEF StackFits
    <3>4. FhFits(t)' /\ OpenedFits(t)' /\ CopyFits(t)' /\ LooksFit(t)'
      BY <1>0, <1>8, <2>1, <2>2, <3>1, <3>2 DEF FhFits, OpenedFits, CopyFits, LooksFit, HandleOf
    <3> QED
      BY <2>1, <2>2, <2>5, <3>3, <3>4, GoesOnKeeps
  <2>6. CASE Becomes(t, e) /\ r.at \in DOMAIN chunks
    <3>1. thread'[t] = e
      BY <1>4, <2>6
    <3>2. /\ e.path = r.path /\ e.pc = "resending" /\ e.looks = <<>> /\ e.fh = r.fh
          /\ e.copy = <<chunks[r.at]>>
      BY <1>0, <2>1 DEF ThreadRecord
    <3>3. Len(e.copy) = 1 /\ e.copy[1] = chunks[r.at]
      BY <3>2
    <3> HIDE DEF e
    <3>4. StackFits(t)'
      BY <1>0, <2>1, <3>1, <3>2 DEF StackFits
    <3>5. FhFits(t)' /\ OpenedFits(t)' /\ LooksFit(t)'
      BY <1>0, <1>8, <2>1, <2>2, <3>1, <3>2 DEF FhFits, OpenedFits, LooksFit, HandleOf
    <3>6. CopyFits(t)'
      <4>1. Drawn(chunks[r.at].gen, chunks[r.at].fd)
        BY <2>6 DEF IInv, Copies, VectorsFit
      <4> QED
        BY <2>2, <3>1, <3>3, <4>1 DEF CopyFits, Drawn
    <3> QED
      BY <2>1, <2>2, <2>6, <3>4, <3>5, <3>6, GoesOnKeeps
  <2> QED
    BY <2>3, <2>4, <2>5, <2>6
<1>24. CASE SendRelease(t)
  <2> DEFINE e == [NoCall EXCEPT !.phase = "sent", !.cmd = "release", !.fh = r.fh,
                                 !.fd = opened[t].fd]
  <2>1. Running(t) /\ r.looks = <<>> /\ r.pc = "close"
    BY <1>24 DEF SendRelease, At
  <2>2. e.phase = "sent" /\ e.cmd = "release"
    BY DEF NoCall
  <2>3. Send(t, e) /\ UNCHANGED <<serverVars, clientVars, crossed>>
    BY <1>24 DEF SendRelease
  <2> HIDE DEF e
  <2> QED
    BY <2>1, <2>2, <2>3, SendKeeps
<1>25. CASE GotRelease(t)
  <2>1. c.phase = "answered" /\ ~Over /\ call'[t].phase = "none" /\ Clear(t)
    BY <1>2, <1>5, <1>25 DEF GotRelease, Answered
  <2>2. UNCHANGED <<serverVars, pathtofh, crossed, drawn>>
    BY <1>25 DEF GotRelease
  <2>3. Becomes(t, IdleThread) /\ thread'[t] = IdleThread
    BY <1>4, <1>25 DEF GotRelease
  <2>4. opened'[t].fd = 0 /\ \A u \in Others(t) : UNCHANGED opened[u]
    BY <1>0, <1>25 DEF GotRelease, Others
  <2>5. StackFits(t)' /\ FhFits(t)' /\ OpenedFits(t)' /\ CopyFits(t)' /\ LooksFit(t)'
    BY <2>3, <2>4, IdleFits
  <2> QED
    BY <2>1, <2>2, <2>3, <2>4, <2>5, GoesOnKeeps
<1>26. CASE Failed(t)
  <2> DEFINE d == [r EXCEPT !.again = "sleep"]
  <2>1. c.phase = "failed" /\ ~Over /\ call'[t].phase = "none" /\ Clear(t)
    BY <1>2, <1>5, <1>26 DEF Failed
  <2>2. /\ UNCHANGED <<serverVars, pathtofh, crossed, drawn, opened>>
        /\ UNCHANGED <<fds, table>>
    BY <1>26 DEF Failed, serverVars
  <2>3. Becomes(t, d) /\ thread'[t] = d
    BY <1>4, <1>26 DEF Failed
  <2>4. /\ d.path = r.path /\ d.pc = r.pc /\ d.looks = r.looks /\ d.fh = r.fh /\ d.look = r.look
        /\ d.copy = r.copy
    BY <1>0 DEF ThreadRecord
  <2>5. r.again = "no"
    BY <1>0, <2>1 DEF CallFits
  <2> HIDE DEF d
  <2>6. StackFits(t)'
    BY <1>0, <2>3, <2>4 DEF StackFits
  <2>7. FhFits(t)' /\ OpenedFits(t)' /\ CopyFits(t)'
    BY <1>0, <2>2, <2>3, <2>4 DEF FhFits, OpenedFits, CopyFits, HandleOf, Drawn
  <2>8. LooksFit(t)'
    BY <1>1, <2>1, <2>2, <2>3, <2>4, <2>5 DEF LooksFit
  <2> QED
    BY <2>1, <2>2, <2>3, <2>6, <2>7, <2>8, GoesOnKeeps
<1>27. CASE Wake(t)
  <2>1. ~Over /\ c.phase = "none"
    BY <1>0, <1>27 DEF Wake, CallFits
  <2>2. /\ UNCHANGED <<serverVars, call, drawn, opened>>
        /\ UNCHANGED <<fds, table>>
    BY <1>27 DEF Wake, serverVars
  <2>3. CASE renewed
    <3>1. UNCHANGED <<pathtofh, crossed>> /\ Becomes(t, Restarted(r)) /\ thread'[t] = Restarted(r)
      BY <1>4, <1>27, <2>3 DEF Wake
    <3>2. StackFits(t)' /\ FhFits(t)' /\ OpenedFits(t)' /\ CopyFits(t)' /\ LooksFit(t)'
      BY <2>2, <3>1, RestartedFits
    <3> QED
      BY <2>1, <2>2, <3>1, <3>2, GoesOnKeeps
  <2>4. CASE ~renewed
    <3> DEFINE d == [r EXCEPT !.again = "reconnect"]
    <3>1. /\ pathtofh' = [q \in Path |-> IF q = Root THEN 0 ELSE NoFh]
          /\ Becomes(t, d) /\ thread'[t] = d
          /\ crossed' = (crossed \/ \E u \in Others(t) : thread[u].looks # <<>>)
      BY <1>4, <1>27, <2>4 DEF Wake
    <3>2. /\ d.path = r.path /\ d.pc = r.pc /\ d.looks = r.looks /\ d.fh = r.fh /\ d.look = r.look
          /\ d.copy = r.copy /\ d.again = "reconnect"
      BY <1>0 DEF ThreadRecord
    <3>3. \A u \in Others(t) : Unmoved(u)
      BY <1>0, <2>2, <3>1 DEF Others, Unmoved, Becomes
    <3> HIDE DEF d
    <3>4. Grows
      BY <2>2, GrowsSame
    <3>5. StackFits(t)'
      BY <1>0, <3>1, <3>2 DEF StackFits
    <3>6. FhFits(t)' /\ OpenedFits(t)' /\ CopyFits(t)' /\ LooksFit(t)'
      BY <1>0, <2>2, <3>1, <3>2 DEF FhFits, OpenedFits, CopyFits, LooksFit, HandleOf, Drawn
    <3>7. MapFits'
      BY <1>9, <2>2, <3>1, PathAssumption DEF MapFits, TableFits, HandleOf
    <3>8. ~crossed' => \A u \in Others(t) : LooksFit(u)'
      BY <3>1, <3>3 DEF Unmoved, LooksFit
    <3>9. CallFits(t)' /\ LookupFits(t)'
      BY <2>1, <2>2 DEF CallFits, LookupFits
    <3> QED
      BY <2>1, <2>2, <3>3, <3>4, <3>5, <3>6, <3>7, <3>8, <3>9, MapStepKeeps DEF Adding
  <2> QED
    BY <2>3, <2>4
<1>28. CASE Reconnect(t)
  <2>1. ~Over /\ c.phase = "none"
    BY <1>0, <1>28 DEF Reconnect, CallFits
  <2>2. /\ UNCHANGED <<serverVars, pathtofh, crossed, call, drawn, opened>>
        /\ UNCHANGED <<fds, table>>
    BY <1>28 DEF Reconnect, serverVars
  <2>3. Becomes(t, Restarted(r)) /\ thread'[t] = Restarted(r)
    BY <1>4, <1>28 DEF Reconnect
  <2>4. StackFits(t)' /\ FhFits(t)' /\ OpenedFits(t)' /\ CopyFits(t)' /\ LooksFit(t)'
    BY <2>2, <2>3, RestartedFits
  <2> QED
    BY <2>1, <2>2, <2>3, <2>4, GoesOnKeeps
<1> QED
  BY <1>11, <1>12, <1>13, <1>14, <1>15, <1>16, <1>17, <1>18, <1>19, <1>20, <1>21, <1>22, <1>23,
     <1>24, <1>25, <1>26, <1>27, <1>28 DEF Step

\* At the start only the root has a handle.
LEMMA InitHandles == Init => Handles
<1> SUFFICES ASSUME Init PROVE Handles
  OBVIOUS
<1>1. /\ table.fhcount = 1 /\ Root \in Path /\ 0 \in Fh
      /\ \A p \in Path : table.pathToFh[p] = IF p = Root THEN 0 ELSE NoFh
      /\ table.fhToPath[0] = Root
  BY PathAssumption, MaxFhAssumption DEF Init, NewTable, Fh
<1>2. HandleOf(0, Root) /\ 0 .. table.fhcount - 1 = {0}
  BY <1>1 DEF HandleOf
<1>3. TableFits
  BY <1>1, <1>2 DEF TableFits, Mapped
<1>4. MapFits
  BY <1>1, <1>2 DEF Init, MapFits
<1>5. ASSUME NEW t \in Thread
      PROVE  /\ StackFits(t) /\ FhFits(t) /\ OpenedFits(t) /\ CopyFits(t) /\ CallFits(t)
             /\ LooksFit(t) /\ LookupFits(t) /\ call[t].phase = "none"
  <2>1. /\ thread[t].looks = <<>> /\ thread[t].pc = "idle" /\ Len(<<>>) = 0
        /\ opened[t].fd = 0 /\ call[t].phase = "none"
    BY DEF Init, IdleThread, NoCall
  <2>2. StackFits(t)
    BY <2>1 DEF StackFits
  <2> QED
    BY <2>1, <2>2 DEF FhFits, OpenedFits, CopyFits, CallFits, LooksFit, LookupFits
<1> QED
  BY <1>3, <1>4, <1>5 DEF Handles, OneAdds, Adding
-----------------------------------------------------------------------------
(* Copies.                                                                  *)

\* The Writes that were there still are, and what is on disk.
WritesGrow ==
    /\ \A k \in DOMAIN writes : k \in DOMAIN writes' /\ writes'[k] = writes[k]
    /\ disk \subseteq disk'

\* No chunk of the file is new.
NoneNew(fh) ==
    \A k \in DOMAIN chunks' : chunks'[k].fh = fh => \E j \in DOMAIN chunks : chunks'[k] = chunks[j]

\* A commit goes on in the same way while the vectors change under it like that.
LEMMA CommitKept ==
    ASSUME NEW u, UNCHANGED <<call[u], thread[u]>>, WritesGrow, NoneNew(thread[u].fh), CommitFits(u)
    PROVE  CommitFits(u)'
<1> DEFINE c == call[u]
<1>1. Under(u)' = Under(u) /\ c' = c
  BY DEF Under
<1>2. \A gen : OnDisk(gen) => OnDisk(gen)'
  BY DEF OnDisk, WritesGrow
<1>3. \A gen : (\E k \in DOMAIN writes : writes[k].gen = gen) =>
               \E k \in DOMAIN writes' : writes'[k].gen = gen
  BY DEF WritesGrow
<1>4. (Under(u) =>
         \A k \in DOMAIN chunks : chunks[k].fh = thread[u].fh =>
            \E i \in DOMAIN c.gens : c.gens[i] = chunks[k].gen)'
  BY <1>1 DEF CommitFits, NoneNew
<1>5. c.phase \in Looping =>
        /\ c.i \in 1 .. Len(c.gens) + 1
        /\ \A i \in DOMAIN c.gens :
             /\ i < c.i => OnDisk(c.gens[i])'
             /\ i > c.i => \E k \in DOMAIN writes' : writes'[k].gen = c.gens[i]
  BY <1>1, <1>2, <1>3 DEF CommitFits
<1>6. c.phase = "loop" /\ c.i \in DOMAIN c.gens =>
        \E k \in DOMAIN writes' : writes'[k].gen = c.gens[c.i] /\ k >= c.at
  BY DEF CommitFits, WritesGrow
<1>7. c.phase = "wrote" =>
        /\ c.i \in DOMAIN c.gens /\ OnDisk(c.gens[c.i])'
        /\ c.at \in DOMAIN writes' /\ writes'[c.at].gen = c.gens[c.i]
  BY <1>1, <1>2 DEF CommitFits, WritesGrow
<1>8. Under(u) /\ c.phase = "answered" /\ c.rep = 0 =>
        \A i \in DOMAIN c.gens : OnDisk(c.gens[i])'
  BY <1>1, <1>2 DEF CommitFits
<1> HIDE DEF c
<1>9. c = call'[u]
  BY DEF c
<1> QED
  BY <1>1, <1>4, <1>5, <1>6, <1>7, <1>8, <1>9 DEF CommitFits, OnDisk, c

\* A call that is no commit asks nothing of the vectors.
LEMMA NoCommitFits ==
    ASSUME NEW t, ~Under(t)', call'[t].phase \notin Looping
    PROVE  GensFit(t)' /\ CommitFits(t)'
BY DEF GensFit, CommitFits, Looping

\* A step of one thread, or of the handler of its call.
LEMMA CopiesStep ==
    ASSUME IInv, NEW t \in Thread, \A u \in Others(t) : UNCHANGED <<call[u], thread[u]>>,
           VectorsFit', GensFit(t)',
           ~mixed' => NoneLost' /\ CommitFits(t)' /\ \A u \in Others(t) : CommitFits(u)'
    PROVE  Copies'
<1>1. ASSUME NEW u \in Thread
      PROVE  GensFit(u)'
  <2>1. CASE u = t
    BY <2>1
  <2>2. CASE u # t
    <3>1. UNCHANGED call[u] /\ GensFit(u)
      BY <2>2 DEF Others, IInv, Copies
    <3> QED
      BY <3>1 DEF GensFit, Under
  <2> QED
    BY <2>1, <2>2
<1>2. ~mixed' => \A u \in Thread : CommitFits(u)'
  BY DEF Others
<1> QED
  BY <1>1, <1>2 DEF Copies

\* Most steps have nothing to do with the vectors.
LEMMA QuietKeeps ==
    ASSUME IInv, NEW t \in Thread, \A u \in Others(t) : UNCHANGED <<call[u], thread[u]>>,
           UNCHANGED <<writes, disk, chunks, drawn, mixed>>,
           \A gen, fd : Drawn(gen, fd) => Drawn(gen, fd)',
           ~Under(t)', call'[t].phase \notin Looping
    PROVE  Copies'
<1>1. VectorsFit'
  <2>1. VectorsFit
    BY DEF IInv, Copies
  <2> QED
    BY <2>1 DEF VectorsFit
<1>2. GensFit(t)' /\ CommitFits(t)'
  BY NoCommitFits
<1>3. WritesGrow /\ \A fh : NoneNew(fh)
  BY DEF WritesGrow, NoneNew
<1>4. ASSUME ~mixed'
      PROVE  NoneLost' /\ \A u \in Others(t) : CommitFits(u)'
  <2>1. NoneLost /\ \A u \in Others(t) : CommitFits(u)
    BY <1>4 DEF IInv, Copies, Others
  <2>2. NoneLost'
    BY <2>1 DEF NoneLost, OnDisk, Copied
  <2> QED
    BY <1>3, <2>1, <2>2, CommitKept
<1> QED
  BY <1>1, <1>2, <1>4, CopiesStep
\* The handlers lose no write, unless they get into each other's commits.
LEMMA ServeCopies ==
    ASSUME IInv, NEW t \in Thread, Serve(t) \/ Lose(t), Types'
    PROVE  Copies'
<1> DEFINE c == call[t]
           r == thread[t]
<1>0. /\ c \in CallRecord /\ call \in [Thread -> CallRecord] /\ writes \in Seq(Chunk)
      /\ c.gens \in Seq(Nat) /\ c.i \in Nat /\ c.at \in Nat /\ Len(writes) \in Nat
      /\ DOMAIN writes = 1 .. Len(writes) /\ CallFits(t) /\ VectorsFit /\ GensFit(t)
      /\ mixed \in BOOLEAN
  <2>1. writes \in Seq(Chunk) /\ c \in CallRecord /\ call \in [Thread -> CallRecord] /\ mixed \in BOOLEAN
    BY DEF IInv, Types, RestType, ServerType
  <2>2. c.gens \in Seq(Nat) /\ c.i \in Nat /\ c.at \in Nat
    BY <2>1 DEF CallRecord
  <2>3. CallFits(t) /\ VectorsFit /\ GensFit(t)
    BY DEF IInv, Handles, Copies
  <2> QED
    BY <2>1, <2>2, <2>3, LenProperties
<1>1. ~mixed => NoneLost /\ \A u \in Thread : CommitFits(u)
  BY DEF IInv, Copies
<1>2. \A phase : Phase(t, phase) => c.phase = phase
  BY DEF Phase
<1>3. ASSUME NEW d, call' = [call EXCEPT ![t] = d], UNCHANGED clientVars
      PROVE  /\ \A u \in Others(t) : UNCHANGED <<call[u], thread[u]>>
             /\ call'[t] = d /\ UNCHANGED <<chunks, drawn, thread>>
  BY <1>0, <1>3 DEF Others, clientVars
<1>4. ASSUME NEW d, call' = [call EXCEPT ![t] = d], UNCHANGED <<writes, disk, clientVars, mixed>>,
             \A k \in DOMAIN fds : k \in DOMAIN fds',
             d.cmd # "commit" \/ d.phase = "failed", d.phase \notin Looping
      PROVE  Copies'
  <2>1. /\ \A u \in Others(t) : UNCHANGED <<call[u], thread[u]>>
        /\ call'[t] = d /\ UNCHANGED <<chunks, drawn, thread>>
    BY <1>3, <1>4
  <2>2. ~Under(t)'
    BY <1>4, <2>1 DEF Under
  <2>3. \A gen, fd : Drawn(gen, fd) => Drawn(gen, fd)'
    BY <1>4, <2>1 DEF Drawn
  <2>4. UNCHANGED <<writes, disk, chunks, drawn, mixed>>
    BY <1>4, <2>1
  <2> QED
    BY <1>4, <2>1, <2>2, <2>3, <2>4, QuietKeeps
<1>5. ASSUME NEW phase, phase \notin Looping, Goes(t, phase), c.cmd # "commit",
             UNCHANGED <<writes, disk, fds, clientVars, mixed>>
      PROVE  Copies'
  <2> DEFINE d == [c EXCEPT !.phase = phase]
  <2>1. d.cmd = c.cmd /\ d.phase = phase /\ call' = [call EXCEPT ![t] = d]
    BY <1>0, <1>5 DEF CallRecord, Goes
  <2> HIDE DEF d
  <2> QED
    BY <1>4, <1>5, <2>1
<1>6. ASSUME NEW rep, Answer(t, rep), c.cmd # "commit",
             UNCHANGED <<writes, disk, clientVars, mixed>>, \A k \in DOMAIN fds : k \in DOMAIN fds'
      PROVE  Copies'
  <2> DEFINE d == [c EXCEPT !.phase = "answered", !.rep = rep]
  <2>1. d.cmd = c.cmd /\ d.phase = "answered" /\ call' = [call EXCEPT ![t] = d]
    BY <1>0, <1>6 DEF CallRecord, Answer
  <2> HIDE DEF d
  <2> QED
    BY <1>4, <1>6, <2>1 DEF Looping
<1>7. CASE ServeLookup(t)
  <2> DEFINE q == Join(PathFound(t), c.name)
             d == [c EXCEPT !.path = q, !.phase = IF Mapped(table, q) THEN "read" ELSE "number"]
  <2>1. c.cmd = "lookup" /\ call' = [call EXCEPT ![t] = d]
    BY <1>7 DEF ServeLookup, Request
  <2>2. d.cmd = "lookup" /\ d.phase \in {"read", "number"}
    BY <1>0, <2>1 DEF CallRecord
  <2>3. UNCHANGED <<writes, disk, clientVars, mixed>> /\ UNCHANGED fds
    BY <1>7 DEF ServeLookup, serverVars
  <2> HIDE DEF d
  <2> QED
    BY <1>4, <2>1, <2>2, <2>3 DEF Looping
<1>8. CASE AddNumber(t)
  <2>1. c.cmd # "commit"
    BY <1>0, <1>2, <1>8 DEF AddNumber, AddStep, CallFits, Adding
  <2> QED
    BY <1>5, <1>8, <2>1 DEF AddNumber, AddStep, Looping
<1>9. CASE AddPath(t)
  <2>1. c.cmd # "commit"
    BY <1>0, <1>2, <1>9 DEF AddPath, AddStep, CallFits, Adding
  <2> QED
    BY <1>5, <1>9, <2>1 DEF AddPath, AddStep, Looping
<1>10. CASE AddCount(t)
  <2>1. c.cmd # "commit"
    BY <1>0, <1>2, <1>10 DEF AddCount, AddStep, CallFits, Adding
  <2> QED
    BY <1>5, <1>10, <2>1 DEF AddCount, AddStep, Looping
<1>11. CASE ReadHandle(t)
  <2>1. c.cmd # "commit" /\ UNCHANGED fds
    BY <1>0, <1>2, <1>11 DEF ReadHandle, CallFits, serverVars
  <2> QED
    BY <1>6, <1>11, <2>1 DEF ReadHandle, serverVars
<1>12. CASE ServeOpen(t)
  <2>1. c.cmd # "commit" /\ fds \in Seq(Files)
    BY <1>12 DEF ServeOpen, Request, IInv, Types, ServerType
  <2>2. \A k \in DOMAIN fds : k \in DOMAIN fds'
    BY <1>12, <2>1 DEF ServeOpen
  <2>3. \E rep : Answer(t, rep)
    BY <1>12 DEF ServeOpen
  <2> QED
    BY <1>6, <1>12, <2>1, <2>2, <2>3 DEF ServeOpen
<1>13. CASE ServeRelease(t)
  <2>1. c.cmd # "commit" /\ UNCHANGED fds
    BY <1>13 DEF ServeRelease, Request, serverVars
  <2> QED
    BY <1>6, <1>13, <2>1 DEF ServeRelease, serverVars
<1>14. CASE Lose(t)
  <2> DEFINE d == [c EXCEPT !.phase = "failed"]
  <2>1. d.phase = "failed" /\ call' = [call EXCEPT ![t] = d]
    BY <1>0, <1>14 DEF CallRecord, Lose, Goes
  <2> HIDE DEF d
  <2> QED
    BY <1>4, <1>14, <2>1 DEF Lose, Looping, serverVars
<1>15. CASE ServeWrite(t)
  <2> DEFINE w == [fh |-> c.fh, gen |-> c.gen, fd |-> c.fd]
             d == [c EXCEPT !.phase = "answered", !.rep = 0]
  <2>1. c.phase = "sent" /\ c.cmd = "write"
    BY <1>2, <1>15 DEF ServeWrite, Request
  <2>2. d.cmd = "write" /\ d.phase = "answered" /\ call' = [call EXCEPT ![t] = d]
    BY <1>0, <1>15, <2>1 DEF CallRecord, ServeWrite, Answer
  <2>3. writes' = Append(writes, w) /\ UNCHANGED <<fds, disk, clientVars, mixed>>
    BY <1>15 DEF ServeWrite
  <2> HIDE DEF d
  <2>4. /\ \A u \in Others(t) : UNCHANGED <<call[u], thread[u]>>
        /\ call'[t] = d /\ UNCHANGED <<chunks, drawn, thread>>
    BY <1>3, <2>2, <2>3
  <2>5. /\ DOMAIN writes' = 1 .. Len(writes) + 1
        /\ \A k \in DOMAIN writes : k \in DOMAIN writes' /\ writes'[k] = writes[k]
        /\ \A k \in DOMAIN writes' : k \in DOMAIN writes \/ writes'[k] = w
    BY <1>0, <2>3
  <2>6. Drawn(w.gen, w.fd)
    BY <1>0, <2>1 DEF CallFits
  <2>7. VectorsFit'
    <3>1. \A k \in DOMAIN writes' : Drawn(writes'[k].gen, writes'[k].fd)
      BY <1>0, <2>5, <2>6 DEF VectorsFit
    <3> HIDE DEF w
    <3> QED
      BY <1>0, <2>3, <2>4, <3>1 DEF VectorsFit, Drawn
  <2>8. GensFit(t)' /\ CommitFits(t)'
    BY <2>2, <2>4, NoCommitFits DEF Under, Looping
  <2>9. WritesGrow /\ \A fh : NoneNew(fh)
    BY <2>3, <2>4, <2>5 DEF WritesGrow, NoneNew
  <2>10. ASSUME ~mixed'
         PROVE  NoneLost' /\ \A u \in Others(t) : CommitFits(u)'
    <3>1. NoneLost /\ \A u \in Others(t) : CommitFits(u)
      BY <1>1, <2>3, <2>10 DEF Others
    <3>2. NoneLost'
      BY <2>3, <2>4, <3>1 DEF NoneLost, OnDisk, Copied
    <3> QED
      BY <2>4, <2>9, <3>1, <3>2, CommitKept
  <2> QED
    BY <2>4, <2>7, <2>8, <2>10, CopiesStep
<1>16. ASSUME NEW d, call' = [call EXCEPT ![t] = d], c.cmd = "commit", d.cmd = "commit", d.gens = c.gens,
              UNCHANGED <<clientVars, fds>>, Under(t), VectorsFit',
              ~mixed' => /\ ~mixed /\ CommitFits(t)' /\ \A u \in Others(t) : CommitFits(u)'
              , disk \subseteq disk'
       PROVE  Copies'
  <2>1. /\ \A u \in Others(t) : UNCHANGED <<call[u], thread[u]>>
        /\ call'[t] = d /\ UNCHANGED <<chunks, drawn, thread>>
    BY <1>3, <1>16
  <2>2. GensFit(t)'
    BY <1>0, <1>16, <2>1 DEF GensFit
  <2>3. ~mixed' => NoneLost'
    BY <1>1, <1>16, <2>1 DEF NoneLost, OnDisk, Copied
  <2> QED
    BY <1>16, <2>1, <2>2, <2>3, CopiesStep
<1>17. UNCHANGED <<writes, disk, fds, clientVars>> => VectorsFit'
  BY <1>0 DEF VectorsFit, Drawn, clientVars
<1>18. CASE ServeCommit(t)
  <2> DEFINE d == IF Have(c.gens) THEN [c EXCEPT !.phase = "loop", !.i = 1, !.at = 1]
                  ELSE [c EXCEPT !.phase = "answered", !.rep = 1]
  <2>1. c.phase = "sent" /\ c.cmd = "commit" /\ Under(t)
    BY <1>2, <1>18 DEF ServeCommit, Request, Under
  <2>2. call' = [call EXCEPT ![t] = d]
    BY <1>18 DEF ServeCommit, Answer
  <2>3. /\ d.cmd = "commit" /\ d.gens = c.gens /\ d.phase \in {"loop", "answered"}
        /\ d.phase = "loop" => Have(c.gens) /\ d.i = 1 /\ d.at = 1
        /\ d.phase = "answered" => d.rep = 1
    BY <1>0, <2>1 DEF CallRecord
  <2>4. UNCHANGED <<writes, disk, fds, clientVars, mixed>>
    BY <1>18 DEF ServeCommit, serverVars
  <2> HIDE DEF d
  <2>5. /\ \A u \in Others(t) : UNCHANGED <<call[u], thread[u]>>
        /\ call'[t] = d /\ UNCHANGED <<chunks, drawn, thread>>
    BY <1>3, <2>2, <2>4
  <2>6. WritesGrow /\ \A fh : NoneNew(fh)
    BY <2>4, <2>5 DEF WritesGrow, NoneNew
  <2>7. ASSUME ~mixed'
        PROVE  CommitFits(t)'
    <3>1. CommitFits(t)
      BY <1>1, <2>4, <2>7
    <3>2. \A k \in DOMAIN chunks : chunks[k].fh = thread[t].fh =>
             \E i \in DOMAIN c.gens : c.gens[i] = chunks[k].gen
      BY <2>1, <3>1 DEF CommitFits
    <3>3. d.phase = "loop" =>
            /\ \A i \in DOMAIN c.gens : \E k \in DOMAIN writes : writes[k].gen = c.gens[i]
            /\ 1 \in DOMAIN c.gens => \E k \in DOMAIN writes : writes[k].gen = c.gens[1] /\ k >= 1
      <4>1. \A k \in DOMAIN writes : k >= 1
        BY <1>0
      <4>2. d.phase = "loop" =>
              \A i \in DOMAIN c.gens : \E k \in DOMAIN writes : writes[k].gen = c.gens[i]
        BY <2>3 DEF Have
      <4> QED
        BY <4>1, <4>2
    <3>4. 1 \in 1 .. Len(c.gens) + 1 /\ \A i \in DOMAIN c.gens : ~(i < 1)
      BY <1>0
    <3>5. d.phase # "wrote" /\ ~(d.phase = "answered" /\ d.rep = 0)
      BY <2>3
    <3> QED
      BY <2>3, <2>4, <2>5, <3>2, <3>3, <3>4, <3>5 DEF CommitFits, Looping, OnDisk
  <2>8. ~mixed' => ~mixed /\ \A u \in Others(t) : CommitFits(u)'
    BY <1>1, <2>4, <2>5, <2>6, CommitKept DEF Others
  <2> QED
    BY <1>16, <1>17, <2>1, <2>2, <2>3, <2>4, <2>7, <2>8
<1>19. CASE CommitScan(t)
  <2> DEFINE hit == c.at \in DOMAIN writes /\ writes[c.at].gen = c.gens[c.i]
             Done == c.i > Len(c.gens)
             d == IF Done THEN [c EXCEPT !.phase = "answered", !.rep = 0]
                  ELSE IF hit THEN [c EXCEPT !.phase = "wrote"]
                  ELSE [c EXCEPT !.i = IF c.at > Len(writes) THEN @ + 1 ELSE @,
                                 !.at = IF c.at > Len(writes) THEN 1 ELSE @ + 1]
             new == <<writes[c.at].gen, fds[writes[c.at].fd]>>
  <2>1. c.phase = "loop" /\ c.cmd = "commit" /\ Under(t)
    BY <1>0, <1>2, <1>19 DEF CommitScan, CallFits, Looping, Under
  <2>2. call' = [call EXCEPT ![t] = d]
    BY <1>19 DEF CommitScan, Answer, Goes
  <2>3. /\ d.cmd = "commit" /\ d.gens = c.gens
        /\ Done => d.phase = "answered"
        /\ ~Done /\ hit => d.phase = "wrote" /\ d.i = c.i /\ d.at = c.at
        /\ ~Done /\ ~hit => /\ d.phase = "loop"
                            /\ ~(c.at > Len(writes)) => d.i = c.i /\ d.at = c.at + 1
    BY <1>0, <2>1 DEF CallRecord
  <2>4. /\ UNCHANGED <<writes, fds, clientVars, mixed>>
        /\ disk' = IF ~Done /\ hit THEN disk \cup {new} ELSE disk
    BY <1>19 DEF CommitScan
  <2>5. ~Done => c.i \in Nat /\ Len(c.gens) \in Nat /\ c.i <= Len(c.gens)
    BY <1>0
  <2> HIDE DEF d, hit, Done
  <2>6. /\ \A u \in Others(t) : UNCHANGED <<call[u], thread[u]>>
        /\ call'[t] = d /\ UNCHANGED <<chunks, drawn, thread>>
    BY <1>3, <2>2, <2>4
  <2>7. WritesGrow /\ \A fh : NoneNew(fh)
    BY <2>4, <2>6 DEF WritesGrow, NoneNew
  <2>8. VectorsFit'
    <3>1. hit => new[1] \in 1 .. drawn
      BY <1>0 DEF VectorsFit, Drawn, hit
    <3> HIDE DEF new
    <3>2. \A x \in disk' : x[1] \in 1 .. drawn
      BY <1>0, <2>4, <3>1 DEF VectorsFit
    <3> QED
      BY <1>0, <2>4, <2>6, <3>2 DEF VectorsFit, Drawn
  <2>9. ASSUME ~mixed'
        PROVE  CommitFits(t)'
    <3>1. CommitFits(t)
      BY <1>1, <2>4, <2>9
    <3>2. \A k \in DOMAIN chunks : chunks[k].fh = thread[t].fh =>
             \E i \in DOMAIN c.gens : c.gens[i] = chunks[k].gen
      BY <2>1, <3>1 DEF CommitFits
    <3>3. /\ c.i \in 1 .. Len(c.gens) + 1
          /\ \A i \in DOMAIN c.gens :
               /\ i < c.i => OnDisk(c.gens[i])
               /\ i > c.i => \E k \in DOMAIN writes : writes[k].gen = c.gens[i]
          /\ c.i \in DOMAIN c.gens => \E k \in DOMAIN writes : writes[k].gen = c.gens[c.i] /\ k >= c.at
      BY <2>1, <3>1 DEF CommitFits, Looping
    <3>4. \A gen : OnDisk(gen) => OnDisk(gen)'
      BY <2>7 DEF OnDisk, WritesGrow
    <3>5. CASE Done
      <4>1. \A i \in DOMAIN c.gens : i < c.i
        BY <1>0, <3>5 DEF Done
      <4>2. d.phase = "answered" /\ UNCHANGED disk
        BY <2>3, <2>4, <3>5
      <4>3. \A i \in DOMAIN c.gens : OnDisk(c.gens[i])
        BY <3>3, <4>1
      <4> QED
        BY <2>3, <2>6, <3>2, <4>2, <4>3 DEF CommitFits, Looping, OnDisk
    <3>6. ASSUME ~Done
          PROVE  c.i \in DOMAIN c.gens
      BY <1>0, <2>5, <3>3, <3>6
    <3>7. CASE ~Done /\ hit
      <4>1. \E x \in disk' : x[1] = c.gens[c.i]
        <5>1. new \in disk' /\ new[1] = c.gens[c.i]
          BY <2>4, <3>7 DEF hit
        <5> QED
          BY <5>1
      <4>2. c.at \in DOMAIN writes /\ writes[c.at].gen = c.gens[c.i]
        BY <3>7 DEF hit
      <4>3. \A i \in DOMAIN c.gens : i < c.i => \E x \in disk' : x[1] = c.gens[i]
        BY <2>7, <3>3 DEF OnDisk, WritesGrow
      <4> QED
        BY <2>3, <2>4, <2>6, <3>2, <3>3, <3>6, <3>7, <4>1, <4>2, <4>3 DEF CommitFits, Looping, OnDisk
    <3>8. CASE ~Done /\ ~hit
      <4>1. PICK k \in DOMAIN writes : writes[k].gen = c.gens[c.i] /\ k >= c.at
        BY <3>3, <3>6, <3>8
      <4>2. k # c.at
        BY <3>8, <4>1 DEF hit
      <4>3. ~(c.at > Len(writes)) /\ k >= c.at + 1
        BY <1>0, <4>1, <4>2
      <4>4. d.phase = "loop" /\ d.i = c.i /\ d.at = c.at + 1 /\ UNCHANGED disk
        BY <2>3, <2>4, <3>8, <4>3
      <4> QED
        BY <2>3, <2>4, <2>6, <3>2, <3>3, <4>1, <4>3, <4>4 DEF CommitFits, Looping, OnDisk
    <3> QED
      BY <3>5, <3>7, <3>8
  <2>10. ~mixed' => ~mixed /\ \A u \in Others(t) : CommitFits(u)'
    BY <1>1, <2>4, <2>6, <2>7, CommitKept DEF Others
  <2>11. disk \subseteq disk' /\ UNCHANGED <<clientVars, fds>>
    BY <2>4
  <2> QED
    BY <1>16, <2>1, <2>2, <2>3, <2>8, <2>9, <2>10, <2>11
<1>20. CASE CommitErase(t)
  <2> DEFINE d == [c EXCEPT !.phase = "loop", !.i = @ + 1, !.at = 1]
             gone == RemoveAt(writes, c.at)
  <2>1. c.phase = "wrote" /\ c.cmd = "commit" /\ Under(t)
    BY <1>0, <1>2, <1>20 DEF CommitErase, CallFits, Looping, Under
  <2>2. call' = [call EXCEPT ![t] = d]
    BY <1>0, <1>20 DEF CommitErase
  <2>3. d.cmd = "commit" /\ d.gens = c.gens /\ d.phase = "loop" /\ d.i = c.i + 1 /\ d.at = 1
    BY <1>0, <2>1 DEF CallRecord
  <2>4. /\ UNCHANGED <<fds, disk, clientVars>>
        /\ mixed' = (mixed \/ \E u \in Others(t) : call[u].phase \in Looping)
        /\ IF c.at \in DOMAIN writes THEN writes' = gone ELSE UNCHANGED writes
    BY <1>20 DEF CommitErase
  <2>5. c.at \in DOMAIN writes =>
          /\ gone \in Seq(Chunk)
          /\ \A k \in DOMAIN gone : \E j \in DOMAIN writes : gone[k] = writes[j]
          /\ \A j \in DOMAIN writes \ {c.at} : \E k \in DOMAIN gone : gone[k] = writes[j]
    BY <1>0, RemoveAtFact
  <2> HIDE DEF d, gone
  <2>6. /\ \A u \in Others(t) : UNCHANGED <<call[u], thread[u]>>
        /\ call'[t] = d /\ UNCHANGED <<chunks, drawn, thread>>
    BY <1>3, <2>2, <2>4
  <2>7. VectorsFit'
    <3>1. \A k \in DOMAIN writes' : \E j \in DOMAIN writes : writes'[k] = writes[j]
      BY <2>4, <2>5
    <3>2. \A k \in DOMAIN writes' : Drawn(writes'[k].gen, writes'[k].fd)
      BY <1>0, <3>1 DEF VectorsFit
    <3> QED
      BY <1>0, <2>4, <2>6, <3>2 DEF VectorsFit, Drawn
  <2>8. ASSUME ~mixed'
        PROVE  CommitFits(t)'
    <3>1. CommitFits(t)
      BY <1>1, <2>4, <2>8
    <3>2. \A k \in DOMAIN chunks : chunks[k].fh = thread[t].fh =>
             \E i \in DOMAIN c.gens : c.gens[i] = chunks[k].gen
      BY <2>1, <3>1 DEF CommitFits
    <3>3. /\ c.i \in DOMAIN c.gens /\ OnDisk(c.gens[c.i])
          /\ c.at \in DOMAIN writes /\ writes[c.at].gen = c.gens[c.i]
          /\ \A i \in DOMAIN c.gens :
               /\ i < c.i => OnDisk(c.gens[i])
               /\ i > c.i => \E k \in DOMAIN writes : writes[k].gen = c.gens[i]
      BY <2>1, <3>1 DEF CommitFits, Looping
    <3>4. DOMAIN c.gens = 1 .. Len(c.gens) /\ Len(c.gens) \in Nat
      BY <1>0
    <3>5. c.i + 1 \in 1 .. Len(c.gens) + 1
      BY <3>3, <3>4
    <3>6. \A i \in DOMAIN c.gens : /\ i < c.i + 1 => i < c.i \/ i = c.i
                                  /\ i >= c.i + 1 => i > c.i /\ i # c.i
      BY <1>0, <3>4
    <3>7. ASSUME NEW i \in DOMAIN c.gens, i < c.i + 1
          PROVE  OnDisk(c.gens[i])
      <4>0. i \in Int /\ c.i \in Int
        BY <1>0, <3>4
      <4>1. i < c.i \/ i = c.i
        BY <3>7, <4>0
      <4>2. CASE i < c.i
        BY <3>3, <4>2
      <4>3. CASE i = c.i
        BY <3>3, <4>3
      <4> QED
        BY <4>1, <4>2, <4>3
    <3>8. ASSUME NEW i \in DOMAIN c.gens, i >= c.i + 1
          PROVE  \E k \in DOMAIN writes' : writes'[k].gen = c.gens[i]
      <4>0. i > c.i
        <5>1. i \in Int /\ c.i \in Int
          BY <1>0, <3>4
        <5> QED
          BY <3>8, <5>1
      <4>1. PICK j \in DOMAIN writes : writes[j].gen = c.gens[i]
        BY <3>3, <4>0
      <4>2. c.gens[i] # c.gens[c.i]
        BY <1>0, <2>1, <3>3, <3>6, <3>8 DEF GensFit
      <4>3. j # c.at
        BY <3>3, <4>1, <4>2
      <4>4. \E k \in DOMAIN gone : gone[k] = writes[j]
        BY <2>5, <3>3, <4>3
      <4> QED
        BY <2>4, <3>3, <4>1, <4>4
    <3>9. \A i \in DOMAIN c.gens : i > c.i + 1 => i >= c.i + 1
      BY <1>0, <3>4
    <3>10. \A k \in DOMAIN writes' : k >= 1
      <4>1. writes' \in Seq(Chunk)
        BY <2>4, <2>5, <3>3
      <4> QED
        BY <4>1
    <3>11. c.i + 1 >= c.i + 1
      BY <1>0
    <3>12. c.i + 1 \in DOMAIN c.gens => \E k \in DOMAIN writes' : writes'[k].gen = c.gens[c.i + 1] /\ k >= 1
      BY <3>8, <3>10, <3>11
    <3>13. \A i \in DOMAIN c.gens : i > c.i + 1 => \E k \in DOMAIN writes' : writes'[k].gen = c.gens[i]
      BY <3>8, <3>9
    <3>14. \A i \in DOMAIN c.gens : i < c.i + 1 => \E x \in disk' : x[1] = c.gens[i]
      BY <2>4, <3>7 DEF OnDisk
    <3> QED
      BY <2>3, <2>6, <3>2, <3>5, <3>12, <3>13, <3>14 DEF CommitFits, Looping, OnDisk
  <2>9. ASSUME ~mixed', NEW u \in Others(t)
        PROVE  CommitFits(u)'
    <3>1. CommitFits(u) /\ call[u].phase \notin Looping
      BY <1>1, <2>4, <2>9 DEF Others
    <3> QED
      BY <2>4, <2>6, <3>1 DEF CommitFits, Under, OnDisk, Looping
  <2>10. ~mixed' => ~mixed
    BY <2>4
  <2>11. disk \subseteq disk' /\ UNCHANGED <<clientVars, fds>>
    BY <2>4
  <2> QED
    BY <1>16, <2>1, <2>2, <2>3, <2>7, <2>8, <2>9, <2>10, <2>11
<1> QED
  BY <1>7, <1>8, <1>9, <1>10, <1>11, <1>12, <1>13, <1>14, <1>15, <1>18, <1>19, <1>20 DEF Serve
\* The client loses none, either: it erases the chunks that its commit named.
LEMMA StepCopies ==
    ASSUME IInv, NEW t \in Thread, Ask(t) \/ Step(t), Types'
    PROVE  Copies'
<1> DEFINE c == call[t]
           r == thread[t]
<1>0. /\ r \in ThreadRecord /\ thread \in [Thread -> ThreadRecord] /\ c \in CallRecord
      /\ call \in [Thread -> CallRecord] /\ chunks \in Seq(Chunk) /\ drawn \in Nat
      /\ CallFits(t) /\ OpenedFits(t) /\ VectorsFit /\ GensFit(t) /\ mixed \in BOOLEAN
  BY DEF IInv, Types, RestType, ClientType, Handles, Copies
<1>1. ~mixed => NoneLost /\ \A u \in Thread : CommitFits(u)
  BY DEF IInv, Copies
<1>2. Running(t) => c.phase = "none"
  BY DEF Running
<1>3. Clear(t) => call'[t].phase = "none" /\ Send(t, NoCall)
  BY <1>0 DEF Clear, Send, NoCall
<1>30. ASSUME NEW d, Becomes(t, d)
       PROVE  \A u \in Others(t) : thread'[u] = thread[u]
  BY <1>0, <1>30 DEF Others, Becomes
<1>4. ASSUME NEW e, Send(t, e)
      PROVE  \A u \in Others(t) : call'[u] = call[u]
  BY <1>0, <1>4 DEF Others, Send
<1>5. ASSUME \A u \in Others(t) : thread'[u] = thread[u], \A u \in Others(t) : call'[u] = call[u],
             call'[t].phase = "none" \/ (call'[t].cmd # "commit" /\ call'[t].phase = "sent"),
             UNCHANGED <<writes, disk, fds, chunks, drawn, mixed>>
      PROVE  Copies'
  <2>1. ~Under(t)' /\ call'[t].phase \notin Looping
    BY <1>5 DEF Under, Looping
  <2>2. \A gen, fd : Drawn(gen, fd) => Drawn(gen, fd)'
    BY <1>5 DEF Drawn
  <2> QED
    BY <1>5, <2>1, <2>2, QuietKeeps
<1>6. CASE Ask(t)
  <2>1. c.phase = "none" /\ \A u \in Others(t) : thread'[u] = thread[u]
    BY <1>2, <1>30, <1>6 DEF Ask, At
  <2>2. UNCHANGED <<call, writes, disk, fds, chunks, drawn, mixed>>
    BY <1>6 DEF Ask, serverVars
  <2> QED
    BY <1>5, <2>1, <2>2
<1>7. CASE LookupFind(t)
  <2>1. c.phase = "none" /\ \A u \in Others(t) : thread'[u] = thread[u]
    BY <1>2, <1>30, <1>7 DEF LookupFind, Looks
  <2>2. UNCHANGED <<call, writes, disk, fds, chunks, drawn, mixed>>
    BY <1>7 DEF LookupFind, serverVars
  <2> QED
    BY <1>5, <2>1, <2>2
<1>8. CASE LookupGet(t)
  <2>1. c.phase = "none" /\ \A u \in Others(t) : thread'[u] = thread[u]
    BY <1>2, <1>30, <1>8 DEF LookupGet, Looks
  <2>2. UNCHANGED <<call, writes, disk, fds, chunks, drawn, mixed>>
    BY <1>8 DEF LookupGet, serverVars
  <2> QED
    BY <1>5, <2>1, <2>2
<1>9. ASSUME NEW e, Send(t, e), e.cmd # "commit", e.phase = "sent",
             UNCHANGED <<serverVars, clientVars, mixed>>
      PROVE  Copies'
  <2>1. call'[t] = e
    BY <1>0, <1>9 DEF Send
  <2>2. UNCHANGED <<thread, writes, disk, fds, chunks, drawn, mixed>>
    BY <1>9 DEF serverVars, clientVars
  <2> QED
    BY <1>4, <1>5, <1>9, <2>1, <2>2
<1>10. CASE LookupSend(t)
  <2> DEFINE e == [NoCall EXCEPT !.phase = "sent", !.cmd = "lookup",
                                 !.fh = pathtofh[Parent(Head(r.looks))], !.name = Last(Head(r.looks))]
  <2>1. Send(t, e) /\ UNCHANGED <<serverVars, clientVars, mixed>>
    BY <1>10 DEF LookupSend
  <2>2. e.cmd # "commit" /\ e.phase = "sent"
    BY DEF NoCall
  <2> HIDE DEF e
  <2> QED
    BY <1>9, <2>1, <2>2
<1>11. CASE SendOpen(t)
  <2> DEFINE e == [NoCall EXCEPT !.phase = "sent", !.cmd = "open", !.fh = r.fh]
  <2>1. Send(t, e) /\ UNCHANGED <<serverVars, clientVars, mixed>>
    BY <1>11 DEF SendOpen
  <2>2. e.cmd # "commit" /\ e.phase = "sent"
    BY DEF NoCall
  <2> HIDE DEF e
  <2> QED
    BY <1>9, <2>1, <2>2
<1>12. CASE SendWrite(t)
  <2> DEFINE k == r.copy[1]
             e == [NoCall EXCEPT !.phase = "sent", !.cmd = "write", !.fh = k.fh, !.gen = k.gen,
                                 !.fd = k.fd]
  <2>1. Send(t, e) /\ UNCHANGED <<serverVars, clientVars, mixed>>
    BY <1>12 DEF SendWrite
  <2>2. e.cmd # "commit" /\ e.phase = "sent"
    BY DEF NoCall
  <2> HIDE DEF e
  <2> QED
    BY <1>9, <2>1, <2>2
<1>13. CASE SendRelease(t)
  <2> DEFINE e == [NoCall EXCEPT !.phase = "sent", !.cmd = "release", !.fh = r.fh,
                                 !.fd = opened[t].fd]
  <2>1. Send(t, e) /\ UNCHANGED <<serverVars, clientVars, mixed>>
    BY <1>13 DEF SendRelease
  <2>2. e.cmd # "commit" /\ e.phase = "sent"
    BY DEF NoCall
  <2> HIDE DEF e
  <2> QED
    BY <1>9, <2>1, <2>2
<1>14. ASSUME Clear(t), NEW d, Becomes(t, d), UNCHANGED <<writes, disk, fds, chunks, drawn, mixed>>
       PROVE  Copies'
  BY <1>3, <1>30, <1>4, <1>5, <1>14
<1>15. CASE GotHandle(t)
  BY <1>14, <1>15 DEF GotHandle, Answered, serverVars
<1>16. CASE GotOpen(t)
  BY <1>14, <1>16 DEF GotOpen, Answered, serverVars
<1>17. CASE GotWrite(t)
  BY <1>14, <1>17 DEF GotWrite, Answered, serverVars
<1>18. CASE GotRelease(t)
  BY <1>14, <1>18 DEF GotRelease, Answered, serverVars
<1>19. CASE Failed(t)
  BY <1>14, <1>19 DEF Failed, serverVars
<1>20. CASE Resend(t)
  <2>1. c.phase = "none" /\ \A u \in Others(t) : thread'[u] = thread[u]
    BY <1>2, <1>30, <1>20 DEF Resend, At
  <2>2. UNCHANGED <<call, writes, disk, fds, chunks, drawn, mixed>>
    BY <1>20 DEF Resend, serverVars
  <2> QED
    BY <1>5, <2>1, <2>2
<1>21. CASE Wake(t)
  <2>1. c.phase = "none" /\ \A u \in Others(t) : thread'[u] = thread[u]
    BY <1>0, <1>30, <1>21 DEF Wake, CallFits
  <2>2. UNCHANGED <<call, writes, disk, fds, chunks, drawn, mixed>>
    BY <1>21 DEF Wake, serverVars
  <2> QED
    BY <1>5, <2>1, <2>2
<1>22. CASE Reconnect(t)
  <2>1. c.phase = "none" /\ \A u \in Others(t) : thread'[u] = thread[u]
    BY <1>0, <1>30, <1>22 DEF Reconnect, CallFits
  <2>2. UNCHANGED <<call, writes, disk, fds, chunks, drawn, mixed>>
    BY <1>22 DEF Reconnect, serverVars
  <2> QED
    BY <1>5, <2>1, <2>2
<1>23. CASE Push(t)
  <2> DEFINE k == [fh |-> r.fh, gen |-> drawn + 1, fd |-> opened[t].fd]
  <2>1. r.pc = "push" /\ c.phase = "none" /\ \A u \in Others(t) : thread'[u] = thread[u]
    BY <1>2, <1>30, <1>23 DEF Push, At
  <2>2. /\ chunks' = Append(chunks, k) /\ drawn' = drawn + 1
        /\ mixed' = (mixed \/ \E u \in Others(t) : thread[u].pc = "committing" /\ thread[u].fh = k.fh)
    BY <1>23 DEF Push
  <2>3. UNCHANGED <<call, writes, disk, fds>>
    BY <1>23 DEF Push, serverVars
  <2>4. /\ k.gen = drawn + 1 /\ k.fh = r.fh /\ opened[t].fd \in DOMAIN fds /\ k.fd = opened[t].fd
        /\ drawn + 1 \in 1 .. drawn' /\ 1 .. drawn \subseteq 1 .. drawn'
        /\ \A gen \in 1 .. drawn' : gen \in 1 .. drawn \/ gen = drawn + 1
        /\ drawn + 1 \notin 1 .. drawn
    BY <1>0, <2>1, <2>2 DEF OpenedFits
  <2>5. /\ \A j \in DOMAIN chunks : j \in DOMAIN chunks' /\ chunks'[j] = chunks[j]
        /\ \A j \in DOMAIN chunks' : j \in DOMAIN chunks \/ j = Len(chunks) + 1
        /\ Len(chunks) + 1 \in DOMAIN chunks' /\ chunks'[Len(chunks) + 1] = k
    BY <1>0, <2>2
  <2> HIDE DEF k
  <2>6. \A u \in Others(t) : UNCHANGED <<call[u], thread[u]>>
    BY <2>1, <2>3
  <2>7. GensFit(t)' /\ CommitFits(t)'
    BY <2>1, <2>3, NoCommitFits DEF Under, Looping
  <2>8. VectorsFit'
    <3>1. \A gen, fd : Drawn(gen, fd) => gen \in 1 .. drawn' /\ fd \in DOMAIN fds'
      BY <2>3, <2>4 DEF Drawn
    <3>2. ASSUME NEW j \in DOMAIN chunks'
          PROVE  chunks'[j].gen \in 1 .. drawn' /\ chunks'[j].fd \in DOMAIN fds'
      <4>1. CASE j \in DOMAIN chunks
        BY <1>0, <2>5, <3>1, <4>1 DEF VectorsFit
      <4>2. CASE j = Len(chunks) + 1
        BY <2>3, <2>4, <2>5, <4>2
      <4> QED
        BY <2>5, <4>1, <4>2
    <3>3. \A i, j \in DOMAIN chunks' : chunks'[i].gen = chunks'[j].gen => i = j
      BY <1>0, <2>4, <2>5 DEF VectorsFit, Drawn
    <3>4. \A j \in DOMAIN writes : writes[j].gen \in 1 .. drawn' /\ writes[j].fd \in DOMAIN fds'
      BY <1>0, <3>1 DEF VectorsFit
    <3>5. \A d \in disk : d[1] \in 1 .. drawn'
      BY <1>0, <2>4 DEF VectorsFit
    <3> QED
      BY <2>3, <3>2, <3>3, <3>4, <3>5 DEF VectorsFit, Drawn
  <2>9. ASSUME ~mixed'
        PROVE  NoneLost' /\ \A u \in Others(t) : CommitFits(u)'
    <3>1. NoneLost /\ \A u \in Thread : CommitFits(u)
      BY <1>1, <2>2, <2>9
    <3>2. NoneLost'
      <4>1. \A gen \in 1 .. drawn : OnDisk(gen)' \/ Copied(gen)'
        BY <2>3, <2>5, <3>1 DEF NoneLost, OnDisk, Copied
      <4>2. \E j \in DOMAIN chunks' : chunks'[j].gen = drawn + 1
        BY <2>4, <2>5
      <4> QED
        BY <2>4, <4>1, <4>2 DEF NoneLost, OnDisk, Copied
    <3>3. ASSUME NEW u \in Others(t)
          PROVE  CommitFits(u)'
      <4>1. CommitFits(u) /\ CallFits(u) /\ ~(thread[u].pc = "committing" /\ thread[u].fh = r.fh)
        BY <2>2, <2>4, <2>9, <3>1 DEF Others, IInv, Handles
      <4>2. UNCHANGED <<call[u], thread[u]>> /\ WritesGrow
        BY <2>3, <2>6 DEF WritesGrow
      <4>3. CASE Under(u)
        <5>1. thread[u].fh # r.fh
          BY <4>1, <4>3 DEF CallFits, Under
        <5>2. NoneNew(thread[u].fh)
          BY <2>4, <2>5, <5>1 DEF NoneNew
        <5> QED
          BY <4>1, <4>2, <5>2, CommitKept
      <4>4. CASE ~Under(u)
        BY <2>3, <4>1, <4>2, <4>4 DEF CommitFits, Under, OnDisk, CallFits, Looping
      <4> QED
        BY <4>3, <4>4
    <3> QED
      BY <3>2, <3>3
  <2> QED
    BY <2>6, <2>7, <2>8, <2>9, CopiesStep
<1>24. CASE Collect(t)
  <2> DEFINE I == {i \in DOMAIN chunks : chunks[i].fh = r.fh}
             gens == [i \in DOMAIN Dirty(t) |-> Dirty(t)[i].gen]
             d == [r EXCEPT !.pc = "committing"]
             e == [NoCall EXCEPT !.phase = "sent", !.cmd = "commit", !.fh = r.fh, !.gens = gens]
  <2>1. c.phase = "none" /\ UNCHANGED <<writes, disk, fds, chunks, drawn, mixed>>
    BY <1>2, <1>24 DEF Collect, At, serverVars
  <2>2. CASE Dirty(t) = <<>>
    <3>1. UNCHANGED call /\ \A u \in Others(t) : thread'[u] = thread[u]
      BY <1>30, <1>24, <2>2 DEF Collect
    <3> QED
      BY <1>5, <2>1, <3>1
  <2>3. CASE Dirty(t) # <<>>
    <3>1. Becomes(t, d) /\ Send(t, e)
      BY <1>24, <2>3 DEF Collect
    <3>2. /\ thread'[t] = d /\ call'[t] = e
          /\ \A u \in Others(t) : thread'[u] = thread[u] /\ call'[u] = call[u]
      BY <1>0, <3>1 DEF Becomes, Send, Others
    <3>3. e.gens = gens /\ e.cmd = "commit" /\ e.phase = "sent" /\ d.fh = r.fh
      BY <1>0 DEF NoCall, ThreadRecord
    <3>4. /\ \A i \in I : \E n \in DOMAIN Dirty(t) : Dirty(t)[n] = chunks[i]
          /\ \A m, n \in DOMAIN Dirty(t) : Dirty(t)[m].gen = Dirty(t)[n].gen => m = n
      <4>1. \A i, j \in I : chunks[i].gen = chunks[j].gen => i = j
        BY <1>0 DEF VectorsFit
      <4>2. I \in SUBSET DOMAIN chunks /\ Dirty(t) = Picked(I)
        BY DEF Dirty
      <4> HIDE DEF I
      <4>3. /\ \A i \in I : \E n \in DOMAIN Picked(I) : Picked(I)[n] = chunks[i]
            /\ \A m, n \in DOMAIN Picked(I) : Picked(I)[m].gen = Picked(I)[n].gen => m = n
        BY <1>0, <4>1, <4>2, PickedFact
      <4> QED
        BY <4>2, <4>3
    <3>5. /\ \A m, n \in DOMAIN gens : gens[m] = gens[n] => m = n
          /\ \A k \in DOMAIN chunks : chunks[k].fh = r.fh => \E i \in DOMAIN gens : gens[i] = chunks[k].gen
      BY <3>4
    <3> HIDE DEF d, e, gens
    <3>6. GensFit(t)'
      BY <3>2, <3>3, <3>5 DEF GensFit
    <3>7. CommitFits(t)'
      BY <2>1, <3>2, <3>3, <3>5 DEF CommitFits, Looping
    <3>8. WritesGrow /\ \A fh : NoneNew(fh)
      BY <2>1 DEF WritesGrow, NoneNew
    <3>9. VectorsFit'
      BY <1>0, <2>1 DEF VectorsFit, Drawn
    <3>10. ASSUME ~mixed'
           PROVE  NoneLost' /\ \A u \in Others(t) : CommitFits(u)'
      <4>1. NoneLost /\ \A u \in Others(t) : CommitFits(u)
        BY <1>1, <2>1, <3>10 DEF Others
      <4>2. NoneLost'
        BY <2>1, <4>1 DEF NoneLost, OnDisk, Copied
      <4> QED
        BY <3>2, <3>8, <4>1, <4>2, CommitKept
    <3> QED
      BY <3>2, <3>6, <3>7, <3>9, <3>10, CopiesStep
  <2> QED
    BY <2>2, <2>3
<1>25. CASE GotCommit(t)
  <2> DEFINE I == {i \in DOMAIN chunks : chunks[i].fh # r.fh}
  <2>1. Clear(t) /\ UNCHANGED <<writes, disk, fds, drawn, mixed>> /\ Under(t) /\ c.phase = "answered"
    BY <1>25 DEF GotCommit, Answered, Phase, Under, serverVars
  <2>2. CASE c.rep # 0
    BY <1>14, <1>25, <2>1, <2>2 DEF GotCommit
  <2>3. CASE c.rep = 0
    <3>1. chunks' = Picked(I) /\ \A u \in Others(t) : thread'[u] = thread[u] /\ call'[u] = call[u]
      BY <1>3, <1>30, <1>4, <1>25, <2>1, <2>3 DEF GotCommit, Kept
    <3>2. /\ \A n \in DOMAIN chunks' : \E i \in I : chunks'[n] = chunks[i]
          /\ \A i \in I : \E n \in DOMAIN chunks' : chunks'[n] = chunks[i]
          /\ \A m, n \in DOMAIN chunks' : chunks'[m].gen = chunks'[n].gen => m = n
      <4>1. \A i, j \in I : chunks[i].gen = chunks[j].gen => i = j
        BY <1>0 DEF VectorsFit
      <4>2. I \in SUBSET DOMAIN chunks
        OBVIOUS
      <4> HIDE DEF I
      <4> QED
        BY <1>0, <3>1, <4>1, <4>2, PickedFact
    <3>3. VectorsFit'
      BY <1>0, <2>1, <3>2 DEF VectorsFit, Drawn
    <3>4. GensFit(t)' /\ CommitFits(t)'
      BY <1>3, <2>1, NoCommitFits DEF Under, Looping
    <3>5. WritesGrow /\ \A fh : NoneNew(fh)
      BY <2>1, <3>2 DEF WritesGrow, NoneNew
    <3>6. ASSUME ~mixed'
          PROVE  NoneLost' /\ \A u \in Others(t) : CommitFits(u)'
      <4>1. NoneLost /\ CommitFits(t) /\ \A u \in Others(t) : CommitFits(u)
        BY <1>1, <2>1, <3>6 DEF Others
      <4>2. ASSUME NEW k \in DOMAIN chunks
            PROVE  OnDisk(chunks[k].gen) \/ \E n \in DOMAIN chunks' : chunks'[n].gen = chunks[k].gen
        <5>1. CASE chunks[k].fh = r.fh
          BY <2>1, <2>3, <4>1, <5>1 DEF CommitFits
        <5>2. CASE chunks[k].fh # r.fh
          BY <3>2, <5>2
        <5> QED
          BY <5>1, <5>2
      <4>3. NoneLost'
        <5>1. \A gen \in 1 .. drawn : OnDisk(gen) \/ \E n \in DOMAIN chunks' : chunks'[n].gen = gen
          BY <4>1, <4>2 DEF NoneLost, Copied
        <5> QED
          BY <2>1, <5>1 DEF NoneLost, OnDisk, Copied
      <4> QED
        BY <3>1, <3>5, <4>1, <4>3, CommitKept
    <3> QED
      BY <3>1, <3>3, <3>4, <3>6, CopiesStep
  <2> QED
    BY <2>2, <2>3
<1> QED
  BY <1>6, <1>7, <1>8, <1>10, <1>11, <1>12, <1>13, <1>15, <1>16, <1>17, <1>18, <1>19, <1>20, <1>21,
     <1>22, <1>23, <1>24, <1>25 DEF Step

\* At the start there are no vectors and no commits.
LEMMA InitCopies == Init => Copies
<1> SUFFICES ASSUME Init PROVE Copies
  OBVIOUS
<1>1. writes = <<>> /\ chunks = <<>> /\ disk = {} /\ drawn = 0
  BY DEF Init
<1>2. VectorsFit
  BY <1>1 DEF VectorsFit
<1>3. NoneLost
  BY <1>1 DEF NoneLost
<1>4. \A t \in Thread : call[t].phase = "none"
  BY DEF Init, NoCall
<1>5. \A t \in Thread : GensFit(t) /\ CommitFits(t)
  BY <1>4 DEF GensFit, CommitFits, Under, Looping
<1> QED
  BY <1>2, <1>3, <1>5 DEF Copies

-----------------------------------------------------------------------------
(* The theorems.                                                            *)

\* The invariant is one.
LEMMA Invariant == Spec => []IInv
<1>1. Init => IInv
  BY InitTypes, InitHandles, InitCopies DEF IInv
<1>2. IInv /\ [Next]_vars => IInv'
  <2> SUFFICES ASSUME IInv, [Next]_vars
               PROVE  IInv'
    OBVIOUS
  <2>1. ASSUME NEW t \in Thread, Ask(t) \/ Step(t)
        PROVE  IInv'
    <3>1. Types'
      BY <2>1, StepTypes
    <3>2. Handles' /\ Copies'
      BY <2>1, <3>1, StepHandles, StepCopies
    <3> QED
      BY <3>1, <3>2 DEF IInv
  <2>2. ASSUME NEW t \in Thread, Serve(t) \/ Lose(t)
        PROVE  IInv'
    <3>1. Types'
      BY <2>2, ServeTypes
    <3>2. Handles' /\ Copies'
      BY <2>2, <3>1, ServeHandles, ServeCopies
    <3> QED
      BY <3>1, <3>2 DEF IInv
  <2>3. CASE UNCHANGED vars
    <3>1. Types'
      BY <2>3 DEF IInv, Types, ServerType, ClientType, RestType, vars, serverVars, clientVars
    <3>2. UNCHANGED <<table, fds, pathtofh, thread, call, opened, drawn, crossed>>
      BY <2>3 DEF vars, serverVars, clientVars
    <3>3. Handles'
      BY <3>2 DEF IInv, Handles, TableFits, MapFits, StackFits, FhFits, OpenedFits, CopyFits,
        CallFits, OneAdds, LooksFit, LookupFits, HandleOf, Drawn, Mapped
    <3>4. UNCHANGED <<writes, disk, chunks, fds, drawn, thread, call, mixed>>
      BY <2>3 DEF vars, serverVars, clientVars
    <3>5. Copies'
      BY <3>4 DEF IInv, Copies, VectorsFit, GensFit, CommitFits, NoneLost, Under, Drawn, OnDisk, Copied
    <3> QED
      BY <3>1, <3>3, <3>5 DEF IInv
  <2> QED
    BY <2>1, <2>2, <2>3 DEF Next, Finished
<1> QED
  BY <1>1, <1>2, PTL DEF Spec

\* Every variable has its type, whatever the threads and the handlers do, and what
\* the vectors, the calls and the open files refer to is there.
THEOREM ThreadsTypeCorrect == Spec => []TypeOK
<1>1. IInv => TypeOK
  <2> SUFFICES ASSUME IInv PROVE TypeOK
    OBVIOUS
  <2>1. table.pathToFh \in PathMap /\ table.fhToPath \in FhMap /\ table.fhcount \in Fh
    BY MaxFhAssumption DEF IInv, Types, ServerType, Table, Fh
  <2>2. /\ \A i \in DOMAIN writes : writes[i].gen \in 1 .. drawn /\ writes[i].fd \in DOMAIN fds
        /\ \A i \in DOMAIN chunks : chunks[i].gen \in 1 .. drawn /\ chunks[i].fd \in DOMAIN fds
        /\ \A d \in disk : d[1] \in 1 .. drawn
    BY DEF IInv, Copies, VectorsFit, Drawn
  <2>3. disk \subseteq (1 .. drawn) \X Files
    BY <2>2 DEF IInv, Types, ServerType
  <2>4. ASSUME NEW t \in Thread
        PROVE  opened[t].fd \in 0 .. Len(fds) /\ call[t].fh \in Fh
    <3>1. fds \in Seq(Files) /\ opened[t].fd \in Nat /\ call[t].fh \in Fh /\ OpenedFits(t)
      BY DEF IInv, Types, ServerType, ClientType, RestType, CallRecord, Handles
    <3>2. opened[t].fd # 0 => opened[t].fd \in 1 .. Len(fds)
      BY <3>1 DEF OpenedFits
    <3>3. Len(fds) \in Nat
      BY <3>1
    <3> QED
      BY <3>1, <3>2, <3>3
  <2>5. pathtofh \in PathMap /\ {wild, mixed, crossed, renewed} \subseteq BOOLEAN
    BY DEF IInv, Types, ClientType, RestType
  <2> QED
    BY <2>1, <2>2, <2>3, <2>4, <2>5 DEF TypeOK
<1> QED
  BY <1>1, Invariant, PTL

\* However many threads look up, open, fail and reset the maps, no path gets the
\* handle of another and no thread the descriptor of another file, until lookups
\* cross.
THEOREM HandlesStayApart == Spec => []HandlesApart
<1>1. IInv => HandlesApart
  <2> SUFFICES ASSUME IInv PROVE HandlesApart
    OBVIOUS
  <2>1. \A t \in Thread : opened[t].fd # 0 => fds[opened[t].fd] = opened[t].path
    BY DEF IInv, Handles, OpenedFits
  <2>2. MapFits
    BY DEF IInv, Handles
  <2>3. ASSUME NEW p \in Path, pathtofh[p] # NoFh
        PROVE  /\ pathtofh[p] = table.pathToFh[p]
               /\ \A q \in Path \ {p} : pathtofh[q] # pathtofh[p]
    BY <2>2, <2>3 DEF MapFits, HandleOf
  <2> QED
    BY <2>1, <2>3 DEF HandlesApart
<1> QED
  BY <1>1, Invariant, PTL

\* However the commits, writes and resends of the threads interleave, the only way
\* to lose a write is one that comes between the gens and the answer of a commit of
\* its file, or two commits in their loop.
THEOREM CopiesStayApart == Spec => []CopiesKeptApart
<1>1. IInv => CopiesKeptApart
  BY DEF IInv, Types, ClientType, Copies, NoneLost, CopiesKeptApart, CopiesKept
<1> QED
  BY <1>1, Invariant, PTL
=============================================================================
