------------------------- MODULE WriteCommitProofs -------------------------
(***************************************************************************)
(* What TLAPS proves of WriteCommit for every number of clients, files,    *)
(* descriptors, draws and faults: type correctness; and, if no gen is ever *)
(* drawn twice, that no write is lost by dropping its copy too early and   *)
(* that WriteCommit implements WriteBack.                                  *)
(***************************************************************************)
EXTENDS WriteCommit, HandleTableProofs, FiniteSetTheorems, SequenceTheorems

-----------------------------------------------------------------------------
(* The shape of a reachable state, whatever the gens are.                   *)

\* A chunk that some client made.
Issued(k) == k \in Chunk /\ k.id[2] <= drawn[k.id[1]]

RequestFits(r) == r.command = "write" => Issued(r.chunk)

\* The callbacks that work on an open file, and what each one needs.
OpFits(c) ==
    /\ op[c].pc \in {"write", "release", "commit", "resend", "again", "close"} =>
         fi[c][op[c].slot] # NoOpen
    /\ op[c].pc = "write" => drawn[c] < Len(Draw[c])
    /\ op[c].pc \in {"send", "again"} => op[c].chunk \in chunks[c]

\* A call under way belongs to the point its callback has reached.
CallFits(c) ==
    call[c].phase # "none" =>
        /\ call[c].req.command = "lookup" => op[c].pc \in {"open", "write", "release", "close"}
        /\ call[c].req.command = "open" => op[c].pc = "open"
        /\ call[c].req.command = "write" => op[c].pc \in {"send", "again"}
        /\ call[c].req.command = "commit" => op[c].pc = "commit"
        /\ call[c].req.command = "release" => op[c].pc = "close"
        /\ (call[c].req.command = "open" /\ call[c].phase = "replied"
              /\ call[c].rep.success = 0) => call[c].rep.fi \in Fd
        /\ RequestFits(call[c].req)

ClientShape ==
    \A c \in Client :
        /\ \A k \in chunks[c] : k.id[1] = c /\ k.id[2] <= drawn[c]
        /\ OpFits(c)
        /\ CallFits(c)

\* The vector holds Writes that were issued, under the gen they were sent with.
CacheShape ==
    \A g \in Gen : \A i \in 1 .. Len(cache[g]) :
        Issued(cache[g][i]) /\ GenOf(cache[g][i]) = g

LateShape == \A l \in late : RequestFits(l[2])

StableShape == \A s \in stable : s.id[2] <= drawn[s.id[1]]

Shape == TypeOK /\ ClientShape /\ CacheShape /\ LateShape /\ StableShape

-----------------------------------------------------------------------------
(* No write is dropped too early.                                           *)

\* A commit under way lists exactly the dirty chunks, and once it is
\* acknowledged they are on the disk.
CommitFits(c) ==
    (call[c].phase \in {"sent", "replied"} /\ call[c].req.command = "commit") =>
        /\ call[c].req.gens = [n \in {k.id[2] : k \in Dirty(c)} |-> Draw[c][n]]
        /\ (call[c].phase = "replied" /\ call[c].rep.success = 0) =>
             \A n \in DOMAIN call[c].req.gens : <<c, n>> \in StableIds

Safe == KeptUntilPersisted /\ \A c \in Client : CommitFits(c)

IInv == Shape /\ Safe

-----------------------------------------------------------------------------
(* Lemmas about single operators.                                           *)

\* A write is a client with a number its stream reaches.
LEMMA WriteIdFact ==
    \A w : w \in WriteId <=> \E c \in Client : \E n \in 1 .. Len(Draw[c]) : w = <<c, n>>
BY DEF WriteId

LEMMA DrawType ==
    ASSUME NEW c \in Client
    PROVE  /\ Draw[c] \in Seq(Gen)
           /\ Len(Draw[c]) \in Nat
           /\ \A n \in 1 .. Len(Draw[c]) : Draw[c][n] \in Gen
BY WriteCommitAssumption

LEMMA GenOfType ==
    ASSUME NEW k \in Chunk
    PROVE  /\ k.id[1] \in Client
           /\ k.id[2] \in 1 .. Len(Draw[k.id[1]])
           /\ k.id[2] \in Nat
           /\ k.id = <<k.id[1], k.id[2]>>
           /\ GenOf(k) \in Gen
<1>1. k.id \in WriteId
  BY DEF Chunk
<1>2. PICK c \in Client : \E n \in 1 .. Len(Draw[c]) : k.id = <<c, n>>
  BY <1>1, WriteIdFact
<1> QED
  BY <1>2, DrawType DEF GenOf

\* The list of gens of a commit is a finite map into Gen.
LEMMA GensType ==
    ASSUME NEW r \in Request
    PROVE  /\ IsFiniteSet(DOMAIN r.gens)
           /\ DOMAIN r.gens \subseteq Nat
           /\ \A n \in DOMAIN r.gens : r.gens[n] \in Gen
<1>1. PICK c \in Client : \E N \in SUBSET (1 .. Len(Draw[c])) : r.gens \in [N -> Gen]
  BY DEF Request, GenList
<1> PICK N \in SUBSET (1 .. Len(Draw[c])) : r.gens \in [N -> Gen]
  BY <1>1
<1>2. IsFiniteSet(1 .. Len(Draw[c]))
  BY DrawType, FS_Interval
<1>3. IsFiniteSet(N)
  BY <1>2, FS_Subset
<1>4. DOMAIN r.gens = N /\ \A n \in N : r.gens[n] \in Gen
  OBVIOUS
<1>5. N \subseteq Nat
  BY DrawType
<1> QED
  BY <1>3, <1>4, <1>5

\* What is left of a queue when its first elements go.
LEMMA TailFact ==
    ASSUME NEW S, NEW s \in Seq(S), NEW k \in Nat
    PROVE  /\ SubSeq(s, k + 1, Len(s)) \in Seq(S)
           /\ \A i \in 1 .. Len(SubSeq(s, k + 1, Len(s))) :
                \E j \in 1 .. Len(s) : SubSeq(s, k + 1, Len(s))[i] = s[j]
<1> DEFINE m == k + 1
           n == Len(s)
<1>1. m \in Int /\ n \in Int /\ n \in Nat /\ \A i \in m .. n : s[i] \in S
  OBVIOUS
<1> HIDE DEF m, n
<1>2. /\ SubSeq(s, m, n) \in Seq(S)
      /\ Len(SubSeq(s, m, n)) = IF m <= n THEN n - m + 1 ELSE 0
      /\ \A i \in 1 .. n - m + 1 : SubSeq(s, m, n)[i] = s[m + i - 1]
  BY <1>1, SubSeqProperties
<1>3. ASSUME NEW i \in 1 .. Len(SubSeq(s, m, n))
      PROVE  \E j \in 1 .. n : SubSeq(s, m, n)[i] = s[j]
  <2>1. i \in 1 .. n - m + 1 /\ SubSeq(s, m, n)[i] = s[m + i - 1]
    BY <1>1, <1>2
  <2>2. m + i - 1 \in 1 .. n
    BY <1>1, <2>1 DEF m
  <2> QED
    BY <2>1, <2>2
<1> QED
  BY <1>2, <1>3 DEF m, n

\* What a commit takes is in the vector.
LEMMA HitInCache ==
    ASSUME ServerTypeOK, NEW r \in Request, NEW n \in Hits(r)
    PROVE  /\ r.gens[n] \in Gen
           /\ Rank(r, n) \in 1 .. Len(cache[r.gens[n]])
           /\ Hit(r, n) = cache[r.gens[n]][Rank(r, n)]
           /\ Hit(r, n) \in Chunk
<1> DEFINE M == {m \in DOMAIN r.gens : m <= n /\ r.gens[m] = r.gens[n]}
<1>1. n \in DOMAIN r.gens /\ r.gens[n] \in Gen /\ Rank(r, n) <= Len(cache[r.gens[n]])
  BY GensType DEF Hits
<1>2. IsFiniteSet(M) /\ n \in M
  BY <1>1, GensType, FS_Subset
<1>3. Cardinality(M) \in Nat /\ Cardinality(M) # 0
  BY <1>2, FS_CardinalityType, FS_EmptySet
<1>4. Rank(r, n) \in 1 .. Len(cache[r.gens[n]])
  <2>1. cache[r.gens[n]] \in Seq(Chunk)
    BY <1>1 DEF ServerTypeOK
  <2> QED
    BY <1>1, <1>3, <2>1 DEF Rank
<1> QED
  BY <1>1, <1>4 DEF Hit, ServerTypeOK

\* Erasing leaves Writes of the vector.
LEMMA ErasedFact ==
    ASSUME ServerTypeOK, NEW r \in Request, NEW done \in SUBSET Hits(r)
    PROVE  /\ Erased(r, done) \in [Gen -> Seq(Chunk)]
           /\ \A g \in Gen : \A i \in 1 .. Len(Erased(r, done)[g]) :
                \E j \in 1 .. Len(cache[g]) : Erased(r, done)[g][i] = cache[g][j]
<1> SUFFICES ASSUME NEW g \in Gen
             PROVE  /\ Erased(r, done)[g] \in Seq(Chunk)
                    /\ \A i \in 1 .. Len(Erased(r, done)[g]) :
                         \E j \in 1 .. Len(cache[g]) : Erased(r, done)[g][i] = cache[g][j]
  BY DEF Erased
<1> DEFINE N == {n \in done : r.gens[n] = g}
<1>1. cache[g] \in Seq(Chunk)
  BY DEF ServerTypeOK
<1>2. Cardinality(N) \in Nat
  <2>1. N \in SUBSET DOMAIN r.gens
    BY DEF Hits
  <2> QED
    BY <2>1, GensType, FS_Subset, FS_CardinalityType
<1>3. Erased(r, done)[g] = SubSeq(cache[g], Cardinality(N) + 1, Len(cache[g]))
  BY DEF Erased
<1> DEFINE t == SubSeq(cache[g], Cardinality(N) + 1, Len(cache[g]))
<1>4. /\ t \in Seq(Chunk)
      /\ \A i \in 1 .. Len(t) : \E j \in 1 .. Len(cache[g]) : t[i] = cache[g][j]
  <2> HIDE DEF N
  <2> QED
    BY <1>1, <1>2, TailFact
<1> QED
  BY <1>3, <1>4
-----------------------------------------------------------------------------
(* The handlers of the server.                                              *)

\* pwrite stores issued Writes, in files, and forgets none stored before.
LEMMA PwriteFact ==
    ASSUME Shape, NEW r \in Request, NEW done \in SUBSET Hits(r),
           done \cap BadHits(r) = {}, Pwrite(r, done), UNCHANGED drawn
    PROVE  /\ disk' \in [File -> [Offset -> WriteId \cup {Blank}]]
           /\ stable' \subseteq Stable
           /\ stable \subseteq stable'
           /\ StableShape'
<1>1. ASSUME NEW n \in done
      PROVE  /\ Hit(r, n) \in Chunk
             /\ Hit(r, n).id \in WriteId
             /\ Hit(r, n).id[2] <= drawn[Hit(r, n).id[1]]
             /\ [id |-> Hit(r, n).id, to |-> Hit(r, n).file, on |-> fds[Hit(r, n).fi]] \in Stable
  <2>1. /\ Hit(r, n) \in Chunk
        /\ Hit(r, n) = cache[r.gens[n]][Rank(r, n)]
        /\ r.gens[n] \in Gen
        /\ Rank(r, n) \in 1 .. Len(cache[r.gens[n]])
    BY HitInCache DEF Shape, TypeOK
  <2>2. Issued(Hit(r, n))
    BY <2>1 DEF Shape, CacheShape
  <2>3. fds[Hit(r, n).fi] \in File
    <3>1. fds[Hit(r, n).fi] # NoPath
      BY DEF BadHits
    <3> QED
      BY <2>1, <3>1 DEF Shape, TypeOK, ServerTypeOK, Chunk
  <2> QED
    BY <2>1, <2>2, <2>3 DEF Issued, Stable, Chunk
<1>2. ASSUME NEW f \in File, NEW o \in Offset
      PROVE  PwriteTo(r, done, f, o) \in WriteId \cup {Blank}
  <2>1. disk[f][o] \in WriteId \cup {Blank}
    BY DEF Shape, TypeOK, DiskTypeOK
  <2>2. Last(Landing(r, done, f, o)) \subseteq done
    BY DEF Last, Landing
  <2> QED
    BY <1>1, <2>1, <2>2 DEF PwriteTo
<1>3. disk' \in [File -> [Offset -> WriteId \cup {Blank}]]
  BY <1>2 DEF Pwrite
<1>4. stable \subseteq Stable
  BY DEF Shape, TypeOK, DiskTypeOK
<1>5. stable' = stable \cup
         {[id |-> Hit(r, n).id, to |-> Hit(r, n).file, on |-> fds[Hit(r, n).fi]] : n \in done}
  BY DEF Pwrite
<1>6. StableShape'
  BY <1>1, <1>5 DEF Shape, StableShape
<1> QED
  BY <1>1, <1>3, <1>4, <1>5, <1>6

\* What a handler may do to the state of the client that called it.
Outcome(c, r, live) ==
    \/ call' = call
    \/ live /\ call' = [call EXCEPT ![c].phase = "failed"]
    \/ /\ live
       /\ \E rep \in Response :
            /\ call' = [call EXCEPT ![c] = [phase |-> "replied", req |-> @.req, rep |-> rep]]
            /\ r.command = "open" /\ rep.success = 0 => rep.fi \in Fd

LEMMA ReplyFact ==
    ASSUME NEW c, NEW r, NEW live \in BOOLEAN, NEW rep \in Response, Reply(c, live, rep),
           r.command = "open" /\ rep.success = 0 => rep.fi \in Fd
    PROVE  Outcome(c, r, live)
BY DEF Reply, Outcome

LEMMA ThrowFact ==
    ASSUME NEW c, NEW r, NEW live \in BOOLEAN, Throw(c, live)
    PROVE  Outcome(c, r, live)
BY DEF Throw, Outcome

LEMMA NoResponseType ==
    /\ NoResponse \in Response
    /\ \A s \in {0, 1, -1} : [NoResponse EXCEPT !.success = s] \in Response
    /\ \A h \in Fh : [NoResponse EXCEPT !.fh = h] \in Response
    /\ \A d \in Fd : [NoResponse EXCEPT !.fi = d] \in Response
BY MaxFhAssumption DEF NoResponse, Response, Fh

LEMMA LogSavedType ==
    ASSUME table \in Table, log \in Log
    PROVE  LogSaved \in Table
BY LoadedType DEF LogSaved

\* The part of Shape that a handler has a hand in.
ServerShape ==
    /\ ServerTypeOK
    /\ DiskTypeOK
    /\ faults \in [lost : Nat, late : Nat, crash : Nat, io : Nat]
    /\ CacheShape
    /\ StableShape

\* Every handler keeps the server in shape, loses nothing from the disk and
\* answers at most the call it serves.
LEMMA ServeFact ==
    ASSUME Shape, NEW c \in Client, NEW r \in Request, RequestFits(r), NEW live \in BOOLEAN,
           Serve(c, r, live), UNCHANGED clientVars
    PROVE  ServerShape' /\ stable \subseteq stable' /\ Outcome(c, r, live)
<1> USE DEF Shape, TypeOK
<1>0. UNCHANGED drawn /\ r.name \in Path /\ r.fh \in Fh
  BY DEF clientVars, Request
<1>1. ASSUME UNCHANGED cache
      PROVE  CacheShape'
  BY <1>0, <1>1 DEF CacheShape, Issued
<1>2. ASSUME UNCHANGED stable
      PROVE  StableShape' /\ stable \subseteq stable'
  BY <1>0, <1>2 DEF StableShape
<1>3. ASSUME table' \in Table, UNCHANGED <<up, fds, cache>>
      PROVE  ServerTypeOK' /\ CacheShape'
  BY <1>1, <1>3 DEF ServerTypeOK
<1>4. ASSUME log' \in Log, UNCHANGED <<disk, stable, faults>>
      PROVE  /\ DiskTypeOK' /\ StableShape' /\ stable \subseteq stable'
             /\ faults' \in [lost : Nat, late : Nat, crash : Nat, io : Nat]
  BY <1>2, <1>4 DEF DiskTypeOK, NetworkTypeOK
<1>5. Found(table, log, r.fh) \in Table /\ LogSaved \in Table /\ table \in Table /\ log \in Log
  BY <1>0, FoundType, LogSavedType DEF ServerTypeOK, DiskTypeOK
<1>6. CASE ServeLookup(c, r, live)
  <2>1. table' \in Table /\ AddLookup(table, r.name).pathToFh[r.name] \in Fh /\ log' \in Log
    BY <1>0, <1>5, <1>6, AddLookupType, LogAfterAddType DEF ServeLookup
  <2>2. Outcome(c, r, live)
    BY <1>6, <2>1, NoResponseType, ReplyFact DEF ServeLookup
  <2> QED
    BY <1>3, <1>4, <1>6, <2>1, <2>2 DEF ServeLookup, ServerShape
<1>7. CASE ServeUnresolved(c, r, live)
  <2>1. Outcome(c, r, live)
    BY <1>7, ThrowFact DEF ServeUnresolved
  <2> QED
    BY <1>3, <1>4, <1>5, <1>7, <2>1 DEF ServeUnresolved, ServerShape
<1>8. CASE ServeOpen(c, r, live)
  <2>1. PICK d \in FreeFds :
          /\ fds' = [fds EXCEPT ![d] = PathOf(table, log, r.fh)]
          /\ Reply(c, live, [NoResponse EXCEPT !.fi = d])
    BY <1>8 DEF ServeOpen
  <2>2. d \in Fd
    BY DEF FreeFds
  <2>3. PathOf(table, log, r.fh) \in File
    BY <1>0, <1>5, <1>8, PathOfType DEF ServeOpen, CanOpen, File
  <2>4. ServerTypeOK' /\ CacheShape'
    BY <1>1, <1>5, <1>8, <2>1, <2>3 DEF ServeOpen, ServerTypeOK
  <2>5. [NoResponse EXCEPT !.fi = d].fi = d
    BY DEF NoResponse
  <2>6. Outcome(c, r, live)
    BY <2>1, <2>2, <2>5, NoResponseType, ReplyFact
  <2> QED
    BY <1>4, <1>5, <1>8, <2>4, <2>6 DEF ServeOpen, ServerShape
<1>9. CASE ServeOpenFails(c, r, live)
  <2> DEFINE rep == [NoResponse EXCEPT !.success = -1]
  <2>1. rep \in Response /\ rep.success # 0 /\ Reply(c, live, rep)
    BY <1>9, NoResponseType DEF NoResponse, ServeOpenFails
  <2>2. Outcome(c, r, live)
    <3> HIDE DEF rep
    <3> QED
      BY <2>1, ReplyFact
  <2> QED
    BY <1>3, <1>4, <1>5, <1>9, <2>2 DEF ServeOpenFails, ServerShape
<1>10. CASE ServeWrite(c, r, live)
  <2> DEFINE g == GenOf(r.chunk)
  <2>1. Issued(r.chunk) /\ r.chunk \in Chunk /\ g \in Gen
    BY <1>10, GenOfType DEF ServeWrite, RequestFits, Issued
  <2>2. cache' = [cache EXCEPT ![g] = Append(@, r.chunk)] /\ cache[g] \in Seq(Chunk)
    BY <1>10, <2>1 DEF ServeWrite, ServerTypeOK
  <2>3. ServerTypeOK'
    BY <1>5, <1>10, <2>1, <2>2 DEF ServeWrite, ServerTypeOK
  <2>4. CacheShape'
    <3> SUFFICES ASSUME NEW e \in Gen, NEW i \in 1 .. Len(cache'[e])
                 PROVE  Issued(cache'[e][i]) /\ GenOf(cache'[e][i]) = e
      BY <1>0 DEF CacheShape, Issued
    <3>1. CASE e # g
      BY <1>0, <2>2, <3>1 DEF CacheShape, Issued, ServerTypeOK
    <3>2. CASE e = g
      BY <1>0, <2>1, <2>2, <3>2 DEF CacheShape, Issued, ServerTypeOK
    <3> QED
      BY <3>1, <3>2
  <2>5. Outcome(c, r, live)
    BY <1>10, NoResponseType, ReplyFact DEF ServeWrite
  <2> QED
    BY <1>4, <1>5, <1>10, <2>3, <2>4, <2>5 DEF ServeWrite, ServerShape
<1>11. CASE ServeRelease(c, r, live)
  <2>1. ServerTypeOK' /\ CacheShape'
    BY <1>1, <1>5, <1>11 DEF ServeRelease, ServerTypeOK
  <2>2. Outcome(c, r, live)
    BY <1>11, NoResponseType, ReplyFact DEF ServeRelease
  <2> QED
    BY <1>4, <1>5, <1>11, <2>1, <2>2 DEF ServeRelease, ServerShape
<1>12. CASE ServeCommitThrows(c, r, live)
  <2>1. Outcome(c, r, live)
    BY <1>12, ThrowFact DEF ServeCommitThrows
  <2> QED
    BY <1>3, <1>4, <1>5, <1>12, <2>1 DEF ServeCommitThrows, ServerShape
<1>13. CASE ServeCommitNotReady(c, r, live)
  <2>1. Outcome(c, r, live)
    BY <1>13, NoResponseType, ReplyFact DEF ServeCommitNotReady
  <2> QED
    BY <1>3, <1>4, <1>5, <1>13, <2>1 DEF ServeCommitNotReady, ServerShape
<1>14. ASSUME NEW done \in SUBSET Hits(r), done \cap BadHits(r) = {}, Pwrite(r, done),
              cache' = Erased(r, done), table' = LogSaved, UNCHANGED <<up, fds, log>>
       PROVE  ServerTypeOK' /\ DiskTypeOK' /\ CacheShape' /\ StableShape'
                /\ stable \subseteq stable'
  <2>1. /\ disk' \in [File -> [Offset -> WriteId \cup {Blank}]]
        /\ stable' \subseteq Stable
        /\ stable \subseteq stable'
        /\ StableShape'
    BY <1>0, <1>14, PwriteFact
  <2>2. /\ Erased(r, done) \in [Gen -> Seq(Chunk)]
        /\ \A g \in Gen : \A i \in 1 .. Len(Erased(r, done)[g]) :
              \E j \in 1 .. Len(cache[g]) : Erased(r, done)[g][i] = cache[g][j]
    BY <1>14, ErasedFact
  <2>3. CacheShape'
    BY <1>0, <1>14, <2>2 DEF CacheShape, Issued
  <2> QED
    BY <1>5, <1>14, <2>1, <2>2, <2>3 DEF ServerTypeOK, DiskTypeOK
<1>15. CASE ServeCommit(c, r, live)
  <2>1. Outcome(c, r, live)
    BY <1>15, NoResponseType, ReplyFact DEF ServeCommit
  <2> QED
    BY <1>14, <1>15, <2>1 DEF ServeCommit, ServerShape, NetworkTypeOK
<1>16. CASE ServeCommitFails(c, r, live)
  <2>1. Outcome(c, r, live)
    BY <1>16, NoResponseType, ReplyFact DEF ServeCommitFails
  <2>2. PICK n \in Hits(r) :
          /\ BadHits(r) \cap Before(r, n) = {}
          /\ IF n \in BadHits(r)
             THEN UNCHANGED faults
             ELSE /\ faults.io < MaxIOError
                  /\ faults' = [faults EXCEPT !.io = @ + 1]
          /\ Pwrite(r, Before(r, n))
          /\ cache' = Erased(r, Before(r, n))
    BY <1>16 DEF ServeCommitFails
  <2>3. faults' \in [lost : Nat, late : Nat, crash : Nat, io : Nat]
    BY <2>2 DEF NetworkTypeOK
  <2>4. Before(r, n) \in SUBSET Hits(r)
    BY DEF Before
  <2> QED
    BY <1>14, <1>16, <2>1, <2>2, <2>3, <2>4 DEF ServeCommitFails, ServerShape
<1> QED
  BY <1>6, <1>7, <1>8, <1>9, <1>10, <1>11, <1>12, <1>13, <1>15, <1>16 DEF Serve
\* The empty call.
LEMMA NoCallType ==
    ASSUME NEW c \in Client
    PROVE  NoRequest \in Request /\ NoResponse \in Response /\ NoCall \in Call
<1>1. NoGens \in [{} -> Gen]
  BY DEF NoGens
<1>2. NoGens \in GenList
  BY <1>1 DEF GenList
<1> QED
  BY <1>2, NoResponseType, PathAssumption, MaxFhAssumption
  DEF NoRequest, Request, NoCall, Call, Fh

-----------------------------------------------------------------------------
(* Shape is inductive.                                                      *)

LEMMA ShapeInit == Init => Shape
<1> SUFFICES ASSUME Init PROVE Shape
  OBVIOUS
<1> USE DEF Init
<1>1. ServerTypeOK
  BY NewTableType DEF ServerTypeOK
<1>2. NoLog \in Log
  BY DEF NoLog, Log
<1>3. DiskTypeOK
  BY <1>2 DEF DiskTypeOK
<1>4. NoHandles \in PathMap
  BY PathAssumption, MaxFhAssumption DEF NoHandles, PathMap, Fh, NoFh
<1>5. IdleOp \in Op /\ IdleOp.pc = "idle"
  BY WriteCommitAssumption, MaxFhAssumption DEF IdleOp, Op, Fh
<1>6. ClientTypeOK
  BY <1>4, <1>5 DEF ClientTypeOK
<1>7. NetworkTypeOK
  BY NoCallType DEF NetworkTypeOK
<1>8. NoCall.phase = "none"
  BY DEF NoCall
<1>9. ClientShape
  BY <1>5, <1>8 DEF ClientShape, OpFits, CallFits
<1>10. CacheShape /\ LateShape /\ StableShape
  BY DEF CacheShape, LateShape, StableShape
<1> QED
  BY <1>1, <1>3, <1>6, <1>7, <1>9, <1>10 DEF Shape, TypeOK

\* A step of client c that leaves the others, the disk and the vector alone
\* keeps the shape if it keeps that of c.
LEMMA ClientFrame ==
    ASSUME Shape, NEW c \in Client, ClientTypeOK', NetworkTypeOK',
           UNCHANGED <<serverVars, diskVars, late>>,
           \A d \in Client \ {c} :
               /\ op'[d] = op[d] /\ fi'[d] = fi[d] /\ chunks'[d] = chunks[d]
               /\ call'[d] = call[d] /\ drawn'[d] = drawn[d],
           drawn[c] <= drawn'[c],
           \A k \in chunks'[c] : k.id[1] = c /\ k.id[2] <= drawn'[c],
           OpFits(c)', CallFits(c)'
    PROVE  Shape'
<1> USE DEF Shape, TypeOK
<1>1. ServerTypeOK' /\ DiskTypeOK'
  BY DEF serverVars, diskVars, ServerTypeOK, DiskTypeOK
<1>2. \A d \in Client : drawn[d] \in Nat /\ drawn'[d] \in Nat /\ drawn[d] <= drawn'[d]
  BY DEF ClientTypeOK
<1>3. \A k : Issued(k) => Issued(k)'
  <2> SUFFICES ASSUME NEW k, Issued(k) PROVE k.id[2] <= drawn'[k.id[1]]
    BY DEF Issued
  <2>1. k.id[1] \in Client /\ k.id[2] \in Nat /\ k.id[2] <= drawn[k.id[1]]
    BY GenOfType DEF Issued
  <2> QED
    BY <1>2, <2>1
<1>4. \A r : RequestFits(r) => RequestFits(r)'
  BY <1>3 DEF RequestFits
<1>5. CacheShape'
  BY <1>3 DEF CacheShape, serverVars
<1>6. LateShape'
  BY <1>4 DEF LateShape
<1>7. StableShape'
  <2> SUFFICES ASSUME NEW s \in stable PROVE s.id[2] <= drawn'[s.id[1]]
    BY DEF StableShape, diskVars
  <2>1. s.id \in WriteId /\ s.id[2] <= drawn[s.id[1]]
    BY DEF StableShape, DiskTypeOK, Stable
  <2>2. s.id[1] \in Client /\ s.id[2] \in Nat
    BY <2>1, WriteIdFact, DrawType
  <2> QED
    BY <1>2, <2>1, <2>2
<1>8. ClientShape'
  <2> SUFFICES ASSUME NEW d \in Client, d # c
               PROVE  /\ \A k \in chunks'[d] : k.id[1] = d /\ k.id[2] <= drawn'[d]
                      /\ OpFits(d)'
                      /\ CallFits(d)'
    BY DEF ClientShape
  <2>1. OpFits(d)' /\ \A k \in chunks'[d] : k.id[1] = d /\ k.id[2] <= drawn'[d]
    BY DEF ClientShape, OpFits
  <2>2. CallFits(d)'
    BY <1>4 DEF ClientShape, CallFits
  <2> QED
    BY <2>1, <2>2
<1> QED
  BY <1>1, <1>5, <1>6, <1>7, <1>8
\* A step of c between two calls that only moves its callback on.
LEMMA LocalStep ==
    ASSUME Shape, NEW c \in Client, call[c].phase = "none", NEW o \in Op,
           op' = [op EXCEPT ![c] = o], OpFits(c)',
           UNCHANGED <<serverVars, diskVars, pathtofh, chunks, fi, drawn, call, late, faults>>
    PROVE  Shape'
<1> USE DEF Shape, TypeOK
<1>1. ClientTypeOK' /\ NetworkTypeOK'
  BY DEF ClientTypeOK, NetworkTypeOK
<1>2. CallFits(c)'
  BY DEF CallFits
<1>3. drawn[c] <= drawn'[c] /\ \A k \in chunks'[c] : k.id[1] = c /\ k.id[2] <= drawn'[c]
  BY DEF ClientShape, ClientTypeOK
<1>4. \A d \in Client \ {c} : op'[d] = op[d]
  BY DEF ClientTypeOK
<1> QED
  BY <1>1, <1>2, <1>3, <1>4, ClientFrame DEF serverVars, diskVars

\* A step of c that sends a request its callback has reached.
LEMMA SendStep ==
    ASSUME Shape, NEW c \in Client, NEW r \in Request, RequestFits(r), Send(c, r),
           UNCHANGED clientVars,
           r.command = "lookup" => op[c].pc \in {"open", "write", "release", "close"},
           r.command = "open" => op[c].pc = "open",
           r.command = "write" => op[c].pc \in {"send", "again"},
           r.command = "commit" => op[c].pc = "commit",
           r.command = "release" => op[c].pc = "close"
    PROVE  Shape'
<1> USE DEF Shape, TypeOK
<1> DEFINE new == [phase |-> "sent", req |-> r, rep |-> NoResponse]
<1>1. call' = [call EXCEPT ![c] = new] /\ new \in Call
  BY NoResponseType DEF Send, Call
<1>2. ClientTypeOK' /\ NetworkTypeOK'
  BY <1>1 DEF clientVars, ClientTypeOK, NetworkTypeOK, Send
<1>3. call'[c] = new
  BY <1>1 DEF NetworkTypeOK
<1>4. RequestFits(r)'
  BY DEF RequestFits, Issued, clientVars
<1>5. CallFits(c)'
  BY <1>3, <1>4 DEF CallFits, clientVars
<1>6. OpFits(c)'
  BY DEF OpFits, ClientShape, clientVars
<1>7. drawn[c] <= drawn'[c] /\ \A k \in chunks'[c] : k.id[1] = c /\ k.id[2] <= drawn'[c]
  BY DEF ClientShape, ClientTypeOK, clientVars
<1>8. \A d \in Client \ {c} : call'[d] = call[d]
  BY <1>1 DEF NetworkTypeOK
<1> QED
  BY <1>2, <1>5, <1>6, <1>7, <1>8, ClientFrame DEF clientVars, Send

\* A step of c that takes the outcome of its call and moves its callback on.
LEMMA ReturnStep ==
    ASSUME Shape, NEW c \in Client, call' = [call EXCEPT ![c] = NoCall],
           NEW h \in PathMap, NEW K \in SUBSET chunks[c],
           NEW F \in [Slot -> OpenFile \cup {NoOpen}], NEW o \in Op,
           pathtofh' = [pathtofh EXCEPT ![c] = h],
           chunks' = [chunks EXCEPT ![c] = K],
           fi' = [fi EXCEPT ![c] = F],
           op' = [op EXCEPT ![c] = o],
           o.pc \in {"release", "commit", "resend", "close"} => F[o.slot] # NoOpen,
           o.pc \notin {"write", "send", "again"},
           UNCHANGED <<serverVars, diskVars, drawn, late, faults>>
    PROVE  Shape'
<1> USE DEF Shape, TypeOK
<1>1. ClientTypeOK' /\ NetworkTypeOK'
  BY NoCallType DEF ClientTypeOK, NetworkTypeOK
<1>2. call'[c].phase = "none" /\ op'[c] = o /\ fi'[c] = F /\ chunks'[c] = K
  BY DEF ClientTypeOK, NetworkTypeOK, NoCall
<1>3. CallFits(c)' /\ OpFits(c)'
  BY <1>2 DEF CallFits, OpFits
<1>4. drawn[c] <= drawn'[c] /\ \A k \in chunks'[c] : k.id[1] = c /\ k.id[2] <= drawn'[c]
  BY <1>2 DEF ClientShape, ClientTypeOK
<1>5. \A d \in Client \ {c} : /\ op'[d] = op[d] /\ fi'[d] = fi[d]
                              /\ chunks'[d] = chunks[d] /\ call'[d] = call[d]
  BY DEF ClientTypeOK, NetworkTypeOK
<1> QED
  BY <1>1, <1>3, <1>4, <1>5, ClientFrame DEF serverVars, diskVars
\* A step of c that takes the outcome of its call and stays where it was.
LEMMA StayStep ==
    ASSUME Shape, NEW c \in Client, call' = [call EXCEPT ![c] = NoCall],
           NEW h \in PathMap, pathtofh' = [pathtofh EXCEPT ![c] = h],
           UNCHANGED <<serverVars, diskVars, chunks, fi, op, drawn, late, faults>>
    PROVE  Shape'
<1> USE DEF Shape, TypeOK
<1>1. ClientTypeOK' /\ NetworkTypeOK'
  BY NoCallType DEF ClientTypeOK, NetworkTypeOK
<1>2. call'[c].phase = "none"
  BY DEF NetworkTypeOK, NoCall
<1>3. CallFits(c)' /\ OpFits(c)'
  BY <1>2 DEF CallFits, OpFits, ClientShape
<1>4. drawn[c] <= drawn'[c] /\ \A k \in chunks'[c] : k.id[1] = c /\ k.id[2] <= drawn'[c]
  BY DEF ClientShape, ClientTypeOK
<1>5. \A d \in Client \ {c} : call'[d] = call[d]
  BY DEF NetworkTypeOK
<1> QED
  BY <1>1, <1>3, <1>4, <1>5, ClientFrame DEF serverVars, diskVars

\* A callback begins.
LEMMA BeginStep ==
    ASSUME Shape, NEW c \in Client, Begin(c)
    PROVE  Shape'
<1> USE DEF Shape, TypeOK
<1>1. PICK s \in Slot : (\E f \in File : StartOpen(c, s, f)) \/ StartWrite(c, s) \/ StartRelease(c, s)
  BY DEF Begin
<1>2. op[c] \in Op /\ fi[c] \in [Slot -> OpenFile \cup {NoOpen}]
  BY DEF ClientTypeOK
<1>3. ASSUME NEW pc \in {"open", "write", "release"}, NEW f \in File, Start(c, pc, s, f),
             pc # "open" => fi[c][s] # NoOpen,
             pc = "write" => drawn[c] < Len(Draw[c])
      PROVE  Shape'
  <2> DEFINE o == [op[c] EXCEPT !.pc = pc, !.slot = s, !.file = f]
  <2>1. o \in Op /\ o.pc = pc /\ o.slot = s
    BY <1>2 DEF Op
  <2>2. op' = [op EXCEPT ![c] = o] /\ op'[c] = o
    BY <1>3 DEF Start, ClientTypeOK
  <2>3. OpFits(c)'
    BY <1>3, <2>1, <2>2 DEF OpFits, Start
  <2> QED
    BY <1>3, <2>1, <2>2, <2>3, LocalStep DEF Start, At
<1>4. CASE \E f \in File : StartOpen(c, s, f)
  BY <1>3, <1>4 DEF StartOpen
<1>5. CASE StartWrite(c, s)
  BY <1>2, <1>3, <1>5 DEF StartWrite, OpenFile
<1>6. CASE StartRelease(c, s)
  BY <1>2, <1>3, <1>6 DEF StartRelease, OpenFile
<1> QED
  BY <1>1, <1>4, <1>5, <1>6

\* A callback sends its next call.
LEMMA SendSteps ==
    ASSUME Shape, NEW c \in Client,
           SendLookup(c) \/ SendOpen(c) \/ SendWrite(c) \/ SendCommit(c) \/ SendRelease(c)
    PROVE  Shape'
<1> USE DEF Shape, TypeOK
<1>1. /\ op[c] \in Op /\ pathtofh[c] \in PathMap /\ op[c].file \in Path /\ op[c].fh \in Fh
      /\ fi[c] \in [Slot -> OpenFile \cup {NoOpen}] /\ op[c].slot \in Slot
      /\ chunks[c] \subseteq Chunk
      /\ NoRequest \in Request
  BY NoCallType DEF ClientTypeOK, Op, File
<1>2. Handle(c) # NoFh => Handle(c) \in Fh
  BY <1>1 DEF Handle, PathMap
<1>3. CASE SendLookup(c)
  <2> DEFINE r == [NoRequest EXCEPT !.command = "lookup", !.name = op[c].file]
  <2>1. r \in Request /\ r.command = "lookup"
    BY <1>1 DEF Request
  <2>2. Send(c, r) /\ UNCHANGED clientVars /\ op[c].pc \in {"open", "write", "release", "close"}
    BY <1>3 DEF SendLookup, At
  <2> HIDE DEF r
  <2> QED
    BY <2>1, <2>2, SendStep DEF RequestFits
<1>4. CASE SendOpen(c)
  <2> DEFINE r == [NoRequest EXCEPT !.command = "open", !.fh = Handle(c)]
  <2>1. r \in Request /\ r.command = "open"
    BY <1>1, <1>2, <1>4 DEF Request, SendOpen
  <2>2. Send(c, r) /\ UNCHANGED clientVars /\ op[c].pc = "open"
    BY <1>4 DEF SendOpen, At
  <2> HIDE DEF r
  <2> QED
    BY <2>1, <2>2, SendStep DEF RequestFits
<1>5. CASE SendWrite(c)
  <2> DEFINE k == op[c].chunk
             r == WriteRequest(k)
  <2>1. op[c].pc \in {"send", "again"} /\ Send(c, r) /\ UNCHANGED clientVars
    BY <1>5 DEF SendWrite, At
  <2>2. k \in chunks[c] /\ k \in Chunk
    BY <1>1, <2>1 DEF ClientShape, OpFits
  <2>3. Issued(k)
    BY <2>2 DEF ClientShape, Issued
  <2>4. r \in Request /\ r.command = "write" /\ r.chunk = k
    <3>1. k.fh \in Fh /\ k.fi \in Fd
      BY <2>2 DEF Chunk
    <3> QED
      BY <1>1, <2>2, <3>1 DEF Request, WriteRequest
  <2> HIDE DEF r
  <2> QED
    BY <2>1, <2>3, <2>4, SendStep DEF RequestFits
<1>6. CASE SendCommit(c)
  <2> DEFINE r == CommitRequest(c)
             N == {k.id[2] : k \in Dirty(c)}
  <2>1. op[c].pc = "commit" /\ Send(c, r) /\ UNCHANGED clientVars
    BY <1>6 DEF SendCommit, At
  <2>2. N \subseteq 1 .. Len(Draw[c])
    BY <1>1, GenOfType DEF Dirty, ClientShape
  <2>3. [n \in N |-> Draw[c][n]] \in [N -> Gen]
    BY <2>2, DrawType
  <2>4. [n \in N |-> Draw[c][n]] \in GenList
    <3> HIDE DEF N
    <3>1. N \in UNION {SUBSET (1 .. Len(Draw[d])) : d \in Client}
      BY <2>2
    <3> QED
      BY <2>3, <3>1 DEF GenList
  <2>5. r \in Request /\ r.command = "commit"
    BY <1>1, <2>4 DEF Request, CommitRequest
  <2> HIDE DEF r
  <2> QED
    BY <2>1, <2>5, SendStep DEF RequestFits
<1>7. CASE SendRelease(c)
  <2> DEFINE r == [NoRequest EXCEPT !.command = "release", !.fh = Handle(c),
                                    !.fi = fi[c][op[c].slot].fi]
  <2>1. op[c].pc = "close" /\ Send(c, r) /\ UNCHANGED clientVars
    BY <1>7 DEF SendRelease, At
  <2>2. fi[c][op[c].slot].fi \in Fd
    BY <1>1, <2>1 DEF ClientShape, OpFits, OpenFile
  <2>3. r \in Request /\ r.command = "release"
    BY <1>1, <1>2, <1>7, <2>2 DEF Request, SendRelease
  <2> HIDE DEF r
  <2> QED
    BY <2>1, <2>3, SendStep DEF RequestFits
<1> QED
  BY <1>3, <1>4, <1>5, <1>6, <1>7
\* What a callback does without a call.
LEMMA LocalSteps ==
    ASSUME Shape, NEW c \in Client,
           \/ \E o \in Offset : KeepChunk(c, o)
           \/ EnterCommit(c) \/ NothingToCommit(c) \/ NextChunk(c) \/ EndResend(c)
    PROVE  Shape'
<1> USE DEF Shape, TypeOK
<1>1. /\ op \in [Client -> Op] /\ op[c] \in Op /\ pathtofh[c] \in PathMap /\ op[c].file \in File
      /\ op[c].slot \in Slot /\ fi[c] \in [Slot -> OpenFile \cup {NoOpen}]
      /\ chunks[c] \subseteq Chunk /\ drawn[c] \in Nat /\ OpFits(c)
  BY DEF ClientTypeOK, Op, ClientShape
<1>2. Handle(c) # NoFh => Handle(c) \in Fh
  BY <1>1 DEF Handle, PathMap, File
<1>3. ASSUME NEW o \in Offset, KeepChunk(c, o)
      PROVE  Shape'
  <2> DEFINE k == NewChunk(c, o)
             new == [op[c] EXCEPT !.pc = "send", !.chunk = k]
  <2>1. /\ op[c].pc = "write" /\ call[c].phase = "none"
        /\ fi[c][op[c].slot] # NoOpen /\ drawn[c] < Len(Draw[c])
    BY <1>1, <1>3 DEF KeepChunk, At, OpFits
  <2>2. <<c, drawn[c] + 1>> \in WriteId
    BY <1>1, <2>1, WriteIdFact, DrawType
  <2>3. fi[c][op[c].slot].fi \in Fd
    BY <1>1, <2>1 DEF OpenFile
  <2>4. k \in Chunk /\ k.id = <<c, drawn[c] + 1>>
    BY <1>1, <1>2, <1>3, <2>2, <2>3 DEF KeepChunk, NewChunk, Chunk
  <2>5. new \in Op /\ new.pc = "send" /\ new.chunk = k
    <3> HIDE DEF k
    <3> QED
      BY <1>1, <2>4 DEF Op
  <2>6. op' = [op EXCEPT ![c] = new] /\ op'[c] = new
    BY <1>1, <1>3 DEF KeepChunk
  <2>7. chunks'[c] = chunks[c] \cup {k} /\ drawn'[c] = drawn[c] + 1
    BY <1>3 DEF KeepChunk, ClientTypeOK
  <2>8. chunks' = [chunks EXCEPT ![c] = chunks[c] \cup {k}]
    BY <1>3 DEF KeepChunk
  <2> HIDE DEF k, new
  <2>9. ClientTypeOK' /\ NetworkTypeOK'
    <3>1. chunks' \in [Client -> SUBSET Chunk]
      BY <1>1, <2>4, <2>8 DEF ClientTypeOK
    <3>2. drawn' \in [Client -> Nat]
      <4>1. drawn' = [drawn EXCEPT ![c] = drawn[c] + 1]
        BY <1>3 DEF KeepChunk
      <4> QED
        BY <1>1, <4>1 DEF ClientTypeOK
    <3>3. op' \in [Client -> Op]
      BY <2>5, <2>6 DEF ClientTypeOK
    <3> QED
      BY <1>3, <3>1, <3>2, <3>3 DEF KeepChunk, ClientTypeOK, NetworkTypeOK
  <2>10. CallFits(c)' /\ OpFits(c)'
    BY <1>3, <2>1, <2>5, <2>6, <2>7 DEF CallFits, OpFits, KeepChunk
  <2>11. \A m \in chunks'[c] : m.id[1] = c /\ m.id[2] <= drawn'[c]
    <3>1. \A m \in chunks[c] : m.id[1] = c /\ m.id[2] <= drawn[c] /\ m.id[2] \in Nat
      BY <1>1, GenOfType DEF ClientShape
    <3> QED
      BY <1>1, <2>4, <2>7, <3>1
  <2>12. \A d \in Client \ {c} : /\ op'[d] = op[d] /\ fi'[d] = fi[d] /\ chunks'[d] = chunks[d]
                                /\ call'[d] = call[d] /\ drawn'[d] = drawn[d]
    BY <1>3 DEF KeepChunk, ClientTypeOK
  <2>13. UNCHANGED <<serverVars, diskVars, late>>
    BY <1>3 DEF KeepChunk
  <2>14. drawn[c] <= drawn'[c]
    BY <1>1, <2>7
  <2> QED
    BY <2>9, <2>10, <2>11, <2>12, <2>13, <2>14, ClientFrame
<1>4. CASE EnterCommit(c)
  <2> DEFINE o == [op[c] EXCEPT !.pc = "commit", !.fh = Handle(c)]
  <2>1. o \in Op /\ o.pc = "commit" /\ o.slot = op[c].slot
    BY <1>1, <1>2, <1>4 DEF Op, EnterCommit
  <2>2. op' = [op EXCEPT ![c] = o] /\ op'[c] = o
    BY <1>1, <1>4 DEF EnterCommit
  <2> HIDE DEF o
  <2>3. OpFits(c)'
    BY <1>1, <1>4, <2>1, <2>2 DEF OpFits, EnterCommit, At
  <2> QED
    BY <1>4, <2>1, <2>2, <2>3, LocalStep DEF EnterCommit, At
<1>5. CASE NothingToCommit(c)
  <2> DEFINE o == [op[c] EXCEPT !.pc = "close"]
  <2>1. o \in Op /\ o.pc = "close" /\ o.slot = op[c].slot
    BY <1>1 DEF Op
  <2>2. op' = [op EXCEPT ![c] = o] /\ op'[c] = o
    BY <1>1, <1>5 DEF NothingToCommit, Goto
  <2> HIDE DEF o
  <2>3. OpFits(c)'
    BY <1>1, <1>5, <2>1, <2>2 DEF OpFits, NothingToCommit, At
  <2> QED
    BY <1>5, <2>1, <2>2, <2>3, LocalStep DEF NothingToCommit, At
<1>6. CASE NextChunk(c)
  <2>1. PICK k \in ToResend(c) : op' = [op EXCEPT ![c].pc = "again", ![c].chunk = k]
    BY <1>6 DEF NextChunk
  <2> DEFINE o == [op[c] EXCEPT !.pc = "again", !.chunk = k]
  <2>2. k \in chunks[c] /\ k \in Chunk
    BY <1>1 DEF ToResend
  <2>3. o \in Op /\ o.pc = "again" /\ o.slot = op[c].slot /\ o.chunk = k
    BY <1>1, <2>2 DEF Op
  <2>4. op' = [op EXCEPT ![c] = o] /\ op'[c] = o
    BY <1>1, <2>1
  <2> HIDE DEF o
  <2>5. OpFits(c)'
    BY <1>1, <1>6, <2>2, <2>3, <2>4 DEF OpFits, NextChunk, At
  <2> QED
    BY <1>6, <2>3, <2>4, <2>5, LocalStep DEF NextChunk, At
<1>7. CASE EndResend(c)
  <2> DEFINE o == [op[c] EXCEPT !.pc = "commit", !.chunk = NoChunk]
  <2>1. o \in Op /\ o.pc = "commit" /\ o.slot = op[c].slot
    BY <1>1 DEF Op
  <2>2. op' = [op EXCEPT ![c] = o] /\ op'[c] = o
    BY <1>1, <1>7 DEF EndResend
  <2> HIDE DEF o
  <2>3. OpFits(c)'
    BY <1>1, <1>7, <2>1, <2>2 DEF OpFits, EndResend, At
  <2> QED
    BY <1>7, <2>1, <2>2, <2>3, LocalStep DEF EndResend, At
<1> QED
  BY <1>3, <1>4, <1>5, <1>6, <1>7
\* A callback takes an answer, or retries.
LEMMA AnswerSteps ==
    ASSUME Shape, NEW c \in Client,
           \/ GotHandle(c) \/ Opened(c) \/ OpenRefused(c) \/ Written(c) \/ Committed(c)
           \/ CommitMissing(c) \/ CommitRefused(c) \/ Released(c) \/ Retry(c)
    PROVE  Shape'
<1> USE DEF Shape, TypeOK
<1>1. /\ pathtofh[c] \in PathMap /\ pathtofh = [pathtofh EXCEPT ![c] = pathtofh[c]]
      /\ chunks[c] \in SUBSET chunks[c] /\ chunks = [chunks EXCEPT ![c] = chunks[c]]
      /\ fi[c] \in [Slot -> OpenFile \cup {NoOpen}] /\ fi = [fi EXCEPT ![c] = fi[c]]
      /\ op \in [Client -> Op] /\ op[c] \in Op /\ op[c].slot \in Slot /\ op[c].file \in File
      /\ call[c] \in Call
      /\ OpFits(c) /\ CallFits(c)
  BY DEF ClientTypeOK, NetworkTypeOK, ClientShape, Op
<1>2. IdleOp \in Op /\ IdleOp.pc = "idle"
  BY WriteCommitAssumption, MaxFhAssumption DEF IdleOp, Op, Fh
<1>3. NoHandles \in PathMap
  BY PathAssumption, MaxFhAssumption DEF NoHandles, PathMap, Fh, NoFh
\* The steps that return to the application, and those that go on at pc.
<1>4. ASSUME call' = [call EXCEPT ![c] = NoCall], Return(c),
             NEW F \in [Slot -> OpenFile \cup {NoOpen}], fi' = [fi EXCEPT ![c] = F],
             UNCHANGED <<serverVars, diskVars, pathtofh, chunks, drawn, late, faults>>
      PROVE  Shape'
  BY <1>1, <1>2, <1>4, ReturnStep DEF Return
<1>5. ASSUME call' = [call EXCEPT ![c] = NoCall], NEW pc \in {"release", "commit", "resend", "close"},
             Goto(c, pc), fi[c][op[c].slot] # NoOpen,
             NEW K \in SUBSET chunks[c], chunks' = [chunks EXCEPT ![c] = K],
             NEW h \in PathMap, pathtofh' = [pathtofh EXCEPT ![c] = h],
             UNCHANGED <<serverVars, diskVars, fi, drawn, late, faults>>
      PROVE  Shape'
  <2> DEFINE o == [op[c] EXCEPT !.pc = pc]
  <2>1. o \in Op /\ o.pc = pc /\ o.slot = op[c].slot
    BY <1>1 DEF Op
  <2>2. op' = [op EXCEPT ![c] = o]
    BY <1>1, <1>5 DEF Goto
  <2> HIDE DEF o
  <2> QED
    BY <1>1, <1>5, <2>1, <2>2, ReturnStep
<1>6. CASE GotHandle(c)
  <2> DEFINE h == [pathtofh[c] EXCEPT ![call[c].req.name] = call[c].rep.fh]
  <2>1. h \in PathMap
    BY <1>1 DEF PathMap, Call, Request, Response
  <2>2. pathtofh' = [pathtofh EXCEPT ![c] = h]
    BY <1>1, <1>6 DEF GotHandle
  <2> HIDE DEF h
  <2> QED
    BY <1>6, <2>1, <2>2, StayStep DEF GotHandle, Answered
<1>7. CASE Opened(c)
  <2> DEFINE F == [fi[c] EXCEPT ![op[c].slot] = [file |-> op[c].file, fi |-> call[c].rep.fi]]
  <2>1. call[c].rep.fi \in Fd
    BY <1>1, <1>7 DEF CallFits, Opened, Answered
  <2>2. F \in [Slot -> OpenFile \cup {NoOpen}]
    BY <1>1, <2>1 DEF OpenFile
  <2>3. fi' = [fi EXCEPT ![c] = F]
    BY <1>1, <1>7 DEF Opened
  <2> HIDE DEF F
  <2> QED
    BY <1>4, <1>7, <2>2, <2>3 DEF Opened, Answered
<1>8. CASE OpenRefused(c)
  BY <1>1, <1>4, <1>8 DEF OpenRefused, Answered
<1>9. CASE Written(c)
  <2>1. CASE op[c].pc = "again"
    <3>1. Goto(c, "resend") /\ fi[c][op[c].slot] # NoOpen
      BY <1>1, <1>9, <2>1 DEF Written, OpFits
    <3> QED
      BY <1>1, <1>5, <1>9, <3>1 DEF Written, Answered
  <2>2. CASE op[c].pc # "again"
    BY <1>1, <1>4, <1>9, <2>2 DEF Written, Answered
  <2> QED
    BY <2>1, <2>2
<1>10. ASSUME Answered(c, "commit") PROVE fi[c][op[c].slot] # NoOpen
  BY <1>1, <1>10 DEF Answered, CallFits, OpFits
<1>11. CASE Committed(c)
  <2>1. chunks[c] \ Dirty(c) \in SUBSET chunks[c]
    OBVIOUS
  <2> QED
    BY <1>1, <1>5, <1>10, <1>11, <2>1 DEF Committed, Answered
<1>12. CASE CommitMissing(c)
  BY <1>1, <1>5, <1>10, <1>12 DEF CommitMissing, Answered
<1>13. ASSUME Free(c, op[c].slot)
       PROVE  \E F \in [Slot -> OpenFile \cup {NoOpen}] : fi' = [fi EXCEPT ![c] = F]
  <2> DEFINE F == [fi[c] EXCEPT ![op[c].slot] = NoOpen]
  <2>1. F \in [Slot -> OpenFile \cup {NoOpen}] /\ fi' = [fi EXCEPT ![c] = F]
    BY <1>1, <1>13 DEF Free
  <2> QED
    BY <2>1
<1>14. CASE CommitRefused(c)
  BY <1>4, <1>13, <1>14 DEF CommitRefused, Answered
<1>15. CASE Released(c)
  BY <1>4, <1>13, <1>15 DEF Released, Answered
<1>16. CASE Retry(c)
  <2>1. CASE call[c].req.command = "release"
    <3>1. Goto(c, "release") /\ fi[c][op[c].slot] # NoOpen
      BY <1>1, <1>16, <2>1 DEF Retry, CallFits, OpFits
    <3> QED
      BY <1>1, <1>3, <1>5, <1>16, <3>1 DEF Retry
  <2>2. CASE call[c].req.command # "release"
    BY <1>3, <1>16, <2>2, StayStep DEF Retry
  <2> QED
    BY <2>1, <2>2
<1> QED
  BY <1>6, <1>7, <1>8, <1>9, <1>11, <1>12, <1>14, <1>15, <1>16
\* A step of the server or of the network: the clients' variables stay, and
\* calls are answered or fail.
LEMMA ServerFrame ==
    ASSUME Shape, ServerShape', UNCHANGED clientVars,
           late' \subseteq (Client \X Request), \A l \in late' : RequestFits(l[2]),
           call' \in [Client -> Call],
           \A c \in Client :
               \/ call'[c] = call[c]
               \/ /\ call[c].phase # "none"
                  /\ call'[c].phase \in {"failed", "replied"}
                  /\ call'[c].req = call[c].req
                  /\ (call'[c].req.command = "open" /\ call'[c].phase = "replied"
                        /\ call'[c].rep.success = 0) => call'[c].rep.fi \in Fd
    PROVE  Shape'
<1> USE DEF Shape, TypeOK
<1>1. ClientTypeOK' /\ NetworkTypeOK'
  BY DEF ClientTypeOK, NetworkTypeOK, clientVars, ServerShape
<1>2. \A r : RequestFits(r) => RequestFits(r)'
  BY DEF RequestFits, Issued, clientVars
<1>3. LateShape'
  BY <1>2 DEF LateShape
<1>4. ASSUME NEW c \in Client
      PROVE  CallFits(c)'
  <2>1. CallFits(c) /\ UNCHANGED op
    BY DEF ClientShape, clientVars
  <2>2. RequestFits(call[c].req) => RequestFits(call[c].req)'
    BY DEF RequestFits, Issued, clientVars
  <2>3. CASE call'[c] = call[c]
    BY <1>2, <2>1, <2>3 DEF CallFits
  <2>4. CASE call'[c] # call[c]
    BY <1>2, <2>1, <2>4 DEF CallFits
  <2> QED
    BY <2>3, <2>4
<1>5. ClientShape'
  BY <1>4 DEF ClientShape, OpFits, clientVars
<1> QED
  BY <1>1, <1>3, <1>5 DEF ServerShape

LEMMA OutcomeFact ==
    ASSUME Shape, NEW c \in Client, NEW r, Outcome(c, r, TRUE), r = call[c].req,
           call[c].phase = "sent"
    PROVE  /\ call' \in [Client -> Call]
           /\ \A d \in Client :
               \/ call'[d] = call[d]
               \/ /\ call[d].phase # "none"
                  /\ call'[d].phase \in {"failed", "replied"}
                  /\ call'[d].req = call[d].req
                  /\ (call'[d].req.command = "open" /\ call'[d].phase = "replied"
                        /\ call'[d].rep.success = 0) => call'[d].rep.fi \in Fd
<1>1. call \in [Client -> Call] /\ call[c] \in Call
  BY DEF Shape, TypeOK, NetworkTypeOK
<1>2. CASE call' = call
  BY <1>1, <1>2
<1>3. CASE call' = [call EXCEPT ![c].phase = "failed"]
  <2>1. [call[c] EXCEPT !.phase = "failed"] \in Call
    BY <1>1 DEF Call
  <2> QED
    BY <1>1, <1>3, <2>1 DEF Call
<1>4. ASSUME NEW rep \in Response,
             call' = [call EXCEPT ![c] = [phase |-> "replied", req |-> @.req, rep |-> rep]],
             r.command = "open" /\ rep.success = 0 => rep.fi \in Fd
      PROVE  /\ call' \in [Client -> Call]
             /\ call'[c].phase = "replied" /\ call'[c].req = call[c].req /\ call'[c].rep = rep
             /\ \A d \in Client \ {c} : call'[d] = call[d]
  <2> DEFINE new == [phase |-> "replied", req |-> call[c].req, rep |-> rep]
  <2>1. new \in Call
    BY <1>1 DEF Call
  <2>2. call' = [call EXCEPT ![c] = new]
    BY <1>4
  <2>3. new.phase = "replied" /\ new.req = call[c].req /\ new.rep = rep
    OBVIOUS
  <2> HIDE DEF new
  <2> QED
    BY <1>1, <2>1, <2>2, <2>3
<1> QED
  BY <1>2, <1>3, <1>4 DEF Outcome

LEMMA ServeSteps ==
    ASSUME Shape, ServeLate \/ \E c \in Client : ServeCall(c)
    PROVE  Shape' /\ stable \subseteq stable'
<1> USE DEF Shape, TypeOK
<1>1. call \in [Client -> Call] /\ late \subseteq (Client \X Request)
  BY DEF NetworkTypeOK
<1>2. ASSUME NEW c \in Client, ServeCall(c)
      PROVE  Shape' /\ stable \subseteq stable'
  <2> DEFINE r == call[c].req
  <2>1. r \in Request /\ RequestFits(r) /\ call[c].phase = "sent"
    BY <1>1, <1>2 DEF ServeCall, ClientShape, CallFits, Call
  <2>2. ServerShape' /\ stable \subseteq stable' /\ Outcome(c, r, TRUE)
    BY <1>2, <2>1, ServeFact DEF ServeCall
  <2>3. late' = late /\ UNCHANGED clientVars
    BY <1>2 DEF ServeCall
  <2> HIDE DEF r
  <2> QED
    BY <1>1, <2>1, <2>2, <2>3, OutcomeFact, ServerFrame DEF LateShape, r
<1>3. CASE ServeLate
  <2>1. PICK l \in late : Serve(l[1], l[2], FALSE) /\ late' = late \ {l}
    BY <1>3 DEF ServeLate
  <2>2. l[1] \in Client /\ l[2] \in Request /\ RequestFits(l[2])
    BY <1>1 DEF LateShape
  <2>3. UNCHANGED clientVars
    BY <1>3 DEF ServeLate
  <2>4. ServerShape' /\ stable \subseteq stable' /\ Outcome(l[1], l[2], FALSE)
    BY <2>1, <2>2, <2>3, ServeFact
  <2>5. call' = call
    BY <2>4 DEF Outcome
  <2> QED
    BY <1>1, <2>1, <2>3, <2>4, <2>5, ServerFrame DEF LateShape
<1> QED
  BY <1>2, <1>3

\* Calls that fail.
LEMMA FailFact ==
    ASSUME Shape, NEW S, \A c \in S : c \in Client /\ call[c].phase # "none",
           call' = [c \in Client |->
                      IF c \in S THEN [call[c] EXCEPT !.phase = "failed"] ELSE call[c]]
    PROVE  /\ call' \in [Client -> Call]
           /\ \A c \in Client :
               \/ call'[c] = call[c]
               \/ /\ call[c].phase # "none"
                  /\ call'[c].phase = "failed"
                  /\ call'[c].req = call[c].req
<1>1. \A c \in Client : call[c] \in Call
  BY DEF Shape, TypeOK, NetworkTypeOK
<1>2. \A c \in Client : [call[c] EXCEPT !.phase = "failed"] \in Call
  BY <1>1 DEF Call
<1> QED
  BY <1>1, <1>2 DEF Call

LEMMA NetworkSteps ==
    ASSUME Shape, NEW c \in Client, LoseRequest(c) \/ LoseReply(c) \/ Refuse(c)
    PROVE  Shape' /\ stable' = stable
<1> USE DEF Shape, TypeOK
<1>1. call \in [Client -> Call] /\ late \subseteq (Client \X Request) /\ call[c] \in Call
  BY DEF NetworkTypeOK
<1>2. /\ call' = [call EXCEPT ![c].phase = "failed"]
      /\ call[c].phase # "none"
      /\ UNCHANGED <<serverVars, diskVars, clientVars>>
  BY DEF LoseRequest, LoseReply, Refuse
<1>3. call' = [d \in Client |->
                 IF d \in {c} THEN [call[d] EXCEPT !.phase = "failed"] ELSE call[d]]
  BY <1>1, <1>2
<1>4. /\ call' \in [Client -> Call]
      /\ \A d \in Client :
            \/ call'[d] = call[d]
            \/ /\ call[d].phase # "none"
               /\ call'[d].phase = "failed"
               /\ call'[d].req = call[d].req
  BY <1>2, <1>3, FailFact
<1>5. faults' \in [lost : Nat, late : Nat, crash : Nat, io : Nat]
  <2>1. faults \in [lost : Nat, late : Nat, crash : Nat, io : Nat]
    BY DEF NetworkTypeOK
  <2>2. \/ faults' = faults
        \/ faults' = [faults EXCEPT !.lost = @ + 1]
        \/ faults' = [faults EXCEPT !.lost = @ + 1, !.late = @ + 1]
    BY DEF LoseRequest, LoseReply, Refuse
  <2>3. [faults EXCEPT !.lost = @ + 1] \in [lost : Nat, late : Nat, crash : Nat, io : Nat]
    BY <2>1
  <2>4. [faults EXCEPT !.lost = @ + 1, !.late = @ + 1]
          \in [lost : Nat, late : Nat, crash : Nat, io : Nat]
    <3> DEFINE g == [faults EXCEPT !.lost = @ + 1]
    <3>1. g \in [lost : Nat, late : Nat, crash : Nat, io : Nat] /\ g.late = faults.late
      BY <2>1
    <3>2. [faults EXCEPT !.lost = @ + 1, !.late = @ + 1] = [g EXCEPT !.late = @ + 1]
      BY <3>1
    <3>3. [g EXCEPT !.late = @ + 1] \in [lost : Nat, late : Nat, crash : Nat, io : Nat]
      <4> HIDE DEF g
      <4> QED
        BY <3>1
    <3> QED
      BY <3>2, <3>3
  <2> QED
    BY <2>1, <2>2, <2>3, <2>4
<1>6. late' = late \/ late' = late \cup {<<c, call[c].req>>}
  BY DEF LoseRequest, LoseReply, Refuse
<1>7. call[c].req \in Request /\ RequestFits(call[c].req)
  BY <1>1, <1>2 DEF Call, ClientShape, CallFits
<1>8. late' \subseteq (Client \X Request) /\ \A l \in late' : RequestFits(l[2])
  BY <1>1, <1>6, <1>7 DEF LateShape
<1>9. ServerShape'
  BY <1>2, <1>5 DEF ServerShape, serverVars, diskVars, clientVars, ServerTypeOK, DiskTypeOK,
                    CacheShape, StableShape, Issued
<1> QED
  BY <1>2, <1>4, <1>8, <1>9, ServerFrame DEF diskVars

LEMMA CrashSteps ==
    ASSUME Shape, Crash
    PROVE  Shape' /\ stable \subseteq stable'
<1> USE DEF Shape, TypeOK
<1>1. Die
  BY DEF Crash, CrashBetween, CrashInStore, CrashInCommit
<1>2. PICK S \in SUBSET {c \in Client : call[c].phase = "replied"} :
        call' = [c \in Client |->
                   IF call[c].phase = "sent" \/ c \in S
                   THEN [call[c] EXCEPT !.phase = "failed"] ELSE call[c]]
  BY <1>1 DEF Die
<1> DEFINE T == {c \in Client : call[c].phase = "sent" \/ c \in S}
<1>3. call' = [c \in Client |->
                 IF c \in T THEN [call[c] EXCEPT !.phase = "failed"] ELSE call[c]]
  BY <1>2
<1>4. \A c \in T : c \in Client /\ call[c].phase # "none"
  OBVIOUS
<1>5. /\ call' \in [Client -> Call]
      /\ \A c \in Client :
            \/ call'[c] = call[c]
            \/ /\ call[c].phase # "none"
               /\ call'[c].phase = "failed"
               /\ call'[c].req = call[c].req
  <2> HIDE DEF T
  <2> QED
    BY <1>3, <1>4, FailFact
<1>6. ServerTypeOK' /\ CacheShape'
  <2>1. /\ up' = FALSE /\ table' = NewTable /\ fds' = [d \in Fd |-> NoPath]
        /\ cache' = [g \in Gen |-> <<>>]
    BY <1>1 DEF Die
  <2>2. cache' \in [Gen -> Seq(Chunk)] /\ fds' \in [Fd -> File \cup {NoPath}]
    BY <2>1
  <2>3. ServerTypeOK'
    BY <2>1, <2>2, NewTableType DEF ServerTypeOK
  <2> QED
    BY <2>1, <2>3 DEF CacheShape
<1>7. faults' \in [lost : Nat, late : Nat, crash : Nat, io : Nat]
  BY <1>1 DEF Die, NetworkTypeOK
<1>8. UNCHANGED clientVars /\ late' = {} /\ UNCHANGED drawn
  BY <1>1 DEF Die, clientVars
<1>9. \A c \in Client : call[c].phase = "sent" =>
        call[c].req \in Request /\ RequestFits(call[c].req)
  BY DEF NetworkTypeOK, Call, ClientShape, CallFits
<1>10. \A r \in Pending : r \in Request
  BY <1>9 DEF Pending, NetworkTypeOK
<1>11. DiskTypeOK' /\ StableShape' /\ stable \subseteq stable'
  <2>1. CASE CrashBetween
    BY <1>8, <2>1 DEF CrashBetween, diskVars, DiskTypeOK, StableShape
  <2>2. CASE CrashInStore
    <3>1. PICK r \in Pending :
            /\ table.fhcount \in Fh
            /\ log' \in CutStores(AddLookup(table, r.name), log)
                        \cup {Stored(AddLookup(table, r.name))}
      BY <2>2 DEF CrashInStore
    <3>2. r.name \in Path /\ table \in Table /\ log \in Log
      BY <1>10 DEF Request, ServerTypeOK, DiskTypeOK
    <3>3. AddLookup(table, r.name) \in Table
      BY <3>1, <3>2, AddLookupType
    <3>4. log' \in Log
      BY <3>1, <3>2, <3>3, CutStoresType, StoredType
    <3> QED
      BY <1>8, <2>2, <3>4 DEF CrashInStore, DiskTypeOK, StableShape
  <2>3. CASE CrashInCommit
    <3>1. PICK r \in Pending : \E n \in Hits(r) \ BadHits(r) :
            /\ BadHits(r) \cap Before(r, n) = {}
            /\ Pwrite(r, Before(r, n) \cup {n})
      BY <2>3 DEF CrashInCommit
    <3>2. PICK n \in Hits(r) \ BadHits(r) :
            /\ BadHits(r) \cap Before(r, n) = {}
            /\ Pwrite(r, Before(r, n) \cup {n})
      BY <3>1
    <3> DEFINE done == Before(r, n) \cup {n}
    <3>3. done \in SUBSET Hits(r) /\ done \cap BadHits(r) = {} /\ Pwrite(r, done)
      BY <3>2 DEF Before
    <3> HIDE DEF done
    <3>4. /\ disk' \in [File -> [Offset -> WriteId \cup {Blank}]]
          /\ stable' \subseteq Stable
          /\ stable \subseteq stable'
          /\ StableShape'
      BY <1>8, <1>10, <3>3, PwriteFact
    <3> QED
      BY <2>3, <3>4 DEF CrashInCommit, DiskTypeOK
  <2> QED
    BY <2>1, <2>2, <2>3 DEF Crash
<1>12. ServerShape'
  BY <1>6, <1>7, <1>11 DEF ServerShape
<1> QED
  BY <1>5, <1>8, <1>11, <1>12, ServerFrame

LEMMA ShapeStep == Shape /\ [Next]_vars => Shape'
<1> SUFFICES ASSUME Shape, [Next]_vars PROVE Shape'
  OBVIOUS
<1>1. CASE UNCHANGED vars
  BY <1>1 DEF vars, serverVars, diskVars, clientVars, Shape, TypeOK, ServerTypeOK, DiskTypeOK,
              ClientTypeOK, NetworkTypeOK, ClientShape, OpFits, CallFits, CacheShape, LateShape,
              StableShape, RequestFits, Issued
<1>2. ASSUME NEW c \in Client, Begin(c) PROVE Shape'
  BY <1>2, BeginStep
<1>3. ASSUME NEW c \in Client, Proceed(c) PROVE Shape'
  BY <1>3, SendSteps, LocalSteps, AnswerSteps DEF Proceed
<1>4. CASE ServeLate \/ \E c \in Client : ServeCall(c)
  BY <1>4, ServeSteps
<1>5. ASSUME NEW c \in Client, Refuse(c) \/ Fault(c) PROVE Shape'
  BY <1>5, NetworkSteps DEF Fault
<1>6. CASE Crash
  BY <1>6, CrashSteps
<1>7. CASE Restart
  BY <1>7 DEF Restart, diskVars, clientVars, Shape, TypeOK, ServerTypeOK, DiskTypeOK,
              ClientTypeOK, NetworkTypeOK, ClientShape, OpFits, CallFits, CacheShape, LateShape,
              StableShape, RequestFits, Issued
<1> QED
  BY <1>1, <1>2, <1>3, <1>4, <1>5, <1>6, <1>7 DEF Next

LEMMA ShapeInvariant == Spec => []Shape
BY ShapeInit, ShapeStep, PTL DEF Spec

\* Every variable has its type in every reachable state, whatever the draws
\* and however often each fault strikes: no handler and no retry records a
\* descriptor that open(2) did not return, or stores what no client wrote.
THEOREM TypeCorrect == Spec => []TypeOK
<1>1. Shape => TypeOK
  BY DEF Shape
<1> QED
  BY <1>1, ShapeInvariant, PTL
-----------------------------------------------------------------------------
(* Under DrawsDistinct the copies are dropped only when they may be.        *)

\* With distinct draws the gen of a Write says which write it is.
LEMMA GenIdentifies ==
    ASSUME DrawsDistinct, NEW k \in Chunk, NEW c \in Client, NEW n \in 1 .. Len(Draw[c]),
           GenOf(k) = Draw[c][n]
    PROVE  k.id = <<c, n>>
BY GenOfType DEF DrawsDistinct, GenOf

\* A commit that the server acknowledges has put every listed write on disk.
LEMMA AckedIsStable ==
    ASSUME DrawsDistinct, Shape, NEW c \in Client, NEW r \in Request,
           \A n \in DOMAIN r.gens : n \in 1 .. Len(Draw[c]) /\ r.gens[n] = Draw[c][n],
           ReadyToWrite(r), Pwrite(r, Hits(r))
    PROVE  \A n \in DOMAIN r.gens : <<c, n>> \in StableIds'
<1> SUFFICES ASSUME NEW n \in DOMAIN r.gens PROVE <<c, n>> \in StableIds'
  OBVIOUS
<1> DEFINE g == r.gens[n]
<1>1. g = Draw[c][n] /\ g \in Gen /\ n \in 1 .. Len(Draw[c]) /\ n \in Nat
  BY GensType
<1>2. cache[g] # <<>> /\ cache[g] \in Seq(Chunk)
  BY <1>1 DEF ReadyToWrite, Shape, TypeOK, ServerTypeOK
<1>3. Len(cache[g]) \in Nat /\ 1 <= Len(cache[g])
  BY <1>2
<1>4. \A m \in DOMAIN r.gens : r.gens[m] = g => m = n
  BY <1>1 DEF DrawsDistinct
<1>5. {m \in DOMAIN r.gens : m <= n /\ r.gens[m] = r.gens[n]} = {n}
  BY <1>1, <1>4
<1>6. Rank(r, n) = 1
  BY <1>5, FS_Singleton DEF Rank
<1>7. n \in Hits(r)
  BY <1>3, <1>6 DEF Hits
<1>8. Hit(r, n) = cache[g][1] /\ cache[g][1] \in Chunk /\ GenOf(cache[g][1]) = g
  BY <1>1, <1>2, <1>3, <1>6 DEF Hit, Shape, CacheShape
<1>9. Hit(r, n).id = <<c, n>>
  BY <1>1, <1>8, GenIdentifies
<1>10. [id |-> Hit(r, n).id, to |-> Hit(r, n).file, on |-> fds[Hit(r, n).fi]] \in stable'
  BY <1>7 DEF Pwrite
<1> QED
  BY <1>9, <1>10 DEF StableIds, Ids

\* What an invariant of the clients' copies has to survive.
StepKind ==
    \/ UNCHANGED <<chunks, stable, drawn>>
    \/ \E c \in Client : \E o \in Offset : KeepChunk(c, o)
    \/ \E c \in Client : Committed(c)
    \/ UNCHANGED <<chunks, drawn>> /\ stable \subseteq stable'

LEMMA NextStepKind ==
    ASSUME Shape, [Next]_vars
    PROVE  StepKind
<1>1. CASE UNCHANGED vars
  BY <1>1 DEF vars, diskVars, clientVars, StepKind
<1>2. ASSUME NEW c \in Client, Begin(c) PROVE StepKind
  BY <1>2 DEF Begin, StartOpen, StartWrite, StartRelease, Start, diskVars, StepKind
<1>3. ASSUME NEW c \in Client, Proceed(c) PROVE StepKind
  <2>1. CASE SendLookup(c) \/ SendOpen(c) \/ SendWrite(c) \/ SendCommit(c) \/ SendRelease(c)
    BY <2>1 DEF SendLookup, SendOpen, SendWrite, SendCommit, SendRelease, Send, diskVars,
                clientVars, StepKind
  <2>2. CASE EnterCommit(c) \/ NothingToCommit(c) \/ NextChunk(c) \/ EndResend(c)
    BY <2>2 DEF EnterCommit, NothingToCommit, NextChunk, EndResend, diskVars, StepKind
  <2>3. CASE \/ GotHandle(c) \/ Opened(c) \/ OpenRefused(c) \/ Written(c)
             \/ CommitMissing(c) \/ CommitRefused(c) \/ Released(c)
    BY <2>3 DEF GotHandle, Opened, OpenRefused, Written, CommitMissing, CommitRefused, Released,
                Answered, diskVars, StepKind
  <2>4. CASE Retry(c)
    BY <2>4 DEF Retry, diskVars, StepKind
  <2> QED
    BY <1>3, <2>1, <2>2, <2>3, <2>4 DEF Proceed, StepKind
<1>4. CASE ServeLate \/ \E c \in Client : ServeCall(c)
  BY <1>4, ServeSteps DEF ServeLate, ServeCall, clientVars, StepKind
<1>5. ASSUME NEW c \in Client, Refuse(c) \/ Fault(c) PROVE StepKind
  BY <1>5 DEF Refuse, Fault, LoseRequest, LoseReply, diskVars, clientVars, StepKind
<1>6. CASE Crash
  BY <1>6, CrashSteps DEF Crash, CrashBetween, CrashInStore, CrashInCommit, Die, clientVars,
                          StepKind
<1>7. CASE Restart
  BY <1>7 DEF Restart, diskVars, clientVars, StepKind
<1> QED
  BY <1>1, <1>2, <1>3, <1>4, <1>5, <1>6, <1>7 DEF Next
\* A client's own steps leave the other clients alone.
LEMMA OthersAlone ==
    ASSUME Shape, NEW d \in Client, Begin(d) \/ Proceed(d), NEW c \in Client, c # d
    PROVE  op'[c] = op[c] /\ chunks'[c] = chunks[c] /\ call'[c] = call[c] /\ stable' = stable
<1> USE DEF Shape, TypeOK, ClientTypeOK, NetworkTypeOK, clientVars, diskVars
<1>1. CASE Begin(d)
  BY <1>1 DEF Begin, StartOpen, StartWrite, StartRelease, Start
<1>2. CASE SendLookup(d) \/ SendOpen(d) \/ SendWrite(d) \/ SendCommit(d) \/ SendRelease(d)
  BY <1>2 DEF SendLookup, SendOpen, SendWrite, SendCommit, SendRelease, Send
<1>3. CASE \/ \E o \in Offset : KeepChunk(d, o)
           \/ EnterCommit(d) \/ NothingToCommit(d) \/ NextChunk(d) \/ EndResend(d)
  BY <1>3 DEF KeepChunk, EnterCommit, NothingToCommit, NextChunk, EndResend, Goto
<1>4. CASE GotHandle(d) \/ Opened(d) \/ OpenRefused(d) \/ Written(d)
  BY <1>4 DEF GotHandle, Opened, OpenRefused, Written, Answered, Goto, Return
<1>5. CASE Committed(d) \/ CommitMissing(d) \/ CommitRefused(d) \/ Released(d)
  BY <1>5 DEF Committed, CommitMissing, CommitRefused, Released, Answered, Goto, Return
<1>6. CASE Retry(d)
  BY <1>6 DEF Retry, Goto
<1> QED
  BY <1>1, <1>2, <1>3, <1>4, <1>5, <1>6 DEF Proceed

\* After its own step a client has a commit under way only if it has just sent
\* one.
LEMMA OwnStep ==
    ASSUME Shape, NEW c \in Client, Begin(c) \/ Proceed(c),
           call'[c].phase \in {"sent", "replied"}, call'[c].req.command = "commit"
    PROVE  SendCommit(c)
<1> USE DEF Shape, TypeOK, NetworkTypeOK
<1>1. ~Begin(c)
  BY DEF Begin, StartOpen, StartWrite, StartRelease, Start, At
<1>2. /\ \A o \in Offset : ~KeepChunk(c, o)
      /\ ~EnterCommit(c) /\ ~NothingToCommit(c) /\ ~NextChunk(c) /\ ~EndResend(c)
  BY DEF KeepChunk, EnterCommit, NothingToCommit, NextChunk, EndResend, At
<1>3. /\ ~GotHandle(c) /\ ~Opened(c) /\ ~OpenRefused(c) /\ ~Written(c) /\ ~Committed(c)
      /\ ~CommitMissing(c) /\ ~CommitRefused(c) /\ ~Released(c) /\ ~Retry(c)
  BY DEF GotHandle, Opened, OpenRefused, Written, Committed, CommitMissing, CommitRefused,
         Released, Retry, Answered, NoCall
<1>4. ASSUME NEW r, r.command # "commit" PROVE ~Send(c, r)
  <2> SUFFICES ASSUME Send(c, r) PROVE FALSE
    OBVIOUS
  <2>1. call' = [call EXCEPT ![c] = [phase |-> "sent", req |-> r, rep |-> NoResponse]]
    BY DEF Send
  <2>2. call'[c].req = r
    BY <2>1
  <2> QED
    BY <1>4, <2>2
<1>5. ~SendLookup(c) /\ ~SendOpen(c)
  BY <1>4 DEF SendLookup, SendOpen, NoRequest
<1>6. ~SendWrite(c) /\ ~SendRelease(c)
  BY <1>4 DEF SendWrite, SendRelease, WriteRequest, NoRequest
<1> QED
  BY <1>1, <1>2, <1>3, <1>5, <1>6 DEF Proceed

\* The server acknowledges a commit only when it has persisted it.
LEMMA ServeCommitFits ==
    ASSUME DrawsDistinct, Shape, NEW c \in Client, CommitFits(c), ServeCall(c)
    PROVE  CommitFits(c)'
<1> USE DEF Shape, TypeOK
<1> SUFFICES ASSUME call'[c].phase \in {"sent", "replied"}, call'[c].req.command = "commit"
             PROVE  /\ call'[c].req.gens = [n \in {k.id[2] : k \in Dirty(c)'} |-> Draw[c][n]]
                    /\ (call'[c].phase = "replied" /\ call'[c].rep.success = 0) =>
                         \A n \in DOMAIN call'[c].req.gens : <<c, n>> \in StableIds'
  BY DEF CommitFits
<1> DEFINE r == call[c].req
<1>1. /\ call \in [Client -> Call] /\ call[c].phase = "sent" /\ r \in Request
      /\ Serve(c, r, TRUE) /\ UNCHANGED clientVars /\ RequestFits(r)
  BY DEF ServeCall, NetworkTypeOK, Call, ClientShape, CallFits
<1>2. Outcome(c, r, TRUE) /\ stable \subseteq stable'
  BY <1>1, ServeFact
<1>3. call'[c].req = r /\ r.command = "commit"
  <2>1. CASE call' = call
    BY <1>1, <2>1
  <2>2. CASE call' = [call EXCEPT ![c].phase = "failed"]
    BY <1>1, <2>2 DEF Call
  <2>3. CASE \E rep \in Response :
               call' = [call EXCEPT ![c] = [phase |-> "replied", req |-> @.req, rep |-> rep]]
    BY <1>1, <2>3
  <2> QED
    BY <1>2, <2>1, <2>2, <2>3 DEF Outcome
<1>4. r.gens = [n \in {k.id[2] : k \in Dirty(c)} |-> Draw[c][n]]
  BY <1>1, <1>3 DEF CommitFits
<1>5. Dirty(c)' = Dirty(c)
  BY <1>1 DEF Dirty, clientVars
<1>6. \A n \in DOMAIN r.gens : n \in 1 .. Len(Draw[c]) /\ r.gens[n] = Draw[c][n]
  <2>1. \A k \in Dirty(c) : k \in Chunk /\ k.id[1] = c
    BY DEF Dirty, ClientShape, ClientTypeOK
  <2> QED
    BY <1>4, <2>1, GenOfType
<1>7. ASSUME call'[c].phase = "replied", call'[c].rep.success = 0
      PROVE  \A n \in DOMAIN r.gens : <<c, n>> \in StableIds'
  <2>1. /\ ~ServeLookup(c, r, TRUE) /\ ~ServeUnresolved(c, r, TRUE) /\ ~ServeOpen(c, r, TRUE)
        /\ ~ServeOpenFails(c, r, TRUE) /\ ~ServeWrite(c, r, TRUE) /\ ~ServeRelease(c, r, TRUE)
    BY <1>3 DEF ServeLookup, ServeUnresolved, ServeOpen, ServeOpenFails, ServeWrite, ServeRelease
  <2>2. ~ServeCommitThrows(c, r, TRUE)
    <3>1. ASSUME call' = [call EXCEPT ![c].phase = "failed"] PROVE FALSE
      <4>1. call'[c].phase = "failed"
        BY <1>1, <3>1 DEF Call
      <4> QED
        BY <1>7, <4>1
    <3> QED
      BY <3>1 DEF ServeCommitThrows, Throw
  <2>3. ~ServeCommitNotReady(c, r, TRUE)
    BY <1>1, <1>7 DEF ServeCommitNotReady, Reply, NoResponse
  <2>4. ~ServeCommitFails(c, r, TRUE)
    BY <1>1, <1>7 DEF ServeCommitFails, Reply, NoResponse
  <2>5. ServeCommit(c, r, TRUE)
    BY <1>1, <2>1, <2>2, <2>3, <2>4 DEF Serve
  <2> HIDE DEF r
  <2> QED
    BY <1>1, <1>6, <2>5, AckedIsStable DEF ServeCommit
<1> QED
  BY <1>3, <1>4, <1>5, <1>7

LEMMA CommitFitsStep ==
    ASSUME DrawsDistinct, IInv, [Next]_vars, NEW c \in Client
    PROVE  CommitFits(c)'
<1>1. Shape /\ CommitFits(c)
  BY DEF IInv, Safe
<1>2. ASSUME op'[c] = op[c], chunks'[c] = chunks[c], stable \subseteq stable',
             call'[c] = call[c] \/ call'[c].phase = "failed"
      PROVE  CommitFits(c)'
  <2>1. Dirty(c)' = Dirty(c)
    BY <1>2 DEF Dirty
  <2>2. StableIds \subseteq StableIds'
    BY <1>2 DEF StableIds, Ids
  <2> QED
    BY <1>1, <1>2, <2>1, <2>2 DEF CommitFits
<1>3. CASE UNCHANGED vars
  BY <1>2, <1>3 DEF vars, diskVars, clientVars
<1>4. ASSUME NEW d \in Client, Begin(d) \/ Proceed(d)
      PROVE  CommitFits(c)'
  <2>1. CASE d # c
    BY <1>1, <1>2, <1>4, <2>1, OthersAlone
  <2>2. CASE d = c
    <3> SUFFICES ASSUME call'[c].phase \in {"sent", "replied"}, call'[c].req.command = "commit"
                 PROVE  CommitFits(c)'
      BY DEF CommitFits
    <3>1. SendCommit(c)
      BY <1>1, <1>4, <2>2, OwnStep
    <3>2. call'[c] = [phase |-> "sent", req |-> CommitRequest(c), rep |-> NoResponse]
      BY <1>1, <3>1 DEF SendCommit, Send, Shape, TypeOK, NetworkTypeOK
    <3>3. Dirty(c)' = Dirty(c)
      BY <3>1 DEF SendCommit, Dirty, clientVars
    <3>4. CommitRequest(c).gens = [n \in {k.id[2] : k \in Dirty(c)} |-> Draw[c][n]]
      BY DEF CommitRequest, NoRequest
    <3> QED
      BY <3>2, <3>3, <3>4 DEF CommitFits
  <2> QED
    BY <2>1, <2>2
<1>5. ASSUME NEW d \in Client, ServeCall(d)
      PROVE  CommitFits(c)'
  <2>1. CASE d = c
    BY <1>1, <1>5, <2>1, ServeCommitFits
  <2>2. CASE d # c
    <3>1. stable \subseteq stable'
      BY <1>1, <1>5, ServeSteps
    <3>2. call'[c] = call[c]
      <4>1. Outcome(d, call[d].req, TRUE)
        <5>1. call[d].req \in Request /\ RequestFits(call[d].req)
          BY <1>1, <1>5 DEF ServeCall, Shape, TypeOK, NetworkTypeOK, Call, ClientShape, CallFits
        <5> QED
          BY <1>1, <1>5, <5>1, ServeFact DEF ServeCall
      <4> QED
        BY <1>1, <2>2, <4>1 DEF Outcome, Shape, TypeOK, NetworkTypeOK
    <3> QED
      BY <1>2, <1>5, <3>1, <3>2 DEF ServeCall, clientVars
  <2> QED
    BY <2>1, <2>2
<1>6. CASE ServeLate
  <2>1. call' = call
    BY <1>6 DEF ServeLate, Serve, ServeLookup, ServeUnresolved, ServeOpen, ServeOpenFails,
                ServeWrite, ServeRelease, ServeCommitThrows, ServeCommitNotReady, ServeCommit,
                ServeCommitFails, Reply, Throw
  <2> QED
    BY <1>1, <1>2, <1>6, <2>1, ServeSteps DEF ServeLate, clientVars
<1>7. ASSUME NEW d \in Client, Refuse(d) \/ Fault(d)
      PROVE  CommitFits(c)'
  BY <1>1, <1>2, <1>7 DEF Refuse, Fault, LoseRequest, LoseReply, diskVars, clientVars, Shape,
                          TypeOK, NetworkTypeOK, Call
<1>8. CASE Crash
  <2>1. UNCHANGED clientVars /\ (call'[c] = call[c] \/ call'[c].phase = "failed")
    BY <1>1, <1>8 DEF Crash, CrashBetween, CrashInStore, CrashInCommit, Die, Shape, TypeOK,
                      NetworkTypeOK, Call
  <2> QED
    BY <1>1, <1>2, <1>8, <2>1, CrashSteps DEF clientVars
<1>9. CASE Restart
  BY <1>2, <1>9 DEF Restart, diskVars, clientVars
<1> QED
  BY <1>3, <1>4, <1>5, <1>6, <1>7, <1>8, <1>9 DEF Next

LEMMA KeptStep ==
    ASSUME IInv, [Next]_vars
    PROVE  KeptUntilPersisted'
<1> USE DEF IInv, Safe
<1>1. /\ chunks \in [Client -> SUBSET Chunk] /\ drawn \in [Client -> Nat]
      /\ call \in [Client -> Call]
  BY DEF Shape, TypeOK, ClientTypeOK, NetworkTypeOK
<1>2. CASE UNCHANGED <<chunks, stable, drawn>>
  BY <1>2 DEF KeptUntilPersisted, StableIds
<1>3. CASE UNCHANGED <<chunks, drawn>> /\ stable \subseteq stable'
  BY <1>3 DEF KeptUntilPersisted, StableIds, Ids
<1>4. ASSUME NEW c \in Client, NEW o \in Offset, KeepChunk(c, o)
      PROVE  KeptUntilPersisted'
  <2> DEFINE k == NewChunk(c, o)
  <2>1. /\ drawn' = [drawn EXCEPT ![c] = @ + 1]
        /\ chunks' = [chunks EXCEPT ![c] = @ \cup {k}]
        /\ stable' = stable
    BY <1>4 DEF KeepChunk, diskVars
  <2>2. k.id = <<c, drawn[c] + 1>>
    BY DEF NewChunk
  <2> HIDE DEF k
  <2> SUFFICES ASSUME NEW d \in Client, NEW n \in 1 .. drawn'[d]
               PROVE  <<d, n>> \in Ids(chunks'[d]) \cup StableIds'
    BY DEF KeptUntilPersisted
  <2>3. CASE n \in 1 .. drawn[d]
    <3>1. <<d, n>> \in Ids(chunks[d]) \cup StableIds
      BY <2>3 DEF KeptUntilPersisted
    <3>2. chunks[d] \subseteq chunks'[d]
      BY <1>1, <2>1
    <3> QED
      BY <2>1, <3>1, <3>2 DEF Ids, StableIds
  <2>4. CASE n \notin 1 .. drawn[d]
    <3>1. d = c /\ n = drawn[c] + 1
      BY <1>1, <2>1, <2>4
    <3>2. k \in chunks'[c]
      BY <1>1, <2>1
    <3> QED
      BY <2>2, <3>1, <3>2 DEF Ids
  <2> QED
    BY <2>3, <2>4
<1>5. ASSUME NEW c \in Client, Committed(c)
      PROVE  KeptUntilPersisted'
  <2>1. /\ call[c].phase = "replied" /\ call[c].req.command = "commit"
        /\ call[c].rep.success = 0
        /\ chunks' = [chunks EXCEPT ![c] = @ \ Dirty(c)]
        /\ UNCHANGED <<stable, drawn>>
    BY <1>5 DEF Committed, Answered, diskVars
  <2>2. \A k \in Dirty(c) : <<c, k.id[2]>> \in StableIds
    BY <2>1 DEF CommitFits
  <2>3. \A k \in Dirty(c) : k.id = <<c, k.id[2]>>
    BY <1>1, GenOfType DEF Dirty, Shape, ClientShape
  <2> SUFFICES ASSUME NEW d \in Client, NEW n \in 1 .. drawn[d]
               PROVE  <<d, n>> \in Ids(chunks'[d]) \cup StableIds
    BY <2>1 DEF KeptUntilPersisted, StableIds
  <2>4. <<d, n>> \in Ids(chunks[d]) \cup StableIds
    BY DEF KeptUntilPersisted
  <2>5. CASE d # c
    BY <1>1, <2>1, <2>4, <2>5
  <2>6. CASE d = c
    <3>1. chunks'[c] = chunks[c] \ Dirty(c)
      BY <1>1, <2>1
    <3> QED
      BY <2>2, <2>3, <2>4, <2>6, <3>1 DEF Ids
  <2> QED
    BY <2>5, <2>6
<1>6. StepKind
  BY NextStepKind
<1> QED
  BY <1>2, <1>3, <1>4, <1>5, <1>6 DEF StepKind

LEMMA IInvInit == Init => IInv
<1> SUFFICES ASSUME Init PROVE IInv
  OBVIOUS
<1>1. KeptUntilPersisted
  BY DEF Init, KeptUntilPersisted
<1>2. \A c \in Client : CommitFits(c)
  BY DEF Init, CommitFits, NoCall
<1> QED
  BY <1>1, <1>2, ShapeInit DEF IInv, Safe

LEMMA IInvStep ==
    ASSUME DrawsDistinct
    PROVE  IInv /\ [Next]_vars => IInv'
<1> SUFFICES ASSUME IInv, [Next]_vars PROVE IInv'
  OBVIOUS
<1>1. Shape'
  BY ShapeStep DEF IInv
<1>2. KeptUntilPersisted'
  BY KeptStep
<1>3. \A c \in Client : CommitFits(c)'
  BY CommitFitsStep
<1> QED
  BY <1>1, <1>2, <1>3 DEF IInv, Safe

LEMMA IInvInvariant ==
    ASSUME DrawsDistinct
    PROVE  Spec => []IInv
BY IInvInit, IInvStep, PTL DEF Spec

\* If no two writes draw the same gen, a copy is only dropped when its write is
\* on the disk: for every number of clients, and through any losses, late
\* executions, failed pwrites and crashes of the server.
THEOREM CopiesKept ==
    ASSUME DrawsDistinct
    PROVE  Spec => []KeptUntilPersisted
<1>1. IInv => KeptUntilPersisted
  BY DEF IInv, Safe
<1> QED
  BY <1>1, IInvInvariant, PTL

-----------------------------------------------------------------------------
(* The refinement of WriteBack.                                             *)

LEMMA HeldFact ==
    \A w : w \in Held <=> \E c \in Client : \E k \in chunks[c] : w = k.id
BY DEF Held, Ids

LEMMA StableFact ==
    \A w : w \in StableIds <=> \E s \in stable : w = s.id
BY DEF StableIds, Ids

\* A client never issues the same write twice.
LEMMA KeepIsIssue ==
    ASSUME Shape, NEW c \in Client, NEW o \in Offset, KeepChunk(c, o)
    PROVE  \E w \in WriteId : w \notin Held \cup StableIds /\ Held' = Held \cup {w}
                               /\ StableIds' = StableIds
<1> DEFINE k == NewChunk(c, o)
           w == <<c, drawn[c] + 1>>
<1>1. /\ chunks \in [Client -> SUBSET Chunk] /\ drawn[c] \in Nat /\ stable \subseteq Stable
  BY DEF Shape, TypeOK, ClientTypeOK, DiskTypeOK
<1>2. w \in WriteId
  <2>1. drawn[c] < Len(Draw[c])
    BY DEF Shape, ClientShape, OpFits, KeepChunk, At
  <2> QED
    BY <1>1, <2>1, DrawType, WriteIdFact
<1>3. w \notin Held
  <2> SUFFICES ASSUME NEW d \in Client, NEW m \in chunks[d], w = m.id PROVE FALSE
    BY HeldFact
  <2>1. m.id[1] = d /\ m.id[2] <= drawn[d]
    BY DEF Shape, ClientShape
  <2> QED
    BY <1>1, <2>1
<1>4. w \notin StableIds
  <2> SUFFICES ASSUME NEW s \in stable, w = s.id PROVE FALSE
    BY StableFact
  <2>1. s.id[2] <= drawn[s.id[1]]
    BY DEF Shape, StableShape
  <2> QED
    BY <1>1, <2>1
<1>5. chunks' = [chunks EXCEPT ![c] = @ \cup {k}] /\ k.id = w /\ stable' = stable
  BY DEF KeepChunk, NewChunk, diskVars
<1> HIDE DEF k, w
<1>6. Held' = Held \cup {w}
  <2>1. \A d \in Client : \A m : m \in chunks'[d] <=> m \in chunks[d] \/ (d = c /\ m = k)
    BY <1>1, <1>5
  <2>2. \A v : v \in Held' <=> \E d \in Client : \E m \in chunks'[d] : v = m.id
    BY DEF Held, Ids
  <2> QED
    BY <1>5, <2>1, <2>2, HeldFact
<1> QED
  BY <1>2, <1>3, <1>4, <1>5, <1>6 DEF StableIds

\* The acknowledgement of a commit only drops copies of what is on the disk.
LEMMA CommittedIsDrop ==
    ASSUME Shape, NEW c \in Client, CommitFits(c), Committed(c)
    PROVE  Held' \subseteq Held /\ Held \ Held' \subseteq StableIds /\ StableIds' = StableIds
<1>1. chunks \in [Client -> SUBSET Chunk]
  BY DEF Shape, TypeOK, ClientTypeOK
<1>2. /\ call[c].phase = "replied" /\ call[c].req.command = "commit"
      /\ call[c].rep.success = 0
      /\ chunks' = [chunks EXCEPT ![c] = @ \ Dirty(c)]
      /\ stable' = stable
  BY DEF Committed, Answered, diskVars
<1>3. \A k \in Dirty(c) : k.id \in StableIds
  <2>1. \A k \in Dirty(c) : <<c, k.id[2]>> \in StableIds
    BY <1>2 DEF CommitFits
  <2>2. \A k \in Dirty(c) : k.id = <<c, k.id[2]>>
    BY <1>1, GenOfType DEF Dirty, Shape, ClientShape
  <2> QED
    BY <2>1, <2>2
<1>4. \A d \in Client : chunks'[d] = IF d = c THEN chunks[c] \ Dirty(c) ELSE chunks[d]
  BY <1>1, <1>2
<1>5. \A v : v \in Held' <=> \E d \in Client : \E m \in chunks'[d] : v = m.id
  BY DEF Held, Ids
<1> QED
  BY <1>2, <1>3, <1>4, <1>5, HeldFact DEF StableIds

\* The server only persists what some client still has a copy of.
LEMMA StableIsHeld ==
    ASSUME Shape, Shape', KeptUntilPersisted, UNCHANGED <<chunks, drawn>>
    PROVE  StableIds' \subseteq StableIds \cup Held
<1> SUFFICES ASSUME NEW s \in stable' PROVE s.id \in StableIds \cup Held
  BY DEF StableIds, Ids
<1>1. s.id \in WriteId /\ s.id[2] <= drawn[s.id[1]]
  BY DEF Shape, StableShape, TypeOK, DiskTypeOK, Stable
<1>2. PICK c \in Client : \E n \in 1 .. Len(Draw[c]) : s.id = <<c, n>>
  BY <1>1, WriteIdFact
<1> PICK n \in 1 .. Len(Draw[c]) : s.id = <<c, n>>
  BY <1>2
<1>3. n \in 1 .. drawn[c]
  BY <1>1 DEF Shape, TypeOK, ClientTypeOK
<1> QED
  BY <1>3 DEF KeptUntilPersisted, Held

LEMMA WBInit == Init => WB!Init
<1> SUFFICES ASSUME Init PROVE Held = {} /\ StableIds = {}
  BY DEF WB!Init
<1> QED
  BY HeldFact, StableFact DEF Init

LEMMA WBStep == IInv /\ IInv' /\ [Next]_vars => [WB!Next]_WB!vars
<1> SUFFICES ASSUME IInv, IInv', [Next]_vars PROVE [WB!Next]_WB!vars
  OBVIOUS
<1>1. Shape /\ Shape' /\ KeptUntilPersisted /\ \A c \in Client : CommitFits(c)
  BY DEF IInv, Safe
<1>2. CASE UNCHANGED <<chunks, stable, drawn>>
  BY <1>2 DEF WB!vars, Held, StableIds
<1>3. ASSUME NEW c \in Client, NEW o \in Offset, KeepChunk(c, o)
      PROVE  WB!Next
  BY <1>1, <1>3, KeepIsIssue DEF WB!Next, WB!Issue
<1>4. ASSUME NEW c \in Client, Committed(c)
      PROVE  WB!Next
  BY <1>1, <1>4, CommittedIsDrop DEF WB!Next, WB!Drop
<1>5. CASE UNCHANGED <<chunks, drawn>> /\ stable \subseteq stable'
  <2>1. StableIds' \subseteq StableIds \cup Held
    BY <1>1, <1>5, StableIsHeld
  <2>2. StableIds \subseteq StableIds' /\ Held' = Held
    BY <1>5 DEF StableIds, Ids, Held
  <2> QED
    BY <2>1, <2>2 DEF WB!Next, WB!Persist
<1> QED
  BY <1>1, <1>2, <1>3, <1>4, <1>5, NextStepKind DEF StepKind

\* If no two writes draw the same gen, the write path implements WriteBack: a
\* copy is dropped only when the write is on the disk, nothing reaches the disk
\* but what a client issued and still keeps, and no write is issued twice.
THEOREM CopiesRefine ==
    ASSUME DrawsDistinct
    PROVE  Spec => WriteBackSpec
<1>1. Spec => []IInv
  BY IInvInvariant
<1> QED
  BY <1>1, WBInit, WBStep, PTL DEF Spec, WriteBackSpec, WB!Spec
=============================================================================
