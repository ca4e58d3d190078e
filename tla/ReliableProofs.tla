---------------------------- MODULE ReliableProofs ----------------------------
(***************************************************************************)
(* What TLAPS proves of WriteCommit for a server that does not crash.      *)
(* Whatever the network loses, delays and repeats and whatever pwrite      *)
(* refuses, the server's numbering and what the clients remember of it     *)
(* never drift apart, and a file is closed only after it is committed.     *)
(* When no call is lost, or when there is one client, which may lose any   *)
(* number, the descriptors that the clients remember are theirs alone;     *)
(* data goes to the file it was written to, and never over newer data.     *)
(* If nothing at all fails, nothing is left over.                          *)
(***************************************************************************)
EXTENDS WriteCommitProofs

-----------------------------------------------------------------------------
(* Handles.                                                                 *)

\* Path p and handle h belong together in both maps of the server.
Keeps(p, h) ==
    p \in Path /\ h \in Fh /\ table.pathToFh[p] = h /\ table.fhToPath[h] = p

\* The maps are inverse to each other, the root is in them, and the next number is
\* not in use.
TableFits ==
    /\ Keeps(Root, 0)
    /\ \A p \in Path, h \in Fh : table.pathToFh[p] = h => Keeps(p, h)
    /\ \A h \in Fh : Known(table, h) => h < table.fhcount

\* findLookup finds the handles of a request and of a cached Write.
RequestKnown(r) ==
    /\ r.command \in {"open", "write", "release"} => Known(table, r.fh)
    /\ r.command = "write" => Known(table, r.chunk.fh)

CacheKnown == \A g \in Gen : \A i \in 1 .. Len(cache[g]) : Known(table, cache[g][i].fh)

\* So do the handles a client remembers, put in its chunks and commits with; and once
\* it has committed a file, it has no chunk of it left.
HandlesFit(c) ==
    /\ \A p \in Path : pathtofh[c][p] # NoFh => Keeps(p, pathtofh[c][p])
    /\ \A k \in chunks[c] : Keeps(k.file, k.fh)
    /\ op[c].pc \in {"commit", "resend", "again"} => Keeps(op[c].file, op[c].fh)
    /\ op[c].pc = "close" => \A k \in chunks[c] : k.file # op[c].file

\* And those of a call that has not failed.
CallKnown(c) ==
    call[c].phase \in {"sent", "replied"} =>
        /\ RequestKnown(call[c].req)
        /\ call[c].req.command = "open" => Keeps(op[c].file, call[c].req.fh)
        /\ (call[c].phase = "replied" /\ call[c].req.command = "lookup") =>
             Keeps(call[c].req.name, call[c].rep.fh)

Numbered ==
    /\ up
    /\ TableFits
    /\ CacheKnown
    /\ \A l \in late : RequestKnown(l[2])
    /\ \A c \in Client : HandlesFit(c) /\ CallKnown(c)

\* What no step takes back.
Grows ==
    /\ \A p, h : Keeps(p, h) => Keeps(p, h)'
    /\ \A h \in Fh : Known(table, h) => Known(table', h)

-----------------------------------------------------------------------------
(* The table.                                                               *)

LEMMA SameGrows ==
    ASSUME table' = table
    PROVE  Grows /\ (TableFits => TableFits')
BY DEF Grows, Keeps, TableFits

\* addLookup numbers a new path with a number that is free.
LEMMA AddGrows ==
    ASSUME table \in Table, TableFits, NEW p \in Path,
           Mapped(table, p) \/ table.fhcount \in Fh,
           table' = AddLookup(table, p),
           NEW h, h = AddLookup(table, p).pathToFh[p]
    PROVE  TableFits' /\ Grows /\ Keeps(p, h)'
<1>1. CASE Mapped(table, p)
  <2>1. table' = table /\ h = table.pathToFh[p] /\ h \in Fh
    BY <1>1 DEF AddLookup, Mapped, Table, PathMap
  <2> QED
    BY <2>1, SameGrows DEF TableFits, Keeps
<1>2. CASE ~Mapped(table, p)
  <2> DEFINE n == table.fhcount
  <2>1. n \in Fh /\ n \in Nat /\ Fh \subseteq Nat
    BY <1>2, MaxFhAssumption DEF Table, Fh
  <2>2. /\ table.pathToFh \in [Path -> Fh \cup {NoFh}]
        /\ table.fhToPath \in [Fh -> Path \cup {NoPath}]
    BY DEF Table, PathMap, FhMap
  <2>3. /\ table'.pathToFh = [table.pathToFh EXCEPT ![p] = n]
        /\ table'.fhToPath = [table.fhToPath EXCEPT ![n] = p]
        /\ table'.fhcount = n + 1
        /\ h = n
    BY <1>2, <2>2 DEF AddLookup
  <2>4. ~Known(table, n)
    BY <2>1 DEF TableFits
  <2>5. ASSUME NEW q, NEW i, Keeps(q, i)
        PROVE  Keeps(q, i)'
    <3>1. Known(table, i) /\ i \in Fh /\ q \in Path
      BY <2>5, PathAssumption DEF Keeps, Known
    <3>2. i # n
      BY <2>4, <3>1
    <3>3. q # p
      BY <1>2, <2>5, <2>1 DEF Keeps, Mapped, NoFh
    <3> QED
      BY <2>1, <2>2, <2>3, <2>5, <3>1, <3>2, <3>3 DEF Keeps
  <2>6. ASSUME NEW i \in Fh, Known(table, i)
        PROVE  Known(table', i)
    BY <2>1, <2>2, <2>3, <2>4, <2>6 DEF Known
  <2>7. Keeps(p, h)'
    BY <2>1, <2>2, <2>3 DEF Keeps
  <2>8. ASSUME NEW q \in Path, NEW i \in Fh, table'.pathToFh[q] = i
        PROVE  Keeps(q, i)'
    <3>1. CASE q = p
      BY <2>2, <2>3, <2>7, <2>8, <3>1
    <3>2. CASE q # p
      <4>1. table.pathToFh[q] = i
        BY <2>2, <2>3, <2>8, <3>2
      <4> QED
        BY <2>5, <4>1 DEF TableFits
    <3> QED
      BY <3>1, <3>2
  <2>9. ASSUME NEW i \in Fh, Known(table', i)
        PROVE  i < table'.fhcount
    <3>1. CASE i = n
      BY <2>1, <2>3, <3>1
    <3>2. CASE i # n
      <4>1. Known(table, i)
        BY <2>1, <2>2, <2>3, <2>9, <3>2 DEF Known
      <4>2. i < n /\ i \in Nat
        BY <2>1, <4>1 DEF TableFits
      <4> QED
        BY <2>1, <2>3, <4>2
    <3> QED
      BY <3>1, <3>2
  <2> QED
    <3>1. Keeps(Root, 0)'
      BY <2>5 DEF TableFits
    <3> QED
      BY <2>5, <2>6, <2>7, <2>8, <2>9, <3>1 DEF TableFits, Grows
<1> QED
  BY <1>1, <1>2

\* A handle that is known is found without the files.
LEMMA FoundKnown ==
    ASSUME NEW h, Known(table, h)
    PROVE  Found(table, log, h) = table /\ Resolves(table, log, h)
           /\ PathOf(table, log, h) = table.fhToPath[h]
BY DEF Found, Resolves, PathOf

LEMMA CachedKnown ==
    ASSUME ServerTypeOK, CacheKnown
    PROVE  LogSaved = table /\ ~LogSaveThrows
<1>1. \A h \in CachedFhs : Known(table, h)
  <2> SUFFICES ASSUME NEW g \in Gen, NEW k \in Range(cache[g]) PROVE Known(table, k.fh)
    BY DEF CachedFhs
  <2>1. cache[g] \in Seq(Chunk)
    BY DEF ServerTypeOK
  <2>2. PICK i \in 1 .. Len(cache[g]) : k = cache[g][i]
    BY <2>1 DEF Range
  <2> QED
    BY <2>2 DEF CacheKnown
<1>2. LogSaved = table
  BY <1>1 DEF LogSaved
<1> QED
  BY <1>1, <1>2 DEF LogSaveThrows

LEMMA KnownGrows ==
    ASSUME Grows, NEW r \in Request, RequestFits(r), RequestKnown(r)
    PROVE  RequestKnown(r)'
<1>1. r.fh \in Fh /\ (r.command = "write" => r.chunk.fh \in Fh)
  BY DEF Request, RequestFits, Issued, Chunk
<1> QED
  BY <1>1 DEF Grows, RequestKnown

-----------------------------------------------------------------------------
(* The handlers.                                                            *)

\* A write adds a Write that is known; nothing else enters the vector.
LEMMA CacheKnownStays ==
    ASSUME ServerTypeOK, CacheKnown, Grows,
           \A g \in Gen : \A i \in 1 .. Len(cache'[g]) :
               \/ \E j \in 1 .. Len(cache[g]) : cache'[g][i] = cache[g][j]
               \/ cache'[g][i].fh \in Fh /\ Known(table, cache'[g][i].fh)
    PROVE  CacheKnown'
<1> SUFFICES ASSUME NEW g \in Gen, NEW i \in 1 .. Len(cache'[g])
             PROVE  Known(table', cache'[g][i].fh)
  BY DEF CacheKnown
<1>1. cache[g] \in Seq(Chunk)
  BY DEF ServerTypeOK
<1>2. ASSUME NEW j \in 1 .. Len(cache[g])
      PROVE  Known(table, cache[g][j].fh) /\ cache[g][j].fh \in Fh
  <2>1. cache[g][j] \in Chunk
    BY <1>1
  <2> QED
    BY <2>1 DEF CacheKnown, Chunk
<1> QED
  BY <1>2 DEF Grows

\* What a handler for request r of client c makes of the call of client d.
Told(c, r, d) ==
    \/ call'[d] = call[d]
    \/ call'[d].phase = "failed"
    \/ /\ d = c
       /\ \E rep : /\ call'[d] = [phase |-> "replied", req |-> call[d].req, rep |-> rep]
                   /\ r.command = "lookup" => Keeps(r.name, rep.fh)'

LEMMA ReplyTold ==
    ASSUME call \in [Client -> Call], NEW c \in Client, NEW r, NEW live \in BOOLEAN, NEW rep,
           Reply(c, live, rep), r.command = "lookup" => Keeps(r.name, rep.fh)'
    PROVE  \A d \in Client : Told(c, r, d)
BY DEF Reply, Told

LEMMA ThrowTold ==
    ASSUME call \in [Client -> Call], NEW c \in Client, NEW r, NEW live \in BOOLEAN,
           Throw(c, live)
    PROVE  \A d \in Client : Told(c, r, d)
BY DEF Throw, Told, Call

\* Every handler keeps the numbering, and only tells handles that are in it.
LEMMA ServeNumbered ==
    ASSUME Shape, TableFits, CacheKnown, NEW c \in Client, NEW r \in Request,
           RequestFits(r), RequestKnown(r), NEW live \in BOOLEAN, Serve(c, r, live)
    PROVE  /\ TableFits' /\ Grows /\ CacheKnown' /\ up' = up
           /\ \A d \in Client : Told(c, r, d)
<1>1. /\ table \in Table /\ ServerTypeOK /\ call \in [Client -> Call]
      /\ cache \in [Gen -> Seq(Chunk)]
      /\ r.name \in Path
  BY DEF Shape, TypeOK, ServerTypeOK, NetworkTypeOK, Request
<1>2. LogSaved = table /\ ~LogSaveThrows
  BY <1>1, CachedKnown
<1>3. r.command \in {"open", "write", "release"} =>
        Found(table, log, r.fh) = table /\ Resolves(table, log, r.fh)
  BY FoundKnown DEF RequestKnown
<1>4. ASSUME Grows, UNCHANGED cache
      PROVE  CacheKnown'
  BY <1>1, <1>4, CacheKnownStays
<1>5. ASSUME table' = table, UNCHANGED <<up, cache>>, \A d \in Client : Told(c, r, d)
      PROVE  /\ TableFits' /\ Grows /\ CacheKnown' /\ up' = up
             /\ \A d \in Client : Told(c, r, d)
  BY <1>4, <1>5, SameGrows
<1>6. CASE ServeLookup(c, r, live)
  <2> DEFINE h == AddLookup(table, r.name).pathToFh[r.name]
             rep == [NoResponse EXCEPT !.fh = h]
  <2>1. /\ Mapped(table, r.name) \/ table.fhcount \in Fh
        /\ table' = AddLookup(table, r.name)
        /\ Reply(c, live, rep)
        /\ UNCHANGED <<up, cache>>
    BY <1>6 DEF ServeLookup
  <2>2. rep.fh = h
    BY DEF NoResponse
  <2>3. ASSUME NEW i, i = h
        PROVE  TableFits' /\ Grows /\ Keeps(r.name, i)'
    BY <1>1, <2>1, <2>3, AddGrows
  <2>4. ASSUME NEW u, u = rep
        PROVE  Keeps(r.name, u.fh)'
    <3>1. u.fh = h
      BY <2>2, <2>4
    <3> HIDE DEF h, rep
    <3> QED
      BY <2>3, <3>1
  <2>5. TableFits' /\ Grows
    <3> HIDE DEF h
    <3> QED
      BY <2>3
  <2>6. \A d \in Client : Told(c, r, d)
    <3> HIDE DEF rep
    <3> QED
      BY <1>1, <2>1, <2>4, ReplyTold
  <2> QED
    BY <1>4, <2>1, <2>5, <2>6
<1>7. CASE ServeOpen(c, r, live)
  <2>1. r.command # "lookup" /\ table' = table /\ UNCHANGED <<up, cache>>
    BY <1>3, <1>7 DEF ServeOpen
  <2>2. \A d \in Client : Told(c, r, d)
    BY <1>1, <1>7, <2>1, ReplyTold DEF ServeOpen
  <2> QED
    BY <1>5, <2>1, <2>2
<1>8. CASE ServeOpenFails(c, r, live)
  <2>1. r.command # "lookup" /\ table' = table /\ UNCHANGED <<up, cache>>
    BY <1>3, <1>8 DEF ServeOpenFails
  <2>2. \A d \in Client : Told(c, r, d)
    BY <1>1, <1>8, <2>1, ReplyTold DEF ServeOpenFails
  <2> QED
    BY <1>5, <2>1, <2>2
<1>9. CASE ServeRelease(c, r, live)
  <2>1. r.command # "lookup" /\ table' = table /\ UNCHANGED <<up, cache>>
    BY <1>3, <1>9 DEF ServeRelease
  <2>2. \A d \in Client : Told(c, r, d)
    BY <1>1, <1>9, <2>1, ReplyTold DEF ServeRelease
  <2> QED
    BY <1>5, <2>1, <2>2
<1>10. CASE ServeWrite(c, r, live)
  <2> DEFINE k == r.chunk
  <2>1. /\ r.command = "write" /\ table' = table /\ up' = up
        /\ cache' = [cache EXCEPT ![GenOf(k)] = Append(@, k)]
        /\ Reply(c, live, NoResponse)
    BY <1>3, <1>10 DEF ServeWrite
  <2>2. \A d \in Client : Told(c, r, d)
    BY <1>1, <2>1, ReplyTold
  <2>3. k \in Chunk /\ Known(table, k.fh) /\ k.fh \in Fh /\ GenOf(k) \in Gen
    BY <2>1, GenOfType DEF RequestFits, RequestKnown, Issued, Chunk
  <2>4. ASSUME NEW g \in Gen, NEW i \in 1 .. Len(cache'[g])
        PROVE  \/ \E j \in 1 .. Len(cache[g]) : cache'[g][i] = cache[g][j]
               \/ cache'[g][i].fh \in Fh /\ Known(table, cache'[g][i].fh)
    <3> HIDE DEF k
    <3>1. CASE g # GenOf(k)
      BY <1>1, <2>1, <3>1
    <3>2. CASE g = GenOf(k)
      <4>1. cache'[g] = Append(cache[g], k) /\ cache[g] \in Seq(Chunk)
        BY <1>1, <2>1, <3>2
      <4> QED
        BY <2>3, <4>1
    <3> QED
      BY <3>1, <3>2
  <2>5. Grows /\ TableFits'
    BY <2>1, SameGrows
  <2> QED
    BY <1>1, <2>1, <2>2, <2>4, <2>5, CacheKnownStays
<1>11. CASE ServeCommitNotReady(c, r, live)
  <2>1. r.command # "lookup" /\ table' = table /\ UNCHANGED <<up, cache>>
    BY <1>2, <1>11 DEF ServeCommitNotReady
  <2>2. \A d \in Client : Told(c, r, d)
    BY <1>1, <1>11, <2>1, ReplyTold DEF ServeCommitNotReady
  <2> QED
    BY <1>5, <2>1, <2>2
<1>12. CASE ServeCommit(c, r, live) \/ ServeCommitFails(c, r, live)
  <2>1. /\ r.command # "lookup" /\ table' = table /\ up' = up
        /\ \E done \in SUBSET Hits(r) : cache' = Erased(r, done)
        /\ \E rep : Reply(c, live, rep)
    BY <1>2, <1>12 DEF ServeCommit, ServeCommitFails, Before
  <2>2. \A d \in Client : Told(c, r, d)
    BY <1>1, <2>1, ReplyTold
  <2>3. Grows /\ TableFits'
    BY <2>1, SameGrows
  <2>4. CacheKnown'
    <3>1. PICK done \in SUBSET Hits(r) : cache' = Erased(r, done)
      BY <2>1
    <3>2. \A g \in Gen : \A i \in 1 .. Len(Erased(r, done)[g]) :
             \E j \in 1 .. Len(cache[g]) : Erased(r, done)[g][i] = cache[g][j]
      BY <1>1, ErasedFact
    <3> QED
      BY <1>1, <2>3, <3>1, <3>2, CacheKnownStays
  <2> QED
    BY <2>1, <2>2, <2>3, <2>4
<1>13. ~ServeUnresolved(c, r, live) /\ ~ServeCommitThrows(c, r, live)
  BY <1>2, <1>3 DEF ServeUnresolved, ServeCommitThrows
<1> QED
  BY <1>6, <1>7, <1>8, <1>9, <1>10, <1>11, <1>12, <1>13 DEF Serve

-----------------------------------------------------------------------------
(* The numbering is an invariant.                                           *)

\* What a client remembers stays right while it does nothing itself.
LEMMA HandlesStay ==
    ASSUME Grows, NEW c \in Client, HandlesFit(c), pathtofh'[c] = pathtofh[c],
           op'[c] = op[c], chunks'[c] \subseteq chunks[c]
    PROVE  HandlesFit(c)'
BY DEF Grows, HandlesFit

LEMMA CallStays ==
    ASSUME Shape, Grows, NEW c \in Client, CallKnown(c), op'[c] = op[c],
           call'[c] = call[c] \/ call'[c].phase = "failed"
    PROVE  CallKnown(c)'
<1>1. call[c].req \in Request /\ (call[c].phase # "none" => RequestFits(call[c].req))
  BY DEF Shape, TypeOK, NetworkTypeOK, Call, ClientShape, CallFits
<1>2. ASSUME call'[c] = call[c], call[c].phase \in {"sent", "replied"}
      PROVE  /\ RequestKnown(call[c].req)'
             /\ call[c].req.command = "open" => Keeps(op[c].file, call[c].req.fh)'
             /\ (call[c].phase = "replied" /\ call[c].req.command = "lookup") =>
                  Keeps(call[c].req.name, call[c].rep.fh)'
  <2>1. ASSUME NEW r \in Request, r = call[c].req PROVE RequestKnown(r)'
    BY <1>1, <1>2, <2>1, KnownGrows DEF CallKnown
  <2>2. RequestKnown(call[c].req)'
    BY <1>1, <1>2, <2>1
  <2>3. ASSUME NEW p, NEW h, Keeps(p, h) PROVE Keeps(p, h)'
    BY <2>3 DEF Grows
  <2>4. call[c].req.command = "open" => Keeps(op[c].file, call[c].req.fh)'
    BY <1>2, <2>3 DEF CallKnown
  <2> QED
    BY <1>2, <2>2, <2>3, <2>4 DEF CallKnown
<1> QED
  BY <1>2 DEF CallKnown

LEMMA LateStays ==
    ASSUME Shape, Grows, \A l \in late : RequestKnown(l[2]), late' \subseteq late
    PROVE  \A l \in late' : RequestKnown(l[2])'
<1> SUFFICES ASSUME NEW l \in late PROVE RequestKnown(l[2])'
  OBVIOUS
<1>1. l[2] \in Request /\ RequestFits(l[2]) /\ RequestKnown(l[2])
  BY DEF Shape, LateShape, TypeOK, NetworkTypeOK
<1>2. ASSUME NEW r, r = l[2] PROVE RequestKnown(r)'
  BY <1>1, <1>2, KnownGrows
<1> QED
  BY <1>2

LEMMA NumberedInit == Init => Numbered
<1> SUFFICES ASSUME Init PROVE Numbered
  OBVIOUS
<1>1. TableFits
  BY PathAssumption, MaxFhAssumption DEF Init, NewTable, TableFits, Keeps, Known, Fh, NoFh
<1>2. CacheKnown
  BY DEF Init, CacheKnown
<1>3. ASSUME NEW c \in Client PROVE HandlesFit(c) /\ CallKnown(c)
  <2>1. \A p \in Path : pathtofh[c][p] # NoFh => Keeps(p, pathtofh[c][p])
    BY PathAssumption, MaxFhAssumption DEF Init, NoHandles, NewTable, Keeps, Fh, NoFh
  <2> QED
    BY <2>1 DEF Init, HandlesFit, CallKnown, IdleOp, NoCall
<1> QED
  BY <1>1, <1>2, <1>3 DEF Init, Numbered

\* A step of the server.
LEMMA ServeKeeps ==
    ASSUME Shape, Numbered, ServeLate \/ \E c \in Client : ServeCall(c)
    PROVE  Numbered'
<1> USE DEF Numbered
<1>1. call \in [Client -> Call] /\ late \subseteq (Client \X Request)
  BY DEF Shape, TypeOK, NetworkTypeOK
<1>2. ASSUME NEW c \in Client, NEW r \in Request, NEW live \in BOOLEAN, RequestFits(r),
             RequestKnown(r), Serve(c, r, live), UNCHANGED clientVars, late' \subseteq late,
             live => r = call[c].req /\ call[c].phase = "sent",
             ~live => call' = call
      PROVE  Numbered'
  <2>1. /\ TableFits' /\ Grows /\ CacheKnown' /\ up' = up
        /\ \A d \in Client : Told(c, r, d)
    BY <1>2, ServeNumbered
  <2>2. \A l \in late' : RequestKnown(l[2])'
    BY <1>2, <2>1, LateStays
  <2>3. ASSUME NEW d \in Client PROVE HandlesFit(d)'
    BY <1>2, <2>1, HandlesStay DEF clientVars
  <2>4. ASSUME NEW d \in Client PROVE CallKnown(d)'
    <3>1. CASE call'[d] = call[d] \/ call'[d].phase = "failed"
      BY <1>2, <2>1, <3>1, CallStays DEF clientVars
    <3>2. CASE /\ d = c /\ live
               /\ \E rep : /\ call'[d] = [phase |-> "replied", req |-> call[d].req, rep |-> rep]
                           /\ r.command = "lookup" => Keeps(r.name, rep.fh)'
      <4>1. PICK rep : /\ call'[d] = [phase |-> "replied", req |-> call[d].req, rep |-> rep]
                       /\ r.command = "lookup" => Keeps(r.name, rep.fh)'
        BY <3>2
      <4>2. call'[d].phase = "replied" /\ call'[d].req = r /\ call'[d].rep = rep
        BY <1>2, <3>2, <4>1
      <4>3. RequestKnown(r)'
        BY <1>2, <2>1, KnownGrows
      <4>4. r.command = "open" => Keeps(op[d].file, r.fh)
        BY <1>2, <3>2 DEF CallKnown
      <4>5. ASSUME NEW p, NEW h, Keeps(p, h) PROVE Keeps(p, h)'
        BY <2>1, <4>5 DEF Grows
      <4>6. r.command = "open" => Keeps(op[d].file, r.fh)'
        BY <1>2, <4>4, <4>5 DEF clientVars
      <4> QED
        BY <1>2, <4>1, <4>2, <4>3, <4>6 DEF CallKnown, clientVars
    <3> QED
      BY <1>2, <2>1, <3>1, <3>2 DEF Told
  <2> QED
    BY <2>1, <2>2, <2>3, <2>4
<1>3. ASSUME NEW c \in Client, ServeCall(c)
      PROVE  Numbered'
  <2> DEFINE r == call[c].req
  <2>1. /\ r \in Request /\ RequestFits(r) /\ call[c].phase = "sent" /\ RequestKnown(r)
        /\ Serve(c, r, TRUE) /\ UNCHANGED clientVars /\ late' = late
    BY <1>1, <1>3 DEF ServeCall, Shape, ClientShape, CallFits, Call, CallKnown
  <2> HIDE DEF r
  <2>2. r = call[c].req
    BY DEF r
  <2> QED
    BY <1>2, <2>1, <2>2
<1>4. CASE ServeLate
  <2>1. PICK l \in late : Serve(l[1], l[2], FALSE) /\ late' = late \ {l}
    BY <1>4 DEF ServeLate
  <2>2. l[1] \in Client /\ l[2] \in Request /\ RequestFits(l[2]) /\ RequestKnown(l[2])
    BY <1>1 DEF Shape, LateShape
  <2>3. UNCHANGED clientVars
    BY <1>4 DEF ServeLate
  <2>4. Outcome(l[1], l[2], FALSE)
    BY <2>1, <2>2, <2>3, ServeFact
  <2>5. call' = call
    BY <2>4 DEF Outcome
  <2> QED
    BY <1>2, <2>1, <2>2, <2>3, <2>5
<1> QED
  BY <1>3, <1>4

\* A step of client c that leaves the others and the server alone.
LEMMA OwnKeeps ==
    ASSUME Shape, Numbered, NEW c \in Client, UNCHANGED <<serverVars, late>>,
           \A d \in Client \ {c} :
               /\ pathtofh'[d] = pathtofh[d] /\ op'[d] = op[d]
               /\ chunks'[d] = chunks[d] /\ call'[d] = call[d],
           HandlesFit(c)', CallKnown(c)'
    PROVE  Numbered'
<1>1. Grows /\ TableFits' /\ CacheKnown'
  BY SameGrows DEF Numbered, serverVars, CacheKnown
<1>2. \A l \in late' : RequestKnown(l[2])'
  BY <1>1, LateStays DEF Numbered
<1>3. ASSUME NEW d \in Client, d # c PROVE HandlesFit(d)' /\ CallKnown(d)'
  BY <1>1, <1>3, HandlesStay, CallStays DEF Numbered
<1> QED
  BY <1>1, <1>2, <1>3 DEF Numbered, serverVars

\* A step of c between two calls, or one that takes the outcome of a call.
LEMMA QuietKeeps ==
    ASSUME Shape, Numbered, NEW c \in Client, UNCHANGED <<serverVars, late>>,
           (call' = call /\ call[c].phase = "none") \/ call' = [call EXCEPT ![c] = NoCall],
           NEW h, NEW o, NEW K,
           pathtofh' = [pathtofh EXCEPT ![c] = h], op' = [op EXCEPT ![c] = o],
           chunks' = [chunks EXCEPT ![c] = K],
           \A p \in Path : h[p] # NoFh => Keeps(p, h[p]),
           \A k \in K : Keeps(k.file, k.fh),
           o.pc \in {"commit", "resend", "again"} => Keeps(o.file, o.fh),
           o.pc = "close" => \A k \in K : k.file # o.file
    PROVE  Numbered'
<1>1. /\ call \in [Client -> Call] /\ op \in [Client -> Op]
      /\ chunks \in [Client -> SUBSET Chunk] /\ pathtofh \in [Client -> PathMap]
  BY DEF Shape, TypeOK, ClientTypeOK, NetworkTypeOK
<1>2. pathtofh'[c] = h /\ op'[c] = o /\ chunks'[c] = K /\ call'[c].phase = "none"
  BY <1>1 DEF NoCall
<1>3. \A p, i : Keeps(p, i) => Keeps(p, i)'
  BY DEF Keeps, serverVars
<1>4. HandlesFit(c)'
  BY <1>2, <1>3 DEF HandlesFit
<1>5. CallKnown(c)'
  BY <1>2 DEF CallKnown
<1> QED
  BY <1>1, <1>4, <1>5, OwnKeeps

\* The client sends a request that is known.
LEMMA SendKeeps ==
    ASSUME Shape, Numbered, NEW c \in Client, NEW r, Send(c, r), UNCHANGED clientVars,
           RequestKnown(r), r.command = "open" => Keeps(op[c].file, r.fh)
    PROVE  Numbered'
<1>1. call \in [Client -> Call]
  BY DEF Shape, TypeOK, NetworkTypeOK
<1>2. /\ call' = [call EXCEPT ![c] = [phase |-> "sent", req |-> r, rep |-> NoResponse]]
      /\ UNCHANGED <<serverVars, late>>
  BY DEF Send
<1>3. call'[c].phase = "sent" /\ call'[c].req = r
  BY <1>1, <1>2
<1>4. Grows
  BY <1>2, SameGrows DEF serverVars
<1>5. HandlesFit(c)'
  BY <1>4, HandlesStay DEF Numbered, clientVars
<1>6. RequestKnown(r)' /\ (r.command = "open" => Keeps(op[c].file, r.fh)')
  BY <1>2 DEF RequestKnown, Keeps, serverVars, clientVars
<1>7. CallKnown(c)'
  BY <1>3, <1>6 DEF CallKnown
<1> QED
  BY <1>1, <1>2, <1>5, <1>7, OwnKeeps DEF clientVars


\* A callback starts, draws a chunk, or goes on to its next point.
LEMMA LocalKeeps ==
    ASSUME Shape, Numbered, NEW c \in Client,
           \/ Begin(c)
           \/ \E o \in Offset : KeepChunk(c, o)
           \/ EnterCommit(c)
           \/ NothingToCommit(c)
           \/ NextChunk(c)
           \/ EndResend(c)
    PROVE  Numbered'
<1>1. /\ op \in [Client -> Op] /\ op[c] \in Op /\ pathtofh \in [Client -> PathMap]
      /\ chunks \in [Client -> SUBSET Chunk] /\ op[c].file \in Path
  BY PathAssumption DEF Shape, TypeOK, ClientTypeOK, Op, File
<1>2. HandlesFit(c)
  BY DEF Numbered
<1>3. ASSUME NEW o, op' = [op EXCEPT ![c] = o], call' = call, call[c].phase = "none",
             UNCHANGED <<serverVars, late, pathtofh, chunks>>,
             o.pc \in {"commit", "resend", "again"} => Keeps(o.file, o.fh),
             o.pc = "close" => \A k \in chunks[c] : k.file # o.file
      PROVE  Numbered'
  <2>1. pathtofh' = [pathtofh EXCEPT ![c] = pathtofh[c]]
        /\ chunks' = [chunks EXCEPT ![c] = chunks[c]]
    BY <1>1, <1>3
  <2>2. /\ \A p \in Path : pathtofh[c][p] # NoFh => Keeps(p, pathtofh[c][p])
        /\ \A k \in chunks[c] : Keeps(k.file, k.fh)
    BY <1>2 DEF HandlesFit
  <2> QED
    BY <1>3, <2>1, <2>2, QuietKeeps
<1>4. CASE Begin(c)
  <2>1. PICK pc, s, f : pc \in {"open", "write", "release"} /\ s \in Slot /\ Start(c, pc, s, f)
    BY <1>4 DEF Begin, StartOpen, StartWrite, StartRelease
  <2> DEFINE o == [op[c] EXCEPT !.pc = pc, !.slot = s, !.file = f]
  <2>2. /\ op' = [op EXCEPT ![c] = o] /\ call' = call /\ call[c].phase = "none"
        /\ UNCHANGED <<serverVars, late, pathtofh, chunks>>
    BY <1>1, <2>1 DEF Start, At
  <2>3. o.pc = pc
    BY <1>1 DEF Op
  <2> HIDE DEF o
  <2> QED
    BY <1>3, <2>1, <2>2, <2>3
<1>5. ASSUME NEW o \in Offset, KeepChunk(c, o)
      PROVE  Numbered'
  <2> DEFINE k == NewChunk(c, o)
             u == [op[c] EXCEPT !.pc = "send", !.chunk = k]
             K == chunks[c] \cup {k}
  <2>1. /\ op' = [op EXCEPT ![c] = u] /\ call' = call /\ call[c].phase = "none"
        /\ chunks' = [chunks EXCEPT ![c] = K]
        /\ UNCHANGED <<serverVars, late, pathtofh>>
    BY <1>1, <1>5 DEF KeepChunk, At
  <2>2. u.pc = "send" /\ k.file = op[c].file /\ k.fh = pathtofh[c][op[c].file]
    BY <1>1 DEF Op, NewChunk, Handle
  <2>3. Keeps(k.file, k.fh)
    BY <1>1, <1>2, <1>5, <2>2 DEF HandlesFit, KeepChunk, Handle
  <2>4. \A m \in K : Keeps(m.file, m.fh)
    <3> HIDE DEF k
    <3> QED
      BY <1>2, <2>3 DEF HandlesFit
  <2>5. \A p \in Path : pathtofh[c][p] # NoFh => Keeps(p, pathtofh[c][p])
    BY <1>2 DEF HandlesFit
  <2>6. pathtofh' = [pathtofh EXCEPT ![c] = pathtofh[c]]
    BY <1>1, <2>1
  <2> HIDE DEF k, u, K
  <2> QED
    BY <2>1, <2>2, <2>4, <2>5, <2>6, QuietKeeps
<1>6. CASE EnterCommit(c)
  <2> DEFINE o == [op[c] EXCEPT !.pc = "commit", !.fh = Handle(c)]
  <2>1. /\ op' = [op EXCEPT ![c] = o] /\ call' = call /\ call[c].phase = "none"
        /\ UNCHANGED <<serverVars, late, pathtofh, chunks>>
    BY <1>1, <1>6 DEF EnterCommit, At
  <2>2. o.pc = "commit" /\ o.file = op[c].file /\ o.fh = pathtofh[c][op[c].file]
    BY <1>1 DEF Op, Handle
  <2>3. Keeps(o.file, o.fh)
    BY <1>1, <1>2, <1>6, <2>2 DEF HandlesFit, EnterCommit, Handle
  <2> HIDE DEF o
  <2> QED
    BY <1>3, <2>1, <2>2, <2>3
<1>7. CASE NothingToCommit(c)
  <2> DEFINE o == [op[c] EXCEPT !.pc = "close"]
  <2>1. /\ op' = [op EXCEPT ![c] = o] /\ call' = call /\ call[c].phase = "none"
        /\ UNCHANGED <<serverVars, late, pathtofh, chunks>>
    BY <1>1, <1>7 DEF NothingToCommit, At, Goto
  <2>2. o.pc = "close" /\ o.file = op[c].file
    BY <1>1 DEF Op
  <2>3. \A k \in chunks[c] : k.file # op[c].file
    BY <1>2, <1>7 DEF HandlesFit, NothingToCommit, At, Dirty, Keeps
  <2> HIDE DEF o
  <2> QED
    BY <1>3, <2>1, <2>2, <2>3
<1>8. CASE NextChunk(c)
  <2>1. PICK k : op' = [op EXCEPT ![c].pc = "again", ![c].chunk = k]
    BY <1>8 DEF NextChunk
  <2> DEFINE o == [op[c] EXCEPT !.pc = "again", !.chunk = k]
  <2>2. /\ op' = [op EXCEPT ![c] = o] /\ call' = call /\ call[c].phase = "none"
        /\ UNCHANGED <<serverVars, late, pathtofh, chunks>>
    BY <1>1, <1>8, <2>1 DEF NextChunk, At
  <2>3. o.pc = "again" /\ o.file = op[c].file /\ o.fh = op[c].fh
    BY <1>1 DEF Op
  <2>4. Keeps(op[c].file, op[c].fh)
    BY <1>2, <1>8 DEF HandlesFit, NextChunk, At
  <2> HIDE DEF o
  <2> QED
    BY <1>3, <2>2, <2>3, <2>4
<1>9. CASE EndResend(c)
  <2> DEFINE o == [op[c] EXCEPT !.pc = "commit", !.chunk = NoChunk]
  <2>1. /\ op' = [op EXCEPT ![c] = o] /\ call' = call /\ call[c].phase = "none"
        /\ UNCHANGED <<serverVars, late, pathtofh, chunks>>
    BY <1>1, <1>9 DEF EndResend, At
  <2>2. o.pc = "commit" /\ o.file = op[c].file /\ o.fh = op[c].fh
    BY <1>1 DEF Op
  <2>3. Keeps(op[c].file, op[c].fh)
    BY <1>2, <1>9 DEF HandlesFit, EndResend, At
  <2> HIDE DEF o
  <2> QED
    BY <1>3, <2>1, <2>2, <2>3
<1> QED
  BY <1>4, <1>5, <1>6, <1>7, <1>8, <1>9

\* Every request goes out with handles the client remembers rightly.
LEMMA RequestKeeps ==
    ASSUME Shape, Numbered, NEW c \in Client,
           SendLookup(c) \/ SendOpen(c) \/ SendWrite(c) \/ SendCommit(c) \/ SendRelease(c)
    PROVE  Numbered'
<1>1. op[c] \in Op /\ op[c].file \in Path /\ chunks[c] \subseteq Chunk
  BY PathAssumption DEF Shape, TypeOK, ClientTypeOK, Op, File
<1>2. HandlesFit(c)
  BY DEF Numbered
<1>3. ASSUME NEW p, NEW h, Keeps(p, h) PROVE Known(table, h)
  BY <1>3, PathAssumption DEF Keeps, Known
<1>4. Handle(c) # NoFh => Keeps(op[c].file, Handle(c)) /\ Known(table, Handle(c))
  BY <1>1, <1>2, <1>3 DEF HandlesFit, Handle
<1>5. CASE SendLookup(c)
  <2> DEFINE r == [NoRequest EXCEPT !.command = "lookup", !.name = op[c].file]
  <2>1. Send(c, r) /\ UNCHANGED clientVars
    BY <1>5 DEF SendLookup
  <2>2. r.command = "lookup"
    BY DEF NoRequest
  <2> HIDE DEF r
  <2> QED
    BY <2>1, <2>2, SendKeeps DEF RequestKnown
<1>6. CASE SendOpen(c)
  <2> DEFINE r == [NoRequest EXCEPT !.command = "open", !.fh = Handle(c)]
  <2>1. Send(c, r) /\ UNCHANGED clientVars /\ Handle(c) # NoFh
    BY <1>6 DEF SendOpen
  <2>2. r.command = "open" /\ r.fh = Handle(c)
    BY DEF NoRequest
  <2> HIDE DEF r
  <2> QED
    BY <1>4, <2>1, <2>2, SendKeeps DEF RequestKnown
<1>7. CASE SendWrite(c)
  <2> DEFINE k == op[c].chunk
             r == WriteRequest(k)
  <2>1. Send(c, r) /\ UNCHANGED clientVars
    BY <1>7 DEF SendWrite
  <2>2. r.command = "write" /\ r.fh = k.fh /\ r.chunk = k
    BY DEF NoRequest, WriteRequest
  <2>3. k \in chunks[c]
    BY <1>7 DEF SendWrite, At, Shape, ClientShape, OpFits
  <2>4. Known(table, k.fh)
    BY <1>2, <1>3, <2>3 DEF HandlesFit
  <2> HIDE DEF k, r
  <2> QED
    BY <2>1, <2>2, <2>4, SendKeeps DEF RequestKnown
<1>8. CASE SendCommit(c)
  <2> DEFINE r == CommitRequest(c)
  <2>1. Send(c, r) /\ UNCHANGED clientVars
    BY <1>8 DEF SendCommit
  <2>2. r.command = "commit"
    BY DEF NoRequest, CommitRequest
  <2> HIDE DEF r
  <2> QED
    BY <2>1, <2>2, SendKeeps DEF RequestKnown
<1>9. CASE SendRelease(c)
  <2> DEFINE r == [NoRequest EXCEPT !.command = "release", !.fh = Handle(c),
                                    !.fi = fi[c][op[c].slot].fi]
  <2>1. Send(c, r) /\ UNCHANGED clientVars /\ Handle(c) # NoFh
    BY <1>9 DEF SendRelease
  <2>2. r.command = "release" /\ r.fh = Handle(c)
    BY DEF NoRequest
  <2> HIDE DEF r
  <2> QED
    BY <1>4, <2>1, <2>2, SendKeeps DEF RequestKnown
<1> QED
  BY <1>5, <1>6, <1>7, <1>8, <1>9

\* What a callback makes of an answer, and of a call that failed.
LEMMA AnswerKeeps ==
    ASSUME Shape, Numbered, NEW c \in Client,
           \/ GotHandle(c) \/ Opened(c) \/ OpenRefused(c) \/ Written(c) \/ Committed(c)
           \/ CommitMissing(c) \/ CommitRefused(c) \/ Released(c) \/ Retry(c)
    PROVE  Numbered'
<1>1. /\ op \in [Client -> Op] /\ op[c] \in Op /\ pathtofh \in [Client -> PathMap]
      /\ chunks \in [Client -> SUBSET Chunk] /\ op[c].file \in Path
      /\ pathtofh[c] \in [Path -> Fh \cup {NoFh}]
  BY PathAssumption DEF Shape, TypeOK, ClientTypeOK, Op, File, PathMap
<1>2. /\ \A p \in Path : pathtofh[c][p] # NoFh => Keeps(p, pathtofh[c][p])
      /\ \A k \in chunks[c] : Keeps(k.file, k.fh)
      /\ op[c].pc \in {"commit", "resend", "again"} => Keeps(op[c].file, op[c].fh)
      /\ op[c].pc = "close" => \A k \in chunks[c] : k.file # op[c].file
  BY DEF Numbered, HandlesFit
<1>3. pathtofh = [pathtofh EXCEPT ![c] = pathtofh[c]] /\ op = [op EXCEPT ![c] = op[c]]
      /\ chunks = [chunks EXCEPT ![c] = chunks[c]]
  BY <1>1
\* The answer changes neither the handles nor the chunks, only the point.
<1>4. ASSUME NEW o, op' = [op EXCEPT ![c] = o], call' = [call EXCEPT ![c] = NoCall],
             UNCHANGED <<serverVars, late, pathtofh, chunks>>,
             \/ o.pc = "idle"
             \/ o.pc \in {"resend", "commit"} /\ Keeps(o.file, o.fh)
      PROVE  Numbered'
  BY <1>2, <1>3, <1>4, QuietKeeps
<1>5. IdleOp.pc = "idle"
  BY DEF IdleOp
<1>6. call[c].phase # "none" => CallFits(c)
  BY DEF Shape, ClientShape
<1>7. CASE GotHandle(c)
  <2> DEFINE n == call[c].req.name
             h == [pathtofh[c] EXCEPT ![n] = call[c].rep.fh]
  <2>1. /\ call' = [call EXCEPT ![c] = NoCall] /\ UNCHANGED <<serverVars, late, op, chunks>>
        /\ pathtofh' = [pathtofh EXCEPT ![c] = h]
    BY <1>1, <1>7 DEF GotHandle, Answered
  <2>2. Keeps(n, call[c].rep.fh)
    BY <1>7 DEF GotHandle, Answered, Numbered, CallKnown
  <2>3. \A p \in Path : h[p] # NoFh => Keeps(p, h[p])
    BY <1>1, <1>2, <2>2
  <2> HIDE DEF h
  <2> QED
    BY <1>2, <1>3, <2>1, <2>3, QuietKeeps
<1>8. CASE Opened(c) \/ OpenRefused(c) \/ CommitRefused(c) \/ Released(c)
  <2>1. /\ op' = [op EXCEPT ![c] = IdleOp] /\ call' = [call EXCEPT ![c] = NoCall]
        /\ UNCHANGED <<serverVars, late, pathtofh, chunks>>
    BY <1>8 DEF Opened, OpenRefused, CommitRefused, Released, Answered, Return
  <2> QED
    BY <1>4, <1>5, <2>1
<1>9. ASSUME NEW pc \in {"resend", "close", "commit"}, Goto(c, pc)
      PROVE  \E o : /\ op' = [op EXCEPT ![c] = o] /\ o.pc = pc /\ o.file = op[c].file
                    /\ o.fh = op[c].fh
  <2> DEFINE o == [op[c] EXCEPT !.pc = pc]
  <2>1. /\ op' = [op EXCEPT ![c] = o] /\ o.pc = pc /\ o.file = op[c].file
        /\ o.fh = op[c].fh
    BY <1>1, <1>9 DEF Goto, Op
  <2> QED
    BY <2>1
<1>10. CASE Written(c)
  <2>1. /\ call' = [call EXCEPT ![c] = NoCall]
        /\ UNCHANGED <<serverVars, late, pathtofh, chunks>>
    BY <1>10 DEF Written, Answered
  <2>2. CASE op[c].pc = "again"
    <3>1. PICK o : /\ op' = [op EXCEPT ![c] = o] /\ o.pc = "resend"
                   /\ o.file = op[c].file /\ o.fh = op[c].fh
      BY <1>9, <1>10, <2>2 DEF Written
    <3> QED
      BY <1>2, <1>4, <2>1, <2>2, <3>1
  <2>3. CASE op[c].pc # "again"
    BY <1>4, <1>5, <1>10, <2>1, <2>3 DEF Written, Return
  <2> QED
    BY <2>2, <2>3
<1>11. CASE CommitMissing(c)
  <2>1. /\ call' = [call EXCEPT ![c] = NoCall] /\ op[c].pc = "commit"
        /\ UNCHANGED <<serverVars, late, pathtofh, chunks>>
    BY <1>6, <1>11 DEF CommitMissing, Answered, CallFits
  <2>2. PICK o : /\ op' = [op EXCEPT ![c] = o] /\ o.pc = "resend"
                 /\ o.file = op[c].file /\ o.fh = op[c].fh
    BY <1>9, <1>11 DEF CommitMissing
  <2> QED
    BY <1>2, <1>4, <2>1, <2>2
<1>12. CASE Committed(c)
  <2>1. /\ call' = [call EXCEPT ![c] = NoCall] /\ op[c].pc = "commit"
        /\ chunks' = [chunks EXCEPT ![c] = chunks[c] \ Dirty(c)]
        /\ pathtofh' = pathtofh
        /\ UNCHANGED <<serverVars, late>>
    BY <1>6, <1>12 DEF Committed, Answered, CallFits
  <2>2. PICK o : /\ op' = [op EXCEPT ![c] = o] /\ o.pc = "close"
                 /\ o.file = op[c].file /\ o.fh = op[c].fh
    BY <1>9, <1>12 DEF Committed
  <2>3. \A k \in chunks[c] \ Dirty(c) : k.file # o.file
    BY <1>2, <2>1, <2>2 DEF Dirty, Keeps
  <2> QED
    BY <1>2, <1>3, <2>1, <2>2, <2>3, QuietKeeps
<1>13. CASE Retry(c)
  <2>1. /\ call' = [call EXCEPT ![c] = NoCall]
        /\ pathtofh' = [pathtofh EXCEPT ![c] = NoHandles]
        /\ chunks' = chunks
        /\ UNCHANGED <<serverVars, late>>
    BY <1>13 DEF Retry
  <2>2. \A p \in Path : NoHandles[p] # NoFh => Keeps(p, NoHandles[p])
    BY DEF NoHandles, Numbered, TableFits
  <2>3. CASE op' = op
    BY <1>2, <1>3, <2>1, <2>2, <2>3, QuietKeeps
  <2>4. CASE Goto(c, "release")
    <3> DEFINE o == [op[c] EXCEPT !.pc = "release"]
    <3>1. op' = [op EXCEPT ![c] = o] /\ o.pc = "release"
      BY <1>1, <2>4 DEF Goto, Op
    <3> HIDE DEF o
    <3> QED
      BY <1>2, <1>3, <2>1, <2>2, <3>1, QuietKeeps
  <2> QED
    BY <1>13, <2>3, <2>4 DEF Retry
<1> QED
  BY <1>7, <1>8, <1>10, <1>11, <1>12, <1>13


\* A lost call may be executed later, with the handles it was sent with.
LEMMA LossKeeps ==
    ASSUME Shape, Numbered, NEW c \in Client, LoseRequest(c) \/ LoseReply(c) \/ Refuse(c)
    PROVE  Numbered'
<1>1. call \in [Client -> Call]
  BY DEF Shape, TypeOK, NetworkTypeOK
<1>2. /\ call' = [call EXCEPT ![c].phase = "failed"]
      /\ UNCHANGED <<serverVars, clientVars>>
  BY DEF LoseRequest, LoseReply, Refuse
<1>3. Grows /\ TableFits' /\ CacheKnown' /\ up'
  BY <1>2, SameGrows DEF Numbered, serverVars, CacheKnown
<1>4. ASSUME NEW d \in Client PROVE HandlesFit(d)' /\ CallKnown(d)'
  <2>1. call'[d] = call[d] \/ call'[d].phase = "failed"
    BY <1>1, <1>2 DEF Call
  <2> QED
    BY <1>2, <1>3, <2>1, HandlesStay, CallStays DEF Numbered, clientVars
<1>5. ASSUME NEW l \in late' PROVE RequestKnown(l[2])'
  <2>1. CASE l \in late
    <3>1. RequestKnown(l[2])
      BY <2>1 DEF Numbered
    <3> QED
      BY <1>2, <3>1 DEF RequestKnown, serverVars
  <2>2. CASE l \notin late
    <3>1. l = <<c, call[c].req>> /\ call[c].phase = "sent"
      BY <2>2 DEF LoseRequest, LoseReply, Refuse
    <3>2. RequestKnown(l[2])
      BY <3>1 DEF Numbered, CallKnown
    <3> QED
      BY <1>2, <3>2 DEF RequestKnown, serverVars
  <2> QED
    BY <2>1, <2>2
<1> QED
  BY <1>3, <1>4, <1>5 DEF Numbered

LEMMA NumberedStep ==
    ASSUME MaxCrash = 0
    PROVE  Shape /\ Numbered /\ [Next]_vars => Numbered'
<1> SUFFICES ASSUME Shape, Numbered, [Next]_vars PROVE Numbered'
  OBVIOUS
<1>1. CASE UNCHANGED vars
  BY <1>1 DEF vars, serverVars, clientVars, Numbered, TableFits, CacheKnown, RequestKnown,
              HandlesFit, CallKnown, Keeps
<1>2. ASSUME NEW c \in Client, Begin(c) \/ Proceed(c)
      PROVE  Numbered'
  BY <1>2, LocalKeeps, RequestKeeps, AnswerKeeps DEF Proceed
<1>3. ASSUME NEW c \in Client, Refuse(c) \/ Fault(c)
      PROVE  Numbered'
  BY <1>3, LossKeeps DEF Fault
<1>4. ~Crash
  <2>1. faults.crash \in Nat
    BY DEF Shape, TypeOK, NetworkTypeOK
  <2> QED
    BY <2>1 DEF Crash, CrashBetween, CrashInStore, CrashInCommit, Die
<1>5. ~Restart
  BY DEF Restart, Numbered
<1> QED
  BY <1>1, <1>2, <1>3, <1>4, <1>5, ServeKeeps DEF Next

LEMMA NumberedInvariant ==
    ASSUME MaxCrash = 0
    PROVE  Spec => []Numbered
<1>1. Shape /\ Numbered /\ [Next]_vars => Numbered'
  BY NumberedStep
<1> QED
  BY <1>1, NumberedInit, ShapeInvariant, PTL DEF Spec

-----------------------------------------------------------------------------
(* What follows from it.                                                    *)

\* As long as the server does not crash, a handle that a client remembers for a
\* path, from lookup or from before retry(), is the server's handle of that path,
\* through lost, late and repeated calls.
THEOREM EntriesStay ==
    ASSUME MaxCrash = 0
    PROVE  Spec => []EntriesRecovered
<1>1. Numbered => EntriesRecovered
  <2> SUFFICES ASSUME Numbered, NEW c \in Client, NEW f \in File, pathtofh[c][f] # NoFh
               PROVE  /\ Resolves(table, log, pathtofh[c][f])
                      /\ PathOf(table, log, pathtofh[c][f]) = f
    BY DEF EntriesRecovered
  <2> DEFINE h == pathtofh[c][f]
  <2>1. Keeps(f, h)
    BY DEF Numbered, HandlesFit, File
  <2>2. Known(table, h) /\ table.fhToPath[h] = f
    BY <2>1, PathAssumption DEF Keeps, Known
  <2> HIDE DEF h
  <2>3. Resolves(table, log, h) /\ PathOf(table, log, h) = f
    BY <2>2, FoundKnown
  <2> QED
    BY <2>3 DEF h
<1> QED
  BY <1>1, NumberedInvariant, PTL

\* As long as the server does not crash, close(2) commits: client_release gets past
\* client_commit only when it holds no chunk of the file any more, although
\* client_commit picks the chunks by their handle and not by their file.
THEOREM CloseCommits ==
    ASSUME MaxCrash = 0
    PROVE  Spec => []CommittedOnClose
<1>1. Numbered => CommittedOnClose
  BY DEF Numbered, HandlesFit, CommittedOnClose
<1> QED
  BY <1>1, NumberedInvariant, PTL

-----------------------------------------------------------------------------
(* Descriptors.                                                             *)

Alone == \A c, d \in Client : c = d

\* No call fails; or there is one client, and the server does not execute later what
\* the client has given up.
Steady == MaxLost = 0 \/ (MaxLate = 0 /\ Alone)

Got(c, command) == call[c].phase = "replied" /\ call[c].req.command = command

\* The server has closed slot s of client c: it has said so, or it has said so before
\* and the answer was lost, so that the client closes the slot again.
LetGo(c, s) ==
    /\ op[c].slot = s
    /\ \/ Got(c, "release")
       \/ Alone /\ Closing(c, s) /\ fds[fi[c][s].fi] = NoPath

Holds(c, s) == fi[c][s] # NoOpen /\ ~LetGo(c, s)

\* The server has opened a file, and its client will put it in its slot.
Opening(c) == Got(c, "open") /\ call[c].rep.success = 0

\* The server keeps descriptor d open on file f for slot s of client c.
Uses(c, s, d, f) ==
    \/ Holds(c, s) /\ fi[c][s].fi = d /\ fi[c][s].file = f
    \/ Opening(c) /\ op[c].slot = s /\ call[c].rep.fi = d /\ op[c].file = f

\* Every descriptor in use is open on its file and is used once, and the one in a
\* chunk is open on the file of the chunk and not used by another client.
UsesRight ==
    \A c \in Client, s \in Slot, d \in Fd, f \in File : Uses(c, s, d, f) => fds[d] = f

UsesOnce ==
    \A b, c \in Client, s, t \in Slot, d \in Fd, f, g \in File :
        Uses(b, s, d, f) /\ Uses(c, t, d, g) => b = c /\ s = t

ChunksOpen ==
    \A c \in Client : \A k \in chunks[c] :
        /\ fds[k.fi] = k.file
        /\ \A b \in Client, s \in Slot, f \in File : Uses(b, s, k.fi, f) => b = c

\* A callback works on the file of its slot; a release closes the slot's descriptor,
\* which nobody opens again before the only client has gone on.
Working(c) ==
    /\ call[c].phase = "failed" => Alone
    /\ op[c].pc \in {"write", "release", "commit", "resend", "again", "close"} =>
         op[c].file = fi[c][op[c].slot].file
    /\ op[c].pc = "open" => fi[c][op[c].slot] = NoOpen
    /\ (call[c].phase # "none" /\ call[c].req.command = "release") =>
         call[c].req.fi = fi[c][op[c].slot].fi
    /\ (Alone /\ Got(c, "release")) => fds[fi[c][op[c].slot].fi] = NoPath

Orderly ==
    /\ late = {}
    /\ UsesRight /\ UsesOnce /\ ChunksOpen
    /\ \A c \in Client : Working(c)

\* Nothing is opened or closed, and no use or chunk is added.
LEMMA UsesStay ==
    ASSUME UsesRight, UsesOnce, ChunksOpen, fds' = fds,
           \A c \in Client, s \in Slot, d \in Fd, f \in File :
               Uses(c, s, d, f)' => Uses(c, s, d, f),
           \A c \in Client : chunks'[c] \subseteq chunks[c] /\ chunks[c] \subseteq Chunk
    PROVE  UsesRight' /\ UsesOnce' /\ ChunksOpen'
<1>1. UsesRight'
  BY DEF UsesRight
<1>2. UsesOnce'
  BY DEF UsesOnce
<1>3. ChunksOpen'
  <2> SUFFICES ASSUME NEW c \in Client, NEW k \in chunks'[c]
               PROVE  /\ fds[k.fi] = k.file
                      /\ \A b \in Client, s \in Slot, f \in File : Uses(b, s, k.fi, f)' => b = c
    BY DEF ChunksOpen
  <2>1. k \in chunks[c] /\ k.fi \in Fd
    BY DEF Chunk
  <2>2. \A b \in Client, s \in Slot, f \in File : Uses(b, s, k.fi, f)' => Uses(b, s, k.fi, f)
    BY <2>1
  <2> QED
    BY <2>1, <2>2 DEF ChunksOpen
<1> QED
  BY <1>1, <1>2, <1>3

\* What a handler does to the descriptors.
LEMMA ServeKinds ==
    ASSUME Shape, Numbered, NEW c \in Client, ServeCall(c), NEW r, r = call[c].req
    PROVE  /\ UNCHANGED clientVars /\ late' = late
           /\ \E rep :
               /\ call' = [call EXCEPT ![c] = [phase |-> "replied", req |-> r, rep |-> rep]]
               /\ \/ /\ r.command = "open" /\ rep.success = 0 /\ rep.fi \in Fd
                     /\ fds[rep.fi] = NoPath
                     /\ fds' = [fds EXCEPT ![rep.fi] = op[c].file]
                  \/ r.command = "open" /\ rep.success # 0 /\ fds' = fds
                  \/ r.command = "release" /\ fds' = [fds EXCEPT ![r.fi] = NoPath]
                  \/ r.command \notin {"open", "release"} /\ fds' = fds
<1>1. /\ UNCHANGED clientVars /\ late' = late /\ call[c].phase = "sent" /\ Serve(c, r, TRUE)
  BY DEF ServeCall
<1>2. RequestKnown(r) /\ (r.command = "open" => Keeps(op[c].file, r.fh))
  BY <1>1 DEF Numbered, CallKnown
<1>3. LogSaved = table /\ ~LogSaveThrows
  BY CachedKnown DEF Shape, TypeOK, Numbered
<1>4. r.command \in {"open", "write", "release"} => Resolves(table, log, r.fh)
  BY <1>2, FoundKnown DEF RequestKnown
<1>5. ~ServeUnresolved(c, r, TRUE) /\ ~ServeCommitThrows(c, r, TRUE)
  BY <1>3, <1>4 DEF ServeUnresolved, ServeCommitThrows
<1>6. ASSUME NEW rep, Reply(c, TRUE, rep)
      PROVE  call' = [call EXCEPT ![c] = [phase |-> "replied", req |-> r, rep |-> rep]]
  BY <1>6 DEF Reply
<1>7. CASE ServeOpen(c, r, TRUE)
  <2>1. PICK d \in FreeFds : /\ fds' = [fds EXCEPT ![d] = PathOf(table, log, r.fh)]
                             /\ Reply(c, TRUE, [NoResponse EXCEPT !.fi = d])
    BY <1>7 DEF ServeOpen
  <2> DEFINE rep == [NoResponse EXCEPT !.fi = d]
  <2>2. rep.fi = d /\ rep.success = 0
    BY DEF NoResponse
  <2>3. r.command = "open" /\ d \in Fd /\ fds[d] = NoPath
    BY <1>7 DEF ServeOpen, FreeFds
  <2>4. PathOf(table, log, r.fh) = op[c].file
    BY <1>2, <2>3, FoundKnown DEF RequestKnown, Keeps
  <2>5. call' = [call EXCEPT ![c] = [phase |-> "replied", req |-> r, rep |-> rep]]
    BY <1>6, <2>1
  <2> HIDE DEF rep
  <2> QED
    BY <1>1, <2>1, <2>2, <2>3, <2>4, <2>5
<1>8. CASE ServeOpenFails(c, r, TRUE)
  <2> DEFINE rep == [NoResponse EXCEPT !.success = -1]
  <2>1. rep.success # 0
    BY DEF NoResponse
  <2>2. r.command = "open" /\ fds' = fds
    BY <1>8 DEF ServeOpenFails
  <2>3. call' = [call EXCEPT ![c] = [phase |-> "replied", req |-> r, rep |-> rep]]
    BY <1>6, <1>8 DEF ServeOpenFails
  <2> HIDE DEF rep
  <2> QED
    BY <1>1, <2>1, <2>2, <2>3
<1>9. CASE ServeRelease(c, r, TRUE)
  BY <1>1, <1>6, <1>9 DEF ServeRelease
<1>10. ASSUME NEW rep, Reply(c, TRUE, rep), r.command \notin {"open", "release"}, fds' = fds
       PROVE  \E u :
               /\ call' = [call EXCEPT ![c] = [phase |-> "replied", req |-> r, rep |-> u]]
               /\ r.command \notin {"open", "release"} /\ fds' = fds
  BY <1>6, <1>10
<1>11. CASE \/ ServeLookup(c, r, TRUE) \/ ServeWrite(c, r, TRUE)
            \/ ServeCommitNotReady(c, r, TRUE)
            \/ ServeCommit(c, r, TRUE) \/ ServeCommitFails(c, r, TRUE)
  <2>1. /\ r.command \notin {"open", "release"} /\ fds' = fds
        /\ \E rep : Reply(c, TRUE, rep)
    BY <1>11 DEF ServeLookup, ServeWrite, ServeCommitNotReady, ServeCommit, ServeCommitFails
  <2> QED
    BY <1>1, <1>10, <2>1
<1> QED
  BY <1>1, <1>5, <1>7, <1>8, <1>9, <1>11 DEF Serve

\* The uses of a client that neither acts nor is answered.
LEMMA UsesOfOthers ==
    ASSUME NEW b \in Client, op'[b] = op[b], fi'[b] = fi[b], call'[b] = call[b],
           fds' = fds \/ ~Alone
    PROVE  \A s \in Slot, d \in Fd, f \in File : Uses(b, s, d, f)' <=> Uses(b, s, d, f)
BY DEF Uses, Holds, LetGo, Closing, Got, Opening

LEMMA WorkingOthers ==
    ASSUME NEW b \in Client, Working(b), op'[b] = op[b], fi'[b] = fi[b], call'[b] = call[b],
           fds' = fds \/ ~Alone
    PROVE  Working(b)'
BY DEF Working, Got

LEMMA FitTypes ==
    ASSUME Shape
    PROVE  /\ call \in [Client -> Call] /\ op \in [Client -> Op]
           /\ fi \in [Client -> [Slot -> OpenFile \cup {NoOpen}]]
           /\ chunks \in [Client -> SUBSET Chunk]
           /\ fds \in [Fd -> File \cup {NoPath}]
           /\ \A c \in Client : /\ OpFits(c) /\ CallFits(c) /\ op[c].slot \in Slot
                                /\ op[c].file \in File /\ op[c] \in Op
BY DEF Shape, TypeOK, ServerTypeOK, ClientTypeOK, NetworkTypeOK, ClientShape, Op

\* A handler opens a descriptor that is free, for a client that waits for it, and
\* closes the one that its client is done with.
LEMMA ServeOrderly ==
    ASSUME Shape, Numbered, Orderly, NEW c \in Client, ServeCall(c)
    PROVE  Orderly'
<1> DEFINE r == call[c].req
<1>1. PICK rep :
        /\ call' = [call EXCEPT ![c] = [phase |-> "replied", req |-> r, rep |-> rep]]
        /\ \/ /\ r.command = "open" /\ rep.success = 0 /\ rep.fi \in Fd
              /\ fds[rep.fi] = NoPath
              /\ fds' = [fds EXCEPT ![rep.fi] = op[c].file]
           \/ r.command = "open" /\ rep.success # 0 /\ fds' = fds
           \/ r.command = "release" /\ fds' = [fds EXCEPT ![r.fi] = NoPath]
           \/ r.command \notin {"open", "release"} /\ fds' = fds
  BY ServeKinds
<1>2. UNCHANGED clientVars /\ late' = late /\ call[c].phase = "sent"
  BY DEF ServeCall
<1>3. /\ call \in [Client -> Call] /\ op \in [Client -> Op]
      /\ fi \in [Client -> [Slot -> OpenFile \cup {NoOpen}]]
      /\ chunks \in [Client -> SUBSET Chunk]
      /\ fds \in [Fd -> File \cup {NoPath}]
      /\ OpFits(c) /\ CallFits(c) /\ op[c].slot \in Slot /\ op[c].file \in File
  BY FitTypes
<1>4. /\ call'[c].phase = "replied" /\ call'[c].req = r /\ call'[c].rep = rep
      /\ \A b \in Client : b # c => call'[b] = call[b]
  BY <1>1, <1>3
<1>5. ASSUME NEW b \in Client, b # c
      PROVE  /\ \A s \in Slot, d \in Fd, f \in File : Uses(b, s, d, f)' <=> Uses(b, s, d, f)
             /\ Working(b)'
  <2>1. ~Alone
    BY <1>5 DEF Alone
  <2>2. op'[b] = op[b] /\ fi'[b] = fi[b] /\ call'[b] = call[b]
    BY <1>2, <1>4, <1>5 DEF clientVars
  <2> QED
    BY <2>1, <2>2, UsesOfOthers, WorkingOthers DEF Orderly
<1>6. UsesRight /\ UsesOnce /\ ChunksOpen /\ Working(c)
  BY DEF Orderly
<1>7. \A b \in Client : Working(b)'
  <2>1. ASSUME r.command = "release"
        PROVE  fds'[fi[c][op[c].slot].fi] = NoPath
    <3>1. /\ r.fi = fi[c][op[c].slot].fi /\ fi[c][op[c].slot] \in OpenFile
          /\ fds' = [fds EXCEPT ![r.fi] = NoPath]
      BY <1>1, <1>2, <1>3, <1>6, <2>1 DEF Working, CallFits, OpFits
    <3> QED
      BY <1>3, <3>1 DEF OpenFile
  <2>2. Working(c)'
    BY <1>2, <1>4, <1>6, <2>1 DEF Working, Got, clientVars
  <2> QED
    BY <1>5, <2>2
<1>8. \A b \in Client : chunks'[b] \subseteq chunks[b] /\ chunks[b] \subseteq Chunk
  BY <1>2, <1>3 DEF clientVars
<1>9. UsesRight' /\ UsesOnce' /\ ChunksOpen'
  <2>1. CASE \/ r.command = "open" /\ rep.success # 0 /\ fds' = fds
             \/ r.command \notin {"open", "release"} /\ fds' = fds
    <3>1. \A s \in Slot, d \in Fd, f \in File : Uses(c, s, d, f)' => Uses(c, s, d, f)
      BY <1>2, <1>4, <2>1 DEF Uses, Holds, LetGo, Closing, Got, Opening, clientVars
    <3> QED
      BY <1>5, <1>6, <1>8, <2>1, <3>1, UsesStay
  <2>2. CASE /\ r.command = "open" /\ rep.success = 0 /\ rep.fi \in Fd
             /\ fds[rep.fi] = NoPath
             /\ fds' = [fds EXCEPT ![rep.fi] = op[c].file]
    <3> DEFINE e == rep.fi
    <3>1. /\ \A d \in Fd : fds'[d] = IF d = e THEN op[c].file ELSE fds[d]
          /\ e \in Fd /\ fds[e] = NoPath
      BY <1>3, <2>2
    <3>2. \A s \in Slot, d \in Fd, f \in File :
            Uses(c, s, d, f)' => \/ Uses(c, s, d, f)
                                 \/ d = e /\ s = op[c].slot /\ f = op[c].file
      BY <1>2, <1>3, <1>4, <2>2 DEF CallFits, Uses, Holds, LetGo, Closing, Got, Opening, clientVars
    <3>3. \A b \in Client, s \in Slot, f \in File : ~Uses(b, s, e, f)
      BY <1>6, <3>1, PathAssumption DEF UsesRight, File
    <3> HIDE DEF e
    <3>4. UsesRight'
      BY <1>5, <1>6, <3>1, <3>2, <3>3 DEF UsesRight
    <3>5. UsesOnce'
      <4> SUFFICES ASSUME NEW a \in Client, NEW b \in Client, NEW s \in Slot, NEW t \in Slot,
                          NEW d \in Fd, NEW f \in File, NEW g \in File,
                          Uses(a, s, d, f)', Uses(b, t, d, g)'
                   PROVE  a = b /\ s = t
        BY DEF UsesOnce
      <4>1. CASE d = e
        BY <1>5, <3>2, <3>3, <4>1
      <4>2. CASE d # e
        BY <1>5, <1>6, <3>2, <4>2 DEF UsesOnce
      <4> QED
        BY <4>1, <4>2
    <3>6. ChunksOpen'
      <4> SUFFICES ASSUME NEW b \in Client, NEW k \in chunks[b]
                   PROVE  /\ fds'[k.fi] = k.file
                          /\ \A a \in Client, s \in Slot, f \in File :
                               Uses(a, s, k.fi, f)' => a = b
        BY <1>2 DEF ChunksOpen, clientVars
      <4>1. /\ k.fi \in Fd /\ k.file \in File /\ fds[k.fi] = k.file
            /\ \A a \in Client, s \in Slot, f \in File : Uses(a, s, k.fi, f) => a = b
        BY <1>3, <1>6 DEF ChunksOpen, Chunk
      <4>2. k.fi # e
        BY <3>1, <4>1, PathAssumption DEF File
      <4> QED
        BY <1>5, <3>1, <3>2, <4>1, <4>2
    <3> QED
      BY <3>4, <3>5, <3>6
  <2>3. ASSUME r.command = "release", fds' = [fds EXCEPT ![r.fi] = NoPath],
               NEW e, e = r.fi, NEW t, t = op[c].slot
        PROVE  UsesRight' /\ UsesOnce' /\ ChunksOpen'
    <3>1. /\ op[c].pc = "close" /\ fi[c][t] \in OpenFile /\ e = fi[c][t].fi
          /\ op[c].file = fi[c][t].file /\ fi[c][t] # NoOpen
      BY <1>2, <1>3, <1>6, <2>3 DEF CallFits, OpFits, Working
    <3>2. e \in Fd /\ \A d \in Fd : fds'[d] = IF d = e THEN NoPath ELSE fds[d]
      BY <1>3, <2>3, <3>1 DEF OpenFile
    <3>3. \A s \in Slot, d \in Fd, f \in File : Uses(c, s, d, f)' => Uses(c, s, d, f) /\ s # t
      BY <1>2, <1>3, <1>4, <2>3 DEF CallFits, Uses, Holds, LetGo, Closing, Got, Opening,
                                    clientVars
    <3>4. CASE fds[e] = NoPath
      <4>1. fds' = fds
        BY <1>3, <2>3, <3>2, <3>4
      <4>2. \A b \in Client, s \in Slot, d \in Fd, f \in File :
              Uses(b, s, d, f)' => Uses(b, s, d, f)
        BY <1>5, <3>3
      <4> QED
        BY <1>6, <1>8, <4>1, <4>2, UsesStay
    <3>5. CASE fds[e] # NoPath
      <4>1. Uses(c, t, e, op[c].file)
        BY <1>2, <3>1, <3>5 DEF Uses, Holds, LetGo, Got
      <4>2. t \in Slot /\ op[c].file \in File
        BY <1>3, <2>3
      <4>3. \A b \in Client, s \in Slot, f \in File : ~Uses(b, s, e, f)'
        BY <1>5, <1>6, <3>2, <3>3, <4>1, <4>2 DEF UsesOnce
      <4>4. \A b \in Client, s \in Slot, d \in Fd, f \in File :
              Uses(b, s, d, f)' => Uses(b, s, d, f) /\ d # e
        BY <1>5, <3>3, <4>3
      <4>5. UsesRight'
        BY <1>6, <3>2, <4>4 DEF UsesRight
      <4>6. UsesOnce'
        BY <1>6, <4>4 DEF UsesOnce
      <4>7. ChunksOpen'
        <5> SUFFICES ASSUME NEW b \in Client, NEW k \in chunks[b]
                     PROVE  /\ fds'[k.fi] = k.file
                            /\ \A a \in Client, s \in Slot, f \in File :
                                 Uses(a, s, k.fi, f)' => a = b
          BY <1>2 DEF ChunksOpen, clientVars
        <5>1. /\ k.fi \in Fd /\ k.file \in File /\ fds[k.fi] = k.file
              /\ \A a \in Client, s \in Slot, f \in File : Uses(a, s, k.fi, f) => a = b
          BY <1>3, <1>6 DEF ChunksOpen, Chunk
        <5>2. k.fi # e
          <6> SUFFICES ASSUME k.fi = e PROVE FALSE
            OBVIOUS
          <6>1. b = c
            BY <4>1, <4>2, <5>1
          <6>2. k.file = op[c].file
            BY <1>6, <3>2, <4>1, <4>2, <5>1 DEF UsesRight
          <6> QED
            BY <3>1, <6>1, <6>2 DEF Numbered, HandlesFit
        <5> QED
          BY <3>2, <4>4, <5>1, <5>2
      <4> QED
        BY <4>5, <4>6, <4>7
    <3> QED
      BY <3>4, <3>5
  <2> QED
    BY <1>1, <2>1, <2>2, <2>3
<1> QED
  BY <1>2, <1>7, <1>9 DEF Orderly

\* A step of client c that opens and closes nothing: its uses do not grow.
LEMMA OwnOrderly ==
    ASSUME Shape, Orderly, NEW c \in Client, fds' = fds, late' = late,
           \A b \in Client \ {c} : /\ op'[b] = op[b] /\ fi'[b] = fi[b] /\ call'[b] = call[b]
                                   /\ chunks'[b] = chunks[b],
           \A s \in Slot, d \in Fd, f \in File : Uses(c, s, d, f)' => Uses(c, s, d, f),
           chunks'[c] \subseteq chunks[c], Working(c)'
    PROVE  Orderly'
<1>1. UsesRight' /\ UsesOnce' /\ ChunksOpen'
  <2>1. \A b \in Client, s \in Slot, d \in Fd, f \in File : Uses(b, s, d, f)' => Uses(b, s, d, f)
    BY UsesOfOthers
  <2>2. \A b \in Client : chunks'[b] \subseteq chunks[b] /\ chunks[b] \subseteq Chunk
    BY FitTypes
  <2> QED
    BY <2>1, <2>2, UsesStay DEF Orderly
<1>2. \A b \in Client : Working(b)'
  BY WorkingOthers DEF Orderly
<1> QED
  BY <1>1, <1>2 DEF Orderly

\* A callback starts or goes on: no call is under way before or after.
LEMMA LocalOrderly ==
    ASSUME Shape, Orderly, NEW c \in Client,
           Begin(c) \/ EnterCommit(c) \/ NothingToCommit(c) \/ NextChunk(c) \/ EndResend(c)
    PROVE  Orderly'
<1>1. /\ op \in [Client -> Op] /\ op[c] \in Op /\ OpFits(c) /\ Working(c)
  BY FitTypes DEF Orderly
<1>2. /\ call[c].phase = "none" /\ UNCHANGED <<fds, late, fi, call, chunks>>
      /\ \A b \in Client \ {c} : op'[b] = op[b]
  <2>1. CASE Begin(c)
    BY <1>1, <2>1 DEF Begin, StartOpen, StartWrite, StartRelease, Start, At, serverVars
  <2>2. CASE EnterCommit(c) \/ NothingToCommit(c) \/ NextChunk(c) \/ EndResend(c)
    BY <1>1, <2>2 DEF EnterCommit, NothingToCommit, NextChunk, EndResend, At, Goto, serverVars
  <2> QED
    BY <2>1, <2>2
<1>3. \A s \in Slot, d \in Fd, f \in File : Uses(c, s, d, f)' => Uses(c, s, d, f)
  <2>1. \A s \in Slot : Closing(c, s) => Closing(c, s)'
    <3>1. CASE Begin(c)
      BY <3>1 DEF Begin, StartOpen, StartWrite, StartRelease, Start, At, Closing
    <3>2. CASE EnterCommit(c) \/ NothingToCommit(c) \/ NextChunk(c) \/ EndResend(c)
      BY <1>1, <3>2 DEF EnterCommit, NothingToCommit, NextChunk, EndResend, At, Goto, Op, Closing
    <3> QED
      BY <3>1, <3>2
  <2>2. \A s \in Slot : LetGo(c, s) => LetGo(c, s)'
    BY <1>2, <2>1 DEF LetGo, Closing, Got
  <2> QED
    BY <1>2, <2>2 DEF Uses, Holds, Got, Opening
<1>4. Working(c)'
  <2>1. CASE Begin(c)
    <3>1. CASE \E s \in Slot, f \in File : StartOpen(c, s, f)
      BY <1>1, <1>2, <3>1 DEF StartOpen, Start, Op, Working, Got
    <3>2. CASE \E s \in Slot : StartWrite(c, s) \/ StartRelease(c, s)
      BY <1>1, <1>2, <3>2 DEF StartWrite, StartRelease, Start, Op, Working, Got
    <3> QED
      BY <2>1, <3>1, <3>2 DEF Begin
  <2>2. CASE EnterCommit(c) \/ NothingToCommit(c) \/ NextChunk(c) \/ EndResend(c)
    BY <1>1, <1>2, <2>2 DEF EnterCommit, NothingToCommit, NextChunk, EndResend, At, Goto, Op,
                            Working, Got
  <2> QED
    BY <2>1, <2>2
<1> QED
  BY <1>2, <1>3, <1>4, OwnOrderly

LEMMA SendOrderly ==
    ASSUME Shape, Orderly, NEW c \in Client,
           SendLookup(c) \/ SendOpen(c) \/ SendWrite(c) \/ SendCommit(c) \/ SendRelease(c)
    PROVE  Orderly'
<1>1. Working(c) /\ call \in [Client -> Call]
  BY FitTypes DEF Orderly
<1>2. /\ call[c].phase = "none"
      /\ UNCHANGED <<fds, late, fi, op, chunks>>
  BY DEF SendLookup, SendOpen, SendWrite, SendCommit, SendRelease, Send, At, clientVars,
         serverVars
<1>3. \E r : /\ call' = [call EXCEPT ![c] = [phase |-> "sent", req |-> r, rep |-> NoResponse]]
             /\ r.command = "release" => r.fi = fi[c][op[c].slot].fi
  <2>1. \/ SendRelease(c)
        \/ \E r : Send(c, r) /\ r.command # "release"
    <3> DEFINE look == [NoRequest EXCEPT !.command = "lookup", !.name = op[c].file]
               open == [NoRequest EXCEPT !.command = "open", !.fh = Handle(c)]
               write == WriteRequest(op[c].chunk)
    <3>1. /\ look.command = "lookup" /\ open.command = "open" /\ write.command = "write"
          /\ CommitRequest(c).command = "commit"
      BY DEF NoRequest, WriteRequest, CommitRequest
    <3>2. SendRelease(c) \/ Send(c, look) \/ Send(c, open) \/ Send(c, write)
            \/ Send(c, CommitRequest(c))
      BY DEF SendLookup, SendOpen, SendWrite, SendCommit
    <3> HIDE DEF look, open, write
    <3> QED
      BY <3>1, <3>2
  <2>2. CASE SendRelease(c)
    <3> DEFINE r == [NoRequest EXCEPT !.command = "release", !.fh = Handle(c),
                                      !.fi = fi[c][op[c].slot].fi]
    <3>1. Send(c, r) /\ r.fi = fi[c][op[c].slot].fi
      BY <2>2 DEF SendRelease, NoRequest
    <3> HIDE DEF r
    <3> QED
      BY <3>1 DEF Send
  <2> QED
    BY <2>1, <2>2 DEF Send
<1>4. /\ call'[c].phase = "sent" /\ \A b \in Client \ {c} : call'[b] = call[b]
      /\ call'[c].req.command = "release" => call'[c].req.fi = fi[c][op[c].slot].fi
  BY <1>1, <1>3
<1>5. \A s \in Slot, d \in Fd, f \in File : Uses(c, s, d, f)' => Uses(c, s, d, f)
  BY <1>2, <1>4 DEF Uses, Holds, LetGo, Closing, Got, Opening
<1>6. Working(c)'
  BY <1>1, <1>2, <1>4 DEF Working, Got
<1> QED
  BY <1>2, <1>4, <1>5, <1>6, OwnOrderly

\* A chunk takes the descriptor of the slot the write came through.
LEMMA KeepOrderly ==
    ASSUME Shape, Orderly, NEW c \in Client, NEW o \in Offset, KeepChunk(c, o)
    PROVE  Orderly'
<1> DEFINE s == op[c].slot
           k == NewChunk(c, o)
<1>1. /\ op \in [Client -> Op] /\ op[c] \in Op /\ OpFits(c) /\ Working(c)
      /\ chunks \in [Client -> SUBSET Chunk] /\ op[c].slot \in Slot /\ op[c].file \in File
      /\ fi[c][s] \in OpenFile \cup {NoOpen}
  BY FitTypes DEF Orderly
<1>2. /\ call[c].phase = "none" /\ op[c].pc = "write"
      /\ UNCHANGED <<fds, late, fi, call>>
      /\ op' = [op EXCEPT ![c].pc = "send", ![c].chunk = k]
      /\ chunks' = [chunks EXCEPT ![c] = @ \cup {k}]
  BY DEF KeepChunk, At, serverVars
<1>3. \A b \in Client, t \in Slot, d \in Fd, f \in File :
        Uses(b, t, d, f)' <=> Uses(b, t, d, f)
  <2>1. \A b \in Client : /\ op'[b].slot = op[b].slot /\ op'[b].file = op[b].file
                          /\ op'[b].pc = op[b].pc \/ (op[b].pc = "write" /\ op'[b].pc = "send")
    BY <1>1, <1>2 DEF Op
  <2>2. fi' = fi /\ call' = call /\ fds' = fds
    BY <1>2
  <2> SUFFICES ASSUME NEW b \in Client, NEW t \in Slot, NEW d \in Fd, NEW f \in File
               PROVE  Uses(b, t, d, f)' <=> Uses(b, t, d, f)
    OBVIOUS
  <2>3. /\ Holds(b, t)' <=> Holds(b, t)
        /\ Opening(b)' <=> Opening(b)
    BY <2>1, <2>2 DEF Holds, LetGo, Closing, Got, Opening
  <2> QED
    BY <2>1, <2>2, <2>3 DEF Uses
<1>4. /\ k.fi = fi[c][s].fi /\ k.file = fi[c][s].file /\ fi[c][s] # NoOpen
      /\ k.fi \in Fd /\ k.file \in File
  BY <1>1, <1>2 DEF NewChunk, OpFits, Working, OpenFile
<1>5. Uses(c, s, k.fi, k.file)
  BY <1>2, <1>4 DEF Uses, Holds, LetGo, Closing, Got
<1>6. UsesRight' /\ UsesOnce'
  BY <1>2, <1>3 DEF Orderly, UsesRight, UsesOnce
<1>7. ChunksOpen'
  <2> SUFFICES ASSUME NEW b \in Client, NEW m \in chunks'[b]
               PROVE  /\ fds[m.fi] = m.file
                      /\ \A a \in Client, t \in Slot, f \in File : Uses(a, t, m.fi, f)' => a = b
    BY <1>2 DEF ChunksOpen
  <2>1. CASE m \in chunks[b]
    <3>1. /\ m.fi \in Fd /\ fds[m.fi] = m.file
          /\ \A a \in Client, t \in Slot, f \in File : Uses(a, t, m.fi, f) => a = b
      BY <1>1, <2>1 DEF Orderly, ChunksOpen, Chunk
    <3> QED
      BY <1>3, <3>1
  <2>2. CASE m \notin chunks[b]
    <3>1. b = c /\ m = k
      BY <1>1, <1>2, <2>2
    <3>2. s \in Slot /\ fds[k.fi] = k.file
      BY <1>1, <1>4, <1>5 DEF Orderly, UsesRight
    <3>3. \A a \in Client, t \in Slot, f \in File : Uses(a, t, k.fi, f) => a = c
      BY <1>4, <1>5, <3>2 DEF Orderly, UsesOnce
    <3> HIDE DEF k
    <3>4. m.fi \in Fd /\ fds[m.fi] = m.file
      BY <1>4, <3>1, <3>2
    <3>5. \A a \in Client, t \in Slot, f \in File : Uses(a, t, m.fi, f) => a = b
      BY <3>1, <3>3
    <3> QED
      BY <1>3, <3>4, <3>5
  <2> QED
    BY <2>1, <2>2
<1>8. \A b \in Client : Working(b)'
  <2>1. Working(c)'
    BY <1>1, <1>2 DEF Working, Got, Op
  <2>2. \A b \in Client : b # c => op'[b] = op[b]
    BY <1>1, <1>2
  <2> QED
    BY <1>2, <2>1, <2>2, WorkingOthers DEF Orderly
<1> QED
  BY <1>2, <1>6, <1>7, <1>8 DEF Orderly

\* The answer to open fills the slot; the others leave it or empty it.
LEMMA AnswerOrderly ==
    ASSUME Shape, Orderly, NEW c \in Client,
           \/ GotHandle(c) \/ Opened(c) \/ OpenRefused(c) \/ Written(c) \/ Committed(c)
           \/ CommitMissing(c) \/ CommitRefused(c) \/ Released(c) \/ Retry(c)
    PROVE  Orderly'
<1>1. /\ op \in [Client -> Op] /\ op[c] \in Op /\ OpFits(c) /\ CallFits(c) /\ Working(c)
      /\ call \in [Client -> Call] /\ chunks \in [Client -> SUBSET Chunk]
      /\ fi \in [Client -> [Slot -> OpenFile \cup {NoOpen}]]
      /\ op[c].slot \in Slot
  BY FitTypes DEF Orderly
<1>2. /\ call' = [call EXCEPT ![c] = NoCall]
      /\ UNCHANGED <<fds, late>>
  BY DEF GotHandle, Opened, OpenRefused, Written, Committed, CommitMissing, CommitRefused,
         Released, Retry, Answered, serverVars
<1>3. \A s \in Slot : LetGo(c, s) => Closing(c, s)
  BY <1>1 DEF LetGo, Got, CallFits, Closing
<1>4. call'[c].phase = "none" /\ \A b \in Client \ {c} : call'[b] = call[b]
  BY <1>1, <1>2 DEF NoCall
<1>5. IdleOp.pc = "idle"
  BY DEF IdleOp
<1>6. CASE GotHandle(c) \/ Written(c) \/ Committed(c) \/ CommitMissing(c)
  <2>1. /\ fi' = fi /\ \A b \in Client \ {c} : op'[b] = op[b] /\ chunks'[b] = chunks[b]
        /\ chunks'[c] \subseteq chunks[c]
        /\ ~Got(c, "release")
    BY <1>1, <1>6 DEF GotHandle, Written, Committed, CommitMissing, Answered, Got, Goto, Return
  <2>2. \A s \in Slot, d \in Fd, f \in File : Uses(c, s, d, f)' => Uses(c, s, d, f)
    <3>1. \A s \in Slot : Closing(c, s) => Closing(c, s)'
      <4>1. CASE GotHandle(c)
        BY <4>1 DEF GotHandle, Closing
      <4>2. CASE Written(c)
        BY <1>1, <4>2 DEF Written, Answered, CallFits, Goto, Op, Closing
      <4>3. CASE Committed(c) \/ CommitMissing(c)
        BY <1>1, <4>3 DEF Committed, CommitMissing, Goto, Op, Closing
      <4> QED
        BY <1>6, <4>1, <4>2, <4>3
    <3>2. \A s \in Slot : LetGo(c, s) => LetGo(c, s)'
      BY <1>2, <2>1, <3>1 DEF LetGo, Closing
    <3> QED
      BY <1>2, <1>4, <2>1, <3>2 DEF Uses, Holds, Got, Opening
  <2>3. Working(c)'
    <3>1. CASE op'[c] = op[c] \/ op'[c].pc = "idle"
      BY <1>1, <1>4, <2>1, <3>1 DEF Working, Got
    <3>2. CASE op'[c].pc \in {"resend", "close"} /\ op'[c].slot = op[c].slot
               /\ op'[c].file = op[c].file /\ op[c].pc \in {"again", "commit"}
      BY <1>1, <1>4, <2>1, <3>2 DEF Working, Got
    <3>3. CASE GotHandle(c)
      BY <3>1, <3>3 DEF GotHandle
    <3>4. CASE Written(c)
      BY <1>1, <1>5, <3>1, <3>2, <3>4 DEF Written, Goto, Return, Op
    <3>5. CASE Committed(c) \/ CommitMissing(c)
      BY <1>1, <3>2, <3>5 DEF Committed, CommitMissing, Answered, CallFits, Goto, Op
    <3> QED
      BY <1>6, <3>3, <3>4, <3>5
  <2> QED
    BY <1>2, <1>4, <2>1, <2>2, <2>3, OwnOrderly
<1>7. CASE OpenRefused(c) \/ CommitRefused(c) \/ Released(c)
  <2>1. /\ chunks' = chunks /\ op'[c].pc = "idle"
        /\ \A b \in Client \ {c} : op'[b] = op[b] /\ fi'[b] = fi[b]
        /\ \A s \in Slot : \/ fi'[c][s] = NoOpen
                           \/ fi'[c][s] = fi[c][s] /\ ~Closing(c, s)
    <3>1. CASE OpenRefused(c)
      BY <1>1, <1>5, <3>1 DEF OpenRefused, Answered, Return, CallFits, Closing
    <3>2. CASE CommitRefused(c) \/ Released(c)
      BY <1>1, <1>5, <3>2 DEF CommitRefused, Released, Answered, Free, Return, Closing
    <3> QED
      BY <1>7, <3>1, <3>2
  <2>2. \A s \in Slot, d \in Fd, f \in File : Uses(c, s, d, f)' => Uses(c, s, d, f)
    BY <1>3, <1>4, <2>1 DEF Uses, Holds, Got, Opening
  <2>3. Working(c)'
    BY <1>4, <2>1 DEF Working, Got
  <2> QED
    BY <1>2, <1>4, <2>1, <2>2, <2>3, OwnOrderly
<1>8. CASE Opened(c)
  <2>1. /\ chunks' = chunks /\ op'[c].pc = "idle" /\ Opening(c) /\ op[c].pc = "open"
        /\ \A b \in Client \ {c} : op'[b] = op[b] /\ fi'[b] = fi[b]
        /\ \A s \in Slot : fi'[c][s] = IF s = op[c].slot
                                       THEN [file |-> op[c].file, fi |-> call[c].rep.fi]
                                       ELSE fi[c][s]
    BY <1>1, <1>5, <1>8 DEF Opened, Answered, Return, Opening, Got, CallFits
  <2>2. \A s \in Slot, d \in Fd, f \in File : Uses(c, s, d, f)' => Uses(c, s, d, f)
    BY <1>3, <1>4, <2>1 DEF Uses, Holds, Closing, Got, Opening
  <2>3. Working(c)'
    BY <1>4, <2>1 DEF Working, Got
  <2> QED
    BY <1>2, <1>4, <2>1, <2>2, <2>3, OwnOrderly
<1>9. CASE Retry(c)
  <2>1. /\ UNCHANGED <<fi, chunks>> /\ call[c].phase = "failed"
        /\ op'[c].slot = op[c].slot /\ op'[c].file = op[c].file
        /\ \/ op'[c].pc = op[c].pc
           \/ op[c].pc = "close" /\ op'[c].pc = "release"
        /\ \A b \in Client \ {c} : op'[b] = op[b]
    BY <1>1, <1>9 DEF Retry, Goto, CallFits, Op
  <2>2. \A s \in Slot : LetGo(c, s) => LetGo(c, s)'
    BY <1>2, <2>1 DEF LetGo, Got, Closing
  <2>3. \A s \in Slot, d \in Fd, f \in File : Uses(c, s, d, f)' => Uses(c, s, d, f)
    BY <1>4, <2>1, <2>2 DEF Uses, Holds, Got, Opening
  <2>4. Working(c)'
    BY <1>1, <1>4, <2>1 DEF Working, Got
  <2> QED
    BY <1>2, <1>4, <2>1, <2>3, <2>4, OwnOrderly
<1> QED
  BY <1>6, <1>7, <1>8, <1>9

\* The call of client c fails, executed or not, and is not executed later.
Lost(c) ==
    /\ Alone
    /\ call[c].phase \in {"sent", "replied"}
    /\ call' = [call EXCEPT ![c].phase = "failed"]
    /\ UNCHANGED <<serverVars, diskVars, clientVars, late>>

\* A release whose answer is lost has been executed: the slot is let go for good.
LEMMA LostOrderly ==
    ASSUME Shape, Orderly, NEW c \in Client, Lost(c)
    PROVE  Orderly'
<1>1. CallFits(c) /\ Working(c) /\ call \in [Client -> Call] /\ call[c] \in Call
  BY FitTypes DEF Orderly
<1>2. /\ Alone /\ call[c].phase \in {"sent", "replied"}
      /\ UNCHANGED <<fds, op, fi, chunks, late>>
      /\ call'[c].phase = "failed" /\ call'[c].req = call[c].req
      /\ \A b \in Client \ {c} : call'[b] = call[b]
  BY <1>1 DEF Lost, clientVars, serverVars, Call
<1>3. \A s \in Slot : LetGo(c, s) => LetGo(c, s)'
  <2> SUFFICES ASSUME NEW s \in Slot, LetGo(c, s) PROVE LetGo(c, s)'
    OBVIOUS
  <2>1. CASE Got(c, "release")
    BY <1>1, <1>2, <2>1 DEF LetGo, Got, CallFits, Working, Closing
  <2>2. CASE ~Got(c, "release")
    BY <1>2, <2>2 DEF LetGo, Closing
  <2> QED
    BY <2>1, <2>2
<1>4. \A s \in Slot, d \in Fd, f \in File : Uses(c, s, d, f)' => Uses(c, s, d, f)
  BY <1>2, <1>3 DEF Uses, Holds, Got, Opening
<1>5. Working(c)'
  BY <1>1, <1>2 DEF Working, Got
<1> QED
  BY <1>2, <1>4, <1>5, OwnOrderly

LEMMA OrderlyInit == Init => Orderly
<1> SUFFICES ASSUME Init PROVE Orderly
  OBVIOUS
<1>1. \A c \in Client, s \in Slot, d \in Fd, f \in File : ~Uses(c, s, d, f)
  BY DEF Init, Uses, Holds, Opening, Got, NoCall
<1>2. UsesRight /\ UsesOnce
  BY <1>1 DEF UsesRight, UsesOnce
<1>3. ChunksOpen
  BY DEF Init, ChunksOpen
<1>4. \A c \in Client : Working(c)
  BY DEF Init, Working, Got, IdleOp, NoCall
<1> QED
  BY <1>2, <1>3, <1>4 DEF Init, Orderly

\* Nothing fails but calls of the only client.
LEMMA FewFaults ==
    ASSUME MaxCrash = 0, Steady, Shape, Numbered, Orderly
    PROVE  /\ ~ServeLate /\ ~Crash /\ ~Restart
           /\ \A c \in Client : ~Refuse(c) /\ (Fault(c) => Lost(c))
<1>1. faults.crash \in Nat /\ faults.lost \in Nat /\ faults.late \in Nat
  BY DEF Shape, TypeOK, NetworkTypeOK
<1>2. ~ServeLate /\ ~Crash /\ ~Restart /\ \A c \in Client : ~Refuse(c)
  BY <1>1 DEF Crash, CrashBetween, CrashInStore, CrashInCommit, Die, Restart, Refuse,
              ServeLate, Orderly, Numbered
<1>3. ASSUME NEW c \in Client, LoseRequest(c)
      PROVE  Lost(c)
  BY <1>1, <1>3 DEF Steady, LoseRequest, Lost
<1>4. ASSUME NEW c \in Client, LoseReply(c)
      PROVE  Lost(c)
  BY <1>1, <1>4 DEF Steady, LoseReply, Lost
<1> QED
  BY <1>2, <1>3, <1>4 DEF Fault

LEMMA FaultFree ==
    ASSUME MaxCrash = 0, MaxLost = 0, Shape, Numbered, Orderly
    PROVE  /\ ~ServeLate /\ ~Crash /\ ~Restart
           /\ \A c \in Client : ~Refuse(c) /\ ~Fault(c)
<1>1. faults.lost \in Nat /\ Steady
  BY DEF Shape, TypeOK, NetworkTypeOK, Steady
<1>2. \A c \in Client : ~Fault(c)
  BY <1>1 DEF Fault, LoseRequest, LoseReply
<1> QED
  BY <1>1, <1>2, FewFaults

LEMMA OrderlyStep ==
    ASSUME MaxCrash = 0, Steady
    PROVE  Shape /\ Numbered /\ Orderly /\ [Next]_vars => Orderly'
<1> SUFFICES ASSUME Shape, Numbered, Orderly, [Next]_vars PROVE Orderly'
  OBVIOUS
<1>1. CASE UNCHANGED vars
  BY <1>1 DEF vars, serverVars, clientVars, Orderly, UsesRight, UsesOnce, ChunksOpen, Uses,
              Holds, LetGo, Closing, Opening, Got, Working
<1>2. ASSUME NEW c \in Client, Begin(c) \/ Proceed(c)
      PROVE  Orderly'
  BY <1>2, LocalOrderly, SendOrderly, KeepOrderly, AnswerOrderly DEF Proceed
<1>3. /\ ~ServeLate /\ ~Crash /\ ~Restart
      /\ \A c \in Client : ~Refuse(c) /\ (Fault(c) => Lost(c))
  BY FewFaults
<1> QED
  BY <1>1, <1>2, <1>3, ServeOrderly, LostOrderly DEF Next

LEMMA OrderlyInvariant ==
    ASSUME MaxCrash = 0, Steady
    PROVE  Spec => []Orderly
<1>1. Shape /\ Numbered /\ Orderly /\ [Next]_vars => Orderly'
  BY OrderlyStep
<1>2. Spec => []Numbered
  BY NumberedInvariant
<1> QED
  BY <1>1, <1>2, OrderlyInit, ShapeInvariant, PTL DEF Spec

\* If the server does not crash, and no call is lost or there is only one client, the
\* descriptor that a client keeps with an open file or with a chunk is open on the
\* server, on the same file, until client_release lets go of it, although the server
\* hands every descriptor that is closed to the next one who opens, although a release
\* is repeated until it is answered, and whatever pwrite refuses.
THEOREM DescriptorsLive ==
    ASSUME MaxCrash = 0, Steady
    PROVE  Spec => []FdsLive
<1>1. Shape /\ Orderly => FdsLive
  <2> SUFFICES ASSUME Shape, Orderly PROVE FdsLive
    OBVIOUS
  <2>1. ASSUME NEW c \in Client, NEW s \in Slot, fi[c][s] # NoOpen, ~Closing(c, s)
        PROVE  fds[fi[c][s].fi] = fi[c][s].file
    <3>1. CallFits(c) /\ fi[c][s] \in OpenFile
      BY <2>1, FitTypes
    <3>2. Holds(c, s)
      BY <2>1, <3>1 DEF Holds, LetGo, Got, Closing, CallFits
    <3>3. fi[c][s].fi \in Fd /\ fi[c][s].file \in File
      BY <3>1 DEF OpenFile
    <3>4. Uses(c, s, fi[c][s].fi, fi[c][s].file)
      BY <3>2 DEF Uses
    <3> QED
      BY <3>3, <3>4 DEF Orderly, UsesRight
  <2> QED
    BY <2>1 DEF FdsLive, Orderly, ChunksOpen
<1> QED
  BY <1>1, ShapeInvariant, OrderlyInvariant, PTL


-----------------------------------------------------------------------------
(* Data goes to the file it was written to.                                 *)

\* k is no other copy of a write that the client still has a chunk of.
Copy(k) == \A e \in chunks[k.id[1]] : e.id = k.id => e = k

Copies ==
    /\ \A g \in Gen : \A i \in 1 .. Len(cache[g]) : Copy(cache[g][i])
    /\ \A c \in Client : \A k \in chunks[c] : Copy(k)
    /\ \A c \in Client :
         (call[c].phase = "sent" /\ call[c].req.command = "write") => Copy(call[c].req.chunk)

\* A new chunk has a new number.
LEMMA CopyStays ==
    ASSUME Shape, [Next]_vars, NEW k, Issued(k), Copy(k)
    PROVE  Copy(k)'
<1>1. /\ chunks \in [Client -> SUBSET Chunk] /\ drawn \in [Client -> Nat]
      /\ k.id[1] \in Client /\ k.id[2] \in Nat /\ k.id[2] <= drawn[k.id[1]]
  BY GenOfType DEF Shape, TypeOK, ClientTypeOK, Issued
<1>2. CASE UNCHANGED chunks
  BY <1>2 DEF Copy
<1>3. ASSUME NEW c \in Client, NEW o \in Offset, KeepChunk(c, o)
      PROVE  Copy(k)'
  <2> DEFINE m == NewChunk(c, o)
  <2>1. chunks' = [chunks EXCEPT ![c] = @ \cup {m}] /\ m.id = <<c, drawn[c] + 1>>
    BY <1>3 DEF KeepChunk, NewChunk
  <2>2. k.id[1] = c => m.id # k.id
    BY <1>1, <2>1
  <2> HIDE DEF m
  <2>3. \A e \in chunks'[k.id[1]] : e \in chunks[k.id[1]] \/ (k.id[1] = c /\ e = m)
    BY <1>1, <2>1
  <2> QED
    BY <2>2, <2>3 DEF Copy
<1>4. ASSUME NEW c \in Client, Committed(c)
      PROVE  Copy(k)'
  <2>1. chunks' = [chunks EXCEPT ![c] = @ \ Dirty(c)]
    BY <1>4 DEF Committed
  <2> QED
    BY <1>1, <2>1 DEF Copy
<1> QED
  BY <1>2, <1>3, <1>4, NextStepKind DEF StepKind

\* What a handler does to the vector and to the disk.
LEMMA ServeStores ==
    ASSUME Shape, Numbered, NEW c \in Client, ServeCall(c), NEW r, r = call[c].req
    PROVE  \/ UNCHANGED <<cache, disk, stable>>
           \/ /\ r.command = "write"
              /\ cache' = [cache EXCEPT ![GenOf(r.chunk)] = Append(@, r.chunk)]
              /\ UNCHANGED <<disk, stable>>
           \/ /\ r.command = "commit"
              /\ \E done \in SUBSET Hits(r) :
                   Pwrite(r, done) /\ cache' = Erased(r, done)
<1>1. Serve(c, r, TRUE)
  BY DEF ServeCall
<1>2. CASE \/ ServeLookup(c, r, TRUE) \/ ServeUnresolved(c, r, TRUE) \/ ServeOpen(c, r, TRUE)
           \/ ServeOpenFails(c, r, TRUE) \/ ServeRelease(c, r, TRUE)
           \/ ServeCommitThrows(c, r, TRUE) \/ ServeCommitNotReady(c, r, TRUE)
  BY <1>2 DEF ServeLookup, ServeUnresolved, ServeOpen, ServeOpenFails, ServeRelease,
              ServeCommitThrows, ServeCommitNotReady
<1>3. CASE ServeWrite(c, r, TRUE)
  BY <1>3 DEF ServeWrite
<1>4. CASE ServeCommit(c, r, TRUE)
  BY <1>4 DEF ServeCommit
<1>5. CASE ServeCommitFails(c, r, TRUE)
  <2>1. PICK n \in Hits(r) : Pwrite(r, Before(r, n)) /\ cache' = Erased(r, Before(r, n))
    BY <1>5 DEF ServeCommitFails
  <2>2. Before(r, n) \in SUBSET Hits(r)
    BY DEF Before
  <2> QED
    BY <1>5, <2>1, <2>2 DEF ServeCommitFails
<1> QED
  BY <1>1, <1>2, <1>3, <1>4, <1>5 DEF Serve

\* With distinct draws a commit takes the client's own dirty chunks, each at its number.
LEMMA HitIsDirty ==
    ASSUME DrawsDistinct, Shape, Copies, NEW c \in Client, CommitFits(c),
           call[c].phase = "sent", call[c].req.command = "commit",
           NEW n \in Hits(call[c].req)
    PROVE  Hit(call[c].req, n) \in Dirty(c) /\ Hit(call[c].req, n).id = <<c, n>>
<1> DEFINE r == call[c].req
           h == Hit(r, n)
<1>1. r \in Request /\ ServerTypeOK
  BY DEF Shape, TypeOK, NetworkTypeOK, Call
<1>2. n \in DOMAIN r.gens /\ r.gens = [m \in {k.id[2] : k \in Dirty(c)} |-> Draw[c][m]]
  BY DEF CommitFits, Hits
<1>3. PICK k \in Dirty(c) : n = k.id[2]
  BY <1>2
<1>4. k \in Chunk /\ k.id[1] = c /\ k \in chunks[c]
  BY DEF Dirty, Shape, TypeOK, ClientTypeOK, ClientShape
<1>5. k.id = <<c, n>> /\ n \in 1 .. Len(Draw[c]) /\ r.gens[n] = Draw[c][n]
  BY <1>2, <1>3, <1>4, GenOfType
<1>6. /\ r.gens[n] \in Gen /\ Rank(r, n) \in 1 .. Len(cache[r.gens[n]])
      /\ h = cache[r.gens[n]][Rank(r, n)] /\ h \in Chunk
  <2> HIDE DEF r
  <2> QED
    BY <1>1, HitInCache DEF r
<1>7. GenOf(h) = Draw[c][n] /\ Copy(h)
  BY <1>5, <1>6 DEF Shape, CacheShape, Copies
<1> HIDE DEF r, h
<1>8. h.id = <<c, n>>
  BY <1>5, <1>6, <1>7, GenIdentifies
<1>9. k = h
  BY <1>4, <1>5, <1>7, <1>8 DEF Copy
<1> QED
  BY <1>3, <1>8, <1>9 DEF r, h

LEMMA CopiesInit == Init => Copies
BY DEF Init, Copies, NoCall

\* Copies that were there before stay so, and so do new chunks.
LEMMA CopiesFrame ==
    ASSUME Shape, Copies, [Next]_vars,
           \A g \in Gen : \A i \in 1 .. Len(cache'[g]) :
               Issued(cache'[g][i]) /\ Copy(cache'[g][i]),
           \A c \in Client :
               (call'[c].phase = "sent" /\ call'[c].req.command = "write") =>
                   Issued(call'[c].req.chunk) /\ Copy(call'[c].req.chunk)
    PROVE  Copies'
<1>1. /\ chunks \in [Client -> SUBSET Chunk] /\ drawn \in [Client -> Nat]
      /\ \A c \in Client : \A k \in chunks[c] : Issued(k) /\ Copy(k) /\ k.id[2] <= drawn[c]
  BY DEF Shape, TypeOK, ClientTypeOK, ClientShape, Issued, Copies
<1>2. ASSUME NEW g \in Gen, NEW i \in 1 .. Len(cache'[g]), NEW k, k = cache'[g][i]
      PROVE  Copy(k)'
  BY <1>2, CopyStays
<1>3. ASSUME NEW c \in Client, NEW k, k = call'[c].req.chunk,
             call'[c].phase = "sent", call'[c].req.command = "write"
      PROVE  Copy(k)'
  BY <1>3, CopyStays
<1>4. ASSUME NEW c \in Client, NEW k \in chunks'[c]
      PROVE  Copy(k)'
  <2>1. CASE k \in chunks[c]
    BY <1>1, <2>1, CopyStays
  <2>2. CASE k \notin chunks[c]
    <3>1. PICK d \in Client, o \in Offset : KeepChunk(d, o)
      <4>1. ~UNCHANGED chunks /\ \A d \in Client : ~Committed(d)
        BY <1>1, <2>2 DEF Committed
      <4> QED
        BY <4>1, NextStepKind DEF StepKind
    <3> DEFINE m == NewChunk(d, o)
    <3>2. chunks' = [chunks EXCEPT ![d] = @ \cup {m}] /\ m.id = <<d, drawn[d] + 1>>
      BY <3>1 DEF KeepChunk, NewChunk
    <3> HIDE DEF m
    <3>3. c = d /\ k = m /\ k.id[1] = d /\ chunks'[d] = chunks[d] \cup {k}
      BY <1>1, <2>2, <3>2
    <3>4. ASSUME NEW e \in chunks[d] PROVE e.id # k.id
      <4>1. e.id[2] <= drawn[d] /\ drawn[d] \in Nat /\ k.id[2] = drawn[d] + 1
        BY <1>1, <3>2, <3>3
      <4>2. e.id[2] \in Nat
        BY <1>1, GenOfType
      <4> QED
        BY <4>1, <4>2
    <3> QED
      BY <3>3, <3>4 DEF Copy
  <2> QED
    BY <2>1, <2>2
<1> QED
  BY <1>2, <1>3, <1>4 DEF Copies

LEMMA CopiesStep ==
    ASSUME MaxCrash = 0, Steady
    PROVE  Shape /\ Numbered /\ Orderly /\ Copies /\ [Next]_vars => Copies'
<1> SUFFICES ASSUME Shape, Numbered, Orderly, Copies, [Next]_vars PROVE Copies'
  OBVIOUS
<1>1. /\ call \in [Client -> Call] /\ chunks \in [Client -> SUBSET Chunk]
      /\ cache \in [Gen -> Seq(Chunk)] /\ op \in [Client -> Op]
      /\ \A c \in Client : call[c].phase # "none" => RequestFits(call[c].req)
  BY DEF Shape, TypeOK, NetworkTypeOK, ClientTypeOK, ServerTypeOK, ClientShape, CallFits
<1>2. \A g \in Gen : \A i \in 1 .. Len(cache[g]) : Issued(cache[g][i]) /\ Copy(cache[g][i])
  BY DEF Shape, CacheShape, Copies
<1>3. ASSUME NEW c \in Client, call[c].phase = "sent", call[c].req.command = "write"
      PROVE  Issued(call[c].req.chunk) /\ Copy(call[c].req.chunk)
  BY <1>1, <1>3 DEF Copies, RequestFits
<1>4. CASE UNCHANGED <<cache, call>>
  BY <1>2, <1>3, <1>4, CopiesFrame
<1>5. ASSUME UNCHANGED cache, NEW c \in Client, NEW u, call' = [call EXCEPT ![c] = u],
             (u.phase = "sent" /\ u.req.command = "write") =>
                 Issued(u.req.chunk) /\ Copy(u.req.chunk)
      PROVE  Copies'
  <2>1. \A d \in Client : call'[d] = call[d] \/ call'[d] = u
    BY <1>1, <1>5
  <2> QED
    BY <1>2, <1>3, <1>5, <2>1, CopiesFrame
<1>6. ASSUME NEW c \in Client, SendWrite(c)
      PROVE  Copies'
  <2> DEFINE k == op[c].chunk
             u == [phase |-> "sent", req |-> WriteRequest(k), rep |-> NoResponse]
  <2>1. call' = [call EXCEPT ![c] = u] /\ UNCHANGED cache
    BY <1>6 DEF SendWrite, Send, serverVars
  <2>2. u.req.chunk = k
    BY DEF WriteRequest, NoRequest
  <2>3. k \in chunks[c]
    BY <1>6 DEF SendWrite, At, Shape, ClientShape, OpFits
  <2>4. Issued(k) /\ Copy(k)
    BY <1>1, <2>3 DEF Issued, Copies, Shape, ClientShape
  <2> HIDE DEF k, u
  <2> QED
    BY <1>5, <2>1, <2>2, <2>4
<1>7. ASSUME NEW c \in Client, NEW r, Send(c, r), r.command # "write"
      PROVE  Copies'
  BY <1>5, <1>7 DEF Send, serverVars
<1>8. ASSUME NEW c \in Client,
             SendLookup(c) \/ SendOpen(c) \/ SendCommit(c) \/ SendRelease(c)
      PROVE  Copies'
  BY <1>7, <1>8 DEF SendLookup, SendOpen, SendCommit, SendRelease, CommitRequest, NoRequest
<1>9. ASSUME NEW c \in Client, Begin(c) \/ Proceed(c)
      PROVE  Copies'
  <2>1. CASE \/ Begin(c) \/ EnterCommit(c) \/ NothingToCommit(c) \/ NextChunk(c) \/ EndResend(c)
             \/ \E o \in Offset : KeepChunk(c, o)
    BY <1>4, <2>1 DEF Begin, StartOpen, StartWrite, StartRelease, Start, EnterCommit,
                      NothingToCommit, NextChunk, EndResend, KeepChunk, serverVars
  <2>2. CASE \/ GotHandle(c) \/ Opened(c) \/ OpenRefused(c) \/ Written(c) \/ Committed(c)
             \/ CommitMissing(c) \/ CommitRefused(c) \/ Released(c) \/ Retry(c)
    <3>1. call' = [call EXCEPT ![c] = NoCall] /\ UNCHANGED cache
      BY <2>2 DEF GotHandle, Opened, OpenRefused, Written, Committed, CommitMissing,
                  CommitRefused, Released, Retry, Answered, serverVars
    <3> QED
      BY <1>5, <3>1 DEF NoCall
  <2> QED
    BY <1>6, <1>8, <1>9, <2>1, <2>2 DEF Proceed
<1>10. ASSUME NEW c \in Client, ServeCall(c)
       PROVE  Copies'
  <2> DEFINE r == call[c].req
  <2>1. r \in Request /\ RequestFits(r) /\ call[c].phase = "sent" /\ ServerTypeOK
    BY <1>1, <1>10 DEF ServeCall, Call, Shape, TypeOK
  <2>2. \A d \in Client : call'[d].phase = "sent" => call'[d] = call[d]
    <3>1. PICK rep : call' = [call EXCEPT ![c] = [phase |-> "replied", req |-> r, rep |-> rep]]
      BY <1>10, ServeKinds
    <3> QED
      BY <1>1, <3>1
  <2>3. \A d \in Client :
               (call'[d].phase = "sent" /\ call'[d].req.command = "write") =>
                   Issued(call'[d].req.chunk) /\ Copy(call'[d].req.chunk)
    BY <1>3, <2>2
  <2>4. ASSUME NEW k, k = r.chunk, r.command = "write",
               cache' = [cache EXCEPT ![GenOf(k)] = Append(@, k)]
        PROVE  Copies'
    <3>1. Issued(k) /\ Copy(k) /\ GenOf(k) \in Gen /\ k \in Chunk
      BY <1>3, <2>1, <2>4, GenOfType DEF Issued
    <3>2. ASSUME NEW g \in Gen, NEW i \in 1 .. Len(cache'[g])
          PROVE  Issued(cache'[g][i]) /\ Copy(cache'[g][i])
      <4>1. cache[g] \in Seq(Chunk)
        BY <1>1
      <4>2. CASE g # GenOf(k)
        BY <1>1, <1>2, <2>4, <4>2
      <4>3. CASE g = GenOf(k)
        <5>1. cache'[g] = Append(cache[g], k)
          BY <1>1, <2>4, <4>3
        <5>2. cache'[g][i] = k \/ (i \in 1 .. Len(cache[g]) /\ cache'[g][i] = cache[g][i])
          BY <3>1, <4>1, <5>1
        <5> QED
          BY <1>2, <3>1, <5>2
      <4> QED
        BY <4>2, <4>3
    <3> QED
      BY <2>3, <3>2, CopiesFrame
  <2>5. ASSUME NEW done \in SUBSET Hits(r), cache' = Erased(r, done)
        PROVE  Copies'
    <3>1. \A g \in Gen : \A i \in 1 .. Len(Erased(r, done)[g]) :
             \E j \in 1 .. Len(cache[g]) : Erased(r, done)[g][i] = cache[g][j]
      <4> HIDE DEF r
      <4> QED
        BY <2>1, ErasedFact
    <3> QED
      BY <1>2, <2>3, <2>5, <3>1, CopiesFrame
  <2>6. CASE UNCHANGED cache
    BY <1>2, <2>3, <2>6, CopiesFrame
  <2> QED
    BY <1>10, <2>4, <2>5, <2>6, ServeStores
<1>11. CASE UNCHANGED vars
  BY <1>4, <1>11 DEF vars, serverVars
<1>12. ASSUME NEW c \in Client, Lost(c)
       PROVE  Copies'
  <2> DEFINE u == [call[c] EXCEPT !.phase = "failed"]
  <2>1. call' = [call EXCEPT ![c] = u] /\ UNCHANGED cache
    BY <1>12 DEF Lost, serverVars
  <2>2. u.phase # "sent"
    BY <1>1 DEF Call
  <2> HIDE DEF u
  <2> QED
    BY <1>5, <2>1, <2>2
<1>13. /\ ~ServeLate /\ ~Crash /\ ~Restart
       /\ \A c \in Client : ~Refuse(c) /\ (Fault(c) => Lost(c))
  BY FewFaults
<1> QED
  BY <1>9, <1>10, <1>11, <1>12, <1>13 DEF Next

LEMMA CopiesInvariant ==
    ASSUME MaxCrash = 0, Steady
    PROVE  Spec => []Copies
<1>1. Shape /\ Numbered /\ Orderly /\ Copies /\ [Next]_vars => Copies'
  BY CopiesStep
<1>2. Spec => []Numbered
  BY NumberedInvariant
<1>3. Spec => []Orderly
  BY OrderlyInvariant
<1> QED
  BY <1>1, <1>2, <1>3, CopiesInit, ShapeInvariant, PTL DEF Spec

\* A client does nothing to the server's state.
LEMMA OwnDisk ==
    ASSUME NEW c \in Client, Begin(c) \/ Proceed(c)
    PROVE  UNCHANGED <<serverVars, diskVars>>
<1>1. CASE \/ Begin(c) \/ EnterCommit(c) \/ NothingToCommit(c) \/ NextChunk(c) \/ EndResend(c)
           \/ \E o \in Offset : KeepChunk(c, o)
  BY <1>1 DEF Begin, StartOpen, StartWrite, StartRelease, Start, EnterCommit,
              NothingToCommit, NextChunk, EndResend, KeepChunk
<1>2. CASE SendLookup(c) \/ SendOpen(c) \/ SendWrite(c) \/ SendCommit(c) \/ SendRelease(c)
  BY <1>2 DEF SendLookup, SendOpen, SendWrite, SendCommit, SendRelease, Send
<1>3. CASE \/ GotHandle(c) \/ Opened(c) \/ OpenRefused(c) \/ Written(c) \/ Committed(c)
           \/ CommitMissing(c) \/ CommitRefused(c) \/ Released(c) \/ Retry(c)
  BY <1>3 DEF GotHandle, Opened, OpenRefused, Written, Committed, CommitMissing,
              CommitRefused, Released, Retry, Answered
<1> QED
  BY <1>1, <1>2, <1>3 DEF Proceed

LEMMA RightFileStep ==
    ASSUME DrawsDistinct, MaxCrash = 0, Steady
    PROVE  IInv /\ Numbered /\ Orderly /\ Copies /\ RightFile /\ [Next]_vars => RightFile'
<1> SUFFICES ASSUME IInv, Numbered, Orderly, Copies, RightFile, [Next]_vars
             PROVE  RightFile'
  OBVIOUS
<1>1. Shape /\ \A c \in Client : CommitFits(c)
  BY DEF IInv, Safe
<1>2. CASE UNCHANGED stable
  BY <1>2 DEF RightFile
<1>3. ASSUME NEW c \in Client, Begin(c) \/ Proceed(c)
      PROVE  RightFile'
  BY <1>2, <1>3, OwnDisk DEF diskVars
<1>4. ASSUME NEW c \in Client, ServeCall(c)
      PROVE  RightFile'
  <2> DEFINE r == call[c].req
  <2>1. ASSUME NEW done \in SUBSET Hits(r), r.command = "commit", Pwrite(r, done)
        PROVE  RightFile'
    <3> SUFFICES ASSUME NEW s \in stable' PROVE s.on = s.to
      BY DEF RightFile
    <3>1. CASE s \in stable
      BY <3>1 DEF RightFile
    <3>2. CASE s \notin stable
      <4>1. PICK n \in done :
              s = [id |-> Hit(r, n).id, to |-> Hit(r, n).file, on |-> fds[Hit(r, n).fi]]
        BY <2>1, <3>2 DEF Pwrite
      <4>2. Hit(r, n) \in Dirty(c)
        BY <1>1, <1>4, <2>1, HitIsDirty DEF ServeCall
      <4>3. fds[Hit(r, n).fi] = Hit(r, n).file
        BY <4>2 DEF Orderly, ChunksOpen, Dirty
      <4> QED
        BY <4>1, <4>3
    <3> QED
      BY <3>1, <3>2
  <2> QED
    BY <1>1, <1>2, <1>4, <2>1, ServeStores
<1>5. CASE UNCHANGED vars
  BY <1>2, <1>5 DEF vars, diskVars
<1>6. /\ ~ServeLate /\ ~Crash /\ ~Restart
      /\ \A c \in Client : ~Refuse(c) /\ (Fault(c) => Lost(c))
  BY <1>1, FewFaults
<1>7. ASSUME NEW c \in Client, Lost(c)
      PROVE  RightFile'
  BY <1>2, <1>7 DEF Lost, diskVars
<1> QED
  BY <1>3, <1>4, <1>5, <1>6, <1>7 DEF Next

\* If no gen is drawn twice, the server does not crash, and no call is lost or there is
\* only one client, commit pwrites every Write to the file the application wrote it
\* to, although the Write only has the number that open(2) returned at the time.
THEOREM WritesGoRight ==
    ASSUME DrawsDistinct, MaxCrash = 0, Steady
    PROVE  Spec => []RightFile
<1>1. IInv /\ Numbered /\ Orderly /\ Copies /\ RightFile /\ [Next]_vars => RightFile'
  BY RightFileStep
<1>2. Init => RightFile
  BY DEF Init, RightFile
<1>3. Spec => []IInv
  BY IInvInvariant
<1>4. Spec => []Numbered
  BY NumberedInvariant
<1>5. Spec => []Orderly
  BY OrderlyInvariant
<1>6. Spec => []Copies
  BY CopiesInvariant
<1> QED
  BY <1>1, <1>2, <1>3, <1>4, <1>5, <1>6, PTL DEF Spec


-----------------------------------------------------------------------------
(* Nothing is left over, if no pwrite fails either.                         *)

\* The commit of client c is acknowledged; its write has not been executed yet.
Acked(c) == Got(c, "commit")
Unsent(c) == op[c].pc = "send" /\ call[c].phase # "replied"

\* The server should have a copy of chunk k of client c, and that is all it has.
Due(c, k) ==
    /\ k \in chunks[c]
    /\ ~(Acked(c) /\ k \in Dirty(c))
    /\ ~(Unsent(c) /\ k = op[c].chunk)

VectorTidy ==
    /\ \A g \in Gen : \/ cache[g] = <<>>
                      \/ \E c \in Client : \E k \in chunks[c] :
                           Due(c, k) /\ GenOf(k) = g /\ cache[g] = <<k>>
    /\ \A c \in Client : \A k \in chunks[c] : Due(c, k) => cache[GenOf(k)] = <<k>>

\* No call fails; no client resends, for no commit is refused; the write it sends is of the chunk it
\* has drawn.
Answers(c) ==
    /\ call[c].phase # "failed"
    /\ op[c].pc \notin {"resend", "again"}
    /\ (call[c].phase # "none" /\ call[c].req.command = "write") =>
         call[c].req.chunk = op[c].chunk
    /\ Got(c, "commit") => call[c].rep.success = 0

FdsTidy ==
    \A d \in Fd : fds[d] # NoPath => \E c \in Client, s \in Slot, f \in File : Uses(c, s, d, f)

Tidy == VectorTidy /\ FdsTidy /\ \A c \in Client : Answers(c)

LEMMA TidyInit == Init => Tidy
BY DEF Init, Tidy, VectorTidy, FdsTidy, Answers, Got, IdleOp, NoCall

\* A step of client c that changes neither what is due nor what is in use.
LEMMA OwnTidy ==
    ASSUME Shape, Tidy, NEW c \in Client, UNCHANGED <<fds, cache>>,
           \A b \in Client \ {c} : /\ op'[b] = op[b] /\ fi'[b] = fi[b] /\ call'[b] = call[b]
                                   /\ chunks'[b] = chunks[b],
           \A k : Due(c, k)' <=> Due(c, k),
           \A s \in Slot, d \in Fd, f \in File :
               Uses(c, s, d, f) /\ fds[d] # NoPath => Uses(c, s, d, f)',
           Answers(c)'
    PROVE  Tidy'
<1>1. \A b \in Client : \A k : Due(b, k)' <=> Due(b, k)
  BY DEF Due, Acked, Unsent, Got, Dirty
<1>2. VectorTidy'
  <2>1. ASSUME NEW g \in Gen, cache[g] # <<>>
        PROVE  \E b \in Client : \E k \in chunks'[b] :
                   Due(b, k)' /\ GenOf(k) = g /\ cache[g] = <<k>>
    <3>1. PICK b \in Client : \E k \in chunks[b] :
            Due(b, k) /\ GenOf(k) = g /\ cache[g] = <<k>>
      BY <2>1 DEF Tidy, VectorTidy
    <3>2. PICK k \in chunks[b] : Due(b, k) /\ GenOf(k) = g /\ cache[g] = <<k>>
      BY <3>1
    <3>3. Due(b, k)' /\ k \in chunks'[b]
      BY <1>1, <3>2 DEF Due
    <3> QED
      BY <3>2, <3>3
  <2>2. ASSUME NEW b \in Client, NEW k \in chunks'[b], Due(b, k)'
        PROVE  cache[GenOf(k)] = <<k>>
    <3>1. Due(b, k) /\ k \in chunks[b]
      BY <1>1, <2>2 DEF Due
    <3> QED
      BY <3>1 DEF Tidy, VectorTidy
  <2>3. \A k : GenOf(k)' = GenOf(k)
    BY DEF GenOf
  <2> QED
    BY <2>1, <2>2, <2>3 DEF VectorTidy
<1>3. FdsTidy'
  <2>1. \A b \in Client, s \in Slot, d \in Fd, f \in File :
          Uses(b, s, d, f) /\ fds[d] # NoPath => Uses(b, s, d, f)'
    BY UsesOfOthers
  <2> QED
    BY <2>1 DEF Tidy, FdsTidy
<1>4. \A b \in Client : Answers(b)'
  BY DEF Tidy, Answers, Got
<1> QED
  BY <1>2, <1>3, <1>4 DEF Tidy

LEMMA LocalTidy ==
    ASSUME Shape, Tidy, NEW c \in Client,
           Begin(c) \/ EnterCommit(c) \/ NothingToCommit(c) \/ NextChunk(c) \/ EndResend(c)
    PROVE  Tidy'
<1>1. /\ op \in [Client -> Op] /\ op[c] \in Op /\ Answers(c)
  BY FitTypes DEF Tidy
<1>2. ~NextChunk(c) /\ ~EndResend(c)
  BY <1>1 DEF NextChunk, EndResend, At, Answers
<1>3. /\ call[c].phase = "none" /\ UNCHANGED <<fds, cache, fi, call, chunks>>
      /\ \A b \in Client \ {c} : op'[b] = op[b]
      /\ op[c].pc # "send"
      /\ op'[c].pc \notin {"send", "resend", "again"}
  <2>1. CASE Begin(c)
    <3>1. \E pc \in {"open", "write", "release"}, s \in Slot : \E f : Start(c, pc, s, f)
      BY <2>1 DEF Begin, StartOpen, StartWrite, StartRelease
    <3> QED
      BY <1>1, <3>1 DEF Start, At, serverVars, Op
  <2>2. CASE EnterCommit(c) \/ NothingToCommit(c)
    BY <1>1, <2>2 DEF EnterCommit, NothingToCommit, At, Goto, serverVars, Op
  <2> QED
    BY <1>2, <2>1, <2>2
<1>4. \A k : Due(c, k)' <=> Due(c, k)
  BY <1>3 DEF Due, Acked, Unsent, Got
<1>5. \A s \in Slot, d \in Fd, f \in File :
        Uses(c, s, d, f) /\ fds[d] # NoPath => Uses(c, s, d, f)'
  BY <1>3 DEF Uses, Holds, LetGo, Got, Opening
<1>6. Answers(c)'
  BY <1>3 DEF Answers, Got
<1> QED
  BY <1>3, <1>4, <1>5, <1>6, OwnTidy

LEMMA SendTidy ==
    ASSUME Shape, Tidy, NEW c \in Client,
           SendLookup(c) \/ SendOpen(c) \/ SendWrite(c) \/ SendCommit(c) \/ SendRelease(c)
    PROVE  Tidy'
<1>1. call \in [Client -> Call] /\ Answers(c)
  BY FitTypes DEF Tidy
<1>2. /\ call[c].phase = "none"
      /\ UNCHANGED <<fds, cache, fi, op, chunks>>
  BY DEF SendLookup, SendOpen, SendWrite, SendCommit, SendRelease, Send, At, clientVars,
         serverVars
<1>3. /\ call'[c].phase = "sent" /\ \A b \in Client \ {c} : call'[b] = call[b]
      /\ call'[c].req.command = "write" => call'[c].req.chunk = op[c].chunk
  <2> DEFINE look == [NoRequest EXCEPT !.command = "lookup", !.name = op[c].file]
             open == [NoRequest EXCEPT !.command = "open", !.fh = Handle(c)]
             write == WriteRequest(op[c].chunk)
             close == [NoRequest EXCEPT !.command = "release", !.fh = Handle(c),
                                        !.fi = fi[c][op[c].slot].fi]
  <2>1. /\ look.command # "write" /\ open.command # "write" /\ close.command # "write"
        /\ CommitRequest(c).command # "write" /\ write.chunk = op[c].chunk
    BY DEF NoRequest, WriteRequest, CommitRequest
  <2>2. \/ Send(c, look) \/ Send(c, open) \/ Send(c, write) \/ Send(c, close)
        \/ Send(c, CommitRequest(c))
    BY DEF SendLookup, SendOpen, SendWrite, SendCommit, SendRelease
  <2> HIDE DEF look, open, write, close
  <2>3. \E r : Send(c, r) /\ (r.command = "write" => r.chunk = op[c].chunk)
    BY <2>1, <2>2
  <2> QED
    BY <1>1, <2>3 DEF Send
<1>4. \A k : Due(c, k)' <=> Due(c, k)
  BY <1>2, <1>3 DEF Due, Acked, Unsent, Got
<1>5. \A s \in Slot, d \in Fd, f \in File :
        Uses(c, s, d, f) /\ fds[d] # NoPath => Uses(c, s, d, f)'
  BY <1>2, <1>3 DEF Uses, Holds, LetGo, Got, Opening
<1>6. Answers(c)'
  BY <1>1, <1>2, <1>3 DEF Answers, Got
<1> QED
  BY <1>2, <1>3, <1>4, <1>5, <1>6, OwnTidy

\* A new chunk is due once its write has been executed.
LEMMA KeepTidy ==
    ASSUME Shape, Tidy, NEW c \in Client, NEW o \in Offset, KeepChunk(c, o)
    PROVE  Tidy'
<1> DEFINE k == NewChunk(c, o)
<1>1. /\ op \in [Client -> Op] /\ op[c] \in Op /\ Answers(c)
      /\ chunks \in [Client -> SUBSET Chunk] /\ drawn[c] \in Nat
      /\ \A m \in chunks[c] : m.id[2] <= drawn[c] /\ m.id[2] \in Nat
  BY FitTypes, GenOfType DEF Tidy, Shape, ClientShape, TypeOK, ClientTypeOK
<1>2. /\ call[c].phase = "none" /\ op[c].pc = "write" /\ UNCHANGED <<fds, cache, fi, call>>
      /\ op' = [op EXCEPT ![c].pc = "send", ![c].chunk = k]
      /\ chunks' = [chunks EXCEPT ![c] = @ \cup {k}]
      /\ k.id = <<c, drawn[c] + 1>>
  BY DEF KeepChunk, At, serverVars, NewChunk
<1> HIDE DEF k
<1>3. /\ op'[c].pc = "send" /\ op'[c].chunk = k /\ chunks'[c] = chunks[c] \cup {k}
      /\ op'[c].slot = op[c].slot /\ op'[c].file = op[c].file
      /\ \A b \in Client \ {c} : op'[b] = op[b] /\ chunks'[b] = chunks[b]
  BY <1>1, <1>2 DEF Op
<1>4. k \notin chunks[c]
  BY <1>1, <1>2
<1>5. \A m : Due(c, m)' <=> Due(c, m)
  BY <1>2, <1>3, <1>4 DEF Due, Acked, Unsent, Got
<1>6. \A s \in Slot, d \in Fd, f \in File :
        Uses(c, s, d, f) /\ fds[d] # NoPath => Uses(c, s, d, f)'
  BY <1>2, <1>3 DEF Uses, Holds, LetGo, Got, Opening
<1>7. Answers(c)'
  BY <1>2, <1>3 DEF Answers, Got
<1> QED
  BY <1>2, <1>3, <1>5, <1>6, <1>7, OwnTidy

\* The answers drop what is on the disk, and fill or empty the slot that was opened
\* or closed.
LEMMA AnswerTidy ==
    ASSUME Shape, Orderly, Tidy, NEW c \in Client,
           \/ GotHandle(c) \/ Opened(c) \/ OpenRefused(c) \/ Written(c) \/ Committed(c)
           \/ CommitMissing(c) \/ CommitRefused(c) \/ Released(c) \/ Retry(c)
    PROVE  Tidy'
<1>1. /\ op \in [Client -> Op] /\ op[c] \in Op /\ CallFits(c) /\ Working(c) /\ Answers(c)
      /\ call \in [Client -> Call] /\ chunks \in [Client -> SUBSET Chunk]
      /\ fi \in [Client -> [Slot -> OpenFile \cup {NoOpen}]]
      /\ op[c].slot \in Slot /\ op[c].file \in File
  BY FitTypes DEF Orderly, Tidy
<1>2. ~Retry(c) /\ ~CommitMissing(c) /\ ~CommitRefused(c)
  BY <1>1 DEF Retry, CommitMissing, CommitRefused, Answered, Answers, Got
<1>3. /\ call' = [call EXCEPT ![c] = NoCall] /\ call[c].phase = "replied"
      /\ UNCHANGED <<fds, cache>>
  BY <1>2 DEF GotHandle, Opened, OpenRefused, Written, Committed, Released, Answered, serverVars
<1>4. call'[c].phase = "none" /\ \A b \in Client \ {c} : call'[b] = call[b]
  BY <1>1, <1>3 DEF NoCall
<1>5. IdleOp.pc = "idle"
  BY DEF IdleOp
<1>6. CASE GotHandle(c)
  <2>1. /\ UNCHANGED <<fi, op, chunks>> /\ call[c].req.command = "lookup"
        /\ op[c].pc \in {"open", "write", "release", "close"}
    BY <1>1, <1>6 DEF GotHandle, Answered, CallFits
  <2>2. \A k : Due(c, k)' <=> Due(c, k)
    BY <1>4, <2>1 DEF Due, Acked, Unsent, Got
  <2>3. \A s \in Slot, d \in Fd, f \in File :
          Uses(c, s, d, f) /\ fds[d] # NoPath => Uses(c, s, d, f)'
    BY <1>3, <1>4, <2>1 DEF Uses, Holds, LetGo, Got, Opening
  <2>4. Answers(c)'
    BY <1>1, <1>4, <2>1 DEF Answers, Got
  <2> QED
    BY <1>3, <1>4, <2>1, <2>2, <2>3, <2>4, OwnTidy
<1>7. CASE Committed(c)
  <2>1. /\ fi' = fi /\ Acked(c) /\ op[c].pc = "commit" /\ op'[c].pc = "close"
        /\ op'[c].slot = op[c].slot /\ op'[c].file = op[c].file
        /\ chunks'[c] = chunks[c] \ Dirty(c)
        /\ \A b \in Client \ {c} : op'[b] = op[b] /\ chunks'[b] = chunks[b]
    BY <1>1, <1>7 DEF Committed, Answered, CallFits, Goto, Acked, Got, Op
  <2>2. \A k : Due(c, k)' <=> Due(c, k)
    BY <1>4, <2>1 DEF Due, Acked, Unsent, Got
  <2>3. \A s \in Slot, d \in Fd, f \in File :
          Uses(c, s, d, f) /\ fds[d] # NoPath => Uses(c, s, d, f)'
    BY <1>3, <1>4, <2>1 DEF Uses, Holds, LetGo, Got, Opening, Acked
  <2>4. Answers(c)'
    BY <1>4, <2>1 DEF Answers, Got
  <2> QED
    BY <1>3, <1>4, <2>1, <2>2, <2>3, <2>4, OwnTidy
<1>8. CASE Opened(c) \/ OpenRefused(c) \/ Written(c) \/ Released(c)
  <2>1. /\ chunks' = chunks /\ op'[c].pc = "idle" /\ ~Acked(c)
        /\ \A b \in Client \ {c} : op'[b] = op[b] /\ fi'[b] = fi[b]
    BY <1>1, <1>5, <1>8 DEF Opened, OpenRefused, Written, Released, Answered, Free, Return,
                            Acked, Got, Answers
  <2>2. \A k : Due(c, k)' <=> Due(c, k)
    BY <1>3, <1>4, <2>1 DEF Due, Acked, Unsent, Got
  <2>3. \A s \in Slot, d \in Fd, f \in File :
          Uses(c, s, d, f) /\ fds[d] # NoPath => Uses(c, s, d, f)'
    <3>1. CASE OpenRefused(c) \/ Written(c)
      BY <1>3, <1>4, <3>1 DEF OpenRefused, Written, Answered, Uses, Holds, LetGo, Got,
                                   Opening
    <3>2. CASE Released(c)
      <4>1. /\ Got(c, "release")
            /\ \A s \in Slot : fi'[c][s] = IF s = op[c].slot THEN NoOpen ELSE fi[c][s]
        BY <1>1, <3>2 DEF Released, Answered, Free, Got
      <4> QED
        BY <1>3, <1>4, <4>1 DEF Uses, Holds, LetGo, Got, Opening
    <3>3. CASE Opened(c)
      <4> DEFINE e == [file |-> op[c].file, fi |-> call[c].rep.fi]
      <4>1. /\ Opening(c) /\ op[c].pc = "open"
            /\ \A s \in Slot : fi'[c][s] = IF s = op[c].slot THEN e ELSE fi[c][s]
        BY <1>1, <3>3 DEF Opened, Answered, Opening, Got, CallFits
      <4>2. e \in OpenFile
        BY <1>1, <4>1 DEF CallFits, Opening, Got, OpenFile
      <4>3. e # NoOpen /\ e.fi = call[c].rep.fi /\ e.file = op[c].file
        BY <4>2, WriteCommitAssumption DEF OpenFile
      <4>4. fi[c][op[c].slot] = NoOpen
        BY <1>1, <4>1 DEF Working
      <4> HIDE DEF e
      <4> QED
        BY <1>3, <1>4, <4>1, <4>3, <4>4 DEF Uses, Holds, LetGo, Got, Opening
    <3> QED
      BY <1>8, <3>1, <3>2, <3>3
  <2>4. Answers(c)'
    BY <1>4, <2>1 DEF Answers, Got
  <2> QED
    BY <1>3, <1>4, <2>1, <2>2, <2>3, <2>4, OwnTidy
<1> QED
  BY <1>2, <1>6, <1>7, <1>8

\* A request that has been executed is no longer unsent, a commit is acknowledged.
LEMMA ServeDue ==
    ASSUME Shape, Tidy, NEW c \in Client, ServeCall(c), NEW rep, NEW r, r = call[c].req,
           call' = [call EXCEPT ![c] = [phase |-> "replied", req |-> r, rep |-> rep]]
    PROVE  /\ \A b \in Client : \A k : b # c => (Due(b, k)' <=> Due(b, k))
           /\ r.command \notin {"write", "commit"} => \A k : Due(c, k)' <=> Due(c, k)
           /\ r.command = "write" =>
                /\ r.chunk \in chunks[c] /\ ~Due(c, r.chunk)
                /\ \A k : Due(c, k)' <=> Due(c, k) \/ k = r.chunk
           /\ r.command = "commit" =>
                /\ \A k \in Dirty(c) : Due(c, k)
                /\ \A k : Due(c, k)' <=> Due(c, k) /\ k \notin Dirty(c)
<1>1. /\ call \in [Client -> Call] /\ CallFits(c) /\ OpFits(c) /\ Answers(c)
  BY FitTypes DEF Tidy
<1>2. /\ call[c].phase = "sent" /\ UNCHANGED clientVars /\ Serve(c, r, TRUE)
  BY DEF ServeCall
<1>3. /\ call'[c].phase = "replied" /\ call'[c].req.command = r.command
      /\ \A b \in Client : b # c => call'[b] = call[b]
      /\ chunks' = chunks /\ op' = op
  BY <1>1, <1>2 DEF clientVars
<1>4. r.command \in {"lookup", "open", "write", "release", "commit"}
  BY <1>2 DEF Serve, ServeLookup, ServeUnresolved, ServeOpen, ServeOpenFails, ServeWrite,
              ServeRelease, ServeCommitThrows, ServeCommitNotReady, ServeCommit,
              ServeCommitFails
<1>5. op[c].pc = "send" <=> r.command = "write"
  BY <1>1, <1>2, <1>4 DEF CallFits, Answers
<1>6. r.command = "write" => r.chunk = op[c].chunk /\ r.chunk \in chunks[c]
  BY <1>1, <1>2, <1>5 DEF Answers, OpFits
<1>7. Dirty(c)' = Dirty(c)
  BY <1>3 DEF Dirty
<1>8. \A b \in Client : \A k : b # c => (Due(b, k)' <=> Due(b, k))
  BY <1>3 DEF Due, Acked, Unsent, Got, Dirty
<1>9. Acked(c)' <=> r.command = "commit"
  BY <1>3 DEF Acked, Got
<1>10. ~Acked(c) /\ ~Unsent(c)' /\ (Unsent(c) <=> r.command = "write")
  BY <1>2, <1>3, <1>5 DEF Acked, Got, Unsent
<1>11. \A k : /\ Due(c, k) <=> k \in chunks[c] /\ ~(r.command = "write" /\ k = r.chunk)
              /\ Due(c, k)' <=> k \in chunks[c] /\ ~(r.command = "commit" /\ k \in Dirty(c))
  BY <1>3, <1>6, <1>7, <1>9, <1>10 DEF Due
<1> QED
  BY <1>6, <1>8, <1>11 DEF Dirty

\* A commit finds the descriptors of its chunks open.
LEMMA CommitRuns ==
    ASSUME DrawsDistinct, MaxIOError = 0, IInv, Numbered, Orderly, Copies,
           NEW c \in Client, ServeCall(c), NEW r, r = call[c].req, r.command = "commit"
    PROVE  ServeCommit(c, r, TRUE) \/ ServeCommitNotReady(c, r, TRUE)
<1>1. /\ call[c].phase = "sent" /\ Serve(c, r, TRUE) /\ Shape /\ CommitFits(c)
      /\ chunks[c] \subseteq Chunk
  BY FitTypes DEF ServeCall, IInv, Safe
<1>2. /\ ~ServeLookup(c, r, TRUE) /\ ~ServeUnresolved(c, r, TRUE) /\ ~ServeOpen(c, r, TRUE)
      /\ ~ServeOpenFails(c, r, TRUE) /\ ~ServeWrite(c, r, TRUE) /\ ~ServeRelease(c, r, TRUE)
  BY DEF ServeLookup, ServeUnresolved, ServeOpen, ServeOpenFails, ServeWrite, ServeRelease
<1>3. ~ServeCommitThrows(c, r, TRUE)
  BY <1>1, CachedKnown DEF ServeCommitThrows, Shape, TypeOK, Numbered
<1>4. ~ServeCommitFails(c, r, TRUE)
  <2> SUFFICES ASSUME NEW n \in Hits(r), n \in BadHits(r) \/ faults.io < MaxIOError
               PROVE  FALSE
    BY DEF ServeCommitFails
  <2>1. faults.io \in Nat
    BY <1>1 DEF Shape, TypeOK, NetworkTypeOK
  <2>2. Hit(r, n) \in Dirty(c)
    BY <1>1, HitIsDirty
  <2>3. /\ fds[Hit(r, n).fi] = Hit(r, n).file /\ Hit(r, n).file \in File
    BY <1>1, <2>2 DEF Orderly, ChunksOpen, Dirty, Chunk
  <2> QED
    BY <2>1, <2>3, PathAssumption DEF BadHits, File
<1> QED
  BY <1>1, <1>2, <1>3, <1>4 DEF Serve

\* And all its gens.
LEMMA CommitSucceeds ==
    ASSUME DrawsDistinct, MaxIOError = 0, IInv, Numbered, Orderly, Copies, Tidy,
           NEW c \in Client, ServeCall(c), NEW r, r = call[c].req, r.command = "commit"
    PROVE  ServeCommit(c, r, TRUE)
<1>1. /\ call[c].phase = "sent" /\ Shape /\ CommitFits(c) /\ CallFits(c)
      /\ chunks[c] \subseteq Chunk
  BY FitTypes DEF ServeCall, IInv, Safe
<1>2. ~ServeCommitNotReady(c, r, TRUE)
  <2> SUFFICES ASSUME NEW n \in DOMAIN r.gens PROVE cache[r.gens[n]] # <<>>
    BY DEF ServeCommitNotReady, ReadyToWrite
  <2>1. PICK k \in Dirty(c) : n = k.id[2] /\ r.gens[n] = Draw[c][n]
    BY <1>1 DEF CommitFits
  <2>2. k \in chunks[c] /\ k.id[1] = c
    BY <1>1 DEF Dirty, Shape, ClientShape
  <2>3. Due(c, k)
    BY <1>1, <2>2 DEF Due, Acked, Got, Unsent, CallFits
  <2>4. cache[GenOf(k)] = <<k>>
    BY <2>2, <2>3 DEF Tidy, VectorTidy
  <2>5. GenOf(k) = r.gens[n]
    BY <2>1, <2>2 DEF GenOf
  <2>6. Len(cache[r.gens[n]]) = 1 /\ Len(<<>>) = 0
    BY <2>4, <2>5
  <2> SUFFICES ASSUME cache[r.gens[n]] = <<>> PROVE FALSE
    OBVIOUS
  <2>7. Len(cache[r.gens[n]]) = Len(<<>>)
    OBVIOUS
  <2> QED
    BY <2>6, <2>7
<1> QED
  BY <1>2, CommitRuns

LEMMA SubSeqFact ==
    ASSUME NEW S, NEW s \in Seq(S)
    PROVE  SubSeq(s, 1, Len(s)) = s /\ (Len(s) = 1 => SubSeq(s, 2, Len(s)) = <<>>)
<1> DEFINE n == Len(s)
<1>1. n \in Nat /\ \A i \in 1 .. n : s[i] \in S
  OBVIOUS
<1>2. SubSeq(s, 1, n) = s
  <2> DEFINE t == SubSeq(s, 1, n)
  <2>1. t \in Seq(S) /\ Len(t) = n /\ \A i \in 1 .. n : t[i] = s[i]
    <3> HIDE DEF n
    <3>1. /\ SubSeq(s, 1, n) \in Seq(S)
          /\ Len(SubSeq(s, 1, n)) = IF 1 <= n THEN n - 1 + 1 ELSE 0
          /\ \A i \in 1 .. n - 1 + 1 : SubSeq(s, 1, n)[i] = s[1 + i - 1]
      BY <1>1, SubSeqProperties
    <3> QED
      BY <1>1, <3>1
  <2> HIDE DEF t
  <2>2. t = s
    BY <2>1, SeqEqual
  <2> QED
    BY <2>2 DEF t
<1>3. ASSUME n = 1 PROVE SubSeq(s, 2, n) = <<>>
  <2>1. SubSeq(s, 2, 1) \in Seq(S) /\ Len(SubSeq(s, 2, 1)) = 0
    BY <1>1, SubSeqProperties
  <2> QED
    BY <1>3, <2>1
<1> QED
  BY <1>2, <1>3

\* It takes them all, and nothing else.
LEMMA CommitErases ==
    ASSUME DrawsDistinct, IInv, Tidy, NEW c \in Client,
           call[c].phase = "sent", NEW r, r = call[c].req, r.command = "commit",
           NEW g \in Gen
    PROVE  Erased(r, Hits(r))[g] = IF \E k \in Dirty(c) : GenOf(k) = g THEN <<>> ELSE cache[g]
<1> DEFINE N == {m \in Hits(r) : r.gens[m] = g}
<1>1. /\ Shape /\ CommitFits(c) /\ CallFits(c) /\ chunks[c] \subseteq Chunk
      /\ cache \in [Gen -> Seq(Chunk)] /\ r \in Request
  BY FitTypes DEF IInv, Safe, Shape, TypeOK, ServerTypeOK, NetworkTypeOK, Call
<1>2. r.gens = [n \in {k.id[2] : k \in Dirty(c)} |-> Draw[c][n]]
  BY <1>1 DEF CommitFits
<1>3. Erased(r, Hits(r))[g] = SubSeq(cache[g], Cardinality(N) + 1, Len(cache[g]))
  BY DEF Erased
<1>4. \A k \in Dirty(c) : /\ k \in chunks[c] /\ k \in Chunk /\ k.id[1] = c
                          /\ k.id[2] \in DOMAIN r.gens /\ r.gens[k.id[2]] = GenOf(k)
                          /\ k.id[2] \in 1 .. Len(Draw[c]) /\ k.id[2] \in Nat
  BY <1>1, <1>2, GenOfType DEF Dirty, Shape, ClientShape, GenOf
<1>5. CASE \E k \in Dirty(c) : GenOf(k) = g
  <2>1. PICK k \in Dirty(c) : GenOf(k) = g
    BY <1>5
  <2> DEFINE n == k.id[2]
  <2>2. Due(c, k)
    BY <1>1, <1>4 DEF Due, Acked, Got, Unsent, CallFits
  <2>3. cache[g] = <<k>> /\ k \in Chunk
    BY <1>4, <2>1, <2>2 DEF Tidy, VectorTidy
  <2>4. n \in DOMAIN r.gens /\ r.gens[n] = g /\ n \in Nat /\ n \in 1 .. Len(Draw[c])
    BY <1>4, <2>1
  <2> HIDE DEF n
  <2>5. \A m \in DOMAIN r.gens : r.gens[m] = g => m = n
    <3> SUFFICES ASSUME NEW m \in DOMAIN r.gens, r.gens[m] = g PROVE m = n
      OBVIOUS
    <3>1. PICK l \in Dirty(c) : m = l.id[2]
      BY <1>2
    <3>2. m \in 1 .. Len(Draw[c]) /\ Draw[c][m] = Draw[c][n]
      BY <1>2, <1>4, <2>4, <3>1
    <3> QED
      BY <2>4, <3>2 DEF DrawsDistinct
  <2>6. {m \in DOMAIN r.gens : m <= n /\ r.gens[m] = r.gens[n]} = {n}
    BY <2>4, <2>5
  <2>7. Rank(r, n) = 1 /\ Len(cache[r.gens[n]]) = 1
    BY <2>3, <2>4, <2>6, FS_Singleton DEF Rank
  <2>8. n \in Hits(r)
    <3>1. Rank(r, n) <= Len(cache[r.gens[n]])
      BY <2>7
    <3> QED
      BY <2>4, <3>1 DEF Hits
  <2>9. N = {n}
    BY <2>4, <2>5, <2>8 DEF Hits
  <2>10. Cardinality(N) = 1
    BY <2>9, FS_Singleton
  <2> HIDE DEF N
  <2> QED
    BY <1>1, <1>3, <1>5, <2>4, <2>7, <2>10, SubSeqFact
<1>6. CASE ~\E k \in Dirty(c) : GenOf(k) = g
  <2>1. N = {}
    <3> SUFFICES ASSUME NEW m \in DOMAIN r.gens, r.gens[m] = g PROVE FALSE
      BY DEF Hits
    <3>1. PICK l \in Dirty(c) : m = l.id[2]
      BY <1>2
    <3> QED
      BY <1>4, <1>6, <3>1
  <2>2. Cardinality(N) = 0
    BY <2>1, FS_EmptySet
  <2> HIDE DEF N
  <2> QED
    BY <1>1, <1>3, <1>6, <2>2, SubSeqFact
<1> QED
  BY <1>5, <1>6

LEMMA ServeFdsTidy ==
    ASSUME Shape, Orderly, FdsTidy, NEW c \in Client, ServeCall(c), NEW r, r = call[c].req,
           NEW rep,
           call' = [call EXCEPT ![c] = [phase |-> "replied", req |-> r, rep |-> rep]],
           \/ /\ r.command = "open" /\ rep.success = 0 /\ rep.fi \in Fd
              /\ fds[rep.fi] = NoPath
              /\ fds' = [fds EXCEPT ![rep.fi] = op[c].file]
           \/ r.command = "open" /\ rep.success # 0 /\ fds' = fds
           \/ r.command = "release" /\ fds' = [fds EXCEPT ![r.fi] = NoPath]
           \/ r.command \notin {"open", "release"} /\ fds' = fds
    PROVE  FdsTidy'
<1>1. /\ call \in [Client -> Call] /\ CallFits(c) /\ OpFits(c) /\ Working(c)
      /\ fds \in [Fd -> File \cup {NoPath}] /\ op[c].slot \in Slot /\ op[c].file \in File
      /\ fi[c][op[c].slot] \in OpenFile \cup {NoOpen}
  BY FitTypes DEF Orderly
<1>2. /\ call[c].phase = "sent" /\ fi' = fi /\ op' = op
  BY DEF ServeCall, clientVars
<1>3. /\ call'[c].phase = "replied" /\ call'[c].req = r /\ call'[c].rep = rep
      /\ \A b \in Client : b # c => call'[b] = call[b]
  BY <1>1
<1>4. ASSUME NEW b \in Client, NEW s \in Slot, NEW d \in Fd, NEW f \in File,
             Uses(b, s, d, f), fds'[d] # NoPath,
             ~(b = c /\ s = op[c].slot /\ r.command = "release")
      PROVE  Uses(b, s, d, f)'
  BY <1>2, <1>3, <1>4 DEF Uses, Holds, LetGo, Got, Opening
<1>5. r.command = "release" =>
        r.fi = fi[c][op[c].slot].fi /\ fi[c][op[c].slot] \in OpenFile
  BY <1>1, <1>2 DEF CallFits, OpFits, Working
<1> SUFFICES ASSUME NEW d \in Fd, fds'[d] # NoPath
             PROVE  \E b \in Client, s \in Slot, f \in File : Uses(b, s, d, f)'
  BY DEF FdsTidy
<1>6. CASE fds[d] = NoPath
  <2>1. r.command = "open" /\ rep.success = 0 /\ d = rep.fi
    BY <1>1, <1>5, <1>6
  <2>2. Uses(c, op[c].slot, d, op[c].file)'
    BY <1>2, <1>3, <2>1 DEF Uses, Got, Opening
  <2>3. ASSUME NEW s, s = op[c].slot, NEW f, f = op[c].file
        PROVE  Uses(c, s, d, f)'
    BY <1>2, <1>3, <2>1, <2>3 DEF Uses, Got, Opening
  <2> QED
    BY <1>1, <2>3
<1>7. CASE fds[d] # NoPath
  <2>1. PICK b \in Client, s \in Slot, f \in File : Uses(b, s, d, f)
    BY <1>7 DEF FdsTidy
  <2>2. ~(b = c /\ s = op[c].slot /\ r.command = "release")
    <3> SUFFICES ASSUME b = c, s = op[c].slot, r.command = "release" PROVE FALSE
      OBVIOUS
    <3>1. d = fi[c][op[c].slot].fi
      BY <1>2, <2>1 DEF Uses, Opening, Got
    <3>2. fds'[d] = NoPath
      BY <1>1, <1>5, <3>1 DEF OpenFile
    <3> QED
      BY <3>2
  <2> QED
    BY <1>4, <2>1, <2>2
<1> QED
  BY <1>6, <1>7

LEMMA ServeVectorTidy ==
    ASSUME DrawsDistinct, MaxIOError = 0, IInv, Numbered, Orderly, Copies, Tidy,
           NEW c \in Client, ServeCall(c), NEW r, r = call[c].req, NEW rep,
           call' = [call EXCEPT ![c] = [phase |-> "replied", req |-> r, rep |-> rep]]
    PROVE  VectorTidy'
<1>1. /\ Shape /\ VectorTidy /\ chunks \in [Client -> SUBSET Chunk]
      /\ cache \in [Gen -> Seq(Chunk)]
      /\ call[c].phase = "sent" /\ chunks' = chunks
  BY FitTypes DEF IInv, Tidy, Shape, TypeOK, ServerTypeOK, ServeCall, clientVars
<1>2. /\ \A b \in Client : \A k : b # c => (Due(b, k)' <=> Due(b, k))
      /\ r.command \notin {"write", "commit"} => \A k : Due(c, k)' <=> Due(c, k)
      /\ r.command = "write" =>
           /\ r.chunk \in chunks[c] /\ ~Due(c, r.chunk)
           /\ \A k : Due(c, k)' <=> Due(c, k) \/ k = r.chunk
      /\ r.command = "commit" =>
           /\ \A k \in Dirty(c) : Due(c, k)
           /\ \A k : Due(c, k)' <=> Due(c, k) /\ k \notin Dirty(c)
  BY <1>1, ServeDue
<1>3. \A b \in Client : \A k : Due(b, k) => k \in chunks[b] /\ cache[GenOf(k)] = <<k>>
  BY <1>1 DEF VectorTidy, Due
<1>4. \A g \in Gen : cache[g] # <<>> =>
        \E b \in Client : \E k : Due(b, k) /\ GenOf(k) = g /\ cache[g] = <<k>>
  BY <1>1 DEF VectorTidy
<1>5. \A b \in Client : \A k : k \in chunks[b] => k \in Chunk /\ GenOf(k) \in Gen /\ k.id[1] = b
  BY <1>1, GenOfType DEF Shape, ClientShape
\* Two chunks with one gen are one.
<1>6. ASSUME NEW a \in Client, NEW b \in Client, NEW k, NEW m, k \in chunks[a], m \in chunks[b],
             GenOf(k) = GenOf(m)
      PROVE  a = b /\ k = m
  <2>1. k.id = m.id /\ Copy(k)
    <3>1. /\ k \in Chunk /\ m.id[1] \in Client /\ m.id[2] \in 1 .. Len(Draw[m.id[1]])
          /\ GenOf(k) = Draw[m.id[1]][m.id[2]] /\ m.id = <<m.id[1], m.id[2]>>
      BY <1>5, <1>6, GenOfType DEF GenOf
    <3>2. k.id = <<m.id[1], m.id[2]>>
      BY <3>1, GenIdentifies
    <3> QED
      BY <1>6, <3>1, <3>2 DEF Copies
  <2> QED
    BY <1>5, <1>6, <2>1 DEF Copy
<1>7. ASSUME \A g \in Gen : cache'[g] # <<>> =>
               \E b \in Client : \E k : Due(b, k)' /\ GenOf(k) = g /\ cache'[g] = <<k>>,
             \A b \in Client : \A k : Due(b, k)' => cache'[GenOf(k)] = <<k>>
      PROVE  VectorTidy'
  <2>1. \A b \in Client : \A k : Due(b, k)' => k \in chunks'[b]
    BY DEF Due
  <2>2. \A k : GenOf(k)' = GenOf(k)
    BY DEF GenOf
  <2> QED
    BY <1>7, <2>1, <2>2 DEF VectorTidy
<1>8. CASE r.command \notin {"write", "commit"}
  <2>1. cache' = cache
    BY <1>1, <1>8, ServeStores
  <2>2. \A b \in Client : \A k : Due(b, k)' <=> Due(b, k)
    BY <1>2, <1>8
  <2> QED
    BY <1>3, <1>4, <1>7, <2>1, <2>2
<1>9. CASE r.command = "write"
  <2> DEFINE m == r.chunk
  <2>1. m \in chunks[c] /\ ~Due(c, m) /\ m \in Chunk /\ GenOf(m) \in Gen
    BY <1>2, <1>5, <1>9
  <2>2. cache' = [cache EXCEPT ![GenOf(m)] = Append(@, m)]
    <3>1. /\ ~ServeLookup(c, r, TRUE) /\ ~ServeOpen(c, r, TRUE)
          /\ ~ServeOpenFails(c, r, TRUE) /\ ~ServeRelease(c, r, TRUE)
          /\ ~ServeCommitThrows(c, r, TRUE) /\ ~ServeCommitNotReady(c, r, TRUE)
          /\ ~ServeCommit(c, r, TRUE) /\ ~ServeCommitFails(c, r, TRUE)
      BY <1>9 DEF ServeLookup, ServeOpen, ServeOpenFails, ServeRelease, ServeCommitThrows,
                  ServeCommitNotReady, ServeCommit, ServeCommitFails
    <3>2. Known(table, r.fh)
      BY <1>1, <1>9 DEF Numbered, CallKnown, RequestKnown
    <3>3. ~ServeUnresolved(c, r, TRUE)
      BY <3>2, FoundKnown DEF ServeUnresolved
    <3> QED
      BY <3>1, <3>3 DEF ServeCall, Serve, ServeWrite
  <2>3. \A b \in Client : \A k : Due(b, k)' <=> Due(b, k) \/ (b = c /\ k = m)
    BY <1>2, <1>9
  <2> HIDE DEF m
  <2>4. cache[GenOf(m)] = <<>>
    <3> SUFFICES ASSUME cache[GenOf(m)] # <<>> PROVE FALSE
      OBVIOUS
    <3>1. PICK b, k : b \in Client /\ Due(b, k) /\ GenOf(k) = GenOf(m)
      BY <1>4, <2>1
    <3>2. b = c /\ k = m
      BY <1>3, <1>6, <2>1, <3>1
    <3> QED
      BY <2>1, <3>1, <3>2
  <2>5. cache'[GenOf(m)] = <<m>>
    <3>1. cache'[GenOf(m)] = Append(<<>>, m)
      BY <1>1, <2>1, <2>2, <2>4
    <3> QED
      BY <3>1
  <2>6. \A g \in Gen : g # GenOf(m) => cache'[g] = cache[g]
    BY <1>1, <2>2
  <2>7. \A g \in Gen : cache'[g] # <<>> =>
          \E b \in Client : \E k : Due(b, k)' /\ GenOf(k) = g /\ cache'[g] = <<k>>
    BY <1>4, <2>3, <2>5, <2>6
  <2>8. ASSUME NEW b \in Client, NEW k, Due(b, k)' PROVE cache'[GenOf(k)] = <<k>>
    <3>1. CASE b = c /\ k = m
      BY <2>5, <3>1
    <3>2. CASE ~(b = c /\ k = m)
      <4>1. Due(b, k) /\ k \in chunks[b] /\ GenOf(k) \in Gen
        BY <1>3, <1>5, <2>3, <2>8, <3>2
      <4>2. GenOf(k) # GenOf(m)
        BY <1>6, <2>1, <3>2, <4>1
      <4> QED
        BY <1>3, <2>6, <4>1, <4>2
    <3> QED
      BY <3>1, <3>2
  <2> QED
    BY <1>7, <2>7, <2>8
<1>10. CASE r.command = "commit"
  <2>1. cache' = Erased(r, Hits(r))
    BY <1>10, CommitSucceeds DEF ServeCommit
  <2>2. \A g \in Gen : cache'[g] = IF \E k \in Dirty(c) : GenOf(k) = g THEN <<>> ELSE cache[g]
    BY <1>1, <1>10, <2>1, CommitErases
  <2>3. \A b \in Client : \A k : Due(b, k)' <=> Due(b, k) /\ ~(b = c /\ k \in Dirty(c))
    BY <1>2, <1>10
  <2>4. \A k \in Dirty(c) : k \in chunks[c]
    BY DEF Dirty
  <2>5. ASSUME NEW g \in Gen, cache'[g] # <<>>
        PROVE  \E b \in Client : \E k : Due(b, k)' /\ GenOf(k) = g /\ cache'[g] = <<k>>
    <3>1. cache'[g] = cache[g] /\ ~\E k \in Dirty(c) : GenOf(k) = g
      BY <2>2, <2>5
    <3>2. PICK b, k : b \in Client /\ Due(b, k) /\ GenOf(k) = g /\ cache[g] = <<k>>
      BY <1>4, <2>5, <3>1
    <3> QED
      BY <2>3, <3>1, <3>2
  <2>6. ASSUME NEW b \in Client, NEW k, Due(b, k)' PROVE cache'[GenOf(k)] = <<k>>
    <3>1. Due(b, k) /\ ~(b = c /\ k \in Dirty(c)) /\ k \in chunks[b] /\ GenOf(k) \in Gen
      BY <1>3, <1>5, <2>3, <2>6
    <3>2. ~\E m \in Dirty(c) : GenOf(m) = GenOf(k)
      BY <1>6, <2>4, <3>1
    <3> QED
      BY <1>3, <2>2, <3>1, <3>2
  <2> QED
    BY <1>7, <2>5, <2>6
<1> QED
  BY <1>8, <1>9, <1>10

LEMMA ServeTidy ==
    ASSUME DrawsDistinct, MaxIOError = 0, IInv, Numbered, Orderly, Copies, Tidy,
           NEW c \in Client, ServeCall(c)
    PROVE  Tidy'
<1> DEFINE r == call[c].req
<1>1. Shape /\ call \in [Client -> Call] /\ \A b \in Client : Answers(b)
  BY FitTypes DEF IInv, Tidy
<1>2. PICK rep :
        /\ call' = [call EXCEPT ![c] = [phase |-> "replied", req |-> r, rep |-> rep]]
        /\ \/ /\ r.command = "open" /\ rep.success = 0 /\ rep.fi \in Fd
              /\ fds[rep.fi] = NoPath
              /\ fds' = [fds EXCEPT ![rep.fi] = op[c].file]
           \/ r.command = "open" /\ rep.success # 0 /\ fds' = fds
           \/ r.command = "release" /\ fds' = [fds EXCEPT ![r.fi] = NoPath]
           \/ r.command \notin {"open", "release"} /\ fds' = fds
  BY <1>1, ServeKinds
<1>3. VectorTidy'
  BY <1>2, ServeVectorTidy
<1>4. FdsTidy'
  BY <1>1, <1>2, ServeFdsTidy DEF Tidy
<1>5. ASSUME r.command = "commit"
      PROVE  rep.success = 0
  <2>1. Reply(c, TRUE, NoResponse)
    BY <1>5, CommitSucceeds DEF ServeCommit
  <2>2. call'[c].rep = NoResponse /\ call'[c].rep = rep
    BY <1>1, <1>2, <2>1 DEF Reply
  <2> QED
    BY <2>2 DEF NoResponse
<1>6. \A b \in Client : Answers(b)'
  <2>1. /\ op' = op /\ call[c].phase = "sent" /\ call'[c].phase = "replied"
        /\ call'[c].req = r /\ call'[c].rep = rep
        /\ \A b \in Client : b # c => call'[b] = call[b]
    BY <1>1, <1>2 DEF ServeCall, clientVars
  <2> QED
    BY <1>1, <1>5, <2>1 DEF Answers, Got
<1> QED
  BY <1>3, <1>4, <1>6 DEF Tidy

LEMMA TidyStep ==
    ASSUME DrawsDistinct, MaxCrash = 0, MaxLost = 0, MaxIOError = 0
    PROVE  IInv /\ Numbered /\ Orderly /\ Copies /\ Tidy /\ [Next]_vars => Tidy'
<1> SUFFICES ASSUME IInv, Numbered, Orderly, Copies, Tidy, [Next]_vars
             PROVE  Tidy'
  OBVIOUS
<1>1. Shape
  BY DEF IInv
<1>2. CASE UNCHANGED vars
  <2>1. UNCHANGED <<fds, cache, call, op, fi, chunks>>
    BY <1>2 DEF vars, serverVars, clientVars
  <2>2. \A c \in Client : \A k : Due(c, k)' <=> Due(c, k)
    BY <2>1 DEF Due, Acked, Unsent, Dirty, Got
  <2>3. \A c \in Client, s \in Slot, d \in Fd, f \in File : Uses(c, s, d, f)' <=> Uses(c, s, d, f)
    BY <2>1, UsesOfOthers
  <2>4. VectorTidy'
    BY <2>1, <2>2 DEF Tidy, VectorTidy, GenOf
  <2>5. FdsTidy'
    BY <2>1, <2>3 DEF Tidy, FdsTidy
  <2>6. \A c \in Client : Answers(c)'
    BY <2>1 DEF Tidy, Answers, Got
  <2> QED
    BY <2>4, <2>5, <2>6 DEF Tidy
<1>3. ASSUME NEW c \in Client, Begin(c) \/ Proceed(c)
      PROVE  Tidy'
  BY <1>1, <1>3, LocalTidy, SendTidy, KeepTidy, AnswerTidy DEF Proceed
<1>4. /\ ~ServeLate /\ ~Crash /\ ~Restart
      /\ \A c \in Client : ~Refuse(c) /\ ~Fault(c)
  BY <1>1, FaultFree
<1> QED
  BY <1>2, <1>3, <1>4, ServeTidy DEF Next

LEMMA TidyInvariant ==
    ASSUME DrawsDistinct, MaxCrash = 0, MaxLost = 0, MaxIOError = 0
    PROVE  Spec => []Tidy
<1>0. Steady
  BY DEF Steady
<1>1. IInv /\ Numbered /\ Orderly /\ Copies /\ Tidy /\ [Next]_vars => Tidy'
  BY TidyStep
<1>2. Spec => []IInv
  BY IInvInvariant
<1>3. Spec => []Numbered
  BY NumberedInvariant
<1>4. Spec => []Orderly
  BY <1>0, OrderlyInvariant
<1>5. Spec => []Copies
  BY <1>0, CopiesInvariant
<1> QED
  BY <1>1, <1>2, <1>3, <1>4, <1>5, TidyInit, PTL DEF Spec

\* If no gen is drawn twice and neither a call, nor the server, nor a pwrite fails, the
\* server keeps no memory of clients that are done: no Write stays in its vector once
\* no client has a chunk, and no descriptor stays open once no file is.
THEOREM NothingLeft ==
    ASSUME DrawsDistinct, MaxCrash = 0, MaxLost = 0, MaxIOError = 0
    PROVE  Spec => []NoLeftovers
<1>1. Shape /\ Tidy => NoLeftovers
  <2> SUFFICES ASSUME Shape, Tidy, \A c \in Client : op[c].pc = "idle" /\ chunks[c] = {}
               PROVE  /\ \A g \in Gen : cache[g] = <<>>
                      /\ (\A c \in Client, s \in Slot : fi[c][s] = NoOpen) => FreeFds = Fd
    BY DEF NoLeftovers
  <2>1. \A g \in Gen : cache[g] = <<>>
    BY DEF Tidy, VectorTidy
  <2>2. ASSUME \A c \in Client, s \in Slot : fi[c][s] = NoOpen, NEW d \in Fd
        PROVE  fds[d] = NoPath
    <3> SUFFICES ASSUME NEW c \in Client, NEW s \in Slot, NEW f \in File, Uses(c, s, d, f)
                 PROVE  FALSE
      BY DEF Tidy, FdsTidy
    <3>1. CallFits(c)
      BY FitTypes
    <3> QED
      BY <2>2, <3>1 DEF Uses, Holds, Opening, Got, CallFits
  <2> QED
    BY <2>1, <2>2 DEF FreeFds
<1> QED
  BY <1>1, ShapeInvariant, TidyInvariant, PTL


-----------------------------------------------------------------------------
(* The newest data stays.                                                   *)

\* What is on the disk was pwritten there, and if its client has a chunk of it then
\* for that range; and a client's chunks of a file are newer than what of its data has
\* been pwritten to that file, except for what it still has a chunk of.
OnDisk ==
    \A f \in File, o \in Offset : disk[f][o] # Blank =>
        /\ \E s \in stable : s.id = disk[f][o] /\ s.on = f
        /\ \A e \in chunks[disk[f][o][1]] : e.id = disk[f][o] => e.file = f /\ e.offset = o

Newer(c) ==
    \A k \in chunks[c], s \in stable :
        (s.id[1] = c /\ s.to = k.file) =>
            \/ s.id[2] < k.id[2]
            \/ \E e \in chunks[c] : e.id = s.id /\ e.file = k.file

Newest == OnDisk /\ \A c \in Client : Newer(c)

\* A range gets no data older than what it has of the same client.
NotOlder ==
    \A f \in File, o \in Offset :
        (disk[f][o] # Blank /\ disk'[f][o] # Blank) =>
            (disk[f][o][1] = disk'[f][o][1] => disk[f][o][2] <= disk'[f][o][2])

\* What a client does with its chunks: the new one is the newest, and those of a file
\* are dropped together.
LEMMA ChunksNewest ==
    ASSUME Shape, Numbered, Newest, [Next]_vars, UNCHANGED <<disk, stable>>
    PROVE  Newest' /\ NotOlder
<1>1. /\ chunks \in [Client -> SUBSET Chunk] /\ drawn \in [Client -> Nat]
      /\ disk \in [File -> [Offset -> WriteId \cup {Blank}]]
      /\ \A s \in stable : /\ s.id[1] \in Client /\ s.id[2] \in Nat
                           /\ s.id[2] <= drawn[s.id[1]]
      /\ \A w \in WriteId : w[1] \in Client /\ w[2] \in Nat
  <2>1. \A w \in WriteId : w[1] \in Client /\ w[2] \in Nat
    BY WriteIdFact, DrawType
  <2>2. \A s \in stable : s.id \in WriteId
    BY DEF Shape, TypeOK, DiskTypeOK, Stable
  <2> QED
    BY <2>1, <2>2 DEF Shape, TypeOK, ClientTypeOK, DiskTypeOK, StableShape
<1>2. NotOlder
  <2> SUFFICES ASSUME NEW f \in File, NEW o \in Offset, disk[f][o] # Blank
               PROVE  disk[f][o][2] <= disk[f][o][2]
    BY DEF NotOlder
  <2>1. disk[f][o] \in WriteId
    BY <1>1
  <2>2. disk[f][o][2] \in Nat
    BY <1>1, <2>1
  <2> QED
    BY <2>2
<1>3. CASE chunks' = chunks
  BY <1>2, <1>3 DEF Newest, OnDisk, Newer
<1>4. ASSUME NEW c \in Client, NEW o \in Offset, KeepChunk(c, o)
      PROVE  Newest'
  <2> DEFINE m == NewChunk(c, o)
  <2>1. chunks' = [chunks EXCEPT ![c] = @ \cup {m}] /\ m.id = <<c, drawn[c] + 1>>
    BY <1>4 DEF KeepChunk, NewChunk
  <2> HIDE DEF m
  <2>2. /\ chunks'[c] = chunks[c] \cup {m} /\ \A d \in Client \ {c} : chunks'[d] = chunks[d]
        /\ m.id[2] = drawn[c] + 1 /\ drawn[c] \in Nat /\ m.id[1] = c
    BY <1>1, <2>1
  <2>3. \A s \in stable : s.id[1] = c => s.id[2] < m.id[2]
    BY <1>1, <2>2
  <2>4. \A d \in Client : Newer(d)'
    <3> SUFFICES ASSUME NEW d \in Client, NEW k \in chunks'[d], NEW s \in stable,
                        s.id[1] = d, s.to = k.file
                 PROVE  \/ s.id[2] < k.id[2]
                        \/ \E e \in chunks'[d] : e.id = s.id /\ e.file = k.file
      BY DEF Newer
    <3>1. CASE k \in chunks[d]
      BY <2>2, <3>1 DEF Newest, Newer
    <3>2. CASE k \notin chunks[d]
      BY <2>2, <2>3, <3>2
    <3> QED
      BY <3>1, <3>2
  <2>5. OnDisk'
    <3> SUFFICES ASSUME NEW f \in File, NEW u \in Offset, disk[f][u] # Blank
                 PROVE  /\ \E s \in stable : s.id = disk[f][u] /\ s.on = f
                        /\ \A e \in chunks'[disk[f][u][1]] :
                             e.id = disk[f][u] => e.file = f /\ e.offset = u
      BY DEF OnDisk
    <3> DEFINE w == disk[f][u]
    <3>1. PICK s \in stable : s.id = w /\ s.on = f
      BY DEF Newest, OnDisk
    <3>2. \A e \in chunks[w[1]] : e.id = w => e.file = f /\ e.offset = u
      BY DEF Newest, OnDisk
    <3>3. w[1] \in Client /\ (w[1] = c => w # m.id)
      BY <1>1, <2>2, <2>3, <3>1
    <3> HIDE DEF w
    <3>4. \A e \in chunks'[w[1]] : e \in chunks[w[1]] \/ (w[1] = c /\ e = m)
      BY <2>2, <3>3
    <3>5. \A e \in chunks'[w[1]] : e.id = w => e.file = f /\ e.offset = u
      BY <3>2, <3>3, <3>4
    <3> QED
      BY <3>1, <3>5 DEF w
  <2> QED
    BY <2>4, <2>5 DEF Newest
<1>5. ASSUME NEW c \in Client, Committed(c)
      PROVE  Newest'
  <2>1. chunks' = [chunks EXCEPT ![c] = @ \ Dirty(c)]
    BY <1>5 DEF Committed
  <2>2. /\ chunks'[c] = chunks[c] \ Dirty(c)
        /\ \A d \in Client : chunks'[d] \subseteq chunks[d]
        /\ \A d \in Client \ {c} : chunks'[d] = chunks[d]
    BY <1>1, <2>1
  <2>3. \A k, e \in chunks[c] : k.file = e.file => k.fh = e.fh
    BY DEF Numbered, HandlesFit, Keeps
  <2>4. ASSUME NEW d \in Client, NEW k \in chunks'[d], NEW s \in stable,
               s.id[1] = d, s.to = k.file, ~(s.id[2] < k.id[2])
        PROVE  \E e \in chunks'[d] : e.id = s.id /\ e.file = k.file
    <3>1. k \in chunks[d]
      BY <2>2
    <3>2. PICK e \in chunks[d] : e.id = s.id /\ e.file = k.file
      BY <2>4, <3>1 DEF Newest, Newer
    <3>3. e \in chunks'[d]
      BY <2>2, <2>3, <3>1, <3>2 DEF Dirty
    <3> QED
      BY <3>2, <3>3
  <2>5. \A d \in Client : Newer(d)'
    BY <2>4 DEF Newer
  <2>6. ASSUME NEW f \in File, NEW o \in Offset, disk[f][o] # Blank
        PROVE  /\ \E s \in stable : s.id = disk[f][o] /\ s.on = f
               /\ \A e \in chunks'[disk[f][o][1]] :
                    e.id = disk[f][o] => e.file = f /\ e.offset = o
    <3>1. disk[f][o][1] \in Client
      BY <1>1, <2>6
    <3> QED
      BY <2>2, <2>6, <3>1 DEF Newest, OnDisk
  <2>7. OnDisk'
    BY <2>6 DEF OnDisk
  <2> QED
    BY <2>5, <2>7 DEF Newest
<1>6. chunks' = chunks \/ (\E c \in Client : \E o \in Offset : KeepChunk(c, o))
        \/ \E c \in Client : Committed(c)
  BY NextStepKind DEF StepKind
<1> QED
  BY <1>2, <1>3, <1>4, <1>5, <1>6

\* A commit that finds every gen takes every chunk of its file.
LEMMA DirtyIsHit ==
    ASSUME DrawsDistinct, Shape, Copies, NEW c \in Client, CommitFits(c),
           call[c].phase = "sent", call[c].req.command = "commit",
           ReadyToWrite(call[c].req), NEW e \in Dirty(c)
    PROVE  e.id[2] \in Hits(call[c].req) /\ Hit(call[c].req, e.id[2]) = e
<1> DEFINE r == call[c].req
           n == e.id[2]
<1>1. /\ r.gens = [m \in {k.id[2] : k \in Dirty(c)} |-> Draw[c][m]]
      /\ r \in Request /\ cache \in [Gen -> Seq(Chunk)]
      /\ \A k \in Dirty(c) : k \in chunks[c] /\ k \in Chunk /\ k.id[1] = c
  BY DEF CommitFits, Dirty, Shape, TypeOK, ServerTypeOK, ClientTypeOK, NetworkTypeOK, Call,
         ClientShape
<1>2. \A m \in DOMAIN r.gens : m \in 1 .. Len(Draw[c]) /\ r.gens[m] = Draw[c][m]
  BY <1>1, GenOfType
<1>3. n \in DOMAIN r.gens /\ n \in Nat /\ e.id = <<c, n>>
  BY <1>1, GenOfType
<1>4. {m \in DOMAIN r.gens : m <= n /\ r.gens[m] = r.gens[n]} = {n}
  BY <1>2, <1>3 DEF DrawsDistinct
<1>5. Rank(r, n) = 1
  BY <1>4, FS_Singleton DEF Rank
<1>6. r.gens[n] \in Gen /\ cache[r.gens[n]] # <<>>
  BY <1>1, <1>3, GensType DEF ReadyToWrite
<1>7. Len(cache[r.gens[n]]) \in Nat /\ 1 <= Len(cache[r.gens[n]])
  BY <1>1, <1>6
<1>8. n \in Hits(r)
  BY <1>3, <1>5, <1>7 DEF Hits
<1>9. Hit(r, n) \in Dirty(c) /\ Hit(r, n).id = <<c, n>>
  BY <1>8, HitIsDirty
<1>10. Copy(e)
  BY <1>1 DEF Copies
<1>11. Hit(r, n) = e
  BY <1>1, <1>3, <1>9, <1>10 DEF Copy
<1> QED
  BY <1>8, <1>11

\* What a commit pwrites to a range: the newest chunk that its client has for it.
LEMMA CommitNewest ==
    ASSUME DrawsDistinct, IInv, Numbered, Orderly, Copies, RightFile, Newest,
           NEW c \in Client, NEW r, r = call[c].req, call[c].phase = "sent",
           r.command = "commit", ReadyToWrite(r), Pwrite(r, Hits(r)),
           NEW f \in File, NEW o \in Offset
    PROVE  /\ disk'[f][o] # Blank =>
                /\ \E s \in stable' : s.id = disk'[f][o] /\ s.on = f
                /\ \A e \in chunks[disk'[f][o][1]] :
                     e.id = disk'[f][o] => e.file = f /\ e.offset = o
           /\ (disk[f][o] # Blank /\ disk'[f][o] # Blank) =>
                (disk[f][o][1] = disk'[f][o][1] => disk[f][o][2] <= disk'[f][o][2])
<1>1. /\ Shape /\ CommitFits(c) /\ disk'[f][o] = PwriteTo(r, Hits(r), f, o)
      /\ stable' = stable \cup
           {[id |-> Hit(r, n).id, to |-> Hit(r, n).file, on |-> fds[Hit(r, n).fi]] : n \in Hits(r)}
      /\ disk[f][o] \in WriteId \cup {Blank}
  BY DEF Pwrite, IInv, Safe, Shape, TypeOK, DiskTypeOK
<1>2. \A n \in Hits(r) : /\ Hit(r, n) \in Dirty(c) /\ Hit(r, n).id = <<c, n>>
                         /\ fds[Hit(r, n).fi] = Hit(r, n).file
  BY <1>1, HitIsDirty DEF Orderly, ChunksOpen, Dirty
<1>3. \A w \in WriteId : w[2] \in Nat
  BY WriteIdFact, DrawType
<1> DEFINE L == Last(Landing(r, Hits(r), f, o))
<1>4. CASE L = {}
  <2>1. disk'[f][o] = disk[f][o]
    BY <1>1, <1>4 DEF PwriteTo
  <2> QED
    BY <1>1, <1>3, <2>1 DEF Newest, OnDisk
<1>5. CASE L # {}
  <2> DEFINE n == CHOOSE m \in L : TRUE
  <2>1. n \in L /\ disk'[f][o] = Hit(r, n).id
    BY <1>1, <1>5 DEF PwriteTo
  <2>2. /\ n \in Hits(r) /\ fds[Hit(r, n).fi] = f /\ Hit(r, n).offset = o
        /\ \A m \in Landing(r, Hits(r), f, o) : m <= n
    BY <2>1 DEF Last, Landing
  <2> HIDE DEF n, L
  <2>3. /\ Hit(r, n) \in chunks[c] /\ Hit(r, n).file = f /\ disk'[f][o] = <<c, n>>
        /\ Hit(r, n).id = <<c, n>>
    BY <1>2, <2>1, <2>2 DEF Dirty
  <2>4. \E s \in stable' : s.id = disk'[f][o] /\ s.on = f
    <3> DEFINE s == [id |-> Hit(r, n).id, to |-> Hit(r, n).file, on |-> fds[Hit(r, n).fi]]
    <3>1. s \in stable'
      BY <1>1, <2>2
    <3>2. s.id = disk'[f][o] /\ s.on = f
      BY <2>1, <2>2
    <3> QED
      BY <3>1, <3>2
  <2>5. ASSUME NEW e \in chunks[c], e.id = <<c, n>>
        PROVE  e.file = f /\ e.offset = o
    <3>1. e = Hit(r, n)
      BY <2>3, <2>5 DEF Copies, Copy
    <3> QED
      BY <2>2, <2>3, <3>1
  <2>6. ASSUME disk[f][o] # Blank, disk[f][o][1] = c
        PROVE  disk[f][o][2] <= n
    <3>1. PICK s \in stable : s.id = disk[f][o] /\ s.on = f
      BY <2>6 DEF Newest, OnDisk
    <3>2. s.to = f
      BY <3>1 DEF RightFile
    <3>3. CASE s.id[2] < Hit(r, n).id[2]
      <4>1. Hit(r, n).id[2] = n /\ n \in Nat /\ s.id[2] \in Nat
        <5>1. n \in Nat
          BY <1>1, <2>2, GensType DEF Hits, Shape, TypeOK, NetworkTypeOK, Call
        <5>2. s.id \in WriteId
          BY <1>1, <2>6, <3>1
        <5> QED
          BY <1>3, <2>3, <5>1, <5>2
      <4> QED
        BY <3>1, <3>3, <4>1
    <3>4. CASE \E e \in chunks[c] : e.id = s.id /\ e.file = f
      <4>1. PICK e \in chunks[c] : e.id = disk[f][o] /\ e.file = f
        BY <3>1, <3>4
      <4>2. e.offset = o
        BY <2>6, <4>1 DEF Newest, OnDisk
      <4>3. e \in Dirty(c)
        <5>1. e.fh = Hit(r, n).fh
          BY <2>3, <4>1 DEF Numbered, HandlesFit, Keeps
        <5> QED
          BY <1>2, <2>2, <5>1 DEF Dirty
      <4>4. e.id[2] \in Hits(r) /\ Hit(r, e.id[2]) = e
        BY <1>1, <4>3, DirtyIsHit
      <4>5. fds[e.fi] = f
        BY <4>1 DEF Orderly, ChunksOpen
      <4>6. e.id[2] \in Landing(r, Hits(r), f, o)
        BY <4>2, <4>4, <4>5 DEF Landing
      <4> QED
        BY <2>2, <4>1, <4>6
    <3>5. \/ s.id[2] < Hit(r, n).id[2]
          \/ \E e \in chunks[c] : e.id = s.id /\ e.file = f
      BY <2>3, <2>6, <3>1, <3>2 DEF Newest, Newer
    <3> QED
      BY <3>3, <3>4, <3>5
  <2> QED
    BY <2>3, <2>4, <2>5, <2>6
<1> QED
  BY <1>4, <1>5

LEMMA ServeNewest ==
    ASSUME DrawsDistinct, MaxIOError = 0, IInv, Numbered, Orderly, Copies, RightFile, Newest,
           [Next]_vars, NEW c \in Client, ServeCall(c)
    PROVE  Newest' /\ NotOlder
<1> DEFINE r == call[c].req
<1>1. Shape /\ call[c].phase = "sent" /\ CommitFits(c) /\ UNCHANGED <<op, chunks>>
  BY DEF IInv, Safe, ServeCall, clientVars
<1>2. CASE UNCHANGED <<disk, stable>>
  BY <1>1, <1>2, ChunksNewest
<1>3. CASE r.command = "commit" /\ ~UNCHANGED <<disk, stable>>
  <2>1. ReadyToWrite(r) /\ Pwrite(r, Hits(r))
    BY <1>3, CommitRuns DEF ServeCommit, ServeCommitNotReady
  <2>2. \A f \in File, o \in Offset :
          /\ disk'[f][o] # Blank =>
               /\ \E s \in stable' : s.id = disk'[f][o] /\ s.on = f
               /\ \A e \in chunks[disk'[f][o][1]] :
                    e.id = disk'[f][o] => e.file = f /\ e.offset = o
          /\ (disk[f][o] # Blank /\ disk'[f][o] # Blank) =>
               (disk[f][o][1] = disk'[f][o][1] => disk[f][o][2] <= disk'[f][o][2])
    BY <1>1, <1>3, <2>1, CommitNewest
  <2>3. stable' = stable \cup
          {[id |-> Hit(r, n).id, to |-> Hit(r, n).file, on |-> fds[Hit(r, n).fi]] : n \in Hits(r)}
    BY <2>1 DEF Pwrite
  <2>4. ASSUME NEW d \in Client, NEW k \in chunks[d], NEW s \in stable',
               s.id[1] = d, s.to = k.file
        PROVE  s.id[2] < k.id[2] \/ \E e \in chunks[d] : e.id = s.id /\ e.file = k.file
    <3>1. CASE s \in stable
      BY <2>4, <3>1 DEF Newest, Newer
    <3>2. CASE s \notin stable
      <4>1. PICK n \in Hits(r) :
              s = [id |-> Hit(r, n).id, to |-> Hit(r, n).file, on |-> fds[Hit(r, n).fi]]
        BY <2>3, <2>4, <3>2
      <4>2. s.id = Hit(r, n).id /\ s.to = Hit(r, n).file
        BY <4>1
      <4>3. Hit(r, n) \in chunks[c] /\ Hit(r, n).id = <<c, n>>
        BY <1>1, <1>3, HitIsDirty DEF Dirty
      <4> QED
        BY <2>4, <4>2, <4>3
    <3> QED
      BY <3>1, <3>2
  <2>5. \A d \in Client : Newer(d)'
    BY <1>1, <2>4 DEF Newer
  <2>6. OnDisk'
    BY <1>1, <2>2 DEF OnDisk
  <2>7. NotOlder
    BY <2>2 DEF NotOlder
  <2> QED
    BY <2>5, <2>6, <2>7 DEF Newest
<1> QED
  BY <1>1, <1>2, <1>3, ServeStores

LEMMA NewestStep ==
    ASSUME DrawsDistinct, MaxCrash = 0, Steady, MaxIOError = 0,
           IInv, Numbered, Orderly, Copies, RightFile, Newest, [Next]_vars
    PROVE  Newest' /\ NotOlder
<1>1. Shape
  BY DEF IInv
<1>2. CASE UNCHANGED vars
  BY <1>1, <1>2, ChunksNewest DEF vars, diskVars
<1>3. ASSUME NEW c \in Client, Begin(c) \/ Proceed(c) \/ Lost(c)
      PROVE  Newest' /\ NotOlder
  BY <1>1, <1>3, OwnDisk, ChunksNewest DEF Lost, diskVars
<1>4. /\ ~ServeLate /\ ~Crash /\ ~Restart
      /\ \A c \in Client : ~Refuse(c) /\ (Fault(c) => Lost(c))
  BY <1>1, FewFaults
<1>5. CASE \E c \in Client : ServeCall(c)
  BY <1>5, ServeNewest
<1> QED
  BY <1>2, <1>3, <1>4, <1>5 DEF Next

\* If no gen is drawn twice, neither the server nor a pwrite fails, and no call is lost
\* or there is only one client, a commit never puts older data of a client over newer:
\* also when writes were sent again because an answer was lost, and a commit was
\* repeated whose writes are on the disk.
THEOREM NewestStays ==
    ASSUME DrawsDistinct, MaxCrash = 0, Steady, MaxIOError = 0
    PROVE  Spec => NoOlderOverNewer
<1>1. Init => Newest
  BY DEF Init, Newest, OnDisk, Newer
<1>2. /\ IInv /\ Numbered /\ Orderly /\ Copies /\ RightFile /\ Newest /\ [Next]_vars
      => /\ Newest'
         /\ [\A f \in File, o \in Offset :
               LET old == disk[f][o]
                   new == disk'[f][o]
               IN  (old # Blank /\ new # Blank) =>
                      (old[1] = new[1] => old[2] <= new[2])]_vars
  BY NewestStep DEF NotOlder
<1>3. Spec => []IInv
  BY IInvInvariant
<1>4. Spec => []Numbered
  BY NumberedInvariant
<1>5. Spec => []Orderly
  BY OrderlyInvariant
<1>6. Spec => []Copies
  BY CopiesInvariant
<1>7. Spec => []RightFile
  BY WritesGoRight
<1> QED
  BY <1>1, <1>2, <1>3, <1>4, <1>5, <1>6, <1>7, PTL DEF Spec, NoOlderOverNewer

=============================================================================
