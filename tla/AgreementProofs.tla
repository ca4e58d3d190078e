-------------------------- MODULE AgreementProofs --------------------------
(***************************************************************************)
(* What TLAPS proves of Namespace for a server that does not crash,        *)
(* whatever calls are lost: client and server agree on every handle, and   *)
(* the exported tree changes only as the application asked, if there is    *)
(* one client, which renames nothing into a subdirectory; and any clients  *)
(* agree with the server if none of them renames.                          *)
(***************************************************************************)
EXTENDS NamespaceProofs

NoCrash == \A w \in Workload : w.crash = 0 /\ w.torn = 0

\* Each of these is needed: two clients that rename, a crash, and a rename into a
\* subdirectory, whose target the server looks for in the wrong place, break both.
Undisturbed ==
    /\ NoCrash
    /\ \A c, d \in Client : c = d
    /\ \A w \in Workload : w.into \subseteq {Root}

\* The server reads handle fh, if it is one, as path p.
Reads(fh, p) == fh = NoFh \/ table.fhToPath[fh] = p

\* The server has renamed, and the client does not know it yet.
Moving(c) ==
    call[c].phase = "replied" /\ call[c].req.command = "rename" /\ call[c].rep.success = 0

\* The server reads what the client remembers as the client does.  After a rename it
\* does so once the client has moved its own entries.
Agree(c) ==
    call[c].phase # "failed" =>
        /\ \A p \in Path : \/ Reads(pathtofh[c][p], p)
                           \/ Moving(c) /\ p \in {sys[c].path, sys[c].to}
        /\ Moving(c) /\ pathtofh[c][sys[c].to] # NoFh =>
             Reads(pathtofh[c][sys[c].path], sys[c].to)
        /\ (call[c].phase = "replied" /\ call[c].req.command = "lookup") =>
             table.fhToPath[call[c].rep.fh] = Unknown(c)

\* The first handle of a rename is still that of its path.
Holds(c) == fromfh[c] # NoFh => pathtofh[c][sys[c].path] = fromfh[c]

\* A call that has taken effect cannot do so again.
Effected(t, a) ==
    CASE a.cb \in {"mkdir", "create"}            -> t[a.path] # "none"
      [] a.cb \in {"rmdir", "unlink", "rename"}  -> t[a.path] = "none"
      [] OTHER                                   -> FALSE

AtOnce(c) == c \in did => Effected(tree, sys[c])

Alone ==
    /\ up /\ InvTable(table) /\ InvLog(log, table.fhcount)
    /\ \A c \in Client : Agree(c) /\ Holds(c) /\ AtOnce(c)

-----------------------------------------------------------------------------
(* Paths and system calls.                                                  *)

\* A path of the tree leads where it says.
LEMMA NodeIsPlain ==
    ASSUME NEW p \in Node
    PROVE  Location(p) = p
<1>1. \A i \in 1 .. Len(p) : p[i] \notin {"", ".", ".."}
  BY NamespaceAssumption, Zenon
<1>2. DOMAIN p = 1 .. Len(p)
  BY NodeFacts
<1>3. Plain(p)
  BY <1>1, <1>2 DEF Plain
<1> QED
  BY <1>3 DEF Location

\* A path is its parent and its last name.
LEMMA Rejoined ==
    ASSUME NEW p \in Node, p # Root
    PROVE  Append(Front(p), Last(p)) = p
<1>1. p \in Seq(STRING) /\ Len(p) \in Nat
  BY NodeFacts
<1>2. Len(p) > 0
  BY NodeFacts
<1>3. Front(p) = SubSeq(p, 1, Len(p) - 1) /\ Last(p) = p[Len(p)]
  BY DEF Front, Last
<1> QED
  BY <1>1, <1>2, <1>3

\* A call is the record of its fields.
LEMMA AskedFields ==
    ASSUME NEW a \in FT!Asked
    PROVE  /\ a = [cb |-> a.cb, path |-> a.path, to |-> a.to, excl |-> a.excl]
           /\ a.path \in Node /\ a.to \in Node /\ a.excl \in BOOLEAN /\ a.cb \in FT!Calls
BY DEF FT!Asked

\* Once a call has taken effect it is refused, or changes nothing.
LEMMA OnlyOnce ==
    ASSUME NEW t \in FT!Tree, NEW a \in FT!Asked, FT!Succeeds(t, a), Effected(t, a)
    PROVE  FT!Effect(t, a) = t
<1>1. t \in [Node -> FT!Kind] /\ a.path \in Node
  BY DEF FT!Tree, FT!Asked
<1>2. a.cb = "create"
  BY <1>1 DEF FT!Succeeds, Effected, FT!KindOf, FT!CanRename
<1>3. t[a.path] = "file"
  BY <1>1, <1>2 DEF FT!Succeeds, Effected
<1> QED
  BY <1>1, <1>2, <1>3 DEF FT!Effect

\* A call that succeeds takes effect; a rename leaves nothing at the old path.
LEMMA TakesEffect ==
    ASSUME NEW t \in FT!Tree, NEW a \in FT!Asked, FT!Succeeds(t, a),
           a.cb = "rename" => ~IsPrefix(a.path, a.to) /\ ~IsPrefix(a.to, a.path)
    PROVE  Effected(FT!Effect(t, a), a)
<1>1. t \in [Node -> FT!Kind] /\ a.path \in Node
  BY DEF FT!Tree, FT!Asked
<1>2. a.cb \in {"mkdir", "create", "rmdir", "unlink", "rename"}
  BY DEF FT!Succeeds
<1>3. CASE a.cb \in {"mkdir", "create", "rmdir", "unlink"}
  BY <1>1, <1>3 DEF Effected, FT!Effect
<1>4. CASE a.cb = "rename"
  <2>1. FT!Effect(t, a) = FT!Renamed(t, a.path, a.to)
    BY <1>4 DEF FT!Effect
  <2>2. IsPrefix(a.path, a.path)
    <3>1. a.path \in Seq(STRING) /\ Len(a.path) \in Nat
      BY <1>1, NodeFacts
    <3> QED
      BY <3>1, PrefixMeans
  <2>3. FT!Renamed(t, a.path, a.to)[a.path] = "none"
    BY <1>1, <1>4, <2>2, SameOperators DEF FT!Renamed
  <2> QED
    BY <1>4, <2>1, <2>3 DEF Effected
<1> QED
  BY <1>2, <1>3, <1>4

-----------------------------------------------------------------------------
(* A handler.                                                               *)

\* The handles in a request stand for the paths of the callback that sends it, so
\* that findLookup finds them.
LEMMA RequestReads ==
    ASSUME Undisturbed, TypeOK, Shape, Alone, NEW c \in Client, call[c].phase = "sent",
           NEW r, r = call[c].req
    PROVE  /\ r \in Request /\ sys[c] \in FT!Asked /\ sys[c] # NoCall
           /\ r.command = "lookup" =>
                /\ Unknown(c) \in Node /\ Unknown(c) # Root
                /\ table.fhToPath[r.fh] = Front(Unknown(c)) /\ r.name = Last(Unknown(c))
           /\ r.command \notin {"lookup", "getattr"} =>
                sys[c].cb = r.command /\ Callback(c) = sys[c]
           /\ r.command \in {"mkdir", "create"} =>
                /\ sys[c].path # Root /\ table.fhToPath[r.fh] = Front(sys[c].path)
                /\ r.name = Last(sys[c].path) /\ r.excl = sys[c].excl
           /\ r.command = "rename" =>
                /\ sys[c].to # Root /\ Front(sys[c].to) = Root
                /\ table.fhToPath[r.fh] = sys[c].path /\ r.fh = fromfh[c]
                /\ r.todirfh = 0 /\ r.name = Last(sys[c].to)
           /\ r.command \in {"rmdir", "unlink", "readdir"} => table.fhToPath[r.fh] = sys[c].path
           /\ table.fhToPath[r.fh] \in Node
<1>1. /\ r \in Request /\ ClientFits(c) /\ Agree(c) /\ Holds(c)
      /\ \A p \in Path : Reads(pathtofh[c][p], p)
  <2>1. r \in Request /\ ClientFits(c) /\ Agree(c) /\ Holds(c)
    BY DEF TypeOK, Shape, Alone
  <2> QED
    BY <2>1 DEF Agree, Moving
<1>2. /\ sys[c] # NoCall /\ sys[c] \in FT!Asked /\ Asking(c)
      /\ r.command = "lookup" => Handle(c) = NoFh /\ r = LookupRequest(c)
      /\ r.command # "lookup" =>
           /\ Handle(c) # NoFh /\ r = CallRequest(c) /\ r.command = Callback(c).cb
           /\ Callback(c).cb = "rename" => fromfh[c] # NoFh
      /\ r.command \notin {"lookup", "getattr"} => todo[c] = <<>> /\ sys[c].cb = r.command
  BY UnderWay
<1>3. Callback(c) \in FT!Asked /\ Goal(c) \in Node /\ sys[c].path \in Node /\ sys[c].to \in Node
  BY <1>1, <1>2, GoalFacts DEF FT!Asked
<1>4. r.command = "lookup" =>
        /\ Unknown(c) \in Node /\ Unknown(c) # Root /\ Front(Unknown(c)) \in Node
        /\ table.fhToPath[r.fh] = Front(Unknown(c)) /\ r.name = Last(Unknown(c))
  <2> SUFFICES ASSUME r.command = "lookup"
               PROVE  /\ Unknown(c) \in Node /\ Unknown(c) # Root /\ Front(Unknown(c)) \in Node
                      /\ table.fhToPath[r.fh] = Front(Unknown(c)) /\ r.name = Last(Unknown(c))
    OBVIOUS
  <2>1. /\ Unknown(c) \in Node \ {Root} /\ Front(Unknown(c)) \in Node
        /\ pathtofh[c][Front(Unknown(c))] \in Fh
        /\ r.name = Last(Unknown(c)) /\ r.fh = pathtofh[c][Front(Unknown(c))]
    BY <1>1, <1>2, LookupFacts
  <2>2. r.fh # NoFh
    BY <2>1, MaxFhAssumption DEF Fh, NoFh
  <2> QED
    BY <1>1, <2>1, <2>2, NodeFacts DEF Reads
<1>5. r.command \notin {"lookup", "getattr"} => sys[c].cb = r.command /\ Callback(c) = sys[c]
  BY <1>2 DEF Callback
<1>6. r.command # "lookup" =>
        /\ table.fhToPath[Handle(c)] = Goal(c)
        /\ r.command \in {"mkdir", "create"} => r.name = Last(Callback(c).path)
        /\ r.command = "rename" =>
             r.name = Last(Callback(c).to) /\ r.fh = fromfh[c] /\ r.todirfh = Handle(c)
        /\ r.command # "rename" => r.fh = Handle(c)
        /\ r.excl = Callback(c).excl
  <2> SUFFICES ASSUME r.command # "lookup"
               PROVE  /\ table.fhToPath[Handle(c)] = Goal(c)
                      /\ r.command \in {"mkdir", "create"} => r.name = Last(Callback(c).path)
                      /\ r.command = "rename" =>
                           r.name = Last(Callback(c).to) /\ r.fh = fromfh[c] /\ r.todirfh = Handle(c)
                      /\ r.command # "rename" => r.fh = Handle(c)
                      /\ r.excl = Callback(c).excl
    OBVIOUS
  <2>1. table.fhToPath[Handle(c)] = Goal(c)
    BY <1>1, <1>2, <1>3, NodeFacts DEF Reads, Handle
  <2> QED
    BY <1>1, <1>2, <2>1, CallFacts
<1>7. r.command \in {"mkdir", "create"} =>
        /\ sys[c].path # Root /\ table.fhToPath[r.fh] = Front(sys[c].path)
        /\ r.name = Last(sys[c].path) /\ r.excl = sys[c].excl
        /\ table.fhToPath[r.fh] \in Node
  <2> SUFFICES ASSUME r.command \in {"mkdir", "create"}
               PROVE  /\ sys[c].path # Root /\ table.fhToPath[r.fh] = Front(sys[c].path)
                      /\ r.name = Last(sys[c].path) /\ r.excl = sys[c].excl
                      /\ table.fhToPath[r.fh] \in Node
    OBVIOUS
  <2>1. sys[c].path # Root
    BY <1>2, <1>5 DEF Asking
  <2>2. Goal(c) = Front(sys[c].path)
    BY <1>5 DEF Goal
  <2> QED
    BY <1>3, <1>5, <1>6, <2>1, <2>2
<1>8. r.command = "rename" =>
        /\ sys[c].to # Root /\ Front(sys[c].to) = Root
        /\ table.fhToPath[r.fh] = sys[c].path /\ r.fh = fromfh[c]
        /\ r.todirfh = 0 /\ r.name = Last(sys[c].to)
  <2> SUFFICES ASSUME r.command = "rename"
               PROVE  /\ sys[c].to # Root /\ Front(sys[c].to) = Root
                      /\ table.fhToPath[r.fh] = sys[c].path /\ r.fh = fromfh[c]
                      /\ r.todirfh = 0 /\ r.name = Last(sys[c].to)
    OBVIOUS
  <2>1. sys[c].to # Root /\ Front(sys[c].to) \in load.into
    BY <1>2, <1>5 DEF Asking
  <2>2. load.into \subseteq {Root}
    BY DEF Undisturbed, TypeOK
  <2>3. Front(sys[c].to) = Root
    BY <2>1, <2>2
  <2>4. fromfh[c] # NoFh /\ Goal(c) = Front(sys[c].to)
    BY <1>2, <1>5 DEF Goal
  <2>5. Handle(c) = 0
    BY <1>1, <2>3, <2>4 DEF Handle, ClientFits
  <2>6. table.fhToPath[fromfh[c]] = sys[c].path
    BY <1>1, <1>3, <2>4, NodeFacts DEF Holds, Reads
  <2> QED
    BY <1>5, <1>6, <2>1, <2>3, <2>5, <2>6
<1>9. r.command \in {"rmdir", "unlink", "readdir"} => table.fhToPath[r.fh] = sys[c].path
  BY <1>5, <1>6 DEF Goal
<1>10. r.command \notin {"lookup", "rename"} => table.fhToPath[r.fh] \in Node
  BY <1>3, <1>6
<1> QED
  BY <1>1, <1>2, <1>3, <1>4, <1>5, <1>7, <1>8, <1>9, <1>10

\* findLookup and fhToPath[dirfh] find what is there.
LEMMA KnownStays ==
    ASSUME NEW h, table.fhToPath[h] \in Path
    PROVE  /\ Known(table, h) /\ Found(table, log, h) = table /\ Resolves(table, log, h)
           /\ PathOf(table, log, h) = table.fhToPath[h] /\ WithDir(table, h) = table
BY PathAssumption DEF Known, Found, Resolves, PathOf, WithDir

\* The system call a handler makes is the one its client has under way, on the path the
\* application named; and what it is made on is in the table.
LEMMA ServesTheCall ==
    ASSUME Undisturbed, TypeOK, Shape, Alone, NEW c \in Client, call[c].phase = "sent",
           NEW r, r = call[c].req
    PROVE  /\ Seen(r) = table /\ Resolves(table, log, r.fh)
           /\ r.command = "lookup" =>
                WithDir(table, r.fh) = table
                /\ Append(table.fhToPath[r.fh], r.name) = Unknown(c)
           /\ r.command \in {"mkdir", "create"} =>
                Syscall(r.command, Within(r), Root, r.excl) = sys[c]
           /\ r.command \in {"rmdir", "unlink"} =>
                Syscall(r.command, PathOf(table, log, r.fh), Root, FALSE) = sys[c]
           /\ r.command = "rename" =>
                /\ Resolves(table, log, r.todirfh) /\ SeenDir(r) = table /\ SeenBoth(r) = table
                /\ Known(table, r.todirfh) /\ NewPath(table, r) = sys[c].to
                /\ <<r.name>> = sys[c].to /\ RenameCall(r) = sys[c]
<1>1. /\ r \in Request /\ sys[c] \in FT!Asked /\ sys[c] # NoCall
      /\ r.command = "lookup" =>
           /\ Unknown(c) \in Node /\ Unknown(c) # Root
           /\ table.fhToPath[r.fh] = Front(Unknown(c)) /\ r.name = Last(Unknown(c))
      /\ r.command \notin {"lookup", "getattr"} => sys[c].cb = r.command /\ Callback(c) = sys[c]
      /\ r.command \in {"mkdir", "create"} =>
           /\ sys[c].path # Root /\ table.fhToPath[r.fh] = Front(sys[c].path)
           /\ r.name = Last(sys[c].path) /\ r.excl = sys[c].excl
      /\ r.command = "rename" =>
           /\ sys[c].to # Root /\ Front(sys[c].to) = Root
           /\ table.fhToPath[r.fh] = sys[c].path /\ r.fh = fromfh[c]
           /\ r.todirfh = 0 /\ r.name = Last(sys[c].to)
      /\ r.command \in {"rmdir", "unlink", "readdir"} => table.fhToPath[r.fh] = sys[c].path
      /\ table.fhToPath[r.fh] \in Node
  BY RequestReads
<1>2. /\ Known(table, r.fh) /\ Found(table, log, r.fh) = table /\ Resolves(table, log, r.fh)
      /\ PathOf(table, log, r.fh) = table.fhToPath[r.fh] /\ WithDir(table, r.fh) = table
  BY <1>1, KnownStays, RootIsNode
<1>3. Asking(c)
  BY <1>1 DEF Shape, ClientFits
<1>4. sys[c].excl => sys[c].cb = "create"
  BY <1>3 DEF Asking
<1>5. /\ sys[c] = [cb |-> sys[c].cb, path |-> sys[c].path, to |-> sys[c].to, excl |-> sys[c].excl]
      /\ sys[c].path \in Node /\ sys[c].to \in Node /\ sys[c].excl \in BOOLEAN
  BY <1>1, AskedFields
<1>6. /\ Location(sys[c].path) = sys[c].path /\ Location(sys[c].to) = sys[c].to
      /\ Location(Root) = Root
  BY <1>5, RootIsNode, NodeIsPlain
<1>7. r.command = "lookup" => Append(table.fhToPath[r.fh], r.name) = Unknown(c)
  BY <1>1, Rejoined
<1>8. r.command \in {"mkdir", "create"} => Syscall(r.command, Within(r), Root, r.excl) = sys[c]
  <2> SUFFICES ASSUME r.command \in {"mkdir", "create"}
               PROVE  Syscall(r.command, Within(r), Root, r.excl) = sys[c]
    OBVIOUS
  <2>1. Within(r) = sys[c].path
    BY <1>1, <1>2, <1>5, Rejoined DEF Within
  <2>2. sys[c].cb = r.command /\ sys[c].to = Root /\ r.excl = sys[c].excl
    BY <1>1, <1>3 DEF Asking
  <2> QED
    BY <1>5, <1>6, <2>1, <2>2, Zenon DEF Syscall
<1>9. r.command \in {"rmdir", "unlink"} =>
        Syscall(r.command, PathOf(table, log, r.fh), Root, FALSE) = sys[c]
  <2> SUFFICES ASSUME r.command \in {"rmdir", "unlink"}
               PROVE  Syscall(r.command, PathOf(table, log, r.fh), Root, FALSE) = sys[c]
    OBVIOUS
  <2>1. PathOf(table, log, r.fh) = sys[c].path
    BY <1>1, <1>2
  <2>2. sys[c].cb = r.command /\ sys[c].to = Root
    BY <1>1, <1>3 DEF Asking
  <2>3. sys[c].excl = FALSE
    BY <1>4, <1>5, <2>2
  <2> QED
    BY <1>5, <1>6, <2>1, <2>2, <2>3, Zenon DEF Syscall
<1>10. r.command = "rename" =>
         /\ Resolves(table, log, r.todirfh) /\ SeenDir(r) = table /\ SeenBoth(r) = table
         /\ Known(table, r.todirfh) /\ NewPath(table, r) = sys[c].to
         /\ <<r.name>> = sys[c].to /\ RenameCall(r) = sys[c]
  <2> SUFFICES ASSUME r.command = "rename"
               PROVE  /\ Resolves(table, log, r.todirfh)
                      /\ SeenDir(r) = table /\ SeenBoth(r) = table
                      /\ Known(table, r.todirfh) /\ NewPath(table, r) = sys[c].to
                      /\ <<r.name>> = sys[c].to /\ RenameCall(r) = sys[c]
    OBVIOUS
  <2>1. table.fhToPath[r.todirfh] = Root
    BY <1>1 DEF Alone, InvTable, Inv
  <2>2. /\ Known(table, r.todirfh) /\ Found(table, log, r.todirfh) = table
        /\ Resolves(table, log, r.todirfh) /\ PathOf(table, log, r.todirfh) = Root
    BY <2>1, KnownStays, RootIsNode
  <2>3. SeenDir(r) = table /\ SeenBoth(r) = table
    BY <1>2, <2>2 DEF SeenDir, SeenBoth
  <2>4. Append(Root, r.name) = sys[c].to
    BY <1>1, <1>5, Rejoined
  <2>5. <<r.name>> = sys[c].to
    BY <2>4, RootIsNode
  <2>6. NewPath(table, r) = sys[c].to
    BY <2>1, <2>4 DEF NewPath
  <2>7. PathOf(SeenDir(r), log, r.fh) = sys[c].path
    BY <1>1, <1>2, <2>3
  <2>8. sys[c].cb = "rename" /\ sys[c].excl = FALSE
    BY <1>1, <1>4, <1>5
  <2>9. RenameCall(r) = sys[c]
    BY <1>5, <1>6, <2>2, <2>4, <2>7, <2>8, Zenon DEF RenameCall, Syscall
  <2> QED
    BY <2>2, <2>3, <2>5, <2>6, <2>9
<1>11. Seen(r) = table
  BY <1>2 DEF Seen
<1> QED
  BY <1>2, <1>7, <1>8, <1>9, <1>10, <1>11

\* What the handler does to the exported tree.
LEMMA ServeTree ==
    ASSUME Undisturbed, TypeOK, Shape, Alone, NEW c \in Client, call[c].phase = "sent",
           Serve(c, call[c].req)
    PROVE  NotPerformed \/ (FT!Succeeds(tree, sys[c]) /\ Perform(c, sys[c]))
<1> DEFINE r == call[c].req
<1>1. /\ r.command \in {"mkdir", "create"} =>
           Syscall(r.command, Within(r), Root, r.excl) = sys[c]
      /\ r.command \in {"rmdir", "unlink"} =>
           Syscall(r.command, PathOf(table, log, r.fh), Root, FALSE) = sys[c]
      /\ r.command = "rename" => RenameCall(r) = sys[c]
  BY ServesTheCall
<1> HIDE DEF r
<1>2. Serve(c, r)
  BY DEF r
<1>3. CASE ServeAdd(c, r)
  BY <1>1, <1>3 DEF ServeAdd
<1>4. CASE ServeRemove(c, r)
  BY <1>1, <1>4 DEF ServeRemove
<1>5. CASE ServeRenameOver(c, r) \/ ServeRenameNew(c, r)
  BY <1>1, <1>5 DEF ServeRenameOver, ServeRenameNew, Renames
<1>6. CASE \/ ServeLookup(c, r) \/ ServeUnresolved(c, r) \/ ServeReaddir(c, r)
           \/ ServeGetattr(c, r) \/ ServeRenameUnresolved(c, r) \/ ServeRenameRefused(c, r)
  BY <1>6 DEF ServeLookup, Looked, ServeUnresolved, ServeReaddir, ServeGetattr,
              ServeRenameUnresolved, ServeRenameRefused
<1> QED
  BY <1>2, <1>3, <1>4, <1>5, <1>6 DEF Serve

\* Every handle keeps its path.
Grows == \A h \in Fh : Known(table, h) => table'.fhToPath[h] = table.fhToPath[h]

\* addLookup moves no handle.
LEMMA AddGrows ==
    ASSUME table \in Table, InvTable(table), NEW p \in Path, table' = AddLookup(table, p),
           table'.fhcount - 1 \in Fh
    PROVE  Grows /\ table'.fhToPath[table'.pathToFh[p]] = p
<1>1. /\ table.pathToFh \in PathMap /\ table.fhToPath \in FhMap /\ table.fhcount \in Nat
      /\ \A q \in Path, h \in Fh : table.pathToFh[q] = h <=> table.fhToPath[h] = q
      /\ \A h \in Fh : table.fhToPath[h] # NoPath => h < table.fhcount
      /\ \A q \in Path : table.pathToFh[q] # NoFh => table.pathToFh[q] \in Fh
  BY InvMeans
<1>2. Mapped(table, p) \/ table.fhcount \in Fh
  BY RoomToAdd
<1>3. CASE Mapped(table, p)
  BY <1>1, <1>3 DEF AddLookup, Mapped, Grows
<1>4. CASE ~Mapped(table, p)
  <2>1. /\ table'.pathToFh = [table.pathToFh EXCEPT ![p] = table.fhcount]
        /\ table'.fhToPath = [table.fhToPath EXCEPT ![table.fhcount] = p]
    BY <1>4 DEF AddLookup
  <2>2. table'.pathToFh[p] = table.fhcount
    BY <1>1, <2>1 DEF PathMap
  <2>3. table'.fhToPath[table.fhcount] = p
    BY <1>1, <1>2, <1>4, <2>1 DEF FhMap
  <2>4. ASSUME NEW h \in Fh, Known(table, h)
        PROVE  table'.fhToPath[h] = table.fhToPath[h]
    <3>1. h < table.fhcount /\ h \in Nat
      BY <1>1, <2>4, MaxFhAssumption DEF Known, Fh
    <3>2. h # table.fhcount
      BY <1>1, <3>1
    <3> QED
      BY <1>1, <2>1, <3>2 DEF FhMap
  <2> QED
    BY <2>2, <2>3, <2>4 DEF Grows
<1> QED
  BY <1>3, <1>4

\* Nor does readdir.
LEMMA AddAllGrows ==
    ASSUME table \in Table, InvTable(table), NEW P \in SUBSET Path, IsFiniteSet(P),
           table' = AddAll(table, P)
    PROVE  Grows
<1> SUFFICES ASSUME NEW h \in Fh, Known(table, h)
             PROVE  table'.fhToPath[h] = table.fhToPath[h]
  BY DEF Grows
<1>1. h < table.fhcount /\ h \in Nat /\ table.fhcount \in Nat
  BY InvMeans, MaxFhAssumption DEF Known, Fh
<1>2. /\ Cardinality(Fresh(table, P)) \in Nat
      /\ h \notin Numbers(table, P) => table'.fhToPath[h] = table.fhToPath[h]
  <2> DEFINE u == AddAll(table, P)
  <2>1. /\ Cardinality(Fresh(table, P)) \in Nat
        /\ \A i \in Fh : IF i \in Numbers(table, P)
                        THEN u.fhToPath[i] \in Fresh(table, P) /\ u.pathToFh[u.fhToPath[i]] = i
                        ELSE u.fhToPath[i] = table.fhToPath[i]
    BY AddAllFacts
  <2> HIDE DEF u
  <2>2. u = table'
    BY DEF u
  <2> QED
    BY <2>1, <2>2
<1>3. h \notin Numbers(table, P)
  BY <1>1, <1>2 DEF Numbers
<1> QED
  BY <1>2, <1>3

\* The server's handles of the client stay what they are, as long as nothing moves.
LEMMA GrowsAgrees ==
    ASSUME TypeOK, Alone, NEW c \in Client, call[c].phase = "sent", Grows,
           UNCHANGED clientVars, ~Moving(c)',
           (call'[c].phase = "replied" /\ call'[c].req.command = "lookup") =>
               table'.fhToPath[call'[c].rep.fh] = Unknown(c)
    PROVE  Agree(c)'
<1>1. /\ pathtofh'[c] = pathtofh[c] /\ sys'[c] = sys[c] /\ todo'[c] = todo[c]
      /\ fromfh'[c] = fromfh[c] /\ pathtofh[c] \in PathMap
  BY ClientVarTypes DEF clientVars
<1>2. Unknown(c)' = Unknown(c)
  BY <1>1, SameCallback
<1>3. ASSUME NEW p \in Path
      PROVE  Reads(pathtofh[c][p], p)'
  <2>1. Reads(pathtofh[c][p], p)
    BY DEF Alone, Agree, Moving
  <2>2. pathtofh[c][p] = NoFh \/ pathtofh[c][p] \in Fh
    BY <1>1 DEF PathMap
  <2>3. pathtofh[c][p] \in Fh /\ table.fhToPath[pathtofh[c][p]] = p => Known(table, pathtofh[c][p])
    BY PathAssumption DEF Known
  <2> QED
    BY <1>1, <2>1, <2>2, <2>3 DEF Reads, Grows
<1> QED
  BY <1>1, <1>2, <1>3 DEF Agree

\* After a rename over something: every handle keeps its path but the one of what was
\* overwritten and the one of what was moved.
LEMMA OverAgrees ==
    ASSUME TypeOK, Alone, NEW c \in Client, call[c].phase = "sent", ClientFits(c),
           NEW r, r = call[c].req, r.fh = fromfh[c], fromfh[c] # NoFh,
           table.fhToPath[r.fh] = sys[c].path, <<r.name>> = sys[c].to,
           sys[c] \in FT!Asked,
           Mapped(table, sys[c].to), table' = Over(table, r), UNCHANGED clientVars, Moving(c)'
    PROVE  Agree(c)'
<1>1. /\ pathtofh'[c] = pathtofh[c] /\ sys'[c] = sys[c] /\ pathtofh[c] \in PathMap
      /\ r.fh \in Fh /\ fromfh[c] \in Fh
  BY ClientVarTypes DEF clientVars
<1>2. /\ table.pathToFh \in PathMap /\ table.fhToPath \in FhMap
      /\ \A p \in Path, h \in Fh : table.pathToFh[p] = h <=> table.fhToPath[h] = p
      /\ \A p \in Path : table.pathToFh[p] # NoFh => table.pathToFh[p] \in Fh
  BY InvMeans DEF TypeOK, Alone
<1>3. sys[c].path \in Path /\ sys[c].to \in Path
  BY RootIsNode DEF FT!Asked
<1>4. table'.fhToPath = [table.fhToPath EXCEPT ![table.pathToFh[sys[c].to]] = NoPath,
                                               ![r.fh] = sys[c].to]
  BY DEF Over
<1>5. table'.fhToPath[r.fh] = sys[c].to
  BY <1>1, <1>2, <1>4 DEF FhMap
<1>6. ASSUME NEW p \in Path, p # sys[c].path, p # sys[c].to
      PROVE  Reads(pathtofh[c][p], p)'
  <2>1. Reads(pathtofh[c][p], p)
    BY DEF Alone, Agree, Moving
  <2>2. CASE pathtofh[c][p] = NoFh
    BY <1>1, <2>2 DEF Reads
  <2>3. CASE pathtofh[c][p] # NoFh
    <3>1. pathtofh[c][p] \in Fh /\ table.fhToPath[pathtofh[c][p]] = p
      BY <1>1, <2>1, <2>3 DEF Reads, PathMap
    <3>2. pathtofh[c][p] # r.fh
      BY <1>6, <3>1
    <3>3. table.fhToPath[table.pathToFh[sys[c].to]] = sys[c].to
      BY <1>2, <1>3 DEF Mapped
    <3>4. pathtofh[c][p] # table.pathToFh[sys[c].to]
      BY <1>6, <3>1, <3>3
    <3>5. table'.fhToPath[pathtofh[c][p]] = p
      BY <1>2, <1>4, <3>1, <3>2, <3>4 DEF FhMap
    <3> QED
      BY <1>1, <3>5 DEF Reads
  <2> QED
    BY <2>2, <2>3
<1>7. pathtofh[c][sys[c].path] = r.fh
  BY DEF Alone, Holds
<1>8. Reads(pathtofh[c][sys[c].path], sys[c].to)'
  BY <1>1, <1>5, <1>7 DEF Reads
<1>9. call'[c].req.command # "lookup"
  BY DEF Moving
<1> QED
  BY <1>1, <1>6, <1>8, <1>9 DEF Agree

\* After a rename to a new name the client, too, does not know the new name.
LEMMA NewAgrees ==
    ASSUME TypeOK, Alone, NEW c \in Client, call[c].phase = "sent", ClientFits(c),
           NEW r, r = call[c].req, r.fh = fromfh[c], fromfh[c] # NoFh,
           table.fhToPath[r.fh] = sys[c].path, sys[c] \in FT!Asked,
           ~Mapped(table, sys[c].to), table' = Gone(AddLookup(table, sys[c].to), r),
           UNCHANGED clientVars, Moving(c)'
    PROVE  Agree(c)'
<1>1. /\ pathtofh'[c] = pathtofh[c] /\ sys'[c] = sys[c] /\ pathtofh[c] \in PathMap
      /\ r.fh \in Fh /\ fromfh[c] \in Fh
  BY ClientVarTypes DEF clientVars
<1>2. /\ table.pathToFh \in PathMap /\ table.fhToPath \in FhMap /\ table.fhcount \in Nat
      /\ \A p \in Path, h \in Fh : table.pathToFh[p] = h <=> table.fhToPath[h] = p
      /\ \A h \in Fh : table.fhToPath[h] # NoPath => h < table.fhcount
  BY InvMeans DEF TypeOK, Alone
<1>3. sys[c].path \in Path /\ sys[c].to \in Path
  BY RootIsNode DEF FT!Asked
<1>4. table'.fhToPath = [table.fhToPath EXCEPT ![table.fhcount] = sys[c].to, ![r.fh] = NoPath]
  BY DEF Gone, AddLookup
<1>5. ASSUME NEW p \in Path, pathtofh[c][p] # NoFh, Reads(pathtofh[c][p], p)
      PROVE  /\ pathtofh[c][p] \in Fh /\ table.fhToPath[pathtofh[c][p]] = p
             /\ pathtofh[c][p] # table.fhcount /\ p # sys[c].to
  <2>1. pathtofh[c][p] \in Fh /\ table.fhToPath[pathtofh[c][p]] = p
    BY <1>1, <1>5 DEF Reads, PathMap
  <2>2. pathtofh[c][p] < table.fhcount /\ pathtofh[c][p] \in Nat
    BY <1>2, <2>1, PathAssumption, MaxFhAssumption DEF Fh
  <2>3. p # sys[c].to
    BY <1>2, <1>5, <2>1 DEF Mapped
  <2> QED
    BY <1>2, <2>1, <2>2, <2>3
<1>6. \A p \in Path : Reads(pathtofh[c][p], p)
  BY DEF Alone, Agree, Moving
<1>7. ASSUME NEW p \in Path, p # sys[c].path
      PROVE  Reads(pathtofh[c][p], p)'
  <2>1. CASE pathtofh[c][p] = NoFh
    BY <1>1, <2>1 DEF Reads
  <2>2. CASE pathtofh[c][p] # NoFh
    <3>1. /\ pathtofh[c][p] \in Fh /\ table.fhToPath[pathtofh[c][p]] = p
          /\ pathtofh[c][p] # table.fhcount
      BY <1>5, <1>6, <2>2
    <3>2. pathtofh[c][p] # r.fh
      BY <1>7, <3>1
    <3>3. table'.fhToPath[pathtofh[c][p]] = p
      BY <1>2, <1>4, <3>1, <3>2 DEF FhMap
    <3> QED
      BY <1>1, <3>3 DEF Reads
  <2> QED
    BY <2>1, <2>2
<1>8. pathtofh[c][sys[c].to] = NoFh
  BY <1>3, <1>5, <1>6
<1>9. call'[c].req.command # "lookup"
  BY DEF Moving
<1> QED
  BY <1>1, <1>7, <1>8, <1>9 DEF Agree

\* Whatever handler runs, client and server still agree, or a rename is now under way.
LEMMA ServeAgrees ==
    ASSUME Undisturbed, TypeOK, Shape, Alone, NEW c \in Client, ServeCall(c)
    PROVE  Agree(c)'
<1> DEFINE r == call[c].req
<1>1. /\ call[c].phase = "sent" /\ Serve(c, r) /\ table'.fhcount - 1 \in Fh
      /\ UNCHANGED clientVars
  BY DEF ServeCall
<1>2. /\ r \in Request /\ sys[c] \in FT!Asked /\ table.fhToPath[r.fh] \in Node
      /\ r.command = "lookup" => Unknown(c) \in Node
      /\ r.command = "rename" => /\ table.fhToPath[r.fh] = sys[c].path /\ r.fh = fromfh[c]
                                 /\ r.todirfh = 0 /\ sys[c].cb = "rename" /\ Callback(c) = sys[c]
  BY <1>1, RequestReads
<1>3. /\ Seen(r) = table /\ Resolves(table, log, r.fh)
      /\ r.command = "lookup" =>
           WithDir(table, r.fh) = table /\ Append(table.fhToPath[r.fh], r.name) = Unknown(c)
      /\ r.command = "rename" =>
           /\ Resolves(table, log, r.todirfh) /\ SeenDir(r) = table /\ SeenBoth(r) = table
           /\ Known(table, r.todirfh) /\ NewPath(table, r) = sys[c].to /\ <<r.name>> = sys[c].to
  BY <1>1, ServesTheCall
<1>4. r.command = "rename" => fromfh[c] # NoFh
  BY <1>1, <1>2, UnderWay
<1>5. ClientFits(c) /\ table \in Table /\ InvTable(table)
  BY DEF Shape, TypeOK, Alone
<1>6. call \in [Client -> Rpc] /\ call[c].req = r
  BY ClientVarTypes
<1>7. r = call[c].req
  OBVIOUS
<1> HIDE DEF r
<1>8. CASE ServeLookup(c, r)
  <2>1. /\ Unknown(c) \in Path /\ table' = AddLookup(table, Unknown(c)) /\ r.command = "lookup"
        /\ Reply(c, [NoResponse EXCEPT !.fh = AddLookup(table, Unknown(c)).pathToFh[Unknown(c)]])
    BY <1>3, <1>8 DEF ServeLookup, Looked
  <2>2. Grows /\ table'.fhToPath[table'.pathToFh[Unknown(c)]] = Unknown(c)
    BY <1>1, <1>5, <2>1, AddGrows
  <2>3. call'[c].rep.fh = table'.pathToFh[Unknown(c)] /\ call'[c].req = r
    BY <1>6, <2>1 DEF NoResponse, Reply, Rpc
  <2>4. ~Moving(c)'
    BY <2>1, <2>3 DEF Moving
  <2> QED
    BY <1>1, <2>2, <2>3, <2>4, GrowsAgrees
<1>9. CASE \/ ServeUnresolved(c, r) \/ ServeRenameUnresolved(c, r)
  BY <1>3, <1>9 DEF ServeUnresolved, ServeRenameUnresolved
<1>10. ASSUME Grows, r.command \notin {"lookup", "rename"}, \E rep : Reply(c, rep)
       PROVE  Agree(c)'
  <2>1. call'[c].req = r
    BY <1>6, <1>10 DEF Reply, Rpc
  <2>2. ~Moving(c)'
    BY <1>10, <2>1 DEF Moving
  <2> QED
    BY <1>1, <1>10, <2>1, <2>2, GrowsAgrees
<1>11. table' = table => Grows
  BY DEF Grows
<1>12. CASE ServeAdd(c, r)
  <2>1. /\ Within(r) \in Path
        /\ table' = table \/ table' = AddLookup(table, Within(r))
        /\ Reply(c, NoResponse) \/ Reply(c, Refused)
        /\ r.command \in {"mkdir", "create"}
    BY <1>3, <1>12 DEF ServeAdd
  <2>2. Grows
    BY <1>1, <1>5, <1>11, <2>1, AddGrows
  <2> QED
    BY <1>10, <2>1, <2>2
<1>13. CASE ServeRemove(c, r)
  <2>1. /\ table' = table /\ r.command \in {"rmdir", "unlink"}
        /\ Reply(c, NoResponse) \/ Reply(c, Refused)
    BY <1>3, <1>13 DEF ServeRemove
  <2> QED
    BY <1>10, <1>11, <2>1
<1>14. CASE ServeReaddir(c, r)
  <2> DEFINE q == PathOf(table, log, r.fh)
             P == {Append(q, n) : n \in Entries(Location(q))}
  <2>1. /\ table' = table \/ (P \in SUBSET Path /\ table' = AddAll(table, P))
        /\ r.command = "readdir"
        /\ Reply(c, NoResponse) \/ Reply(c, Refused)
    BY <1>3, <1>14 DEF ServeReaddir
  <2>2. IsFiniteSet(P)
    BY EntriesFinite DEF TypeOK
  <2> HIDE DEF P
  <2>3. Grows
    BY <1>5, <1>11, <2>1, <2>2, AddAllGrows
  <2> QED
    BY <1>10, <2>1, <2>3
<1>15. CASE ServeGetattr(c, r)
  <2>1. /\ table' = table \/ table' = AddLookup(table, r.path)
        /\ r.command = "getattr" /\ \E rep : Reply(c, rep)
    BY <1>3, <1>15 DEF ServeGetattr
  <2>2. r.path \in Path
    BY <1>2 DEF Request
  <2>3. Grows
    BY <1>1, <1>5, <1>11, <2>1, <2>2, AddGrows
  <2> QED
    BY <1>10, <2>1, <2>3
<1>16. CASE ServeRenameRefused(c, r)
  <2>1. table' = table /\ Reply(c, Refused) /\ r.command = "rename"
    BY <1>3, <1>16 DEF ServeRenameRefused, Renames
  <2>2. call'[c].req = r /\ call'[c].rep.success = -1
    BY <1>6, <2>1 DEF Refused, NoResponse, Reply, Rpc
  <2>3. ~Moving(c)'
    BY <2>2 DEF Moving
  <2> QED
    BY <1>1, <1>11, <2>1, <2>2, <2>3, GrowsAgrees
<1>17. ASSUME Reply(c, NoResponse), r.command = "rename"
       PROVE  Moving(c)'
  <2>1. call'[c].req = r /\ call'[c].rep.success = 0 /\ call'[c].phase = "replied"
    BY <1>6, <1>17 DEF NoResponse, Reply, Rpc
  <2> QED
    BY <1>17, <2>1 DEF Moving
<1>18. CASE ServeRenameOver(c, r)
  <2>1. /\ r.command = "rename" /\ table' = Over(table, r) /\ Mapped(table, sys[c].to)
        /\ Reply(c, NoResponse)
    BY <1>3, <1>18 DEF ServeRenameOver, Renames, Overwrites
  <2>2. Moving(c)'
    BY <1>17, <2>1
  <2> QED
    BY <1>1, <1>2, <1>3, <1>4, <1>5, <1>7, <2>1, <2>2, OverAgrees
<1>19. CASE ServeRenameNew(c, r)
  <2>1. r.command = "rename" /\ ~Overwrites(table, r)
    BY <1>3, <1>19 DEF ServeRenameNew, Renames
  <2>2. /\ table' = Gone(AddLookup(table, sys[c].to), r) /\ Reply(c, NoResponse)
    BY <1>3, <1>19, <2>1 DEF ServeRenameNew
  <2>3. ~Mapped(table, sys[c].to)
    BY <1>2, <1>3, <2>1 DEF Overwrites
  <2>4. Moving(c)'
    BY <1>17, <2>1, <2>2
  <2> QED
    BY <1>1, <1>2, <1>4, <1>5, <1>7, <2>1, <2>2, <2>3, <2>4, NewAgrees
<1> QED
  BY <1>1, <1>8, <1>9, <1>12, <1>13, <1>14, <1>15, <1>16, <1>18, <1>19 DEF Serve

\* A handler keeps the invariant.
LEMMA ServeKeepsAlone ==
    ASSUME Undisturbed, TypeOK, Shape, Alone, NEW c \in Client, ServeCall(c)
    PROVE  Alone'
<1>1. /\ call[c].phase = "sent" /\ Serve(c, call[c].req) /\ table'.fhcount - 1 \in Fh
      /\ up' = up /\ UNCHANGED clientVars
  BY DEF ServeCall
<1>2. /\ call[c].req \in Request /\ sys[c] \in FT!Asked /\ sys[c] # NoCall
      /\ table.fhToPath[call[c].req.fh] \in Node
  BY <1>1, RequestReads
<1>3. Known(table, call[c].req.fh)
  BY <1>2, KnownStays, RootIsNode
<1>4. up /\ InvTable(table) /\ InvLog(log, table.fhcount) /\ Holds(c) /\ AtOnce(c)
  BY DEF Alone
<1>5. InvTable(table') /\ InvLog(log', table'.fhcount)
  BY <1>1, <1>2, <1>3, <1>4, ServeInverts
<1>6. Agree(c)' /\ Holds(c)'
  BY <1>1, <1>4, ServeAgrees DEF Holds, clientVars
<1>7. AtOnce(c)'
  <2>1. CASE NotPerformed
    BY <1>1, <1>4, <2>1 DEF NotPerformed, AtOnce, clientVars
  <2>2. CASE FT!Succeeds(tree, sys[c]) /\ Perform(c, sys[c])
    <3>1. sys[c].cb = "rename" =>
            ~IsPrefix(sys[c].path, sys[c].to) /\ ~IsPrefix(sys[c].to, sys[c].path)
      BY <1>2 DEF Shape, ClientFits, Asking
    <3>2. Effected(FT!Effect(tree, sys[c]), sys[c])
      BY <1>2, <2>2, <3>1, TakesEffect DEF TypeOK
    <3> QED
      BY <1>1, <2>2, <3>2 DEF Perform, AtOnce, clientVars
  <2> QED
    BY <1>1, <2>1, <2>2, ServeTree
<1>8. \A d \in Client : d = c
  BY DEF Undisturbed
<1> QED
  BY <1>1, <1>4, <1>5, <1>6, <1>7, <1>8 DEF Alone, InvTable, InvLog

-----------------------------------------------------------------------------
(* The client.                                                              *)

\* A client that has done nothing, or has given up what it knew.
LEMMA FreshAgrees ==
    ASSUME NEW c \in Client, InvTable(table), table \in Table, NEW p \in Path
    PROVE  Reads(ClientPaths[p], p)
BY InvMeans DEF ClientPaths, Reads

\* So does a step of the client: it enters the handle it was answered for the path it
\* asked for, and moves its own entry as the server moved its own.
LEMMA ClientKeepsAlone ==
    ASSUME Undisturbed, TypeOK, Shape, Alone, NEW c \in Client, Ask(c) \/ Proceed(c)
    PROVE  Alone'
<1>1. /\ UNCHANGED <<serverVars, tree>>
      /\ up' = up /\ table' = table /\ log' = log /\ tree' = tree
  BY DEF Ask, Proceed, SendLookup, SendCall, Send, TakeFrom, GotHandle, Stated, Passed,
         Removed, MovesOver, MovesNew, Aborts, Moves, Answered, Retry, serverVars
<1>2. /\ up /\ InvTable(table) /\ InvLog(log, table.fhcount) /\ table \in Table
      /\ ClientFits(c) /\ Agree(c) /\ Holds(c) /\ AtOnce(c)
  BY DEF Alone, Shape, TypeOK
<1>3. /\ pathtofh \in [Client -> PathMap] /\ sys \in [Client -> FT!Asked \cup {NoCall}]
      /\ fromfh \in [Client -> Fh \cup {NoFh}] /\ call \in [Client -> Rpc]
      /\ todo \in [Client -> Seq(Node)] /\ NoRpc \in Rpc /\ NoRpc.phase = "none"
  BY ClientVarTypes DEF NoRpc
<1>4. ASSUME UNCHANGED <<sys, did>>
      PROVE  AtOnce(c)'
  BY <1>1, <1>2, <1>4 DEF AtOnce
<1>5. ASSUME Return(c)
      PROVE  Holds(c)' /\ AtOnce(c)'
  BY <1>3, <1>5 DEF Return, Holds, AtOnce
<1>6. ASSUME call'[c].phase \in {"none", "sent"},
             \A p \in Path : Reads(pathtofh'[c][p], p)
      PROVE  Agree(c)'
  BY <1>1, <1>6 DEF Agree, Reads, Moving
<1>7. ASSUME call[c].phase # "failed", ~Moving(c)
      PROVE  \A p \in Path : Reads(pathtofh[c][p], p)
  BY <1>2, <1>7 DEF Agree
<1>8. ASSUME Ask(c)
      PROVE  Agree(c)' /\ Holds(c)' /\ AtOnce(c)'
  <2>1. sys[c] = NoCall /\ UNCHANGED <<pathtofh, fromfh, call, did>>
    BY <1>8 DEF Ask
  <2>2. c \notin did /\ fromfh[c] = NoFh /\ call[c].phase = "none"
    BY <1>2, <2>1 DEF ClientFits
  <2> QED
    BY <1>6, <1>7, <2>1, <2>2 DEF Moving, Holds, AtOnce
<1>9. ASSUME SendLookup(c) \/ SendCall(c)
      PROVE  Agree(c)' /\ Holds(c)' /\ AtOnce(c)'
  <2>1. /\ call[c].phase = "none" /\ UNCHANGED <<pathtofh, fromfh, sys, did>>
        /\ \/ Send(c, LookupRequest(c))
           \/ Send(c, CallRequest(c))
    BY <1>9 DEF SendLookup, SendCall, Send, Running, clientVars
  <2>2. call'[c].phase = "sent"
    BY <1>3, <2>1 DEF Send
  <2> QED
    BY <1>2, <1>4, <1>6, <1>7, <2>1, <2>2 DEF Moving, Holds
<1>10. ASSUME TakeFrom(c)
      PROVE  Agree(c)' /\ Holds(c)' /\ AtOnce(c)'
  <2>1. /\ call[c].phase = "none" /\ UNCHANGED <<pathtofh, call, sys, did>>
        /\ Callback(c).cb = "rename" /\ fromfh[c] = NoFh /\ Handle(c) # NoFh
        /\ fromfh' = [fromfh EXCEPT ![c] = Handle(c)]
    BY <1>10 DEF TakeFrom, Running
  <2>2. Callback(c) = sys[c]
    BY <2>1 DEF Callback
  <2>3. Handle(c) = pathtofh[c][sys[c].path]
    BY <2>1, <2>2 DEF Handle, Goal
  <2>4. Holds(c)'
    BY <1>3, <2>1, <2>3 DEF Holds
  <2> QED
    BY <1>4, <1>6, <1>7, <2>1, <2>4 DEF Moving
<1>11. ASSUME GotHandle(c)
      PROVE  Agree(c)' /\ Holds(c)' /\ AtOnce(c)'
  <2>1. /\ call[c].phase = "replied" /\ call'[c] = NoRpc /\ call[c].req.command = "lookup"
        /\ call[c].rep.fh \in Fh
        /\ pathtofh' = [pathtofh EXCEPT ![c][Unknown(c)] = call[c].rep.fh]
        /\ UNCHANGED <<sys, fromfh, did>>
    BY <1>3, <1>11, AnsweredFacts DEF GotHandle, Response
  <2>2. /\ sys[c] # NoCall /\ Handle(c) = NoFh
    BY <2>1, UnderWay
  <2>3. Unknown(c) \in Path /\ pathtofh[c][Unknown(c)] = NoFh
    BY <1>2, <2>2, LookupFacts, RootIsNode
  <2>4. table.fhToPath[call[c].rep.fh] = Unknown(c)
    BY <1>2, <2>1 DEF Agree
  <2>5. \A p \in Path : pathtofh'[c][p] = IF p = Unknown(c) THEN call[c].rep.fh ELSE pathtofh[c][p]
    BY <1>3, <2>1 DEF PathMap
  <2>6. \A p \in Path : Reads(pathtofh'[c][p], p)
    BY <1>7, <2>1, <2>4, <2>5 DEF Reads, Moving
  <2>7. Holds(c)'
    <3>1. CASE fromfh[c] = NoFh
      BY <2>1, <3>1 DEF Holds
    <3>2. CASE fromfh[c] # NoFh
      <4>1. sys[c].path \in Path
        BY <1>3, <2>2, RootIsNode DEF FT!Asked
      <4> QED
        BY <1>2, <2>1, <2>3, <2>5, <3>2, <4>1 DEF Holds
    <3> QED
      BY <3>1, <3>2
  <2> QED
    BY <1>3, <1>4, <1>6, <2>1, <2>6, <2>7
<1>12. ASSUME Stated(c) \/ Passed(c)
      PROVE  Agree(c)' /\ Holds(c)' /\ AtOnce(c)'
  <2>1. /\ call[c].phase = "replied" /\ call'[c] = NoRpc /\ pathtofh' = pathtofh
        /\ Return(c) \/ UNCHANGED <<sys, fromfh, did>>
    BY <1>12, AnsweredFacts DEF Stated, Passed
  <2>2. ~Moving(c)
    BY <1>12 DEF Stated, Passed, Moving
  <2>3. Holds(c)' /\ AtOnce(c)'
    BY <1>2, <1>4, <1>5, <2>1 DEF Holds
  <2> QED
    BY <1>3, <1>6, <1>7, <2>1, <2>2, <2>3
<1>13. ASSUME Removed(c)
      PROVE  Agree(c)' /\ Holds(c)' /\ AtOnce(c)'
  <2>1. /\ call[c].phase = "replied" /\ call'[c] = NoRpc /\ ~Moving(c) /\ Return(c)
        /\ pathtofh' = [pathtofh EXCEPT ![c][sys[c].path] = NoFh]
    BY <1>13, AnsweredFacts DEF Removed, Moving
  <2>2. \A p \in Path : pathtofh'[c][p] = NoFh \/ pathtofh'[c][p] = pathtofh[c][p]
    BY <1>3, <2>1 DEF PathMap
  <2> QED
    BY <1>3, <1>5, <1>6, <1>7, <2>1, <2>2 DEF Reads
<1>14. ASSUME MovesOver(c) \/ MovesNew(c)
      PROVE  Agree(c)' /\ Holds(c)' /\ AtOnce(c)'
  <2>1. /\ call[c].phase = "replied" /\ call'[c] = NoRpc /\ Moving(c) /\ Return(c)
        /\ call[c].req.command = "rename"
        /\ \/ ToFh(c) = NoFh /\ pathtofh' = [pathtofh EXCEPT ![c][sys[c].path] = NoFh]
           \/ /\ ToFh(c) # NoFh
              /\ pathtofh' = [pathtofh EXCEPT ![c][sys[c].path] = NoFh, ![c][sys[c].to] = FromFh(c)]
    BY <1>14, AnsweredFacts DEF MovesOver, MovesNew, Moves, Moving
  <2>2. /\ fromfh[c] # NoFh
    BY <2>1, UnderWay DEF Callback
  <2>3. FromFh(c) = pathtofh[c][sys[c].path]
    BY <1>2, <2>2 DEF Holds, FromFh
  <2>4. ToFh(c) # NoFh => Reads(FromFh(c), sys[c].to)
    BY <1>2, <2>1, <2>3 DEF Agree, ToFh
  <2>5. ASSUME NEW p \in Path
        PROVE  Reads(pathtofh'[c][p], p)
    <3>1. \/ p \in {sys[c].path, sys[c].to}
          \/ Reads(pathtofh[c][p], p) /\ pathtofh'[c][p] = pathtofh[c][p]
      BY <1>2, <1>3, <2>1 DEF Agree, PathMap
    <3>2. CASE p = sys[c].to
      <4>1. \/ ToFh(c) = NoFh /\ pathtofh'[c][p] = NoFh
            \/ ToFh(c) # NoFh /\ pathtofh'[c][p] = FromFh(c)
        BY <1>3, <2>1, <3>2 DEF PathMap, ToFh
      <4> QED
        BY <2>4, <3>2, <4>1 DEF Reads
    <3>3. CASE p = sys[c].path /\ p # sys[c].to
      <4>1. pathtofh'[c][p] = NoFh
        BY <1>3, <2>1, <3>3 DEF PathMap
      <4> QED
        BY <4>1 DEF Reads
    <3> QED
      BY <3>1, <3>2, <3>3
  <2> QED
    BY <1>3, <1>5, <1>6, <2>1, <2>5
<1>15. ASSUME Aborts(c)
      PROVE  Agree(c)' /\ Holds(c)' /\ AtOnce(c)'
  <2>1. call'[c] = NoRpc /\ Return(c) /\ pathtofh'[c] = ClientPaths
    BY <1>3, <1>15, AnsweredFacts DEF Aborts, Moves
  <2> QED
    BY <1>2, <1>3, <1>5, <1>6, <2>1, FreshAgrees
<1>16. ASSUME Retry(c)
      PROVE  Agree(c)' /\ Holds(c)' /\ AtOnce(c)'
  <2>1. /\ call[c].phase = "failed" /\ call'[c] = NoRpc /\ pathtofh'[c] = ClientPaths
        /\ UNCHANGED <<sys, did>>
        /\ fromfh' = [fromfh EXCEPT ![c] = IF call[c].req.command = "lookup" THEN @ ELSE NoFh]
    BY <1>3, <1>16 DEF Retry
  <2>2. call[c].req.command = "lookup" => fromfh[c] = NoFh
    <3> SUFFICES ASSUME call[c].req.command = "lookup", fromfh[c] # NoFh
                 PROVE  FALSE
      OBVIOUS
    <3>1. sys[c] # NoCall /\ Asking(c) /\ Handle(c) = NoFh
      BY <2>1, UnderWay
    <3>2. todo[c] = <<>> /\ sys[c].cb = "rename"
      BY <1>2 DEF ClientFits
    <3>3. Goal(c) = Front(sys[c].to)
      BY <3>2 DEF Goal, Callback
    <3>4. Front(sys[c].to) \in load.into /\ load.into \subseteq {Root}
      BY <3>1, <3>2 DEF Asking, Undisturbed, TypeOK
    <3>5. Handle(c) = 0
      BY <1>2, <3>3, <3>4 DEF Handle, ClientFits
    <3> QED
      BY <3>1, <3>5 DEF NoFh
  <2>3. Holds(c)'
    BY <1>3, <2>1, <2>2 DEF Holds
  <2> QED
    BY <1>2, <1>3, <1>4, <1>6, <2>1, <2>3, FreshAgrees
<1>17. Agree(c)' /\ Holds(c)' /\ AtOnce(c)'
  BY <1>8, <1>9, <1>10, <1>11, <1>12, <1>13, <1>14, <1>15, <1>16 DEF Proceed
<1>18. \A d \in Client : d = c
  BY DEF Undisturbed
<1> QED
  BY <1>1, <1>2, <1>17, <1>18 DEF Alone, InvTable, InvLog

-----------------------------------------------------------------------------
(* The theorems.                                                            *)

\* Nobody knows a handle but the root's at first.
LEMMA AloneInit == Init => Alone
<1> SUFFICES ASSUME Init PROVE Alone
  OBVIOUS
<1>1. /\ up /\ table = NewTable /\ log = NoLog /\ did = {}
      /\ \A c \in Client : /\ pathtofh[c] = ClientPaths /\ fromfh[c] = NoFh
                           /\ call[c].phase = "none"
  BY DEF Init, NoRpc
<1>2. table \in Table
  BY InitFacts DEF TypeOK
<1>3. InvTable(table) /\ InvLog(log, table.fhcount)
  BY <1>1, InvNew
<1>4. \A c \in Client : Agree(c) /\ Holds(c) /\ AtOnce(c)
  BY <1>1, <1>2, <1>3, FreshAgrees DEF Agree, Holds, AtOnce, Moving
<1> QED
  BY <1>1, <1>3, <1>4 DEF Alone

\* An answer that is lost sends the client back to the beginning of its callback.
LEMMA LoseKeepsAlone ==
    ASSUME Undisturbed, TypeOK, Alone, NEW c \in Client, Lose(c)
    PROVE  Alone'
<1>1. /\ UNCHANGED <<up, table, log, tree, pathtofh, fromfh, sys, did>>
      /\ call' = [call EXCEPT ![c].phase = "failed"]
  BY DEF Lose, serverVars, clientVars
<1>2. call'[c].phase = "failed"
  BY <1>1, ClientVarTypes DEF Rpc
<1>3. Agree(c)' /\ Holds(c)' /\ AtOnce(c)'
  BY <1>1, <1>2 DEF Agree, Holds, AtOnce, Alone
<1>4. \A d \in Client : d = c
  BY DEF Undisturbed
<1> QED
  BY <1>1, <1>3, <1>4 DEF Alone, InvTable, InvLog

\* The server never stops: no crash is to come, and no handler runs into undefined
\* behaviour.
LEMMA StaysUp ==
    ASSUME NoCrash, TypeOK, up, InvTable(table), InvLog(log, table.fhcount)
    PROVE  ~Crash /\ ~Restart
           /\ \A c \in Client : ~Refuse(c) /\ ~CrashInStore(c) /\ ~CrashInCall(c)
<1>1. ~(faults.crash < load.crash) /\ ~(faults.torn < load.torn)
  <2>1. load.crash = 0 /\ load.torn = 0
    BY DEF NoCrash, TypeOK
  <2>2. faults.crash \in 0 .. 0 /\ faults.torn \in 0 .. 0
    BY <2>1 DEF TypeOK
  <2> QED
    BY <2>1, <2>2
<1>2. ~Crash /\ ~Restart
  BY <1>1 DEF Crash, Restart
<1>3. ASSUME NEW c \in Client
      PROVE  ~Refuse(c) /\ ~CrashInStore(c)
  BY <1>1 DEF Refuse, CrashInStore
<1>4. ASSUME NEW c \in Client, CrashInCall(c)
      PROVE  FALSE
  <2>1. PICK a \in Begun(call[c].req) : FT!Succeeds(tree, a)
    BY <1>4 DEF CrashInCall
  <2>2. call[c].req \in Request
    BY DEF TypeOK
  <2>3. ~Undefined(call[c].req)
    BY <2>1, <2>2, ErasesDefined
  <2> QED
    BY <1>1, <1>4, <2>3 DEF CrashInCall
<1> QED
  BY <1>2, <1>3, <1>4

\* The invariant is inductive.
LEMMA AloneStep ==
    ASSUME Undisturbed, TypeOK, Shape, Alone, [Next]_vars
    PROVE  Alone'
<1>1. ASSUME NEW c \in Client, Ask(c) \/ Proceed(c) PROVE Alone'
  BY <1>1, ClientKeepsAlone
<1>2. ASSUME NEW c \in Client, ServeCall(c) PROVE Alone'
  BY <1>2, ServeKeepsAlone
<1>3. ASSUME NEW c \in Client, Lose(c) PROVE Alone'
  BY <1>3, LoseKeepsAlone
<1>4. CASE UNCHANGED vars
  <2>1. UNCHANGED <<up, table, log, tree, pathtofh, fromfh, sys, todo, call, did>>
    BY <1>4 DEF vars, serverVars, clientVars
  <2>2. ASSUME NEW c \in Client PROVE Unknown(c)' = Unknown(c)
    BY <2>1 DEF Unknown, Goal, Callback
  <2> QED
    BY <2>1, <2>2 DEF Alone, InvTable, InvLog, Agree, Holds, AtOnce, Moving, Reads
<1>5. NoCrash /\ up /\ InvTable(table) /\ InvLog(log, table.fhcount)
  BY DEF Undisturbed, Alone
<1> QED
  BY <1>1, <1>2, <1>3, <1>4, <1>5, StaysUp DEF Next, Finished

\* A client that is about to send, or has sent, is not in the middle of a rename.
LEMMA AloneAgrees ==
    ASSUME Undisturbed, TypeOK, Alone
    PROVE  HandlesAgree
<1> SUFFICES ASSUME NEW c \in Client, call[c].phase \in {"none", "sent"}, NEW p \in Path,
                    pathtofh[c][p] # NoFh
             PROVE  /\ Resolves(table, log, pathtofh[c][p])
                    /\ PathOf(table, log, pathtofh[c][p]) = p
  BY DEF HandlesAgree
<1>1. table.fhToPath[pathtofh[c][p]] = p
  BY DEF Alone, Agree, Moving, Reads
<1> QED
  BY <1>1, KnownStays

\* One client of a server that does not crash, whatever calls are lost and repeated, and
\* whatever it makes, removes and renames into the root: whenever client_* sends a
\* request, findLookup reads every handle in its pathtofh as the path it is kept for.
THEOREM OneClientAgrees == ASSUME Undisturbed PROVE Spec => []HandlesAgree
<1>1. Init => Alone
  BY AloneInit
<1>2. TypeOK /\ Shape /\ Alone /\ [Next]_vars => Alone'
  BY AloneStep
<1>3. TypeOK /\ Alone => HandlesAgree
  BY AloneAgrees
<1> QED
  BY <1>1, <1>2, <1>3, NamespaceTypeCorrect, PTL DEF Spec

-----------------------------------------------------------------------------
(* The exported tree.                                                       *)

\* A call of the application is an Ask of the abstract tree ...
LEMMA AsksOnce ==
    ASSUME TypeOK, NEW c \in Client, Ask(c)
    PROVE  \E a \in FT!Asked : FT!Ask(c, a)
<1>1. PICK cb \in load.use, p \in load.target, q \in load.target, x \in load.excl \cup {FALSE} :
        sys' = [sys EXCEPT ![c] = [cb |-> cb, path |-> p, to |-> q, excl |-> x]]
  BY DEF Ask
<1>2. [cb |-> cb, path |-> p, to |-> q, excl |-> x] \in FT!Asked
  BY LoadFacts DEF FT!Asked
<1>3. sys[c] = NoCall /\ UNCHANGED <<tree, did>>
  BY DEF Ask
<1> QED
  BY <1>1, <1>2, <1>3 DEF FT!Ask

\* ... a handler is a Do, or makes a system call that changes nothing ...
LEMMA DoesOnce ==
    ASSUME Undisturbed, TypeOK, Shape, Alone, NEW c \in Client, ServeCall(c)
    PROVE  FT!Do(c) \/ UNCHANGED FT!vars
<1>1. /\ call[c].phase = "sent" /\ Serve(c, call[c].req) /\ sys' = sys
  BY DEF ServeCall, clientVars
<1>2. sys[c] \in FT!Asked /\ sys[c] # NoCall /\ AtOnce(c) /\ tree \in FT!Tree
  BY <1>1, RequestReads DEF Alone, TypeOK
<1>3. CASE NotPerformed
  BY <1>1, <1>3 DEF NotPerformed, FT!vars
<1>4. CASE FT!Succeeds(tree, sys[c]) /\ Perform(c, sys[c]) /\ c \notin did
  BY <1>1, <1>2, <1>4 DEF Perform, FT!Do
<1>5. CASE FT!Succeeds(tree, sys[c]) /\ Perform(c, sys[c]) /\ c \in did
  <2>1. tree' = tree
    BY <1>2, <1>5, OnlyOnce DEF Perform, AtOnce
  <2>2. did' = did
    BY <1>5 DEF Perform
  <2> QED
    BY <1>1, <2>1, <2>2 DEF FT!vars
<1> QED
  BY <1>1, <1>3, <1>4, <1>5, ServeTree

\* ... and a callback that returns is an Answer.
LEMMA ReturnsOnce ==
    ASSUME TypeOK, Shape, NEW c \in Client, Proceed(c)
    PROVE  FT!Answer(c) \/ UNCHANGED FT!vars
<1>1. CASE /\ Answered(c)
           /\ Return(c) \/ UNCHANGED <<sys, did>>
  <2>1. tree' = tree /\ sys[c] # NoCall
    BY <1>1, AnsweredFacts, UnderWay
  <2> QED
    BY <1>1, <2>1 DEF Return, FT!Answer, FT!vars
<1>2. CASE SendLookup(c) \/ SendCall(c) \/ TakeFrom(c) \/ Retry(c)
  BY <1>2 DEF SendLookup, SendCall, Send, TakeFrom, Retry, clientVars, FT!vars
<1>3. CASE \/ GotHandle(c) \/ Stated(c) \/ Passed(c) \/ Removed(c)
           \/ MovesOver(c) \/ MovesNew(c) \/ Aborts(c)
  BY <1>1, <1>3 DEF GotHandle, Stated, Passed, Removed, MovesOver, MovesNew, Aborts, Moves
<1> QED
  BY <1>2, <1>3 DEF Proceed

\* So every step is one of the abstract tree, or leaves it alone.
LEMMA TreeStep ==
    ASSUME Undisturbed, TypeOK, Shape, Alone, [Next]_vars
    PROVE  [FT!Next]_(FT!vars)
<1>1. ASSUME NEW c \in Client, Ask(c) PROVE FT!Next
  BY <1>1, AsksOnce DEF FT!Next
<1>2. ASSUME NEW c \in Client, Proceed(c) \/ ServeCall(c) PROVE FT!Next \/ UNCHANGED FT!vars
  BY <1>2, DoesOnce, ReturnsOnce DEF FT!Next
<1>3. ASSUME NEW c \in Client, Lose(c) PROVE UNCHANGED FT!vars
  BY <1>3 DEF Lose, clientVars, FT!vars
<1>4. CASE UNCHANGED vars
  BY <1>4 DEF vars, clientVars, FT!vars
<1>5. NoCrash /\ up /\ InvTable(table) /\ InvLog(log, table.fhcount)
  BY DEF Undisturbed, Alone
<1> QED
  BY <1>1, <1>2, <1>3, <1>4, <1>5, StaysUp DEF Next, Finished

\* One client of a server that does not crash implements the file tree it is shown: each
\* call of its application changes the exported directory on the paths the application
\* named, at once and once only, although a lost answer makes retry() send it again.
THEOREM OneClientRefines == ASSUME Undisturbed PROVE Spec => AsAsked
<1>1. Init => Alone
  BY AloneInit
<1>2. TypeOK /\ Shape /\ Alone /\ [Next]_vars => Alone'
  BY AloneStep
<1>3. Init => FT!Init
  BY RootIsNode DEF Init, FT!Init
<1>4. TypeOK /\ Shape /\ Alone /\ [Next]_vars => [FT!Next]_(FT!vars)
  BY TreeStep
<1> QED
  BY <1>1, <1>2, <1>3, <1>4, NamespaceTypeCorrect, PTL DEF Spec, AsAsked, FT!Spec

-----------------------------------------------------------------------------
(* Any clients, none of which renames.                                      *)

Unmoved == NoCrash /\ \A w \in Workload : "rename" \notin w.use

\* The server reads what the client remembers, and what it is about to enter, as the
\* client does.
Alike(c) ==
    call[c].phase # "failed" =>
        /\ \A p \in Path : Reads(pathtofh[c][p], p)
        /\ (call[c].phase = "replied" /\ call[c].req.command = "lookup") =>
             table.fhToPath[call[c].rep.fh] = Unknown(c)

Together ==
    /\ up /\ InvTable(table) /\ InvLog(log, table.fhcount)
    /\ \A c \in Client : Alike(c) /\ (sys[c] # NoCall => sys[c].cb # "rename")

\* The handle in a request is in the table.
LEMMA RequestKnown ==
    ASSUME TypeOK, Shape, Together, NEW c \in Client, call[c].phase = "sent",
           NEW r, r = call[c].req
    PROVE  /\ r \in Request /\ r.command # "rename" /\ table.fhToPath[r.fh] \in Path
           /\ r.command = "lookup" =>
                Unknown(c) \in Path /\ Append(table.fhToPath[r.fh], r.name) = Unknown(c)
<1>1. /\ r \in Request /\ ClientFits(c) /\ sys[c] # NoCall /\ sys[c].cb # "rename"
      /\ \A p \in Path : Reads(pathtofh[c][p], p)
  BY UnderWay DEF TypeOK, Shape, Together, Alike
<1>2. /\ r.command = "lookup" => Handle(c) = NoFh /\ r = LookupRequest(c)
      /\ r.command # "lookup" =>
           Handle(c) # NoFh /\ r = CallRequest(c) /\ r.command = Callback(c).cb
  BY UnderWay
<1>3. Callback(c).cb # "rename" /\ Goal(c) \in Path
  BY <1>1, GoalFacts, RootIsNode DEF Callback
<1>4. CASE r.command = "lookup"
  <2>1. /\ Unknown(c) \in Node \ {Root} /\ Front(Unknown(c)) \in Node
        /\ pathtofh[c][Front(Unknown(c))] \in Fh
        /\ r.name = Last(Unknown(c)) /\ r.fh = pathtofh[c][Front(Unknown(c))]
    BY <1>1, <1>2, <1>4, LookupFacts
  <2>2. r.fh # NoFh
    BY <2>1, MaxFhAssumption DEF Fh, NoFh
  <2>3. table.fhToPath[r.fh] = Front(Unknown(c)) /\ Front(Unknown(c)) \in Path
    BY <1>1, <2>1, <2>2, RootIsNode DEF Reads
  <2>4. Append(Front(Unknown(c)), Last(Unknown(c))) = Unknown(c)
    BY <2>1, Rejoined
  <2> QED
    BY <1>1, <1>4, <2>1, <2>3, <2>4, RootIsNode
<1>5. CASE r.command # "lookup"
  <2>1. r.fh = Handle(c) /\ r.command # "rename"
    BY <1>1, <1>2, <1>3, <1>5, CallFacts
  <2>2. table.fhToPath[Handle(c)] = Goal(c)
    BY <1>1, <1>2, <1>3, <1>5 DEF Reads, Handle
  <2> QED
    BY <1>1, <1>3, <1>5, <2>1, <2>2
<1> QED
  BY <1>4, <1>5

\* A handler of such a request moves no handle, and answers a lookup with that of the
\* path that was asked for.
LEMMA ServeGrows ==
    ASSUME TypeOK, Shape, Together, NEW c \in Client, ServeCall(c)
    PROVE  /\ Grows /\ call'[c].req = call[c].req
           /\ call[c].req.command = "lookup" =>
                Unknown(c) \in Path /\ table'.fhToPath[call'[c].rep.fh] = Unknown(c)
<1> DEFINE r == call[c].req
<1>1. /\ call[c].phase = "sent" /\ Serve(c, r) /\ table'.fhcount - 1 \in Fh
  BY DEF ServeCall
<1>2. /\ r \in Request /\ r.command # "rename" /\ table.fhToPath[r.fh] \in Path
      /\ r.command = "lookup" =>
           Unknown(c) \in Path /\ Append(table.fhToPath[r.fh], r.name) = Unknown(c)
  BY <1>1, RequestKnown
<1>3. /\ Known(table, r.fh) /\ Seen(r) = table /\ Resolves(table, log, r.fh)
      /\ PathOf(table, log, r.fh) = table.fhToPath[r.fh] /\ WithDir(table, r.fh) = table
  BY <1>2, KnownStays DEF Seen
<1>4. table \in Table /\ InvTable(table)
  BY DEF TypeOK, Together
<1>5. call \in [Client -> Rpc] /\ call[c].req = r
  BY ClientVarTypes
<1> HIDE DEF r
<1>6. table' = table => Grows
  BY DEF Grows
<1>7. ASSUME NEW rep, Reply(c, rep)
      PROVE  call'[c].req = r
  BY <1>5, <1>7 DEF Reply, Rpc
<1>8. CASE ServeLookup(c, r)
  <2>1. /\ Unknown(c) \in Path /\ table' = AddLookup(table, Unknown(c)) /\ r.command = "lookup"
        /\ Reply(c, [NoResponse EXCEPT !.fh = AddLookup(table, Unknown(c)).pathToFh[Unknown(c)]])
    BY <1>2, <1>3, <1>8 DEF ServeLookup, Looked
  <2>2. Grows /\ table'.fhToPath[table'.pathToFh[Unknown(c)]] = Unknown(c)
    BY <1>1, <1>4, <2>1, AddGrows
  <2>3. call'[c].rep.fh = table'.pathToFh[Unknown(c)] /\ call'[c].req = r
    BY <1>5, <2>1 DEF NoResponse, Reply, Rpc
  <2> QED
    BY <1>5, <2>1, <2>2, <2>3
<1>9. CASE ServeAdd(c, r)
  <2>1. /\ Within(r) \in Path /\ r.command # "lookup"
        /\ table' = table \/ table' = AddLookup(table, Within(r))
        /\ Reply(c, NoResponse) \/ Reply(c, Refused)
    BY <1>3, <1>9 DEF ServeAdd
  <2>2. Grows
    BY <1>1, <1>4, <1>6, <2>1, AddGrows
  <2> QED
    BY <1>5, <1>7, <2>1, <2>2
<1>10. CASE ServeRemove(c, r)
  <2>1. table' = table /\ r.command # "lookup" /\ (Reply(c, NoResponse) \/ Reply(c, Refused))
    BY <1>3, <1>10 DEF ServeRemove
  <2> QED
    BY <1>5, <1>6, <1>7, <2>1
<1>11. CASE ServeReaddir(c, r)
  <2> DEFINE q == PathOf(table, log, r.fh)
             P == {Append(q, n) : n \in Entries(Location(q))}
  <2>1. /\ table' = table \/ (P \in SUBSET Path /\ table' = AddAll(table, P))
        /\ r.command # "lookup"
        /\ Reply(c, NoResponse) \/ Reply(c, Refused)
    BY <1>3, <1>11 DEF ServeReaddir
  <2>2. IsFiniteSet(P)
    BY EntriesFinite DEF TypeOK
  <2> HIDE DEF P
  <2>3. Grows
    BY <1>4, <1>6, <2>1, <2>2, AddAllGrows
  <2> QED
    BY <1>5, <1>7, <2>1, <2>3
<1>12. CASE ServeGetattr(c, r)
  <2>1. /\ table' = table \/ table' = AddLookup(table, r.path)
        /\ r.command # "lookup" /\ \E rep : Reply(c, rep)
    BY <1>3, <1>12 DEF ServeGetattr
  <2>2. r.path \in Path
    BY <1>2 DEF Request
  <2>3. Grows
    BY <1>1, <1>4, <1>6, <2>1, <2>2, AddGrows
  <2> QED
    BY <1>5, <1>7, <2>1, <2>3
<1>13. ~ServeUnresolved(c, r)
  BY <1>3 DEF ServeUnresolved
<1>14. ~ServeRenameUnresolved(c, r) /\ ~ServeRenameRefused(c, r)
       /\ ~ServeRenameOver(c, r) /\ ~ServeRenameNew(c, r)
  BY <1>2 DEF ServeRenameUnresolved, ServeRenameRefused, ServeRenameOver, ServeRenameNew, Renames
<1> QED
  BY <1>1, <1>8, <1>9, <1>10, <1>11, <1>12, <1>13, <1>14 DEF Serve

\* What a handle that is in the table stands for is not touched by another client.
LEMMA GrowsAlike ==
    ASSUME TypeOK, Shape, NEW d \in Client, Alike(d), Grows, UNCHANGED clientVars,
           call'[d] = call[d]
    PROVE  Alike(d)'
<1>1. /\ pathtofh'[d] = pathtofh[d] /\ Unknown(d)' = Unknown(d)
      /\ pathtofh[d] \in PathMap /\ call[d] \in Rpc
  BY ClientVarTypes, SameCallback DEF clientVars
<1>2. ASSUME NEW p \in Path, Reads(pathtofh[d][p], p)
      PROVE  Reads(pathtofh[d][p], p)'
  <2>1. pathtofh[d][p] = NoFh \/ pathtofh[d][p] \in Fh
    BY <1>1 DEF PathMap
  <2> QED
    BY <1>1, <1>2, <2>1, PathAssumption DEF Reads, Grows, Known
<1>3. ASSUME call[d].phase = "replied", call[d].req.command = "lookup",
             table.fhToPath[call[d].rep.fh] = Unknown(d)
      PROVE  table'.fhToPath[call[d].rep.fh] = Unknown(d)
  <2>1. sys[d] # NoCall /\ ClientFits(d) /\ Handle(d) = NoFh
    BY <1>3, UnderWay
  <2>2. Unknown(d) \in Path /\ call[d].rep.fh \in Fh
    BY <1>1, <2>1, LookupFacts, RootIsNode DEF Rpc, Response
  <2> QED
    BY <1>3, <2>2, PathAssumption DEF Grows, Known
<1> QED
  BY <1>1, <1>2, <1>3 DEF Alike

\* A handler answers its own client.
LEMMA ServeOthers ==
    ASSUME TypeOK, NEW c \in Client, NEW r, Serve(c, r), NEW d \in Client, d # c
    PROVE  call'[d] = call[d]
<1>1. call \in [Client -> Rpc]
  BY ClientVarTypes
<1>2. (\E rep : Reply(c, rep)) \/ Throw(c)
  <2>1. CASE ServeLookup(c, r) \/ ServeAdd(c, r) \/ ServeRemove(c, r)
    BY <2>1 DEF ServeLookup, Looked, ServeAdd, ServeRemove
  <2>2. CASE ServeReaddir(c, r) \/ ServeGetattr(c, r)
    BY <2>2 DEF ServeReaddir, ServeGetattr
  <2>3. CASE ServeUnresolved(c, r) \/ ServeRenameUnresolved(c, r) \/ ServeRenameRefused(c, r)
    BY <2>3 DEF ServeUnresolved, ServeRenameUnresolved, ServeRenameRefused
  <2>4. CASE ServeRenameOver(c, r) \/ ServeRenameNew(c, r)
    BY <2>4 DEF ServeRenameOver, ServeRenameNew
  <2> QED
    BY <2>1, <2>2, <2>3, <2>4 DEF Serve
<1>3. ASSUME NEW rep, Reply(c, rep) PROVE call'[d] = call[d]
  BY <1>1, <1>3 DEF Reply
<1>4. ASSUME Throw(c) PROVE call'[d] = call[d]
  BY <1>1, <1>4 DEF Throw
<1> QED
  BY <1>2, <1>3, <1>4

\* A client changes its own state.
LEMMA ClientElsewhere ==
    ASSUME TypeOK, NEW c \in Client, Ask(c) \/ Proceed(c), NEW d \in Client, d # c
    PROVE  /\ pathtofh'[d] = pathtofh[d] /\ sys'[d] = sys[d] /\ todo'[d] = todo[d]
           /\ fromfh'[d] = fromfh[d] /\ call'[d] = call[d]
<1>1. /\ pathtofh \in [Client -> PathMap] /\ sys \in [Client -> FT!Asked \cup {NoCall}]
      /\ todo \in [Client -> Seq(Node)] /\ fromfh \in [Client -> Fh \cup {NoFh}]
      /\ call \in [Client -> Rpc]
  BY ClientVarTypes
<1>2. CASE Ask(c)
  <2>1. UNCHANGED <<pathtofh, fromfh, call>>
    BY <1>2 DEF Ask
  <2>2. \E a, w : sys' = [sys EXCEPT ![c] = a] /\ todo' = [todo EXCEPT ![c] = w]
    BY <1>2 DEF Ask
  <2> QED
    BY <1>1, <2>1, <2>2
<1>3. CASE SendLookup(c) \/ SendCall(c) \/ TakeFrom(c) \/ Retry(c)
  BY <1>1, <1>3 DEF SendLookup, SendCall, Send, TakeFrom, Retry, clientVars
<1>4. CASE GotHandle(c) \/ Stated(c) \/ Passed(c)
  BY <1>1, <1>4 DEF GotHandle, Stated, Passed, Return, Answered
<1>5. CASE Removed(c) \/ MovesOver(c) \/ MovesNew(c) \/ Aborts(c)
  BY <1>1, <1>5 DEF Removed, MovesOver, MovesNew, Aborts, Moves, Return, Answered
<1> QED
  BY <1>2, <1>3, <1>4, <1>5 DEF Proceed

\* A handler keeps what all clients know.
LEMMA ServeKeepsTogether ==
    ASSUME TypeOK, Shape, Together, NEW c \in Client, ServeCall(c)
    PROVE  Together'
<1>1. /\ call[c].phase = "sent" /\ Serve(c, call[c].req) /\ table'.fhcount - 1 \in Fh
      /\ up' = up /\ UNCHANGED clientVars /\ call[c].req \in Request
  BY DEF ServeCall, TypeOK
<1>2. up /\ InvTable(table) /\ InvLog(log, table.fhcount)
  BY DEF Together
<1>3. Known(table, call[c].req.fh)
  BY <1>1, RequestKnown, KnownStays
<1>4. InvTable(table') /\ InvLog(log', table'.fhcount)
  BY <1>1, <1>2, <1>3, ServeInverts
<1>5. /\ Grows /\ call'[c].req = call[c].req
      /\ call[c].req.command = "lookup" =>
           Unknown(c) \in Path /\ table'.fhToPath[call'[c].rep.fh] = Unknown(c)
  BY ServeGrows
<1>6. Alike(c)'
  <2>1. /\ pathtofh'[c] = pathtofh[c] /\ Unknown(c)' = Unknown(c)
        /\ pathtofh[c] \in PathMap
    BY <1>1, ClientVarTypes, SameCallback DEF clientVars
  <2>2. ASSUME NEW p \in Path
        PROVE  Reads(pathtofh[c][p], p)'
    <3>1. Reads(pathtofh[c][p], p)
      BY <1>1 DEF Together, Alike
    <3>2. pathtofh[c][p] = NoFh \/ pathtofh[c][p] \in Fh
      BY <2>1 DEF PathMap
    <3> QED
      BY <1>5, <2>1, <3>1, <3>2, PathAssumption DEF Reads, Grows, Known
  <2> QED
    BY <1>5, <2>1, <2>2 DEF Alike
<1>7. ASSUME NEW d \in Client, d # c
      PROVE  Alike(d)'
  <2>1. call'[d] = call[d]
    BY <1>1, <1>7, ServeOthers
  <2> QED
    BY <1>1, <1>5, <2>1, GrowsAlike DEF Together
<1>8. \A d \in Client : sys'[d] # NoCall => sys'[d].cb # "rename"
  BY <1>1 DEF Together, clientVars
<1> QED
  BY <1>1, <1>2, <1>4, <1>6, <1>7, <1>8 DEF Together, InvTable, InvLog

\* So does a step of a client.
LEMMA ClientKeepsTogether ==
    ASSUME Unmoved, TypeOK, Shape, Together, NEW c \in Client, Ask(c) \/ Proceed(c)
    PROVE  Together'
<1>1. up' = up /\ table' = table /\ log' = log
  BY DEF Ask, Proceed, SendLookup, SendCall, Send, TakeFrom, GotHandle, Stated, Passed,
         Removed, MovesOver, MovesNew, Aborts, Moves, Answered, Retry, serverVars
<1>2. /\ up /\ InvTable(table) /\ InvLog(log, table.fhcount) /\ table \in Table
      /\ ClientFits(c) /\ Alike(c) /\ (sys[c] # NoCall => sys[c].cb # "rename")
  BY DEF Together, Shape, TypeOK
<1>3. /\ pathtofh \in [Client -> PathMap] /\ sys \in [Client -> FT!Asked \cup {NoCall}]
      /\ call \in [Client -> Rpc] /\ todo \in [Client -> Seq(Node)]
      /\ fromfh \in [Client -> Fh \cup {NoFh}] /\ NoRpc \in Rpc /\ NoRpc.phase = "none"
  BY ClientVarTypes DEF NoRpc
<1> DEFINE Quiet == sys'[c] # NoCall => sys'[c].cb # "rename"
<1>4. sys' = sys \/ Return(c) => Quiet
  BY <1>2, <1>3 DEF Return
<1>5. ASSUME call'[c].phase \in {"none", "sent"},
             \A p \in Path : Reads(pathtofh'[c][p], p)
      PROVE  Alike(c)'
  BY <1>1, <1>5 DEF Alike, Reads
<1>6. ASSUME call[c].phase # "failed"
      PROVE  \A p \in Path : Reads(pathtofh[c][p], p)
  BY <1>2, <1>6 DEF Alike
<1>7. ASSUME Ask(c)
      PROVE  Alike(c)' /\ Quiet
  <2>1. sys[c] = NoCall /\ UNCHANGED <<pathtofh, call>>
    BY <1>7 DEF Ask
  <2>2. call[c].phase = "none"
    BY <1>2, <2>1 DEF ClientFits
  <2>3. PICK cb \in load.use, p \in load.target, q \in load.target,
             x \in load.excl \cup {FALSE} :
          sys' = [sys EXCEPT ![c] = [cb |-> cb, path |-> p, to |-> q, excl |-> x]]
    BY <1>7 DEF Ask
  <2>4. cb # "rename"
    BY <2>3 DEF Unmoved, TypeOK
  <2> QED
    BY <1>3, <1>5, <1>6, <2>1, <2>2, <2>3, <2>4
<1>8. ASSUME SendLookup(c) \/ SendCall(c)
      PROVE  Alike(c)' /\ Quiet
  <2>1. /\ call[c].phase = "none" /\ UNCHANGED <<pathtofh, sys>>
        /\ Send(c, LookupRequest(c)) \/ Send(c, CallRequest(c))
    BY <1>8 DEF SendLookup, SendCall, Send, Running, clientVars
  <2>2. call'[c].phase = "sent"
    BY <1>3, <2>1 DEF Send
  <2> QED
    BY <1>4, <1>5, <1>6, <2>1, <2>2
<1>9. ~TakeFrom(c)
  <2>1. ASSUME TakeFrom(c) PROVE Callback(c) = sys[c] /\ sys[c] # NoCall /\ sys[c].cb = "rename"
    BY <2>1 DEF TakeFrom, Running, Callback
  <2> QED
    BY <1>2, <2>1
<1>10. ASSUME GotHandle(c)
       PROVE  Alike(c)' /\ Quiet
  <2>1. /\ call[c].phase = "replied" /\ call'[c] = NoRpc /\ call[c].req.command = "lookup"
        /\ pathtofh' = [pathtofh EXCEPT ![c][Unknown(c)] = call[c].rep.fh]
        /\ UNCHANGED sys
    BY <1>10, AnsweredFacts DEF GotHandle
  <2>2. table.fhToPath[call[c].rep.fh] = Unknown(c)
    BY <1>2, <2>1 DEF Alike
  <2>3. \A p \in Path :
          pathtofh'[c][p] = IF p = Unknown(c) THEN call[c].rep.fh ELSE pathtofh[c][p]
    BY <1>3, <2>1 DEF PathMap
  <2>4. \A p \in Path : Reads(pathtofh'[c][p], p)
    BY <1>6, <2>1, <2>2, <2>3 DEF Reads
  <2> QED
    BY <1>3, <1>4, <1>5, <2>1, <2>4
<1>11. ASSUME Stated(c) \/ Passed(c) \/ Removed(c)
       PROVE  Alike(c)' /\ Quiet
  <2>1. /\ call[c].phase = "replied" /\ call'[c] = NoRpc
        /\ \/ pathtofh' = pathtofh
           \/ pathtofh' = [pathtofh EXCEPT ![c][sys[c].path] = NoFh]
        /\ Return(c) \/ sys' = sys
    BY <1>11, AnsweredFacts DEF Stated, Passed, Removed
  <2>2. \A p \in Path : pathtofh'[c][p] = NoFh \/ pathtofh'[c][p] = pathtofh[c][p]
    BY <1>3, <2>1 DEF PathMap
  <2> QED
    BY <1>3, <1>4, <1>5, <1>6, <2>1, <2>2 DEF Reads
<1>12. ~MovesOver(c) /\ ~MovesNew(c) /\ ~Aborts(c)
  <2>1. ASSUME Moves(c) PROVE FALSE
    <3>1. call[c].phase # "none" /\ call[c].req.command = "rename"
      BY <2>1 DEF Moves, Answered
    <3> QED
      BY <1>2, <3>1, UnderWay
  <2> QED
    BY <2>1 DEF MovesOver, MovesNew, Aborts
<1>13. ASSUME Retry(c)
       PROVE  Alike(c)' /\ Quiet
  <2>1. call'[c] = NoRpc /\ pathtofh'[c] = ClientPaths /\ UNCHANGED sys
    BY <1>3, <1>13 DEF Retry
  <2> QED
    BY <1>2, <1>3, <1>4, <1>5, <2>1, FreshAgrees
<1>14. Alike(c)' /\ Quiet
  BY <1>7, <1>8, <1>9, <1>10, <1>11, <1>12, <1>13 DEF Proceed
<1>15. ASSUME NEW d \in Client, d # c
       PROVE  Alike(d)' /\ (sys'[d] # NoCall => sys'[d].cb # "rename")
  <2>1. /\ pathtofh'[d] = pathtofh[d] /\ sys'[d] = sys[d] /\ todo'[d] = todo[d]
        /\ fromfh'[d] = fromfh[d] /\ call'[d] = call[d]
    BY <1>15, ClientElsewhere
  <2>2. Unknown(d)' = Unknown(d)
    BY <2>1, SameCallback
  <2> QED
    BY <1>1, <2>1, <2>2 DEF Together, Alike, Reads
<1> QED
  BY <1>1, <1>2, <1>14, <1>15 DEF Together, InvTable, InvLog

\* Any clients of a server that does not crash, whatever calls are lost and repeated and
\* whatever they make and remove: as long as none of them renames, findLookup reads every
\* handle that a client has in pathtofh, when it sends a request, as the path it is kept for.
THEOREM ClientsAgree == ASSUME Unmoved PROVE Spec => []HandlesAgree
<1>1. Init => Together
  <2> SUFFICES ASSUME Init PROVE Together
    OBVIOUS
  <2>1. /\ up /\ table = NewTable /\ log = NoLog
        /\ \A c \in Client : /\ pathtofh[c] = ClientPaths /\ sys[c] = NoCall
                             /\ call[c].phase = "none"
    BY DEF Init, NoRpc
  <2>2. table \in Table /\ InvTable(table) /\ InvLog(log, table.fhcount)
    BY <2>1, InitFacts, InvNew DEF TypeOK
  <2>3. \A c \in Client : Alike(c)
    BY <2>1, <2>2, FreshAgrees DEF Alike
  <2> QED
    BY <2>1, <2>2, <2>3 DEF Together
<1>2. TypeOK /\ Shape /\ Together /\ [Next]_vars => Together'
  <2> SUFFICES ASSUME TypeOK, Shape, Together, [Next]_vars PROVE Together'
    OBVIOUS
  <2>1. ASSUME NEW c \in Client, Ask(c) \/ Proceed(c) PROVE Together'
    BY <2>1, ClientKeepsTogether
  <2>2. ASSUME NEW c \in Client, ServeCall(c) PROVE Together'
    BY <2>2, ServeKeepsTogether
  <2>3. ASSUME NEW c \in Client, Lose(c) PROVE Together'
    <3>1. /\ UNCHANGED <<up, table, log, pathtofh, sys, todo, fromfh>>
          /\ call' = [call EXCEPT ![c].phase = "failed"]
      BY <2>3 DEF Lose, serverVars, clientVars
    <3>2. call'[c].phase = "failed" /\ \A d \in Client : d # c => call'[d] = call[d]
      BY <3>1, ClientVarTypes DEF Rpc
    <3>3. ASSUME NEW d \in Client PROVE Alike(d)'
      <4>1. Unknown(d)' = Unknown(d)
        BY <3>1, SameCallback
      <4> QED
        BY <3>1, <3>2, <4>1 DEF Together, Alike, Reads
    <3> QED
      BY <3>1, <3>3 DEF Together, InvTable, InvLog
  <2>4. CASE UNCHANGED vars
    <3>1. UNCHANGED <<up, table, log, pathtofh, sys, todo, fromfh, call>>
      BY <2>4 DEF vars, serverVars, clientVars
    <3>2. ASSUME NEW d \in Client PROVE Alike(d)'
      <4>1. Unknown(d)' = Unknown(d)
        BY <3>1, SameCallback
      <4> QED
        BY <3>1, <4>1 DEF Together, Alike, Reads
    <3> QED
      BY <3>1, <3>2 DEF Together, InvTable, InvLog
  <2>5. NoCrash /\ up /\ InvTable(table) /\ InvLog(log, table.fhcount)
    BY DEF Unmoved, Together
  <2> QED
    BY <2>1, <2>2, <2>3, <2>4, <2>5, StaysUp DEF Next, Finished
<1>3. Together => HandlesAgree
  <2> SUFFICES ASSUME Together, NEW c \in Client, call[c].phase \in {"none", "sent"},
                      NEW p \in Path, pathtofh[c][p] # NoFh
               PROVE  /\ Resolves(table, log, pathtofh[c][p])
                      /\ PathOf(table, log, pathtofh[c][p]) = p
    BY DEF HandlesAgree
  <2>1. table.fhToPath[pathtofh[c][p]] = p
    BY DEF Together, Alike, Reads
  <2> QED
    BY <2>1, KnownStays
<1> QED
  BY <1>1, <1>2, <1>3, NamespaceTypeCorrect, PTL DEF Spec

=============================================================================
