----------------------------- MODULE Namespace -----------------------------
(***************************************************************************)
(* The directory operations of server V2 and of the FUSE client: getattr,  *)
(* readdir, mkdir, rmdir, create, unlink, rename and the lookups they cost *)
(* a client that does not know a handle.                                   *)
(*                                                                         *)
(* A path is a sequence of names.  The table also holds paths no call      *)
(* names: "/" is <<"">>, and readdir enters "." and "..".                  *)
(*                                                                         *)
(* Each client has one system call under way.  The kernel stats every      *)
(* directory on the way, and the last name as the call requires, before it *)
(* issues the callback itself; its cache of attributes is left out.  Code  *)
(* between two RPCs, and a handler on the server, is one step.             *)
(***************************************************************************)
EXTENDS HandleTable, SequencesExt, FiniteSets

CONSTANTS
    Client,      \* FUSE processes
    Node,        \* bound: the paths the exported directory can hold
    Workload,    \* bound: how much the applications and the faults do, see below
    NoCall       \* no system call

\* The applications of each client issue asks[c] of the calls in use, which name the
\* paths in target, move something into a directory in into, or create it with
\* O_EXCL, if excl has TRUE.  lost RPCs fail although the server is up, which crashes
\* torn times in the middle of storeMapping and crash times elsewhere.
Bounds ==
    [asks : [Client -> Nat], use : SUBSET {"getattr", "readdir", "mkdir", "rmdir", "create",
                                           "unlink", "rename"},
     target : SUBSET Node, into : SUBSET Node, excl : SUBSET BOOLEAN,
     lost : Nat, crash : Nat, torn : Nat]

ASSUME NamespaceAssumption ==
    /\ Root = <<>> /\ Root \in Node
    /\ Path \subseteq Seq(STRING)
    /\ Node \subseteq Path /\ IsFiniteSet(Node)
    /\ <<"">> \in Path /\ \A p \in Path : \A i \in DOMAIN p : <<p[i]>> \in Path
    /\ \A p \in Node : /\ \A i \in 0 .. Len(p) : SubSeq(p, 1, i) \in Node
                       /\ \A i \in 1 .. Len(p) : p[i] \notin {"", ".", ".."}
    /\ Workload \subseteq Bounds

VARIABLES
    load,        \* the member of Workload that is run
    \* the server
    up, table, log,
    tree,        \* the directory it exports
    \* the clients
    pathtofh, fhtopath,
    sys,         \* the system call under way
    todo,        \* the paths the kernel has still to stat for it
    fromfh,      \* the first handle a client_rename has looked up
    did,         \* history: the clients whose call has taken effect
    \* the network
    call, faults, asks

serverVars == <<up, table, log>>
clientVars == <<pathtofh, fhtopath, sys, todo, fromfh, asks, load>>
vars == <<serverVars, tree, clientVars, did, call, faults>>

\* The abstract tree, and the system calls the server makes.
FT == INSTANCE FileTree WITH asked <- sys, done <- did

ASSUME NoCallAssumption == NoCall \notin FT!Asked

-----------------------------------------------------------------------------
(* Messages and types.                                                      *)

Names == {Last(p) : p \in Path \ {Root}} \cup {""}
Request == [command : {"none", "lookup"} \cup FT!Calls, fh : Fh, todirfh : Fh,
            name : Names, path : Path, excl : BOOLEAN]
Response == [fh : Fh, kind : FT!Kind, success : {0, -1}]

NoRequest == [command |-> "none", fh |-> 0, todirfh |-> 0, name |-> "", path |-> Root,
              excl |-> FALSE]
NoResponse == [fh |-> 0, kind |-> "none", success |-> 0]
NoRpc == [phase |-> "none", req |-> NoRequest, rep |-> NoResponse]

ClientPaths == [p \in Path |-> IF p = Root THEN 0 ELSE NoFh]
ClientFhs == [h \in Fh |-> IF h = 0 THEN Root ELSE NoPath]

\* Every variable has its type: in particular no handler that reloads a file which a crash
\* has torn takes what is left of it for a map, be it the first file or the second.
TypeOK ==
    /\ up \in BOOLEAN /\ table \in Table /\ log \in Log
    /\ tree \in FT!Tree
    /\ \A p \in Node \ {Root} : tree[p] # "none" => tree[Front(p)] = "dir"
    /\ pathtofh \in [Client -> PathMap] /\ fhtopath \in [Client -> FhMap]
    /\ sys \in [Client -> FT!Asked \cup {NoCall}]
    /\ todo \in [Client -> Seq(Node)]
    /\ fromfh \in [Client -> Fh \cup {NoFh}]
    /\ did \subseteq Client
    /\ call \in [Client -> [phase : {"none", "sent", "replied", "failed"},
                            req : Request, rep : Response]]
    /\ load \in Workload
    /\ asks \in [Client -> Nat] /\ \A c \in Client : asks[c] <= load.asks[c]
    /\ faults \in [lost : 0 .. load.lost, crash : 0 .. load.crash, torn : 0 .. load.torn]

Init ==
    /\ up = TRUE /\ table = NewTable /\ log = NoLog
    /\ tree = [p \in Node |-> IF p = Root THEN "dir" ELSE "none"]
    /\ pathtofh = [c \in Client |-> ClientPaths]
    /\ fhtopath = [c \in Client |-> ClientFhs]
    /\ sys = [c \in Client |-> NoCall]
    /\ todo = [c \in Client |-> <<>>]
    /\ fromfh = [c \in Client |-> NoFh]
    /\ did = {}
    /\ call = [c \in Client |-> NoRpc]
    /\ load \in Workload
    /\ asks = [c \in Client |-> 0]
    /\ faults = [lost |-> 0, crash |-> 0, torn |-> 0]

-----------------------------------------------------------------------------
(* The server: one action per request handler, and one for a handler that   *)
(* throws.  A step has to leave the numbering within MaxFh.                 *)

Reply(c, rep) == call' = [call EXCEPT ![c].phase = "replied", ![c].rep = rep]
Throw(c) == call' = [call EXCEPT ![c].phase = "failed"]
Refused == [NoResponse EXCEPT !.success = -1]

\* Where a path of the table leads on the disk: "//x" and "/./x" are "/x".
Plain(p) == \A i \in DOMAIN p : p[i] \notin {"", "."}
Location(p) == IF Plain(p) THEN p ELSE SelectSeq(p, LAMBDA n : n \notin {"", "."})

\* The system call that takes the tree where the handler leads it.
Syscall(cb, p, q, excl) == [cb |-> cb, path |-> Location(p), to |-> Location(q), excl |-> excl]
Perform(c, a) == tree' = FT!Effect(tree, a) /\ did' = did \cup {c}
NotPerformed == UNCHANGED <<tree, did>>

\* lookup: fhToPath[dirfh] enters the empty path for a handle it does not know.
WithDir(t, fh) == IF Known(t, fh) THEN t ELSE [t EXCEPT !.fhToPath[fh] = Root]
Looked(r) == Append(WithDir(table, r.fh).fhToPath[r.fh], r.name)

ServeLookup(c, r) ==
    /\ r.command = "lookup"
    /\ LET t == WithDir(table, r.fh)
           p == Looked(r)
       IN  /\ p \in Path
           /\ table' = AddLookup(t, p)
           /\ log' = LogAfterAdd(t, log, p)
           /\ Reply(c, [NoResponse EXCEPT !.fh = AddLookup(t, p).pathToFh[p]])
    /\ NotPerformed

\* The path a name has in the directory r.fh, and the table after findLookup.
Within(r) == Append(PathOf(table, log, r.fh), r.name)
Seen(r) == Found(table, log, r.fh)

\* findLookup throws: the JSON files were read in vain.
ServeUnresolved(c, r) ==
    /\ r.command \in FT!Calls \ {"rename"}
    /\ ~Resolves(table, log, r.fh)
    /\ table' = Seen(r)
    /\ Throw(c)
    /\ NotPerformed /\ UNCHANGED log

\* mkdir and create: a new entry of directory r.fh.
ServeAdd(c, r) ==
    /\ r.command \in {"mkdir", "create"}
    /\ Resolves(table, log, r.fh)
    /\ Within(r) \in Path
    /\ LET a == Syscall(r.command, Within(r), Root, r.excl)
       IN  IF FT!Succeeds(tree, a)
           THEN /\ Perform(c, a)
                /\ table' = AddLookup(Seen(r), Within(r))
                /\ log' = LogAfterAdd(Seen(r), log, Within(r))
                /\ Reply(c, NoResponse)
           ELSE /\ NotPerformed /\ UNCHANGED log
                /\ table' = Seen(r)
                /\ Reply(c, Refused)

\* rmdir and unlink: the table keeps the path.
ServeRemove(c, r) ==
    /\ r.command \in {"rmdir", "unlink"}
    /\ Resolves(table, log, r.fh)
    /\ LET a == Syscall(r.command, PathOf(table, log, r.fh), Root, FALSE)
       IN  IF FT!Succeeds(tree, a)
           THEN Perform(c, a) /\ Reply(c, NoResponse)
           ELSE NotPerformed /\ Reply(c, Refused)
    /\ table' = Seen(r)
    /\ UNCHANGED log

\* readdir: every entry of the directory is entered in the table.
Entries(p) == {".", ".."} \cup {Last(q) : q \in {x \in FT!Inside(tree, p) : Front(x) = p}}

\* The paths of P that are new take the next handles.  The order readdir(3) gives
\* them in only permutes these; one stands for all.
AddAll(t, P) ==
    LET new == {p \in P : ~Mapped(t, p)}
        next == t.fhcount .. t.fhcount + Cardinality(new) - 1
        number == CHOOSE f \in Bijection(new, next) : TRUE
    IN  [pathToFh |-> [p \in Path |-> IF p \in new THEN number[p] ELSE t.pathToFh[p]],
         fhToPath |-> [h \in Fh |-> IF h \in next THEN CHOOSE p \in new : number[p] = h
                                    ELSE t.fhToPath[h]],
         fhcount  |-> t.fhcount + Cardinality(new)]

ServeReaddir(c, r) ==
    /\ r.command = "readdir"
    /\ Resolves(table, log, r.fh)
    /\ LET p == PathOf(table, log, r.fh)
           P == {Append(p, n) : n \in Entries(Location(p))}
       IN  IF FT!KindOf(tree, Location(p)) = "dir"
           THEN /\ P \subseteq Path
                /\ table' = AddAll(Seen(r), P)
                /\ log' = IF \A q \in P : Mapped(Seen(r), q) THEN log
                          ELSE Stored(AddAll(Seen(r), P))
                /\ Reply(c, NoResponse)
           ELSE /\ table' = Seen(r)
                /\ UNCHANGED log
                /\ Reply(c, Refused)
    /\ NotPerformed

\* getattr: the handle of the empty path enters the path the request spells.
ServeGetattr(c, r) ==
    /\ r.command = "getattr"
    /\ Resolves(table, log, r.fh)
    /\ LET p == PathOf(table, log, r.fh)
       IN  /\ table' = IF p = Root THEN AddLookup(Seen(r), r.path) ELSE Seen(r)
           /\ log' = IF p = Root THEN LogAfterAdd(Seen(r), log, r.path) ELSE log
           /\ Reply(c, [NoResponse EXCEPT !.kind = FT!KindOf(tree, Location(p))])
    /\ NotPerformed

-----------------------------------------------------------------------------
(* rename: findLookup for the directory, then for what is moved.            *)

SeenDir(r) == Found(table, log, r.todirfh)
SeenBoth(r) == Found(SeenDir(r), log, r.fh)
RenameCall(r) ==
    Syscall("rename", PathOf(SeenDir(r), log, r.fh),
            Append(PathOf(table, log, r.todirfh), r.name), FALSE)

Renames(r) ==
    /\ r.command = "rename"
    /\ Resolves(table, log, r.todirfh) /\ Resolves(SeenDir(r), log, r.fh)
    /\ Append(PathOf(table, log, r.todirfh), r.name) \in Path

ServeRenameUnresolved(c, r) ==
    /\ r.command = "rename"
    /\ ~(Resolves(table, log, r.todirfh) /\ Resolves(SeenDir(r), log, r.fh))
    /\ table' = IF Resolves(table, log, r.todirfh) THEN SeenBoth(r) ELSE SeenDir(r)
    /\ Throw(c)
    /\ NotPerformed /\ UNCHANGED log

ServeRenameRefused(c, r) ==
    /\ Renames(r)
    /\ ~FT!Succeeds(tree, RenameCall(r))
    /\ table' = SeenBoth(r)
    /\ Reply(c, Refused)
    /\ NotPerformed /\ UNCHANGED log

\* todirfh() + "/" is pointer arithmetic: "/" for handle 0, and for any other
\* handle a tail of the program's literals, which makes no path with the name.
Overwrites(t, r) == r.todirfh = 0 /\ Mapped(t, <<r.name>>)

\* The two erase(find()) of each branch, whose behaviour is undefined if find
\* finds nothing, and the table they leave.
OverErases(t, r) == Mapped(t, t.fhToPath[r.fh]) /\ Known(t, t.pathToFh[<<r.name>>])

\* Mutant: the handle the target had is not erased.
OverKeeps(t, r) ==
    [t EXCEPT !.pathToFh = [@ EXCEPT ![t.fhToPath[r.fh]] = NoFh, ![<<r.name>>] = r.fh],
              !.fhToPath = [@ EXCEPT ![r.fh] = <<r.name>>]]

Over(t, r) ==
    [t EXCEPT !.pathToFh = [@ EXCEPT ![t.fhToPath[r.fh]] = NoFh, ![<<r.name>>] = r.fh],
              !.fhToPath = [@ EXCEPT ![t.pathToFh[<<r.name>>]] = NoPath,
                                     ![r.fh] = <<r.name>>]]

\* The handle of the target is not stored in the JSON files.
ServeRenameOver(c, r) ==
    /\ Renames(r)
    /\ FT!Succeeds(tree, RenameCall(r))
    /\ Overwrites(SeenBoth(r), r) /\ OverErases(SeenBoth(r), r)
    /\ Perform(c, RenameCall(r))
    /\ table' = Over(SeenBoth(r), r)
    /\ Reply(c, NoResponse)
    /\ UNCHANGED log

NewPath(t, r) == Append(t.fhToPath[r.todirfh], r.name)
NewErases(t, r) == Mapped(t, t.fhToPath[r.fh])
\* Mutant: only the path of what was moved is erased.
GoneHalf(t, r) == [t EXCEPT !.pathToFh[t.fhToPath[r.fh]] = NoFh]

Gone(t, r) == [t EXCEPT !.pathToFh[t.fhToPath[r.fh]] = NoFh, !.fhToPath[r.fh] = NoPath]

\* addLookup of the target, and the handle of what is moved is forgotten.  The
\* reload for fromfh may have lost the directory: the second findLookup throws.
ServeRenameNew(c, r) ==
    /\ Renames(r)
    /\ FT!Succeeds(tree, RenameCall(r))
    /\ Perform(c, RenameCall(r))
    /\ LET t == SeenBoth(r)
           u == AddLookup(t, NewPath(t, r))
       IN  /\ ~Overwrites(t, r)
           /\ IF Known(t, r.todirfh)
              THEN /\ NewPath(t, r) \in Path
                   /\ NewErases(u, r)
                   /\ table' = Gone(u, r)
                   /\ log' = LogAfterAdd(t, log, NewPath(t, r))
                   /\ Reply(c, NoResponse)
              ELSE /\ table' = t
                   /\ Throw(c)
                   /\ UNCHANGED log

Serve(c, r) ==
    \/ ServeLookup(c, r)
    \/ ServeUnresolved(c, r)
    \/ ServeAdd(c, r)
    \/ ServeRemove(c, r)
    \/ ServeReaddir(c, r)
    \/ ServeGetattr(c, r)
    \/ ServeRenameUnresolved(c, r)
    \/ ServeRenameRefused(c, r)
    \/ ServeRenameOver(c, r)
    \/ ServeRenameNew(c, r)

ServeCall(c) ==
    /\ up
    /\ call[c].phase = "sent"
    /\ Serve(c, call[c].req)
    /\ table'.fhcount - 1 \in Fh
    /\ UNCHANGED <<up, clientVars, faults>>

-----------------------------------------------------------------------------
(* Faults.                                                                  *)

Lose(c) ==
    /\ call[c].phase = "replied" \/ (up /\ call[c].phase = "sent")
    /\ faults.lost < load.lost
    /\ call' = [call EXCEPT ![c].phase = "failed"]
    /\ faults' = [faults EXCEPT !.lost = @ + 1]
    /\ UNCHANGED <<serverVars, tree, clientVars, did>>

Refuse(c) ==
    /\ ~up
    /\ call[c].phase = "sent"
    /\ call' = [call EXCEPT ![c].phase = "failed"]
    /\ UNCHANGED <<serverVars, tree, clientVars, did, faults>>

\* The process dies: its memory goes, and so do the calls it has not answered
\* and some of the answers under way.
Dies ==
    /\ up /\ up' = FALSE
    /\ table' = NewTable
    /\ \E S \in SUBSET {c \in Client : call[c].phase = "replied"} :
        call' = [c \in Client |->
                   IF call[c].phase = "sent" \/ c \in S
                   THEN [call[c] EXCEPT !.phase = "failed"] ELSE call[c]]
    /\ UNCHANGED clientVars

Crash ==
    /\ faults.crash < load.crash
    /\ Dies
    /\ faults' = [faults EXCEPT !.crash = @ + 1]
    /\ UNCHANGED <<log, tree, did>>

\* ... in a handler, once its system call has succeeded.  An erase(end()) of a
\* rename, whose behaviour is undefined, is taken to end this way.
Undefined(r) ==
    /\ Renames(r)
    /\ LET t == SeenBoth(r) IN
        \/ Overwrites(t, r) /\ ~OverErases(t, r)
        \/ /\ ~Overwrites(t, r) /\ Known(t, r.todirfh) /\ NewPath(t, r) \in Path
           /\ ~NewErases(AddLookup(t, NewPath(t, r)), r)

\* The system calls a handler for r makes.
Begun(r) ==
    CASE r.command \in {"mkdir", "create"} /\ Resolves(table, log, r.fh) ->
            {Syscall(r.command, Within(r), Root, r.excl)}
      [] r.command \in {"rmdir", "unlink"} /\ Resolves(table, log, r.fh) ->
            {Syscall(r.command, PathOf(table, log, r.fh), Root, FALSE)}
      [] Renames(r) -> {RenameCall(r)}
      [] OTHER -> {}

CrashInCall(c) ==
    /\ call[c].phase = "sent"
    /\ faults.crash < load.crash \/ Undefined(call[c].req)
    /\ \E a \in Begun(call[c].req) : FT!Succeeds(tree, a) /\ Perform(c, a)
    /\ Dies
    /\ UNCHANGED log
    /\ faults' = IF Undefined(call[c].req) THEN faults ELSE [faults EXCEPT !.crash = @ + 1]

\* What a handler for r passes to addLookup, with the table and the files it finds;
\* readdir does so for entry after entry, here with those of Q entered.
Added(t, l, p) == [table |-> t, log |-> l, path |-> p]

AddingListed(r) ==
    LET d == PathOf(table, log, r.fh)
        P == {Append(d, n) : n \in Entries(Location(d))}
        Before(Q) == IF \A q \in Q : Mapped(Seen(r), q) THEN log ELSE Stored(AddAll(Seen(r), Q))
    IN  IF FT!KindOf(tree, Location(d)) = "dir" /\ P \subseteq Path
        THEN {Added(AddAll(Seen(r), Q), Before(Q), q) : Q \in SUBSET P, q \in P} ELSE {}

AddingMoved(r) ==
    LET t == SeenBoth(r)
    IN  IF Overwrites(t, r) \/ ~Known(t, r.todirfh) THEN {} ELSE {Added(t, log, NewPath(t, r))}

Adding(r) ==
    CASE r.command = "lookup" -> {Added(WithDir(table, r.fh), log, Looked(r))}
      [] r.command \in {"mkdir", "create"} /\ Resolves(table, log, r.fh) ->
            {Added(Seen(r), log, Within(r))}
      [] r.command = "getattr" /\ Resolves(table, log, r.fh) ->
            IF PathOf(table, log, r.fh) = Root THEN {Added(Seen(r), log, r.path)} ELSE {}
      [] r.command = "readdir" /\ Resolves(table, log, r.fh) -> AddingListed(r)
      [] Renames(r) -> AddingMoved(r)
      [] OTHER -> {}

\* ... in storeMapping, for an entry that is new, after the system call of the handler.
CrashInStore(c) ==
    /\ call[c].phase = "sent"
    /\ faults.torn < load.torn
    /\ \E a \in Adding(call[c].req) :
        /\ a.path \in Path /\ ~Mapped(a.table, a.path)
        /\ a.table.fhcount \in Fh
        /\ log' \in CutStores(AddLookup(a.table, a.path), a.log)
    /\ IF Begun(call[c].req) = {} THEN NotPerformed
       ELSE \E a \in Begun(call[c].req) : FT!Succeeds(tree, a) /\ Perform(c, a)
    /\ Dies
    /\ faults' = [faults EXCEPT !.torn = @ + 1]

Restart ==
    /\ ~up /\ up' = TRUE
    /\ UNCHANGED <<table, log, tree, clientVars, did, call, faults>>

-----------------------------------------------------------------------------
(* The client.                                                              *)

StepsTo(p) == [i \in 1 .. Len(p) |-> SubSeq(p, 1, i)]

\* What the kernel stats before callback a.
Walk(a) ==
    CASE a.cb = "getattr" -> StepsTo(Front(a.path))
      [] a.cb = "rename"  -> StepsTo(a.path) \o StepsTo(a.to)
      [] OTHER            -> StepsTo(a.path)

Sensible(a) ==
    /\ a.cb \in {"mkdir", "rmdir", "create", "unlink", "rename"} => a.path # Root
    /\ a.excl => a.cb = "create"
    /\ IF a.cb = "rename"
       THEN /\ a.to # Root /\ Front(a.to) \in load.into
            /\ ~IsPrefix(a.path, a.to) /\ ~IsPrefix(a.to, a.path)
       ELSE a.to = Root

Ask(c) ==
    /\ sys[c] = NoCall /\ asks[c] < load.asks[c]
    /\ \E cb \in load.use, p, q \in load.target, x \in load.excl \cup {FALSE} :
        LET a == [cb |-> cb, path |-> p, to |-> q, excl |-> x]
        IN  /\ Sensible(a)
            /\ sys' = [sys EXCEPT ![c] = a]
            /\ todo' = [todo EXCEPT ![c] = Walk(a)]
    /\ asks' = [asks EXCEPT ![c] = @ + 1]
    /\ UNCHANGED <<load, serverVars, tree, pathtofh, fhtopath, fromfh, did, call, faults>>

\* The callback the kernel has issued, and the path whose handle it needs next.
Callback(c) ==
    IF todo[c] = <<>> THEN sys[c]
    ELSE [cb |-> "getattr", path |-> Head(todo[c]), to |-> Root, excl |-> FALSE]

Goal(c) ==
    CASE Callback(c).cb \in {"mkdir", "create"}                   -> Front(Callback(c).path)
      [] Callback(c).cb = "rename" /\ fromfh[c] # NoFh -> Front(Callback(c).to)
      [] OTHER                                         -> Callback(c).path

Handle(c) == pathtofh[c][Goal(c)]
Running(c) == sys[c] # NoCall /\ call[c].phase = "none"

Send(c, r) ==
    /\ call' = [call EXCEPT ![c] = [phase |-> "sent", req |-> r, rep |-> NoResponse]]
    /\ UNCHANGED <<serverVars, tree, clientVars, did, faults>>

\* lookup climbs to an ancestor it knows and asks for its child.
Unknown(c) ==
    LET n == Max({i \in 0 .. Len(Goal(c)) : pathtofh[c][SubSeq(Goal(c), 1, i)] # NoFh})
    IN  SubSeq(Goal(c), 1, n + 1)

LookupRequest(c) ==
    [NoRequest EXCEPT !.command = "lookup", !.name = Last(Unknown(c)),
                      !.fh = pathtofh[c][Front(Unknown(c))]]

SendLookup(c) == Running(c) /\ Handle(c) = NoFh /\ Send(c, LookupRequest(c))

\* client_rename puts the first handle in its request and looks up the second.
TakeFrom(c) ==
    /\ Running(c)
    /\ Callback(c).cb = "rename" /\ fromfh[c] = NoFh /\ Handle(c) # NoFh
    /\ fromfh' = [fromfh EXCEPT ![c] = Handle(c)]
    /\ UNCHANGED <<serverVars, tree, pathtofh, fhtopath, sys, todo, asks, load, did, call, faults>>

\* Mutant: a rename sends the name of what it moves.
NameOfFrom(k) == IF k.cb \in {"mkdir", "create", "rename"} THEN Last(k.path) ELSE ""

\* The name a callback sends, and how it spells its path.
NameIn(k) ==
    CASE k.cb \in {"mkdir", "create"} -> Last(k.path)
      [] k.cb = "rename"              -> Last(k.to)
      [] OTHER                        -> ""
Spelt(p) == IF p = Root THEN <<"">> ELSE p

CallRequest(c) ==
    LET k == Callback(c)
        r == [NoRequest EXCEPT !.command = k.cb, !.fh = Handle(c), !.name = NameIn(k),
                               !.excl = k.excl]
    IN  CASE k.cb = "rename"  -> [r EXCEPT !.fh = fromfh[c], !.todirfh = Handle(c)]
          [] k.cb = "getattr" -> [r EXCEPT !.path = Spelt(k.path)]
          [] OTHER            -> r

SendCall(c) ==
    /\ Running(c)
    /\ Handle(c) # NoFh
    /\ Callback(c).cb = "rename" => fromfh[c] # NoFh
    /\ Send(c, CallRequest(c))

Answered(c) ==
    /\ call[c].phase = "replied"
    /\ call' = [call EXCEPT ![c] = NoRpc]
    /\ UNCHANGED <<serverVars, tree, asks, load, faults>>

GotHandle(c) ==
    /\ Answered(c)
    /\ call[c].req.command = "lookup"
    /\ pathtofh' = [pathtofh EXCEPT ![c][Unknown(c)] = call[c].rep.fh]
    /\ fhtopath' = [fhtopath EXCEPT ![c][call[c].rep.fh] = Unknown(c)]
    /\ UNCHANGED <<sys, todo, fromfh, did>>

Return(c) ==
    /\ sys' = [sys EXCEPT ![c] = NoCall]
    /\ todo' = [todo EXCEPT ![c] = <<>>]
    /\ fromfh' = [fromfh EXCEPT ![c] = NoFh]
    /\ did' = did \ {c}

\* Whether the kernel goes on with call a when path p has kind k.
GoesOn(a, p, k) ==
    CASE p = a.path /\ a.cb \in {"mkdir", "create"} -> k = "none"
      [] p = a.path /\ a.cb = "unlink"              -> k = "file"
      [] p = a.path /\ a.cb = "rename"              -> k # "none"
      [] p = a.to /\ a.cb = "rename"                -> TRUE
      [] OTHER                                      -> k = "dir"

Stated(c) ==
    /\ Answered(c)
    /\ call[c].req.command = "getattr" /\ todo[c] # <<>>
    /\ IF GoesOn(sys[c], Head(todo[c]), call[c].rep.kind)
       THEN todo' = [todo EXCEPT ![c] = Tail(@)] /\ UNCHANGED <<sys, fromfh, did>>
       ELSE Return(c)
    /\ UNCHANGED <<pathtofh, fhtopath>>

\* Callbacks that only pass the answer on.
Passed(c) ==
    /\ Answered(c)
    /\ call[c].req.command # "lookup" /\ todo[c] = <<>>
    /\ call[c].req.command \in {"rmdir", "rename"} => call[c].rep.success # 0
    /\ Return(c)
    /\ UNCHANGED <<pathtofh, fhtopath>>

\* client_rmdir forgets the directory.
Removed(c) ==
    /\ Answered(c)
    /\ call[c].req.command = "rmdir" /\ call[c].rep.success = 0
    /\ fhtopath' = [fhtopath EXCEPT ![c][pathtofh[c][sys[c].path]] = NoPath]
    /\ pathtofh' = [pathtofh EXCEPT ![c][sys[c].path] = NoFh]
    /\ Return(c)

\* client_rename: pathtofh[from] is 0 for a path that is not in the map, and
\* erase(find()) is undefined for a handle that is not.
Moves(c) == Answered(c) /\ call[c].req.command = "rename" /\ call[c].rep.success = 0
FromFh(c) == IF pathtofh[c][sys[c].path] = NoFh THEN 0 ELSE pathtofh[c][sys[c].path]
ToFh(c) == pathtofh[c][sys[c].to]

\* Mutant: the old path keeps its handle.
MovesKeepsOld(c) ==
    /\ Moves(c)
    /\ ToFh(c) # NoFh /\ fhtopath[c][ToFh(c)] # NoPath
    /\ pathtofh' = [pathtofh EXCEPT ![c][sys[c].to] = FromFh(c)]
    /\ fhtopath' = [fhtopath EXCEPT ![c][ToFh(c)] = NoPath, ![c][FromFh(c)] = sys[c].to]
    /\ Return(c)

MovesOver(c) ==
    /\ Moves(c)
    /\ ToFh(c) # NoFh /\ fhtopath[c][ToFh(c)] # NoPath
    /\ pathtofh' = [pathtofh EXCEPT ![c][sys[c].path] = NoFh, ![c][sys[c].to] = FromFh(c)]
    /\ fhtopath' = [fhtopath EXCEPT ![c][ToFh(c)] = NoPath, ![c][FromFh(c)] = sys[c].to]
    /\ Return(c)

MovesNew(c) ==
    /\ Moves(c)
    /\ ToFh(c) = NoFh /\ fhtopath[c][FromFh(c)] # NoPath
    /\ pathtofh' = [pathtofh EXCEPT ![c][sys[c].path] = NoFh]
    /\ fhtopath' = [fhtopath EXCEPT ![c][FromFh(c)] = NoPath]
    /\ Return(c)

\* The client process dies of it, and the file system is mounted afresh.
Aborts(c) ==
    /\ Moves(c)
    /\ fhtopath[c][IF ToFh(c) = NoFh THEN FromFh(c) ELSE ToFh(c)] = NoPath
    /\ pathtofh' = [pathtofh EXCEPT ![c] = ClientPaths]
    /\ fhtopath' = [fhtopath EXCEPT ![c] = ClientFhs]
    /\ Return(c)

\* retry(): forget the maps; a failed lookup is looked up again from inside
\* its callback, any other call starts its callback over.
Retry(c) ==
    /\ call[c].phase = "failed"
    /\ call' = [call EXCEPT ![c] = NoRpc]
    /\ pathtofh' = [pathtofh EXCEPT ![c] = ClientPaths]
    /\ fhtopath' = [fhtopath EXCEPT ![c] = ClientFhs]
    /\ fromfh' = [fromfh EXCEPT ![c] = IF call[c].req.command = "lookup" THEN @ ELSE NoFh]
    /\ UNCHANGED <<serverVars, tree, sys, todo, asks, load, did, faults>>

-----------------------------------------------------------------------------

\* What a callback does by itself once it has begun.
Proceed(c) ==
    \/ SendLookup(c)
    \/ TakeFrom(c)
    \/ SendCall(c)
    \/ GotHandle(c)
    \/ Stated(c)
    \/ Passed(c)
    \/ Removed(c)
    \/ MovesOver(c)
    \/ MovesNew(c)
    \/ Aborts(c)
    \/ Retry(c)

\* Every application has made its calls.
Finished ==
    /\ \A c \in Client : sys[c] = NoCall /\ asks[c] = load.asks[c]
    /\ UNCHANGED vars

Next ==
    \/ \E c \in Client : Ask(c) \/ Proceed(c) \/ ServeCall(c) \/ Lose(c) \/ Refuse(c)
                      \/ CrashInStore(c) \/ CrashInCall(c)
    \/ Crash
    \/ Restart
    \/ Finished

Spec == Init /\ [][Next]_vars

FairSpec ==
    /\ Spec
    /\ \A c \in Client : WF_vars(Proceed(c)) /\ WF_vars(ServeCall(c)) /\ WF_vars(Refuse(c))
    /\ WF_vars(Restart)

-----------------------------------------------------------------------------
(* Properties.                                                              *)

\* The exported tree changes only the way an application asked for: the system
\* call a handler makes is the one some client has under way, on the path its
\* application named, and it takes effect at most once however often the
\* client repeats it.
AsAsked == FT!Spec

\* Whenever a client sends a request, the server reads every handle the client
\* remembers as the path the client remembers it for.
HandlesAgree ==
    up => \A c \in Client : call[c].phase \in {"none", "sent"} =>
        \A p \in Path : LET h == pathtofh[c][p] IN
            h # NoFh => Resolves(table, log, h) /\ PathOf(table, log, h) = p

\* While the server stays up and the clients name files of the root, addLookup and
\* both branches of rename keep the two maps of the server inverse to each other
\* and the next number unused, whoever moved what a client still has a handle of.
InRoot == \A p \in load.target : Len(p) <= 1
TablesInverse == InRoot /\ faults.crash = 0 /\ faults.torn = 0 =>
    /\ \A p \in Path, h \in Fh : table.pathToFh[p] = h <=> table.fhToPath[h] = p
    /\ \A h \in Fh : Known(table, h) => h < table.fhcount

\* Unless a crash tears the JSON files apart, whatever is reloaded or renumbered,
\* every path a handle stands for is in the map from paths: the erase(find()) of
\* a path in a rename is always defined.
PathsMapped == faults.torn = 0 => \A h \in Fh : Known(table, h) => Mapped(table, table.fhToPath[h])

\* Every system call returns to its application.
CallsReturn == \A c \in Client : sys[c] # NoCall ~> sys[c] = NoCall

=============================================================================
