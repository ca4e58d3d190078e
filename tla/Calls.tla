------------------------------- MODULE Calls -------------------------------
(***************************************************************************)
(* What one callback carries from the application to the server's disk and *)
(* back: every field of every request and response of nfs.proto, through   *)
(* the codec of Messages, for a server of either version.  V1 writes       *)
(* through, V2 keeps a write in memory until the file is committed; the    *)
(* other handlers are the same text in both.                               *)
(*                                                                         *)
(* One client runs one callback at a time on a directory with no           *)
(* subdirectory entries, and the server stays up: restarts, several        *)
(* clients and deeper trees are in WriteCommit and Namespace.  RPCs can    *)
(* fail.  The kernel stats the names of a call before it issues the call.  *)
(***************************************************************************)
EXTENDS HandleTable, Messages, FiniteSets

CONSTANTS
    Name,        \* names applications use, as texts of one element
    Workload,    \* bound: mixes of calls; [use, asks, there, version]
    Offset,      \* offsets (64 bits) applications read and write at
    Buffer,      \* the bytes applications write
    ReadSize,    \* sizes applications read
    Beyond,      \* what may follow a buffer in memory, up to a zero byte
    Byte,        \* what may follow the data of a std::string in memory
    Draw,        \* the stream of rand() % 10000
    MaxFd,       \* bound: descriptors the server process can have open
    MaxIno,      \* bound: files and directories there can be
    MaxLost,     \* bound: RPCs that fail
    Unsure          \* a byte nothing is promised about

Ino == 1 .. MaxIno
Fd == 1 .. MaxFd
Listed == {<<".">>, <<"..">>}
Callbacks == {"getattr", "readdir", "mkdir", "rmdir", "unlink", "rename", "create", "open",
              "read", "write", "fsync", "flush", "release"}

S_IFREG == 4
S_IFDIR == 8
NewMode == 3     \* what the application asks for in mkdir and create
NewFlags == 2    \* O_RDWR in open, with O_CREAT in create

ASSUME CallsAssumption ==
    /\ Path = {Root, <<"">>} \cup Name \cup Listed
    /\ Root = <<>>
    /\ IsFiniteSet(Name) /\ \A n \in Name : n = <<n[1]>> /\ n[1] \notin {"", ".", ".."}
    /\ Buffer \cup Beyond \subseteq Seq(Byte) /\ 0 \in Byte /\ Unsure \notin Byte
    /\ {MaxFd, MaxIno, MaxLost} \subseteq Nat
    /\ Offset \cup ReadSize \subseteq Nat /\ Draw \in Seq(Nat)
    /\ Workload \subseteq [use : SUBSET Callbacks, asks : Nat, there : SUBSET Name,
                            version : {1, 2}]
    /\ \E f \in [Name -> Ino] : IsInjective(f)

\* The numbers of a run fit the fields they are sent in, as the kernel reads and writes in
\* pieces, and the commands are ASCII.
ASSUME FitsAssumption ==
    /\ MaxFh < 2^(Bits32 - 1) /\ {MaxFd, MaxIno + 1} \subseteq 0 .. 2^Bits32 - 1
    /\ Range(Draw) \subseteq 0 .. 2^(Bits32 - 1) - 1
    /\ NewFlags < 2^Bits32 /\ S_IFDIR + NewMode < 2^Bits32
    /\ ReadSize \cup {Len(b) : b \in Buffer} \subseteq 0 .. 2^(Bits32 - 1) - 1
    /\ (Callbacks \cup {"lookup", "commit"}) \cap Garbled = {}

VARIABLES
    load,        \* the member of Workload that is run
    \* the server
    table, log, cache, fds,
    entry,       \* the exported directory: the inode of each name, or 0
    node,        \* the files and directories
    \* the client and its kernel
    pathtofh, chunks,
    opened,      \* the open file, if there is one; history: its inode
    op, todo,    \* the callback under way; the paths to be stated before it
    call, drawn, asks, lost,
    expect       \* history: what each file was last told to hold

serverVars == <<table, log, cache>>
diskVars == <<entry, node, fds>>
clientVars == <<pathtofh, chunks, opened, op, todo, drawn, asks>>
vars == <<load, serverVars, diskVars, clientVars, call, lost, expect>>

-----------------------------------------------------------------------------
(* Conversions between the C structures and the messages.                   *)

StatFields == {"st_dev", "st_ino", "st_mode", "st_nlink", "st_uid", "st_gid", "st_rdev",
               "st_size", "st_blksize", "st_blocks"}
Narrow == {"st_mode", "st_uid", "st_gid"}

\* Mutant: the mode is not copied.
toGRPCstatNoMode(st) ==
    [n \in DOMAIN attributes_Empty |-> IF n \in StatFields \ {"st_mode"} THEN UInt64(st[n]) ELSE 0]

toGRPCstat(st) ==
    [n \in DOMAIN attributes_Empty |-> IF n \in StatFields THEN UInt64(st[n]) ELSE 0]
toCmdstat(g) ==
    [n \in StatFields |-> IF n \in Narrow THEN UInt32(g[n]) ELSE g[n]]
toGrpcStat(st) == toGRPCstat(st)

fusetoProto(f) == set_flags(set_fi_fh(fileInfo_Empty, f.fh), f.flags)

\* Mutant: the flags are left at 0.
readFileInfoNoFlags(pfi) == [fh |-> pfi.fh, flags |-> 0]

readFileInfo(pfi) == [fh |-> pfi.fh, flags |-> pfi.flags]
toFuseFileInfo(pfi) == [fh |-> pfi.fh, flags |-> pfi.flags]
toProtoFileInfo(f) == set_flags(set_fi_fh(fileInfo_Empty, f.fh), f.flags)
toCmdFileInfo(pfi) == [fh |-> pfi.fh, flags |-> pfi.flags]
toGRPCFileInfo(f) == set_flags(set_fi_fh(fileInfo_Empty, f.fh), f.flags)

\* A message with its command set.
New(command) == set_command(request_Empty, <<command>>)
Ok == response_Empty
Refused(errno) == set_ern(set_success(Ok, -1), errno)

-----------------------------------------------------------------------------
(* The system calls of the server, by their effect on the exported          *)
(* directory.  errno has small values, distinct like those of errno.h.      *)

ENOENT == 2
EIO == 5
EBADF == 9
EEXIST == 10
ENOTDIR == 11
EISDIR == 12
EINVAL == 13
EMFILE == 14

\* The kind of the entry at path p of the table; "/", "." and ".." are the root.
KindAt(p) ==
    IF p \notin Name THEN "dir" ELSE IF entry[p] = 0 THEN "none" ELSE node[entry[p]].kind

NewFile(kind, mode) == [kind |-> kind, mode |-> mode, data |-> <<>>]
FreeInos == Ino \ (Range(entry) \cup Range(fds))
NewInos == {i \in FreeInos : \A j \in FreeInos : i <= j}
FreeFds == {d \in Fd : fds[d] = 0}

TypeBits(kind) == IF kind = "dir" THEN S_IFDIR ELSE S_IFREG
RootStat == [st_ino |-> MaxIno + 1, st_mode |-> S_IFDIR, st_size |-> 0]
StatOf(p) ==
    LET i == IF p \in Name THEN entry[p] ELSE 0
        short == IF i = 0 THEN RootStat
                 ELSE [st_ino |-> i, st_mode |-> TypeBits(node[i].kind) + node[i].mode,
                       st_size |-> Len(node[i].data)]
    IN  [n \in StatFields |-> IF n \in DOMAIN short THEN short[n]
                              ELSE IF n = "st_nlink" THEN 1 ELSE 0]

\* d with the bytes b at offset o, and the byte gap where neither has one.
Overlay(d, o, b, gap) ==
    [i \in 1 .. Max({Len(d), o + Len(b)}) |->
        IF i \in o + 1 .. o + Len(b) THEN b[i - o] ELSE IF i <= Len(d) THEN d[i] ELSE gap]

\* The open inode of a descriptor, which arrives as a uint64.
InoOf(fd) == IF fd \in Fd THEN fds[fd] ELSE 0

\* pwrite(fh, data.c_str(), size, offset): what is read past the end of data is
\* its terminator and then whatever lies behind it.
PwriteBytes(data, size, tail) ==
    [i \in 1 .. size |-> IF i <= Len(data) THEN data[i] ELSE IF i = Len(data) + 1 THEN 0 ELSE tail]

PwriteFails(w) == InoOf(w.fi.fh) = 0 \/ w.offset < 0
Pwritten(n, w, tail) ==
    [n EXCEPT ![InoOf(w.fi.fh)].data = Overlay(@, w.offset, PwriteBytes(w.data, w.size, tail), 0)]

-----------------------------------------------------------------------------
(* The handlers.  r is the request that arrived.                            *)

\* A message, or the lack of one, goes back to the client.
Answer(rep) == call' = [call EXCEPT !.phase = "replied", !.rep = rep]
Throw == call' = [call EXCEPT !.phase = "failed", !.rep = Ok]

\* A server's table and files with path p entered by addLookup.  Writing a name
\* that is not UTF-8 as JSON throws, with the first file just truncated.
Enter(s, p) ==
    IF s.thrown \/ Mapped(s.table, p) THEN s
    ELSE LET t == AddLookup(s.table, p)
             bad == \E q \in Path : Mapped(t, q) /\ ~IsUtf8(q)
         IN  [table |-> t, thrown |-> bad,
              log |-> IF bad THEN [s.log EXCEPT !.pathToFh = Unreadable] ELSE Stored(t)]

\* Op applied to s and each element of seq in turn.
Iterate(Op(_, _), s, seq) ==
    LET f[i \in 0 .. Len(seq)] ==
            IF i = 0 THEN s ELSE CHOOSE u \in {Op(v, seq[i]) : v \in {f[i - 1]}} : TRUE
    IN  f[Len(seq)]

\* The state of the table a handler begins with, after findLookup(fh).
Look(fh) == [table |-> Found(table, log, fh), log |-> log, thrown |-> FALSE]
PathAt(fh) == PathOf(table, log, fh)

\* The handler ends with table and files s, and with rep unless it threw.
Finish(s, rep) ==
    /\ table' = s.table /\ log' = s.log
    /\ IF s.thrown THEN Throw ELSE Answer(rep)

NoDisk == UNCHANGED diskVars

ServeLookup(r) ==
    /\ r.command = <<"lookup">>
    /\ LET p == PathAt(r.dirfh) \o r.name
           s == Enter(Look(r.dirfh), p)
       IN  Finish(s, set_fh(Ok, s.table.pathToFh[p]))
    /\ NoDisk /\ UNCHANGED cache

ServeMkdir(r) ==
    /\ r.command = <<"mkdir">>
    /\ LET p == PathAt(r.dirfh) \o r.name
       IN  IF KindAt(p) # "none"
           THEN Finish(Look(r.dirfh), Refused(EEXIST)) /\ NoDisk
           ELSE \E i \in NewInos :
                    /\ entry' = [entry EXCEPT ![p] = i]
                    /\ node' = [node EXCEPT ![i] = NewFile("dir", attr(r).st_mode)]
                    /\ Finish(Enter(Look(r.dirfh), p), Ok)
                    /\ UNCHANGED fds
    /\ UNCHANGED cache

\* rmdir and unlink, with the error of an entry of the other kind.
RemoveError(p, kind, wrong) ==
    IF KindAt(p) = kind THEN 0 ELSE IF KindAt(p) = "none" THEN ENOENT ELSE wrong

Removed(r, error) ==
    /\ Finish(Look(r.fh), IF error = 0 THEN Ok ELSE Refused(error))
    /\ entry' = IF error = 0 THEN [entry EXCEPT ![PathAt(r.fh)] = 0] ELSE entry
    /\ UNCHANGED <<node, fds, cache>>

ServeRmdir(r) ==
    /\ r.command = <<"rmdir">>
    /\ Removed([r EXCEPT !.fh = r.dirfh], RemoveError(PathAt(r.dirfh), "dir", ENOTDIR))

ServeUnlink(r) ==
    /\ r.command = <<"unlink">>
    /\ Removed(r, RemoveError(PathAt(r.fh), "file", EISDIR))

\* rename in the root directory: todirfh() + "/" is "/" there.
RenameError(p, q) ==
    IF KindAt(p) = "none" THEN ENOENT
    ELSE IF KindAt(q) \in {"none", KindAt(p)} THEN 0
    ELSE IF KindAt(p) = "dir" THEN ENOTDIR ELSE EISDIR

RenameOver(t, p, q) ==
    [t EXCEPT !.pathToFh = [@ EXCEPT ![p] = NoFh, ![q] = t.pathToFh[p]],
              !.fhToPath = [@ EXCEPT ![t.pathToFh[q]] = NoPath, ![t.pathToFh[p]] = q]]
RenameNew(t, p) ==
    [t EXCEPT !.pathToFh[p] = NoFh, !.fhToPath[t.pathToFh[p]] = NoPath]

ServeRename(r) ==
    /\ r.command = <<"rename">>
    /\ LET p == PathAt(r.fromfh)
           q == PathAt(r.todirfh) \o r.name
           s == Look(r.fromfh)
           e == Enter(s, q)
       IN  IF RenameError(p, q) # 0
           THEN Finish(s, Refused(RenameError(p, q))) /\ NoDisk
           ELSE /\ entry' = [entry EXCEPT ![p] = 0, ![q] = entry[p]]
                /\ IF Mapped(s.table, q)
                   THEN Finish([s EXCEPT !.table = RenameOver(@, p, q)], Ok)
                   ELSE Finish(IF e.thrown THEN e
                               ELSE [e EXCEPT !.table = RenameNew(@, p)], Ok)
                /\ UNCHANGED <<node, fds>>
    /\ UNCHANGED cache

\* open(2) returns the lowest free descriptor, or -1 with the given error.
OpenError(p) ==
    IF FreeFds = {} THEN EMFILE
    ELSE IF KindAt(p) = "none" THEN ENOENT
    ELSE IF KindAt(p) = "dir" THEN EISDIR ELSE 0

\* The answer to open and create, with fi as it arrived but for the descriptor.
OpenAnswer(r, fd, rep) ==
    fi_CopyFrom(rep, toProtoFileInfo([toFuseFileInfo(fi(r)) EXCEPT !.fh = fd]))
Lowest(d) == d \in FreeFds /\ \A e \in FreeFds : d <= e

ServeOpen(r) ==
    /\ r.command = <<"open">>
    /\ LET p == PathAt(r.fh)
       IN  IF OpenError(p) # 0
           THEN Finish(Look(r.fh), OpenAnswer(r, -1, Refused(OpenError(p)))) /\ NoDisk
           ELSE \E d \in Fd :
                    /\ Lowest(d)
                    /\ fds' = [fds EXCEPT ![d] = entry[p]]
                    /\ Finish(Look(r.fh), OpenAnswer(r, d, Ok))
                    /\ UNCHANGED <<entry, node>>
    /\ UNCHANGED cache

\* create opens with O_CREAT: an entry that is there is opened as it is.
CreateError(p) == IF KindAt(p) = "none" /\ FreeFds # {} THEN 0 ELSE OpenError(p)

ServeCreate(r) ==
    /\ r.command = <<"create">>
    /\ LET p == PathAt(r.dirfh) \o r.name
       IN  IF CreateError(p) # 0
           THEN Finish(Look(r.dirfh), OpenAnswer(r, -1, Refused(CreateError(p)))) /\ NoDisk
           ELSE \E d \in Fd, i \in IF KindAt(p) = "none" THEN NewInos ELSE {entry[p]} :
                    /\ Lowest(d)
                    /\ fds' = [fds EXCEPT ![d] = i]
                    /\ entry' = [entry EXCEPT ![p] = i]
                    /\ node' = IF i = entry[p] THEN node
                               ELSE [node EXCEPT ![i] = NewFile("file", attr(r).st_mode)]
                    /\ Finish(Enter(Look(r.dirfh), p), OpenAnswer(r, d, Ok))
    /\ UNCHANGED cache

\* readdir of the root: each entry is answered and entered in the table.  Of st
\* only the inode and the type are set; the rest is what was on the stack.
Entries == <<<<".">>, <<"..">>>> \o SetToSeq({n \in Name : entry[n] # 0})
EntryStat(n, junk) ==
    [f \in StatFields |-> CASE f = "st_ino"  -> StatOf(n).st_ino
                            [] f = "st_mode" -> TypeBits(KindAt(n))
                            [] OTHER         -> junk]
EntryOf(n, junk) ==
    attr_CopyFrom(set_name(directory_Empty, n), toGrpcStat(EntryStat(n, junk)))
EntriesMessage(junk) ==
    add_objects(Ok, [i \in DOMAIN Entries |-> EntryOf(Entries[i], junk)])

ServeReaddir(r) ==
    /\ r.command = <<"readdir">>
    /\ \E junk \in {0, 1}, s \in {Iterate(Enter, Look(r.dirfh), Entries)} :
        Finish(s, EntriesMessage(junk))
    /\ NoDisk /\ UNCHANGED cache

ServeGetattr(r) ==
    /\ r.command = <<"getattr">>
    /\ LET p == PathAt(r.fh)
           s == IF p = Root THEN Enter(Look(r.fh), r.path) ELSE Look(r.fh)
       IN  Finish(s, IF KindAt(p) = "none" THEN set_status(Ok, -ENOENT)
                     ELSE attr_CopyFrom(Ok, toGrpcStat(StatOf(p))))
    /\ NoDisk /\ UNCHANGED cache

\* read: pread fills the head of a buffer that is then taken for a C string.
PreadFromStart(d, o, size) == SubSeq(d, 1, Min({size, Len(d)}))  \* Mutant: no offset.

Pread(d, o, size) == SubSeq(d, o + 1, Min({o + size, Len(d)}))

ServeRead(r) ==
    /\ r.command = <<"read">>
    /\ LET i == InoOf(fi(r).fh)
           got == Pread(node[i].data, r.offset, r.size)
       IN  IF i = 0 \/ r.offset < 0
           THEN Finish(Look(r.fh), Refused(IF i = 0 THEN EBADF ELSE EINVAL))
           ELSE \E junk \in Beyond :
                    Finish(Look(r.fh),
                           fi_CopyFrom(set_size(set_data_chars(Ok, got \o junk), Len(got)),
                                       toProtoFileInfo(toFuseFileInfo(fi(r)))))
    /\ NoDisk /\ UNCHANGED cache

\* close(2) of a descriptor that is not open fails, which nobody looks at.
ServeRelease(r) ==
    /\ r.command = <<"release">>
    /\ fds' = IF fi(r).fh \in Fd THEN [fds EXCEPT ![fi(r).fh] = 0] ELSE fds
    /\ Finish(Look(r.fh), fi_CopyFrom(Ok, toProtoFileInfo(toFuseFileInfo(fi(r)))))
    /\ UNCHANGED <<entry, node, cache>>

ServeFsync(r) ==
    /\ r.command = <<"fsync">>
    /\ Answer(fi_CopyFrom(set_status(Ok, 0), toGRPCFileInfo(toCmdFileInfo(fi(r)))))
    /\ NoDisk /\ UNCHANGED serverVars

\* Mutant: flush closes the descriptor itself.
ServeFlushClosing(r) ==
    /\ r.command = <<"flush">>
    /\ fds' = IF fi(r).fh \in Fd THEN [fds EXCEPT ![fi(r).fh] = 0] ELSE fds
    /\ Answer(fi_CopyFrom(set_status(Ok, 0), toGRPCFileInfo(toCmdFileInfo(fi(r)))))
    /\ UNCHANGED <<entry, node, serverVars>>

\* flush: close(dup(fh)) succeeds when the descriptor is open and another is free.
ServeFlush(r) ==
    /\ r.command = <<"flush">>
    /\ LET error == IF InoOf(fi(r).fh) # 0 /\ FreeFds # {} THEN 0 ELSE EBADF
       IN  Answer(fi_CopyFrom(set_status(Ok, -error), toGRPCFileInfo(toCmdFileInfo(fi(r)))))
    /\ NoDisk /\ UNCHANGED serverVars

-----------------------------------------------------------------------------
(* write and commit, where the versions differ.                             *)

\* The Write a request describes.
WriteOf(r) ==
    [fh |-> r.fh, size |-> r.size, offset |-> r.offset, gen |-> r.gen, data |-> r.data,
     fi |-> toProtoFileInfo(toFuseFileInfo(fi(r)))]
WriteAnswer(r) ==
    fi_CopyFrom(set_datasize(set_status(Ok, 0), r.size), WriteOf(r).fi)

\* V1: on disk before it is answered.
ServeWriteThrough(r) ==
    /\ load.version = 1 /\ r.command = <<"write">>
    /\ LET w == WriteOf(r)
       IN  IF PwriteFails(w)
           THEN Answer(set_status(Ok, -1)) /\ NoDisk
           ELSE /\ \E tail \in Byte : node' = Pwritten(node, w, tail)
                /\ Answer(WriteAnswer(r))
                /\ UNCHANGED <<entry, fds>>
    /\ UNCHANGED serverVars

\* V2: answered once it is in the vector.
ServeWriteBack(r) ==
    /\ load.version = 2 /\ r.command = <<"write">>
    /\ cache' = Append(cache, WriteOf(r))
    /\ Finish(Look(r.fh), WriteAnswer(r))
    /\ NoDisk

\* Mutant: what is unknown is answered as if the writes were missing.
ServeUnknownMissing(r) ==
    /\ load.version = 1 /\ r.command = <<"commit">>
    /\ Answer(set_success(Ok, 1))
    /\ NoDisk /\ UNCHANGED serverVars

\* V1 has no such command: the response stays empty, which reads as success.
ServeUnknown(r) ==
    /\ load.version = 1 /\ r.command = <<"commit">>
    /\ Answer(Ok)
    /\ NoDisk /\ UNCHANGED serverVars

\* The second loop of a commit, for one gen: s is the disk, the vector and
\* whether a pwrite failed.
Committed(s, gen, tail) ==
    LET hits == {i \in DOMAIN s.cache : s.cache[i].gen = gen}
        w == s.cache[Min(hits)]
    IN  IF s.failed \/ hits = {} THEN s
        ELSE IF PwriteFails(w) THEN [s EXCEPT !.failed = TRUE]
        ELSE [s EXCEPT !.node = Pwritten(@, w, tail), !.cache = RemoveAt(@, Min(hits))]

ReadyToWrite(r) == \A j \in DOMAIN r.gens : \E i \in DOMAIN cache : cache[i].gen = r.gens[j]

\* logSave begins with a findLookup for every Write in the vector.
ServeCommit(r) ==
    /\ load.version = 2 /\ r.command = <<"commit">>
    /\ \A i \in DOMAIN cache : Known(table, cache[i].fh)
    /\ IF ReadyToWrite(r)
       THEN \E tail \in Byte :
                \E s \in {Iterate(LAMBDA x, g : Committed(x, g, tail),
                                 [node |-> node, cache |-> cache, failed |-> FALSE], r.gens)} :
                    /\ node' = s.node /\ cache' = s.cache
                    /\ Answer(set_success(Ok, IF s.failed THEN -1 ELSE 0))
       ELSE Answer(set_success(Ok, 1)) /\ UNCHANGED <<node, cache>>
    /\ UNCHANGED <<table, log, entry, fds>>

Serve(r) ==
    \/ ServeLookup(r)
    \/ ServeMkdir(r)
    \/ ServeRmdir(r)
    \/ ServeUnlink(r)
    \/ ServeRename(r)
    \/ ServeOpen(r)
    \/ ServeCreate(r)
    \/ ServeReaddir(r)
    \/ ServeGetattr(r)
    \/ ServeRead(r)
    \/ ServeRelease(r)
    \/ ServeFsync(r)
    \/ ServeFlush(r)
    \/ ServeWriteThrough(r)
    \/ ServeWriteBack(r)
    \/ ServeUnknown(r)
    \/ ServeCommit(r)

\* A request, and a response, is decoded; one that does not decode fails the RPC.
Decode ==
    /\ \/ /\ call.phase = "sent"
          /\ \E all \in {ReceivedRequest(call.req)} :
                \/ \E r \in all : call' = [call EXCEPT !.phase = "received", !.req = r]
                \/ all = {} /\ Throw
       \/ /\ call.phase = "replied"
          /\ \E all \in {ReceivedResponse(call.rep)} :
                \/ \E m \in all : call' = [call EXCEPT !.phase = "arrived", !.rep = m]
                \/ all = {} /\ Throw
    /\ UNCHANGED <<load, serverVars, diskVars, clientVars, lost, expect>>

\* Nothing is expected of a file that is gone.
Forget ==
    expect' = [i \in Ino |-> IF i \in Range(entry') \cup Range(fds') THEN expect[i] ELSE <<>>]

ServeCall ==
    /\ call.phase = "received"
    /\ Serve(call.req)
    /\ table'.fhcount - 1 \in Fh
    /\ Forget
    /\ UNCHANGED <<load, clientVars, lost>>

\* The RPC fails, before or after the handler has run.
Lose ==
    /\ call.phase \in {"received", "arrived"} /\ lost < MaxLost
    /\ lost' = lost + 1
    /\ Throw
    /\ UNCHANGED <<load, serverVars, diskVars, clientVars, expect>>

-----------------------------------------------------------------------------
(* The client.                                                              *)

Idle == [cb |-> "none", path |-> Root, to |-> Root, offset |-> 0, size |-> 0, buf |-> <<>>,
         pc |-> "idle", fh |-> 0, at |-> 0]
NoCall == [phase |-> "none", req |-> request_Empty, rep |-> response_Empty]

\* The inodes of the files that are there before the server starts.
FirstInos == CHOOSE f \in [Name -> Ino] : IsInjective(f)

Init ==
    /\ load \in Workload
    /\ table = NewTable /\ log = NoLog /\ cache = <<>>
    /\ fds = [d \in Fd |-> 0]
    /\ \E there \in SUBSET load.there :
        entry = [n \in Name |-> IF n \in there THEN FirstInos[n] ELSE 0]
    /\ node = [i \in Ino |-> NewFile("file", 0)]
    /\ pathtofh = [p \in Path |-> IF p = Root THEN 0 ELSE NoFh]
    /\ chunks = <<>> /\ opened = <<>>
    /\ op = Idle /\ todo = <<>> /\ call = NoCall
    /\ drawn = 0 /\ asks = 0 /\ lost = 0
    /\ expect = [i \in Ino |-> <<>>]

\* The names the kernel stats before it issues the callback.
Walk(o) ==
    CASE o.cb \in {"mkdir", "create", "rmdir", "unlink", "open"} -> <<o.path>>
      [] o.cb = "rename" -> <<o.path, o.to>>
      [] OTHER           -> <<>>

\* ... and whether it goes on with o when path p turns out to be of kind k.
GoesOn(o, p, k) ==
    CASE o.cb \in {"mkdir", "create"} -> k = "none"
      [] o.cb = "rmdir"               -> k = "dir"
      [] o.cb \in {"unlink", "open"}  -> k = "file"
      [] OTHER                        -> p = o.to \/ k # "none"

\* A call on a name.  libfuse renames an open file out of the way of unlink and
\* rename, which is left out; one file is open at a time.
AskName ==
    \E cb \in load.use, p \in Name \cup {<<"">>}, q \in Name \cup {Root} :
        LET o == [Idle EXCEPT !.cb = cb, !.path = p, !.to = q, !.pc = "begin"]
            held == IF opened = <<>> THEN {} ELSE {opened[1].path}
        IN  /\ cb \in {"getattr", "readdir", "mkdir", "rmdir", "unlink", "rename", "create", "open"}
            /\ (cb = "readdir") => p = <<"">>
            /\ cb \notin {"readdir", "getattr"} => p \in Name
            /\ IF cb = "rename" THEN q \in Name \ (held \cup {p}) ELSE q = Root
            /\ cb = "unlink" => p \notin held
            /\ cb \in {"create", "open"} => opened = <<>>
            /\ op' = o /\ todo' = Walk(o)
    /\ UNCHANGED drawn

\* A call on the open file, with sizes and offsets of 64 bits, and for a write
\* the next rand().
AskFile ==
    /\ opened # <<>>
    /\ \E cb \in load.use, n \in Offset, size \in ReadSize, b \in Buffer :
        LET o == [Idle EXCEPT !.cb = cb, !.path = opened[1].path, !.pc = "begin"]
        IN  \/ cb = "read" /\ op' = [o EXCEPT !.offset = n, !.size = size]
            \/ /\ cb = "write" /\ drawn < Len(Draw)
               /\ op' = [o EXCEPT !.offset = n, !.size = Len(b), !.buf = b]
            \/ cb = "fsync" /\ \E datasync \in {0, 1} : op' = [o EXCEPT !.size = datasync]
            \/ cb \in {"flush", "release"} /\ op' = o
    /\ drawn' = IF op'.cb = "write" THEN drawn + 1 ELSE drawn
    /\ UNCHANGED todo

Ask ==
    /\ op.pc = "idle" /\ asks < load.asks
    /\ AskName \/ AskFile
    /\ asks' = asks + 1
    /\ UNCHANGED <<load, serverVars, diskVars, pathtofh, chunks, opened, call, lost, expect>>

\* The callback the kernel has issued, and the path whose handle it looks up.
Callback == IF todo = <<>> THEN op.cb ELSE "getattr"
Subject == IF todo = <<>> THEN op.path ELSE Head(todo)
ByParent == {"mkdir", "create", "flush", "fsync"}
Goal == IF Callback \in ByParent \/ Subject = <<"">> THEN Root ELSE Subject
Handle == pathtofh[Goal]
\* The fuse_file_info of a call; libfuse gives open and create one without fh.
Info ==
    IF op.cb \in {"open", "create"} THEN [fh |-> 0, flags |-> NewFlags]
    ELSE [fh |-> opened[1].fh, flags |-> opened[1].flags]
InfoMessage == fusetoProto(Info)

Running == op.pc # "idle" /\ call.phase = "none"
Send(m) ==
    /\ call' = [phase |-> "sent", req |-> m, rep |-> Ok]
    /\ UNCHANGED <<load, serverVars, diskVars, clientVars, lost, expect>>

SendLookup ==
    /\ Running /\ op.pc \in {"begin", "close"} /\ Handle = NoFh
    /\ Send(set_name(set_dirfh(New("lookup"), pathtofh[Root]), Goal))

\* client_mkdir copies attr into the request before it sets the mode in it.
MkdirRequest ==
    attr_CopyFrom(set_name(set_dirfh(New("mkdir"), Handle), op.path), attributes_Empty)
CreateRequest ==
    fi_CopyFrom(attr_CopyFrom(set_name(set_dirfh(New("create"), Handle), op.path),
                              set_st(attributes_Empty, "st_mode", NewMode)), InfoMessage)
RmdirRequest == set_dirfh(New("rmdir"), Handle)
RenameRequest == set_name(set_todirfh(set_fromfh(New("rename"), Handle), pathtofh[Root]), op.to)
OpenRequest == fi_CopyFrom(set_fh(New("open"), Handle), InfoMessage)
UnlinkRequest == set_fh(New("unlink"), Handle)
ReaddirRequest == set_dirfh(New("readdir"), Handle)
ZeroStat == [n \in StatFields |-> 0]
GetattrRequest ==
    attr_CopyFrom(set_path(set_fh(New("getattr"), Handle), Subject), toGRPCstat(ZeroStat))

\* nfs_read passes size_t and off_t on as int.
ReadRequest ==
    fi_CopyFrom(set_offset(set_size(set_fh(New("read"), Handle), Int32(op.size)),
                           Int32(op.offset)), InfoMessage)
FsyncRequest ==
    fi_CopyFrom(set_isdatasync(set_path(New("fsync"), op.path), op.size), InfoMessage)
FlushRequest == fi_CopyFrom(set_path(New("flush"), op.path), InfoMessage)

RequestOf(cb) ==
    CASE cb = "mkdir"   -> MkdirRequest
      [] cb = "create"  -> CreateRequest
      [] cb = "rmdir"   -> RmdirRequest
      [] cb = "rename"  -> RenameRequest
      [] cb = "open"    -> OpenRequest
      [] cb = "unlink"  -> UnlinkRequest
      [] cb = "readdir" -> ReaddirRequest
      [] cb = "getattr" -> GetattrRequest
      [] cb = "read"    -> ReadRequest
      [] cb = "fsync"   -> FsyncRequest
      [] cb = "flush"   -> FlushRequest

SendCall ==
    /\ Running /\ op.pc = "begin" /\ Handle # NoFh
    /\ Callback \notin {"write", "release"}
    /\ Send(RequestOf(Callback))

\* client_write: the buffer is copied up to its first zero byte, wherever that
\* is, and the chunk is kept and sent.
KeepChunk ==
    /\ Running /\ op.pc = "begin" /\ Callback = "write" /\ Handle # NoFh
    /\ \E tail \in Beyond :
        chunks' = Append(chunks, [fh |-> Handle, size |-> Int32(op.size),
                                  offset |-> Int32(op.offset), gen |-> Draw[drawn],
                                  data |-> CString(op.buf \o tail), fi |-> InfoMessage])
    /\ op' = [op EXCEPT !.pc = "send", !.at = Len(chunks) + 1]
    /\ UNCHANGED <<load, serverVars, diskVars, pathtofh, opened, todo, drawn, asks, call, lost,
                   expect>>

\* Mutant: the offset is not set.
WriteRequestNoOffset(k) ==
    fi_CopyFrom(set_gen(set_data(set_size(set_fh(New("write"), k.fh), k.size), k.data), k.gen),
                k.fi)

\* client_write_handler, for a new chunk and for one that is sent again.
WriteRequest(k) ==
    fi_CopyFrom(set_gen(set_data(set_offset(set_size(set_fh(New("write"), k.fh), k.size),
                                            k.offset), k.data), k.gen), k.fi)
SendWrite ==
    /\ Running /\ (op.pc = "send" \/ (op.pc = "resend" /\ op.at <= Len(chunks)))
    /\ Send(WriteRequest(chunks[op.at]))

\* client_release: client_commit with the handle of the path, then the release.
Step(pc) ==
    /\ op' = [op EXCEPT !.pc = pc]
    /\ UNCHANGED <<load, serverVars, diskVars, pathtofh, chunks, opened, todo, drawn, asks, call,
                   lost, expect>>

EnterCommit ==
    /\ Running /\ op.pc = "begin" /\ op.cb = "release" /\ Handle # NoFh
    /\ op' = [op EXCEPT !.pc = "commit", !.fh = Handle]
    /\ UNCHANGED <<load, serverVars, diskVars, pathtofh, chunks, opened, todo, drawn, asks, call,
                   lost, expect>>

Dirty == Picked(chunks, {i \in DOMAIN chunks : chunks[i].fh = op.fh})
CommitRequest ==
    add_gens(set_fh(New("commit"), op.fh), [j \in DOMAIN Dirty |-> Dirty[j].gen])

SendCommit == Running /\ op.pc = "commit" /\ Dirty # <<>> /\ Send(CommitRequest)
NothingToCommit == Running /\ op.pc = "commit" /\ Dirty = <<>> /\ Step("close")
EndResend == Running /\ op.pc = "resend" /\ op.at > Len(chunks) /\ Step("commit")

SendRelease ==
    /\ Running /\ op.pc = "close" /\ Handle # NoFh
    /\ Send(fi_CopyFrom(set_fh(New("release"), Handle), InfoMessage))

-----------------------------------------------------------------------------
(* Answers.                                                                 *)

Rep == call.rep
Answered(command) ==
    /\ call.phase = "arrived" /\ call.req.command = <<command>>
    /\ call' = NoCall
    /\ UNCHANGED <<load, serverVars, diskVars, drawn, asks, lost>>

Return == op' = Idle /\ todo' = <<>>

GotHandle ==
    /\ Answered("lookup")
    /\ pathtofh' = [pathtofh EXCEPT ![Goal] = Rep.fh]
    /\ UNCHANGED <<chunks, opened, op, todo, expect>>

\* client_getattr fills in the stat whatever the status is.
Stated == [status |-> Rep.status, st |-> toCmdstat(attr(Rep))]
KindStated ==
    IF Stated.status # 0 THEN "none"
    ELSE IF Stated.st["st_mode"] >= S_IFDIR THEN "dir" ELSE "file"

GotStat ==
    /\ Answered("getattr")
    /\ IF todo # <<>> /\ GoesOn(op, Head(todo), KindStated)
       THEN todo' = Tail(todo) /\ UNCHANGED op
       ELSE Return
    /\ UNCHANGED <<pathtofh, chunks, opened, expect>>

\* What client_read puts in the buffer of nfs_read.
ReadBuffer == [j \in 1 .. Rep.size |-> IF j <= Len(Rep.data) THEN Rep.data[j] ELSE 0]

\* The list of DirEntry that read_directory makes of an answer.
Listing ==
    [i \in DOMAIN Rep.objects |->
        [name |-> Rep.objects[i].name, st |-> toCmdstat(attr(Rep.objects[i]))]]

\* Callbacks that change nothing at the client but what rmdir forgets.
Passed ==
    /\ \E command \in {"mkdir", "rmdir", "unlink", "readdir", "read", "fsync", "flush"} :
        Answered(command)
    /\ pathtofh' = IF op.cb = "rmdir" /\ Rep.success = 0
                   THEN [pathtofh EXCEPT ![op.path] = NoFh] ELSE pathtofh
    /\ Return
    /\ UNCHANGED <<chunks, opened, expect>>

\* client_rename: pathtofh[from] is 0 if the map has no such path.
Moved ==
    /\ Answered("rename")
    /\ LET h == IF pathtofh[op.path] = NoFh THEN 0 ELSE pathtofh[op.path]
       IN  IF Rep.success # 0 THEN UNCHANGED <<pathtofh, opened>>
           ELSE /\ pathtofh' = [pathtofh EXCEPT ![op.path] = NoFh,
                                                ![op.to] = IF @ = NoFh THEN NoFh ELSE h]
                /\ opened' = [i \in DOMAIN opened |->
                                IF opened[i].path = op.path
                                THEN [opened[i] EXCEPT !.path = op.to] ELSE opened[i]]
    /\ Return
    /\ UNCHANGED <<chunks, expect>>

\* open and create: the kernel keeps fi if the callback succeeded.
GotFile ==
    /\ Answered("open") \/ Answered("create")
    /\ LET f == readFileInfo(fi(Rep))
       IN  opened' = IF Rep.success # 0 THEN opened
                     ELSE <<[path |-> op.path, fh |-> f.fh, flags |-> f.flags,
                             ino |-> entry[op.path]]>>
    /\ Return
    /\ UNCHANGED <<pathtofh, chunks, expect>>

\* What a successful write of b at offset o adds to what is expected of a file:
\* nothing is promised beyond the first zero byte, nor where an offset of more
\* than 31 bits leads.
Promise(e, o, b) ==
    LET zero == Len(CString(b)) + 1
        firm == [i \in DOMAIN b |-> IF i <= zero THEN b[i] ELSE Unsure]
        loose == [i \in DOMAIN b |-> Unsure]
    IN  IF Int32(o) < 0 THEN e
        ELSE Overlay(e, Int32(o), IF Int32(o) = o THEN firm ELSE loose, Unsure)

\* client_write returns; a chunk the server refused stays in the vector.
GotWritten ==
    /\ Answered("write") /\ op.pc = "send"
    /\ expect' = IF Rep.status # 0 THEN expect
                 ELSE [expect EXCEPT ![InoOf(opened[1].fh)] = Promise(@, op.offset, op.buf)]
    /\ Return
    /\ UNCHANGED <<pathtofh, chunks, opened>>

GotResent ==
    /\ Answered("write") /\ op.pc = "resend"
    /\ op' = IF Rep.status = 0 THEN [op EXCEPT !.at = @ + 1] ELSE op
    /\ UNCHANGED <<pathtofh, chunks, opened, todo, expect>>

\* client_commit: the answers 0, 1 and anything else.
GotCommitted ==
    /\ Answered("commit") /\ Rep.success = 0
    /\ chunks' = Picked(chunks, {i \in DOMAIN chunks : chunks[i].fh # op.fh})
    /\ op' = [op EXCEPT !.pc = "close"]
    /\ UNCHANGED <<pathtofh, opened, todo, expect>>

GotMissing ==
    /\ Answered("commit") /\ Rep.success = 1
    /\ op' = [op EXCEPT !.pc = "resend", !.at = 1]
    /\ UNCHANGED <<pathtofh, chunks, opened, todo, expect>>

\* The release is not sent; the kernel forgets the open file all the same.
GotRefused ==
    /\ Answered("commit") /\ Rep.success \notin {0, 1}
    /\ opened' = <<>> /\ Return
    /\ UNCHANGED <<pathtofh, chunks, expect>>

GotReleased ==
    /\ Answered("release")
    /\ opened' = <<>> /\ Return
    /\ UNCHANGED <<pathtofh, chunks, expect>>

\* The Status is not OK: retry(), and the function that failed calls itself.
Retry ==
    /\ call.phase = "failed"
    /\ call' = NoCall
    /\ pathtofh' = [p \in Path |-> IF p = Root THEN 0 ELSE NoFh]
    /\ op' = IF call.req.command = <<"release">> THEN [op EXCEPT !.pc = "begin"] ELSE op
    /\ UNCHANGED <<load, serverVars, diskVars, chunks, opened, todo, drawn, asks, lost, expect>>

-----------------------------------------------------------------------------

\* What a callback does by itself once it has begun.
Proceed ==
    \/ SendLookup
    \/ SendCall
    \/ KeepChunk
    \/ SendWrite
    \/ EnterCommit
    \/ SendCommit
    \/ NothingToCommit
    \/ EndResend
    \/ SendRelease
    \/ GotHandle
    \/ GotStat
    \/ Passed
    \/ Moved
    \/ GotFile
    \/ GotWritten
    \/ GotResent
    \/ GotCommitted
    \/ GotMissing
    \/ GotRefused
    \/ GotReleased
    \/ Retry

Finished == op.pc = "idle" /\ asks = load.asks /\ UNCHANGED vars

Next == Ask \/ Proceed \/ Decode \/ ServeCall \/ Lose \/ Finished

\* A callback runs on, and gRPC delivers a call or reports that it failed.
Spec == Init /\ [][Next]_vars /\ WF_vars(Proceed) /\ WF_vars(Decode) /\ WF_vars(ServeCall)

-----------------------------------------------------------------------------
(* Properties.                                                              *)

\* Every variable has its type: what the codec and the conversions leave in the
\* table, in a descriptor and in a file stays in range.
TypeOK ==
    /\ table \in Table /\ log \in Log
    /\ fds \in [Fd -> Ino \cup {0}] /\ entry \in [Name -> Ino \cup {0}]
    /\ \A i \in Ino : node[i].kind \in {"file", "dir"} /\ node[i].data \in Seq(Byte)
    /\ pathtofh \in PathMap
    /\ \A i \in DOMAIN opened : opened[i].fh \in Fd /\ opened[i].flags = NewFlags
    /\ todo \in Seq(Path) /\ expect \in [Ino -> Seq(Byte \cup {Unsure})]

\* What is sent is what arrives, sizes and signs included, unless a name is not
\* UTF-8 or the message is larger than gRPC takes: then nothing arrives.
RoundTrip ==
    [][Decode =>
        IF call.phase = "sent"
        THEN IF /\ IsUtf8(call.req.name \o call.req.path)
                /\ WireSize(request_Serialize(call.req)) <= MaxMessage
             THEN call'.phase = "received" /\ call'.req = call.req ELSE call'.phase = "failed"
        ELSE IF /\ \A i \in DOMAIN call.rep.objects : IsUtf8(call.rep.objects[i].name)
                /\ WireSize(response_Serialize(call.rep)) <= MaxMessage
             THEN call'.phase = "arrived" /\ call'.rep = call.rep ELSE call'.phase = "failed"]_vars

\* The descriptor the client holds stays one of the file that bore the name when
\* it was opened, through renames, lost answers and descriptors that leaked, until
\* the file is released.
OpenedRight ==
    op.cb # "release" =>
        \A i \in DOMAIN opened : opened[i].ino # 0 /\ InoOf(opened[i].fh) = opened[i].ino

Linked == Range(entry) \ {0}
Covers(k, q) == k.offset >= 0 /\ q \in k.offset + 1 .. k.offset + k.size
InFlight == IF op.cb = "write" THEN {op.at} ELSE {}
\* The byte q of inode i is in the last chunk that covers it.
Kept(i, q, byte) ==
    LET K == {j \in DOMAIN chunks \ InFlight :
                InoOf(chunks[j].fi.fh) = i /\ Covers(chunks[j], q)}
        k == chunks[Max(K)]
    IN  K # {} /\ PwriteBytes(k.data, k.size, 0)[q - k.offset] = byte

\* Once nfs_write has returned, its bytes, at their place, are on the disk of a
\* V1 server, and stay there through flush, fsync, release, repeated calls and
\* renames of the open file.  With V2 they are there or in a chunk the client still
\* keeps, through all of these but renames: the release of a file renamed after a
\* write commits nothing of it (not covered, see README).
Durable ==
    \A i \in Linked : \A q \in DOMAIN expect[i] :
        \/ expect[i][q] = Unsure
        \/ op.cb = "write" /\ op.pc = "send" /\ Covers(chunks[op.at], q)
        \/ q <= Len(node[i].data) /\ node[i].data[q] = expect[i][q]
        \/ load.version = 2 /\ Kept(i, q, expect[i][q])

Settled(i) == load.version = 1 \/ \A j \in DOMAIN chunks : InoOf(chunks[j].fi.fh) # i

\* A read below 2 GB of a file with no uncommitted write returns as many bytes as
\* the file has there, and up to the first zero the bytes last written.
ReadsBack ==
    (call.phase = "arrived" /\ call.req.command = <<"read">> /\ Rep.success = 0) =>
        LET i == InoOf(opened[1].fh)
            o == op.offset
            e == SubSeq(expect[i], o + 1, Min({o + op.size, Len(expect[i])}))
        IN  (Settled(i) /\ Int32(o) = o) =>
                /\ Rep.size = Len(e)
                /\ \A j \in DOMAIN e :
                    (\A h \in 1 .. j - 1 : e[h] \notin {0, Unsure}) /\ e[j] # Unsure =>
                        ReadBuffer[j] = e[j]

\* A getattr answers with the attributes of the entry the application named, and
\* a readdir with the names and inodes of the directory: no handle, conversion
\* or default of a message gets in between.
Told ==
    /\ call.phase = "arrived" /\ call.req.command = <<"getattr">> =>
        IF KindAt(Goal) = "none" THEN Stated.status = -ENOENT
        ELSE Stated = [status |-> 0, st |-> StatOf(Goal)]
    /\ call.phase = "arrived" /\ call.req.command = <<"readdir">> =>
        [i \in DOMAIN Listing |-> <<Listing[i].name, Listing[i].st["st_ino"]>>] =
        [i \in DOMAIN Entries |-> <<Entries[i], StatOf(Entries[i]).st_ino>>]

\* Calls that no retry can complete: their name does not decode at the server,
\* or the listing does not decode or may not fit at the client.
Hopeless ==
    \/ ~IsUtf8(op.path \o op.to)
    \/ /\ op.cb = "readdir"
       /\ \/ \E n \in Name : entry[n] # 0 /\ ~IsUtf8(n)
          \/ \E w \in {response_Serialize(m) : m \in {EntriesMessage(1)}} : WireSize(w) > MaxMessage

\* Every other callback returns, whatever is thrown, lost or missing on the way.
CallsReturn == (op.pc # "idle" /\ ~Hopeless) ~> op.pc = "idle"

=============================================================================
