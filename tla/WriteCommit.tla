---------------------------- MODULE WriteCommit ----------------------------
(***************************************************************************)
(* The write path of server V2 and of the FUSE client: WRITEs acknowledged *)
(* from memory, COMMIT on release, and retransmission.  The files are a    *)
(* flat directory, so that a path costs the client one lookup (directory   *)
(* handle 0) and the server's handle table is the whole of HandleTable.    *)
(*                                                                         *)
(* A client is one FUSE process that runs one callback at a time.  Code    *)
(* between two RPCs, and a handler on the server, is one step.  Calls can  *)
(* be lost before or after execution, or be executed after the client gave *)
(* up; the server can crash, also in the middle of a handler that writes   *)
(* to disk.  Draw is the stream of rand() % 10000 a client process sees.   *)
(***************************************************************************)
EXTENDS HandleTable, FiniteSets, Sequences, Functions

CONSTANTS
    Client,      \* FUSE processes
    Slot,        \* open FUSE file handles one client can have at a time
    Offset,      \* disjoint ranges of a file that a write covers
    Gen,         \* values of rand() % 10000
    Draw,        \* Draw[c][i]: what the i-th rand() of client c yields
    MaxFd,       \* bound: file descriptors the server process can have open
    MaxLost,     \* bound: calls that fail although the server is up
    MaxLate,     \* bound: failed calls that are still executed later
    MaxCrash,    \* bound: crashes of the server
    MaxIOError,  \* bound: pwrite calls that fail for want of space or the like
    NoOpen,      \* a slot that is free
    NoChunk,     \* no chunk
    Blank        \* what a range of a file holds before the first write

File == Path \ {Root}
Fd == 1 .. MaxFd

ASSUME WriteCommitAssumption ==
    /\ Draw \in [Client -> Seq(Gen)]
    /\ MaxFd \in Nat
    /\ Slot # {} /\ File # {}
    /\ {MaxLost, MaxLate, MaxCrash, MaxIOError} \subseteq Nat
    /\ NoOpen \notin [file : File, fi : Fd]

\* The n-th write of client c.
WriteId == UNION {{c} \X (1 .. Len(Draw[c])) : c \in Client}

\* A Chunk of the client, a Write of the server: the handle of the path when
\* the write was issued, the server's file descriptor in fi and the range.
\* id stands for the data; file is the path the application wrote to, which
\* the code does not keep.
Chunk == [id : WriteId, file : File, fh : Fh, fi : Fd, offset : Offset]

GenOf(k) == Draw[k.id[1]][k.id[2]]

\* The request and response messages, their unused fields at a default.
\* gens lists the gens of a commit, keyed and ordered by the number of the
\* write, which is the order of the client's vector.
NoGens == [n \in {} |-> 0]
GenList == UNION {[N -> Gen] : N \in UNION {SUBSET (1 .. Len(Draw[c])) : c \in Client}}
Request == [command : {"none", "lookup", "open", "write", "commit", "release"},
            name : Path, fh : Fh, fi : Fd \cup {0},
            chunk : Chunk \cup {NoChunk}, gens : GenList]
Response == [fh : Fh, fi : Fd \cup {0}, success : {0, 1, -1}]

NoRequest == [command |-> "none", name |-> Root, fh |-> 0, fi |-> 0,
              chunk |-> NoChunk, gens |-> NoGens]
NoResponse == [fh |-> 0, fi |-> 0, success |-> 0]

\* The one call a client can have under way.
Call == [phase : {"none", "sent", "replied", "failed"}, req : Request, rep : Response]
NoCall == [phase |-> "none", req |-> NoRequest, rep |-> NoResponse]

\* The callback a client is in, and how far it is.
Op == [pc : {"idle", "open", "write", "send", "release", "commit", "resend", "again",
              "close"},
       slot : Slot, file : File, fh : Fh, chunk : Chunk \cup {NoChunk}]

IdleOp == [pc |-> "idle", slot |-> CHOOSE s \in Slot : TRUE,
           file |-> CHOOSE f \in File : TRUE, fh |-> 0, chunk |-> NoChunk]

VARIABLES
    \* the server process
    up,          \* it runs
    table,       \* pathToFh, fhToPath, fhcount
    fds,         \* the file each open descriptor refers to
    cache,       \* the vector of Writes, as one queue per gen
    \* the server's disk
    log,         \* the two JSON files
    disk,        \* the last write to each range of each file
    stable,      \* history: the writes pwritten so far, and to which file
    \* the clients
    pathtofh,    \* the client's subset of the mapping
    chunks,      \* the client's vector of Chunks
    fi,          \* the open files the kernel knows
    op,          \* the callback under way
    drawn,       \* how many gens were drawn
    \* the network
    call,
    late,        \* calls given up by the client and not yet executed
    faults       \* how often each kind of fault occurred

serverVars == <<up, table, fds, cache>>
diskVars == <<log, disk, stable>>
clientVars == <<pathtofh, chunks, fi, op, drawn>>
vars == <<serverVars, diskVars, clientVars, call, late, faults>>

\* No gen is drawn twice, by one client or by two: what the code relies on when
\* it identifies a write by rand() % 10000 alone.
DrawsDistinct ==
    \A c, d \in Client : \A i \in 1 .. Len(Draw[c]), j \in 1 .. Len(Draw[d]) :
        Draw[c][i] = Draw[d][j] => c = d /\ i = j

NoHandles == [p \in Path |-> IF p = Root THEN 0 ELSE NoFh]

\* An open file of the kernel, and a pwrite that happened: the file it was meant
\* for and the file the descriptor referred to.
OpenFile == [file : File, fi : Fd]
Stable == [id : WriteId, to : File, on : File]

ServerTypeOK ==
    /\ up \in BOOLEAN
    /\ table \in Table
    /\ fds \in [Fd -> File \cup {NoPath}]
    /\ cache \in [Gen -> Seq(Chunk)]

DiskTypeOK ==
    /\ log \in Log
    /\ disk \in [File -> [Offset -> WriteId \cup {Blank}]]
    /\ stable \subseteq Stable

ClientTypeOK ==
    /\ pathtofh \in [Client -> PathMap]
    /\ chunks \in [Client -> SUBSET Chunk]
    /\ fi \in [Client -> [Slot -> OpenFile \cup {NoOpen}]]
    /\ op \in [Client -> Op]
    /\ drawn \in [Client -> Nat]

NetworkTypeOK ==
    /\ call \in [Client -> Call]
    /\ late \subseteq (Client \X Request)
    /\ faults \in [lost : Nat, late : Nat, crash : Nat, io : Nat]

\* Every variable has its type: in particular what open(2) returned is recorded
\* only if it succeeded, and what pwrite(2) stored came from a client.
TypeOK == ServerTypeOK /\ DiskTypeOK /\ ClientTypeOK /\ NetworkTypeOK

Init ==
    /\ up = TRUE
    /\ table = NewTable
    /\ fds = [d \in Fd |-> NoPath]
    /\ cache = [g \in Gen |-> <<>>]
    /\ log = NoLog
    /\ disk = [f \in File |-> [o \in Offset |-> Blank]]
    /\ stable = {}
    /\ pathtofh = [c \in Client |-> NoHandles]
    /\ chunks = [c \in Client |-> {}]
    /\ fi = [c \in Client |-> [s \in Slot |-> NoOpen]]
    /\ op = [c \in Client |-> IdleOp]
    /\ drawn = [c \in Client |-> 0]
    /\ call = [c \in Client |-> NoCall]
    /\ late = {}
    /\ faults = [lost |-> 0, late |-> 0, crash |-> 0, io |-> 0]

-----------------------------------------------------------------------------
(* The server: one action per request handler.  A handler runs for call of  *)
(* client c that is still open (live), or for a late request.              *)

\* The Status OK reply, which a late request has nobody to give to.
Reply(c, live, rep) ==
    call' = IF live THEN [call EXCEPT ![c] = [phase |-> "replied", req |-> @.req, rep |-> rep]]
                    ELSE call

\* An exception in a handler, which gRPC turns into a Status that is not OK.
Throw(c, live) ==
    call' = IF live THEN [call EXCEPT ![c].phase = "failed"] ELSE call

\* lookup: the parent is directory handle 0, whose path is always known.
ServeLookup(c, r, live) ==
    /\ r.command = "lookup"
    /\ Mapped(table, r.name) \/ table.fhcount \in Fh
    /\ table' = AddLookup(table, r.name)
    /\ log' = LogAfterAdd(table, log, r.name)
    /\ Reply(c, live, [NoResponse EXCEPT !.fh = AddLookup(table, r.name).pathToFh[r.name]])
    /\ UNCHANGED <<up, fds, cache, disk, stable, faults>>

\* findLookup throws in open, write and release: the files were read in vain.
ServeUnresolved(c, r, live) ==
    /\ r.command \in {"open", "write", "release"}
    /\ ~Resolves(table, log, r.fh)
    /\ table' = Found(table, log, r.fh)
    /\ Throw(c, live)
    /\ UNCHANGED <<up, fds, cache, log, disk, stable, faults>>

\* open(2) returns the lowest descriptor that is free.
FreeFds == {d \in Fd : fds[d] = NoPath}
CanOpen(r) == FreeFds # {} /\ PathOf(table, log, r.fh) # Root

ServeOpen(c, r, live) ==
    /\ r.command = "open"
    /\ Resolves(table, log, r.fh)
    /\ CanOpen(r)
    /\ \E d \in FreeFds :
        /\ \A e \in FreeFds : d <= e
        /\ fds' = [fds EXCEPT ![d] = PathOf(table, log, r.fh)]
        /\ Reply(c, live, [NoResponse EXCEPT !.fi = d])
    /\ table' = Found(table, log, r.fh)
    /\ UNCHANGED <<up, cache, log, disk, stable, faults>>

ServeOpenFails(c, r, live) ==
    /\ r.command = "open"
    /\ Resolves(table, log, r.fh)
    /\ ~CanOpen(r)
    /\ table' = Found(table, log, r.fh)
    /\ Reply(c, live, [NoResponse EXCEPT !.success = -1])
    /\ UNCHANGED <<up, fds, cache, log, disk, stable, faults>>

\* write: acknowledged once it is in the vector.
ServeWrite(c, r, live) ==
    /\ r.command = "write"
    /\ Resolves(table, log, r.fh)
    /\ table' = Found(table, log, r.fh)
    /\ cache' = [cache EXCEPT ![GenOf(r.chunk)] = Append(@, r.chunk)]
    /\ Reply(c, live, NoResponse)
    /\ UNCHANGED <<up, fds, log, disk, stable, faults>>

\* release: close(2) of whatever the descriptor is now.
ServeRelease(c, r, live) ==
    /\ r.command = "release"
    /\ Resolves(table, log, r.fh)
    /\ table' = Found(table, log, r.fh)
    /\ fds' = [fds EXCEPT ![r.fi] = NoPath]
    /\ Reply(c, live, NoResponse)
    /\ UNCHANGED <<up, cache, log, disk, stable, faults>>

\* commit starts with logSave, which calls findLookup for every cached Write.
CachedFhs == {k.fh : k \in UNION {Range(cache[g]) : g \in Gen}}
LogSaved == IF \A h \in CachedFhs : Known(table, h) THEN table ELSE Loaded(table, log)
LogSaveThrows == \E h \in CachedFhs : ~Known(LogSaved, h)

ServeCommitThrows(c, r, live) ==
    /\ r.command = "commit"
    /\ LogSaveThrows
    /\ table' = LogSaved
    /\ Throw(c, live)
    /\ UNCHANGED <<up, fds, cache, log, disk, stable, faults>>

\* Mutant: one gen that is there is enough.
OneReady(r) == \E n \in DOMAIN r.gens : cache[r.gens[n]] # <<>>

\* The first loop: every listed gen occurs in the vector.
ReadyToWrite(r) == \A n \in DOMAIN r.gens : cache[r.gens[n]] # <<>>

ServeCommitNotReady(c, r, live) ==
    /\ r.command = "commit"
    /\ ~LogSaveThrows
    /\ ~ReadyToWrite(r)
    /\ table' = LogSaved
    /\ Reply(c, live, [NoResponse EXCEPT !.success = 1])
    /\ UNCHANGED <<up, fds, cache, log, disk, stable, faults>>

\* The second loop takes, for each listed gen in turn, the first cached Write
\* with that gen, and skips the gen if the earlier ones left none.
Rank(r, n) == Cardinality({m \in DOMAIN r.gens : m <= n /\ r.gens[m] = r.gens[n]})
Hits(r) == {n \in DOMAIN r.gens : Rank(r, n) <= Len(cache[r.gens[n]])}
Hit(r, n) == cache[r.gens[n]][Rank(r, n)]
BadHits(r) == {n \in Hits(r) : fds[Hit(r, n).fi] = NoPath}

\* Those of done that land in a range, and the one of them that is written last.
Landing(r, done, f, o) ==
    {n \in done : fds[Hit(r, n).fi] = f /\ Hit(r, n).offset = o}
Last(N) == {n \in N : \A m \in N : m <= n}

PwriteTo(r, done, f, o) ==
    LET last == Last(Landing(r, done, f, o)) IN
    IF last = {} THEN disk[f][o] ELSE Hit(r, CHOOSE n \in last : TRUE).id

\* The writes with numbers in done were pwritten ...
Pwrite(r, done) ==
    /\ disk' = [f \in File |-> [o \in Offset |-> PwriteTo(r, done, f, o)]]
    /\ stable' = stable \cup
         {[id |-> Hit(r, n).id, to |-> Hit(r, n).file, on |-> fds[Hit(r, n).fi]] : n \in done}

\* Mutant: they stay in the vector.
NotErased(r, done) == cache

\* ... and erased from the vector.
Erased(r, done) ==
    [g \in Gen |-> SubSeq(cache[g],
                          Cardinality({n \in done : r.gens[n] = g}) + 1,
                          Len(cache[g]))]

ServeCommit(c, r, live) ==
    /\ r.command = "commit"
    /\ ~LogSaveThrows
    /\ ReadyToWrite(r)
    /\ BadHits(r) = {}
    /\ table' = LogSaved
    /\ Pwrite(r, Hits(r))
    /\ cache' = Erased(r, Hits(r))
    /\ Reply(c, live, NoResponse)
    /\ UNCHANGED <<up, fds, log, faults>>

\* pwrite returns -1 for the Write numbered n, because its descriptor is
\* closed or the disk refuses, and the handler returns at once.
Before(r, n) == {m \in Hits(r) : m < n}

ServeCommitFails(c, r, live) ==
    /\ r.command = "commit"
    /\ ~LogSaveThrows
    /\ ReadyToWrite(r)
    /\ \E n \in Hits(r) :
        /\ BadHits(r) \cap Before(r, n) = {}
        /\ IF n \in BadHits(r)
           THEN UNCHANGED faults
           ELSE /\ faults.io < MaxIOError
                /\ faults' = [faults EXCEPT !.io = @ + 1]
        /\ Pwrite(r, Before(r, n))
        /\ cache' = Erased(r, Before(r, n))
    /\ table' = LogSaved
    /\ Reply(c, live, [NoResponse EXCEPT !.success = -1])
    /\ UNCHANGED <<up, fds, log>>

Serve(c, r, live) ==
    \/ ServeLookup(c, r, live)
    \/ ServeUnresolved(c, r, live)
    \/ ServeOpen(c, r, live)
    \/ ServeOpenFails(c, r, live)
    \/ ServeWrite(c, r, live)
    \/ ServeRelease(c, r, live)
    \/ ServeCommitThrows(c, r, live)
    \/ ServeCommitNotReady(c, r, live)
    \/ ServeCommit(c, r, live)
    \/ ServeCommitFails(c, r, live)

ServeCall(c) ==
    /\ up
    /\ call[c].phase = "sent"
    /\ Serve(c, call[c].req, TRUE)
    /\ UNCHANGED <<clientVars, late>>

ServeLate ==
    /\ up
    /\ \E l \in late :
        /\ Serve(l[1], l[2], FALSE)
        /\ late' = late \ {l}
    /\ UNCHANGED clientVars

-----------------------------------------------------------------------------
(* Faults of the network and of the server.                                 *)

\* The call of c never reaches a handler, or reaches it after c gave up.
LoseRequest(c) ==
    /\ up
    /\ call[c].phase = "sent"
    /\ faults.lost < MaxLost
    /\ call' = [call EXCEPT ![c].phase = "failed"]
    /\ \/ /\ faults' = [faults EXCEPT !.lost = @ + 1]
          /\ UNCHANGED late
       \/ /\ faults.late < MaxLate
          /\ faults' = [faults EXCEPT !.lost = @ + 1, !.late = @ + 1]
          /\ late' = late \cup {<<c, call[c].req>>}
    /\ UNCHANGED <<serverVars, diskVars, clientVars>>

LoseReply(c) ==
    /\ call[c].phase = "replied"
    /\ faults.lost < MaxLost
    /\ call' = [call EXCEPT ![c].phase = "failed"]
    /\ faults' = [faults EXCEPT !.lost = @ + 1]
    /\ UNCHANGED <<serverVars, diskVars, clientVars, late>>

\* No server listens.
Refuse(c) ==
    /\ ~up
    /\ call[c].phase = "sent"
    /\ call' = [call EXCEPT ![c].phase = "failed"]
    /\ UNCHANGED <<serverVars, diskVars, clientVars, late, faults>>

\* The process dies: its memory and descriptors go, and so do the calls it
\* has not answered and some of the answers under way.
Die ==
    /\ up
    /\ faults.crash < MaxCrash
    /\ faults' = [faults EXCEPT !.crash = @ + 1]
    /\ up' = FALSE
    /\ table' = NewTable
    /\ fds' = [d \in Fd |-> NoPath]
    /\ cache' = [g \in Gen |-> <<>>]
    /\ late' = {}
    /\ \E S \in SUBSET {c \in Client : call[c].phase = "replied"} :
        call' = [c \in Client |->
                   IF call[c].phase = "sent" \/ c \in S
                   THEN [call[c] EXCEPT !.phase = "failed"] ELSE call[c]]
    /\ UNCHANGED clientVars

Pending == {call[c].req : c \in {d \in Client : call[d].phase = "sent"}}
               \cup {l[2] : l \in late}

CrashBetween ==
    /\ Die
    /\ UNCHANGED diskVars

\* ... in storeMapping, for a lookup that adds an entry.
CrashInStore ==
    /\ Die
    /\ \E r \in Pending :
        /\ r.command = "lookup"
        /\ ~Mapped(table, r.name) /\ table.fhcount \in Fh
        /\ LET t == AddLookup(table, r.name)
           IN  log' \in CutStores(t, log) \cup {Stored(t)}
    /\ UNCHANGED <<disk, stable>>

\* ... in the second loop of a commit, after the pwrite of number n.
CrashInCommit ==
    /\ Die
    /\ \E r \in Pending :
        /\ r.command = "commit"
        /\ ~LogSaveThrows
        /\ ReadyToWrite(r)
        /\ \E n \in Hits(r) \ BadHits(r) :
            /\ BadHits(r) \cap Before(r, n) = {}
            /\ Pwrite(r, Before(r, n) \cup {n})
    /\ UNCHANGED log

Restart ==
    /\ ~up
    /\ up' = TRUE
    /\ UNCHANGED <<table, fds, cache, diskVars, clientVars, call, late, faults>>

-----------------------------------------------------------------------------
(* The client: how a callback starts, what it sends next, what it does with *)
(* an answer, and retry().                                                  *)

Goto(c, pc) == op' = [op EXCEPT ![c].pc = pc]
Return(c) == op' = [op EXCEPT ![c] = IdleOp]
Free(c, s) == fi' = [fi EXCEPT ![c][s] = NoOpen]

At(c, pc) == op[c].pc = pc /\ call[c].phase = "none"

Start(c, pc, s, f) ==
    /\ At(c, "idle")
    /\ op' = [op EXCEPT ![c].pc = pc, ![c].slot = s, ![c].file = f]
    /\ UNCHANGED <<serverVars, diskVars, pathtofh, chunks, fi, drawn, call, late, faults>>

StartOpen(c, s, f) == fi[c][s] = NoOpen /\ Start(c, "open", s, f)

StartWrite(c, s) ==
    /\ fi[c][s] # NoOpen
    /\ drawn[c] < Len(Draw[c])
    /\ Start(c, "write", s, fi[c][s].file)

StartRelease(c, s) == fi[c][s] # NoOpen /\ Start(c, "release", s, fi[c][s].file)

Send(c, r) ==
    /\ call' = [call EXCEPT ![c] = [phase |-> "sent", req |-> r, rep |-> NoResponse]]
    /\ UNCHANGED <<serverVars, diskVars, late, faults>>

\* lookup(pth) is answered from pathtofh, or costs a call.
Handle(c) == pathtofh[c][op[c].file]

SendLookup(c) ==
    /\ \E pc \in {"open", "write", "release", "close"} : At(c, pc)
    /\ Handle(c) = NoFh
    /\ Send(c, [NoRequest EXCEPT !.command = "lookup", !.name = op[c].file])
    /\ UNCHANGED clientVars

SendOpen(c) ==
    /\ At(c, "open")
    /\ Handle(c) # NoFh
    /\ Send(c, [NoRequest EXCEPT !.command = "open", !.fh = Handle(c)])
    /\ UNCHANGED clientVars

\* client_write: draw a gen, keep the chunk ...
NewChunk(c, o) == [id |-> <<c, drawn[c] + 1>>, file |-> op[c].file, fh |-> Handle(c),
                   fi |-> fi[c][op[c].slot].fi, offset |-> o]

KeepChunk(c, o) ==
    /\ At(c, "write")
    /\ Handle(c) # NoFh
    /\ drawn' = [drawn EXCEPT ![c] = @ + 1]
    /\ chunks' = [chunks EXCEPT ![c] = @ \cup {NewChunk(c, o)}]
    /\ op' = [op EXCEPT ![c].pc = "send", ![c].chunk = NewChunk(c, o)]
    /\ UNCHANGED <<serverVars, diskVars, pathtofh, fi, call, late, faults>>

\* ... and client_write_handler sends it, with the handle it was made with.
WriteRequest(k) == [NoRequest EXCEPT !.command = "write", !.fh = k.fh, !.fi = k.fi,
                                     !.chunk = k]

SendWrite(c) ==
    /\ At(c, "send") \/ At(c, "again")
    /\ Send(c, WriteRequest(op[c].chunk))
    /\ UNCHANGED clientVars

\* client_release calls client_commit with the handle the path has now.
EnterCommit(c) ==
    /\ At(c, "release")
    /\ Handle(c) # NoFh
    /\ op' = [op EXCEPT ![c].pc = "commit", ![c].fh = Handle(c)]
    /\ UNCHANGED <<serverVars, diskVars, pathtofh, chunks, fi, drawn, call, late, faults>>

\* Mutant: the chunks of the descriptor being closed, not of the path.
DirtyByFd(c) == {k \in chunks[c] : k.fi = fi[c][op[c].slot].fi}

Dirty(c) == {k \in chunks[c] : k.fh = op[c].fh}

CommitRequest(c) ==
    [NoRequest EXCEPT !.command = "commit", !.fh = op[c].fh,
                      !.gens = [n \in {k.id[2] : k \in Dirty(c)} |-> Draw[c][n]]]

SendCommit(c) ==
    /\ At(c, "commit")
    /\ Dirty(c) # {}
    /\ Send(c, CommitRequest(c))
    /\ UNCHANGED clientVars

\* Mutant: the dirty flag is never set.
NeverDirty(c) ==
    /\ At(c, "commit")
    /\ Goto(c, "close")
    /\ UNCHANGED <<serverVars, diskVars, pathtofh, chunks, fi, drawn, call, late, faults>>

NothingToCommit(c) ==
    /\ At(c, "commit")
    /\ Dirty(c) = {}
    /\ Goto(c, "close")
    /\ UNCHANGED <<serverVars, diskVars, pathtofh, chunks, fi, drawn, call, late, faults>>

\* client_write_resend goes through the whole vector, the chunks of other
\* files included; the chunk it has reached is sent until it is answered.
ToResend(c) == {k \in chunks[c] : op[c].chunk = NoChunk \/ k.id[2] > op[c].chunk.id[2]}

NextChunk(c) ==
    /\ At(c, "resend")
    /\ \E k \in ToResend(c) :
        /\ \A m \in ToResend(c) : k.id[2] <= m.id[2]
        /\ op' = [op EXCEPT ![c].pc = "again", ![c].chunk = k]
    /\ UNCHANGED <<serverVars, diskVars, pathtofh, chunks, fi, drawn, call, late, faults>>

EndResend(c) ==
    /\ At(c, "resend")
    /\ ToResend(c) = {}
    /\ op' = [op EXCEPT ![c].pc = "commit", ![c].chunk = NoChunk]
    /\ UNCHANGED <<serverVars, diskVars, pathtofh, chunks, fi, drawn, call, late, faults>>

SendRelease(c) ==
    /\ At(c, "close")
    /\ Handle(c) # NoFh
    /\ Send(c, [NoRequest EXCEPT !.command = "release", !.fh = Handle(c),
                                 !.fi = fi[c][op[c].slot].fi])
    /\ UNCHANGED clientVars

\* An answer has come for the call that r names.
Answered(c, command) ==
    /\ call[c].phase = "replied"
    /\ call[c].req.command = command
    /\ call' = [call EXCEPT ![c] = NoCall]
    /\ UNCHANGED <<serverVars, diskVars, drawn, late, faults>>

GotHandle(c) ==
    /\ Answered(c, "lookup")
    /\ pathtofh' = [pathtofh EXCEPT ![c][call[c].req.name] = call[c].rep.fh]
    /\ UNCHANGED <<chunks, fi, op>>

\* Mutant: success is not looked at.
OpenedAnyway(c) ==
    /\ Answered(c, "open")
    /\ fi' = [fi EXCEPT ![c][op[c].slot] = [file |-> op[c].file, fi |-> call[c].rep.fi]]
    /\ Return(c)
    /\ UNCHANGED <<pathtofh, chunks>>

Opened(c) ==
    /\ Answered(c, "open")
    /\ call[c].rep.success = 0
    /\ fi' = [fi EXCEPT ![c][op[c].slot] = [file |-> op[c].file, fi |-> call[c].rep.fi]]
    /\ Return(c)
    /\ UNCHANGED <<pathtofh, chunks>>

OpenRefused(c) ==
    /\ Answered(c, "open")
    /\ call[c].rep.success # 0
    /\ Return(c)
    /\ UNCHANGED <<pathtofh, chunks, fi>>

Written(c) ==
    /\ Answered(c, "write")
    /\ IF op[c].pc = "again" THEN Goto(c, "resend") ELSE Return(c)
    /\ UNCHANGED <<pathtofh, chunks, fi>>

\* Mutants of Committed: the whole vector is cleared; the loop steps over the
\* chunk that follows each one it erases.
CommittedClears(c) ==
    /\ Answered(c, "commit")
    /\ call[c].rep.success = 0
    /\ chunks' = [chunks EXCEPT ![c] = {}]
    /\ Goto(c, "close")
    /\ UNCHANGED <<pathtofh, fi>>

CommittedSkips(c) ==
    /\ Answered(c, "commit")
    /\ call[c].rep.success = 0
    /\ LET Upto(k) == {m \in Dirty(c) : m.id[2] <= k.id[2]}
       IN  chunks' = [chunks EXCEPT ![c] =
                        {k \in @ : k \in Dirty(c) => Cardinality(Upto(k)) % 2 = 0}]
    /\ Goto(c, "close")
    /\ UNCHANGED <<pathtofh, fi>>

\* The commit is acknowledged: drop every chunk with the handle committed.
Committed(c) ==
    /\ Answered(c, "commit")
    /\ call[c].rep.success = 0
    /\ chunks' = [chunks EXCEPT ![c] = @ \ Dirty(c)]
    /\ Goto(c, "close")
    /\ UNCHANGED <<pathtofh, fi>>

\* Mutant: the commit is repeated without the chunks.
MissingIgnored(c) ==
    /\ Answered(c, "commit")
    /\ call[c].rep.success = 1
    /\ Goto(c, "commit")
    /\ UNCHANGED <<pathtofh, chunks, fi>>

\* The server does not have all the copies.
CommitMissing(c) ==
    /\ Answered(c, "commit")
    /\ call[c].rep.success = 1
    /\ Goto(c, "resend")
    /\ UNCHANGED <<pathtofh, chunks, fi>>

\* client_release returns -1 and never sends the release; the kernel forgets
\* the open file all the same.
CommitRefused(c) ==
    /\ Answered(c, "commit")
    /\ call[c].rep.success = -1
    /\ Free(c, op[c].slot)
    /\ Return(c)
    /\ UNCHANGED <<pathtofh, chunks>>

Released(c) ==
    /\ Answered(c, "release")
    /\ Free(c, op[c].slot)
    /\ Return(c)
    /\ UNCHANGED <<pathtofh, chunks>>

\* retry(), and the function that failed calls itself with its own arguments:
\* client_release starts over, the others send the same call again.
Retry(c) ==
    /\ call[c].phase = "failed"
    /\ call' = [call EXCEPT ![c] = NoCall]
    /\ pathtofh' = [pathtofh EXCEPT ![c] = NoHandles]
    /\ IF call[c].req.command = "release" THEN Goto(c, "release") ELSE UNCHANGED op
    /\ UNCHANGED <<serverVars, diskVars, chunks, fi, drawn, late, faults>>

-----------------------------------------------------------------------------

Begin(c) ==
    \E s \in Slot :
        \/ \E f \in File : StartOpen(c, s, f)
        \/ StartWrite(c, s)
        \/ StartRelease(c, s)

\* What a callback does by itself once it has begun.
Proceed(c) ==
    \/ SendLookup(c)
    \/ SendOpen(c)
    \/ \E o \in Offset : KeepChunk(c, o)
    \/ SendWrite(c)
    \/ EnterCommit(c)
    \/ SendCommit(c)
    \/ NothingToCommit(c)
    \/ NextChunk(c)
    \/ EndResend(c)
    \/ SendRelease(c)
    \/ GotHandle(c)
    \/ Opened(c)
    \/ OpenRefused(c)
    \/ Written(c)
    \/ Committed(c)
    \/ CommitMissing(c)
    \/ CommitRefused(c)
    \/ Released(c)
    \/ Retry(c)

Fault(c) == LoseRequest(c) \/ LoseReply(c)

Crash == CrashBetween \/ CrashInStore \/ CrashInCommit

Next ==
    \/ \E c \in Client : Begin(c) \/ Proceed(c) \/ ServeCall(c) \/ Refuse(c) \/ Fault(c)
    \/ ServeLate
    \/ Crash
    \/ Restart

Spec == Init /\ [][Next]_vars

\* A FUSE thread runs its callback to the end, gRPC hands a call to the server
\* or reports that nobody listens, and the operator restarts a server that
\* died.  Applications owe nothing, and no fault has to happen.
FairSpec ==
    /\ Spec
    /\ \A c \in Client : WF_vars(Proceed(c)) /\ WF_vars(ServeCall(c)) /\ WF_vars(Refuse(c))
    /\ WF_vars(Restart)

-----------------------------------------------------------------------------
(* Properties.                                                              *)

Ids(K) == {k.id : k \in K}
StableIds == Ids(stable)

\* A write is never lost by dropping the copy too early: each write a client
\* issued is still in its vector or has been pwritten by the server.  The
\* acknowledgement of a commit (client_commit) is what drops copies, and the
\* server gives it on the strength of the gens alone.
KeptUntilPersisted ==
    \A c \in Client : \A n \in 1 .. drawn[c] : <<c, n>> \in Ids(chunks[c]) \cup StableIds

\* Data is only pwritten to the file the application wrote it to, although
\* the commit goes by a descriptor number the client remembered.
RightFile == \A s \in stable : s.on = s.to

\* close(2) commits: once client_release is past client_commit, what the
\* client still keeps of the file is on the server's disk.
CommittedOnClose ==
    \A c \in Client : op[c].pc = "close" =>
        \A k \in chunks[c] : k.file = op[c].file => k.id \in StableIds

Closing(c, s) ==
    /\ op[c].slot = s
    /\ op[c].pc \in {"release", "commit", "resend", "again", "close"}

\* The descriptor in a kept chunk, and in an open file not being closed, is
\* one the server still has open, on the same file: the next commit, read or
\* write through it cannot fail or go astray.
FdsLive ==
    \A c \in Client :
        /\ \A k \in chunks[c] : fds[k.fi] = k.file
        /\ \A s \in Slot :
            \/ fi[c][s] = NoOpen
            \/ Closing(c, s)
            \/ fds[fi[c][s].fi] = fi[c][s].file

\* A retransmitted or duplicated write never brings back older data: a range
\* that holds a client's n-th write gets no earlier write of that client.
NoOlderOverNewer ==
    [][\A f \in File, o \in Offset :
         LET old == disk[f][o]
             new == disk'[f][o]
         IN  (old # Blank /\ new # Blank) =>
                (old[1] = new[1] => old[2] <= new[2])]_vars

\* On a network that loses nothing the server keeps no memory of clients that
\* are done: no Write stays in its vector when no client holds a chunk, and
\* no descriptor stays open when no file is.
NoLeftovers ==
    (\A c \in Client : op[c].pc = "idle" /\ chunks[c] = {}) =>
        /\ \A g \in Gen : cache[g] = <<>>
        /\ (\A c \in Client, s \in Slot : fi[c][s] = NoOpen) => FreeFds = Fd

\* The server, whatever happened to it, reads a handle a client remembers for
\* a path as that path, if need be by way of the JSON files.
EntriesRecovered ==
    up => \A c \in Client, f \in File :
        LET h == pathtofh[c][f]
        IN  h # NoFh => Resolves(table, log, h) /\ PathOf(table, log, h) = f

\* Every time the server crashes and restarts, it recovers the entries from the two
\* JSON files, if a crash in storeMapping has not made one of them unreadable: a handle a
\* client remembers still means the path it was given for.
FilesWhole == Unreadable \notin {log.pathToFh, log.fhToPath}
EntriesReread == FilesWhole => EntriesRecovered

\* A kept chunk has a handle that a restarted server has numbered anew over: its
\* write and its commit throw for ever.
Forgotten(c) == up /\ \E k \in chunks[c] : ~Resolves(table, log, k.fh)

\* Every callback returns to the application, through lost calls, crashes and failed
\* pwrites, unless the server has forgotten the file of a chunk.
OpsReturn == \A c \in Client : op[c].pc # "idle" ~> (op[c].pc = "idle" \/ Forgotten(c))

\* The abstract write-back promise, with the clients' vectors as the copies.
Held == UNION {Ids(chunks[c]) : c \in Client}

WB == INSTANCE WriteBack WITH Write <- WriteId, held <- Held, stable <- StableIds

\* Copies are dropped, and data is persisted, only the way WriteBack allows:
\* through lost, late and repeated calls, crashes and failed pwrites.
WriteBackSpec == WB!Spec

=============================================================================
