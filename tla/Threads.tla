------------------------------ MODULE Threads ------------------------------
(***************************************************************************)
(* Several FUSE threads of one client, and the handlers the server runs    *)
(* for them on threads of its own.  Neither side has a lock: the maps, the *)
(* flag renewed and the vector of chunks are shared by all threads of the  *)
(* client, the two maps, fhcount and the vector of Writes by all handlers. *)
(*                                                                         *)
(* An access to a map, and a loop over a vector that calls nothing, is one *)
(* step.  The loops with a call or a system call in them, client_write_    *)
(* resend and the second loop of commit, take a step per element.  A loop  *)
(* whose iterator another thread has made invalid is undefined behaviour:  *)
(* wild is set and the run ends there.                                     *)
(*                                                                         *)
(* Lookups that cross, two handlers in addLookup at once or a reset of the *)
(* client's maps under a lookup, can give a path the handle of another, or *)
(* one that fhToPath lacks: crossed is set and the run ends there, too.    *)
(*                                                                         *)
(* Every write has a gen of its own and the server stays up; gens drawn    *)
(* twice and restarts are in WriteCommit.                                  *)
(***************************************************************************)
EXTENDS HandleTable, FiniteSets, SequencesExt

CONSTANTS
    Thread,
    Files,       \* the files of the exported directory
    Elsewhere,   \* a path that is none of the others, and not there
    Workload     \* bound: [uses, asks] the files and the number of callbacks of each
                 \* thread, [lost] the calls that fail

\* The paths have their parents among them, and each can have a handle.
ASSUME ThreadsAssumption ==
    /\ Root = <<>> /\ Elsewhere \in Path /\ Files \subseteq Path
    /\ Path \subseteq Seq(STRING) /\ \A p \in Path \ {Root} : Front(p) \in Path
    /\ IsFiniteSet(Path) /\ Cardinality(Path) <= MaxFh
    /\ Workload \subseteq
         [uses : [Thread -> SUBSET Files], asks : [Thread -> Nat], lost : Nat]

VARIABLES
    load,        \* the member of Workload that is run
    \* the server
    table,
    writes,      \* the vector cache of ServerImp
    fds,         \* the path of every descriptor that was opened
    disk,        \* the gens that were written, each with the path it went to
    \* the client
    pathtofh, renewed,
    chunks,      \* the vector cache of ClientImp
    thread, call, opened, asks,
    drawn, lost,
    wild,        \* undefined behaviour was reached
    acked,       \* history: the gens of writes that returned, with their path
    mixed,       \* history: a commit met a write or a commit of another thread
    crossed      \* history: a lookup met another lookup or a reset

serverVars == <<table, writes, fds, disk>>
clientVars == <<load, pathtofh, renewed, chunks, thread, opened, asks, drawn, acked>>
vars == <<serverVars, clientVars, call, lost, wild, mixed, crossed>>

\* A run is followed no further than this.
Over == wild \/ crossed

Others(t) == Thread \ {t}
Join(p, name) == IF Append(p, name) \in Path THEN Append(p, name) ELSE Elsewhere

\* The callback of a thread.  looks is the stack of lookup, innermost first; the
\* callback goes on at pc when it is empty.
IdleThread ==
    [cb |-> "none", path |-> Root, pc |-> "idle", looks |-> <<>>, look |-> "find",
     again |-> "no", fh |-> 0, copy |-> <<>>, at |-> 0, upto |-> 0]
NoCall == [phase |-> "none", cmd |-> "none", fh |-> 0, name |-> "none", gen |-> 0, gens |-> <<>>,
           fd |-> 0, path |-> Root, i |-> 0, at |-> 0, rep |-> 0]

Init ==
    /\ load \in Workload
    /\ table = NewTable /\ writes = <<>> /\ fds = <<>> /\ disk = {}
    /\ pathtofh = [p \in Path |-> IF p = Root THEN 0 ELSE NoFh]
    /\ renewed = TRUE /\ chunks = <<>>
    /\ thread = [t \in Thread |-> IdleThread]
    /\ call = [t \in Thread |-> NoCall]
    /\ opened = [t \in Thread |-> [path |-> Root, fd |-> 0]]
    /\ asks = [t \in Thread |-> 0]
    /\ drawn = 0 /\ lost = 0
    /\ wild = FALSE /\ acked = {} /\ mixed = FALSE /\ crossed = FALSE

-----------------------------------------------------------------------------
(* The server.  Each action is a step of the handler of t's call.           *)

Phase(t, phase) == call[t].phase = phase /\ ~Over
Goes(t, phase) == call' = [call EXCEPT ![t].phase = phase]
Answer(t, rep) == call' = [call EXCEPT ![t].phase = "answered", ![t].rep = rep]
Request(t, cmd) == Phase(t, "sent") /\ call[t].cmd = cmd

\* findLookup(fh).  As long as no lookups cross every handle that was answered is
\* known, and no handler throws or reads the files.
Find(t) == Known(table, call[t].fh)
PathFound(t) == table.fhToPath[call[t].fh]

\* lookup: the path, and addLookup in the steps that touch the table.
Adding == {"number", "path", "count"}
ServeLookup(t) ==
    /\ Request(t, "lookup") /\ Find(t)
    /\ LET p == Join(PathFound(t), call[t].name)
       IN  call' = [call EXCEPT ![t].path = p,
                                ![t].phase = IF Mapped(table, p) THEN "read" ELSE "number"]
    /\ crossed' = (crossed \/ \E u \in Others(t) : call[u].phase \in Adding)
    /\ UNCHANGED <<serverVars, clientVars, lost, wild, mixed>>

AddStep(t, phase, next) ==
    /\ Phase(t, phase) /\ Goes(t, next)
    /\ UNCHANGED <<writes, fds, disk, clientVars, lost, wild, mixed, crossed>>
AddNumber(t) ==
    /\ AddStep(t, "number", "path")
    /\ table' = [table EXCEPT !.pathToFh[call[t].path] = table.fhcount]
AddPath(t) ==
    /\ AddStep(t, "path", "count")
    /\ table' = [table EXCEPT !.fhToPath[table.fhcount] = call[t].path]
AddCount(t) ==
    /\ AddStep(t, "count", "read")
    /\ table' = [table EXCEPT !.fhcount = @ + 1]

ReadHandle(t) ==
    /\ Phase(t, "read") /\ Answer(t, table.pathToFh[call[t].path])
    /\ UNCHANGED <<serverVars, clientVars, lost, wild, mixed, crossed>>

\* Mutant: the descriptor is not kept by the server.
ServeOpenClosed(t) ==
    /\ Request(t, "open") /\ Find(t)
    /\ Answer(t, Len(fds) + 1)
    /\ UNCHANGED <<serverVars, clientVars, lost, wild, mixed, crossed>>

\* open answers a new descriptor, or -1 for what is no file.
ServeOpen(t) ==
    /\ Request(t, "open") /\ Find(t)
    /\ IF PathFound(t) \in Files THEN fds' = Append(fds, PathFound(t)) /\ Answer(t, Len(fds) + 1)
       ELSE Answer(t, -1) /\ UNCHANGED fds
    /\ UNCHANGED <<table, writes, disk, clientVars, lost, wild, mixed, crossed>>

\* A write is pushed while a commit may be in its loop: the vector may move.
Looping == {"loop", "wrote"}
ServeWrite(t) ==
    /\ Request(t, "write") /\ Find(t)
    /\ writes' = Append(writes, [fh |-> call[t].fh, gen |-> call[t].gen, fd |-> call[t].fd])
    /\ wild' \in {FALSE, \E u \in Others(t) : call[u].phase \in Looping}
    /\ Answer(t, 0)
    /\ UNCHANGED <<table, fds, disk, clientVars, lost, mixed, crossed>>

\* release: close(2), which only matters for descriptors that are used again.
ServeRelease(t) ==
    /\ Request(t, "release") /\ Find(t)
    /\ Answer(t, 0)
    /\ UNCHANGED <<serverVars, clientVars, lost, wild, mixed, crossed>>

\* commit: logSave, and the first loop.
Have(gens) == \A i \in DOMAIN gens : \E k \in DOMAIN writes : writes[k].gen = gens[i]

ServeCommit(t) ==
    /\ Request(t, "commit") /\ \A i \in DOMAIN writes : Known(table, writes[i].fh)
    /\ IF Have(call[t].gens)
       THEN call' = [call EXCEPT ![t].phase = "loop", ![t].i = 1, ![t].at = 1]
       ELSE Answer(t, 1)
    /\ UNCHANGED <<serverVars, clientVars, lost, wild, mixed, crossed>>

\* The second loop: the Write at the iterator is compared, and written if it is
\* the one.  An iterator past the end is never equal to it.
CommitScan(t) ==
    /\ Phase(t, "loop")
    /\ LET c == call[t]
           hit == c.at \in DOMAIN writes /\ writes[c.at].gen = c.gens[c.i]
       IN  /\ wild' = (c.i \in DOMAIN c.gens /\ c.at > Len(writes) + 1)
           /\ IF c.i > Len(c.gens) THEN Answer(t, 0) /\ UNCHANGED disk
              ELSE IF hit
              THEN Goes(t, "wrote") /\ disk' = disk \cup {<<writes[c.at].gen, fds[writes[c.at].fd]>>}
              ELSE /\ call' = [call EXCEPT ![t].i = IF c.at > Len(writes) THEN @ + 1 ELSE @,
                                           ![t].at = IF c.at > Len(writes) THEN 1 ELSE @ + 1]
                   /\ UNCHANGED disk
    /\ UNCHANGED <<table, writes, fds, clientVars, lost, mixed, crossed>>

\* ... and erased after the pwrite, which moves the Writes behind it.
CommitErase(t) ==
    /\ Phase(t, "wrote")
    /\ IF call[t].at \in DOMAIN writes
       THEN writes' = RemoveAt(writes, call[t].at) /\ UNCHANGED wild
       ELSE wild' = TRUE /\ UNCHANGED writes
    /\ call' = [call EXCEPT ![t].phase = "loop", ![t].i = @ + 1, ![t].at = 1]
    /\ mixed' = (mixed \/ \E u \in Others(t) : call[u].phase \in Looping)
    /\ UNCHANGED <<table, fds, disk, clientVars, lost, crossed>>

Serve(t) ==
    \/ ServeLookup(t)
    \/ AddNumber(t)
    \/ AddPath(t)
    \/ AddCount(t)
    \/ ReadHandle(t)
    \/ ServeOpen(t)
    \/ ServeWrite(t)
    \/ ServeRelease(t)
    \/ ServeCommit(t)
    \/ CommitScan(t)
    \/ CommitErase(t)

\* A call fails on its way to the handler or back.
Lose(t) ==
    /\ ~Over /\ call[t].phase \in {"sent", "answered"} /\ lost < load.lost
    /\ lost' = lost + 1 /\ Goes(t, "failed")
    /\ UNCHANGED <<serverVars, clientVars, wild, mixed, crossed>>

-----------------------------------------------------------------------------
(* The client.  Each action is a step of thread t.                          *)

Becomes(t, r) == thread' = [thread EXCEPT ![t] = r]
Running(t) == call[t].phase = "none" /\ thread[t].again = "no" /\ ~Over
At(t, pc) == Running(t) /\ thread[t].looks = <<>> /\ thread[t].pc = pc
Send(t, c) == call' = [call EXCEPT ![t] = c]
Clear(t) == Send(t, NoCall)
LookingUp(r, pc) == [r EXCEPT !.looks = <<r.path>>, !.look = "find", !.pc = pc]

\* The application calls; the kernel lets one thread write to a file at a time.
Ask(t) ==
    /\ At(t, "idle") /\ asks[t] < load.asks[t]
    /\ asks' = [asks EXCEPT ![t] = @ + 1]
    /\ LET Starts(cb, p, pc) == Becomes(t, LookingUp([IdleThread EXCEPT !.cb = cb, !.path = p], pc))
           p == opened[t].path
       IN  IF opened[t].fd = 0 THEN \E q \in load.uses[t] : Starts("open", q, "open")
           ELSE \/ /\ \A u \in Others(t) : ~(thread[u].cb = "write" /\ thread[u].path = p)
                   /\ Starts("write", p, "push")
                \/ Starts("release", p, "collect")
    /\ UNCHANGED <<load, serverVars, pathtofh, renewed, chunks, opened, drawn, acked, call, lost, wild,
                   mixed, crossed>>

\* lookup(p): find, and get by operator[].  It would enter a handle 0 for a path that
\* another thread has removed since; then the lookups have crossed.
Looks(t, look) == Running(t) /\ thread[t].looks # <<>> /\ thread[t].look = look

LookupGet(t) ==
    /\ Looks(t, "get")
    /\ Becomes(t, [thread[t] EXCEPT !.looks = Tail(@), !.look = "send",
                                    !.fh = pathtofh[Head(thread[t].looks)]])
    /\ UNCHANGED <<load, serverVars, pathtofh, renewed, chunks, opened, asks, drawn, acked, call,
                   lost, wild, mixed, crossed>>

\* Mutant: the parent of every path is the root.
ParentRoot(p) == Root

Parent(p) == IF p = Root THEN Root ELSE Front(p)

LookupFind(t) ==
    /\ Looks(t, "find")
    /\ LET r == thread[t]
           p == Head(r.looks)
       IN  Becomes(t, IF pathtofh[p] # NoFh THEN [r EXCEPT !.look = "get"]
                      ELSE [r EXCEPT !.looks = <<Parent(p)>> \o @])
    /\ UNCHANGED <<load, serverVars, pathtofh, renewed, chunks, opened, asks, drawn, acked, call,
                   lost, wild, mixed, crossed>>

LookupSend(t) ==
    /\ Looks(t, "send")
    /\ LET p == Head(thread[t].looks)
       IN  Send(t, [NoCall EXCEPT !.phase = "sent", !.cmd = "lookup", !.fh = pathtofh[Parent(p)],
                                  !.name = Last(p)])
    /\ UNCHANGED <<serverVars, clientVars, lost, wild, mixed, crossed>>

Answered(t, cmd) == Phase(t, "answered") /\ call[t].cmd = cmd /\ Clear(t)
GotHandle(t) ==
    /\ Answered(t, "lookup")
    /\ pathtofh' = [pathtofh EXCEPT ![Head(thread[t].looks)] = call[t].rep]
    /\ Becomes(t, [thread[t] EXCEPT !.look = "get"])
    /\ UNCHANGED <<load, serverVars, renewed, chunks, opened, asks, drawn, acked, lost, wild, mixed,
                   crossed>>

\* open.
SendOpen(t) ==
    /\ At(t, "open")
    /\ Send(t, [NoCall EXCEPT !.phase = "sent", !.cmd = "open", !.fh = thread[t].fh])
    /\ UNCHANGED <<serverVars, clientVars, lost, wild, mixed, crossed>>
GotOpen(t) ==
    /\ Answered(t, "open")
    /\ opened' = IF call[t].rep = -1 THEN opened
                 ELSE [opened EXCEPT ![t] = [path |-> thread[t].path, fd |-> call[t].rep]]
    /\ Becomes(t, IdleThread)
    /\ UNCHANGED <<load, serverVars, pathtofh, renewed, chunks, asks, drawn, acked, lost, wild, mixed,
                   crossed>>

\* write: the chunk is pushed and a copy of it sent.  A resend in another thread
\* loses its iterator if the vector moves; the chunk is mixed up with a commit of
\* another thread that has collected its gens and not erased its chunks.
Push(t) ==
    /\ At(t, "push")
    /\ LET k == [fh |-> thread[t].fh, gen |-> drawn + 1, fd |-> opened[t].fd]
       IN  /\ chunks' = Append(chunks, k)
           /\ Becomes(t, [thread[t] EXCEPT !.copy = <<k>>, !.pc = "send"])
           /\ mixed' = (mixed \/ \E u \in Others(t) :
                            thread[u].pc = "committing" /\ thread[u].fh = k.fh)
    /\ drawn' = drawn + 1
    /\ wild' \in {FALSE, \E u \in Others(t) : thread[u].pc \in {"resend", "resending"}}
    /\ UNCHANGED <<load, serverVars, pathtofh, renewed, opened, asks, acked, call, lost, crossed>>

\* client_write_handler, from write and from resend.
SendWrite(t) ==
    /\ At(t, "send") \/ At(t, "resending")
    /\ LET k == thread[t].copy[1]
       IN  Send(t, [NoCall EXCEPT !.phase = "sent", !.cmd = "write", !.fh = k.fh, !.gen = k.gen,
                                  !.fd = k.fd])
    /\ UNCHANGED <<serverVars, clientVars, lost, wild, mixed, crossed>>
GotWrite(t) ==
    /\ Answered(t, "write")
    /\ LET r == thread[t]
       IN  IF r.pc = "send"
           THEN Becomes(t, IdleThread) /\ acked' = acked \cup {r.copy[1].gen}
           ELSE Becomes(t, [r EXCEPT !.pc = "resend", !.at = @ + 1, !.copy = <<>>]) /\ UNCHANGED acked
    /\ UNCHANGED <<load, serverVars, pathtofh, renewed, chunks, opened, asks, drawn, lost, wild, mixed,
                   crossed>>

\* The chunks at the positions in I, in their order.
Picked(I) ==
    [n \in 1 .. Cardinality(I) |->
        chunks[CHOOSE i \in I : Cardinality({j \in I : j <= i}) = n]]

\* client_commit: collect, send, and what the answer says.
Dirty(t) == Picked({i \in DOMAIN chunks : chunks[i].fh = thread[t].fh})
Collect(t) ==
    /\ At(t, "collect")
    /\ IF Dirty(t) = <<>> THEN Becomes(t, LookingUp(thread[t], "close")) /\ UNCHANGED call
       ELSE /\ Becomes(t, [thread[t] EXCEPT !.pc = "committing"])
            /\ Send(t, [NoCall EXCEPT !.phase = "sent", !.cmd = "commit", !.fh = thread[t].fh,
                            !.gens = [i \in DOMAIN Dirty(t) |-> Dirty(t)[i].gen]])
    /\ UNCHANGED <<load, serverVars, pathtofh, renewed, chunks, opened, asks, drawn, acked, lost, wild,
                   mixed, crossed>>

\* Mutant: every chunk goes.
KeepNone(fh) == <<>>

Kept(fh) == Picked({i \in DOMAIN chunks : chunks[i].fh # fh})

\* Mutant: what the server lacks is not sent again.
MissingIgnored(r) == [r EXCEPT !.pc = "collect"]

Missing(r) == [r EXCEPT !.pc = "resend", !.at = 1, !.upto = Len(chunks)]
GotCommit(t) ==
    /\ Answered(t, "commit")
    /\ IF call[t].rep = 0
       THEN chunks' = Kept(thread[t].fh) /\ Becomes(t, LookingUp(thread[t], "close"))
       ELSE Becomes(t, Missing(thread[t])) /\ UNCHANGED chunks
    /\ UNCHANGED <<load, serverVars, pathtofh, renewed, opened, asks, drawn, acked, lost, wild, mixed,
                   crossed>>

\* client_write_resend goes over the elements there were when it began.
Resend(t) ==
    /\ At(t, "resend")
    /\ LET r == thread[t]
       IN  IF r.at > r.upto THEN Becomes(t, [r EXCEPT !.pc = "collect"]) /\ UNCHANGED wild
           ELSE IF r.at \notin DOMAIN chunks THEN wild' = TRUE /\ UNCHANGED thread
           ELSE Becomes(t, [r EXCEPT !.pc = "resending", !.copy = <<chunks[r.at]>>]) /\ UNCHANGED wild
    /\ UNCHANGED <<load, serverVars, pathtofh, renewed, chunks, opened, asks, drawn, acked, call, lost,
                   mixed, crossed>>

\* release.
SendRelease(t) ==
    /\ At(t, "close")
    /\ Send(t, [NoCall EXCEPT !.phase = "sent", !.cmd = "release", !.fh = thread[t].fh,
                              !.fd = opened[t].fd])
    /\ UNCHANGED <<serverVars, clientVars, lost, wild, mixed, crossed>>
GotRelease(t) ==
    /\ Answered(t, "release")
    /\ opened' = [opened EXCEPT ![t] = [path |-> Root, fd |-> 0]]
    /\ Becomes(t, IdleThread)
    /\ UNCHANGED <<load, serverVars, pathtofh, renewed, chunks, asks, drawn, acked, lost, wild, mixed,
                   crossed>>

\* retry(): the thread sleeps; the maps are reset unless another thread has
\* reconnected meanwhile; then the function that failed calls itself.
Restarted(r) ==
    LET again == [r EXCEPT !.again = "no"]
    IN  IF r.looks # <<>> THEN [again EXCEPT !.look = "find"]
        ELSE CASE r.pc = "open"       -> LookingUp(again, "open")
               [] r.pc = "close"      -> LookingUp(again, "collect")
               [] r.pc = "committing" -> [again EXCEPT !.pc = "collect"]
               [] OTHER               -> again

Failed(t) ==
    /\ Phase(t, "failed") /\ Clear(t)
    /\ renewed' = FALSE
    /\ Becomes(t, [thread[t] EXCEPT !.again = "sleep"])
    /\ UNCHANGED <<load, serverVars, pathtofh, chunks, opened, asks, drawn, acked, lost, wild, mixed,
                   crossed>>

\* reset_maps; other threads may be in the middle of a lookup.
Wake(t) ==
    /\ thread[t].again = "sleep" /\ ~Over
    /\ IF renewed THEN Becomes(t, Restarted(thread[t])) /\ UNCHANGED <<pathtofh, crossed>>
       ELSE /\ pathtofh' = [p \in Path |-> IF p = Root THEN 0 ELSE NoFh]
            /\ Becomes(t, [thread[t] EXCEPT !.again = "reconnect"])
            /\ crossed' = (crossed \/ \E u \in Others(t) : thread[u].looks # <<>>)
    /\ UNCHANGED <<load, serverVars, renewed, chunks, opened, asks, drawn, acked, call, lost, wild, mixed>>

Reconnect(t) ==
    /\ thread[t].again = "reconnect" /\ ~Over
    /\ renewed' = TRUE
    /\ Becomes(t, Restarted(thread[t]))
    /\ UNCHANGED <<load, serverVars, pathtofh, chunks, opened, asks, drawn, acked, call, lost, wild, mixed,
                   crossed>>

Step(t) ==
    \/ LookupFind(t)
    \/ LookupGet(t)
    \/ LookupSend(t)
    \/ GotHandle(t)
    \/ SendOpen(t)
    \/ GotOpen(t)
    \/ Push(t)
    \/ SendWrite(t)
    \/ GotWrite(t)
    \/ Collect(t)
    \/ GotCommit(t)
    \/ Resend(t)
    \/ SendRelease(t)
    \/ GotRelease(t)
    \/ Failed(t)
    \/ Wake(t)
    \/ Reconnect(t)

-----------------------------------------------------------------------------

Finished ==
    /\ Over \/ \A t \in Thread : thread[t].pc = "idle" /\ asks[t] = load.asks[t]
    /\ UNCHANGED vars

Next ==
    \/ \E t \in Thread : Ask(t) \/ Step(t) \/ Serve(t) \/ Lose(t)
    \/ Finished

\* A thread that can go on does, and so does a handler.
Spec == Init /\ [][Next]_vars /\ \A t \in Thread : WF_vars(Step(t)) /\ WF_vars(Serve(t))

-----------------------------------------------------------------------------
(* Properties.                                                              *)

\* Every variable has its type, and what the vectors, the calls and the open files
\* refer to is there.
TypeOK ==
    /\ table.pathToFh \in PathMap /\ table.fhToPath \in FhMap /\ table.fhcount \in Fh
    /\ pathtofh \in PathMap
    /\ \A i \in DOMAIN writes : writes[i].gen \in 1 .. drawn /\ writes[i].fd \in DOMAIN fds
    /\ \A i \in DOMAIN chunks : chunks[i].gen \in 1 .. drawn /\ chunks[i].fd \in DOMAIN fds
    /\ \A t \in Thread : opened[t].fd \in 0 .. Len(fds) /\ call[t].fh \in Fh
    /\ disk \subseteq (1 .. drawn) \X Files
    /\ {wild, mixed, crossed, renewed} \subseteq BOOLEAN

OnDisk(gen) == \E d \in disk : d[1] = gen
Copied(gen) == \E i \in DOMAIN chunks : chunks[i].gen = gen

\* README: when a COMMIT is acknowledged the client can release the copies it
\* keeps.  A write that has returned is on disk or still in the client's vector,
\* whatever the other threads do.
CopiesKept == wild \/ \A g \in acked : OnDisk(g) \/ Copied(g)

\* The same unless a write was pushed between the gens and the answer of another
\* thread's commit on the file, or two handlers were in the loop of a commit when
\* one of them erased: these are the only ways to lose a copy.
CopiesKeptApart == mixed \/ CopiesKept

\* A descriptor is one of the file the thread opened, and a handle is the one the
\* server has for the path and for no other, until lookups cross: nothing else the
\* threads do to the maps, the sleeping retries included, confuses two paths.
HandlesApart ==
    /\ \A t \in Thread : opened[t].fd # 0 => fds[opened[t].fd] = opened[t].path
    /\ \A p \in Path : pathtofh[p] # NoFh =>
        /\ pathtofh[p] = table.pathToFh[p]
        /\ \A q \in Path \ {p} : pathtofh[q] # pathtofh[p]

\* Every callback returns, whatever the threads do to each other's chunks and maps,
\* unless the run has ended.
CallsReturn == \A t \in Thread : thread[t].pc # "idle" ~> (thread[t].pc = "idle" \/ Over)

=============================================================================
