# A TLA+ model of NFS-CS754

NFS-CS754 is a file server over gRPC and a FUSE client for it. This directory
holds TLA+ modules that model both versions of the server (version 2 has a COMMIT)
and the client, TLC configurations that check them, and proofs that TLAPS checks.

Every definition is translated from the code; `PROJECT.json` maps it to the
lines it stands for. Paths below are relative to `src/nfs/`.

## The system

| part | state | operations |
|---|---|---|
| handle table of the server (`server/ServerImpV2.cpp`) | `pathToFh`, `fhToPath`, `fhcount` | `addLookup`, `findLookup` |
| JSON files (`server/utils.cpp`) | a copy of the two maps | `storeMapping` after each new entry, `getMapping` when `findLookup` misses |
| write path of the server | the vector `cache`, open descriptors, the files | `open`, `write`, `commit`, `release` |
| directory operations of the server | the exported directory, the handle table | `lookup`, `getattr`, `readdir`, `mkdir`, `rmdir`, `create`, `unlink`, `rename`, `mknod` |
| client (`client/NFSClient.cpp`) | `pathtofh`, `fhtopath`, the vector `cache` of Chunks, `renewed` | one function per callback, `lookup`, `client_commit`, `client_write_resend`, `retry` |
| FUSE callbacks (`client/Client.cpp`) | none | pass on what the kernel asks |
| data path | buffers | the bytes of `read` and `write` |
| server V1 (`server/ServerImpV1.cpp`) | as V2, without `cache` | as V2; `write` is synchronous, there is no `commit` |
| messages (`proto/`) | a request and a response per call | accessors, sizes, encoding, decoding |
| conversions (`server/utils.cpp`, `client/NFSClient.cpp`) | none | between `struct stat`, `fuse_file_info` and their messages |
| threads of libfuse and of gRPC | none of their own | several callbacks, and several handlers, at once, without a lock |
| JSON library (`server/json.hpp`) | none | vendored |

A client sends one unary call per operation and blocks. The server answers from
its table, its vector and the file system below it. A call whose Status is not
OK, because of the network, a dead server or an exception in the handler, makes
the client sleep, forget its maps and repeat the function it was in, without
limit. The server acknowledges a write when it is in the vector; `release` is
preceded by a `commit` that lists the random number (`gen`) of every chunk the
client keeps for the handle; the server writes them to disk, or says that some
are missing, and then the client sends its whole vector again.

What makes this hard:

* nothing distinguishes a repeated call from a new one, so every operation may
  be executed twice, or late;
* a write is identified by `rand() % 10000`, a file by a number of a table that
  is numbered afresh after a crash, an open file by a descriptor of a process
  that may be gone;
* the table is kept in memory by both sides and, in part, in two files that are
  written one after the other, and the three copies are changed by different code;
* failure is answered by retrying for ever, so an error that stays is a hang;
* callbacks of one client, and handlers, share maps and vectors without a lock;
* data goes through C strings, sizes and offsets through 32-bit integers, names
  through strings that have to be UTF-8.

What makes each part correct:

* write path: no copy is dropped before the write is on disk (`KeptUntilPersisted`,
  `WriteBackSpec`), data reaches the file it is for (`RightFile`), closing
  commits (`CommittedOnClose`), repetition does not bring back older data
  (`NoOlderOverNewer`), descriptors stay good (`FdsLive`), the server is clean
  when everybody is done (`NoLeftovers`), and callbacks return (`OpsReturn`);
* handle table and JSON files: a handle keeps its meaning (`EntriesRecovered`), over a
  restart too (`EntriesReread`), a torn file is not taken for a map (`TypeOK` of Namespace),
  the maps are inverse (`TablesInverse`) and closed under what a rename looks up
  (`PathsMapped`);
* directory operations: the tree changes as asked and once (`AsAsked`), both
  sides read a handle alike (`HandlesAgree`), and calls return (`CallsReturn`);
* messages, conversions and the data path: what is sent arrives (`RoundTrip`), the
  bytes of a write are kept somewhere (`Durable`) and read back (`ReadsBack`),
  descriptors and attributes are those of the file that was named (`OpenedRight`,
  `Told`), with either server;
* threads: copies are lost (`CopiesKept`, `CopiesKeptApart`) and handles mixed up
  (`HandlesApart`) in no other ways than the known ones.

`PROJECT.json` lists the hazards at their lines, with the properties that cover
them or the reason why none does yet.

## Modules

```
HandleTable --+--> WriteCommit --+--> MCWriteCommit
              |    WriteBack ----^
              +--> Namespace ----+--> MCNamespace
              |    FileTree -----^
              +--> Threads ---------> MCThreads
              +--> Calls --------+--> MCCalls
                   Messages -----^

HandleTableProofs --+--> WriteCommitProofs --> ReliableProofs
                    +--> NamespaceProofs --> AgreementProofs
                    +--> ThreadsProofs
                    +--> CallsProofs
MessagesProofs -----^
```

**HandleTable**: the table and the JSON files as operators from records to
records. An `std::map` is a total function with `NoFh` (-1) or `NoPath` for an
absent key. A handler that calls several of them is still one step. `Found` is
the table after `findLookup`; `Resolves` says whether it returns: on a second
miss the code returns `NULL` for a `std::string`, which throws, and so does a file
that is missing, empty or cut. `Loaded` leaves `fhcount` alone, as
`getMapping` does. The files start unreadable: nothing creates them.

**WriteBack**: the abstract promise of COMMIT. A client holds copies; it issues a
write once, the server persists what is held, a copy is dropped when it is
persistent.

**WriteCommit**: the write path. A server action is a handler, a client action
what a callback does between two RPCs.

| code | model |
|---|---|
| `ServerImp::cache`, a vector | `cache`, one queue for each gen: `commit` takes the first entry of a gen and `write` appends, so nothing else of the order is visible |
| `ClientImp::cache`, a vector | `chunks`, a set; a chunk's number is its position |
| `rand() % 10000` | `Draw[c][n]`, the value the n-th write of client c gets |
| descriptors, kernel files | `fds`, `fi` |
| the loop position of a callback | `op[c].pc` |
| `stub_->call` | `call[c]`: sent, replied or failed; `late` are calls the client gave up on and the server has yet to execute |

The fields `id` and `file` of a chunk, and `stable`, are history: they say which
write it is and for which file. A commit is modelled as a whole: `logSave` and
the exception it can throw, the search for every gen, the loop that writes and
erases, the early return when `pwrite` fails. Files are in the root of the
export, so a lookup costs one call; deeper paths are in Namespace. The branches
for descriptor 0 are left out: `open` and `create` never give it.

**FileTree**: what an application sees of a remote tree: it asks, the call takes
effect at most once, on the paths it named, and returns. The operators are the
system calls.

**Namespace**: the directory operations. A path is a sequence of names; the table
also holds `/`, `/.`, `/..` and the like, which `getattr` and `readdir` enter. The
kernel is part of the environment: it stats every directory on the way to a name
before it issues a callback; its cache of attributes is left out, so the model
makes more lookups than a mount would and none that it could not make. `did` is
history, as is `sys` for the server. An `erase(end())`, whose behaviour is
undefined, is the death of the process it happens in (`Undefined` inside
`CrashInCall` on the server, `Aborts` on the client). `Adding` is what a handler passes to
`addLookup`: `CrashInStore` dies in the `storeMapping` of any of these. Handles that a `readdir`
enters are numbered in one order; another order permutes them. `Finished` is the
end of a run in which the applications have made their calls, so that any other
state without a step is reported as a deadlock.

`lookup` of a directory handle the server does not know enters an empty path for
it (`fhToPath[dirfh]` on an `std::map`), hence `WithDir`. In `rename`,
`todirfh() + "/"` is arithmetic on a pointer: it makes the path of the target
for handle 0 and no path of the table otherwise, hence `Overwrites`. The maps
are not stored after a rename over an existing name.

**Messages**: the five messages of `nfs.proto` as the generated classes hold, size,
encode and decode them. A message is a record of all its fields; an integer field
takes what its C++ type makes of a value (`Int32`, `UInt64`). On the wire a message
is a sequence of tokens, a field at its default value is left out, and a token
has both the length that `ByteSizeLong` wrote in front of its payload and the payload's
own: decoding needs them to agree. A `string` has to be UTF-8 to be decoded.
`CString` is what a `char` pointer makes of data.

**Calls**: what one callback carries to the disk and back, for every callback of the
client, with V1 and V2. A request is built by the accessors from what the kernel
passed, `Decode` is the way to the handler and back, `Serve` the handler with its
system calls on a directory of files, each with a mode, bytes and an inode.

| code | model |
|---|---|
| `size_t`, `off_t`, `int` | integers of `Bits64` bits, cut to `Bits32` bits where the code does |
| a buffer without a terminator | what lies behind it is any member of `Beyond`, or a byte of `Byte` |
| an uninitialised `struct stat` | any junk, the same in all its fields |
| `errno` | small distinct numbers; the stale one a successful `open` answers is 0 |
| gRPC's limit of 4 MB | `MaxMessage` |
| a name | one element of a text; members of `Garbled` are not UTF-8 |

`expect` is history: the bytes each file was told to hold by writes that returned
success. It promises nothing (`Unsure`) behind the first zero byte of a buffer or
where an offset of more than 31 bits led. The library gives a descriptor of 0 to
nobody, so the branches for it are left out, as in WriteCommit. `client_mkdir`
copies the attributes before it puts the mode into them: directories are made
with mode 0, in the model as in the code.

**Threads**: several callbacks of one client and their handlers. An access to a map,
and a loop that calls nothing, is one step; the loops that call or `pwrite` for
each element have a step for each. So `addLookup` is three steps (the number, the path,
the count), `lookup` finds, sends and gets, `retry` sleeps, resets and
reconnects, and the second loop of `commit` compares, writes and erases. A loop whose
iterator another thread made invalid is undefined behaviour: `wild` ends the run.
Two handlers inside `addLookup`, or a reset of the client's maps under another
thread's lookup, can give a path another's handle: `crossed` ends the run. `mixed`
records that a write was pushed between the gens and the answer of another
thread's commit of the file, or that two commits were in their loops when one
erased. The kernel lets one thread write to a file at a time. Descriptors are
never used again, and `reset_maps` is one step.

**MCWriteCommit**, **MCNamespace**, **MCCalls**, **MCThreads**: the instances. A
constant `Workload` holds the mixes of calls, paths and faults a run starts from, so that
one run covers several small situations. `DrawApart` gives the clients
stretches of the stream of `rand()` without a common value: as nothing seeds it,
two clients read the same stream, but one may be further along; `DrawAlike` are
two that just started.

## Runs

Write path (2 files, 1 range; 2 descriptors of the server unless said otherwise):

| run | instance | checks | outcome |
|---|---|---|---|
| `lossy` | 1 client, 2 open files, 3 writes, 2 lost calls | `KeptUntilPersisted`, `RightFile`, `CommittedOnClose`, `NoOlderOverNewer` | hold |
| `shared` | 2 clients, 2 writes each, no fault | `FdsLive`, `NoLeftovers`, `EntriesRecovered` | hold |
| `crash` | 1 client, 2 writes, one each of: lost call, late call, crash, failed `pwrite`; `FairSpec` | `TypeOK`, `WriteBackSpec`, `OpsReturn` | hold |
| `alike` | 2 clients with the same stream, 1 write each | `KeptUntilPersisted` | violated |
| `stale` | 1 client, 2 open files, 1 write, 1 crash | `RightFile` | violated |
| `recover` | 1 client, 1 open file, 1 write, 1 crash | `EntriesReread` | violated |

Directory operations (names `a`, `b` and `d`; paths of at most two names):

| run | instance | checks | outcome |
|---|---|---|---|
| `solo` | 1 client, every operation, 3 calls, 2 lost, renames into the root, `FairSpec` | `HandlesAgree`, `AsAsked`, `CallsReturn` | hold |
| `hard` | `Rivals`: 2 clients, `create`, `rename`, `unlink` in the root, 2 calls each; `Remount`: 5 calls on three names around a crash; `Torn`: 3 calls, 1 lost, a crash, a crash inside `storeMapping`; `Reread`: 2 clients, one such crash; `Relist`: `getattr`, `readdir`, `create` and one such crash | `TypeOK`, `TablesInverse`, `PathsMapped` | hold |
| `move` | 1 client, 6 calls, renames into `/a`, no fault | `AsAsked` | violated |

Messages and data (three names, one not UTF-8; 5 and 7 bits for 32 and 64; 3 bits a varint byte;
messages of up to 110 bytes; a lost call):

| run | instance | checks | outcome |
|---|---|---|---|
| `exchange` | V1: every call on names, 3 in a run; V1 and V2: every call on a file; opens, writes, reads and releases, 4 with V1 and 5 with V2; V1, two files: opens, writes and renames, 3 in a run | `TypeOK`, `RoundTrip`, `OpenedRight`, `Durable`, `ReadsBack`, `Told`, `CallsReturn` | hold |

Threads (2 threads; files `/a` and `/d/a`):

| run | instance | checks | outcome |
|---|---|---|---|
| `threads` | opens under 2 lost calls; two files, 3 calls each; one file, 4 and 2 calls; one file, 3 and 2 calls and a lost one | `TypeOK`, `CopiesKeptApart`, `HandlesApart`, `CallsReturn` | hold |
| `race` | one file, 3 and 2 calls | `CopiesKept` | violated |

Why these bounds. Three writes are the fewest for which a commit covers two of a
file and leaves one of another. Two lost calls are a lost write and a lost answer
to its commit, after which copies are resent. Two files and two descriptors let a
number be closed and used again. For names, three calls make a directory, fill it
and move or remove something; five calls around one crash are what it takes to
know a handle, restart, take its number for another path and rename; three names
in the root suffice for the handle that is renamed, the one that replaces it and
one beside it. After a crash inside `storeMapping` a client forgets its handles as soon as
a call of its own fails, so it takes a second client, whose call was not under way, to make
the new server read what is left (`Reread`). `MaxFh` never limits a run: a handler that would pass it stays
disabled, and its client would then be reported as deadlocked (`ServeCall` in
Namespace, `ServeLookup` in WriteCommit). In `exchange` offsets of 1, 17 and 33 are
one that fits, one that is negative in 5 bits and one that wraps to the first; the
listing of one name fits `MaxMessage`, and that of two only if the `struct stat` of its
entries happens to be zero; five calls are an open, a write, the release that
commits it, another open and a read. In `threads` four calls are an open, two writes and the release, so
that a commit, a resend and a write of the other thread meet.

What the bounds, and the conditions in some properties, leave out because it does
not hold:

* Two clients and a lost answer: a repeated `release` closes a descriptor that is
  in use again (`FdsLive`, `RightFile`).
* Late calls, or two failed commits, bring back older data (`NoOlderOverNewer`), a late
  `release` closes a number that is in use again (`RightFile`), and losses leave copies in the server's vector (`NoLeftovers`).
* A crash with two open files: a chunk carries the handle of the time of its write;
  if the path has another when it is closed, nothing is committed (`CommittedOnClose`).
  If the new server has no path for the chunk's handle, resending it throws and is
  repeated for ever (`Forgotten` in `OpsReturn`).
* Two clients that rename leave each other with handles that mean something else
  (`HandlesAgree`, `AsAsked`), and so does a crash. With directories, a lookup
  below a handle that another client's rename took away enters the empty path for it
  and goes on in the root (`TablesInverse`, hence `InRoot`); after a crash the
  reloaded table is not that of the numbers given since.
* A crash, a rename and a new path can leave a path with a handle that neither the
  table nor the files know: each call on it is retried for ever (`CallsReturn`, with
  the bounds of `Remount`).
* Torn JSON files: two that do not fit together (`PathsMapped`), and so handles that mean
  something else (`EntriesReread` is about files that are whole, and violated even so).
* A file of a V2 server that is written to, renamed and then closed loses the data
  (`Durable`): the chunks have the handle of the old name, `release` looks for those
  of the new one (`client/NFSClient.cpp:147-158`), finds none, sends no commit and
  closes the descriptor. No mix of `exchange` has writes and renames with V2; with V1
  one has, and the bytes stay. (Sending a chunk again whose handle a rename took away makes
  the server read its JSON files, or throw; Calls has no throw of `findLookup`, so V2 with
  writes and renames is outside its scope altogether.)
* A name that is not UTF-8, or a listing larger than 4 MB: the call is retried for ever
  (`Hopeless` in `CallsReturn` of Calls). Such a name in a directory also makes
  `storeMapping` throw with its first file truncated.
* A read with V2 of what is not committed returns the older bytes: `ReadsBack` is
  about files without uncommitted chunks (`Settled`). A write of V2 beyond 2 GB
  whose offset becomes negative is acknowledged, and every commit of the file
  fails from then on; what is written to the file below 2 GB stays in the
  client's chunks for ever, where `Durable` still finds it.

### Violated properties

* `alike`: `README.md` line 47 lets a client release its copies once the COMMIT is
  acknowledged. With equal gens the server acknowledges a commit by the other
  client's write.
* `stale`: requests carry a descriptor of the dead server process, which the new
  one uses for another file: the server is not stateless (line 39).
* `recover`: entries are not recovered when the server restarts (line 50) but when
  a handle is missing, and then without the numbering. A client has handle 1 for a
  file, the server restarts, and the lookup of another file is the first call it gets:
  that file is given 1 too, and written over the files, which were whole.
* `move`: the pointer arithmetic in `rename`. Client and server give the target
  different handles, and a reload of the stale files undoes the rename in the
  table: an `unlink` then removes another file (line 35).
* `race`: line 47 again, within one client: the answer to a commit erases the chunk
  another thread has pushed since the gens were collected.

## Fairness

`FairSpec` in WriteCommit and Namespace asks for weak fairness of `Proceed(c)` (a thread
that runs a callback is scheduled), `ServeCall(c)` (gRPC hands a request to a
running server and its handler ends), `Refuse(c)` (a call to a dead server fails)
and `Restart` (somebody restarts the server). Applications need not ask, and no
fault has to happen; the number of faults is bounded, as a network that loses
every call makes every callback wait for ever. In Calls weak fairness of
`Proceed`, `Decode` and `ServeCall` says the same of one client and a server that
stays up, in Threads that of `Step(t)` and `Serve(t)` says it of every thread: nobody
waits for a lock, so a thread that can go on is scheduled.

## Proofs

TLAPS proves what follows for every value of the constants that satisfies the named
assumptions of the modules; TLC evaluates these in the runs. `HandleTableProofs` has the typing
lemmas of the table.

### Write path

Any clients, slots, files, ranges, streams of draws, bounds on faults. Each module
uses the invariants of those above it.

| theorem | says | if |
|---|---|---|
| `WriteCommitProofs`: `TypeCorrect` | `[]TypeOK` | |
| `CopiesKept` | `[]KeptUntilPersisted` | `DrawsDistinct` |
| `CopiesRefine` | `WriteBackSpec` | `DrawsDistinct` |
| `ReliableProofs`: `EntriesStay` | `[]EntriesRecovered` | no crash |
| `CloseCommits` | `[]CommittedOnClose` | no crash |
| `DescriptorsLive` | `[]FdsLive` | no crash, `Steady` |
| `WritesGoRight` | `[]RightFile` | `DrawsDistinct`, no crash, `Steady` |
| `NewestStays` | `NoOlderOverNewer` | as above, and no failed `pwrite` |
| `NothingLeft` | `[]NoLeftovers` | `DrawsDistinct`, no crash, no lost call, no failed `pwrite` |

`Steady`: no call is lost; or there is one client, which loses any number of requests and
answers, and none of them is executed late. The conditions are those without which the
property fails (see the list above and the runs `alike`, `stale`, `recover`): each
theorem covers the run that checks its property, and `lossy` and `shared` are the
two halves of `Steady`.

* `TypeOK` is not inductive; `Shape` adds what the messages carry: a request of a
  client is about its own chunks, gens are those of writes it has made, everything
  in the vector, under way or on disk was drawn before.
* `IInv` is `Shape`, `KeptUntilPersisted` and `CommitFits`: a commit under way
  lists exactly the chunks that would be dropped, and once it is acknowledged they
  are on disk. It is inductive because a client runs one callback at a time, so its dirty
  chunks do not change under a commit, and because with distinct gens the first
  entry of a gen is the write that is meant. The refinement follows step by step:
  each step issues, persists, drops or stutters (`StepKind`).
* `Numbered`: the two maps of the server are inverse and `fhcount` is not in use
  (`TableFits`); every handle in the vector, in a request under way or called late,
  in a chunk or in a client's map is in the table, with the path its owner has it for.
  So `findLookup` never misses, the files are never read, and no step takes an entry
  back (`Grows`). `client_commit` chooses chunks by handle: they are all those of
  the file only because handles and files correspond, and that is `CloseCommits`.
* `Orderly`: at most one open slot of one client uses a descriptor (`UsesOnce`), it is
  open on the slot's file, and the descriptor in a chunk is used by no other client
  (`ChunksOpen`): a client commits all its chunks of a file before it closes one of the
  descriptors. An answer to `open` that its client has not read yet counts as a use. A
  descriptor whose `release` was executed, but not heard of, is let go (`LetGo`): the client
  closes it once more, and as it is alone nobody has opened the number in between. The
  descriptor of an `open` whose answer is lost stays open and is never used.
* `Copies`: two copies of one write, in the vector, in a request or with the client, are
  equal, so what is pwritten is what was written.
* `Tidy`: the vector holds exactly the chunks that clients keep and that are not on disk,
  and each once, as nothing is resent; every open descriptor is in use.
* `Newest`: what is on disk of a client in a file is older than the chunks it keeps of the
  file, or is still one of them. The latter is what a lost answer to a commit leaves: the
  commit is repeated, or refused and all chunks are sent again, and puts the whole set
  on disk once more, in order (`DirtyIsHit`). A commit that fails half way would not.

### Directory operations

`NamespaceProofs`: any clients, paths, workloads and faults, crashes in handlers and
in the middle of `storeMapping` included.

* `NamespaceTypeCorrect`: `[](TypeOK /\ Shape)`. What can go wrong with a type here is a handler
  that goes on with what a torn file left, or with a handle or a path that is not there;
  that the tree stays a tree is the file system's doing, and is in `TypeOK` for the proofs.
  `Shape` says that the request under way is the one the client would send
  now: without it, the path that an answer is entered for, or a rename moves, could not be typed.
* `PathsStayMapped`: `[]PathsMapped`. The invariant `Backs` says of the table and of the
  files that the path of every handle leads back to that handle, or is the root; the
  exception is for `WithDir`. An overwriting rename, a reload over newer entries and a number
  given twice all keep this, though none keeps the maps inverse.
* `TablesStayInverse`: `[]TablesInverse`, for clients that stay in the root and a server that
  does not crash. The invariant `Inverses` adds the files, and that lookups and
  renames are made in directory 0, so that `WithDir` enters nothing and the branch of
  `rename` that overwrites is taken when it should be. It shows that both
  `erase(find())` of a rename are defined whatever another client has done.

`AgreementProofs`: a server that does not crash, any number of lost calls.

* `OneClientAgrees`: `[]HandlesAgree`, and `OneClientRefines`: `Spec` implements `FileTree`
  (`AsAsked`), both for one client that renames nothing into a subdirectory (`Undisturbed`).
  The invariant `Alone` has the inverse tables and three parts for the client. `Agree`: the server
  reads each of its handles as it does, but for the two paths of a rename between the
  step of the server and that of the client. `Holds`: the handle `client_rename` has looked up first
  is still that of the path it moves when the second lookup is done. Had a failed call reset the map in
  between, it would not be; with the target in the root the second lookup needs no call.
  `AtOnce`: a call that has taken effect is refused from then on, or (an `open` with `O_CREAT` of what is
  there) changes nothing, so that its repetition is a stutter of `FileTree`. The handler's system call is
  the one of the application because the handles in the request stand for the paths the
  client means (`RequestReads`, `ServesTheCall`).
* `ClientsAgree`: `[]HandlesAgree` for any number of clients if none renames (`Unmoved`). The server
  then only adds to its table, and keeps the path of what was removed. `AsAsked` is not
  claimed: another client can remove a directory between two executions of one `mkdir`.

The assumptions on constants say what a kernel passes on: `Node` is closed under
parents and has no name that is empty, `.` or `..`, the root is the empty path, and
there are finitely many nodes. `Path` has with a path each of its names in the root,
where the overwriting branch of `rename` puts it. A handler that would leave `Path` stays disabled,
like one that would pass `MaxFh`.

### Threads

`ThreadsProofs`: any threads, paths and workloads. `ThreadsAssumption` has the paths no more than
`MaxFh`, because `addLookup` does not check its number. `IInv` has three parts.

* `Types`: `[]TypeOK` (`ThreadsTypeCorrect`), with the records of threads and calls spelt out.
* `Handles`: the numbers below `fhcount` are handles of one path each, the only other number in the
  maps is that of a handler in the middle of `addLookup`; the stack of a lookup leads from
  a path down to the one asked for; a callback that has done its lookup holds the handle of its
  path. `HandlesStayApart` (`[]HandlesApart`) follows, until lookups cross.
* `Copies`: chunks have different gens; a commit names every chunk of its file, and each gen
  it names is on disk or in the vector, at or behind the position its loop has reached.
  `CopiesStayApart` (`[]CopiesKeptApart`) follows: as long as `mixed` is false no
  write is lost.

### Messages and calls

`MessagesProofs`: `MessageArrives`, for every request and every response with any texts.
`Serialize` and `Parse` fold over the fields and over the tokens, so this is an induction
over both, done by the least number for which a statement about the first n elements
fails. A field contributes no token or one, a repeated submessage several; reading
the tokens of field n leaves the message with the first n fields as they
were and the others empty. What is written in front of a submessage is its length because
`FieldSize` and `Tokens` take the same cases.

`CallsProofs`: any names, buffers, offsets, draws, mixes of calls and lost calls,
and a server of either version (with V2, as far as `Unmixed`, below, goes). `FitsAssumption` has the handles, inodes and
descriptors fit their fields. `Inv` has seven parts.

* `Typed`: the records of the calls and of the disk spelt out; `CallsTypeCorrect` is
  `[]TypeOK`. The requests and responses under way are messages, so `MessageArrives` gives
  `MessagesArrive` (`RoundTrip`).
* `Shape`, `Saying`: how far a callback is, and what the request of its call has in it, so that
  the handler knows which entry or descriptor is meant.
* `TableInv`, `Agreement`: the maps of the server are inverse, and the client's handles are the
  server's, but between the answer to a rename and its arrival, and after a failed
  call until `retry` has emptied the map. So `findLookup` never misses.
* `Answers`: an answer under way still says what is so at the server. `AnswersTell`
  is `[]Told`. The entries of a directory are entered one after the other, and the
  table stays good after each, also when a name throws (`Tries`).
* `OpenedRight`: `DescriptorKept`. The file of a leaked descriptor is not open at the client.

All four theorems of `CallsProofs` have the hypothesis `Unmixed`, which leaves out, for V2,
applications that both write and rename. With them `TableInv` fails: a rename takes the
handle of a chunk away, sending the chunk again makes the server read its JSON files, and
they do not have the renames over existing names. It is the scope of the module (see above),
not a fact about the program. `exchange` is within the hypothesis, and WriteCommit has no
renames.

### What is only model-checked

Liveness (`OpsReturn` and the three `CallsReturn`), which is out of the provers' reach.
Of Calls also `Durable` and `ReadsBack`.

## What is not modelled

* `mknod`: the server has a handler, but the client has no such callback, so it
  is never called.
* permission checks, owners, times, flags of `rename`, symbolic links; subdirectories
  in Calls, which are in Namespace.
* directory operations in several threads, two handlers in `storeMapping` at once, and
  what a program does after undefined behaviour or after lookups have crossed.
* restarts in Calls and Threads; V1 restarts like V2.
* calls executed late in Namespace and Calls: they are in WriteCommit.
* a `pwrite` that writes less than it was given, which `commit` takes for success; in Threads
  also one that fails, which WriteCommit has. `read` with descriptor 0, which opens by path.
* `Logger` and `getCurrentDateTime`, which are never called; `logLookup` and
  output in general.
* the generated code for arenas, reflection, unknown fields, merging, swapping
  and asynchronous calls, none of which the program uses; the insides of gRPC and of the
  protobuf runtime, modelled from how they are used.
* `json.hpp`: its parser and serializer are not in the repository. A file cut short
  is unreadable because the closing bracket of the value is its last character.

## Plan

1. `HandleTable`, `WriteBack`, `WriteCommit` with their runs and proofs: done.
2. `FileTree`, `Namespace` with their runs: done.
3. `Messages`, `Calls` (the data path, V1, the conversions) with their run: done.
4. `Threads` (of the client and of the server) with its runs: done.
5. Proofs of `WriteCommit` (also without crashes, and without losses or rivals), `Namespace` and
   `Threads`: done.
6. Proofs of `Messages` and of the types, messages, descriptors and answers of `Calls`: done.
7. Proofs: `Durable` and `ReadsBack` of `Calls`.
8. `Threads` with restarts, so that the resend of another thread's chunks meets a new
   server.
