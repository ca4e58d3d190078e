----------------------------- MODULE CallsProofs -----------------------------
(***************************************************************************)
(* Proofs about Calls: every message arrives as it was sent, the variables *)
(* have their types, the client's handles agree with the server's, the     *)
(* descriptor of an open file is the right one, and getattr and readdir    *)
(* tell what is on the disk.                                               *)
(***************************************************************************)
EXTENDS Calls, MessagesProofs, HandleTableProofs

-----------------------------------------------------------------------------
(* The inductive invariant: types.                                          *)

\* The characters of the texts and data of a message.
Letters == UNION {{p[i] : i \in DOMAIN p} : p \in Path}
Chars == Letters \cup Byte \cup Callbacks \cup {"lookup", "commit"}

Phases == {"none", "sent", "received", "replied", "arrived", "failed"}
CallType == [phase : Phases, req : Requests(Chars), rep : Responses(Chars)]

\* The data of a file is shorter than a uint32 can say.
Data == {d \in Seq(Byte) : Len(d) < 2^Bits32}
Nodes == [Ino -> [kind : {"file", "dir"}, mode : {0, NewMode}, data : Data]]

Chunks == [fh : Fh, size : Signed, offset : Signed, gen : Signed, data : Seq(Byte),
           fi : FileInfos]
Writes == [fh : Signed, size : Signed, offset : Signed, gen : Signed, data : Seq(Byte),
           fi : FileInfos]
OpenFiles == [path : Name, fh : Fd, flags : {NewFlags}, ino : Ino]
Ops == [cb : Callbacks \cup {"none"}, path : Path, to : Path, offset : Nat, size : Nat,
        buf : Buffer \cup {<<>>}, fh : Fh, at : Nat,
        pc : {"idle", "begin", "send", "commit", "resend", "close"}]

ServerType ==
    /\ table \in Table /\ log \in Log /\ cache \in Seq(Writes)
    /\ fds \in [Fd -> Ino \cup {0}] /\ entry \in [Name -> Ino \cup {0}] /\ node \in Nodes
ClientType ==
    /\ load \in Workload
    /\ pathtofh \in PathMap /\ chunks \in Seq(Chunks)
    /\ opened \in {<<>>} \cup {<<f>> : f \in OpenFiles}
    /\ op \in Ops /\ todo \in Seq(Name)
    /\ drawn \in 0 .. Len(Draw) /\ asks \in Nat /\ lost \in Nat
    /\ expect \in [Ino -> Seq(Byte \cup {Unsure})]
Typed == ServerType /\ ClientType /\ call \in CallType

-----------------------------------------------------------------------------
(* The callback under way.                                                  *)

NameWalks == {"mkdir", "create", "rmdir", "unlink", "open", "rename"}
FileOps == {"read", "write", "fsync", "flush", "release"}

\* What the point a callback has reached says about its kind and arguments.
Shape ==
    /\ op.pc = "idle" => op.cb = "none" /\ todo = <<>> /\ call.phase = "none"
    /\ op.pc # "idle" => op.cb \in load.use \cap Callbacks
    /\ op.pc = "send" => op.cb = "write" /\ op.at \in 1 .. Len(chunks)
    /\ op.pc \in {"commit", "resend", "close"} => op.cb = "release"
    /\ op.pc = "resend" => op.at \in Nat \ {0}
    /\ todo # <<>> => op.cb \in NameWalks
    /\ op.cb \in FileOps => opened # <<>>
    /\ op.cb \in {"create", "open"} => opened = <<>>
    /\ op.cb \in NameWalks \cup FileOps => op.path \in Name
    /\ op.cb = "readdir" => op.path = <<"">>
    /\ op.path \in Name \cup {<<"">>, Root}
    /\ op.cb = "rename" => op.to \in Name \ {op.path}
    /\ op.cb = "write" => drawn >= 1 /\ op.buf \in Buffer
    /\ chunks # <<>> => "write" \in load.use

\* What a request says, by its command, while its call is under way.
Says(r) ==
    /\ op.pc # "idle"
    /\ \E c \in Callbacks \cup {"lookup", "commit"} : r.command = <<c>>
    /\ r.command = <<"lookup">> => r.dirfh = 0 /\ r.name = Goal
    /\ r.command = <<"getattr">> =>
            Callback = "getattr" /\ Handle # NoFh /\ r.fh = Handle /\ r.path = Subject
    /\ \A cb \in Callbacks \ {"getattr", "write"} : r.command = <<cb>> => op.cb = cb /\ todo = <<>>
    /\ r.command = <<"readdir">> => r.dirfh = 0
    /\ r.command \in {<<"mkdir">>, <<"create">>} => r.dirfh = 0 /\ r.name = op.path
    /\ r.command = <<"mkdir">> => attr(r).st_mode = 0
    /\ r.command = <<"create">> => attr(r).st_mode = NewMode
    /\ r.command \in {<<"create">>, <<"open">>} => fi(r).flags = NewFlags
    /\ r.command \in {<<"rmdir">>, <<"unlink">>, <<"rename">>, <<"open">>, <<"read">>,
                      <<"release">>} => pathtofh[op.path] # NoFh
    /\ r.command = <<"rmdir">> => r.dirfh = pathtofh[op.path]
    /\ r.command = <<"rename">> =>
            r.fromfh = pathtofh[op.path] /\ r.todirfh = 0 /\ r.name = op.to
    /\ r.command \in {<<"unlink">>, <<"open">>, <<"read">>, <<"release">>} =>
            r.fh = pathtofh[op.path]
    /\ r.command \in {<<"read">>, <<"fsync">>, <<"flush">>, <<"release">>} =>
            fi(r).fh = opened[1].fh
    /\ r.command = <<"read">> => r.size = Int32(op.size) /\ r.offset = Int32(op.offset)
    /\ r.command = <<"write">> =>
            /\ op.pc \in {"send", "resend"} /\ op.at \in DOMAIN chunks
            /\ \A f \in {"fh", "size", "offset", "gen", "data"} : r[f] = chunks[op.at][f]
            /\ fi(r) = chunks[op.at].fi
    /\ r.command = <<"commit">> => op.pc = "commit"

Saying == call.phase # "none" => Says(call.req)

-----------------------------------------------------------------------------
(* Handles.                                                                 *)

\* The two maps of the server's table are inverse, and numbers not yet given are free.
TableInv(t) ==
    /\ t \in Table /\ t.fhcount - 1 \in Fh
    /\ t.pathToFh[Root] = 0 /\ t.fhToPath[0] = Root
    /\ \A p \in Path : t.pathToFh[p] # NoFh => t.fhToPath[t.pathToFh[p]] = p
    /\ \A h \in Fh : t.fhToPath[h] # NoPath => t.pathToFh[t.fhToPath[h]] = h
    /\ \A h \in Fh : h >= t.fhcount => t.fhToPath[h] = NoPath

\* A handle the client has for p is the handle of p at the server.
Agrees(p) == pathtofh[p] # NoFh => table.fhToPath[pathtofh[p]] = p

\* A rename that has been answered with success, which the client has yet to notice.
Renamed ==
    /\ call.phase \in {"replied", "arrived"} /\ call.req.command = <<"rename">>
    /\ call.rep.success = 0

\* The client's handles agree with the server's, but for what an answer or its loss
\* makes the client change.
Agreement ==
    /\ pathtofh[Root] = 0
    /\ call.phase # "failed" =>
        IF Renamed
        THEN /\ \A p \in Path \ {op.path, op.to} : Agrees(p)
             /\ pathtofh[op.to] # NoFh => table.fhToPath[pathtofh[op.path]] = op.to
        ELSE \A p \in Path : Agrees(p)
    /\ load.version = 2 => \A i \in DOMAIN chunks : Known(table, chunks[i].fh)

-----------------------------------------------------------------------------
(* Answers and the open file.                                               *)

\* What an answer says, by the command of the request.
Answers ==
    call.phase \in {"replied", "arrived"} =>
        /\ call.req.command = <<"lookup">> =>
                Rep.fh \in Fh /\ table.fhToPath[Rep.fh] = Goal
        /\ call.req.command \in {<<"open">>, <<"create">>} /\ Rep.success = 0 =>
                /\ fi(Rep).fh \in Fd /\ fi(Rep).flags = NewFlags
                /\ entry[op.path] \in Ino /\ fds[fi(Rep).fh] = entry[op.path]
        /\ call.req.command = <<"getattr">> =>
                IF KindAt(Goal) = "none" THEN Stated.status = -ENOENT
                ELSE Stated = [status |-> 0, st |-> StatOf(Goal)]
        /\ call.req.command = <<"readdir">> =>
                [i \in DOMAIN Listing |-> <<Listing[i].name, Listing[i].st["st_ino"]>>] =
                [i \in DOMAIN Entries |-> <<Entries[i], StatOf(Entries[i]).st_ino>>]

\* The workloads that the server's handles survive: with V2 a chunk that is sent again
\* under a handle that a rename has removed makes the server read its old files.
Unmixed == \A w \in Workload : w.version = 2 => ~ {"rename", "write"} \subseteq w.use

Inv == Typed /\ Shape /\ Saying /\ TableInv(table) /\ Agreement /\ Answers /\ OpenedRight

-----------------------------------------------------------------------------
(* Numbers, texts and fields.                                               *)

\* The numbers of a run fit the integers of the messages.
LEMMA Numbers ==
    /\ Fh \cup {NoFh} \subseteq Signed /\ 0 \in Signed /\ 1 \in Signed /\ -1 \in Signed
    /\ -ENOENT \in Signed
    /\ Fd \cup Ino \cup {MaxIno + 1, 0, 1} \subseteq Unsigned32
    /\ NewFlags \in Unsigned32 /\ NewMode \in Unsigned32
    /\ \A k \in {S_IFREG, S_IFDIR}, m \in {0, NewMode} : k + m \in Unsigned32
    /\ Range(Draw) \subseteq Signed
    /\ Signed \subseteq Int /\ Unsigned32 \subseteq Nat /\ Unsigned64 \subseteq Nat
    /\ \A x \in Nat : x < 2^Bits32 => x \in Unsigned32
  <1> DEFINE H == 2^(Bits32 - 1)
             N == 2^Bits32
             M == 2^Bits64
  <1>1. H \in Nat /\ H > 0 /\ N = 2 * H /\ N \in Nat /\ M \in Nat
    BY Widths
  <1>2. /\ MaxFh \in Nat /\ MaxFh < H /\ MaxFd \in 0 .. N - 1 /\ MaxIno + 1 \in 0 .. N - 1
        /\ MaxFd \in Nat /\ MaxIno \in Nat
        /\ Range(Draw) \subseteq 0 .. H - 1 /\ 2 < N /\ 8 + 3 < N
    BY FitsAssumption, MaxFhAssumption, CallsAssumption DEF NewFlags, S_IFDIR, NewMode
  <1>3. Signed = -H .. H - 1 /\ Unsigned32 = 0 .. N - 1 /\ Unsigned64 = 0 .. M - 1
    BY DEF Signed, Unsigned32, Unsigned64
  <1> HIDE DEF H, N, M
  <1>4. H >= 6
    BY <1>1, <1>2
  <1>5. Fh \cup {NoFh} \subseteq Signed /\ 0 \in Signed /\ 1 \in Signed /\ -1 \in Signed
    BY <1>1, <1>2, <1>3, <1>4 DEF Fh, NoFh
  <1>6. -ENOENT \in Signed
    BY <1>1, <1>3, <1>4 DEF ENOENT
  <1>7. Fd \cup Ino \cup {MaxIno + 1, 0, 1} \subseteq Unsigned32
    BY <1>1, <1>2, <1>3 DEF Fd, Ino
  <1>8. NewFlags \in Unsigned32 /\ NewMode \in Unsigned32
    BY <1>1, <1>2, <1>3 DEF NewFlags, NewMode
  <1>9. \A k \in {S_IFREG, S_IFDIR}, m \in {0, NewMode} : k + m \in Unsigned32
    BY <1>1, <1>2, <1>3 DEF S_IFREG, S_IFDIR, NewMode
  <1>10. Range(Draw) \subseteq Signed
    BY <1>1, <1>2, <1>3
  <1>11. Signed \subseteq Int /\ Unsigned32 \subseteq Nat /\ Unsigned64 \subseteq Nat
    BY <1>1, <1>3
  <1>12. \A x \in Nat : x < N => x \in Unsigned32
    BY <1>1, <1>3
  <1> QED BY <1>5, <1>6, <1>7, <1>8, <1>9, <1>10, <1>11, <1>12 DEF N

\* Paths and commands are texts.
LEMMA TextsOf ==
    /\ Path \subseteq Seq(Chars) /\ Seq(Byte) \subseteq Seq(Chars)
    /\ \A c \in Callbacks \cup {"lookup", "commit"} : <<c>> \in Seq(Chars)
    /\ Name \subseteq Path /\ Root \in Path /\ <<"">> \in Path /\ Listed \subseteq Path
    /\ Root \notin Name /\ <<"">> \notin Name /\ <<"">> # Root
    /\ Listed \cap Name = {} /\ \A p \in Path : Root \o p = p
  <1>1. Name \subseteq Path /\ Root \in Path /\ <<"">> \in Path /\ Listed \subseteq Path
    BY CallsAssumption
  <1>2. ASSUME NEW p \in Path PROVE p = <<>> \/ p = <<p[1]>>
    <2>1. p \in {<<>>, <<"">>} \/ p \in Name \/ p \in {<<".">>, <<"..">>}
      BY CallsAssumption DEF Listed
    <2>2. CASE p \in Name
      BY <2>2, CallsAssumption
    <2>3. CASE p \notin Name
      <3>1. \A x, q : q = <<x>> => q = <<q[1]>>
        OBVIOUS
      <3> QED BY <2>1, <2>3, <3>1
    <2> QED BY <2>2, <2>3
  <1>3. ASSUME NEW p \in Path PROVE p \in Seq(Chars) /\ Root \o p = p
    <2>1. CASE p = <<>>
      <3>1. p \in Seq(Chars) /\ <<>> \o p = p
        BY <2>1
      <3> QED BY <3>1, CallsAssumption
    <2>2. CASE p = <<p[1]>>
      <3>1. DOMAIN p = 1 .. 1
        BY <2>2
      <3>2. p[1] \in Chars
        BY <3>1 DEF Chars, Letters
      <3>3. <<p[1]>> \in Seq(Chars)
        BY <3>2
      <3>4. <<>> \o <<p[1]>> = <<p[1]>>
        OBVIOUS
      <3> QED BY <2>2, <3>3, <3>4, CallsAssumption
    <2> QED BY <1>2, <2>1, <2>2
  <1>4. Seq(Byte) \subseteq Seq(Chars)
    <2>1. Byte \subseteq Chars
      BY DEF Chars
    <2> QED BY <2>1
  <1>5. \A c \in Callbacks \cup {"lookup", "commit"} : <<c>> \in Seq(Chars)
    <2>1. Callbacks \cup {"lookup", "commit"} \subseteq Chars
      BY DEF Chars
    <2> QED BY <2>1
  <1>6. Root \notin Name /\ <<"">> \notin Name /\ <<"">> # Root /\ Listed \cap Name = {}
    <2>1. Root = <<>> /\ \A n \in Name : n = <<n[1]>> /\ n[1] \notin {"", ".", ".."}
      BY CallsAssumption
    <2>2. \A x : <<x>>[1] = x /\ <<x>> # <<>>
      OBVIOUS
    <2>3. Root \notin Name /\ <<"">> # Root
      BY <2>1, <2>2
    <2>4. <<"">> \notin Name /\ <<".">> \notin Name /\ <<"..">> \notin Name
      BY <2>1, <2>2
    <2> QED BY <2>3, <2>4 DEF Listed
  <1> QED BY <1>1, <1>3, <1>4, <1>5, <1>6

\* The names of the fields.
RequestNames == {"name", "attr", "todirfh", "fromfh", "fh", "fi", "size", "offset", "dirfh", "path",
                 "data", "isDataSync", "command", "gen", "gens"}
ResponseNames == {"fh", "success", "err", "fi", "data", "ern", "size", "objects", "status", "attr",
                  "dataSize"}
AttributesNames == {"st_dev", "st_ino", "st_mode", "st_nlink", "st_uid", "st_gid", "st_rdev",
                    "st_size", "st_catime", "st_cmtime", "st_cctime", "st_blksize", "st_blocks",
                    "st_attr"}

\* The domains of the messages.
LEMMA FieldNames ==
    /\ Names(request_Fields) = RequestNames /\ Names(response_Fields) = ResponseNames
    /\ Names(attributes_Fields) = AttributesNames /\ Names(fileInfo_Fields) = {"fh", "flags"}
    /\ Names(directory_Fields) = {"name", "attr"}
  <1>1. Names(request_Fields) = RequestNames
    BY DEF Names, request_Fields, Field, RequestNames
  <1>2. Names(response_Fields) = ResponseNames
    BY DEF Names, response_Fields, Field, ResponseNames
  <1>3. Names(attributes_Fields) = AttributesNames
    BY DEF Names, attributes_Fields, Field, AttributesNames
  <1>4. Names(fileInfo_Fields) = {"fh", "flags"}
    BY DEF Names, fileInfo_Fields, Field
  <1>5. Names(directory_Fields) = {"name", "attr"}
    BY DEF Names, directory_Fields, Field
  <1> QED BY <1>1, <1>2, <1>3, <1>4, <1>5

KindValues(C) ==
    /\ Values("int32", C) = Signed /\ Values("uint64", C) = Unsigned64
    /\ Values("uint32", C) = Unsigned32
    /\ Values("string", C) = Seq(C) /\ Values("bytes", C) = Seq(C)
    /\ Values("int32s", C) = Seq(Signed)
    /\ Values("attributes", C) = Optional(Attributes)
    /\ Values("fileInfo", C) = Optional(FileInfos)
    /\ Values("directory", C) = Seq(Directories(C))

\* The values of each kind of field.
LEMMA ValuesOf == ASSUME NEW C PROVE KindValues(C)
BY DEF KindValues, Values, Scalar, Text, ScalarValues

RequestFields(m, C) ==
    /\ DOMAIN m = RequestNames
    /\ m.name \in Seq(C) /\ m.path \in Seq(C) /\ m.data \in Seq(C) /\ m.command \in Seq(C)
    /\ m.attr \in Optional(Attributes) /\ m.fi \in Optional(FileInfos)
    /\ m.todirfh \in Signed /\ m.fromfh \in Signed /\ m.fh \in Signed /\ m.dirfh \in Signed
    /\ m.size \in Signed /\ m.offset \in Signed /\ m.isDataSync \in Signed /\ m.gen \in Signed
    /\ m.gens \in Seq(Signed)
ResponseFields(m, C) ==
    /\ DOMAIN m = ResponseNames
    /\ m.fh \in Signed /\ m.ern \in Signed /\ m.size \in Signed /\ m.status \in Signed
    /\ m.dataSize \in Signed /\ m.success \in Unsigned64 /\ m.err \in Unsigned64
    /\ m.fi \in Optional(FileInfos) /\ m.attr \in Optional(Attributes)
    /\ m.data \in Seq(C) /\ m.objects \in Seq(Directories(C))

\* The names and kinds of the fields, in the order of nfs.proto.
RequestLayout(F) ==
    /\ F[1].name = "name" /\ F[2].name = "attr" /\ F[3].name = "todirfh"
    /\ F[4].name = "fromfh" /\ F[5].name = "fh" /\ F[6].name = "fi" /\ F[7].name = "size"
    /\ F[8].name = "offset" /\ F[9].name = "dirfh" /\ F[10].name = "path"
    /\ F[11].name = "data" /\ F[12].name = "isDataSync" /\ F[13].name = "command"
    /\ F[14].name = "gen" /\ F[15].name = "gens"
    /\ F[1].kind = "string" /\ F[2].kind = "attributes" /\ F[3].kind = "int32"
    /\ F[4].kind = "int32" /\ F[5].kind = "int32" /\ F[6].kind = "fileInfo"
    /\ F[7].kind = "int32" /\ F[8].kind = "int32" /\ F[9].kind = "int32"
    /\ F[10].kind = "string" /\ F[11].kind = "bytes" /\ F[12].kind = "int32"
    /\ F[13].kind = "string" /\ F[14].kind = "int32" /\ F[15].kind = "int32s"
ResponseLayout(F) ==
    /\ F[1].name = "fh" /\ F[2].name = "success" /\ F[3].name = "err" /\ F[4].name = "fi"
    /\ F[5].name = "data" /\ F[6].name = "ern" /\ F[7].name = "size"
    /\ F[8].name = "objects" /\ F[9].name = "status" /\ F[10].name = "attr"
    /\ F[11].name = "dataSize"
    /\ F[1].kind = "int32" /\ F[2].kind = "uint64" /\ F[3].kind = "uint64"
    /\ F[4].kind = "fileInfo" /\ F[5].kind = "bytes" /\ F[6].kind = "int32"
    /\ F[7].kind = "int32" /\ F[8].kind = "directory" /\ F[9].kind = "int32"
    /\ F[10].kind = "attributes" /\ F[11].kind = "int32"

\* The field lists have these layouts.
LEMMA Layouts == RequestLayout(request_Fields) /\ ResponseLayout(response_Fields)
  <1>1. RequestLayout(request_Fields)
    BY DEF RequestLayout, request_Fields, Field
  <1>2. ResponseLayout(response_Fields)
    BY DEF ResponseLayout, response_Fields, Field
  <1> QED BY <1>1, <1>2

RequestValues(F, C) ==
    /\ Values(F[1].kind, C) = Seq(C) /\ Values(F[2].kind, C) = Optional(Attributes)
    /\ Values(F[3].kind, C) = Signed /\ Values(F[4].kind, C) = Signed
    /\ Values(F[5].kind, C) = Signed /\ Values(F[6].kind, C) = Optional(FileInfos)
    /\ Values(F[7].kind, C) = Signed /\ Values(F[8].kind, C) = Signed
    /\ Values(F[9].kind, C) = Signed /\ Values(F[10].kind, C) = Seq(C)
    /\ Values(F[11].kind, C) = Seq(C) /\ Values(F[12].kind, C) = Signed
    /\ Values(F[13].kind, C) = Seq(C) /\ Values(F[14].kind, C) = Signed
    /\ Values(F[15].kind, C) = Seq(Signed)
ResponseValues(F, C) ==
    /\ Values(F[1].kind, C) = Signed /\ Values(F[2].kind, C) = Unsigned64
    /\ Values(F[3].kind, C) = Unsigned64 /\ Values(F[4].kind, C) = Optional(FileInfos)
    /\ Values(F[5].kind, C) = Seq(C) /\ Values(F[6].kind, C) = Signed
    /\ Values(F[7].kind, C) = Signed /\ Values(F[8].kind, C) = Seq(Directories(C))
    /\ Values(F[9].kind, C) = Signed /\ Values(F[10].kind, C) = Optional(Attributes)
    /\ Values(F[11].kind, C) = Signed

\* The values of the fields, by their positions.
LEMMA FieldValues ==
    ASSUME NEW C
    PROVE  RequestValues(request_Fields, C) /\ ResponseValues(response_Fields, C)
  <1>0. KindValues(C)
    BY ValuesOf
  <1>1. ASSUME NEW F, RequestLayout(F) PROVE RequestValues(F, C)
    BY <1>0, <1>1 DEF RequestLayout, KindValues, RequestValues
  <1>2. ASSUME NEW F, ResponseLayout(F) PROVE ResponseValues(F, C)
    BY <1>0, <1>2 DEF ResponseLayout, KindValues, ResponseValues
  <1> QED BY <1>1, <1>2, Layouts

\* The fields of a message, by their positions.
LEMMA Positions ==
    ASSUME NEW C
    PROVE  /\ Len(request_Fields) = 15 /\ Len(response_Fields) = 11
           /\ \A m \in Requests(C) : RequestFields(m, C)
           /\ \A m \in Responses(C) : ResponseFields(m, C)
  <1> DEFINE F == request_Fields
             G == response_Fields
  <1>0. RequestValues(F, C) /\ ResponseValues(G, C)
    BY FieldValues
  <1>1. Len(F) = 15 /\ Len(G) = 11
    BY DEF request_Fields, response_Fields, Field
  <1>2. RequestLayout(F)
    BY Layouts
  <1>3. ResponseLayout(G)
    BY Layouts
  <1> HIDE DEF F, G
  <1>5. ASSUME NEW m \in Requests(C) PROVE RequestFields(m, C)
    <2>1. DOMAIN m = RequestNames
      BY FieldNames DEF Requests, MessagesOf
    <2>2. \A i \in 1 .. 15 : m[F[i].name] \in Values(F[i].kind, C)
      BY <1>1 DEF Requests, MessagesOf, F
    <2>3. /\ m[F[1].name] \in Values(F[1].kind, C) /\ m[F[2].name] \in Values(F[2].kind, C)
          /\ m[F[3].name] \in Values(F[3].kind, C) /\ m[F[4].name] \in Values(F[4].kind, C)
          /\ m[F[5].name] \in Values(F[5].kind, C) /\ m[F[6].name] \in Values(F[6].kind, C)
          /\ m[F[7].name] \in Values(F[7].kind, C) /\ m[F[8].name] \in Values(F[8].kind, C)
          /\ m[F[9].name] \in Values(F[9].kind, C) /\ m[F[10].name] \in Values(F[10].kind, C)
          /\ m[F[11].name] \in Values(F[11].kind, C) /\ m[F[12].name] \in Values(F[12].kind, C)
          /\ m[F[13].name] \in Values(F[13].kind, C) /\ m[F[14].name] \in Values(F[14].kind, C)
          /\ m[F[15].name] \in Values(F[15].kind, C)
      BY <2>2
    <2> QED BY <1>2, <2>1, <2>3, <1>0 DEF RequestFields, RequestLayout, RequestValues, ResponseValues
  <1>6. ASSUME NEW m \in Responses(C) PROVE ResponseFields(m, C)
    <2>1. DOMAIN m = ResponseNames
      BY FieldNames DEF Responses, MessagesOf
    <2>2. \A i \in 1 .. 11 : m[G[i].name] \in Values(G[i].kind, C)
      BY <1>1 DEF Responses, MessagesOf, G
    <2>3. /\ m[G[1].name] \in Values(G[1].kind, C) /\ m[G[2].name] \in Values(G[2].kind, C)
          /\ m[G[3].name] \in Values(G[3].kind, C) /\ m[G[4].name] \in Values(G[4].kind, C)
          /\ m[G[5].name] \in Values(G[5].kind, C) /\ m[G[6].name] \in Values(G[6].kind, C)
          /\ m[G[7].name] \in Values(G[7].kind, C) /\ m[G[8].name] \in Values(G[8].kind, C)
          /\ m[G[9].name] \in Values(G[9].kind, C) /\ m[G[10].name] \in Values(G[10].kind, C)
          /\ m[G[11].name] \in Values(G[11].kind, C)
      BY <2>2
    <2> QED BY <1>3, <2>1, <2>3, <1>0 DEF ResponseFields, ResponseLayout, RequestValues, ResponseValues
  <1> QED BY <1>1, <1>5, <1>6 DEF F, G

\* A request with one more field set.
LEMMA RequestSet ==
    ASSUME NEW C, NEW m \in Requests(C)
    PROVE  /\ \A x \in Seq(C) : set_name(m, x) \in Requests(C) /\ set_path(m, x) \in Requests(C)
                              /\ set_command(m, x) \in Requests(C) /\ set_data(m, x) \in Requests(C)
           /\ \A x \in Int : set_fh(m, x) \in Requests(C) /\ set_dirfh(m, x) \in Requests(C)
                           /\ set_fromfh(m, x) \in Requests(C) /\ set_todirfh(m, x) \in Requests(C)
           /\ \A x \in Int : set_size(m, x) \in Requests(C) /\ set_offset(m, x) \in Requests(C)
                           /\ set_isdatasync(m, x) \in Requests(C) /\ set_gen(m, x) \in Requests(C)
           /\ \A x \in FileInfos : fi_CopyFrom(m, x) \in Requests(C)
           /\ \A x \in Attributes : attr_CopyFrom(m, x) \in Requests(C)
           /\ \A x \in Seq(Int) : add_gens(m, x) \in Requests(C)
  <1> DEFINE F == request_Fields
  <1>0. RequestValues(F, C)
    BY FieldValues
  <1>1. RequestLayout(F)
    BY Layouts
  <1>3. Len(F) = 15 /\ RequestFields(m, C)
    BY Positions
  <1> HIDE DEF F
  <1>4. ASSUME NEW i \in 1 .. 15, NEW x \in Values(F[i].kind, C)
        PROVE  [m EXCEPT ![F[i].name] = x] \in Requests(C)
    BY <1>3, Lists, FieldSet DEF Requests, F
  <1>5. \A x \in Seq(C) : /\ [m EXCEPT !["name"] = x] \in Requests(C)
                          /\ [m EXCEPT !["path"] = x] \in Requests(C)
                          /\ [m EXCEPT !["data"] = x] \in Requests(C)
                          /\ [m EXCEPT !["command"] = x] \in Requests(C)
    <2> TAKE x \in Seq(C)
    <2>1. ASSUME NEW i \in {1, 10, 11, 13} PROVE [m EXCEPT ![F[i].name] = x] \in Requests(C)
      <3>1. i \in 1 .. 15 /\ x \in Values(F[i].kind, C)
        BY <1>0 DEF RequestValues
      <3> QED BY <1>4, <3>1
    <2> QED BY <1>1, <2>1 DEF RequestLayout
  <1>6. \A x \in Signed : /\ [m EXCEPT !["todirfh"] = x] \in Requests(C)
                          /\ [m EXCEPT !["fromfh"] = x] \in Requests(C)
                          /\ [m EXCEPT !["fh"] = x] \in Requests(C)
                          /\ [m EXCEPT !["size"] = x] \in Requests(C)
                          /\ [m EXCEPT !["offset"] = x] \in Requests(C)
                          /\ [m EXCEPT !["dirfh"] = x] \in Requests(C)
                          /\ [m EXCEPT !["isDataSync"] = x] \in Requests(C)
                          /\ [m EXCEPT !["gen"] = x] \in Requests(C)
    <2> TAKE x \in Signed
    <2>1. ASSUME NEW i \in {3, 4, 5, 7, 8, 9, 12, 14} PROVE [m EXCEPT ![F[i].name] = x] \in Requests(C)
      <3>1. i \in 1 .. 15 /\ x \in Values(F[i].kind, C)
        BY <1>0 DEF RequestValues
      <3> QED BY <1>4, <3>1
    <2> QED BY <1>1, <2>1 DEF RequestLayout
  <1>7. \A x \in FileInfos : [m EXCEPT !["fi"] = <<x>>] \in Requests(C)
    <2> TAKE x \in FileInfos
    <2>1. <<x>> \in Values(F[6].kind, C)
      BY <1>0 DEF RequestValues, Optional
    <2> QED BY <1>1, <1>4, <2>1 DEF RequestLayout
  <1>8. \A x \in Attributes : [m EXCEPT !["attr"] = <<x>>] \in Requests(C)
    <2> TAKE x \in Attributes
    <2>1. <<x>> \in Values(F[2].kind, C)
      BY <1>0 DEF RequestValues, Optional
    <2> QED BY <1>1, <1>4, <2>1 DEF RequestLayout
  <1>9. \A x \in Seq(Int) : add_gens(m, x) \in Requests(C)
    <2> TAKE x \in Seq(Int)
    <2> DEFINE y == [j \in DOMAIN x |-> Int32(x[j])]
               z == m.gens \o y
    <2>1. y \in Seq(Signed)
      BY Conversions
    <2>2. m.gens \in Seq(Signed)
      BY <1>3 DEF RequestFields
    <2>3. add_gens(m, x) = [m EXCEPT !["gens"] = z]
      BY DEF add_gens
    <2> HIDE DEF y
    <2>4. z \in Values(F[15].kind, C)
      BY <1>0, <2>1, <2>2 DEF RequestValues
    <2> HIDE DEF z
    <2>5. [m EXCEPT ![F[15].name] = z] \in Requests(C)
      BY <1>4, <2>4
    <2> QED BY <1>1, <2>3, <2>5 DEF RequestLayout
  <1>10. \A x \in Int : Int32(x) \in Signed
    BY Conversions
  <1>11. \A x \in Seq(C) : set_name(m, x) \in Requests(C) /\ set_path(m, x) \in Requests(C)
                              /\ set_command(m, x) \in Requests(C) /\ set_data(m, x) \in Requests(C)
    BY <1>5 DEF set_name, set_path, set_command, set_data
  <1>12. \A x \in Int : set_fh(m, x) \in Requests(C) /\ set_dirfh(m, x) \in Requests(C)
                           /\ set_fromfh(m, x) \in Requests(C) /\ set_todirfh(m, x) \in Requests(C)
    BY <1>6, <1>10 DEF set_fh, set_dirfh, set_fromfh, set_todirfh
  <1>13. \A x \in Int : set_size(m, x) \in Requests(C) /\ set_offset(m, x) \in Requests(C)
                           /\ set_isdatasync(m, x) \in Requests(C) /\ set_gen(m, x) \in Requests(C)
    BY <1>6, <1>10 DEF set_size, set_offset, set_isdatasync, set_gen
  <1>14. \A x \in FileInfos : fi_CopyFrom(m, x) \in Requests(C)
    BY <1>7 DEF fi_CopyFrom
  <1>15. \A x \in Attributes : attr_CopyFrom(m, x) \in Requests(C)
    BY <1>8 DEF attr_CopyFrom
  <1> QED BY <1>9, <1>11, <1>12, <1>13, <1>14, <1>15

\* A response with one more field set.
LEMMA ResponseSet ==
    ASSUME NEW C, NEW m \in Responses(C)
    PROVE  /\ \A x \in Seq(C) : set_data(m, x) \in Responses(C)
           /\ \A x \in Int : set_fh(m, x) \in Responses(C) /\ set_size(m, x) \in Responses(C)
                           /\ set_ern(m, x) \in Responses(C) /\ set_status(m, x) \in Responses(C)
                           /\ set_datasize(m, x) \in Responses(C)
                           /\ set_success(m, x) \in Responses(C)
           /\ \A x \in FileInfos : fi_CopyFrom(m, x) \in Responses(C)
           /\ \A x \in Attributes : attr_CopyFrom(m, x) \in Responses(C)
           /\ \A x \in Seq(Directories(C)) : add_objects(m, x) \in Responses(C)
  <1> DEFINE F == response_Fields
  <1>0. ResponseValues(F, C)
    BY FieldValues
  <1>1. ResponseLayout(F)
    BY Layouts
  <1>3. Len(F) = 11 /\ ResponseFields(m, C)
    BY Positions
  <1> HIDE DEF F
  <1>4. ASSUME NEW i \in 1 .. 11, NEW x \in Values(F[i].kind, C)
        PROVE  [m EXCEPT ![F[i].name] = x] \in Responses(C)
    BY <1>3, Lists, FieldSet DEF Responses, F
  <1>5. \A x \in Seq(C) : [m EXCEPT !["data"] = x] \in Responses(C)
    <2> TAKE x \in Seq(C)
    <2>1. [m EXCEPT ![F[5].name] = x] \in Responses(C)
      BY <1>0, <1>4 DEF ResponseValues
    <2> QED BY <1>1, <2>1 DEF ResponseLayout
  <1>6. \A x \in Signed : /\ [m EXCEPT !["fh"] = x] \in Responses(C)
                          /\ [m EXCEPT !["ern"] = x] \in Responses(C)
                          /\ [m EXCEPT !["size"] = x] \in Responses(C)
                          /\ [m EXCEPT !["status"] = x] \in Responses(C)
                          /\ [m EXCEPT !["dataSize"] = x] \in Responses(C)
    <2> TAKE x \in Signed
    <2>1. ASSUME NEW i \in {1, 6, 7, 9, 11} PROVE [m EXCEPT ![F[i].name] = x] \in Responses(C)
      <3>1. i \in 1 .. 11 /\ x \in Values(F[i].kind, C)
        BY <1>0 DEF ResponseValues
      <3> QED BY <1>4, <3>1
    <2> QED BY <1>1, <2>1 DEF ResponseLayout
  <1>7. \A x \in Unsigned64 : [m EXCEPT !["success"] = x] \in Responses(C)
    <2> TAKE x \in Unsigned64
    <2>1. [m EXCEPT ![F[2].name] = x] \in Responses(C)
      BY <1>0, <1>4 DEF ResponseValues
    <2> QED BY <1>1, <2>1 DEF ResponseLayout
  <1>8. \A x \in FileInfos : [m EXCEPT !["fi"] = <<x>>] \in Responses(C)
    <2> TAKE x \in FileInfos
    <2>1. <<x>> \in Values(F[4].kind, C)
      BY <1>0 DEF ResponseValues, Optional
    <2> QED BY <1>1, <1>4, <2>1 DEF ResponseLayout
  <1>9. \A x \in Attributes : [m EXCEPT !["attr"] = <<x>>] \in Responses(C)
    <2> TAKE x \in Attributes
    <2>1. <<x>> \in Values(F[10].kind, C)
      BY <1>0 DEF ResponseValues, Optional
    <2> QED BY <1>1, <1>4, <2>1 DEF ResponseLayout
  <1>10. \A x \in Seq(Directories(C)) : add_objects(m, x) \in Responses(C)
    <2> TAKE x \in Seq(Directories(C))
    <2> DEFINE z == m.objects \o x
    <2>1. m.objects \in Seq(Directories(C))
      BY <1>3 DEF ResponseFields
    <2>2. add_objects(m, x) = [m EXCEPT !["objects"] = z]
      BY DEF add_objects
    <2>3. z \in Values(F[8].kind, C)
      BY <1>0, <2>1 DEF ResponseValues
    <2> HIDE DEF z
    <2>4. [m EXCEPT ![F[8].name] = z] \in Responses(C)
      BY <1>4, <2>3
    <2> QED BY <1>1, <2>2, <2>4 DEF ResponseLayout
  <1>11. \A x \in Int : Int32(x) \in Signed /\ UInt64(x) \in Unsigned64
    BY Conversions
  <1>12. \A x \in Seq(C) : set_data(m, x) \in Responses(C)
    BY <1>5 DEF set_data
  <1>13. \A x \in Int : set_fh(m, x) \in Responses(C) /\ set_size(m, x) \in Responses(C)
                      /\ set_ern(m, x) \in Responses(C) /\ set_status(m, x) \in Responses(C)
                      /\ set_datasize(m, x) \in Responses(C)
    BY <1>6, <1>11 DEF set_fh, set_size, set_ern, set_status, set_datasize
  <1>14. \A x \in Int : set_success(m, x) \in Responses(C)
    BY <1>7, <1>11 DEF set_success
  <1>15. \A x \in FileInfos : fi_CopyFrom(m, x) \in Responses(C)
    BY <1>8 DEF fi_CopyFrom
  <1>16. \A x \in Attributes : attr_CopyFrom(m, x) \in Responses(C)
    BY <1>9 DEF attr_CopyFrom
  <1> QED BY <1>10, <1>12, <1>13, <1>14, <1>15, <1>16

-----------------------------------------------------------------------------
(* Stats and fuse_file_infos.                                               *)

\* The empty submessages hold zeros.
LEMMA EmptyLeaf ==
    /\ attributes_Empty = [n \in AttributesNames |-> 0]
    /\ fileInfo_Empty = [n \in {"fh", "flags"} |-> 0]
  <1>1. ASSUME NEW F, LeafList(F) PROVE Empty(F) = [n \in Names(F) |-> 0]
    <2>1. ASSUME NEW n \in Names(F) PROVE Default(F[Number(F, n)].kind) = 0
      <3>1. Number(F, n) \in DOMAIN F
        BY DEF Names, Number
      <3> QED BY <1>1, <3>1 DEF LeafList, FieldList, Default
    <2> QED BY <2>1 DEF Empty
  <1> QED BY <1>1, Lists, FieldNames DEF attributes_Empty, fileInfo_Empty

\* The submessages are records of integers.
LEMMA LeafTypes ==
    /\ Attributes = [AttributesNames -> Unsigned64]
    /\ \A m : m \in FileInfos <=>
            m = [n \in {"fh", "flags"} |-> m[n]] /\ m.fh \in Unsigned64 /\ m.flags \in Unsigned32
  <1>0. /\ ScalarValues("uint64") = Unsigned64 /\ ScalarValues("uint32") = Unsigned32
        /\ Unsigned64 \subseteq Int /\ Unsigned32 \subseteq Int
    BY Numbers DEF ScalarValues
  <1>1. \A i \in 1 .. Len(attributes_Fields) : attributes_Fields[i].kind = "uint64"
    BY DEF attributes_Fields, Field
  <1>2. Names(attributes_Fields) = {attributes_Fields[i].name : i \in 1 .. Len(attributes_Fields)}
    BY Lists DEF Names, LeafList, FieldList
  <1>3. Attributes = [AttributesNames -> Unsigned64]
    <2> DEFINE F == attributes_Fields
    <2>1. Attributes = {m \in [AttributesNames -> Int] : \A i \in 1 .. Len(F) : m[F[i].name] \in Unsigned64}
      BY <1>0, <1>1, FieldNames DEF Attributes, Leaves
    <2>2. AttributesNames = {F[i].name : i \in 1 .. Len(F)}
      BY <1>2, FieldNames
    <2> HIDE DEF F
    <2>3. ASSUME NEW m \in Attributes PROVE m \in [AttributesNames -> Unsigned64]
      BY <2>1, <2>2
    <2>4. ASSUME NEW m \in [AttributesNames -> Unsigned64] PROVE m \in Attributes
      BY <1>0, <2>1, <2>2
    <2> QED BY <2>3, <2>4
  <1>4. /\ Len(fileInfo_Fields) = 2
        /\ fileInfo_Fields[1].name = "fh" /\ fileInfo_Fields[1].kind = "uint64"
        /\ fileInfo_Fields[2].name = "flags" /\ fileInfo_Fields[2].kind = "uint32"
    BY DEF fileInfo_Fields, Field
  <1>5. ASSUME NEW m
        PROVE m \in FileInfos <=>
            m = [n \in {"fh", "flags"} |-> m[n]] /\ m.fh \in Unsigned64 /\ m.flags \in Unsigned32
    <2>1. m \in FileInfos <=> /\ m \in [{"fh", "flags"} -> Int]
                              /\ m.fh \in Unsigned64 /\ m.flags \in Unsigned32
      BY <1>0, <1>4, FieldNames DEF FileInfos, Leaves
    <2> QED BY <1>0, <2>1
  <1> QED BY <1>3, <1>5

\* The stat and the fuse_file_info of a message, set or not.
LEMMA SubMessages ==
    /\ attributes_Empty \in Attributes /\ fileInfo_Empty \in FileInfos
    /\ \A m : m.fi \in Optional(FileInfos) => fi(m) \in FileInfos
    /\ \A m : m.attr \in Optional(Attributes) => attr(m) \in Attributes
    /\ \A m, x : "fi" \in DOMAIN m => fi(fi_CopyFrom(m, x)) = x
    /\ \A m, x : "attr" \in DOMAIN m => attr(attr_CopyFrom(m, x)) = x
  <1>1. attributes_Empty \in Attributes /\ fileInfo_Empty \in FileInfos
    BY EmptyLeaf, LeafTypes, Numbers, Conversions
  <1>2. \A x : <<x>> # <<>> /\ <<x>>[1] = x
    OBVIOUS
  <1>3. ASSUME NEW m, m.fi \in Optional(FileInfos) PROVE fi(m) \in FileInfos
    BY <1>1, <1>2, <1>3 DEF fi, Optional
  <1>4. ASSUME NEW m, m.attr \in Optional(Attributes) PROVE attr(m) \in Attributes
    BY <1>1, <1>2, <1>4 DEF attr, Optional
  <1>5. ASSUME NEW m, NEW x, "fi" \in DOMAIN m PROVE fi(fi_CopyFrom(m, x)) = x
    <2>1. fi_CopyFrom(m, x).fi = <<x>>
      BY <1>5 DEF fi_CopyFrom
    <2> QED BY <1>2, <2>1 DEF fi
  <1>6. ASSUME NEW m, NEW x, "attr" \in DOMAIN m PROVE attr(attr_CopyFrom(m, x)) = x
    <2>1. attr_CopyFrom(m, x).attr = <<x>>
      BY <1>6 DEF attr_CopyFrom
    <2> QED BY <1>2, <2>1 DEF attr
  <1> QED BY <1>1, <1>3, <1>4, <1>5, <1>6

\* A fuse_file_info as a message: six conversions of the code do the same.
LEMMA InfoConverted ==
    ASSUME NEW f, f.fh \in Int, f.flags \in Int
    PROVE  /\ fusetoProto(f) \in FileInfos
           /\ fusetoProto(f).fh = UInt64(f.fh) /\ fusetoProto(f).flags = UInt32(f.flags)
           /\ toProtoFileInfo(f) = fusetoProto(f) /\ toGRPCFileInfo(f) = fusetoProto(f)
  <1> DEFINE m == set_flags(set_fi_fh(fileInfo_Empty, f.fh), f.flags)
  <1>1. m = [n \in {"fh", "flags"} |-> IF n = "fh" THEN UInt64(f.fh) ELSE UInt32(f.flags)]
    BY EmptyLeaf DEF set_flags, set_fi_fh
  <1>2. UInt64(f.fh) \in Unsigned64 /\ UInt32(f.flags) \in Unsigned32
    BY Conversions
  <1>3. fusetoProto(f) = m /\ toProtoFileInfo(f) = m /\ toGRPCFileInfo(f) = m
    BY DEF fusetoProto, toProtoFileInfo, toGRPCFileInfo
  <1> HIDE DEF m
  <1>4. m.fh = UInt64(f.fh) /\ m.flags = UInt32(f.flags) /\ m = [n \in {"fh", "flags"} |-> m[n]]
    BY <1>1
  <1> QED BY <1>2, <1>3, <1>4, LeafTypes

\* A message's fuse_file_info survives the structures of FUSE.
LEMMA InfoKept ==
    ASSUME NEW x \in FileInfos
    PROVE  /\ x.fh \in Unsigned64 /\ x.flags \in Unsigned32
           /\ toProtoFileInfo(toFuseFileInfo(x)) = x /\ toGRPCFileInfo(toCmdFileInfo(x)) = x
  <1>1. x = [n \in {"fh", "flags"} |-> x[n]] /\ x.fh \in Unsigned64 /\ x.flags \in Unsigned32
    BY LeafTypes
  <1>2. UInt64(x.fh) = x.fh /\ UInt32(x.flags) = x.flags /\ x.fh \in Int /\ x.flags \in Int
    BY <1>1, Conversions, Numbers
  <1>3. ASSUME NEW f, f = [fh |-> x.fh, flags |-> x.flags]
        PROVE  toProtoFileInfo(f) = x /\ toGRPCFileInfo(f) = x
    <2>1. f.fh = x.fh /\ f.flags = x.flags
      BY <1>3
    <2> DEFINE m == set_flags(set_fi_fh(fileInfo_Empty, f.fh), f.flags)
    <2>2. m = [n \in {"fh", "flags"} |-> IF n = "fh" THEN UInt64(f.fh) ELSE UInt32(f.flags)]
      BY EmptyLeaf DEF set_flags, set_fi_fh
    <2>3. m = [n \in {"fh", "flags"} |-> IF n = "fh" THEN x.fh ELSE x.flags]
      BY <1>2, <2>1, <2>2
    <2>4. [n \in {"fh", "flags"} |-> x[n]] = [n \in {"fh", "flags"} |-> IF n = "fh" THEN x.fh ELSE x.flags]
      OBVIOUS
    <2>5. m = x
      <3> HIDE DEF m
      <3> QED BY <1>1, <2>3, <2>4
    <2> QED BY <2>5 DEF toProtoFileInfo, toGRPCFileInfo
  <1> QED BY <1>1, <1>3 DEF toFuseFileInfo, toCmdFileInfo

\* A stat survives its conversion to a message and back, as far as its fields are sent.
LEMMA StatConverted ==
    ASSUME NEW st, \A n \in StatFields : st[n] \in Int
    PROVE  /\ toGRPCstat(st) \in Attributes
           /\ \A n \in StatFields : toGRPCstat(st)[n] = UInt64(st[n])
           /\ (\A n \in StatFields : st[n] \in Unsigned32) =>
                    toCmdstat(toGRPCstat(st)) = [n \in StatFields |-> st[n]]
  <1> DEFINE g == toGRPCstat(st)
  <1>1. g = [n \in AttributesNames |-> IF n \in StatFields THEN UInt64(st[n]) ELSE 0]
    BY EmptyLeaf DEF toGRPCstat
  <1>2. StatFields \subseteq AttributesNames
    BY DEF StatFields, AttributesNames
  <1>3. 0 \in Unsigned64 /\ \A x \in Int : UInt64(x) \in Unsigned64
    BY Numbers, Conversions
  <1> HIDE DEF g
  <1>4. g \in Attributes
    BY <1>1, <1>3, LeafTypes
  <1>5. \A n \in StatFields : g[n] = UInt64(st[n])
    BY <1>1, <1>2
  <1>6. ASSUME \A n \in StatFields : st[n] \in Unsigned32
        PROVE  toCmdstat(g) = [n \in StatFields |-> st[n]]
    <2>1. ASSUME NEW n \in StatFields PROVE UInt32(g[n]) = st[n] /\ g[n] = st[n]
      BY <1>5, <1>6, Conversions
    <2> QED BY <2>1 DEF toCmdstat
  <1> QED BY <1>4, <1>5, <1>6 DEF g

-----------------------------------------------------------------------------
(* The empty messages.                                                      *)

\* The request and the response as their constructors leave them.
LEMMA EmptyMessages ==
    ASSUME NEW C
    PROVE  /\ request_Empty \in Requests(C) /\ response_Empty \in Responses(C)
           /\ response_Empty.success = 0 /\ response_Empty.status = 0
           /\ response_Empty.objects = <<>> /\ request_Empty.gens = <<>>
  <1>1. request_Empty \in Requests(C) /\ response_Empty \in Responses(C)
    BY EmptyMessage, Lists DEF request_Empty, response_Empty, Requests, Responses
  <1>2. /\ \A i \in 1 .. 15 : request_Empty[request_Fields[i].name] = Default(request_Fields[i].kind)
        /\ \A i \in 1 .. 11 : response_Empty[response_Fields[i].name] = Default(response_Fields[i].kind)
    BY EmptyMessage, Lists, Positions DEF request_Empty, response_Empty
  <1>3. Default("uint64") = 0 /\ Default("int32") = 0 /\ Default("directory") = <<>> /\ Default("int32s") = <<>>
    BY DEF Default, Scalar
  <1>4. 15 \in 1 .. 15 /\ 2 \in 1 .. 11 /\ 8 \in 1 .. 11 /\ 9 \in 1 .. 11
    OBVIOUS
  <1>5. request_Fields[15].name = "gens" /\ request_Fields[15].kind = "int32s"
    BY Layouts DEF RequestLayout
  <1>6. /\ response_Fields[2].name = "success" /\ response_Fields[2].kind = "uint64"
        /\ response_Fields[8].name = "objects" /\ response_Fields[8].kind = "directory"
        /\ response_Fields[9].name = "status" /\ response_Fields[9].kind = "int32"
    BY Layouts DEF ResponseLayout
  <1>7. /\ request_Empty[request_Fields[15].name] = Default(request_Fields[15].kind)
        /\ response_Empty[response_Fields[2].name] = Default(response_Fields[2].kind)
        /\ response_Empty[response_Fields[8].name] = Default(response_Fields[8].kind)
        /\ response_Empty[response_Fields[9].name] = Default(response_Fields[9].kind)
    BY <1>2, <1>4
  <1> QED BY <1>1, <1>3, <1>5, <1>6, <1>7

-----------------------------------------------------------------------------
(* The requests.                                                            *)

Commands == Callbacks \cup {"lookup", "commit"}

\* A message with its command.
LEMMA NewRequest ==
    ASSUME NEW c \in Commands
    PROVE  /\ New(c) \in Requests(Chars) /\ DOMAIN New(c) = RequestNames
           /\ New(c).command = <<c>> /\ New(c).gens = <<>>
  <1>1. <<c>> \in Seq(Chars)
    BY TextsOf DEF Commands
  <1>2. request_Empty \in Requests(Chars) /\ request_Empty.gens = <<>>
    BY EmptyMessages
  <1>3. New(c) \in Requests(Chars)
    BY <1>1, <1>2, RequestSet DEF New
  <1>4. DOMAIN New(c) = RequestNames /\ DOMAIN request_Empty = RequestNames
    BY <1>2, <1>3, Positions DEF RequestFields
  <1>5. New(c).command = <<c>> /\ New(c).gens = <<>>
    BY <1>2, <1>4 DEF New, set_command, RequestNames
  <1> QED BY <1>3, <1>4, <1>5

\* The arguments of the callback, and the handle it uses.
LEMMA Arguments ==
    ASSUME Typed, Shape, pathtofh[Root] = 0
    PROVE  /\ Subject \in Path /\ Goal \in Path /\ op.path \in Path /\ op.to \in Path
           /\ Path \subseteq Seq(Chars)
           /\ \A p \in Path : pathtofh[p] \in Signed /\ Int32(pathtofh[p]) = pathtofh[p]
           /\ Handle \in Signed /\ Int32(Handle) = Handle /\ pathtofh[Root] = 0
           /\ Int32(0) = 0 /\ Signed \subseteq Int
           /\ op.size \in Int /\ op.offset \in Int
  <1>1. op.path \in Path /\ op.to \in Path /\ todo \in Seq(Name) /\ pathtofh \in PathMap
        /\ op.size \in Int /\ op.offset \in Int
    BY DEF Typed, ClientType, Ops
  <1>2. Subject \in Path
    <2>1. todo # <<>> => Head(todo) \in Name
      BY <1>1
    <2> QED BY <1>1, <2>1, TextsOf DEF Subject
  <1>3. Goal \in Path
    BY <1>2, TextsOf DEF Goal
  <1>4. ASSUME NEW p \in Path PROVE pathtofh[p] \in Signed /\ Int32(pathtofh[p]) = pathtofh[p]
    <2>1. pathtofh[p] \in Fh \cup {NoFh}
      BY <1>1 DEF PathMap
    <2> QED BY <2>1, Numbers, Conversions
  <1>5. Handle \in Signed /\ Int32(Handle) = Handle
    BY <1>3, <1>4 DEF Handle
  <1> QED BY <1>1, <1>2, <1>3, <1>4, <1>5, Numbers, Conversions, TextsOf

\* The fuse_file_info that libfuse passes.
LEMMA InfoPassed ==
    ASSUME Typed, Shape, op.cb \in FileOps \cup {"open", "create"}
    PROVE  /\ InfoMessage \in FileInfos /\ InfoMessage.flags = NewFlags
           /\ op.cb \in FileOps => InfoMessage.fh = opened[1].fh /\ opened[1].fh \in Fd
  <1>1. CASE op.cb \in {"open", "create"}
    <2>1. Info.fh = 0 /\ Info.flags = NewFlags
      BY <1>1 DEF Info
    <2>2. op.cb \notin FileOps
      BY <1>1 DEF FileOps
    <2> QED BY <2>1, <2>2, InfoConverted, Numbers, Conversions DEF InfoMessage
  <1>2. CASE op.cb \in FileOps
    <2>1. op.cb \notin {"open", "create"}
      BY <1>2 DEF FileOps
    <2>2. Info.fh = opened[1].fh /\ Info.flags = opened[1].flags
      BY <2>1 DEF Info
    <2>3. PICK f \in OpenFiles : opened = <<f>>
      BY <1>2 DEF Typed, ClientType, Shape
    <2>4. opened[1].fh \in Fd /\ opened[1].flags = NewFlags
      BY <2>3 DEF OpenFiles
    <2>5. Info.fh \in Unsigned64 /\ UInt64(Info.fh) = Info.fh /\ UInt32(Info.flags) = Info.flags
          /\ Info.fh \in Int /\ Info.flags \in Int
      <3>1. opened[1].fh \in Unsigned32 /\ opened[1].flags \in Unsigned32
        BY <2>4, Numbers
      <3>2. \A x \in Unsigned32 : x \in Unsigned64 /\ UInt64(x) = x /\ UInt32(x) = x /\ x \in Int
        BY Numbers, Conversions
      <3> QED BY <2>2, <3>1, <3>2
    <2> QED BY <2>2, <2>4, <2>5, InfoConverted DEF InfoMessage
  <1> QED BY <1>1, <1>2

\* One-element sequences are equal if their elements are.
LEMMA OneElement == \A a, b : <<a>> = <<b>> => a = b
OBVIOUS

\* What the call of a callback says.
LEMMA CallSays ==
    ASSUME Typed, Shape, pathtofh[Root] = 0, op.pc = "begin", Handle # NoFh,
           Callback \notin {"write", "release"}
    PROVE  RequestOf(Callback) \in Requests(Chars) /\ Says(RequestOf(Callback))
  <1>0. /\ op.cb \in Callbacks
        /\ todo = <<>> => Subject = op.path /\ Callback = op.cb
        /\ todo # <<>> => Callback = "getattr"
    BY DEF Shape, Subject, Callback
  <1>1. CASE Callback = "mkdir"
    <2> DEFINE m1 == set_dirfh(New("mkdir"), Handle)
               m2 == set_name(m1, op.path)
               m3 == attr_CopyFrom(m2, attributes_Empty)
               r == m3
    <2>1. RequestOf(Callback) = r
      BY <1>1 DEF RequestOf, MkdirRequest
    <2>2. todo = <<>> /\ op.cb = "mkdir" /\ Subject = op.path
      BY <1>0, <1>1
    <2>3. Handle = 0
      BY <1>1, <2>2 DEF Handle, Goal, ByParent, Shape
    <2>4. New("mkdir") \in Requests(Chars) /\ DOMAIN New("mkdir") = RequestNames
          /\ New("mkdir").command = <<"mkdir">>
      BY NewRequest DEF Commands, Callbacks
    <2>6. attributes_Empty \in Attributes /\ attributes_Empty.st_mode = 0
      BY SubMessages, EmptyLeaf DEF AttributesNames
    <2>7. m1 \in Requests(Chars)
      BY RequestSet, Arguments, <2>4
    <2>8. m2 \in Requests(Chars)
      <3> HIDE DEF m1
      <3> QED BY RequestSet, Arguments, <2>7
    <2>9. m3 \in Requests(Chars)
      <3> HIDE DEF m2
      <3> QED BY RequestSet, Arguments, <2>8, <2>6
    <2>10. r.command = <<"mkdir">>
      BY <2>4 DEF RequestNames, attr_CopyFrom, set_dirfh, set_name
    <2>11. r.dirfh = 0 /\ r.name = op.path /\ attr(r).st_mode = 0
      BY <2>3, <2>4, Arguments, <2>6 DEF RequestNames, attr_CopyFrom, set_dirfh, set_name, attr
    <2> HIDE DEF r
    <2>12. Says(r)
      BY <1>0, <1>1, <2>2, <2>3, <2>10, <2>11, OneElement DEF Says, Callbacks
    <2> QED BY <2>1, <2>9, <2>12 DEF r
  <1>2. CASE Callback = "create"
    <2> DEFINE m1 == set_dirfh(New("create"), Handle)
               m2 == set_name(m1, op.path)
               m3 == attr_CopyFrom(m2, set_st(attributes_Empty, "st_mode", NewMode))
               m4 == fi_CopyFrom(m3, InfoMessage)
               r == m4
    <2>1. RequestOf(Callback) = r
      BY <1>2 DEF RequestOf, CreateRequest
    <2>2. todo = <<>> /\ op.cb = "create" /\ Subject = op.path
      BY <1>0, <1>2
    <2>3. Handle = 0
      BY <1>2, <2>2 DEF Handle, Goal, ByParent, Shape
    <2>4. New("create") \in Requests(Chars) /\ DOMAIN New("create") = RequestNames
          /\ New("create").command = <<"create">>
      BY NewRequest DEF Commands, Callbacks
    <2>5. InfoMessage \in FileInfos /\ InfoMessage.flags = NewFlags
      BY <2>2, InfoPassed DEF FileOps
    <2>6. set_st(attributes_Empty, "st_mode", NewMode) \in Attributes /\ set_st(attributes_Empty, "st_mode", NewMode).st_mode = NewMode
      BY EmptyLeaf, LeafTypes, Numbers, Conversions DEF AttributesNames, set_st
    <2>7. m1 \in Requests(Chars)
      BY RequestSet, Arguments, <2>4
    <2>8. m2 \in Requests(Chars)
      <3> HIDE DEF m1
      <3> QED BY RequestSet, Arguments, <2>7
    <2>9. m3 \in Requests(Chars)
      <3> HIDE DEF m2
      <3> QED BY RequestSet, Arguments, <2>8, <2>6
    <2>10. m4 \in Requests(Chars)
      <3> HIDE DEF m3
      <3> QED BY RequestSet, Arguments, <2>9, <2>5
    <2>11. r.command = <<"create">>
      BY <2>4 DEF RequestNames, attr_CopyFrom, fi_CopyFrom, set_dirfh, set_name
    <2>12. r.dirfh = 0 /\ r.name = op.path /\ attr(r).st_mode = NewMode /\ fi(r).flags = NewFlags
      BY <2>3, <2>4, Arguments, <2>5, <2>6 DEF RequestNames, attr_CopyFrom, fi_CopyFrom, set_dirfh, set_name, fi, attr
    <2> HIDE DEF r
    <2>13. Says(r)
      BY <1>0, <1>2, <2>2, <2>3, <2>11, <2>12, OneElement DEF Says, Callbacks
    <2> QED BY <2>1, <2>10, <2>13 DEF r
  <1>3. CASE Callback = "rmdir"
    <2> DEFINE m1 == set_dirfh(New("rmdir"), Handle)
               r == m1
    <2>1. RequestOf(Callback) = r
      BY <1>3 DEF RequestOf, RmdirRequest
    <2>2. todo = <<>> /\ op.cb = "rmdir" /\ Subject = op.path
      BY <1>0, <1>3
    <2>3. Handle = pathtofh[op.path]
      BY <1>3, <2>2, TextsOf DEF Handle, Goal, ByParent, Shape, NameWalks, FileOps
    <2>4. New("rmdir") \in Requests(Chars) /\ DOMAIN New("rmdir") = RequestNames
          /\ New("rmdir").command = <<"rmdir">>
      BY NewRequest DEF Commands, Callbacks
    <2>7. m1 \in Requests(Chars)
      BY RequestSet, Arguments, <2>4
    <2>8. r.command = <<"rmdir">>
      BY <2>4 DEF RequestNames, set_dirfh
    <2>9. r.dirfh = pathtofh[op.path]
      BY <2>3, <2>4, Arguments DEF RequestNames, set_dirfh
    <2> HIDE DEF r
    <2>10. Says(r)
      BY <1>0, <1>3, <2>2, <2>3, <2>8, <2>9, OneElement DEF Says, Callbacks
    <2> QED BY <2>1, <2>7, <2>10 DEF r
  <1>4. CASE Callback = "rename"
    <2> DEFINE m1 == set_fromfh(New("rename"), Handle)
               m2 == set_todirfh(m1, pathtofh[Root])
               m3 == set_name(m2, op.to)
               r == m3
    <2>1. RequestOf(Callback) = r
      BY <1>4 DEF RequestOf, RenameRequest
    <2>2. todo = <<>> /\ op.cb = "rename" /\ Subject = op.path
      BY <1>0, <1>4
    <2>3. Handle = pathtofh[op.path]
      BY <1>4, <2>2, TextsOf DEF Handle, Goal, ByParent, Shape, NameWalks, FileOps
    <2>4. New("rename") \in Requests(Chars) /\ DOMAIN New("rename") = RequestNames
          /\ New("rename").command = <<"rename">>
      BY NewRequest DEF Commands, Callbacks
    <2>7. m1 \in Requests(Chars)
      BY RequestSet, Arguments, <2>4
    <2>8. m2 \in Requests(Chars)
      <3> HIDE DEF m1
      <3> QED BY RequestSet, Arguments, <2>7
    <2>9. m3 \in Requests(Chars)
      <3> HIDE DEF m2
      <3> QED BY RequestSet, Arguments, <2>8
    <2>10. r.command = <<"rename">>
      BY <2>4 DEF RequestNames, set_fromfh, set_name, set_todirfh
    <2>11. r.fromfh = pathtofh[op.path] /\ r.todirfh = 0 /\ r.name = op.to
      BY <2>3, <2>4, Arguments DEF RequestNames, set_fromfh, set_name, set_todirfh
    <2> HIDE DEF r
    <2>12. Says(r)
      BY <1>0, <1>4, <2>2, <2>3, <2>10, <2>11, OneElement DEF Says, Callbacks
    <2> QED BY <2>1, <2>9, <2>12 DEF r
  <1>5. CASE Callback = "open"
    <2> DEFINE m1 == set_fh(New("open"), Handle)
               m2 == fi_CopyFrom(m1, InfoMessage)
               r == m2
    <2>1. RequestOf(Callback) = r
      BY <1>5 DEF RequestOf, OpenRequest
    <2>2. todo = <<>> /\ op.cb = "open" /\ Subject = op.path
      BY <1>0, <1>5
    <2>3. Handle = pathtofh[op.path]
      BY <1>5, <2>2, TextsOf DEF Handle, Goal, ByParent, Shape, NameWalks, FileOps
    <2>4. New("open") \in Requests(Chars) /\ DOMAIN New("open") = RequestNames
          /\ New("open").command = <<"open">>
      BY NewRequest DEF Commands, Callbacks
    <2>5. InfoMessage \in FileInfos /\ InfoMessage.flags = NewFlags
      BY <2>2, InfoPassed DEF FileOps
    <2>7. m1 \in Requests(Chars)
      BY RequestSet, Arguments, <2>4
    <2>8. m2 \in Requests(Chars)
      <3> HIDE DEF m1
      <3> QED BY RequestSet, Arguments, <2>7, <2>5
    <2>9. r.command = <<"open">>
      BY <2>4 DEF RequestNames, fi_CopyFrom, set_fh
    <2>10. r.fh = pathtofh[op.path] /\ fi(r).flags = NewFlags
      BY <2>3, <2>4, Arguments, <2>5 DEF RequestNames, fi_CopyFrom, set_fh, fi
    <2> HIDE DEF r
    <2>11. Says(r)
      BY <1>0, <1>5, <2>2, <2>3, <2>9, <2>10, OneElement DEF Says, Callbacks
    <2> QED BY <2>1, <2>8, <2>11 DEF r
  <1>6. CASE Callback = "unlink"
    <2> DEFINE m1 == set_fh(New("unlink"), Handle)
               r == m1
    <2>1. RequestOf(Callback) = r
      BY <1>6 DEF RequestOf, UnlinkRequest
    <2>2. todo = <<>> /\ op.cb = "unlink" /\ Subject = op.path
      BY <1>0, <1>6
    <2>3. Handle = pathtofh[op.path]
      BY <1>6, <2>2, TextsOf DEF Handle, Goal, ByParent, Shape, NameWalks, FileOps
    <2>4. New("unlink") \in Requests(Chars) /\ DOMAIN New("unlink") = RequestNames
          /\ New("unlink").command = <<"unlink">>
      BY NewRequest DEF Commands, Callbacks
    <2>7. m1 \in Requests(Chars)
      BY RequestSet, Arguments, <2>4
    <2>8. r.command = <<"unlink">>
      BY <2>4 DEF RequestNames, set_fh
    <2>9. r.fh = pathtofh[op.path]
      BY <2>3, <2>4, Arguments DEF RequestNames, set_fh
    <2> HIDE DEF r
    <2>10. Says(r)
      BY <1>0, <1>6, <2>2, <2>3, <2>8, <2>9, OneElement DEF Says, Callbacks
    <2> QED BY <2>1, <2>7, <2>10 DEF r
  <1>7. CASE Callback = "readdir"
    <2> DEFINE m1 == set_dirfh(New("readdir"), Handle)
               r == m1
    <2>1. RequestOf(Callback) = r
      BY <1>7 DEF RequestOf, ReaddirRequest
    <2>2. todo = <<>> /\ op.cb = "readdir" /\ Subject = op.path
      BY <1>0, <1>7
    <2>3. Handle = 0
      BY <1>7, <2>2 DEF Handle, Goal, ByParent, Shape
    <2>4. New("readdir") \in Requests(Chars) /\ DOMAIN New("readdir") = RequestNames
          /\ New("readdir").command = <<"readdir">>
      BY NewRequest DEF Commands, Callbacks
    <2>7. m1 \in Requests(Chars)
      BY RequestSet, Arguments, <2>4
    <2>8. r.command = <<"readdir">>
      BY <2>4 DEF RequestNames, set_dirfh
    <2>9. r.dirfh = 0
      BY <2>3, <2>4, Arguments DEF RequestNames, set_dirfh
    <2> HIDE DEF r
    <2>10. Says(r)
      BY <1>0, <1>7, <2>2, <2>3, <2>8, <2>9, OneElement DEF Says, Callbacks
    <2> QED BY <2>1, <2>7, <2>10 DEF r
  <1>8. CASE Callback = "getattr"
    <2> DEFINE m1 == set_fh(New("getattr"), Handle)
               m2 == set_path(m1, Subject)
               m3 == attr_CopyFrom(m2, toGRPCstat(ZeroStat))
               r == m3
    <2>1. RequestOf(Callback) = r
      BY <1>8 DEF RequestOf, GetattrRequest
    <2>2. Callback = "getattr"
      BY <1>8
    <2>3. Handle = Handle
      OBVIOUS
    <2>4. New("getattr") \in Requests(Chars) /\ DOMAIN New("getattr") = RequestNames
          /\ New("getattr").command = <<"getattr">>
      BY NewRequest DEF Commands, Callbacks
    <2>6. toGRPCstat(ZeroStat) \in Attributes
      BY StatConverted, Numbers DEF ZeroStat
    <2>7. m1 \in Requests(Chars)
      BY RequestSet, Arguments, <2>4
    <2>8. m2 \in Requests(Chars)
      <3> HIDE DEF m1
      <3> QED BY RequestSet, Arguments, <2>7
    <2>9. m3 \in Requests(Chars)
      <3> HIDE DEF m2
      <3> QED BY RequestSet, Arguments, <2>8, <2>6
    <2>10. r.command = <<"getattr">>
      BY <2>4 DEF RequestNames, attr_CopyFrom, set_fh, set_path
    <2>11. r.fh = Handle /\ r.path = Subject
      BY <2>3, <2>4, Arguments, <2>6 DEF RequestNames, attr_CopyFrom, set_fh, set_path
    <2> HIDE DEF r
    <2>12. Says(r)
      BY <1>0, <1>8, <2>2, <2>3, <2>10, <2>11, OneElement DEF Says, Callbacks
    <2> QED BY <2>1, <2>9, <2>12 DEF r
  <1>9. CASE Callback = "read"
    <2> DEFINE m1 == set_fh(New("read"), Handle)
               m2 == set_size(m1, Int32(op.size))
               m3 == set_offset(m2, Int32(op.offset))
               m4 == fi_CopyFrom(m3, InfoMessage)
               r == m4
    <2>1. RequestOf(Callback) = r
      BY <1>9 DEF RequestOf, ReadRequest
    <2>2. todo = <<>> /\ op.cb = "read" /\ Subject = op.path
      BY <1>0, <1>9
    <2>3. Handle = pathtofh[op.path]
      BY <1>9, <2>2, TextsOf DEF Handle, Goal, ByParent, Shape, NameWalks, FileOps
    <2>4. New("read") \in Requests(Chars) /\ DOMAIN New("read") = RequestNames
          /\ New("read").command = <<"read">>
      BY NewRequest DEF Commands, Callbacks
    <2>5. InfoMessage \in FileInfos /\ InfoMessage.flags = NewFlags
          /\ InfoMessage.fh = opened[1].fh
      BY <2>2, InfoPassed DEF FileOps
    <2>7. m1 \in Requests(Chars)
      BY RequestSet, Arguments, <2>4
    <2>8. m2 \in Requests(Chars)
      <3> HIDE DEF m1
      <3> QED BY RequestSet, Arguments, <2>7, Conversions
    <2>9. m3 \in Requests(Chars)
      <3> HIDE DEF m2
      <3> QED BY RequestSet, Arguments, <2>8, Conversions
    <2>10. m4 \in Requests(Chars)
      <3> HIDE DEF m3
      <3> QED BY RequestSet, Arguments, <2>9, <2>5
    <2>11. r.command = <<"read">>
      BY <2>4 DEF RequestNames, fi_CopyFrom, set_fh, set_offset, set_size
    <2>12. r.fh = pathtofh[op.path] /\ fi(r).fh = opened[1].fh /\ r.size = Int32(op.size) /\ r.offset = Int32(op.offset)
      BY <2>3, <2>4, Arguments, <2>5, Conversions DEF RequestNames, fi_CopyFrom, set_fh, set_offset, set_size, fi
    <2> HIDE DEF r
    <2>13. Says(r)
      BY <1>0, <1>9, <2>2, <2>3, <2>11, <2>12, OneElement DEF Says, Callbacks
    <2> QED BY <2>1, <2>10, <2>13 DEF r
  <1>10. CASE Callback = "fsync"
    <2> DEFINE m1 == set_path(New("fsync"), op.path)
               m2 == set_isdatasync(m1, op.size)
               m3 == fi_CopyFrom(m2, InfoMessage)
               r == m3
    <2>1. RequestOf(Callback) = r
      BY <1>10 DEF RequestOf, FsyncRequest
    <2>2. todo = <<>> /\ op.cb = "fsync" /\ Subject = op.path
      BY <1>0, <1>10
    <2>3. Handle = 0
      BY <1>10, <2>2 DEF Handle, Goal, ByParent, Shape
    <2>4. New("fsync") \in Requests(Chars) /\ DOMAIN New("fsync") = RequestNames
          /\ New("fsync").command = <<"fsync">>
      BY NewRequest DEF Commands, Callbacks
    <2>5. InfoMessage \in FileInfos /\ InfoMessage.flags = NewFlags
          /\ InfoMessage.fh = opened[1].fh
      BY <2>2, InfoPassed DEF FileOps
    <2>7. m1 \in Requests(Chars)
      BY RequestSet, Arguments, <2>4
    <2>8. m2 \in Requests(Chars)
      <3> HIDE DEF m1
      <3> QED BY RequestSet, Arguments, <2>7
    <2>9. m3 \in Requests(Chars)
      <3> HIDE DEF m2
      <3> QED BY RequestSet, Arguments, <2>8, <2>5
    <2>10. r.command = <<"fsync">>
      BY <2>4 DEF RequestNames, fi_CopyFrom, set_isdatasync, set_path
    <2>11. fi(r).fh = opened[1].fh
      BY <2>3, <2>4, Arguments, <2>5 DEF RequestNames, fi_CopyFrom, set_isdatasync, set_path, fi
    <2> HIDE DEF r
    <2>12. Says(r)
      BY <1>0, <1>10, <2>2, <2>3, <2>10, <2>11, OneElement DEF Says, Callbacks
    <2> QED BY <2>1, <2>9, <2>12 DEF r
  <1>11. CASE Callback = "flush"
    <2> DEFINE m1 == set_path(New("flush"), op.path)
               m2 == fi_CopyFrom(m1, InfoMessage)
               r == m2
    <2>1. RequestOf(Callback) = r
      BY <1>11 DEF RequestOf, FlushRequest
    <2>2. todo = <<>> /\ op.cb = "flush" /\ Subject = op.path
      BY <1>0, <1>11
    <2>3. Handle = 0
      BY <1>11, <2>2 DEF Handle, Goal, ByParent, Shape
    <2>4. New("flush") \in Requests(Chars) /\ DOMAIN New("flush") = RequestNames
          /\ New("flush").command = <<"flush">>
      BY NewRequest DEF Commands, Callbacks
    <2>5. InfoMessage \in FileInfos /\ InfoMessage.flags = NewFlags
          /\ InfoMessage.fh = opened[1].fh
      BY <2>2, InfoPassed DEF FileOps
    <2>7. m1 \in Requests(Chars)
      BY RequestSet, Arguments, <2>4
    <2>8. m2 \in Requests(Chars)
      <3> HIDE DEF m1
      <3> QED BY RequestSet, Arguments, <2>7, <2>5
    <2>9. r.command = <<"flush">>
      BY <2>4 DEF RequestNames, fi_CopyFrom, set_path
    <2>10. fi(r).fh = opened[1].fh
      BY <2>3, <2>4, Arguments, <2>5 DEF RequestNames, fi_CopyFrom, set_path, fi
    <2> HIDE DEF r
    <2>11. Says(r)
      BY <1>0, <1>11, <2>2, <2>3, <2>9, <2>10, OneElement DEF Says, Callbacks
    <2> QED BY <2>1, <2>8, <2>11 DEF r
  <1> QED BY <1>0, <1>1, <1>2, <1>3, <1>4, <1>5, <1>6, <1>7, <1>8, <1>9, <1>10, <1>11 DEF Callbacks

\* A lookup names the path whose handle is missing.
LEMMA LookupSays ==
    ASSUME Typed, Shape, pathtofh[Root] = 0, op.pc # "idle",
           NEW r, r = set_name(set_dirfh(New("lookup"), pathtofh[Root]), Goal)
    PROVE  r \in Requests(Chars) /\ Says(r)
  <1> DEFINE m == set_dirfh(New("lookup"), pathtofh[Root])
  <1>1. New("lookup") \in Requests(Chars) /\ DOMAIN New("lookup") = RequestNames
        /\ New("lookup").command = <<"lookup">>
    BY NewRequest DEF Commands
  <1>2. m \in Requests(Chars)
    BY <1>1, RequestSet, Arguments
  <1>3. r = set_name(m, Goal)
    OBVIOUS
  <1>4. r \in Requests(Chars)
    <2> HIDE DEF m
    <2> QED BY <1>2, <1>3, RequestSet, Arguments
  <1>5. r.command = <<"lookup">> /\ r.dirfh = 0 /\ r.name = Goal
    BY <1>1, Arguments DEF RequestNames, set_name, set_dirfh
  <1> QED BY <1>4, <1>5, OneElement DEF Says, Callbacks

\* A write says what its chunk holds.
LEMMA WriteSays ==
    ASSUME Typed, Shape, op.pc \in {"send", "resend"}, op.at \in DOMAIN chunks,
           NEW r, r = WriteRequest(chunks[op.at])
    PROVE  r \in Requests(Chars) /\ Says(r)
  <1> DEFINE k == chunks[op.at]
  <1>1. k \in Chunks
    BY DEF Typed, ClientType
  <1>2. /\ k.fh \in Signed /\ k.size \in Signed /\ k.offset \in Signed /\ k.gen \in Signed
        /\ k.data \in Seq(Chars) /\ k.fi \in FileInfos
    BY <1>1, Numbers, TextsOf DEF Chunks
  <1> HIDE DEF k
  <1>3. \A x \in Signed : Int32(x) = x /\ x \in Int
    BY Conversions, Numbers
  <1> DEFINE m1 == set_fh(New("write"), k.fh)
             m2 == set_size(m1, k.size)
             m3 == set_offset(m2, k.offset)
             m4 == set_data(m3, k.data)
             m5 == set_gen(m4, k.gen)
             m6 == fi_CopyFrom(m5, k.fi)
  <1>4. New("write") \in Requests(Chars) /\ DOMAIN New("write") = RequestNames
        /\ New("write").command = <<"write">>
    BY NewRequest DEF Commands, Callbacks
  <1>5. r = m6
    BY DEF WriteRequest, k
  <1>6. m1 \in Requests(Chars)
    BY <1>2, <1>3, <1>4, RequestSet
  <1>7. m2 \in Requests(Chars)
    <2> HIDE DEF m1
    <2> QED BY <1>2, <1>3, <1>6, RequestSet
  <1>8. m3 \in Requests(Chars)
    <2> HIDE DEF m2
    <2> QED BY <1>2, <1>3, <1>7, RequestSet
  <1>9. m4 \in Requests(Chars)
    <2> HIDE DEF m3
    <2> QED BY <1>2, <1>8, RequestSet
  <1>10. m5 \in Requests(Chars)
    <2> HIDE DEF m4
    <2> QED BY <1>2, <1>3, <1>9, RequestSet
  <1>11. m6 \in Requests(Chars)
    <2> HIDE DEF m5
    <2> QED BY <1>2, <1>10, RequestSet
  <1>12. m6.command = <<"write">>
    BY <1>4 DEF RequestNames, set_fh, set_size, set_offset, set_data, set_gen, fi_CopyFrom
  <1>13. m6.fh = k.fh /\ m6.size = k.size /\ m6.offset = k.offset /\ m6.gen = k.gen /\ m6.data = k.data
    BY <1>2, <1>3, <1>4 DEF RequestNames, set_fh, set_size, set_offset, set_data, set_gen, fi_CopyFrom
  <1>14. fi(m6) = k.fi
    <2>1. "fi" \in DOMAIN m5
      BY <1>10, Positions DEF RequestFields, RequestNames
    <2> HIDE DEF m5
    <2> QED BY <2>1, SubMessages
  <1> HIDE DEF m6
  <1>15. op.pc # "idle"
    OBVIOUS
  <1> QED BY <1>5, <1>11, <1>12, <1>13, <1>14, <1>15, OneElement DEF Says, Callbacks, k

\* The picked members of a sequence are members of it.
LEMMA PickedType ==
    ASSUME NEW S, NEW s \in Seq(S), NEW I
    PROVE  Picked(s, I) \in Seq(S)
  <1> DEFINE n == Len(s)
             V == Seq(S)
             h == [i \in 1 .. n |-> [v \in V |-> IF i \in I THEN Append(v, s[i]) ELSE v]]
  <1>0. n \in Nat /\ \A i \in 1 .. n : s[i] \in S
    OBVIOUS
  <1>1. h \in StepsOn(n, V)
    BY <1>0 DEF StepsOn
  <1>2. PICK g \in RunsOf(n, V, <<>>, h) : TRUE
    <2>1. <<>> \in V
      OBVIOUS
    <2> HIDE DEF h, V, n
    <2> QED BY <1>0, <1>1, <2>1, Recursion
  <1> g \in [0 .. n -> V]
    BY DEF RunsOf
  <1>3. g[0] = <<>>
    BY DEF RunsOf
  <1>4. ASSUME NEW i \in 1 .. n PROVE g[i] = IF i \in I THEN Append(g[i - 1], s[i]) ELSE g[i - 1]
    <2>1. i - 1 \in 0 .. n
      BY <1>0
    <2>2. g[i] = h[i][g[i - 1]] /\ g[i - 1] \in V
      <3> HIDE DEF h, V
      <3> QED BY <2>1 DEF RunsOf
    <2> QED BY <2>2
  <1> DEFINE r == [i \in 0 .. n |-> g[i]]
  <1>5. r = [i \in 0 .. n |-> IF i = 0 THEN <<>> ELSE IF i \in I THEN Append(r[i - 1], s[i]) ELSE r[i - 1]]
    <2> HIDE DEF V
    <2>1. ASSUME NEW i \in 0 .. n
          PROVE  g[i] = IF i = 0 THEN <<>> ELSE IF i \in I THEN Append(r[i - 1], s[i]) ELSE r[i - 1]
      <3>1. CASE i = 0
        BY <1>3, <3>1
      <3>2. CASE i # 0
        <4>1. i \in 1 .. n /\ i - 1 \in 0 .. n
          BY <1>0, <3>2
        <4>2. r[i - 1] = g[i - 1]
          BY <4>1
        <4> QED BY <1>4, <3>2, <4>1, <4>2
      <3> QED BY <3>1, <3>2
    <2> QED BY <2>1
  <1>6. PICK f : /\ Picked(s, I) = f[n]
                 /\ f = [i \in 0 .. n |->
                        IF i = 0 THEN <<>> ELSE IF i \in I THEN Append(f[i - 1], s[i]) ELSE f[i - 1]]
    <2> HIDE DEF V, r
    <2> QED BY <1>5 DEF Picked
  <1>7. ASSUME NEW i \in 0 .. n PROVE f[i] \in V
    <2> DEFINE T == {j \in 0 .. n : f[j] \in V}
    <2>1. 0 \in T
      BY <1>0, <1>6
    <2>2. ASSUME NEW j \in 0 .. n - 1, j \in T PROVE j + 1 \in T
      <3>1. j + 1 \in 1 .. n /\ j + 1 # 0 /\ (j + 1) - 1 = j /\ j + 1 \in 0 .. n
        BY <1>0
      <3>2. f[j + 1] = IF j + 1 \in I THEN Append(f[j], s[j + 1]) ELSE f[j]
        <4> HIDE DEF V
        <4> QED BY <1>6, <3>1
      <3>3. f[j] \in Seq(S) /\ s[j + 1] \in S
        BY <1>0, <2>2, <3>1
      <3>4. f[j + 1] \in Seq(S)
        <4> HIDE DEF n
        <4> QED BY <3>2, <3>3
      <3> QED BY <3>1, <3>4
    <2>3. 0 .. n \subseteq T
      <3> HIDE DEF T, n
      <3> QED BY <1>0, <2>1, <2>2, UpTo
    <2> QED BY <2>3
  <1> QED BY <1>0, <1>6, <1>7

\* A commit carries the numbers of the chunks of its file.
LEMMA CommitSays ==
    ASSUME Typed, Shape, op.pc = "commit", NEW r, r = CommitRequest
    PROVE  r \in Requests(Chars) /\ Says(r)
  <1> DEFINE v == [j \in DOMAIN Dirty |-> Dirty[j].gen]
             m == set_fh(New("commit"), op.fh)
  <1>1. chunks \in Seq(Chunks) /\ op.fh \in Int
    BY Numbers DEF Typed, ClientType, Ops, Fh
  <1>2. Dirty \in Seq(Chunks)
    BY <1>1, PickedType DEF Dirty
  <1>3. v \in Seq(Int)
    <2>1. \A k \in Chunks : k.gen \in Int
      BY Numbers DEF Chunks
    <2> QED BY <1>2, <2>1
  <1> HIDE DEF v
  <1>4. New("commit") \in Requests(Chars) /\ DOMAIN New("commit") = RequestNames
        /\ New("commit").command = <<"commit">>
    BY NewRequest DEF Commands
  <1>5. m \in Requests(Chars)
    BY <1>1, <1>4, RequestSet
  <1>6. r = add_gens(m, v)
    BY DEF CommitRequest, v
  <1>7. m.command = <<"commit">> /\ DOMAIN m = RequestNames
    BY <1>4 DEF set_fh, RequestNames
  <1> HIDE DEF m
  <1>8. r \in Requests(Chars)
    BY <1>3, <1>5, <1>6, RequestSet
  <1>9. r.command = <<"commit">>
    BY <1>6, <1>7 DEF add_gens, RequestNames
  <1> QED BY <1>8, <1>9, OneElement DEF Says, Callbacks

\* A release names the handle of the path and the descriptor.
LEMMA ReleaseSays ==
    ASSUME Typed, Shape, pathtofh[Root] = 0, op.pc = "close", Handle # NoFh,
           NEW r, r = fi_CopyFrom(set_fh(New("release"), Handle), InfoMessage)
    PROVE  r \in Requests(Chars) /\ Says(r)
  <1> DEFINE m == set_fh(New("release"), Handle)
  <1>1. op.cb = "release" /\ todo = <<>> /\ op.path \in Name
    BY DEF Shape, FileOps, NameWalks
  <1>2. Handle = pathtofh[op.path]
    BY <1>1, TextsOf DEF Handle, Goal, Callback, Subject, ByParent
  <1>3. New("release") \in Requests(Chars) /\ DOMAIN New("release") = RequestNames
        /\ New("release").command = <<"release">>
    BY NewRequest DEF Commands, Callbacks
  <1>4. m \in Requests(Chars)
    BY <1>3, RequestSet, Arguments
  <1>5. m.command = <<"release">> /\ m.fh = Handle /\ DOMAIN m = RequestNames
    BY <1>3, Arguments DEF set_fh, RequestNames
  <1>6. InfoMessage \in FileInfos /\ InfoMessage.fh = opened[1].fh
    BY <1>1, InfoPassed DEF FileOps
  <1>7. r = fi_CopyFrom(m, InfoMessage)
    OBVIOUS
  <1> HIDE DEF m
  <1>8. r \in Requests(Chars)
    BY <1>4, <1>6, <1>7, RequestSet
  <1>9. r.command = <<"release">> /\ r.fh = Handle /\ fi(r).fh = opened[1].fh
    <2>1. r.command = <<"release">> /\ r.fh = Handle
      BY <1>5, <1>7 DEF fi_CopyFrom, RequestNames
    <2>2. fi(r) = InfoMessage
      BY <1>5, <1>7, SubMessages DEF RequestNames
    <2> QED BY <1>6, <2>1, <2>2
  <1> QED BY <1>1, <1>2, <1>8, <1>9, OneElement DEF Says, Callbacks

\* A request that says what is under way keeps the invariant when it is sent.
LEMMA SendInv ==
    ASSUME Inv, Running, NEW m, Send(m), m \in Requests(Chars), Says(m)
    PROVE  Inv'
  <1> USE DEF Send, Running, serverVars, diskVars, clientVars, Inv
  <1>1. response_Empty \in Responses(Chars)
    BY EmptyMessages
  <1>2. call' \in CallType /\ call'.req = m /\ call'.phase = "sent"
    BY <1>1 DEF CallType, Phases, Ok
  <1>3. Typed'
    BY <1>2 DEF Typed, ServerType, ClientType
  <1>4. Shape'
    BY <1>2 DEF Shape
  <1>5. Saying'
    BY <1>2 DEF Saying, Says, Goal, Subject, Callback, Handle
  <1>6. TableInv(table)'
    BY DEF TableInv
  <1>7. Agreement'
    BY <1>2 DEF Agreement, Renamed, Agrees, Known
  <1>8. Answers'
    BY <1>2 DEF Answers
  <1>9. OpenedRight'
    BY DEF OpenedRight, InoOf
  <1> QED BY <1>3, <1>4, <1>5, <1>6, <1>7, <1>8, <1>9

-----------------------------------------------------------------------------
(* Bytes.                                                                   *)

\* The least member of a set of naturals, and the greater of two numbers.
LEMMA Extremes ==
    /\ \A T \in SUBSET Nat : T # {} => Min(T) \in T /\ \A y \in T : Min(T) <= y
    /\ \A a, b \in Int : Max({a, b}) = IF a >= b THEN a ELSE b
    /\ \A a, b \in Int : Min({a, b}) = IF a <= b THEN a ELSE b
  <1>1. ASSUME NEW T \in SUBSET Nat, T # {} PROVE Min(T) \in T /\ \A y \in T : Min(T) <= y
    BY <1>1, LeastNat DEF Min
  <1>2. ASSUME NEW a \in Int, NEW b \in Int PROVE Max({a, b}) = IF a >= b THEN a ELSE b
    BY DEF Max
  <1>3. ASSUME NEW a \in Int, NEW b \in Int PROVE Min({a, b}) = IF a <= b THEN a ELSE b
    BY DEF Min
  <1> QED BY <1>1, <1>2, <1>3

\* What a C string keeps of some data.
LEMMA CStringType ==
    ASSUME NEW S, NEW b \in Seq(S)
    PROVE  CString(b) \in Seq(S) /\ Len(CString(b)) <= Len(b)
  <1> DEFINE I == {i \in DOMAIN b : b[i] = 0}
  <1>1. CASE Contains(b, 0)
    <2>1. I \in SUBSET Nat /\ I # {}
      BY <1>1 DEF Contains
    <2>2. Min(I) \in I
      <3> HIDE DEF I
      <3> QED BY <2>1, Extremes
    <2>3. Min(I) \in 1 .. Len(b)
      BY <2>2
    <2>4. CString(b) = SubSeq(b, 1, Min(I) - 1)
      BY <1>1 DEF CString
    <2> HIDE DEF I
    <2> DEFINE e == Min(I) - 1
    <2>5. e \in 0 .. Len(b)
      BY <2>3
    <2> HIDE DEF e
    <2>6. SubSeq(b, 1, e) \in Seq(S) /\ Len(SubSeq(b, 1, e)) <= Len(b)
      BY <2>5
    <2> QED BY <2>4, <2>6 DEF e
  <1>2. CASE ~ Contains(b, 0)
    BY <1>2 DEF CString
  <1> QED BY <1>1, <1>2

\* A sequence given by its members.
LEMMA Members ==
    ASSUME NEW S, NEW n \in Nat, NEW s, s = [i \in 1 .. n |-> s[i]],
           \A i \in 1 .. n : s[i] \in S
    PROVE  s \in Seq(S) /\ Len(s) = n
OBVIOUS

\* The same for a length that may be negative, which makes it empty.
LEMMA MadeSequence ==
    ASSUME NEW S, NEW n \in Int, NEW s, s = [i \in 1 .. n |-> s[i]],
           \A i \in 1 .. n : s[i] \in S
    PROVE  s \in Seq(S) /\ Len(s) = IF n >= 0 THEN n ELSE 0
  <1>1. CASE n >= 0
    <2>1. n \in Nat
      BY <1>1
    <2>2. s \in Seq(S) /\ Len(s) = n
      BY <2>1, Members
    <2> QED BY <1>1, <2>2
  <1>2. CASE ~ n >= 0
    <2>1. 1 .. n = {} /\ 1 .. 0 = {} /\ 0 \in Nat
      BY <1>2
    <2>2. s = [i \in 1 .. 0 |-> s[i]] /\ \A i \in 1 .. 0 : s[i] \in S
      BY <2>1
    <2>3. s \in Seq(S) /\ Len(s) = 0
      BY <2>1, <2>2, Members
    <2> QED BY <1>2, <2>3
  <1> QED BY <1>1, <1>2

\* What a write leaves in a file.
LEMMA OverlayType ==
    ASSUME NEW S, NEW d \in Seq(S), NEW o \in Nat, NEW b \in Seq(S), NEW gap \in S
    PROVE  /\ Overlay(d, o, b, gap) \in Seq(S)
           /\ Len(Overlay(d, o, b, gap)) = Len(d) \/ Len(Overlay(d, o, b, gap)) = o + Len(b)
  <1> DEFINE n == Max({Len(d), o + Len(b)})
             s == Overlay(d, o, b, gap)
  <1>1. n = IF Len(d) >= o + Len(b) THEN Len(d) ELSE o + Len(b)
    BY Extremes
  <1>2. s = [i \in 1 .. n |->
                IF i \in o + 1 .. o + Len(b) THEN b[i - o] ELSE IF i <= Len(d) THEN d[i] ELSE gap]
    BY DEF Overlay
  <1>3. n \in Nat
    BY <1>1
  <1> HIDE DEF n
  <1>4. ASSUME NEW i \in 1 .. n PROVE s[i] \in S
    <2> HIDE DEF s
    <2>1. CASE i \in o + 1 .. o + Len(b)
      <3>1. i - o \in 1 .. Len(b) /\ s[i] = b[i - o]
        BY <1>2, <2>1
      <3> QED BY <3>1
    <2>2. CASE i \notin o + 1 .. o + Len(b) /\ i <= Len(d)
      BY <1>2, <1>3, <2>2
    <2>3. CASE i \notin o + 1 .. o + Len(b) /\ ~ i <= Len(d)
      BY <1>2, <2>3
    <2> QED BY <2>1, <2>2, <2>3
  <1>5. s = [i \in 1 .. n |-> s[i]]
    <2> HIDE DEF s
    <2> QED BY <1>2
  <1> HIDE DEF s
  <1>6. s \in Seq(S) /\ Len(s) = IF n >= 0 THEN n ELSE 0
    BY <1>3, <1>4, <1>5, MadeSequence
  <1> QED BY <1>1, <1>3, <1>6 DEF s

\* The bytes pwrite takes.
LEMMA PwriteBytesType ==
    ASSUME NEW data \in Seq(Byte), NEW size \in Int, NEW tail \in Byte
    PROVE  PwriteBytes(data, size, tail) \in Seq(Byte)
           /\ Len(PwriteBytes(data, size, tail)) = IF size >= 0 THEN size ELSE 0
  <1> DEFINE s == PwriteBytes(data, size, tail)
  <1>1. s = [i \in 1 .. size |->
                IF i <= Len(data) THEN data[i] ELSE IF i = Len(data) + 1 THEN 0 ELSE tail]
    BY DEF PwriteBytes
  <1> HIDE DEF s
  <1>2. 0 \in Byte
    BY CallsAssumption
  <1>3. ASSUME NEW i \in 1 .. size PROVE s[i] \in Byte
    <2>1. i <= Len(data) => i \in 1 .. Len(data)
      OBVIOUS
    <2> QED BY <1>1, <1>2, <2>1
  <1>4. s = [i \in 1 .. size |-> s[i]]
    BY <1>1
  <1>5. s \in Seq(Byte) /\ Len(s) = IF size >= 0 THEN size ELSE 0
    BY <1>3, <1>4, MadeSequence
  <1> QED BY <1>5 DEF s

\* What is expected of a file after a write.
LEMMA PromiseType ==
    ASSUME NEW e \in Seq(Byte \cup {Unsure}), NEW o \in Int, NEW b \in Seq(Byte)
    PROVE  Promise(e, o, b) \in Seq(Byte \cup {Unsure})
  <1> DEFINE S == Byte \cup {Unsure}
             zero == Len(CString(b)) + 1
             firm == [i \in DOMAIN b |-> IF i <= zero THEN b[i] ELSE Unsure]
             loose == [i \in DOMAIN b |-> Unsure]
  <1>1. firm \in Seq(S) /\ loose \in Seq(S) /\ Unsure \in S
    OBVIOUS
  <1>2. Promise(e, o, b) = IF Int32(o) < 0 THEN e
                           ELSE Overlay(e, Int32(o), IF Int32(o) = o THEN firm ELSE loose, Unsure)
    BY DEF Promise
  <1> HIDE DEF firm, loose
  <1> DEFINE x == IF Int32(o) = o THEN firm ELSE loose
  <1>3. x \in Seq(S)
    BY <1>1
  <1> HIDE DEF x, S
  <1>4. Int32(o) \in Int
    BY ConversionTypes
  <1>5. CASE Int32(o) < 0
    BY <1>2, <1>5 DEF S
  <1>6. CASE ~ Int32(o) < 0
    <2>1. Int32(o) \in Nat
      BY <1>4, <1>6
    <2>2. Overlay(e, Int32(o), x, Unsure) \in Seq(S)
      BY <1>1, <1>3, <2>1, OverlayType DEF S
    <2> QED BY <1>2, <1>6, <2>2 DEF x, S
  <1> QED BY <1>5, <1>6

-----------------------------------------------------------------------------
(* The application asks.                                                    *)

\* Sequences of at most two members.
LEMMA Short ==
    ASSUME NEW S
    PROVE  /\ <<>> \in Seq(S) /\ \A x \in S : <<x>> \in Seq(S)
           /\ \A x, y \in S : <<x, y>> \in Seq(S)
OBVIOUS

\* The operation that an Ask begins.
Fresh(c, a, b) ==
    [cb |-> c, path |-> a, to |-> b, offset |-> 0, size |-> 0, buf |-> <<>>, pc |-> "begin",
     fh |-> 0, at |-> 0]

\* It is the idle one but for its kind and its paths.
LEMMA Begun ==
    ASSUME NEW c, NEW a, NEW b
    PROVE  /\ [Idle EXCEPT !.cb = c, !.path = a, !.pc = "begin"] = Fresh(c, a, Root)
           /\ [Idle EXCEPT !.cb = c, !.path = a, !.to = b, !.pc = "begin"] = Fresh(c, a, b)
  <1>1. ASSUME NEW e, e = [Idle EXCEPT !.cb = c, !.path = a, !.pc = "begin"]
        PROVE  e = Fresh(c, a, Root)
    <2> DEFINE r == Fresh(c, a, Root)
    <2>1. DOMAIN e = DOMAIN r /\ e = [i \in DOMAIN e |-> e[i]] /\ r = [i \in DOMAIN r |-> r[i]]
      BY <1>1 DEF Idle, Fresh
    <2>2. \A i \in DOMAIN r : e[i] = r[i]
      BY <1>1 DEF Idle, Fresh
    <2> HIDE DEF r
    <2>3. e = r
      BY <2>1, <2>2
    <2> QED BY <2>3 DEF r
  <1>2. ASSUME NEW e, e = [Idle EXCEPT !.cb = c, !.path = a, !.to = b, !.pc = "begin"]
        PROVE  e = Fresh(c, a, b)
    <2> DEFINE r == Fresh(c, a, b)
    <2>1. DOMAIN e = DOMAIN r /\ e = [i \in DOMAIN e |-> e[i]] /\ r = [i \in DOMAIN r |-> r[i]]
      BY <1>2 DEF Idle, Fresh
    <2>2. \A i \in DOMAIN r : e[i] = r[i]
      BY <1>2 DEF Idle, Fresh
    <2> HIDE DEF r
    <2>3. e = r
      BY <2>1, <2>2
    <2> QED BY <2>3 DEF r
  <1> QED BY <1>1, <1>2

\* The paths a call can be on, and those it can name besides.
Subjects == Name \cup {<<"">>}
Others == Name \cup {Root}

\* A call on a name.
LEMMA AskNameInv ==
    ASSUME Inv, Ask, AskName
    PROVE  op' \in Ops /\ todo' \in Seq(Name) /\ drawn' \in 0 .. Len(Draw) /\ Shape'
  <1>0. /\ op.pc = "idle" /\ load \in Workload /\ Shape /\ drawn \in 0 .. Len(Draw)
        /\ opened \in {<<>>} \cup {<<f>> : f \in OpenFiles}
        /\ UNCHANGED <<load, opened, chunks, call, drawn>>
    BY DEF Inv, Ask, AskName, Typed, ClientType
  <1>1. load.use \subseteq Callbacks
    BY <1>0, CallsAssumption
  <1>2. PICK cb \in load.use, p \in Subjects, q \in Others :
            LET o == [Idle EXCEPT !.cb = cb, !.path = p, !.to = q, !.pc = "begin"]
            IN  /\ cb \in {"getattr", "readdir", "mkdir", "rmdir", "unlink", "rename", "create", "open"}
                /\ (cb = "readdir") => p = <<"">>
                /\ cb \notin {"readdir", "getattr"} => p \in Name
                /\ (cb = "rename") => q \in Name \ {p}
                /\ cb # "rename" => q = Root
                /\ cb \in {"create", "open"} => opened = <<>>
                /\ op' = o /\ todo' = Walk(o)
    BY DEF AskName, Subjects, Others
  <1> DEFINE o == [Idle EXCEPT !.cb = cb, !.path = p, !.to = q, !.pc = "begin"]
  <1>3. /\ op' = o /\ todo' = Walk(o)
        /\ o = [cb |-> cb, path |-> p, to |-> q, offset |-> 0, size |-> 0, buf |-> <<>>,
                pc |-> "begin", fh |-> 0, at |-> 0]
    <2>1. op' = o /\ todo' = Walk(o)
      BY <1>2
    <2>2. o = [cb |-> cb, path |-> p, to |-> q, offset |-> 0, size |-> 0, buf |-> <<>>,
                pc |-> "begin", fh |-> 0, at |-> 0]
      BY Begun DEF Fresh
    <2> QED BY <2>1, <2>2
  <1>4. 0 \in Fh /\ 0 \in Nat /\ p \in Path /\ q \in Path
    <2>1. 0 \in Fh
      BY MaxFhAssumption DEF Fh
    <2> QED BY <2>1, TextsOf DEF Subjects, Others
  <1> HIDE DEF o
  <1>5. op' \in Ops
    <2>1. cb \in Callbacks \cup {"none"}
      BY <1>1
    <2> QED BY <2>1, <1>3, <1>4 DEF Ops
  <1>6. todo' \in Seq(Name) /\ (todo' # <<>> => cb \in NameWalks)
    <2>1. CASE cb \in {"mkdir", "create", "rmdir", "unlink", "open"}
      <3>1. o.cb = cb /\ o.path = p
        BY <1>3
      <3>2. todo' = <<p>> /\ p \in Name
        BY <1>2, <1>3, <2>1, <3>1 DEF Walk
      <3>3. <<p>> \in Seq(Name)
        BY <3>2, Short
      <3> QED BY <2>1, <3>2, <3>3 DEF NameWalks
    <2>2. CASE cb = "rename"
      <3>1. o.cb = cb /\ o.path = p /\ o.to = q
        BY <1>3
      <3>2. todo' = <<p, q>> /\ p \in Name /\ q \in Name
        BY <1>2, <1>3, <2>2, <3>1 DEF Walk
      <3>3. <<p, q>> \in Seq(Name)
        BY <3>2, Short
      <3> QED BY <2>2, <3>2, <3>3 DEF NameWalks
    <2>3. CASE cb \in {"getattr", "readdir"}
      <3>1. o.cb = cb
        BY <1>3
      <3>2. todo' = <<>>
        BY <1>3, <2>3, <3>1 DEF Walk
      <3>3. <<>> \in Seq(Name)
        BY Short
      <3> QED BY <3>2, <3>3
    <2> QED BY <1>2, <2>1, <2>2, <2>3
  <1>7. /\ op'.pc = "begin" /\ op'.cb = cb /\ op'.path = p /\ op'.to = q
    BY <1>3
  <1>8. Shape'
    <2>1. p \in Name \/ p = <<"">>
      BY DEF Subjects
    <2> QED BY <1>0, <1>1, <1>2, <1>6, <1>7, <2>1 DEF Shape, NameWalks, FileOps
  <1> QED BY <1>0, <1>5, <1>6, <1>8

\* A call on the open file.
LEMMA AskFileInv ==
    ASSUME Inv, Ask, AskFile
    PROVE  op' \in Ops /\ todo' \in Seq(Name) /\ drawn' \in 0 .. Len(Draw) /\ Shape'
  <1>0. /\ op.pc = "idle" /\ load \in Workload /\ Shape /\ drawn \in 0 .. Len(Draw)
        /\ opened \in {<<>>} \cup {<<f>> : f \in OpenFiles} /\ todo = <<>> /\ opened # <<>>
        /\ UNCHANGED <<load, opened, chunks, call, todo>>
        /\ drawn' = IF op'.cb = "write" THEN drawn + 1 ELSE drawn
    BY DEF Inv, Ask, AskFile, Typed, ClientType, Shape
  <1>1. load.use \subseteq Callbacks
    BY <1>0, CallsAssumption
  <1>2. opened[1].path \in Name /\ opened[1].path \in Path
    <2>1. PICK f \in OpenFiles : opened = <<f>>
      BY <1>0
    <2>2. f.path \in Name /\ opened[1] = f
      BY <2>1 DEF OpenFiles
    <2> QED BY <2>2, TextsOf
  <1>3. 0 \in Fh /\ 0 \in Nat /\ Root \in Path /\ Offset \subseteq Nat /\ ReadSize \subseteq Nat
        /\ Buffer \subseteq Seq(Byte) /\ Len(Draw) \in Nat
    <2>1. 0 \in Fh
      BY MaxFhAssumption DEF Fh
    <2>2. Offset \subseteq Nat /\ ReadSize \subseteq Nat /\ Buffer \subseteq Seq(Byte) /\ Draw \in Seq(Nat)
      BY CallsAssumption
    <2>3. Len(Draw) \in Nat
      BY <2>2
    <2> QED BY <2>1, <2>2, <2>3, TextsOf
  <1>4. PICK cb \in load.use, n \in Offset, size \in ReadSize, b \in Buffer :
            LET o == [Idle EXCEPT !.cb = cb, !.path = opened[1].path, !.pc = "begin"]
            IN  \/ cb = "read" /\ op' = [o EXCEPT !.offset = n, !.size = size]
                \/ /\ cb = "write" /\ drawn < Len(Draw)
                   /\ op' = [o EXCEPT !.offset = n, !.size = Len(b), !.buf = b]
                \/ cb = "fsync" /\ \E datasync \in {0, 1} : op' = [o EXCEPT !.size = datasync]
                \/ cb \in {"flush", "release"} /\ op' = o
    BY DEF AskFile
  <1>5. \E k \in Nat, z \in Nat, d \in Buffer \cup {<<>>} :
            /\ op' = [cb |-> cb, path |-> opened[1].path, to |-> Root, offset |-> k, size |-> z,
                      buf |-> d, pc |-> "begin", fh |-> 0, at |-> 0]
            /\ cb = "write" => d \in Buffer /\ drawn < Len(Draw)
            /\ cb \in FileOps
    <2> DEFINE o == [Idle EXCEPT !.cb = cb, !.path = opened[1].path, !.pc = "begin"]
    <2>1. o = [cb |-> cb, path |-> opened[1].path, to |-> Root, offset |-> 0, size |-> 0,
               buf |-> <<>>, pc |-> "begin", fh |-> 0, at |-> 0]
      BY Begun DEF Fresh
    <2>2. CASE cb = "read" /\ op' = [o EXCEPT !.offset = n, !.size = size]
      <3>1. op' = [cb |-> cb, path |-> opened[1].path, to |-> Root, offset |-> n, size |-> size,
                   buf |-> <<>>, pc |-> "begin", fh |-> 0, at |-> 0]
        BY <2>1, <2>2
      <3> QED BY <1>3, <2>2, <3>1 DEF FileOps
    <2>3. CASE cb = "write" /\ drawn < Len(Draw) /\ op' = [o EXCEPT !.offset = n, !.size = Len(b), !.buf = b]
      <3>1. op' = [cb |-> cb, path |-> opened[1].path, to |-> Root, offset |-> n, size |-> Len(b),
                   buf |-> b, pc |-> "begin", fh |-> 0, at |-> 0]
        BY <2>1, <2>3
      <3>2. Len(b) \in Nat
        BY <1>3
      <3> QED BY <1>3, <2>3, <3>1, <3>2 DEF FileOps
    <2>4. CASE cb = "fsync" /\ \E datasync \in {0, 1} : op' = [o EXCEPT !.size = datasync]
      <3>1. PICK datasync \in {0, 1} : op' = [o EXCEPT !.size = datasync]
        BY <2>4
      <3>2. op' = [cb |-> cb, path |-> opened[1].path, to |-> Root, offset |-> 0, size |-> datasync,
                   buf |-> <<>>, pc |-> "begin", fh |-> 0, at |-> 0]
        BY <2>1, <3>1
      <3> QED BY <2>4, <3>2 DEF FileOps
    <2>5. CASE cb \in {"flush", "release"} /\ op' = o
      <3> HIDE DEF o
      <3> QED BY <1>3, <2>1, <2>5 DEF FileOps
    <2> QED BY <1>4, <2>2, <2>3, <2>4, <2>5
  <1>6. PICK k \in Nat, z \in Nat, d \in Buffer \cup {<<>>} :
            /\ op' = [cb |-> cb, path |-> opened[1].path, to |-> Root, offset |-> k, size |-> z,
                      buf |-> d, pc |-> "begin", fh |-> 0, at |-> 0]
            /\ cb = "write" => d \in Buffer /\ drawn < Len(Draw)
            /\ cb \in FileOps
    BY <1>5
  <1>7. op' \in Ops
    BY <1>1, <1>2, <1>3, <1>6 DEF Ops
  <1>8. op'.pc = "begin" /\ op'.cb = cb /\ op'.path = opened[1].path /\ op'.to = Root /\ op'.buf = d
    BY <1>6
  <1>9. drawn' \in 0 .. Len(Draw) /\ (cb = "write" => drawn' >= 1)
    BY <1>0, <1>3, <1>6, <1>8
  <1>10. Shape'
    BY <1>0, <1>1, <1>2, <1>6, <1>8, <1>9 DEF Shape, NameWalks, FileOps
  <1>11. <<>> \in Seq(Name)
    OBVIOUS
  <1>12. todo' = <<>>
    BY <1>0
  <1> QED BY <1>7, <1>9, <1>10, <1>11, <1>12

\* What the application asks for keeps the invariant.
LEMMA AskInv == ASSUME Inv, Ask PROVE Inv'
  <1>1. op' \in Ops /\ todo' \in Seq(Name) /\ drawn' \in 0 .. Len(Draw) /\ Shape'
    BY AskNameInv, AskFileInv DEF Ask
  <1>2. asks \in Nat /\ asks' = asks + 1 /\ call.phase = "none" /\ op.cb = "none"
    BY DEF Ask, Inv, Typed, ClientType, Shape
  <1>3. UNCHANGED <<load, serverVars, diskVars, pathtofh, chunks, opened, call, lost, expect>>
    BY DEF Ask
  <1> USE DEF serverVars, diskVars
  <1>4. Typed'
    BY <1>1, <1>2, <1>3 DEF Inv, Typed, ServerType, ClientType
  <1>5. Saying' /\ Answers'
    BY <1>2, <1>3 DEF Saying, Answers
  <1>6. TableInv(table)' /\ Agreement'
    BY <1>2, <1>3 DEF Inv, TableInv, Agreement, Renamed, Agrees, Known
  <1>7. OpenedRight'
    BY <1>2, <1>3 DEF Inv, OpenedRight, InoOf
  <1> QED BY <1>1, <1>4, <1>5, <1>6, <1>7 DEF Inv

-----------------------------------------------------------------------------
(* The client goes on.                                                      *)

\* A step of the client after which no call is under way.
ClientKept ==
    /\ pathtofh \in PathMap /\ chunks \in Seq(Chunks)
    /\ opened \in {<<>>} \cup {<<f>> : f \in OpenFiles}
    /\ op \in Ops /\ todo \in Seq(Name)
    /\ expect \in [Ino -> Seq(Byte \cup {Unsure})]

\* Such a step keeps the invariant if it keeps the part about the client.
LEMMA ClientStep ==
    ASSUME Inv, UNCHANGED <<load, serverVars, diskVars, drawn, asks, lost>>,
           call' \in CallType, call'.phase = "none",
           ClientKept', Shape', OpenedRight',
           pathtofh'[Root] = 0, \A p \in Path : Agrees(p)',
           load.version = 2 => \A i \in DOMAIN chunks' : Known(table, chunks'[i].fh)
    PROVE  Inv'
  <1> USE DEF serverVars, diskVars
  <1>1. Typed'
    <2>1. ServerType'
      BY DEF Inv, Typed, ServerType
    <2>2. ClientType'
      BY DEF Inv, Typed, ClientType, ClientKept
    <2> QED BY <2>1, <2>2 DEF Typed
  <1>2. Saying' /\ Answers'
    BY DEF Saying, Answers
  <1>3. TableInv(table)'
    BY DEF Inv, TableInv
  <1>4. Agreement'
    BY DEF Agreement, Renamed, Known
  <1> QED BY <1>1, <1>2, <1>3, <1>4 DEF Inv

\* What is known when the client runs: its handles agree with the server's.
LEMMA AllAgree ==
    ASSUME Inv, call.phase # "failed", ~ Renamed
    PROVE  \A p \in Path : pathtofh[p] # NoFh => table.fhToPath[pathtofh[p]] = p
BY DEF Inv, Agreement, Agrees

\* The callback returns.
LEMMA ReturnShape ==
    ASSUME Inv, Return, call'.phase = "none", load' = load,
           chunks' # <<>> => "write" \in load.use
    PROVE  Shape' /\ op' \in Ops /\ todo' \in Seq(Name) /\ op'.cb = "none"
  <1>1. op' = Idle /\ todo' = <<>>
    BY DEF Return
  <1>2. 0 \in Fh /\ Root \in Path /\ <<>> \in Seq(Name)
    <2>1. 0 \in Fh
      BY MaxFhAssumption DEF Fh
    <2> QED BY <2>1, Short, TextsOf
  <1>3. Idle \in Ops
    BY <1>2 DEF Idle, Ops
  <1>4. /\ Idle.cb = "none" /\ Idle.path = Root /\ Idle.pc = "idle"
    BY DEF Idle
  <1>5. Shape'
    BY <1>1, <1>4 DEF Shape, NameWalks, FileOps
  <1> QED BY <1>1, <1>2, <1>3, <1>4, <1>5

\* NoCall has the type of a call.
LEMMA NoCallType == NoCall \in CallType /\ NoCall.phase = "none"
  <1>1. request_Empty \in Requests(Chars) /\ response_Empty \in Responses(Chars)
    BY EmptyMessages
  <1> QED BY <1>1 DEF NoCall, CallType, Phases

\* An answer of a command that has arrived.
LEMMA AnsweredFacts ==
    ASSUME Inv, NEW c, Answered(c)
    PROVE  /\ call.phase = "arrived" /\ call.req.command = <<c>> /\ Says(call.req)
           /\ call' \in CallType /\ call'.phase = "none" /\ op.pc # "idle" /\ op.cb \in Callbacks
           /\ UNCHANGED <<load, serverVars, diskVars, drawn, asks, lost>>
           /\ c # "rename" => ~ Renamed
  <1>1. call.phase = "arrived" /\ call.req.command = <<c>> /\ call' = NoCall
        /\ UNCHANGED <<load, serverVars, diskVars, drawn, asks, lost>>
    BY DEF Answered
  <1>2. Says(call.req)
    BY <1>1 DEF Inv, Saying
  <1>3. op.pc # "idle" /\ op.cb \in Callbacks
    BY <1>2 DEF Says, Inv, Shape
  <1>4. c # "rename" => ~ Renamed
    BY <1>1, OneElement DEF Renamed
  <1> QED BY <1>1, <1>2, <1>3, <1>4, NoCallType

\* A step of the callback that only moves it on keeps the invariant.
LEMMA OpMoves ==
    ASSUME Inv, call' \in CallType, call'.phase = "none", call.phase # "failed", ~ Renamed,
           op' \in Ops, op'.cb = op.cb, op'.path = op.path, op'.to = op.to, op'.buf = op.buf,
           op.cb = "release", op'.pc \in {"begin", "commit", "resend", "close"},
           op'.pc = "resend" => op'.at \in Nat \ {0},
           UNCHANGED <<load, serverVars, diskVars, pathtofh, opened, todo, chunks, drawn, asks, lost,
                       expect>>
    PROVE  Inv'
  <1>1. ClientKept'
    BY DEF Inv, Typed, ClientType, ClientKept
  <1>2. Shape'
    <2>1. op.cb \in load.use \cap Callbacks
      BY DEF Inv, Shape
    <2> QED BY <2>1 DEF Inv, Shape, NameWalks, FileOps
  <1>3. OpenedRight'
    BY DEF OpenedRight
  <1>4. pathtofh'[Root] = 0 /\ \A p \in Path : Agrees(p)'
    BY AllAgree DEF Inv, Agreement, Agrees, serverVars
  <1>5. load.version = 2 => \A i \in DOMAIN chunks' : Known(table, chunks'[i].fh)
    BY DEF Inv, Agreement
  <1> QED BY <1>1, <1>2, <1>3, <1>4, <1>5, ClientStep

\* The release begins with a commit.
LEMMA EnterCommitInv == ASSUME Inv, EnterCommit PROVE Inv'
  <1>1. op.pc = "begin" /\ op.cb = "release" /\ call.phase = "none" /\ Handle # NoFh
        /\ op' = [op EXCEPT !.pc = "commit", !.fh = Handle]
        /\ UNCHANGED <<load, serverVars, diskVars, pathtofh, chunks, opened, todo, drawn, asks, call,
                       lost, expect>>
    BY DEF EnterCommit, Running
  <1>2. Handle \in Fh
    <2>1. Typed /\ Shape /\ pathtofh[Root] = 0 /\ pathtofh \in PathMap
      BY DEF Inv, Agreement, Typed, ClientType
    <2>2. Goal \in Path
      BY <2>1, Arguments
    <2> QED BY <1>1, <2>1, <2>2 DEF Handle, PathMap
  <1>3. op \in Ops /\ call \in CallType
    BY DEF Inv, Typed, ClientType
  <1>4. op' \in Ops /\ op'.cb = op.cb /\ op'.path = op.path /\ op'.to = op.to /\ op'.buf = op.buf
        /\ op'.pc = "commit"
    BY <1>1, <1>2, <1>3 DEF Ops
  <1>5. ~ Renamed
    BY <1>1 DEF Renamed
  <1> QED BY <1>1, <1>3, <1>4, <1>5, OpMoves

\* There is nothing to commit, or every chunk has been sent again.
LEMMA StepInv == ASSUME Inv, NothingToCommit \/ EndResend PROVE Inv'
  <1>1. PICK pc \in {"close", "commit"} : op' = [op EXCEPT !.pc = pc]
    BY DEF NothingToCommit, EndResend, Step
  <1>2. op.pc \in {"commit", "resend"} /\ call.phase = "none"
        /\ UNCHANGED <<load, serverVars, diskVars, pathtofh, chunks, opened, todo, drawn, asks, call,
                       lost, expect>>
    BY DEF NothingToCommit, EndResend, Step, Running
  <1>3. op \in Ops /\ call \in CallType /\ op.cb = "release"
    BY <1>2 DEF Inv, Typed, ClientType, Shape
  <1>4. op' \in Ops /\ op'.cb = op.cb /\ op'.path = op.path /\ op'.to = op.to /\ op'.buf = op.buf
        /\ op'.pc = pc
    BY <1>1, <1>3 DEF Ops
  <1>5. ~ Renamed
    BY <1>2 DEF Renamed
  <1> QED BY <1>2, <1>3, <1>4, <1>5, OpMoves

\* The answer that writes are missing.
LEMMA GotMissingInv == ASSUME Inv, GotMissing PROVE Inv'
  <1>1. Answered("commit") /\ op' = [op EXCEPT !.pc = "resend", !.at = 1]
        /\ UNCHANGED <<pathtofh, chunks, opened, todo, expect>>
    BY DEF GotMissing
  <1>2. /\ call.phase = "arrived" /\ call.req.command = <<"commit">> /\ Says(call.req)
        /\ call' \in CallType /\ call'.phase = "none" /\ ~ Renamed
        /\ UNCHANGED <<load, serverVars, diskVars, drawn, asks, lost>>
    BY <1>1, AnsweredFacts
  <1>3. op.pc = "commit" /\ op.cb = "release" /\ op \in Ops
    BY <1>2 DEF Says, Inv, Shape, Typed, ClientType
  <1>4. op' \in Ops /\ op'.cb = op.cb /\ op'.path = op.path /\ op'.to = op.to /\ op'.buf = op.buf
        /\ op'.pc = "resend" /\ op'.at = 1
    BY <1>1, <1>3 DEF Ops
  <1> QED BY <1>1, <1>2, <1>3, <1>4, OpMoves

\* The answer to a write that was sent again.
LEMMA GotResentInv == ASSUME Inv, GotResent PROVE Inv'
  <1>1. /\ Answered("write") /\ op.pc = "resend"
        /\ op' = IF Rep.status = 0 THEN [op EXCEPT !.at = @ + 1] ELSE op
        /\ UNCHANGED <<pathtofh, chunks, opened, todo, expect>>
    BY DEF GotResent
  <1>2. /\ call.phase = "arrived" /\ call' \in CallType /\ call'.phase = "none" /\ ~ Renamed
        /\ UNCHANGED <<load, serverVars, diskVars, drawn, asks, lost>>
    BY <1>1, AnsweredFacts
  <1>3. op.cb = "release" /\ op \in Ops /\ op.at \in Nat \ {0}
    BY <1>1 DEF Inv, Shape, Typed, ClientType
  <1>4. op' \in Ops /\ op'.cb = op.cb /\ op'.path = op.path /\ op'.to = op.to /\ op'.buf = op.buf
        /\ op'.pc = "resend" /\ op'.at \in Nat \ {0}
    <2> HIDE DEF Ops
    <2>1. CASE op' = op
      BY <1>1, <1>3, <2>1
    <2>2. CASE op' = [op EXCEPT !.at = @ + 1]
      <3>1. op.at + 1 \in Nat \ {0} /\ MaxFh \in Nat
        BY <1>3, MaxFhAssumption
      <3>2. op' = [op EXCEPT !.at = op.at + 1]
        BY <2>2
      <3> QED BY <1>1, <1>3, <3>1, <3>2 DEF Ops
    <2> QED BY <1>1, <2>1, <2>2
  <1> QED BY <1>1, <1>2, <1>3, <1>4, OpMoves

\* What the client sends keeps the invariant.
LEMMA SendsInv ==
    ASSUME Inv, SendLookup \/ SendCall \/ SendWrite \/ SendCommit \/ SendRelease
    PROVE  Inv'
  <1>0. Typed /\ Shape /\ pathtofh[Root] = 0
    BY DEF Inv, Agreement
  <1>1. CASE SendLookup
    <2> DEFINE m == set_name(set_dirfh(New("lookup"), pathtofh[Root]), Goal)
    <2>1. Running /\ op.pc # "idle" /\ Send(m)
      BY <1>1 DEF SendLookup, Running
    <2>2. m \in Requests(Chars) /\ Says(m)
      BY <1>0, <2>1, LookupSays
    <2> HIDE DEF m
    <2> QED BY <2>1, <2>2, SendInv
  <1>2. CASE SendCall
    <2> DEFINE m == RequestOf(Callback)
    <2>1. Running /\ op.pc = "begin" /\ Handle # NoFh /\ Callback \notin {"write", "release"} /\ Send(m)
      BY <1>2 DEF SendCall
    <2>2. m \in Requests(Chars) /\ Says(m)
      BY <1>0, <2>1, CallSays
    <2> HIDE DEF m
    <2> QED BY <2>1, <2>2, SendInv
  <1>3. CASE SendWrite
    <2> DEFINE m == WriteRequest(chunks[op.at])
    <2>1. Running /\ op.pc \in {"send", "resend"} /\ Send(m)
      BY <1>3 DEF SendWrite
    <2>2. op.at \in DOMAIN chunks
      <3>1. DOMAIN chunks = 1 .. Len(chunks) /\ Len(chunks) \in Nat
        BY <1>0 DEF Typed, ClientType
      <3>2. CASE op.pc = "send"
        BY <1>0, <3>1, <3>2 DEF Shape
      <3>3. CASE op.pc = "resend"
        <4>1. op.at <= Len(chunks)
          BY <1>3, <3>3 DEF SendWrite
        <4>2. op.at \in Nat \ {0}
          BY <1>0, <3>3 DEF Shape
        <4> QED BY <3>1, <4>1, <4>2
      <3> QED BY <2>1, <3>2, <3>3
    <2>3. m \in Requests(Chars) /\ Says(m)
      BY <1>0, <2>1, <2>2, WriteSays
    <2> HIDE DEF m
    <2> QED BY <2>1, <2>3, SendInv
  <1>4. CASE SendCommit
    <2> DEFINE m == CommitRequest
    <2>1. Running /\ op.pc = "commit" /\ Send(m)
      BY <1>4 DEF SendCommit
    <2>2. m \in Requests(Chars) /\ Says(m)
      BY <1>0, <2>1, CommitSays
    <2> HIDE DEF m
    <2> QED BY <2>1, <2>2, SendInv
  <1>5. CASE SendRelease
    <2> DEFINE m == fi_CopyFrom(set_fh(New("release"), Handle), InfoMessage)
    <2>1. Running /\ op.pc = "close" /\ Handle # NoFh /\ Send(m)
      BY <1>5 DEF SendRelease
    <2>2. m \in Requests(Chars) /\ Says(m)
      BY <1>0, <2>1, ReleaseSays
    <2> HIDE DEF m
    <2> QED BY <2>1, <2>2, SendInv
  <1> QED BY <1>1, <1>2, <1>3, <1>4, <1>5

\* The chunk of a write is kept.
LEMMA KeepChunkInv == ASSUME Inv, KeepChunk PROVE Inv'
  <1>0. /\ op.pc = "begin" /\ call.phase = "none" /\ Callback = "write" /\ Handle # NoFh
        /\ op' = [op EXCEPT !.pc = "send", !.at = Len(chunks) + 1]
        /\ UNCHANGED <<load, serverVars, diskVars, pathtofh, opened, todo, drawn, asks, call, lost,
                       expect>>
    BY DEF KeepChunk, Running
  <1>1. Typed /\ Shape /\ pathtofh[Root] = 0 /\ ~ Renamed /\ call \in CallType
    BY <1>0 DEF Inv, Agreement, Renamed, Typed
  <1>2. op.cb = "write" /\ todo = <<>> /\ op.path \in Name /\ "write" \in load.use
    <2>1. op.cb = "write" /\ todo = <<>>
      BY <1>0 DEF Callback
    <2> QED BY <1>0, <1>1, <2>1 DEF Shape, FileOps
  <1>3. Handle = pathtofh[op.path]
    BY <1>0, <1>2, TextsOf DEF Handle, Goal, Subject, ByParent
  <1>4. Handle \in Fh /\ table.fhToPath[Handle] = op.path /\ Known(table, Handle)
    <2>1. op.path \in Path /\ pathtofh \in PathMap
      BY <1>1, <1>2, TextsOf DEF Typed, ClientType
    <2>2. Handle \in Fh /\ table.fhToPath[Handle] = op.path
      BY <1>0, <1>1, <1>3, <2>1, AllAgree DEF PathMap
    <2> QED BY <2>1, <2>2, PathAssumption DEF Known
  <1>5. PICK tail \in Beyond :
            chunks' = Append(chunks, [fh |-> Handle, size |-> Int32(op.size),
                                  offset |-> Int32(op.offset), gen |-> Draw[drawn],
                                  data |-> CString(op.buf \o tail), fi |-> InfoMessage])
    BY DEF KeepChunk
  <1> DEFINE k == [fh |-> Handle, size |-> Int32(op.size), offset |-> Int32(op.offset),
                   gen |-> Draw[drawn], data |-> CString(op.buf \o tail), fi |-> InfoMessage]
  <1>6. Int32(op.size) \in Signed /\ Int32(op.offset) \in Signed
    BY <1>1, Arguments, Conversions
  <1>7. Draw[drawn] \in Signed
    <2>1. drawn \in 0 .. Len(Draw) /\ drawn >= 1
      BY <1>1, <1>2 DEF Typed, ClientType, Shape
    <2>2. Draw \in Seq(Nat)
      BY CallsAssumption
    <2>3. drawn \in DOMAIN Draw
      BY <2>1, <2>2
    <2>4. Draw[drawn] \in Range(Draw)
      BY <2>3 DEF Range
    <2> QED BY <2>4, Numbers
  <1>8. CString(op.buf \o tail) \in Seq(Byte)
    <2>1. op.buf \in Buffer
      BY <1>1, <1>2 DEF Shape
    <2>2. op.buf \in Seq(Byte) /\ tail \in Seq(Byte)
      BY <2>1, CallsAssumption
    <2>3. op.buf \o tail \in Seq(Byte)
      BY <2>2
    <2> QED BY <2>3, CStringType
  <1>9. InfoMessage \in FileInfos
    BY <1>1, <1>2, InfoPassed DEF FileOps
  <1>10. k \in Chunks /\ k.fh = Handle
    BY <1>4, <1>6, <1>7, <1>8, <1>9 DEF Chunks
  <1>11. chunks \in Seq(Chunks) /\ chunks' = Append(chunks, k)
    BY <1>1, <1>5 DEF Typed, ClientType
  <1> HIDE DEF k
  <1>12. chunks' \in Seq(Chunks) /\ Len(chunks') = Len(chunks) + 1 /\ Len(chunks) \in Nat
         /\ \A i \in DOMAIN chunks' : 
                chunks'[i] = k \/ (i \in DOMAIN chunks /\ chunks'[i] = chunks[i])
    BY <1>10, <1>11
  <1>13. op' \in Ops /\ op'.pc = "send" /\ op'.at = Len(chunks) + 1 /\ op'.cb = op.cb
         /\ op'.path = op.path /\ op'.to = op.to /\ op'.buf = op.buf
    <2>1. op \in Ops /\ Len(chunks) + 1 \in Nat
      BY <1>1, <1>12 DEF Typed, ClientType
    <2> QED BY <1>0, <2>1 DEF Ops
  <1>14. ClientKept'
    BY <1>0, <1>1, <1>12, <1>13 DEF Typed, ClientType, ClientKept
  <1>15. op'.at \in 1 .. Len(chunks')
    BY <1>12, <1>13
  <1>16. Shape'
    BY <1>0, <1>1, <1>2, <1>13, <1>15 DEF Shape, NameWalks, FileOps
  <1>17. OpenedRight'
    BY <1>0, <1>13 DEF Inv, OpenedRight, InoOf, diskVars
  <1>18. pathtofh'[Root] = 0 /\ \A p \in Path : Agrees(p)'
    BY <1>0, <1>1, AllAgree DEF Agrees, serverVars
  <1>19. load.version = 2 => \A i \in DOMAIN chunks' : Known(table, chunks'[i].fh)
    BY <1>4, <1>10, <1>12 DEF Inv, Agreement
  <1>20. call'.phase = "none" /\ call' \in CallType
    BY <1>0, <1>1
  <1> QED BY <1>0, <1>14, <1>16, <1>17, <1>18, <1>19, <1>20, ClientStep

\* A handle is learnt.
LEMMA GotHandleInv == ASSUME Inv, GotHandle PROVE Inv'
  <1>0. /\ Answered("lookup") /\ pathtofh' = [pathtofh EXCEPT ![Goal] = Rep.fh]
        /\ UNCHANGED <<chunks, opened, op, todo, expect>>
    BY DEF GotHandle
  <1>1. /\ call.phase = "arrived" /\ call.req.command = <<"lookup">>
        /\ call' \in CallType /\ call'.phase = "none" /\ op.pc # "idle" /\ ~ Renamed
        /\ UNCHANGED <<load, serverVars, diskVars, drawn, asks, lost>>
    BY <1>0, AnsweredFacts
  <1>2. Rep.fh \in Fh /\ table.fhToPath[Rep.fh] = Goal
    BY <1>1 DEF Inv, Answers
  <1>3. Typed /\ Shape /\ pathtofh[Root] = 0 /\ pathtofh \in PathMap /\ TableInv(table)
    BY DEF Inv, Agreement, Typed, ClientType
  <1>4. Goal \in Path /\ Root \in Path /\ Root # NoPath
    BY <1>3, Arguments, PathAssumption
  <1>5. pathtofh' \in PathMap
    BY <1>0, <1>2, <1>3, <1>4 DEF PathMap
  <1>6. pathtofh'[Root] = 0
    <2>1. Goal = Root => Rep.fh = 0
      BY <1>2, <1>3, <1>4 DEF TableInv
    <2> QED BY <1>0, <1>3, <1>4, <2>1 DEF PathMap
  <1>7. \A p \in Path : Agrees(p)'
    <2> TAKE p \in Path
    <2>1. table' = table
      BY <1>1 DEF serverVars
    <2>2. CASE p = Goal
      BY <1>0, <1>2, <1>3, <2>1, <2>2 DEF Agrees, PathMap
    <2>3. CASE p # Goal
      BY <1>0, <1>1, <1>3, <2>1, <2>3, AllAgree DEF Agrees, PathMap
    <2> QED BY <2>2, <2>3
  <1>8. ClientKept'
    BY <1>0, <1>3, <1>5 DEF Typed, ClientType, ClientKept
  <1>9. Shape'
    BY <1>0, <1>1, <1>3 DEF Shape
  <1>10. OpenedRight'
    BY <1>0, <1>1 DEF Inv, OpenedRight, InoOf, diskVars
  <1>11. load.version = 2 => \A i \in DOMAIN chunks' : Known(table, chunks'[i].fh)
    BY <1>0 DEF Inv, Agreement
  <1> QED BY <1>1, <1>6, <1>7, <1>8, <1>9, <1>10, <1>11, ClientStep

\* The callback returns and leaves the rest of the client as it was.
LEMMA ReturnInv ==
    ASSUME Inv, Return, call' \in CallType, call'.phase = "none",
           UNCHANGED <<load, serverVars, diskVars, drawn, asks, lost>>,
           pathtofh' \in PathMap, pathtofh'[Root] = 0, \A p \in Path : Agrees(p)',
           chunks' = chunks, opened' \in {<<>>} \cup {<<f>> : f \in OpenFiles}, OpenedRight',
           expect' \in [Ino -> Seq(Byte \cup {Unsure})]
    PROVE  Inv'
  <1>1. chunks' # <<>> => "write" \in load.use
    BY DEF Inv, Shape
  <1>2. load' = load
    OBVIOUS
  <1>3. Shape' /\ op' \in Ops /\ todo' \in Seq(Name)
    BY <1>1, <1>2, ReturnShape
  <1>4. ClientKept'
    BY <1>3 DEF Inv, Typed, ClientType, ClientKept
  <1>5. load.version = 2 => \A i \in DOMAIN chunks' : Known(table, chunks'[i].fh)
    BY DEF Inv, Agreement
  <1> QED BY <1>3, <1>4, <1>5, ClientStep

\* The client's own state and the open file, where they stay.
LEMMA KeptParts ==
    ASSUME Inv, call.phase # "failed", ~ Renamed,
           UNCHANGED <<load, serverVars, diskVars, drawn, asks, lost>>
    PROVE  /\ pathtofh' = pathtofh => /\ pathtofh' \in PathMap /\ pathtofh'[Root] = 0
                                      /\ \A p \in Path : Agrees(p)'
           /\ opened' = opened => opened' \in {<<>>} \cup {<<f>> : f \in OpenFiles}
           /\ opened' = opened /\ op.cb # "release" => OpenedRight'
           /\ opened' = <<>> => OpenedRight'
           /\ expect' = expect => expect' \in [Ino -> Seq(Byte \cup {Unsure})]
  <1>1. table' = table /\ fds' = fds
    BY DEF serverVars, diskVars
  <1>2. ASSUME pathtofh' = pathtofh
        PROVE  pathtofh' \in PathMap /\ pathtofh'[Root] = 0 /\ \A p \in Path : Agrees(p)'
    <2>1. pathtofh \in PathMap /\ pathtofh[Root] = 0
      BY DEF Inv, Typed, ClientType, Agreement
    <2>2. \A p \in Path : pathtofh[p] # NoFh => table.fhToPath[pathtofh[p]] = p
      BY AllAgree
    <2> QED BY <1>1, <1>2, <2>1, <2>2 DEF Agrees
  <1>3. ASSUME opened' = opened PROVE opened' \in {<<>>} \cup {<<f>> : f \in OpenFiles}
    BY <1>3 DEF Inv, Typed, ClientType
  <1>4. ASSUME opened' = opened, op.cb # "release" PROVE OpenedRight'
    BY <1>1, <1>4 DEF Inv, OpenedRight, InoOf
  <1>5. ASSUME opened' = <<>> PROVE OpenedRight'
    BY <1>5 DEF OpenedRight
  <1>6. ASSUME expect' = expect PROVE expect' \in [Ino -> Seq(Byte \cup {Unsure})]
    BY <1>6 DEF Inv, Typed, ClientType
  <1> QED BY <1>2, <1>3, <1>4, <1>5, <1>6

\* The answer to a getattr.
LEMMA GotStatInv == ASSUME Inv, GotStat PROVE Inv'
  <1>0. /\ Answered("getattr") /\ UNCHANGED <<pathtofh, chunks, opened, expect>>
        /\ (todo # <<>> /\ todo' = Tail(todo) /\ UNCHANGED op) \/ Return
    BY DEF GotStat
  <1>1. /\ call.phase = "arrived" /\ call.req.command = <<"getattr">> /\ Says(call.req)
        /\ call' \in CallType /\ call'.phase = "none" /\ op.pc # "idle" /\ ~ Renamed
        /\ UNCHANGED <<load, serverVars, diskVars, drawn, asks, lost>>
    BY <1>0, AnsweredFacts
  <1>2. op.cb # "release"
    <2>1. Callback = "getattr"
      BY <1>1 DEF Says
    <2>2. todo # <<>> => op.cb \in NameWalks
      BY DEF Inv, Shape
    <2> QED BY <2>1, <2>2 DEF Callback, NameWalks
  <1>3. /\ pathtofh' \in PathMap /\ pathtofh'[Root] = 0 /\ \A p \in Path : Agrees(p)'
        /\ opened' \in {<<>>} \cup {<<f>> : f \in OpenFiles} /\ OpenedRight'
        /\ expect' \in [Ino -> Seq(Byte \cup {Unsure})]
    BY <1>0, <1>1, <1>2, KeptParts
  <1>4. CASE Return
    BY <1>0, <1>1, <1>3, <1>4, ReturnInv
  <1>5. CASE todo # <<>> /\ todo' = Tail(todo) /\ UNCHANGED op
    <2>1. op' \in Ops /\ todo' \in Seq(Name) /\ chunks' \in Seq(Chunks)
      BY <1>0, <1>5 DEF Inv, Typed, ClientType
    <2>2. Shape'
      BY <1>0, <1>1, <1>5 DEF Inv, Shape
    <2>3. ClientKept'
      BY <1>3, <2>1 DEF ClientKept
    <2>4. load.version = 2 => \A i \in DOMAIN chunks' : Known(table, chunks'[i].fh)
      BY <1>0 DEF Inv, Agreement
    <2> QED BY <1>1, <1>3, <2>2, <2>3, <2>4, ClientStep
  <1> QED BY <1>0, <1>4, <1>5

\* The answers to the callbacks that keep nothing at the client.
LEMMA PassedInv == ASSUME Inv, Passed PROVE Inv'
  <1>0. PICK c \in {"mkdir", "rmdir", "unlink", "readdir", "read", "fsync", "flush"} : Answered(c)
    BY DEF Passed
  <1>1. /\ call.phase = "arrived" /\ call.req.command = <<c>> /\ Says(call.req)
        /\ call' \in CallType /\ call'.phase = "none" /\ op.pc # "idle" /\ ~ Renamed
        /\ UNCHANGED <<load, serverVars, diskVars, drawn, asks, lost>>
    BY <1>0, AnsweredFacts
  <1>2. op.cb = c
    BY <1>0, <1>1 DEF Says, Callbacks
  <1>3. /\ pathtofh' = IF op.cb = "rmdir" /\ Rep.success = 0
                   THEN [pathtofh EXCEPT ![op.path] = NoFh] ELSE pathtofh
        /\ Return /\ UNCHANGED <<chunks, opened, expect>>
    BY DEF Passed
  <1>4. /\ opened' \in {<<>>} \cup {<<f>> : f \in OpenFiles} /\ OpenedRight'
        /\ expect' \in [Ino -> Seq(Byte \cup {Unsure})]
    BY <1>0, <1>1, <1>2, <1>3, KeptParts
  <1>5. CASE pathtofh' = pathtofh
    <2>1. pathtofh' \in PathMap /\ pathtofh'[Root] = 0 /\ \A p \in Path : Agrees(p)'
      BY <1>1, <1>5, KeptParts
    <2> QED BY <1>1, <1>3, <1>4, <2>1, ReturnInv
  <1>6. CASE op.cb = "rmdir" /\ pathtofh' = [pathtofh EXCEPT ![op.path] = NoFh]
    <2>1. op.path \in Name /\ op.path \in Path /\ op.path # Root
      BY <1>6, TextsOf DEF Inv, Shape, NameWalks
    <2>2. pathtofh \in PathMap /\ pathtofh[Root] = 0 /\ table' = table
      BY <1>1 DEF Inv, Typed, ClientType, Agreement, serverVars
    <2>3. pathtofh' \in PathMap /\ pathtofh'[Root] = 0
      BY <1>6, <2>1, <2>2 DEF PathMap
    <2>4. \A p \in Path : Agrees(p)'
      BY <1>1, <1>6, <2>1, <2>2, AllAgree DEF Agrees, PathMap
    <2> QED BY <1>1, <1>3, <1>4, <2>3, <2>4, ReturnInv
  <1> QED BY <1>3, <1>5, <1>6

\* The answer to a rename.
LEMMA MovedInv == ASSUME Inv, Moved PROVE Inv'
  <1>0. Answered("rename") /\ Return /\ UNCHANGED <<chunks, expect>>
    BY DEF Moved
  <1>1. /\ call.phase = "arrived" /\ call.req.command = <<"rename">> /\ Says(call.req)
        /\ call' \in CallType /\ call'.phase = "none" /\ op.pc # "idle"
        /\ UNCHANGED <<load, serverVars, diskVars, drawn, asks, lost>>
    BY <1>0, AnsweredFacts
  <1>2. /\ op.cb = "rename" /\ pathtofh[op.path] # NoFh
    BY <1>1 DEF Says, Callbacks
  <1>3. op.path \in Name /\ op.to \in Name /\ op.to # op.path /\ op.path \in Path /\ op.to \in Path
        /\ op.path # Root /\ op.to # Root
    BY <1>2, TextsOf DEF Inv, Shape, NameWalks
  <1>4. /\ pathtofh \in PathMap /\ pathtofh[Root] = 0 /\ table' = table /\ fds' = fds
        /\ opened \in {<<>>} \cup {<<f>> : f \in OpenFiles} /\ expect' \in [Ino -> Seq(Byte \cup {Unsure})]
    BY <1>0, <1>1 DEF Inv, Typed, ClientType, Agreement, serverVars, diskVars
  <1>5. CASE Rep.success # 0
    <2>1. UNCHANGED <<pathtofh, opened>>
      BY <1>5 DEF Moved
    <2>2. ~ Renamed
      BY <1>5 DEF Renamed, Rep
    <2>3. /\ pathtofh' \in PathMap /\ pathtofh'[Root] = 0 /\ \A p \in Path : Agrees(p)'
          /\ opened' \in {<<>>} \cup {<<f>> : f \in OpenFiles} /\ OpenedRight'
      BY <1>1, <1>2, <2>1, <2>2, KeptParts
    <2> QED BY <1>0, <1>1, <1>4, <2>3, ReturnInv
  <1>6. CASE Rep.success = 0
    <2>1. /\ pathtofh' = [pathtofh EXCEPT ![op.path] = NoFh,
                             ![op.to] = IF pathtofh[op.to] = NoFh THEN NoFh ELSE pathtofh[op.path]]
          /\ opened' = [i \in DOMAIN opened |->
                                IF opened[i].path = op.path
                                THEN [opened[i] EXCEPT !.path = op.to] ELSE opened[i]]
      <3>1. LET h == IF pathtofh[op.path] = NoFh THEN 0 ELSE pathtofh[op.path]
            IN  /\ pathtofh' = [pathtofh EXCEPT ![op.path] = NoFh, ![op.to] = IF @ = NoFh THEN NoFh ELSE h]
                /\ opened' = [i \in DOMAIN opened |->
                                IF opened[i].path = op.path
                                THEN [opened[i] EXCEPT !.path = op.to] ELSE opened[i]]
        BY <1>6 DEF Moved
      <3>2. [pathtofh EXCEPT ![op.path] = NoFh][op.to] = pathtofh[op.to]
        BY <1>3, <1>4 DEF PathMap
      <3> QED BY <1>2, <3>1, <3>2
    <2>2. Renamed
      BY <1>1, <1>6 DEF Renamed, Rep
    <2>3. /\ \A p \in Path \ {op.path, op.to} : Agrees(p)
          /\ pathtofh[op.to] # NoFh => table.fhToPath[pathtofh[op.path]] = op.to
      BY <1>1, <2>2 DEF Inv, Agreement
    <2>4. pathtofh[op.path] \in Fh \cup {NoFh}
      BY <1>3, <1>4 DEF PathMap
    <2>5. pathtofh' \in PathMap /\ pathtofh'[Root] = 0
      <3> DEFINE x == IF pathtofh[op.to] = NoFh THEN NoFh ELSE pathtofh[op.path]
      <3>1. x \in Fh \cup {NoFh} /\ NoFh \in Fh \cup {NoFh}
        BY <2>4
      <3>2. pathtofh' = [pathtofh EXCEPT ![op.path] = NoFh, ![op.to] = x]
        BY <2>1
      <3> HIDE DEF x
      <3>3. [pathtofh EXCEPT ![op.path] = NoFh] \in PathMap
        BY <1>4, <3>1 DEF PathMap
      <3>4. pathtofh' \in PathMap
        BY <3>1, <3>2, <3>3 DEF PathMap
      <3>5. pathtofh'[Root] = 0
        BY <1>3, <1>4, <3>2, TextsOf DEF PathMap
      <3> QED BY <3>4, <3>5
    <2>6. \A p \in Path : Agrees(p)'
      <3> TAKE p \in Path
      <3>1. CASE p = op.path
        BY <1>3, <1>4, <2>1, <3>1 DEF Agrees, PathMap
      <3>2. CASE p = op.to
        BY <1>3, <1>4, <2>1, <2>3, <3>2 DEF Agrees, PathMap
      <3>3. CASE p # op.path /\ p # op.to
        <4>1. pathtofh'[p] = pathtofh[p] /\ Agrees(p)
          BY <1>4, <2>1, <2>3, <3>3 DEF PathMap
        <4> QED BY <1>4, <4>1 DEF Agrees
      <3> QED BY <3>1, <3>2, <3>3
    <2>7. opened' \in {<<>>} \cup {<<f>> : f \in OpenFiles} /\ OpenedRight'
      <3>1. CASE opened = <<>>
        <4>1. opened' = <<>>
          BY <2>1, <3>1
        <4> QED BY <4>1 DEF OpenedRight
      <3>2. CASE opened # <<>>
        <4>1. PICK f \in OpenFiles : opened = <<f>>
          BY <1>4, <3>2
        <4> DEFINE g == IF f.path = op.path THEN [f EXCEPT !.path = op.to] ELSE f
        <4>2. g \in OpenFiles /\ g.ino = f.ino /\ g.fh = f.fh
          BY <1>3 DEF OpenFiles
        <4>3. DOMAIN opened = 1 .. 1 /\ opened[1] = f
          BY <4>1
        <4>4. opened' = [i \in 1 .. 1 |-> g]
          BY <2>1, <4>3
        <4> HIDE DEF g
        <4>5. opened' = <<g>>
          BY <4>4
        <4>6. f.ino # 0 /\ InoOf(f.fh) = f.ino
          BY <1>2, <4>3 DEF Inv, OpenedRight
        <4>7. OpenedRight'
          BY <1>4, <4>2, <4>4, <4>6 DEF OpenedRight, InoOf
        <4> QED BY <4>2, <4>5, <4>7
      <3> QED BY <3>1, <3>2
    <2> QED BY <1>0, <1>1, <1>4, <2>5, <2>6, <2>7, ReturnInv
  <1> QED BY <1>5, <1>6

\* The answer to an open or a create.
LEMMA GotFileInv == ASSUME Inv, GotFile PROVE Inv'
  <1>0. PICK c \in {"open", "create"} : Answered(c)
    BY DEF GotFile
  <1>1. /\ call.phase = "arrived" /\ call.req.command = <<c>> /\ Says(call.req)
        /\ call' \in CallType /\ call'.phase = "none" /\ op.pc # "idle" /\ ~ Renamed
        /\ UNCHANGED <<load, serverVars, diskVars, drawn, asks, lost>>
    BY <1>0, AnsweredFacts
  <1>2. op.cb = c /\ opened = <<>> /\ op.path \in Name
    BY <1>0, <1>1 DEF Says, Callbacks, Inv, Shape, NameWalks
  <1>3. /\ opened' = IF Rep.success # 0 THEN opened
                     ELSE <<[path |-> op.path, fh |-> fi(Rep).fh, flags |-> fi(Rep).flags,
                             ino |-> entry[op.path]]>>
        /\ Return /\ UNCHANGED <<pathtofh, chunks, expect>>
    BY DEF GotFile, readFileInfo
  <1>4. pathtofh' \in PathMap /\ pathtofh'[Root] = 0 /\ \A p \in Path : Agrees(p)'
    BY <1>1, <1>3, KeptParts
  <1>5. expect' \in [Ino -> Seq(Byte \cup {Unsure})]
    BY <1>3 DEF Inv, Typed, ClientType
  <1>6. opened' \in {<<>>} \cup {<<f>> : f \in OpenFiles} /\ OpenedRight'
    <2>1. CASE Rep.success # 0
      BY <1>2, <1>3, <2>1 DEF OpenedRight
    <2>2. CASE Rep.success = 0
      <3> DEFINE g == [path |-> op.path, fh |-> fi(Rep).fh, flags |-> fi(Rep).flags,
                       ino |-> entry[op.path]]
      <3>1. /\ fi(Rep).fh \in Fd /\ fi(Rep).flags = NewFlags
            /\ entry[op.path] \in Ino /\ fds[fi(Rep).fh] = entry[op.path]
        BY <1>0, <1>1, <2>2 DEF Inv, Answers
      <3>2. g \in OpenFiles /\ g.fh \in Fd /\ g.ino = entry[op.path] /\ fds[g.fh] = g.ino
        BY <1>2, <3>1 DEF OpenFiles
      <3> HIDE DEF g
      <3>3. opened' = <<g>>
        BY <1>3, <2>2 DEF g
      <3>4. g.ino \in Ino /\ g.ino # 0
        BY <3>1, <3>2 DEF Ino
      <3>5. fds' = fds
        BY <1>1 DEF diskVars
      <3>6. OpenedRight'
        <4>1. DOMAIN opened' = 1 .. 1 /\ opened'[1] = g
          BY <3>3
        <4> QED BY <3>2, <3>4, <3>5, <4>1 DEF OpenedRight, InoOf
      <3> QED BY <3>2, <3>3, <3>6
    <2> QED BY <2>1, <2>2
  <1>7. chunks' = chunks /\ Return
    BY <1>3
  <1> QED BY <1>1, <1>4, <1>5, <1>6, <1>7, ReturnInv

\* The answer to a write that was sent for the first time.
LEMMA GotWrittenInv == ASSUME Inv, GotWritten PROVE Inv'
  <1>0. /\ Answered("write") /\ op.pc = "send" /\ Return /\ UNCHANGED <<pathtofh, chunks, opened>>
        /\ expect' = IF Rep.status # 0 THEN expect
                     ELSE [expect EXCEPT ![InoOf(opened[1].fh)] = Promise(@, op.offset, op.buf)]
    BY DEF GotWritten
  <1>1. /\ call.phase = "arrived" /\ call' \in CallType /\ call'.phase = "none" /\ ~ Renamed
        /\ UNCHANGED <<load, serverVars, diskVars, drawn, asks, lost>>
    BY <1>0, AnsweredFacts
  <1>2. op.cb = "write" /\ op.buf \in Buffer /\ op.offset \in Int
    <2>1. op.cb = "write" /\ op.buf \in Buffer
      BY <1>0 DEF Inv, Shape
    <2>2. Typed /\ Shape /\ pathtofh[Root] = 0
      BY DEF Inv, Agreement
    <2> QED BY <2>1, <2>2, Arguments
  <1>3. op.buf \in Seq(Byte)
    BY <1>2, CallsAssumption
  <1>4. expect \in [Ino -> Seq(Byte \cup {Unsure})]
    BY DEF Inv, Typed, ClientType
  <1>5. expect' \in [Ino -> Seq(Byte \cup {Unsure})]
    <2> DEFINE x == InoOf(opened[1].fh)
               T == Seq(Byte \cup {Unsure})
    <2>1. x \in Ino => Promise(expect[x], op.offset, op.buf) \in T
      BY <1>2, <1>3, <1>4, PromiseType
    <2>2. expect' = expect \/ expect' = [expect EXCEPT ![x] = Promise(expect[x], op.offset, op.buf)]
      BY <1>0
    <2> HIDE DEF x, T
    <2>3. expect \in [Ino -> T]
      BY <1>4 DEF T
    <2>4. expect' \in [Ino -> T]
      BY <2>1, <2>2, <2>3
    <2> QED BY <2>4 DEF T
  <1>6. /\ pathtofh' \in PathMap /\ pathtofh'[Root] = 0 /\ \A p \in Path : Agrees(p)'
        /\ opened' \in {<<>>} \cup {<<f>> : f \in OpenFiles} /\ OpenedRight'
    BY <1>0, <1>1, <1>2, KeptParts
  <1> QED BY <1>0, <1>1, <1>5, <1>6, ReturnInv

\* The commit has been done.
LEMMA GotCommittedInv == ASSUME Inv, GotCommitted PROVE Inv'
  <1>0. /\ Answered("commit") /\ op' = [op EXCEPT !.pc = "close"]
        /\ chunks' = Picked(chunks, {i \in DOMAIN chunks : chunks[i].fh # op.fh})
        /\ UNCHANGED <<pathtofh, opened, todo, expect>>
    BY DEF GotCommitted
  <1>1. /\ call.phase = "arrived" /\ call.req.command = <<"commit">> /\ Says(call.req)
        /\ call' \in CallType /\ call'.phase = "none" /\ ~ Renamed
        /\ UNCHANGED <<load, serverVars, diskVars, drawn, asks, lost>>
    BY <1>0, AnsweredFacts
  <1>2. op.pc = "commit" /\ op.cb = "release" /\ op \in Ops
    BY <1>1 DEF Says, Inv, Shape, Typed, ClientType
  <1>3. op' \in Ops /\ op'.cb = op.cb /\ op'.path = op.path /\ op'.to = op.to /\ op'.buf = op.buf
        /\ op'.pc = "close"
    BY <1>0, <1>2 DEF Ops
  <1> DEFINE S == {k \in Chunks : /\ load.version = 2 => Known(table, k.fh)
                                  /\ "write" \in load.use}
  <1>4. chunks' \in Seq(S)
    <2>1. chunks \in Seq(Chunks) /\ (load.version = 2 => \A i \in DOMAIN chunks : Known(table, chunks[i].fh))
          /\ (chunks # <<>> => "write" \in load.use)
      BY DEF Inv, Typed, ClientType, Agreement, Shape
    <2>2. \A i \in DOMAIN chunks : chunks[i] \in S
      <3> TAKE i \in DOMAIN chunks
      <3>1. chunks # <<>> /\ chunks[i] \in Chunks
        BY <2>1
      <3> QED BY <2>1, <3>1
    <2> HIDE DEF S
    <2>3. chunks \in Seq(S)
      BY <2>1, <2>2
    <2> QED BY <1>0, <2>3, PickedType
  <1>5. \A i \in DOMAIN chunks' : chunks'[i] \in S
    <2> HIDE DEF S
    <2> QED BY <1>4
  <1>6. chunks' \in Seq(Chunks) /\ (chunks' # <<>> => "write" \in load.use)
    <2>1. chunks' \in Seq(Chunks)
      <3>1. S \subseteq Chunks
        OBVIOUS
      <3> HIDE DEF S
      <3> QED BY <1>4, <3>1
    <2>2. chunks' # <<>> => 1 \in DOMAIN chunks'
      BY <2>1
    <2> QED BY <1>5, <2>1, <2>2
  <1>7. load.version = 2 => \A i \in DOMAIN chunks' : Known(table, chunks'[i].fh)
    BY <1>5
  <1> HIDE DEF S
  <1>8. /\ pathtofh' \in PathMap /\ pathtofh'[Root] = 0 /\ \A p \in Path : Agrees(p)'
        /\ opened' \in {<<>>} \cup {<<f>> : f \in OpenFiles}
        /\ expect' \in [Ino -> Seq(Byte \cup {Unsure})]
    BY <1>0, <1>1, KeptParts
  <1>9. OpenedRight'
    BY <1>2, <1>3 DEF OpenedRight
  <1>10. todo' \in Seq(Name)
    BY <1>0 DEF Inv, Typed, ClientType
  <1>11. ClientKept'
    BY <1>3, <1>6, <1>8, <1>10 DEF ClientKept
  <1>12. Shape'
    <2>1. op.cb \in load.use \cap Callbacks
      BY <1>2 DEF Inv, Shape
    <2> QED BY <1>0, <1>1, <1>2, <1>3, <1>6, <2>1 DEF Inv, Shape, NameWalks, FileOps
  <1> QED BY <1>1, <1>7, <1>8, <1>9, <1>11, <1>12, ClientStep

\* The file is closed, or its commit was refused.
LEMMA GotClosedInv == ASSUME Inv, GotRefused \/ GotReleased PROVE Inv'
  <1>0. PICK c \in {"commit", "release"} : Answered(c)
    BY DEF GotRefused, GotReleased
  <1>1. opened' = <<>> /\ Return /\ UNCHANGED <<pathtofh, chunks, expect>>
    BY DEF GotRefused, GotReleased
  <1>2. /\ call.phase = "arrived" /\ call' \in CallType /\ call'.phase = "none" /\ ~ Renamed
        /\ UNCHANGED <<load, serverVars, diskVars, drawn, asks, lost>>
    BY <1>0, AnsweredFacts
  <1>3. /\ pathtofh' \in PathMap /\ pathtofh'[Root] = 0 /\ \A p \in Path : Agrees(p)'
        /\ opened' \in {<<>>} \cup {<<f>> : f \in OpenFiles} /\ OpenedRight'
        /\ expect' \in [Ino -> Seq(Byte \cup {Unsure})]
    BY <1>1, <1>2, KeptParts
  <1> QED BY <1>1, <1>2, <1>3, ReturnInv

\* The RPC has failed.
LEMMA RetryInv == ASSUME Inv, Retry PROVE Inv'
  <1>0. /\ call.phase = "failed" /\ call' = NoCall
        /\ pathtofh' = [p \in Path |-> IF p = Root THEN 0 ELSE NoFh]
        /\ op' = IF call.req.command = <<"release">> THEN [op EXCEPT !.pc = "begin"] ELSE op
        /\ UNCHANGED <<load, serverVars, diskVars, chunks, opened, todo, drawn, asks, lost, expect>>
    BY DEF Retry
  <1>1. Says(call.req) /\ op \in Ops /\ TableInv(table)
    BY <1>0 DEF Inv, Saying, Typed, ClientType
  <1>2. op.pc # "idle" /\ (call.req.command = <<"release">> => op.cb = "release")
    BY <1>1 DEF Says, Callbacks
  <1>3. call' \in CallType /\ call'.phase = "none" /\ table' = table
    BY <1>0, NoCallType DEF serverVars
  <1>4. 0 \in Fh /\ Root \in Path
    BY MaxFhAssumption, PathAssumption DEF Fh
  <1>5. pathtofh' \in PathMap /\ pathtofh'[Root] = 0
    BY <1>0, <1>4 DEF PathMap
  <1>6. \A p \in Path : Agrees(p)'
    BY <1>0, <1>1, <1>3 DEF Agrees, TableInv
  <1>7. /\ op' \in Ops /\ op'.cb = op.cb /\ op'.path = op.path /\ op'.to = op.to /\ op'.buf = op.buf
        /\ op'.at = op.at /\ (op'.pc = op.pc \/ (op.cb = "release" /\ op'.pc = "begin"))
    <2>1. CASE op' = op
      BY <1>1, <2>1
    <2>2. CASE op' = [op EXCEPT !.pc = "begin"] /\ op.cb = "release"
      BY <1>1, <2>2 DEF Ops
    <2> QED BY <1>0, <1>2, <2>1, <2>2
  <1>8. ClientKept'
    BY <1>0, <1>5, <1>7 DEF Inv, Typed, ClientType, ClientKept
  <1>9. Shape'
    <2>1. op.cb \in load.use \cap Callbacks
      BY <1>2 DEF Inv, Shape
    <2> QED BY <1>0, <1>2, <1>3, <1>7, <2>1 DEF Inv, Shape, NameWalks, FileOps
  <1>10. OpenedRight'
    BY <1>0, <1>7 DEF Inv, OpenedRight, InoOf, diskVars
  <1>11. load.version = 2 => \A i \in DOMAIN chunks' : Known(table, chunks'[i].fh)
    BY <1>0 DEF Inv, Agreement
  <1> QED BY <1>0, <1>3, <1>5, <1>6, <1>8, <1>9, <1>10, <1>11, ClientStep

\* Whatever a callback does keeps the invariant.
LEMMA ProceedInv == ASSUME Inv, Proceed PROVE Inv'
BY SendsInv, KeepChunkInv, EnterCommitInv, StepInv, GotHandleInv, GotStatInv, PassedInv, MovedInv,
   GotFileInv, GotWrittenInv, GotResentInv, GotCommittedInv, GotMissingInv, GotClosedInv, RetryInv
   DEF Proceed

-----------------------------------------------------------------------------
(* Messages arrive, or the RPC fails.                                       *)

\* Two texts after one another are UTF-8 if both are.
LEMMA Utf8Concat ==
    ASSUME NEW C, NEW a \in Seq(C), NEW b \in Seq(C)
    PROVE  IsUtf8(a \o b) <=> IsUtf8(a) /\ IsUtf8(b)
  <1>1. /\ DOMAIN a = 1 .. Len(a) /\ DOMAIN b = 1 .. Len(b) /\ Len(a) \in Nat /\ Len(b) \in Nat
        /\ DOMAIN (a \o b) = 1 .. Len(a) + Len(b)
        /\ \A i \in 1 .. Len(a) : (a \o b)[i] = a[i]
        /\ \A i \in 1 .. Len(b) : (a \o b)[Len(a) + i] = b[i]
    OBVIOUS
  <1>2. ASSUME IsUtf8(a \o b) PROVE IsUtf8(a) /\ IsUtf8(b)
    <2>1. \A i \in 1 .. Len(a) : i \in 1 .. Len(a) + Len(b)
      BY <1>1
    <2>2. \A i \in 1 .. Len(b) : Len(a) + i \in 1 .. Len(a) + Len(b)
      BY <1>1
    <2>3. IsUtf8(a)
      BY <1>1, <1>2, <2>1 DEF IsUtf8
    <2>4. IsUtf8(b)
      BY <1>1, <1>2, <2>2 DEF IsUtf8
    <2> QED BY <2>3, <2>4
  <1>3. ASSUME IsUtf8(a), IsUtf8(b) PROVE IsUtf8(a \o b)
    <2> DEFINE c == a \o b
    <2>1. ASSUME NEW i \in DOMAIN c PROVE c[i] \notin Garbled
      <3>1. CASE i \in 1 .. Len(a)
        BY <1>1, <1>3, <3>1 DEF IsUtf8
      <3>2. CASE i \notin 1 .. Len(a)
        <4>1. i \in 1 .. Len(a) + Len(b)
          BY <1>1
        <4>2. PICK k \in 1 .. Len(b) : i = Len(a) + k
          <5>1. i - Len(a) \in 1 .. Len(b) /\ i = Len(a) + (i - Len(a))
            BY <1>1, <3>2, <4>1
          <5> QED BY <5>1
        <4>3. c[i] = b[k]
          BY <1>1, <4>2
        <4> QED BY <1>1, <1>3, <4>3 DEF IsUtf8
      <3> QED BY <3>1, <3>2
    <2> QED BY <2>1 DEF IsUtf8
  <1> QED BY <1>2, <1>3

\* A request or response that can go on the wire whole.
Goes(m) == IsUtf8(m.name \o m.path) /\ WireSize(request_Serialize(m)) <= MaxMessage
Returns(m) ==
    /\ \A i \in DOMAIN m.objects : IsUtf8(m.objects[i].name)
    /\ WireSize(response_Serialize(m)) <= MaxMessage

\* What is received of a request and of a response.
LEMMA Received ==
    ASSUME Typed
    PROVE  /\ Says(call.req) => ReceivedRequest(call.req) = IF Goes(call.req) THEN {call.req} ELSE {}
           /\ ReceivedResponse(call.rep) = IF Returns(call.rep) THEN {call.rep} ELSE {}
  <1>1. call.req \in Requests(Chars) /\ call.rep \in Responses(Chars)
    BY DEF Typed, CallType
  <1>2. ASSUME Says(call.req)
        PROVE  ReceivedRequest(call.req) = IF Goes(call.req) THEN {call.req} ELSE {}
    <2> DEFINE m == call.req
    <2>1. m.name \in Seq(Chars) /\ m.path \in Seq(Chars)
      BY <1>1, Positions DEF RequestFields
    <2>2. IsUtf8(m.command)
      <3>1. PICK c \in Callbacks \cup {"lookup", "commit"} : m.command = <<c>>
        BY <1>2 DEF Says
      <3>2. c \notin Garbled
        BY FitsAssumption
      <3>3. DOMAIN <<c>> = 1 .. 1 /\ <<c>>[1] = c
        OBVIOUS
      <3>4. \A i \in 1 .. 1 : i = 1
        OBVIOUS
      <3>5. IsUtf8(<<c>>)
        BY <3>2, <3>3, <3>4 DEF IsUtf8
      <3> QED BY <3>1, <3>5
    <2>3. ReceivedRequest(m) =
            IF /\ IsUtf8(m.name) /\ IsUtf8(m.path) /\ IsUtf8(m.command)
               /\ WireSize(request_Serialize(m)) <= MaxMessage
            THEN {m} ELSE {}
      BY <1>1, MessageArrives
    <2>4. IsUtf8(m.name \o m.path) <=> IsUtf8(m.name) /\ IsUtf8(m.path)
      BY <2>1, Utf8Concat
    <2> HIDE DEF m
    <2>5. ReceivedRequest(m) = IF Goes(m) THEN {m} ELSE {}
      BY <2>2, <2>3, <2>4 DEF Goes
    <2> QED BY <2>5 DEF m
  <1>3. ReceivedResponse(call.rep) = IF Returns(call.rep) THEN {call.rep} ELSE {}
    <2> DEFINE m == call.rep
    <2>1. ReceivedResponse(m) =
            IF /\ \A j \in DOMAIN m.objects : IsUtf8(m.objects[j].name)
               /\ WireSize(response_Serialize(m)) <= MaxMessage
            THEN {m} ELSE {}
      BY <1>1, MessageArrives
    <2> HIDE DEF m
    <2>2. ReceivedResponse(m) = IF Returns(m) THEN {m} ELSE {}
      BY <2>1 DEF Returns
    <2> QED BY <2>2 DEF m
  <1> QED BY <1>2, <1>3

\* How a call goes on when its message is decoded.
Forward == call' = [call EXCEPT !.phase = "received"]
Back == call' = [call EXCEPT !.phase = "arrived"]

\* A request arrives as it was sent or not at all, and so does its answer.
LEMMA DecodeFacts ==
    ASSUME Inv, Decode
    PROVE  /\ call.phase \in {"sent", "replied"} /\ Says(call.req)
           /\ call.phase = "sent" => IF Goes(call.req) THEN Forward ELSE Throw
           /\ call.phase # "sent" => IF Returns(call.rep) THEN Back ELSE Throw
           /\ UNCHANGED <<load, serverVars, diskVars, clientVars, lost, expect>>
  <1>1. UNCHANGED <<load, serverVars, diskVars, clientVars, lost, expect>>
    BY DEF Decode
  <1>2. call.phase \in {"sent", "replied"}
    BY DEF Decode
  <1>3. Says(call.req) /\ Typed
    BY <1>2 DEF Inv, Saying
  <1> DEFINE X == ReceivedRequest(call.req)
             Y == ReceivedResponse(call.rep)
  <1>4. /\ X = IF Goes(call.req) THEN {call.req} ELSE {}
        /\ Y = IF Returns(call.rep) THEN {call.rep} ELSE {}
    BY <1>3, Received
  <1>5. call.phase = "sent" =>
            \/ \E r \in X : call' = [call EXCEPT !.phase = "received", !.req = r]
            \/ X = {} /\ Throw
    BY DEF Decode
  <1>6. call.phase # "sent" =>
            \/ \E m \in Y : call' = [call EXCEPT !.phase = "arrived", !.rep = m]
            \/ Y = {} /\ Throw
    BY DEF Decode
  <1> HIDE DEF X, Y
  <1>7. call = [phase |-> call.phase, req |-> call.req, rep |-> call.rep]
    BY <1>3 DEF Typed, CallType
  <1>8. [call EXCEPT !.phase = "received", !.req = call.req] = [call EXCEPT !.phase = "received"]
    BY <1>7
  <1>9. [call EXCEPT !.phase = "arrived", !.rep = call.rep] = [call EXCEPT !.phase = "arrived"]
    BY <1>7
  <1>10. call.phase = "sent" => IF Goes(call.req) THEN Forward ELSE Throw
    <2>1. CASE Goes(call.req)
      <3>1. X = {call.req}
        BY <1>4, <2>1
      <3> QED BY <1>5, <1>8, <2>1, <3>1 DEF Forward
    <2>2. CASE ~ Goes(call.req)
      <3>1. X = {}
        BY <1>4, <2>2
      <3> QED BY <1>5, <2>2, <3>1
    <2> QED BY <2>1, <2>2
  <1>11. call.phase # "sent" => IF Returns(call.rep) THEN Back ELSE Throw
    <2>1. CASE Returns(call.rep)
      <3>1. Y = {call.rep}
        BY <1>4, <2>1
      <3> QED BY <1>6, <1>9, <2>1, <3>1 DEF Back
    <2>2. CASE ~ Returns(call.rep)
      <3>1. Y = {}
        BY <1>4, <2>2
      <3> QED BY <1>6, <2>2, <3>1
    <2> QED BY <2>1, <2>2
  <1> QED BY <1>1, <1>2, <1>3, <1>10, <1>11

\* An RPC that fails keeps the invariant.
LEMMA ThrowInv ==
    ASSUME Inv, call.phase # "none", Throw, lost' \in Nat,
           UNCHANGED <<load, serverVars, diskVars, clientVars, expect>>
    PROVE  Inv'
  <1> USE DEF serverVars, diskVars, clientVars
  <1>1. response_Empty \in Responses(Chars)
    BY EmptyMessages
  <1>2. call' \in CallType /\ call'.phase = "failed" /\ call'.req = call.req
    BY <1>1 DEF Throw, Ok, CallType, Phases, Inv, Typed
  <1>3. Typed'
    BY <1>2 DEF Inv, Typed, ServerType, ClientType
  <1>4. Shape'
    BY <1>2 DEF Inv, Shape
  <1>5. Saying'
    BY <1>2 DEF Inv, Saying, Says, Goal, Subject, Callback, Handle
  <1>6. TableInv(table)'
    BY DEF Inv, TableInv
  <1>7. Agreement'
    BY <1>2 DEF Inv, Agreement, Known
  <1>8. Answers'
    BY <1>2 DEF Answers
  <1>9. OpenedRight'
    BY DEF Inv, OpenedRight, InoOf
  <1> QED BY <1>3, <1>4, <1>5, <1>6, <1>7, <1>8, <1>9 DEF Inv

\* Decoding keeps the invariant.
LEMMA DecodeInv == ASSUME Inv, Decode PROVE Inv'
  <1> USE DEF serverVars, diskVars, clientVars
  <1>0. /\ call.phase \in {"sent", "replied"} /\ Says(call.req)
        /\ UNCHANGED <<load, serverVars, diskVars, clientVars, lost, expect>>
        /\ \/ call.phase = "sent" /\ Forward
           \/ call.phase = "replied" /\ Back
           \/ Throw
    BY DecodeFacts
  <1>1. CASE Throw
    <2>1. lost' \in Nat
      BY <1>0 DEF Inv, Typed, ClientType
    <2>2. call.phase # "none"
      BY <1>0
    <2>3. UNCHANGED <<load, serverVars, diskVars, clientVars, expect>>
      BY <1>0
    <2> QED BY <1>1, <2>1, <2>2, <2>3, ThrowInv
  <1>2. CASE (call.phase = "sent" /\ Forward) \/ (call.phase = "replied" /\ Back)
    <2>1. call' \in CallType /\ call'.req = call.req /\ call'.rep = call.rep
          /\ \/ call.phase = "sent" /\ call'.phase = "received"
             \/ call.phase = "replied" /\ call'.phase = "arrived"
      BY <1>2 DEF Forward, Back, CallType, Phases, Inv, Typed
    <2>2. Typed'
      BY <1>0, <2>1 DEF Inv, Typed, ServerType, ClientType
    <2>3. Shape'
      BY <1>0, <2>1 DEF Inv, Shape
    <2>4. Saying'
      BY <1>0, <2>1 DEF Inv, Saying, Says, Goal, Subject, Callback, Handle
    <2>5. TableInv(table)'
      BY <1>0 DEF Inv, TableInv
    <2>6. Agreement'
      BY <1>0, <2>1 DEF Inv, Agreement, Renamed, Agrees, Known
    <2>7. Answers'
      <3>1. CASE call'.phase = "received"
        BY <3>1 DEF Answers
      <3>2. CASE call.phase = "replied"
        <4>1. Goal' = Goal /\ op' = op /\ entry' = entry /\ fds' = fds /\ node' = node /\ table' = table
              /\ Rep' = Rep
          BY <1>0, <2>1 DEF Goal, Callback, Subject, Rep
        <4>2. Stated' = Stated /\ Listing' = Listing
          BY <4>1 DEF Stated, Listing
        <4>3. Entries' = Entries /\ \A p : StatOf(p)' = StatOf(p) /\ KindAt(p)' = KindAt(p)
          BY <4>1 DEF Entries, StatOf, KindAt
        <4>4. KindAt(Goal)' = KindAt(Goal) /\ StatOf(Goal)' = StatOf(Goal)
          BY <4>1 DEF StatOf, KindAt
        <4>5. [i \in DOMAIN Entries |-> <<Entries[i], StatOf(Entries[i]).st_ino>>]' =
              [i \in DOMAIN Entries |-> <<Entries[i], StatOf(Entries[i]).st_ino>>]
          BY <4>1 DEF Entries, StatOf
        <4>6. Answers
          BY DEF Inv
        <4> QED BY <2>1, <3>2, <4>1, <4>2, <4>4, <4>5, <4>6 DEF Answers
      <3> QED BY <2>1, <3>1, <3>2
    <2>8. OpenedRight'
      BY <1>0 DEF Inv, OpenedRight, InoOf
    <2> QED BY <2>2, <2>3, <2>4, <2>5, <2>6, <2>7, <2>8 DEF Inv
  <1> QED BY <1>0, <1>1, <1>2

\* A lost RPC keeps the invariant.
LEMMA LoseInv == ASSUME Inv, Lose PROVE Inv'
  <1>1. lost \in Nat
    BY DEF Inv, Typed, ClientType
  <1>2. /\ call.phase # "none" /\ Throw /\ lost' = lost + 1
        /\ UNCHANGED <<load, serverVars, diskVars, clientVars, expect>>
    BY DEF Lose
  <1> QED BY <1>1, <1>2, ThrowInv

\* What the step of a Decode says.
LEMMA RoundTripStep ==
    ASSUME Inv, Decode
    PROVE  IF call.phase = "sent"
           THEN IF /\ IsUtf8(call.req.name \o call.req.path)
                   /\ WireSize(request_Serialize(call.req)) <= MaxMessage
                THEN call'.phase = "received" /\ call'.req = call.req ELSE call'.phase = "failed"
           ELSE IF /\ \A i \in DOMAIN call.rep.objects : IsUtf8(call.rep.objects[i].name)
                   /\ WireSize(response_Serialize(call.rep)) <= MaxMessage
                THEN call'.phase = "arrived" /\ call'.rep = call.rep ELSE call'.phase = "failed"
  <1>1. call \in CallType
    BY DEF Inv, Typed
  <1>2. /\ Forward => call'.phase = "received" /\ call'.req = call.req
        /\ Back => call'.phase = "arrived" /\ call'.rep = call.rep
        /\ Throw => call'.phase = "failed"
    BY <1>1 DEF Forward, Back, Throw, CallType
  <1>3. /\ call.phase = "sent" => IF Goes(call.req) THEN Forward ELSE Throw
        /\ call.phase # "sent" => IF Returns(call.rep) THEN Back ELSE Throw
    BY DecodeFacts
  <1>4. CASE call.phase = "sent"
    BY <1>2, <1>3, <1>4 DEF Goes
  <1>5. CASE call.phase # "sent"
    BY <1>2, <1>3, <1>5 DEF Returns
  <1> QED BY <1>4, <1>5

-----------------------------------------------------------------------------
(* The table that a handler leaves.                                         *)

\* The server's table and files after a handler that only adds to the table.
Good(s) ==
    /\ TableInv(s.table) /\ s.log \in Log /\ s.thrown \in BOOLEAN
    /\ \A h \in Fh : Known(table, h) => s.table.fhToPath[h] = table.fhToPath[h]

\* A handle that is known to the server is looked up without reading its files.
LEMMA LookKnown ==
    ASSUME Inv, NEW p \in Path, NEW h, table.fhToPath[h] = p
    PROVE  Look(h) = [table |-> table, log |-> log, thrown |-> FALSE] /\ PathAt(h) = p /\ Good(Look(h))
  <1>1. Known(table, h)
    BY PathAssumption DEF Known
  <1>2. Look(h) = [table |-> table, log |-> log, thrown |-> FALSE] /\ PathAt(h) = p
    BY <1>1 DEF Look, PathAt, PathOf, Found
  <1>3. TableInv(table) /\ log \in Log
    BY DEF Inv, Typed, ServerType
  <1> QED BY <1>2, <1>3 DEF Good

\* So is the root.
LEMMA LookRoot ==
    ASSUME Inv
    PROVE  /\ Look(0) = [table |-> table, log |-> log, thrown |-> FALSE] /\ PathAt(0) = Root
           /\ Good(Look(0))
  <1>1. Root \in Path /\ table.fhToPath[0] = Root
    BY PathAssumption DEF Inv, TableInv
  <1> QED BY <1>1, LookKnown

\* A path the table does not have takes the next number.
LEMMA AddedTable ==
    ASSUME NEW t, TableInv(t), NEW p \in Path, ~ Mapped(t, p), AddLookup(t, p).fhcount - 1 \in Fh
    PROVE  /\ TableInv(AddLookup(t, p)) /\ Mapped(AddLookup(t, p), p)
           /\ AddLookup(t, p).pathToFh[p] \in Fh
           /\ AddLookup(t, p).pathToFh = [t.pathToFh EXCEPT ![p] = t.fhcount]
           /\ AddLookup(t, p).fhToPath = [t.fhToPath EXCEPT ![t.fhcount] = p]
           /\ \A h \in Fh : Known(t, h) => h # t.fhcount
  <1> DEFINE u == AddLookup(t, p)
  <1>1. u = [pathToFh |-> [t.pathToFh EXCEPT ![p] = t.fhcount],
             fhToPath |-> [t.fhToPath EXCEPT ![t.fhcount] = p], fhcount  |-> t.fhcount + 1]
    BY DEF AddLookup
  <1>2. /\ u.pathToFh = [t.pathToFh EXCEPT ![p] = t.fhcount] /\ u.fhcount = t.fhcount + 1
        /\ u.fhToPath = [t.fhToPath EXCEPT ![t.fhcount] = p]
    BY <1>1
  <1>3. t \in Table /\ t.fhcount \in Nat /\ t.pathToFh \in PathMap /\ t.fhToPath \in FhMap
    BY DEF TableInv, Table
  <1>4. t.fhcount \in Fh /\ t.fhcount # 0
    <2>1. (t.fhcount + 1) - 1 = t.fhcount
      BY <1>3
    <2>2. t.fhcount - 1 \in Fh
      BY DEF TableInv
    <2> QED BY <1>2, <1>3, <2>1, <2>2, MaxFhAssumption DEF Fh
  <1>5. u \in Table
    BY <1>4, AddLookupType DEF TableInv
  <1> HIDE DEF u
  <1>6. t.fhToPath[t.fhcount] = NoPath /\ \A h \in Fh : Known(t, h) => h # t.fhcount
    <2>1. t.fhToPath[t.fhcount] = NoPath
      BY <1>3, <1>4 DEF TableInv
    <2> QED BY <2>1 DEF Known
  <1>7. u.pathToFh[p] = t.fhcount /\ u.fhToPath[t.fhcount] = p
    BY <1>2, <1>3, <1>4 DEF PathMap, FhMap
  <1>8. u.pathToFh[p] \in Fh /\ Mapped(u, p)
    BY <1>4, <1>7 DEF Mapped, Fh, NoFh
  <1>9. TableInv(u)
    <2>1. u.fhcount - 1 \in Fh
      BY DEF u
    <2>2. p # Root
      BY MaxFhAssumption DEF TableInv, Mapped, NoFh
    <2>3. u.pathToFh[Root] = 0 /\ u.fhToPath[0] = Root
      <3>1. Root \in Path /\ 0 \in Fh
        BY PathAssumption, MaxFhAssumption DEF Fh
      <3> QED BY <1>2, <1>3, <1>4, <2>2, <3>1 DEF TableInv, PathMap, FhMap
    <2>4. ASSUME NEW q \in Path, u.pathToFh[q] # NoFh PROVE u.fhToPath[u.pathToFh[q]] = q
      <3>1. CASE q = p
        BY <1>7, <3>1
      <3>2. CASE q # p
        <4>1. u.pathToFh[q] = t.pathToFh[q]
          BY <1>2, <1>3, <3>2 DEF PathMap
        <4>2. t.pathToFh[q] \in Fh /\ t.fhToPath[t.pathToFh[q]] = q
          BY <1>3, <2>4, <4>1 DEF TableInv, PathMap
        <4>3. Known(t, t.pathToFh[q])
          BY <4>2, PathAssumption DEF Known
        <4>4. t.pathToFh[q] # t.fhcount
          BY <1>6, <4>2, <4>3
        <4> QED BY <1>2, <1>3, <4>1, <4>2, <4>4 DEF FhMap
      <3> QED BY <3>1, <3>2
    <2>5. ASSUME NEW h \in Fh, u.fhToPath[h] # NoPath PROVE u.pathToFh[u.fhToPath[h]] = h
      <3>1. CASE h = t.fhcount
        BY <1>7, <3>1
      <3>2. CASE h # t.fhcount
        <4>1. u.fhToPath[h] = t.fhToPath[h]
          BY <1>2, <1>3, <3>2 DEF FhMap
        <4>2. t.fhToPath[h] \in Path /\ t.pathToFh[t.fhToPath[h]] = h
          BY <1>3, <2>5, <4>1 DEF TableInv, FhMap
        <4>3. t.fhToPath[h] # p
          BY <4>2, MaxFhAssumption DEF Mapped, Fh, NoFh
        <4> QED BY <1>2, <1>3, <4>1, <4>2, <4>3 DEF PathMap
      <3> QED BY <3>1, <3>2
    <2>6. ASSUME NEW h \in Fh, h >= u.fhcount PROVE u.fhToPath[h] = NoPath
      <3>1. h >= t.fhcount /\ h # t.fhcount
        BY <1>2, <1>3, <2>6, MaxFhAssumption DEF Fh
      <3>2. t.fhToPath[h] = NoPath
        BY <3>1 DEF TableInv
      <3> QED BY <1>2, <1>3, <3>1, <3>2 DEF FhMap
    <2> QED BY <1>5, <2>1, <2>3, <2>4, <2>5, <2>6 DEF TableInv
  <1> QED BY <1>2, <1>6, <1>8, <1>9 DEF u

\* Entering a path keeps the table good, unless the numbers run out.
LEMMA EnterGood ==
    ASSUME NEW s, Good(s), NEW p \in Path, Enter(s, p).table.fhcount - 1 \in Fh
    PROVE  /\ Good(Enter(s, p))
           /\ ~ s.thrown => Mapped(Enter(s, p).table, p)
           /\ \A h \in Fh : Known(s.table, h) => Enter(s, p).table.fhToPath[h] = s.table.fhToPath[h]
           /\ \A q \in Path : Mapped(s.table, q) => Enter(s, p).table.pathToFh[q] = s.table.pathToFh[q]
  <1>1. CASE s.thrown \/ Mapped(s.table, p)
    <2>1. Enter(s, p) = s
      BY <1>1 DEF Enter
    <2> QED BY <1>1, <2>1
  <1>2. CASE ~ (s.thrown \/ Mapped(s.table, p))
    <2> DEFINE t == s.table
               u == AddLookup(t, p)
               bad == \E q \in Path : Mapped(u, q) /\ ~IsUtf8(q)
               e == Enter(s, p)
    <2>1. e = [table |-> u, thrown |-> bad,
               log |-> IF bad THEN [s.log EXCEPT !.pathToFh = Unreadable] ELSE Stored(u)]
      BY <1>2 DEF Enter
    <2>2. bad \in BOOLEAN
      OBVIOUS
    <2> HIDE DEF bad
    <2>3. e.table = u /\ e.thrown = bad
          /\ e.log = IF bad THEN [s.log EXCEPT !.pathToFh = Unreadable] ELSE Stored(u)
      BY <2>1
    <2>4. TableInv(t) /\ u.fhcount - 1 \in Fh /\ ~ Mapped(t, p) /\ s.log \in Log
      BY <1>2, <2>3 DEF Good
    <2> HIDE DEF e
    <2>5. /\ TableInv(u) /\ Mapped(u, p)
          /\ u.fhToPath = [t.fhToPath EXCEPT ![t.fhcount] = p]
          /\ u.pathToFh = [t.pathToFh EXCEPT ![p] = t.fhcount]
          /\ \A h \in Fh : Known(t, h) => h # t.fhcount
      <3> HIDE DEF t
      <3> QED BY <2>4, AddedTable
    <2>6. t.fhToPath \in FhMap /\ t.pathToFh \in PathMap /\ u \in Table
      BY <2>4, <2>5 DEF TableInv, Table
    <2> HIDE DEF u
    <2>7. e.log \in Log
      <3>1. Stored(u) \in Log
        BY <2>6, StoredType
      <3>2. [s.log EXCEPT !.pathToFh = Unreadable] \in Log
        BY <2>4 DEF Log
      <3> QED BY <2>3, <3>1, <3>2
    <2>8. \A h \in Fh : Known(t, h) => u.fhToPath[h] = t.fhToPath[h]
      BY <2>5, <2>6 DEF FhMap
    <2>9. \A q \in Path : Mapped(t, q) => u.pathToFh[q] = t.pathToFh[q]
      BY <2>4, <2>5, <2>6 DEF PathMap
    <2>10. \A h \in Fh : Known(table, h) => e.table.fhToPath[h] = table.fhToPath[h]
      <3> TAKE h \in Fh
      <3>1. Known(table, h) => t.fhToPath[h] = table.fhToPath[h] /\ Known(t, h)
        BY DEF Good, Known
      <3> QED BY <2>3, <2>8, <3>1
    <2>11. Good(e)
      BY <2>2, <2>3, <2>5, <2>7, <2>10 DEF Good
    <2> QED BY <2>3, <2>5, <2>8, <2>9, <2>11 DEF e, t
  <1> QED BY <1>1, <1>2

\* The states of the table that the entries of a directory go through: the numbers may
\* run out, after which nothing is said.
Tries ==
    {s \in [table : [pathToFh : [Path -> Int], fhToPath : FhMap, fhcount : Nat \ {0}],
            log : [pathToFh : [Path -> Int] \cup {Unreadable}, fhToPath : FhMap \cup {Unreadable}],
            thrown : BOOLEAN] :
        s.table.fhcount - 1 \in Fh => Good(s)}

\* A good state is one of them, and entering a path leads to another.
LEMMA TriesKept ==
    /\ \A s : Good(s) /\ s = [table |-> s.table, log |-> s.log, thrown |-> s.thrown] => s \in Tries
    /\ \A s \in Tries, p \in Path : Enter(s, p) \in Tries
  <1>1. ASSUME NEW s, Good(s), s = [table |-> s.table, log |-> s.log, thrown |-> s.thrown]
        PROVE  s \in Tries
    <2>1. s.table \in Table /\ s.log \in Log /\ s.thrown \in BOOLEAN /\ s.table.fhcount - 1 \in Fh
      BY <1>1 DEF Good, TableInv
    <2>2. PathMap \subseteq [Path -> Int]
      BY MaxFhAssumption DEF PathMap, Fh, NoFh
    <2>3. s.table \in [pathToFh : [Path -> Int], fhToPath : FhMap, fhcount : Nat \ {0}]
      <3>1. s.table.fhcount \in Nat \ {0}
        BY <2>1, MaxFhAssumption DEF Table, Fh
      <3> QED BY <2>1, <2>2, <3>1 DEF Table
    <2>4. s.log \in [pathToFh : [Path -> Int] \cup {Unreadable}, fhToPath : FhMap \cup {Unreadable}]
      BY <2>1, <2>2 DEF Log
    <2> QED BY <1>1, <2>1, <2>3, <2>4 DEF Tries
  <1>2. ASSUME NEW s \in Tries, NEW p \in Path PROVE Enter(s, p) \in Tries
    <2>1. CASE s.thrown \/ Mapped(s.table, p)
      BY <2>1 DEF Enter
    <2>2. CASE ~ (s.thrown \/ Mapped(s.table, p))
      <3> DEFINE t == s.table
                 u == AddLookup(t, p)
                 bad == \E q \in Path : Mapped(u, q) /\ ~IsUtf8(q)
                 l == IF bad THEN [s.log EXCEPT !.pathToFh = Unreadable] ELSE Stored(u)
                 e == Enter(s, p)
      <3>1. e = [table |-> u, thrown |-> bad, log |-> l]
        BY <2>2 DEF Enter
      <3>2. bad \in BOOLEAN
        OBVIOUS
      <3>3. u = [pathToFh |-> [t.pathToFh EXCEPT ![p] = t.fhcount],
                 fhToPath |-> [t.fhToPath EXCEPT ![t.fhcount] = p], fhcount |-> t.fhcount + 1]
        BY <2>2 DEF AddLookup
      <3>4. /\ t.pathToFh \in [Path -> Int] /\ t.fhToPath \in FhMap /\ t.fhcount \in Nat \ {0}
            /\ s.log \in [pathToFh : [Path -> Int] \cup {Unreadable}, fhToPath : FhMap \cup {Unreadable}]
        BY DEF Tries
      <3> HIDE DEF bad, t
      <3>5. /\ [t.pathToFh EXCEPT ![p] = t.fhcount] \in [Path -> Int]
            /\ [t.fhToPath EXCEPT ![t.fhcount] = p] \in FhMap
            /\ t.fhcount + 1 \in Nat \ {0}
        <4>1. t.fhcount \in Int /\ t.fhcount + 1 \in Nat \ {0}
          BY <3>4
        <4>2. [t.pathToFh EXCEPT ![p] = t.fhcount] \in [Path -> Int]
          BY <3>4, <4>1
        <4>3. [t.fhToPath EXCEPT ![t.fhcount] = p] \in [Fh -> Path \cup {NoPath}]
          <5>1. t.fhToPath \in [Fh -> Path \cup {NoPath}]
            BY <3>4 DEF FhMap
          <5> QED BY <5>1
        <4> QED BY <4>1, <4>2, <4>3 DEF FhMap
      <3> HIDE DEF u
      <3>6. u \in [pathToFh : [Path -> Int], fhToPath : FhMap, fhcount : Nat \ {0}]
            /\ u.fhcount = t.fhcount + 1
        BY <3>3, <3>5
      <3>7. l \in [pathToFh : [Path -> Int] \cup {Unreadable}, fhToPath : FhMap \cup {Unreadable}]
        <4>1. Stored(u) \in [pathToFh : [Path -> Int] \cup {Unreadable}, fhToPath : FhMap \cup {Unreadable}]
          BY <3>6 DEF Stored
        <4>2. [s.log EXCEPT !.pathToFh = Unreadable] \in
                    [pathToFh : [Path -> Int] \cup {Unreadable}, fhToPath : FhMap \cup {Unreadable}]
          BY <3>4
        <4> QED BY <4>1, <4>2
      <3> HIDE DEF l
      <3>8. e.table = u
        BY <3>1
      <3>9. e.table.fhcount - 1 \in Fh => Good(e)
        <4> HAVE e.table.fhcount - 1 \in Fh
        <4>1. t.fhcount - 1 \in Fh
          BY <3>4, <3>6, <3>8, MaxFhAssumption DEF Fh
        <4>2. Good(s)
          BY <4>1 DEF Tries, t
        <4> QED BY <3>8, <4>2, EnterGood
      <3> HIDE DEF e
      <3>10. e \in Tries
        BY <3>1, <3>2, <3>6, <3>7, <3>9 DEF Tries
      <3> QED BY <3>10 DEF e
    <2> QED BY <2>1, <2>2
  <1> QED BY <1>1, <1>2

-----------------------------------------------------------------------------
(* The end of a handler.                                                    *)

\* What a handler leaves alone, and the types of what it may change on the disk.
Stays ==
    /\ UNCHANGED <<load, clientVars, lost>>
    /\ expect' \in [Ino -> Seq(Byte \cup {Unsure})]
DiskTyped ==
    /\ cache \in Seq(Writes) /\ node \in Nodes
    /\ fds \in [Fd -> Ino \cup {0}] /\ entry \in [Name -> Ino \cup {0}]

\* Handles that are given out keep their paths.
Grows == \A h \in Fh : Known(table, h) => table'.fhToPath[h] = table.fhToPath[h]

\* The answers that say how a call went.
LEMMA Replies ==
    /\ Ok \in Responses(Chars) /\ Ok.success = 0 /\ Ok.status = 0 /\ DOMAIN Ok = ResponseNames
    /\ Ok.objects = <<>>
    /\ \A e \in Int : Refused(e) \in Responses(Chars) /\ Refused(e).success # 0
  <1>1. Ok \in Responses(Chars) /\ Ok.success = 0 /\ Ok.status = 0 /\ Ok.objects = <<>>
    BY EmptyMessages DEF Ok
  <1>2. DOMAIN Ok = ResponseNames
    BY <1>1, Positions DEF ResponseFields
  <1>3. ASSUME NEW e \in Int PROVE Refused(e) \in Responses(Chars) /\ Refused(e).success # 0
    <2> DEFINE m == set_success(Ok, -1)
    <2>1. m \in Responses(Chars)
      BY <1>1, ResponseSet
    <2>2. m.success = UInt64(-1)
      BY <1>2 DEF set_success, ResponseNames
    <2>3. UInt64(-1) # 0
      <3>1. Int32(UInt64(-1)) = -1 /\ Int32(UInt64(0)) = 0 /\ UInt64(0) = 0
        BY Numbers, Conversions
      <3> QED BY <3>1
    <2>4. Refused(e) = set_ern(m, e)
      BY DEF Refused
    <2> HIDE DEF m
    <2>5. Refused(e) \in Responses(Chars)
      BY <2>1, <2>4, ResponseSet
    <2>6. Refused(e).success = m.success
      BY <2>4 DEF set_ern
    <2> QED BY <2>2, <2>3, <2>5, <2>6
  <1> QED BY <1>1, <1>2, <1>3

\* The call after a handler.
LEMMA FinishFacts ==
    ASSUME Inv, call.phase = "received", NEW s, NEW rep \in Responses(Chars), Finish(s, rep)
    PROVE  /\ call' \in CallType /\ call'.req = call.req /\ Says(call.req)
           /\ table' = s.table /\ log' = s.log
           /\ s.thrown => call'.phase = "failed"
           /\ ~ s.thrown => call'.phase = "replied" /\ call'.rep = rep
  <1>1. Ok \in Responses(Chars)
    BY Replies
  <1>2. call \in CallType /\ Says(call.req)
    BY DEF Inv, Typed, Saying
  <1>3. table' = s.table /\ log' = s.log /\ IF s.thrown THEN Throw ELSE Answer(rep)
    BY DEF Finish
  <1>4. CASE s.thrown
    BY <1>1, <1>2, <1>3, <1>4 DEF Throw, CallType, Phases
  <1>5. CASE ~ s.thrown
    BY <1>1, <1>2, <1>3, <1>5 DEF Answer, CallType, Phases
  <1> QED BY <1>2, <1>3, <1>4, <1>5

\* A handler keeps the invariant if it keeps what it can break.
LEMMA Served ==
    ASSUME Inv, call.phase = "received", Stays, NEW s, NEW rep \in Responses(Chars),
           Finish(s, rep), TableInv(s.table), s.log \in Log,
           DiskTyped', OpenedRight', Agreement', Answers'
    PROVE  Inv'
  <1> USE DEF Stays, clientVars
  <1>1. /\ call' \in CallType /\ call'.req = call.req /\ Says(call.req)
        /\ table' = s.table /\ log' = s.log /\ call'.phase \in {"replied", "failed"}
    <2>1. s.thrown => call'.phase = "failed"
      BY FinishFacts
    <2>2. ~ s.thrown => call'.phase = "replied"
      BY FinishFacts
    <2> QED BY <2>1, <2>2, FinishFacts
  <1>2. TableInv(table)' /\ table' \in Table
    BY <1>1 DEF TableInv
  <1>3. Typed'
    <2>1. ServerType'
      BY <1>1, <1>2 DEF ServerType, DiskTyped
    <2>2. ClientType'
      BY DEF Inv, Typed, ClientType
    <2> QED BY <1>1, <2>1, <2>2 DEF Typed
  <1>4. Shape'
    <2>1. call.phase # "none" => op.pc # "idle"
      BY DEF Inv, Saying, Says
    <2> QED BY <2>1 DEF Inv, Shape
  <1>5. Saying'
    BY <1>1 DEF Saying, Says, Goal, Subject, Callback, Handle
  <1> QED BY <1>2, <1>3, <1>4, <1>5 DEF Inv

\* No rename has happened, so the client's handles still agree with the server's.
LEMMA StillAgrees ==
    ASSUME Inv, call.phase = "received", Stays, NEW s, NEW rep \in Responses(Chars),
           Finish(s, rep), Good(s),
           call.req.command = <<"rename">> => s.thrown \/ rep.success # 0
    PROVE  Agreement'
  <1> USE DEF Stays, clientVars
  <1>1. /\ call'.req = call.req /\ table' = s.table
        /\ s.thrown => call'.phase = "failed"
        /\ ~ s.thrown => call'.phase = "replied" /\ call'.rep = rep
    BY FinishFacts
  <1>2. \A h \in Fh : Known(table, h) => table'.fhToPath[h] = table.fhToPath[h]
    BY <1>1 DEF Good
  <1>3. ~ Renamed
    BY DEF Renamed
  <1>4. \A p \in Path : Agrees(p)'
    <2> TAKE p \in Path
    <2>1. pathtofh \in PathMap
      BY DEF Inv, Typed, ClientType
    <2>2. ASSUME pathtofh[p] # NoFh PROVE table'.fhToPath[pathtofh[p]] = p
      <3>1. table.fhToPath[pathtofh[p]] = p
        BY <1>3, <2>2, AllAgree
      <3>2. pathtofh[p] \in Fh
        BY <2>1, <2>2 DEF PathMap
      <3> QED BY <1>2, <3>1, <3>2, PathAssumption DEF Known
    <2> QED BY <2>2 DEF Agrees
  <1>5. ~ (call'.phase # "failed" /\ Renamed')
    BY <1>1 DEF Renamed
  <1>6. load.version = 2 => \A i \in DOMAIN chunks : Known(table, chunks[i].fh)'
    <2> SUFFICES ASSUME load.version = 2, NEW i \in DOMAIN chunks PROVE Known(table, chunks[i].fh)'
      OBVIOUS
    <2>1. Known(table, chunks[i].fh)
      BY DEF Inv, Agreement
    <2>2. chunks[i].fh \in Fh
      <3>1. chunks \in Seq(Chunks)
        BY DEF Inv, Typed, ClientType
      <3>2. chunks[i] \in Chunks
        BY <3>1
      <3> QED BY <3>2 DEF Chunks
    <2>3. table'.fhToPath[chunks[i].fh] = table.fhToPath[chunks[i].fh]
      BY <1>2, <2>1, <2>2
    <2> QED BY <2>1, <2>3 DEF Known
  <1>7. pathtofh'[Root] = 0
    BY DEF Inv, Agreement
  <1> QED BY <1>4, <1>5, <1>6, <1>7 DEF Agreement

\* A descriptor that stays as it was is still that of the file.
LEMMA StillOpen ==
    ASSUME Inv, Stays, fds' = fds
    PROVE  OpenedRight'
BY DEF Inv, OpenedRight, InoOf, Stays, clientVars

\* The commands whose answer says something that the client relies on.
Telling == {"lookup", "open", "create", "getattr", "readdir"}

\* A handler that does not touch the descriptors and whose answer tells nothing.
LEMMA PlainInv ==
    ASSUME Inv, call.phase = "received", Stays, NEW s, NEW rep \in Responses(Chars),
           Finish(s, rep), Good(s), NEW c, call.req.command = <<c>>, c \notin Telling,
           c = "rename" => s.thrown \/ rep.success # 0, DiskTyped', OpenedRight'
    PROVE  Inv' /\ Grows
  <1>1. call'.req = call.req
    BY FinishFacts
  <1>2. Answers'
    <2>1. \A d \in Telling : <<c>> # <<d>>
      BY OneElement
    <2> QED BY <1>1, <2>1 DEF Answers, Telling
  <1>3. call.req.command = <<"rename">> => s.thrown \/ rep.success # 0
    BY OneElement
  <1>4. Agreement'
    BY <1>3, StillAgrees
  <1>5. TableInv(s.table) /\ s.log \in Log
    BY DEF Good
  <1>6. Grows
    BY FinishFacts DEF Good, Grows
  <1> QED BY <1>2, <1>4, <1>5, <1>6, Served

\* An answer that comes without a look at the table.
LEMMA AnswerInv ==
    ASSUME Inv, call.phase = "received", Stays, NEW rep \in Responses(Chars),
           Answer(rep), UNCHANGED <<table, log>>, NEW c, call.req.command = <<c>>,
           c \notin Telling \cup {"rename"}, DiskTyped', OpenedRight'
    PROVE  Inv' /\ Grows
  <1> DEFINE s == [table |-> table, log |-> log, thrown |-> FALSE]
  <1>1. Good(s)
    BY LookRoot
  <1>2. Finish(s, rep)
    BY DEF Finish
  <1> HIDE DEF s
  <1> QED BY <1>1, <1>2, PlainInv

-----------------------------------------------------------------------------
(* The handlers of an open file.                                            *)

\* What a request on the open file carries.
LEMMA FileRequest ==
    ASSUME Inv, call.phase = "received"
    PROVE  /\ call.req \in Requests(Chars) /\ Says(call.req) /\ fi(call.req) \in FileInfos
           /\ call.req.data \in Seq(Chars)
           /\ \A f \in {"fh", "size", "offset", "gen", "dirfh"} : call.req[f] \in Signed
           /\ call.req.gens \in Seq(Signed)
           /\ attr(call.req) \in Attributes
           /\ toProtoFileInfo(toFuseFileInfo(fi(call.req))) \in FileInfos
           /\ toGRPCFileInfo(toCmdFileInfo(fi(call.req))) \in FileInfos
  <1>1. call.req \in Requests(Chars) /\ Says(call.req)
    BY DEF Inv, Typed, CallType, Saying
  <1>2. RequestFields(call.req, Chars)
    BY <1>1, Positions
  <1>3. fi(call.req) \in FileInfos /\ attr(call.req) \in Attributes
    BY <1>2, SubMessages DEF RequestFields
  <1> QED BY <1>1, <1>2, <1>3, InfoKept DEF RequestFields

\* The disk and the vector are of their types before the handler.
LEMMA DiskBefore == Inv => DiskTyped
BY DEF Inv, Typed, ServerType, DiskTyped

\* fsync answers with what it was sent.
LEMMA ServeFsyncInv ==
    ASSUME Inv, call.phase = "received", Stays, ServeFsync(call.req)
    PROVE  Inv' /\ Grows
  <1> DEFINE rep == fi_CopyFrom(set_status(Ok, 0), toGRPCFileInfo(toCmdFileInfo(fi(call.req))))
  <1>1. rep \in Responses(Chars)
    <2>1. set_status(Ok, 0) \in Responses(Chars)
      BY Replies, ResponseSet
    <2> QED BY <2>1, ResponseSet, FileRequest
  <1>2. Answer(rep) /\ call.req.command = <<"fsync">> /\ UNCHANGED <<serverVars, diskVars>>
    BY DEF ServeFsync, NoDisk
  <1> HIDE DEF rep
  <1>3. DiskTyped'
    BY <1>2, DiskBefore DEF DiskTyped, serverVars, diskVars
  <1>4. OpenedRight'
    BY <1>2, StillOpen DEF diskVars
  <1>5. UNCHANGED <<table, log>>
    BY <1>2 DEF serverVars
  <1> QED BY <1>1, <1>2, <1>3, <1>4, <1>5, AnswerInv DEF Telling

\* So does flush, with its status.
LEMMA ServeFlushInv ==
    ASSUME Inv, call.phase = "received", Stays, ServeFlush(call.req)
    PROVE  Inv' /\ Grows
  <1> DEFINE error == IF InoOf(fi(call.req).fh) # 0 /\ FreeFds # {} THEN 0 ELSE EBADF
             rep == fi_CopyFrom(set_status(Ok, -error), toGRPCFileInfo(toCmdFileInfo(fi(call.req))))
  <1>1. rep \in Responses(Chars)
    <2>1. -error \in Int
      BY DEF EBADF
    <2> HIDE DEF error
    <2>2. set_status(Ok, -error) \in Responses(Chars)
      BY <2>1, Replies, ResponseSet
    <2> QED BY <2>2, ResponseSet, FileRequest
  <1>2. Answer(rep) /\ call.req.command = <<"flush">> /\ UNCHANGED <<serverVars, diskVars>>
    BY DEF ServeFlush, NoDisk
  <1> HIDE DEF rep
  <1>3. DiskTyped'
    BY <1>2, DiskBefore DEF DiskTyped, serverVars, diskVars
  <1>4. OpenedRight'
    BY <1>2, StillOpen DEF diskVars
  <1>5. UNCHANGED <<table, log>>
    BY <1>2 DEF serverVars
  <1> QED BY <1>1, <1>2, <1>3, <1>4, <1>5, AnswerInv DEF Telling

\* The answer to an unknown command is empty.
LEMMA ServeUnknownInv ==
    ASSUME Inv, call.phase = "received", Stays, ServeUnknown(call.req)
    PROVE  Inv' /\ Grows
  <1>1. Ok \in Responses(Chars)
    BY Replies
  <1>2. Answer(Ok) /\ call.req.command = <<"commit">> /\ UNCHANGED <<serverVars, diskVars>>
    BY DEF ServeUnknown, NoDisk
  <1>3. DiskTyped'
    BY <1>2, DiskBefore DEF DiskTyped, serverVars, diskVars
  <1>4. OpenedRight'
    BY <1>2, StillOpen DEF diskVars
  <1>5. UNCHANGED <<table, log>>
    BY <1>2 DEF serverVars
  <1> QED BY <1>1, <1>2, <1>3, <1>4, <1>5, AnswerInv DEF Telling

\* The handle that a request on an open path carries is the server's for that path.
LEMMA HandleKnown ==
    ASSUME Inv, call.phase = "received", NEW c,
           c \in {"unlink", "open", "read", "release"}, call.req.command = <<c>>
    PROVE  /\ Look(call.req.fh) = [table |-> table, log |-> log, thrown |-> FALSE]
           /\ PathAt(call.req.fh) = op.path /\ Good(Look(call.req.fh)) /\ op.cb = c /\ op.path \in Name
  <1>1. Says(call.req)
    BY DEF Inv, Saying
  <1>2. call.req.fh = pathtofh[op.path] /\ pathtofh[op.path] # NoFh
    BY <1>1 DEF Says
  <1>3. op.path \in Path /\ ~ Renamed
    BY DEF Inv, Typed, ClientType, Ops, Renamed
  <1>4. table.fhToPath[call.req.fh] = op.path
    BY <1>2, <1>3, AllAgree
  <1>5. c \in Callbacks \ {"getattr", "write"}
    BY DEF Callbacks
  <1>6. op.cb = c
    BY <1>1, <1>5 DEF Says
  <1>7. op.path \in Name
    BY <1>6 DEF Inv, Shape, NameWalks, FileOps
  <1> QED BY <1>3, <1>4, <1>6, <1>7, LookKnown

\* release closes the descriptor, which the client then forgets.
LEMMA ServeReleaseInv ==
    ASSUME Inv, call.phase = "received", Stays, ServeRelease(call.req)
    PROVE  Inv' /\ Grows
  <1> DEFINE rep == fi_CopyFrom(Ok, toProtoFileInfo(toFuseFileInfo(fi(call.req))))
             s == Look(call.req.fh)
  <1>1. rep \in Responses(Chars)
    BY Replies, ResponseSet, FileRequest
  <1>2. /\ call.req.command = <<"release">> /\ Finish(s, rep) /\ UNCHANGED <<entry, node, cache>>
        /\ fds' = IF fi(call.req).fh \in Fd THEN [fds EXCEPT ![fi(call.req).fh] = 0] ELSE fds
    BY DEF ServeRelease
  <1>3. Good(s) /\ op.cb = "release"
    BY <1>2, HandleKnown
  <1> HIDE DEF rep, s
  <1>4. DiskTyped'
    BY <1>2, DiskBefore DEF DiskTyped
  <1>5. OpenedRight'
    BY <1>3 DEF OpenedRight, Stays, clientVars
  <1> QED BY <1>1, <1>2, <1>3, <1>4, <1>5, PlainInv DEF Telling

\* A read answers with a part of the file.
LEMMA ServeReadInv ==
    ASSUME Inv, call.phase = "received", Stays, ServeRead(call.req)
    PROVE  Inv' /\ Grows
  <1> DEFINE s == Look(call.req.fh)
             i == InoOf(fi(call.req).fh)
             o == call.req.offset
             d == node[i].data
             got == Pread(d, o, call.req.size)
             info == toProtoFileInfo(toFuseFileInfo(fi(call.req)))
             Reply(junk) == fi_CopyFrom(set_size(set_data_chars(Ok, got \o junk), Len(got)), info)
  <1>1. call.req.command = <<"read">> /\ UNCHANGED <<diskVars, cache>>
    BY DEF ServeRead, NoDisk
  <1>2. Good(s)
    BY <1>1, HandleKnown
  <1>3. IF i = 0 \/ o < 0
        THEN Finish(s, Refused(IF i = 0 THEN EBADF ELSE EINVAL))
        ELSE \E junk \in Beyond : Finish(s, Reply(junk))
    BY DEF ServeRead
  <1> HIDE DEF s
  <1>4. DiskTyped'
    BY <1>1, DiskBefore DEF DiskTyped, diskVars
  <1>5. OpenedRight'
    BY <1>1, StillOpen DEF diskVars
  <1>6. \E rep \in Responses(Chars) : Finish(s, rep)
    <2>1. CASE i = 0 \/ o < 0
      <3> DEFINE e == IF i = 0 THEN EBADF ELSE EINVAL
      <3>1. e \in Int
        BY DEF EBADF, EINVAL
      <3>2. Finish(s, Refused(e))
        BY <1>3, <2>1
      <3> HIDE DEF e
      <3> QED BY <3>1, <3>2, Replies
    <2>2. CASE ~ (i = 0 \/ o < 0)
      <3>1. PICK junk \in Beyond : Finish(s, Reply(junk))
        BY <1>3, <2>2
      <3>2. i \in Ino
        BY <2>2, DiskBefore DEF InoOf, DiskTyped
      <3>3. d \in Seq(Byte)
        BY <3>2, DiskBefore DEF DiskTyped, Nodes, Data
      <3>4. o \in Int /\ call.req.size \in Int /\ info \in FileInfos
        BY FileRequest, Numbers
      <3> HIDE DEF i, d, info
      <3>5. got \in Seq(Byte)
        <4> DEFINE e == Min({o + call.req.size, Len(d)})
        <4>1. e = (IF o + call.req.size <= Len(d) THEN o + call.req.size ELSE Len(d))
          <5> DEFINE x == o + call.req.size
          <5>1. x \in Int /\ Len(d) \in Int
            BY <3>3, <3>4
          <5> HIDE DEF x
          <5>2. Min({x, Len(d)}) = IF x <= Len(d) THEN x ELSE Len(d)
            BY <5>1, Extremes
          <5> QED BY <5>2 DEF x
        <4>2. e \in Int /\ e <= Len(d) /\ o + 1 >= 1 /\ o + 1 \in Int
          BY <2>2, <3>3, <3>4, <4>1
        <4>3. got = SubSeq(d, o + 1, e)
          BY DEF Pread
        <4> HIDE DEF e, got, o
        <4> DEFINE f == o + 1
        <4> HIDE DEF f
        <4>4. \A x, y \in Int : x >= 1 /\ y <= Len(d) => SubSeq(d, x, y) \in Seq(Byte)
          BY <3>3
        <4> QED BY <4>2, <4>3, <4>4
      <3> HIDE DEF got
      <3>6. junk \in Seq(Byte)
        BY CallsAssumption
      <3>7. got \o junk \in Seq(Byte) /\ Len(got) \in Int
        BY <3>5, <3>6
      <3> DEFINE b == got \o junk
      <3> HIDE DEF b
      <3>8. CString(b) \in Seq(Chars)
        BY <3>7, CStringType, TextsOf DEF b
      <3>9. set_data_chars(Ok, b) = set_data(Ok, CString(b))
        BY DEF set_data_chars, set_data
      <3> DEFINE m == set_data_chars(Ok, b)
      <3>10. m \in Responses(Chars)
        BY <3>8, <3>9, Replies, ResponseSet
      <3> HIDE DEF m
      <3>11. set_size(m, Len(got)) \in Responses(Chars)
        BY <3>7, <3>10, ResponseSet
      <3>12. fi_CopyFrom(set_size(m, Len(got)), info) \in Responses(Chars)
        BY <3>4, <3>11, ResponseSet
      <3> QED BY <3>1, <3>12 DEF m, b
    <2> QED BY <2>1, <2>2
  <1>7. PICK rep \in Responses(Chars) : Finish(s, rep)
    BY <1>6
  <1> QED BY <1>1, <1>2, <1>4, <1>5, <1>7, PlainInv DEF Telling

-----------------------------------------------------------------------------
(* write and commit.                                                        *)

\* The Write that a request describes, and the chunk it was sent for.
LEMMA WriteFacts ==
    ASSUME Inv, call.phase = "received", call.req.command = <<"write">>
    PROVE  /\ WriteOf(call.req) \in Writes
           /\ WriteAnswer(call.req) \in Responses(Chars)
           /\ load.version = 2 =>
                    Look(call.req.fh) = [table |-> table, log |-> log, thrown |-> FALSE]
                    /\ Good(Look(call.req.fh))
  <1> DEFINE r == call.req
             w == WriteOf(r)
  <1>1. /\ Says(r) /\ op.at \in DOMAIN chunks
        /\ r.fh = chunks[op.at].fh /\ r.data = chunks[op.at].data
    BY FileRequest DEF Says
  <1>2. chunks[op.at] \in Chunks
    <2>1. chunks \in Seq(Chunks)
      BY DEF Inv, Typed, ClientType
    <2> QED BY <1>1, <2>1
  <1>3. r.fh \in Fh /\ r.data \in Seq(Byte)
    BY <1>1, <1>2 DEF Chunks
  <1>4. /\ r.fh \in Signed /\ r.size \in Signed /\ r.offset \in Signed /\ r.gen \in Signed
        /\ toProtoFileInfo(toFuseFileInfo(fi(r))) \in FileInfos
    BY FileRequest
  <1>5. w \in Writes
    <2> HIDE DEF r
    <2> QED BY <1>3, <1>4 DEF WriteOf, Writes
  <1>6. WriteAnswer(r) \in Responses(Chars)
    <2>1. w.fi \in FileInfos /\ r.size \in Int
      BY <1>4, <1>5, Numbers DEF Writes
    <2>2. set_status(Ok, 0) \in Responses(Chars)
      BY Replies, ResponseSet
    <2> HIDE DEF r, w
    <2> DEFINE m == set_status(Ok, 0)
    <2> HIDE DEF m
    <2>3. set_datasize(m, r.size) \in Responses(Chars)
      BY <2>1, <2>2, ResponseSet DEF m
    <2>4. fi_CopyFrom(set_datasize(m, r.size), w.fi) \in Responses(Chars)
      BY <2>1, <2>3, ResponseSet
    <2> QED BY <2>4 DEF WriteAnswer, m, w
  <1>7. ASSUME load.version = 2
        PROVE  Look(r.fh) = [table |-> table, log |-> log, thrown |-> FALSE] /\ Good(Look(r.fh))
    <2>1. Known(table, r.fh)
      BY <1>1, <1>7 DEF Inv, Agreement
    <2>2. table.fhToPath[r.fh] \in Path
      BY <1>3, <2>1 DEF Inv, TableInv, Table, FhMap, Known
    <2> QED BY <2>2, LookKnown
  <1> QED BY <1>5, <1>6, <1>7

\* A write that the server keeps in memory.
LEMMA ServeWriteBackInv ==
    ASSUME Inv, call.phase = "received", Stays, ServeWriteBack(call.req)
    PROVE  Inv' /\ Grows
  <1> DEFINE rep == WriteAnswer(call.req)
             s == Look(call.req.fh)
  <1>1. /\ call.req.command = <<"write">> /\ load.version = 2 /\ Finish(s, rep)
        /\ cache' = Append(cache, WriteOf(call.req)) /\ UNCHANGED diskVars
    BY DEF ServeWriteBack, NoDisk
  <1>2. rep \in Responses(Chars) /\ Good(s) /\ WriteOf(call.req) \in Writes
    BY <1>1, WriteFacts
  <1> HIDE DEF rep, s
  <1>3. cache' \in Seq(Writes)
    <2>1. cache \in Seq(Writes)
      BY DiskBefore DEF DiskTyped
    <2> QED BY <1>1, <1>2, <2>1
  <1>4. DiskTyped'
    BY <1>1, <1>3, DiskBefore DEF DiskTyped, diskVars
  <1>5. OpenedRight'
    BY <1>1, StillOpen DEF diskVars
  <1> QED BY <1>1, <1>2, <1>4, <1>5, PlainInv DEF Telling

\* Overlay on bytes.
LEMMA OverlaidBytes ==
    \A e, o, b, z : e \in Seq(Byte) /\ o \in Nat /\ b \in Seq(Byte) /\ z \in Byte =>
        /\ Overlay(e, o, b, z) \in Seq(Byte)
        /\ Len(Overlay(e, o, b, z)) = Len(e) \/ Len(Overlay(e, o, b, z)) = o + Len(b)
  <1> TAKE e, o, b, z
  <1> HAVE e \in Seq(Byte) /\ o \in Nat /\ b \in Seq(Byte) /\ z \in Byte
  <1> QED BY OverlayType

\* A write that pwrite accepts keeps the files in their type: it cannot reach beyond
\* what two 31-bit numbers add up to.
LEMMA PwrittenType ==
    ASSUME NEW n \in Nodes, fds \in [Fd -> Ino \cup {0}], NEW w \in Writes, ~ PwriteFails(w),
           NEW tail \in Byte
    PROVE  Pwritten(n, w, tail) \in Nodes
  <1> DEFINE i == InoOf(w.fi.fh)
             bytes == PwriteBytes(w.data, w.size, tail)
             whole == Overlay(n[i].data, w.offset, bytes, 0)
             H == 2^(Bits32 - 1)
  <1>1. i \in Ino
    BY DEF PwriteFails, InoOf
  <1>2. w.size \in Signed /\ w.offset \in Signed /\ w.data \in Seq(Byte)
    BY DEF Writes
  <1>3. H \in Nat /\ 2^Bits32 = 2 * H /\ Signed = -H .. H - 1
    BY Widths DEF Signed
  <1>4. w.size \in Int /\ w.size < H /\ w.offset \in Nat /\ w.offset < H
    <2> HIDE DEF H
    <2> QED BY <1>2, <1>3 DEF PwriteFails
  <1>5. bytes \in Seq(Byte) /\ Len(bytes) = IF w.size >= 0 THEN w.size ELSE 0
    BY <1>2, <1>4, PwriteBytesType
  <1>6. n[i] \in [kind : {"file", "dir"}, mode : {0, NewMode}, data : Data]
    BY <1>1 DEF Nodes
  <1>7. n[i].data \in Seq(Byte) /\ Len(n[i].data) < 2 * H
    BY <1>3, <1>6 DEF Data
  <1>8. 0 \in Byte
    BY CallsAssumption
  <1> DEFINE e == n[i].data
  <1> HIDE DEF bytes, H, e
  <1>9. whole \in Seq(Byte) /\ (Len(whole) = Len(e) \/ Len(whole) = w.offset + Len(bytes))
    <2> DEFINE at == w.offset
               zero == 0
               v == Overlay(e, at, bytes, zero)
    <2>1. e \in Seq(Byte) /\ at \in Nat /\ bytes \in Seq(Byte) /\ zero \in Byte
      BY <1>4, <1>5, <1>7, <1>8 DEF e
    <2> HIDE DEF at, zero
    <2>2. v \in Seq(Byte) /\ (Len(v) = Len(e) \/ Len(v) = at + Len(bytes))
      <3> HIDE DEF v
      <3> QED BY <2>1, OverlaidBytes DEF v
    <2>3. whole = v
      BY DEF e, at, zero
    <2> HIDE DEF v, whole
    <2> QED BY <2>2, <2>3 DEF at
  <1>10. Len(whole) < 2 * H
    <2> DEFINE x == Len(bytes)
               y == Len(e)
               z == Len(whole)
    <2>1. (z = y \/ z = w.offset + x) /\ x = (IF w.size >= 0 THEN w.size ELSE 0)
          /\ y < 2 * H
      BY <1>5, <1>7, <1>9 DEF e
    <2>2. y \in Nat
      BY <1>7 DEF e
    <2> HIDE DEF x, y, z
    <2>3. z < 2 * H
      BY <1>3, <1>4, <2>1, <2>2
    <2> QED BY <2>3 DEF z
  <1>11. whole \in Data
    BY <1>3, <1>9, <1>10 DEF Data
  <1>12. Pwritten(n, w, tail) = [n EXCEPT ![i].data = whole]
    BY DEF Pwritten, bytes, e
  <1> HIDE DEF whole, i
  <1>13. [n[i] EXCEPT !.data = whole] \in [kind : {"file", "dir"}, mode : {0, NewMode}, data : Data]
    BY <1>6, <1>11
  <1>14. [n EXCEPT ![i] = [n[i] EXCEPT !.data = whole]] \in Nodes
    BY <1>13 DEF Nodes
  <1>15. [n EXCEPT ![i].data = whole] = [n EXCEPT ![i] = [n[i] EXCEPT !.data = whole]]
    OBVIOUS
  <1> QED BY <1>12, <1>14, <1>15

\* A write that goes through to the disk.
LEMMA ServeWriteThroughInv ==
    ASSUME Inv, call.phase = "received", Stays, ServeWriteThrough(call.req)
    PROVE  Inv' /\ Grows
  <1> DEFINE w == WriteOf(call.req)
  <1>1. call.req.command = <<"write">> /\ UNCHANGED <<table, log, cache>>
    BY DEF ServeWriteThrough, serverVars
  <1>2. IF PwriteFails(w) THEN Answer(set_status(Ok, -1)) /\ UNCHANGED diskVars
        ELSE /\ \E tail \in Byte : node' = Pwritten(node, w, tail)
             /\ Answer(WriteAnswer(call.req))
             /\ UNCHANGED <<entry, fds>>
    BY DEF ServeWriteThrough, NoDisk
  <1>3. w \in Writes /\ WriteAnswer(call.req) \in Responses(Chars)
    BY <1>1, WriteFacts
  <1>4. set_status(Ok, -1) \in Responses(Chars)
    BY Replies, ResponseSet
  <1> HIDE DEF w
  <1>5. DiskTyped
    BY DiskBefore
  <1>6. CASE PwriteFails(w)
    <2>1. Answer(set_status(Ok, -1)) /\ UNCHANGED diskVars
      BY <1>2, <1>6
    <2>2. DiskTyped'
      BY <1>1, <1>5, <2>1 DEF DiskTyped, diskVars
    <2>3. OpenedRight'
      BY <2>1, StillOpen DEF diskVars
    <2>4. UNCHANGED <<table, log>>
      BY <1>1
    <2> QED BY <1>1, <1>4, <2>1, <2>2, <2>3, <2>4, AnswerInv DEF Telling
  <1>7. CASE ~ PwriteFails(w)
    <2>1. PICK tail \in Byte : node' = Pwritten(node, w, tail)
      BY <1>2, <1>7
    <2>2. Answer(WriteAnswer(call.req)) /\ UNCHANGED <<entry, fds>>
      BY <1>2, <1>7
    <2>3. node' \in Nodes
      BY <1>3, <1>5, <1>7, <2>1, PwrittenType DEF DiskTyped
    <2>4. DiskTyped'
      BY <1>1, <1>5, <2>2, <2>3 DEF DiskTyped
    <2>5. OpenedRight'
      BY <2>2, StillOpen
    <2>6. UNCHANGED <<table, log>>
      BY <1>1
    <2> QED BY <1>1, <1>3, <2>2, <2>4, <2>5, <2>6, AnswerInv DEF Telling
  <1> QED BY <1>6, <1>7

\* The disk and the vector while a commit goes through its numbers.
Commits == [node : Nodes, cache : Seq(Writes), failed : BOOLEAN]

\* A Write taken out of the vector.
LEMMA RemovedWrite ==
    ASSUME NEW s \in Seq(Writes), NEW i \in 1 .. Len(s)
    PROVE  RemoveAt(s, i) \in Seq(Writes)
  <1>1. RemoveAt(s, i) = SubSeq(s, 1, i - 1) \o SubSeq(s, i + 1, Len(s))
    BY DEF RemoveAt
  <1> DEFINE a == i - 1
             z == i + 1
             n == Len(s)
  <1>2. a \in Int /\ a <= n /\ z \in Int /\ z >= 1 /\ n \in Nat
    OBVIOUS
  <1> HIDE DEF a, z
  <1>3. SubSeq(s, 1, a) \in Seq(Writes) /\ SubSeq(s, z, n) \in Seq(Writes)
    BY <1>2
  <1> HIDE DEF n
  <1> QED BY <1>1, <1>3 DEF a, z, n

\* One number of a commit.
LEMMA CommittedType ==
    ASSUME fds \in [Fd -> Ino \cup {0}], NEW s \in Commits, NEW gen, NEW tail \in Byte
    PROVE  Committed(s, gen, tail) \in Commits
  <1> DEFINE hits == {i \in DOMAIN s.cache : s.cache[i].gen = gen}
             m == Min(hits)
             w == s.cache[m]
             n == Pwritten(s.node, w, tail)
             c == RemoveAt(s.cache, m)
  <1>1. Committed(s, gen, tail) =
            IF s.failed \/ hits = {} THEN s
            ELSE IF PwriteFails(w) THEN [s EXCEPT !.failed = TRUE]
            ELSE [s EXCEPT !.node = n, !.cache = c]
    BY DEF Committed
  <1>2. s.node \in Nodes /\ s.cache \in Seq(Writes)
    BY DEF Commits
  <1>3. hits # {} => m \in DOMAIN s.cache
    <2>1. hits \in SUBSET Nat
      BY <1>2
    <2>2. hits # {} => m \in hits
      <3> HIDE DEF hits
      <3> QED BY <2>1, Extremes
    <2> QED BY <2>2
  <1>4. hits # {} => w \in Writes /\ c \in Seq(Writes)
    <2> HIDE DEF hits, m
    <2>1. ASSUME hits # {} PROVE m \in 1 .. Len(s.cache)
      BY <1>2, <1>3, <2>1
    <2> QED BY <1>2, <2>1, RemovedWrite
  <1>5. hits # {} /\ ~ PwriteFails(w) => n \in Nodes
    <2> HIDE DEF hits, w
    <2> QED BY <1>2, <1>4, PwrittenType
  <1> HIDE DEF hits, w, n, c
  <1>6. [s EXCEPT !.failed = TRUE] \in Commits
    BY DEF Commits
  <1>7. n \in Nodes /\ c \in Seq(Writes) => [s EXCEPT !.node = n, !.cache = c] \in Commits
    BY DEF Commits
  <1> QED BY <1>1, <1>4, <1>5, <1>6, <1>7

\* All numbers of a commit, one after the other, lead from s to z.
Ran(s, z, gens, tail) ==
    \E f \in [0 .. Len(gens) -> Commits] :
        /\ f[0] = s /\ f[Len(gens)] = z
        /\ \A i \in 1 .. Len(gens) : f[i] = Committed(f[i - 1], gens[i], tail)

\* Such are the states that the second loop goes through.
LEMMA CommittedRun ==
    ASSUME fds \in [Fd -> Ino \cup {0}], NEW s \in Commits, NEW S, NEW gens \in Seq(S), NEW tail \in Byte
    PROVE  Ran(s, Iterate(LAMBDA x, y : Committed(x, y, tail), s, gens), gens, tail)
  <1> DEFINE n == Len(gens)
             V == Commits
             h == [i \in 1 .. n |-> [v \in V |-> Committed(v, gens[i], tail)]]
  <1>0. n \in Nat
    OBVIOUS
  <1>1. h \in StepsOn(n, V)
    BY <1>0, CommittedType DEF StepsOn
  <1>2. PICK g \in RunsOf(n, V, s, h) : TRUE
    <2> HIDE DEF h, V, n
    <2>1. s \in V
      BY DEF V
    <2> QED BY <1>0, <1>1, <2>1, Recursion
  <1> HIDE DEF V
  <1> g \in [0 .. n -> V]
    BY DEF RunsOf
  <1>3. g[0] = s
    BY DEF RunsOf
  <1>4. ASSUME NEW i \in 1 .. n PROVE g[i] = Committed(g[i - 1], gens[i], tail)
    <2>1. i - 1 \in 0 .. n
      BY <1>0
    <2>2. g[i] = h[i][g[i - 1]] /\ g[i - 1] \in V
      <3> HIDE DEF h
      <3> QED BY <2>1 DEF RunsOf
    <2> QED BY <2>2
  <1> DEFINE r == [i \in 0 .. n |-> g[i]]
  <1>5. r = [i \in 0 .. n |-> IF i = 0 THEN s
                              ELSE CHOOSE u \in {Committed(v, gens[i], tail) : v \in {r[i - 1]}} : TRUE]
    <2>1. ASSUME NEW i \in 0 .. n
          PROVE  g[i] = IF i = 0 THEN s
                        ELSE CHOOSE u \in {Committed(v, gens[i], tail) : v \in {r[i - 1]}} : TRUE
      <3>1. CASE i = 0
        BY <1>3, <3>1
      <3>2. CASE i # 0
        <4>1. i \in 1 .. n /\ i - 1 \in 0 .. n
          BY <1>0, <3>2
        <4>2. r[i - 1] = g[i - 1]
          BY <4>1
        <4>3. {Committed(v, gens[i], tail) : v \in {r[i - 1]}} = {g[i]}
          <5> HIDE DEF r
          <5> QED BY <1>4, <4>1, <4>2
        <4>4. (CHOOSE u \in {g[i]} : TRUE) = g[i]
          OBVIOUS
        <4> HIDE DEF r
        <4> QED BY <3>2, <4>3, <4>4
      <3> QED BY <3>1, <3>2
    <2> QED BY <2>1
  <1>6. PICK f : /\ Iterate(LAMBDA x, y : Committed(x, y, tail), s, gens) = f[n]
                 /\ f = [i \in 0 .. n |-> IF i = 0 THEN s
                              ELSE CHOOSE u \in {Committed(v, gens[i], tail) : v \in {f[i - 1]}} : TRUE]
    <2>1. Iterate(LAMBDA x, y : Committed(x, y, tail), s, gens) =
            LET F[i \in 0 .. Len(gens)] ==
                    IF i = 0 THEN s
                    ELSE CHOOSE u \in {Committed(v, gens[i], tail) : v \in {F[i - 1]}} : TRUE
            IN  F[Len(gens)]
      BY DEF Iterate
    <2> HIDE DEF r, h
    <2> QED BY <1>5, <2>1
  <1>7. ASSUME NEW i \in 0 .. n PROVE f[i] \in V
    <2> DEFINE T == {j \in 0 .. n : f[j] \in V}
    <2>1. 0 \in T
      <3>1. 0 \in 0 .. n
        BY <1>0
      <3>2. f[0] = s
        BY <1>6, <3>1
      <3> QED BY <3>1, <3>2 DEF V
    <2>2. ASSUME NEW j \in 0 .. n - 1, j \in T PROVE j + 1 \in T
      <3>1. j + 1 \in 1 .. n /\ j + 1 # 0 /\ (j + 1) - 1 = j /\ j + 1 \in 0 .. n
        BY <1>0
      <3>2. f[j + 1] = CHOOSE u \in {Committed(v, gens[j + 1], tail) : v \in {f[j]}} : TRUE
        BY <1>6, <3>1
      <3>3. {Committed(v, gens[j + 1], tail) : v \in {f[j]}} = {Committed(f[j], gens[j + 1], tail)}
        OBVIOUS
      <3>4. f[j] \in Commits
        BY <2>2 DEF V
      <3>5. Committed(f[j], gens[j + 1], tail) \in Commits
        BY <3>4, CommittedType
      <3>6. f[j + 1] = Committed(f[j], gens[j + 1], tail)
        BY <3>2, <3>3
      <3> QED BY <3>1, <3>5, <3>6 DEF V
    <2>3. 0 .. n \subseteq T
      <3> HIDE DEF T, n
      <3> QED BY <1>0, <2>1, <2>2, UpTo
    <2> QED BY <2>3
  <1>8. f \in [0 .. n -> Commits]
    <2>1. DOMAIN f = 0 .. n /\ f = [i \in 0 .. n |-> f[i]]
      BY <1>6
    <2> QED BY <1>7, <2>1 DEF V
  <1>9. f[0] = s
    <2>1. 0 \in 0 .. n
      BY <1>0
    <2> QED BY <1>6, <2>1
  <1>10. ASSUME NEW i \in 1 .. n PROVE f[i] = Committed(f[i - 1], gens[i], tail)
    <2>1. i \in 0 .. n /\ i # 0
      BY <1>0
    <2>2. f[i] = CHOOSE u \in {Committed(v, gens[i], tail) : v \in {f[i - 1]}} : TRUE
      BY <1>6, <2>1
    <2>3. {Committed(v, gens[i], tail) : v \in {f[i - 1]}} = {Committed(f[i - 1], gens[i], tail)}
      OBVIOUS
    <2> QED BY <2>2, <2>3
  <1>11. Ran(s, f[n], gens, tail)
    BY <1>8, <1>9, <1>10 DEF Ran
  <1>12. Iterate(LAMBDA x, y : Committed(x, y, tail), s, gens) = f[n]
    BY <1>6
  <1> QED BY <1>11, <1>12

\* The files and the vector at its end.
LEMMA CommittedAll ==
    ASSUME fds \in [Fd -> Ino \cup {0}], NEW s \in Commits, NEW S, NEW gens \in Seq(S), NEW tail \in Byte
    PROVE  Iterate(LAMBDA x, y : Committed(x, y, tail), s, gens) \in Commits
  <1>1. Ran(s, Iterate(LAMBDA x, y : Committed(x, y, tail), s, gens), gens, tail)
    BY CommittedRun
  <1>2. ASSUME NEW z, Ran(s, z, gens, tail) PROVE z \in Commits
    BY <1>2 DEF Ran
  <1> QED BY <1>1, <1>2

\* The commit of server V2.
LEMMA ServeCommitInv ==
    ASSUME Inv, call.phase = "received", Stays, ServeCommit(call.req)
    PROVE  Inv' /\ Grows
  <1>1. call.req.command = <<"commit">> /\ UNCHANGED <<table, log, entry, fds>>
    BY DEF ServeCommit
  <1>2. DiskTyped /\ call.req.gens \in Seq(Signed)
    BY DiskBefore, FileRequest
  <1>3. \E v \in {-1, 0, 1} : Answer(set_success(Ok, v)) /\ node' \in Nodes /\ cache' \in Seq(Writes)
    <2>1. CASE ~ ReadyToWrite(call.req)
      <3>1. Answer(set_success(Ok, 1)) /\ node' = node /\ cache' = cache
        BY <2>1 DEF ServeCommit
      <3>2. node' \in Nodes /\ cache' \in Seq(Writes) /\ 1 \in {-1, 0, 1}
        BY <1>2, <3>1 DEF DiskTyped
      <3> QED BY <3>1, <3>2
    <2>2. CASE ReadyToWrite(call.req)
      <3> DEFINE b == [node |-> node, cache |-> cache, failed |-> FALSE]
      <3>0. PICK tail \in Byte :
                \E s \in {Iterate(LAMBDA x, g : Committed(x, g, tail), b, call.req.gens)} :
                    /\ node' = s.node /\ cache' = s.cache
                    /\ Answer(set_success(Ok, IF s.failed THEN -1 ELSE 0))
        BY <2>2 DEF ServeCommit
      <3>1. PICK s \in {Iterate(LAMBDA x, g : Committed(x, g, tail), b, call.req.gens)} :
                    /\ node' = s.node /\ cache' = s.cache
                    /\ Answer(set_success(Ok, IF s.failed THEN -1 ELSE 0))
        BY <3>0
      <3>2. b \in Commits
        BY <1>2 DEF Commits, DiskTyped
      <3>3. fds \in [Fd -> Ino \cup {0}]
        BY <1>2 DEF DiskTyped
      <3> HIDE DEF b
      <3>4. Iterate(LAMBDA x, g : Committed(x, g, tail), b, call.req.gens) \in Commits
        BY <1>2, <3>2, <3>3, CommittedAll
      <3>5. s \in Commits
        BY <3>1, <3>4
      <3>6. node' \in Nodes /\ cache' \in Seq(Writes)
        BY <3>1, <3>5 DEF Commits
      <3>7. (IF s.failed THEN -1 ELSE 0) \in {-1, 0, 1}
        OBVIOUS
      <3> QED BY <3>1, <3>6, <3>7
    <2> QED BY <2>1, <2>2
  <1>4. PICK v \in {-1, 0, 1} : Answer(set_success(Ok, v)) /\ node' \in Nodes /\ cache' \in Seq(Writes)
    BY <1>3
  <1>5. set_success(Ok, v) \in Responses(Chars)
    <2>1. v \in Int
      OBVIOUS
    <2> QED BY <2>1, Replies, ResponseSet
  <1>6. DiskTyped'
    BY <1>1, <1>2, <1>4 DEF DiskTyped
  <1>7. OpenedRight'
    BY <1>1, StillOpen
  <1>8. UNCHANGED <<table, log>>
    BY <1>1
  <1> QED BY <1>1, <1>4, <1>5, <1>6, <1>7, <1>8, AnswerInv DEF Telling

-----------------------------------------------------------------------------
(* The handlers of the directory.                                           *)

\* A name in the root directory is its own path.
LEMMA RootPath == \A p \in Path : Root \o p = p
  <1> TAKE p \in Path
  <1>1. p \in Seq(Chars) /\ Root = <<>>
    BY TextsOf, CallsAssumption
  <1> QED BY <1>1

\* A new entry of the kind and mode that the code gives it.
LEMMA NewFileKind ==
    ASSUME NEW k \in {"file", "dir"}, NEW m \in {0, NewMode}
    PROVE  NewFile(k, m) \in [kind : {"file", "dir"}, mode : {0, NewMode}, data : Data]
  <1>1. <<>> \in Data
    <2>1. <<>> \in Seq(Byte) /\ Len(<<>>) = 0
      BY Short
    <2>2. 0 < 2^Bits32
      <3> DEFINE H == 2^(Bits32 - 1)
                 N == 2^Bits32
      <3>1. H \in Nat /\ H > 0 /\ N = 2 * H
        BY Widths
      <3> HIDE DEF H, N
      <3>2. 0 < N
        BY <3>1
      <3> QED BY <3>2 DEF N
    <2> QED BY <2>1, <2>2 DEF Data
  <1>2. NewFile(k, m) \in [kind : {"file", "dir"}, mode : {0, NewMode}, data : Data]
    BY <1>1 DEF NewFile
  <1> QED BY <1>2

\* The disk with one more file or directory.
LEMMA NewFileType ==
    ASSUME NEW k \in {"file", "dir"}, NEW m \in {0, NewMode}, NEW n \in Nodes, NEW i \in Ino
    PROVE  [n EXCEPT ![i] = NewFile(k, m)] \in Nodes
BY NewFileKind DEF Nodes

\* The command says which callback is under way, and what it is on.
LEMMA CommandFacts ==
    ASSUME Inv, call.phase = "received", NEW c \in Callbacks \ {"getattr", "write"},
           call.req.command = <<c>>
    PROVE  /\ op.cb = c /\ todo = <<>> /\ Says(call.req)
           /\ c \in NameWalks => op.path \in Name
           /\ Name \subseteq Path /\ op.path \in Path
  <1>1. Says(call.req)
    BY DEF Inv, Saying
  <1>2. op.cb = c /\ todo = <<>>
    BY <1>1 DEF Says
  <1>3. c \in NameWalks => op.path \in Name
    BY <1>2 DEF Inv, Shape
  <1>4. Name \subseteq Path /\ op.path \in Path
    BY TextsOf, CallsAssumption DEF Inv, Typed, ClientType, Ops
  <1> QED BY <1>1, <1>2, <1>3, <1>4

\* lookup answers with the number of the path.
LEMMA ServeLookupInv ==
    ASSUME Inv, call.phase = "received", Stays, ServeLookup(call.req), table'.fhcount - 1 \in Fh
    PROVE  Inv' /\ Grows
  <1> DEFINE p == Goal
             s == Enter(Look(0), p)
             rep == set_fh(Ok, s.table.pathToFh[p])
  <1>1. call.req.command = <<"lookup">> /\ UNCHANGED <<diskVars, cache>> /\ Says(call.req)
    BY DEF ServeLookup, NoDisk, Inv, Saying
  <1>2. call.req.dirfh = 0 /\ call.req.name = p
    BY <1>1 DEF Says
  <1>3. p \in Path
    <2>1. Typed /\ Shape /\ pathtofh[Root] = 0
      BY DEF Inv, Agreement
    <2> QED BY <2>1, Arguments
  <1>4. Finish(s, rep)
    <2>1. PathAt(0) \o p = p
      BY <1>3, LookRoot, RootPath
    <2> QED BY <1>2, <2>1 DEF ServeLookup
  <1>5. Good(s) /\ (~ s.thrown => Mapped(s.table, p))
    <2>1. Good(Look(0)) /\ ~ Look(0).thrown
      BY LookRoot
    <2>2. s.table.fhcount - 1 \in Fh
      BY <1>4 DEF Finish
    <2> HIDE DEF p
    <2> QED BY <1>3, <2>1, <2>2, EnterGood
  <1> HIDE DEF s
  <1>6. s.table.pathToFh[p] \in Int
    <2>1. s.table.pathToFh \in PathMap
      BY <1>5 DEF Good, TableInv, Table
    <2>2. Fh \cup {NoFh} \subseteq Int
      BY MaxFhAssumption DEF Fh, NoFh
    <2> QED BY <1>3, <2>1, <2>2 DEF PathMap
  <1>7. rep \in Responses(Chars) /\ rep.fh = Int32(s.table.pathToFh[p])
    <2>1. rep \in Responses(Chars)
      BY <1>6, Replies, ResponseSet
    <2>2. "fh" \in DOMAIN Ok
      BY Replies DEF ResponseNames
    <2> QED BY <2>1, <2>2 DEF set_fh
  <1> HIDE DEF rep
  <1>8. /\ call'.req = call.req /\ table' = s.table
        /\ s.thrown => call'.phase = "failed"
        /\ ~ s.thrown => call'.rep = rep
    BY <1>4, <1>7, FinishFacts
  <1>9. Answers'
    <2>1. CASE s.thrown
      BY <1>8, <2>1 DEF Answers
    <2>2. CASE ~ s.thrown
      <3>1. Rep' = rep
        BY <1>8, <2>2 DEF Rep
      <3>2. s.table.pathToFh[p] \in Fh /\ s.table.fhToPath[s.table.pathToFh[p]] = p
        BY <1>3, <1>5, <2>2 DEF Good, TableInv, Table, PathMap, Mapped
      <3>3. rep.fh = s.table.pathToFh[p]
        BY <1>7, <3>2, Numbers, Conversions
      <3>4. Goal' = p
        BY DEF Stays, clientVars, Goal, Callback, Subject
      <3>5. \A d \in Telling \ {"lookup"} : <<"lookup">> # <<d>>
        BY OneElement
      <3> HIDE DEF p
      <3> QED BY <1>1, <1>8, <3>1, <3>2, <3>3, <3>4, <3>5 DEF Answers, Telling
    <2> QED BY <2>1, <2>2
  <1>10. Agreement'
    <2>1. <<"lookup">> # <<"rename">>
      BY OneElement
    <2> QED BY <1>1, <1>4, <1>5, <1>7, <2>1, StillAgrees
  <1>11. DiskTyped' /\ OpenedRight'
    BY <1>1, DiskBefore, StillOpen DEF DiskTyped, diskVars
  <1>12. Grows
    BY <1>5, <1>8 DEF Good, Grows
  <1> QED BY <1>4, <1>5, <1>7, <1>9, <1>10, <1>11, <1>12, Served DEF Good

\* mkdir makes the entry and gives its path a number.
LEMMA ServeMkdirInv ==
    ASSUME Inv, call.phase = "received", Stays, ServeMkdir(call.req), table'.fhcount - 1 \in Fh
    PROVE  Inv' /\ Grows
  <1> DEFINE p == op.path
  <1>1. call.req.command = <<"mkdir">> /\ cache' = cache
    BY DEF ServeMkdir
  <1>2. op.path \in Name /\ op.path \in Path /\ Says(call.req)
    <2>1. "mkdir" \in Callbacks \ {"getattr", "write"} /\ "mkdir" \in NameWalks
      BY DEF Callbacks, NameWalks
    <2> QED BY <1>1, <2>1, CommandFacts
  <1>3. call.req.dirfh = 0 /\ call.req.name = p /\ attr(call.req).st_mode = 0
    BY <1>1, <1>2 DEF Says
  <1>4. PathAt(0) \o p = p
    BY <1>2, LookRoot, RootPath
  <1>5. Good(Look(0)) /\ ~ Look(0).thrown
    BY LookRoot
  <1>6. DiskTyped
    BY DiskBefore
  <1>7. CASE KindAt(p) # "none"
    <2>1. Finish(Look(0), Refused(EEXIST)) /\ UNCHANGED diskVars
      BY <1>3, <1>4, <1>7 DEF ServeMkdir, NoDisk
    <2>2. Refused(EEXIST) \in Responses(Chars)
      BY Replies DEF EEXIST
    <2>3. DiskTyped' /\ OpenedRight'
      BY <1>1, <1>6, <2>1, StillOpen DEF DiskTyped, diskVars
    <2> QED BY <1>1, <1>5, <2>1, <2>2, <2>3, PlainInv DEF Telling
  <1>8. CASE KindAt(p) = "none"
    <2> DEFINE s == Enter(Look(0), p)
    <2>1. PICK i \in NewInos :
                    /\ entry' = [entry EXCEPT ![p] = i]
                    /\ node' = [node EXCEPT ![i] = NewFile("dir", 0)]
                    /\ Finish(s, Ok) /\ UNCHANGED fds
      BY <1>3, <1>4, <1>8 DEF ServeMkdir
    <2>2. i \in Ino
      BY DEF NewInos, FreeInos
    <2>3. Good(s)
      <3>1. s.table.fhcount - 1 \in Fh
        BY <2>1 DEF Finish
      <3> QED BY <1>2, <1>5, <3>1, EnterGood
    <2> HIDE DEF s
    <2>4. node' \in Nodes
      BY <1>6, <2>1, <2>2, NewFileType DEF DiskTyped
    <2>5. DiskTyped'
      BY <1>1, <1>6, <2>1, <2>2, <2>4 DEF DiskTyped
    <2>6. OpenedRight'
      BY <2>1, StillOpen
    <2>7. Ok \in Responses(Chars)
      BY Replies
    <2> QED BY <1>1, <2>1, <2>3, <2>5, <2>6, <2>7, PlainInv DEF Telling
  <1> QED BY <1>7, <1>8

\* rmdir and unlink take the entry away and leave its number.
LEMMA RemovedInv ==
    ASSUME Inv, call.phase = "received", Stays, NEW r, NEW error \in Int, Removed(r, error),
           Good(Look(r.fh)), NEW c \in {"rmdir", "unlink"}, call.req.command = <<c>>
    PROVE  Inv' /\ Grows
  <1> DEFINE rep == IF error = 0 THEN Ok ELSE Refused(error)
             s == Look(r.fh)
  <1>1. /\ Finish(s, rep) /\ UNCHANGED <<node, fds, cache>>
        /\ entry' = IF error = 0 THEN [entry EXCEPT ![PathAt(r.fh)] = 0] ELSE entry
    BY DEF Removed
  <1>2. rep \in Responses(Chars)
    BY Replies
  <1>3. DiskTyped'
    BY <1>1, DiskBefore DEF DiskTyped
  <1>4. OpenedRight'
    BY <1>1, StillOpen
  <1> HIDE DEF rep, s
  <1> QED BY <1>1, <1>2, <1>3, <1>4, PlainInv DEF Telling, s

\* rmdir.
LEMMA ServeRmdirInv ==
    ASSUME Inv, call.phase = "received", Stays, ServeRmdir(call.req)
    PROVE  Inv' /\ Grows
  <1> DEFINE r == [call.req EXCEPT !.fh = call.req.dirfh]
             error == RemoveError(PathAt(call.req.dirfh), "dir", ENOTDIR)
  <1>1. call.req.command = <<"rmdir">> /\ Removed(r, error)
    BY DEF ServeRmdir
  <1>2. error \in Int
    BY DEF RemoveError, ENOTDIR, ENOENT
  <1>3. op.path \in Path /\ Says(call.req)
    <2>1. "rmdir" \in Callbacks \ {"getattr", "write"}
      BY DEF Callbacks
    <2> QED BY <1>1, <2>1, CommandFacts
  <1>4. call.req.dirfh = pathtofh[op.path] /\ pathtofh[op.path] # NoFh
    BY <1>1, <1>3 DEF Says
  <1>5. table.fhToPath[call.req.dirfh] = op.path
    BY <1>3, <1>4, AllAgree DEF Renamed
  <1>6. r.fh = call.req.dirfh
    <2>1. "fh" \in DOMAIN call.req
      BY FileRequest, Positions DEF RequestFields, RequestNames
    <2> QED BY <2>1
  <1> HIDE DEF r, error
  <1>7. Good(Look(r.fh))
    BY <1>3, <1>5, <1>6, LookKnown
  <1> QED BY <1>1, <1>2, <1>7, RemovedInv

\* unlink.
LEMMA ServeUnlinkInv ==
    ASSUME Inv, call.phase = "received", Stays, ServeUnlink(call.req)
    PROVE  Inv' /\ Grows
  <1> DEFINE error == RemoveError(PathAt(call.req.fh), "file", EISDIR)
  <1>1. call.req.command = <<"unlink">> /\ Removed(call.req, error)
    BY DEF ServeUnlink
  <1>2. error \in Int
    BY DEF RemoveError, EISDIR, ENOENT
  <1> HIDE DEF error
  <1>3. Good(Look(call.req.fh))
    BY <1>1, HandleKnown
  <1> QED BY <1>1, <1>2, <1>3, RemovedInv

\* The answer to open and create.
LEMMA OpenReply ==
    ASSUME Inv, call.phase = "received", NEW c \in {"open", "create"}, call.req.command = <<c>>,
           NEW fd \in Fd \cup {-1}, NEW m \in Responses(Chars)
    PROVE  /\ OpenAnswer(call.req, fd, m) \in Responses(Chars)
           /\ OpenAnswer(call.req, fd, m).success = m.success
           /\ fi(OpenAnswer(call.req, fd, m)).flags = NewFlags
           /\ fd \in Fd => fi(OpenAnswer(call.req, fd, m)).fh = fd
  <1> DEFINE f == [toFuseFileInfo(fi(call.req)) EXCEPT !.fh = fd]
             x == toProtoFileInfo(f)
             rep == fi_CopyFrom(m, x)
  <1>1. fi(call.req).flags = NewFlags
    <2>1. call.req.command \in {<<"create">>, <<"open">>}
      OBVIOUS
    <2> QED BY <2>1, FileRequest DEF Says
  <1>2. f.fh = fd /\ f.flags = NewFlags
    BY <1>1 DEF toFuseFileInfo
  <1>3. fd \in Int /\ NewFlags \in Int /\ UInt32(NewFlags) = NewFlags /\ (fd \in Fd => UInt64(fd) = fd)
    <2>1. NewFlags \in Unsigned32 /\ (fd \in Fd => fd \in Unsigned32)
      BY Numbers
    <2>2. \A y \in Unsigned32 : y \in Int /\ UInt32(y) = y /\ UInt64(y) = y
      BY Numbers, Conversions
    <2>3. fd \in Int
      BY DEF Fd
    <2> QED BY <2>1, <2>2, <2>3
  <1> HIDE DEF f
  <1>4. x \in FileInfos /\ x.fh = UInt64(fd) /\ x.flags = NewFlags
    BY <1>2, <1>3, InfoConverted
  <1> HIDE DEF x
  <1>5. rep \in Responses(Chars) /\ rep.success = m.success
    <2>1. rep \in Responses(Chars)
      BY <1>4, ResponseSet
    <2> QED BY <2>1 DEF fi_CopyFrom
  <1>6. fi(rep) = x
    <2>1. "fi" \in DOMAIN m
      BY Positions DEF ResponseFields, ResponseNames
    <2> QED BY <2>1, SubMessages
  <1>7. OpenAnswer(call.req, fd, m) = rep
    BY DEF OpenAnswer, x, f
  <1> HIDE DEF rep
  <1> QED BY <1>3, <1>4, <1>5, <1>6, <1>7

\* open and create keep the invariant if they open the file the application named.
LEMMA OpenServed ==
    ASSUME Inv, call.phase = "received", Stays, NEW c \in {"open", "create"},
           call.req.command = <<c>>, NEW fd \in Fd \cup {-1}, NEW m \in Responses(Chars),
           NEW s, Good(s), Finish(s, OpenAnswer(call.req, fd, m)), DiskTyped',
           m.success = 0 => fd \in Fd /\ entry'[op.path] \in Ino /\ fds'[fd] = entry'[op.path]
    PROVE  Inv' /\ Grows
  <1> DEFINE rep == OpenAnswer(call.req, fd, m)
  <1>1. /\ rep \in Responses(Chars) /\ rep.success = m.success /\ fi(rep).flags = NewFlags
        /\ fd \in Fd => fi(rep).fh = fd
    BY OpenReply
  <1>2. Finish(s, rep)
    OBVIOUS
  <1> HIDE DEF rep
  <1>3. /\ call'.req = call.req
        /\ s.thrown => call'.phase = "failed"
        /\ ~ s.thrown => call'.rep = rep
    BY <1>1, <1>2, FinishFacts
  <1>4. Answers'
    <2>1. CASE s.thrown
      BY <1>3, <2>1 DEF Answers
    <2>2. CASE ~ s.thrown
      <3>1. Rep' = rep /\ op' = op
        BY <1>3, <2>2 DEF Rep, Stays, clientVars
      <3>2. \A d \in {"lookup", "getattr", "readdir"} : <<c>> # <<d>>
        BY OneElement
      <3> QED BY <1>1, <1>3, <3>1, <3>2 DEF Answers
    <2> QED BY <2>1, <2>2
  <1>5. Agreement'
    <2>1. <<c>> # <<"rename">>
      BY OneElement
    <2> QED BY <1>1, <1>2, <2>1, StillAgrees
  <1>6. OpenedRight'
    <2>1. opened = <<>>
      <3>1. c \in Callbacks \ {"getattr", "write"}
        BY DEF Callbacks
      <3> QED BY <3>1, CommandFacts DEF Inv, Shape
    <2> QED BY <2>1 DEF OpenedRight, Stays, clientVars
  <1>7. Grows
    BY <1>1, <1>2, FinishFacts DEF Good, Grows
  <1> QED BY <1>1, <1>2, <1>4, <1>5, <1>6, <1>7, Served DEF Good

\* The name the application gave has an entry unless its kind is none.
LEMMA EntryThere ==
    ASSUME Inv, NEW p \in Name, KindAt(p) # "none"
    PROVE  entry[p] \in Ino
BY DEF KindAt, Inv, Typed, ServerType

\* open takes the lowest descriptor that is free.
LEMMA ServeOpenInv ==
    ASSUME Inv, call.phase = "received", Stays, ServeOpen(call.req)
    PROVE  Inv' /\ Grows
  <1> DEFINE p == op.path
             s == Look(call.req.fh)
  <1>1. call.req.command = <<"open">> /\ cache' = cache
    BY DEF ServeOpen
  <1>2. Good(s) /\ p \in Name /\ PathAt(call.req.fh) = p
    BY <1>1, HandleKnown
  <1>3. DiskTyped
    BY DiskBefore
  <1>4. IF OpenError(p) # 0
        THEN Finish(s, OpenAnswer(call.req, -1, Refused(OpenError(p)))) /\ UNCHANGED diskVars
        ELSE \E fd \in Fd :
                    /\ Lowest(fd)
                    /\ fds' = [fds EXCEPT ![fd] = entry[p]]
                    /\ Finish(s, OpenAnswer(call.req, fd, Ok))
                    /\ UNCHANGED <<entry, node>>
    BY <1>2 DEF ServeOpen, NoDisk
  <1> HIDE DEF s
  <1>5. CASE OpenError(p) # 0
    <2>1. OpenError(p) \in Int
      BY DEF OpenError, EMFILE, ENOENT, EISDIR
    <2>2. Refused(OpenError(p)) \in Responses(Chars) /\ Refused(OpenError(p)).success # 0
      BY <2>1, Replies
    <2> DEFINE m == Refused(OpenError(p))
    <2>3. m \in Responses(Chars) /\ m.success # 0
      BY <2>2
    <2>4. Finish(s, OpenAnswer(call.req, -1, m)) /\ UNCHANGED diskVars
      BY <1>4, <1>5
    <2> HIDE DEF m
    <2>5. DiskTyped'
      BY <1>1, <1>3, <2>4 DEF DiskTyped, diskVars
    <2> QED BY <1>1, <1>2, <2>3, <2>4, <2>5, OpenServed
  <1>6. CASE OpenError(p) = 0
    <2>1. PICK fd \in Fd :
                    /\ fds' = [fds EXCEPT ![fd] = entry[p]]
                    /\ Finish(s, OpenAnswer(call.req, fd, Ok))
                    /\ UNCHANGED <<entry, node>>
      BY <1>4, <1>6
    <2>2. entry[p] \in Ino
      <3>1. KindAt(p) # "none"
        BY <1>6 DEF OpenError, ENOENT, EMFILE
      <3> QED BY <1>2, <3>1, EntryThere
    <2>3. DiskTyped' /\ fds'[fd] = entry[p]
      BY <1>1, <1>3, <2>1, <2>2 DEF DiskTyped
    <2>4. Ok \in Responses(Chars)
      BY Replies
    <2> QED BY <1>1, <1>2, <2>1, <2>2, <2>3, <2>4, OpenServed
  <1> QED BY <1>5, <1>6

\* create opens what is there, or makes a file and gives its path a number.
LEMMA ServeCreateInv ==
    ASSUME Inv, call.phase = "received", Stays, ServeCreate(call.req), table'.fhcount - 1 \in Fh
    PROVE  Inv' /\ Grows
  <1> DEFINE p == op.path
             e == CreateError(p)
  <1>1. call.req.command = <<"create">> /\ cache' = cache
    BY DEF ServeCreate
  <1>2. p \in Name /\ p \in Path /\ Says(call.req)
    <2>1. "create" \in Callbacks \ {"getattr", "write"} /\ "create" \in NameWalks
      BY DEF Callbacks, NameWalks
    <2> QED BY <1>1, <2>1, CommandFacts
  <1>3. call.req.dirfh = 0 /\ call.req.name = p /\ attr(call.req).st_mode = NewMode
    BY <1>1, <1>2 DEF Says
  <1>4. PathAt(0) \o p = p
    BY <1>2, LookRoot, RootPath
  <1>5. Good(Look(0)) /\ ~ Look(0).thrown
    BY LookRoot
  <1>6. DiskTyped
    BY DiskBefore
  <1>7. CASE e # 0
    <2>1. Finish(Look(0), OpenAnswer(call.req, -1, Refused(e))) /\ UNCHANGED diskVars
      BY <1>3, <1>4, <1>7 DEF ServeCreate, NoDisk
    <2>2. e \in Int
      BY DEF CreateError, OpenError, EMFILE, ENOENT, EISDIR
    <2> DEFINE m == Refused(e)
    <2>3. m \in Responses(Chars) /\ m.success # 0
      <3> HIDE DEF e
      <3> QED BY <2>2, Replies
    <2>4. Finish(Look(0), OpenAnswer(call.req, -1, m))
      BY <2>1
    <2> HIDE DEF m
    <2>5. DiskTyped'
      BY <1>1, <1>6, <2>1 DEF DiskTyped, diskVars
    <2> QED BY <1>1, <1>5, <2>3, <2>4, <2>5, OpenServed
  <1>8. CASE e = 0
    <2> DEFINE s == Enter(Look(0), p)
    <2>1. PICK fd \in Fd, i \in IF KindAt(p) = "none" THEN NewInos ELSE {entry[p]} :
                    /\ fds' = [fds EXCEPT ![fd] = i]
                    /\ entry' = [entry EXCEPT ![p] = i]
                    /\ node' = IF i = entry[p] THEN node
                               ELSE [node EXCEPT ![i] = NewFile("file", NewMode)]
                    /\ Finish(s, OpenAnswer(call.req, fd, Ok))
      BY <1>3, <1>4, <1>8 DEF ServeCreate
    <2>2. i \in Ino
      <3>1. CASE KindAt(p) = "none"
        BY <2>1, <3>1 DEF NewInos, FreeInos
      <3>2. CASE KindAt(p) # "none"
        BY <1>2, <2>1, <3>2, EntryThere
      <3> QED BY <3>1, <3>2
    <2>3. Good(s)
      <3>1. s.table.fhcount - 1 \in Fh
        BY <2>1 DEF Finish
      <3> QED BY <1>2, <1>5, <3>1, EnterGood
    <2> HIDE DEF s
    <2>4. node' \in Nodes
      <3>1. CASE i = entry[p]
        BY <1>6, <2>1, <3>1 DEF DiskTyped
      <3>2. CASE i # entry[p]
        BY <1>6, <2>1, <2>2, <3>2, NewFileType DEF DiskTyped
      <3> QED BY <3>1, <3>2
    <2>5. DiskTyped' /\ fds'[fd] = i /\ entry'[p] = i
      BY <1>1, <1>2, <1>6, <2>1, <2>2, <2>4 DEF DiskTyped
    <2>6. Ok \in Responses(Chars) /\ Finish(s, OpenAnswer(call.req, fd, Ok))
      BY <2>1, Replies
    <2> QED BY <1>1, <2>2, <2>3, <2>5, <2>6, OpenServed
  <1> QED BY <1>7, <1>8

-----------------------------------------------------------------------------
(* getattr and readdir.                                                     *)

\* The attributes of a path fit the fields they are sent in.
LEMMA StatFacts ==
    ASSUME Inv, NEW p
    PROVE  /\ \A n \in StatFields : StatOf(p)[n] \in Unsigned32
           /\ StatOf(p) = [n \in StatFields |-> StatOf(p)[n]]
  <1> DEFINE i == IF p \in Name THEN entry[p] ELSE 0
             mode == TypeBits(node[i].kind) + node[i].mode
             size == Len(node[i].data)
             there == [st_ino |-> i, st_mode |-> mode, st_size |-> size]
             short == IF i = 0 THEN RootStat ELSE there
             st == StatOf(p)
  <1>1. st = [n \in StatFields |-> IF n \in DOMAIN short THEN short[n]
                                   ELSE IF n = "st_nlink" THEN 1 ELSE 0]
    BY DEF StatOf
  <1>2. i \in Ino \cup {0}
    BY DEF Inv, Typed, ServerType
  <1>3. 0 \in Unsigned32 /\ 1 \in Unsigned32 /\ MaxIno + 1 \in Unsigned32 /\ S_IFDIR \in Unsigned32
    <2>1. S_IFDIR + 0 = S_IFDIR /\ S_IFDIR + 0 \in Unsigned32
      <3>1. S_IFDIR + 0 \in Unsigned32
        BY Numbers
      <3> QED BY <3>1 DEF S_IFDIR
    <2> QED BY <2>1, Numbers
  <1>4. ASSUME i # 0 PROVE i \in Unsigned32 /\ mode \in Unsigned32 /\ size \in Unsigned32
    <2>1. i \in Ino
      BY <1>2, <1>4
    <2> HIDE DEF i
    <2>2. node[i] \in [kind : {"file", "dir"}, mode : {0, NewMode}, data : Data]
      BY <2>1 DEF Inv, Typed, ServerType, Nodes
    <2>3. mode \in Unsigned32
      <3>1. TypeBits(node[i].kind) \in {S_IFREG, S_IFDIR} /\ node[i].mode \in {0, NewMode}
        BY <2>2 DEF TypeBits
      <3> QED BY <3>1, Numbers
    <2>4. size \in Nat /\ size < 2^Bits32
      BY <2>2 DEF Data
    <2>5. size \in Unsigned32
      <3> HIDE DEF size
      <3> QED BY <2>4, Numbers
    <2>6. i \in Unsigned32
      BY <2>1, Numbers
    <2> QED BY <2>3, <2>5, <2>6
  <1>5. DOMAIN short = {"st_ino", "st_mode", "st_size"}
    BY DEF RootStat
  <1> HIDE DEF i, mode, size
  <1>6. short["st_ino"] \in Unsigned32 /\ short["st_mode"] \in Unsigned32 /\ short["st_size"] \in Unsigned32
    BY <1>3, <1>4 DEF RootStat
  <1> HIDE DEF short, st
  <1>7. \A n \in StatFields : st[n] \in Unsigned32
    BY <1>1, <1>3, <1>5, <1>6
  <1>8. st = [n \in StatFields |-> st[n]]
    BY <1>1
  <1> QED BY <1>7, <1>8 DEF st

\* getattr answers with the attributes of the path whose handle it is given, and
\* enters the subject under a handle of its own if that path is the root.
LEMMA ServeGetattrInv ==
    ASSUME Inv, call.phase = "received", Stays, ServeGetattr(call.req), table'.fhcount - 1 \in Fh
    PROVE  Inv' /\ Grows
  <1> DEFINE p == Goal
             h == call.req.fh
             s == IF p = Root THEN Enter(Look(h), call.req.path) ELSE Look(h)
             st == StatOf(p)
             full == attr_CopyFrom(Ok, toGrpcStat(st))
             none == set_status(Ok, -ENOENT)
             rep == IF KindAt(p) = "none" THEN none ELSE full
  <1>1. call.req.command = <<"getattr">> /\ UNCHANGED <<diskVars, cache>> /\ Says(call.req)
    BY DEF ServeGetattr, NoDisk, Inv, Saying
  <1>2. Handle # NoFh /\ h = Handle /\ call.req.path = Subject
    BY <1>1 DEF Says
  <1>3. p \in Path /\ Subject \in Path
    <2>1. Typed /\ Shape /\ pathtofh[Root] = 0
      BY DEF Inv, Agreement
    <2> QED BY <2>1, Arguments
  <1>4. table.fhToPath[h] = p
    BY <1>2, <1>3, AllAgree DEF Renamed, Handle
  <1>5. PathAt(h) = p /\ Good(Look(h)) /\ ~ Look(h).thrown
    <2> HIDE DEF p, h
    <2> QED BY <1>3, <1>4, LookKnown
  <1>6. Finish(s, rep)
    BY <1>5 DEF ServeGetattr
  <1>7. Good(s)
    <2>1. CASE p = Root
      <3>1. s = Enter(Look(h), Subject)
        BY <1>2, <2>1
      <3>2. s.table.fhcount - 1 \in Fh
        BY <1>6 DEF Finish
      <3> HIDE DEF s, h
      <3> QED BY <1>3, <1>5, <3>1, <3>2, EnterGood
    <2>2. CASE p # Root
      BY <1>5, <2>2
    <2> QED BY <2>1, <2>2
  <1> HIDE DEF s
  <1>8. /\ \A n \in StatFields : st[n] \in Unsigned32 /\ st[n] \in Int
        /\ st = [n \in StatFields |-> st[n]]
    <2>1. \A x \in Unsigned32 : x \in Int
      BY Numbers
    <2> QED BY <2>1, StatFacts
  <1> HIDE DEF st
  <1>9. toGRPCstat(st) \in Attributes /\ toCmdstat(toGRPCstat(st)) = st /\ toGrpcStat(st) = toGRPCstat(st)
    BY <1>8, StatConverted DEF toGrpcStat
  <1>10. full \in Responses(Chars) /\ attr(full) = toGRPCstat(st) /\ full.status = 0
    <2>1. full \in Responses(Chars)
      BY <1>9, Replies, ResponseSet
    <2>2. attr(full) = toGRPCstat(st)
      BY <1>9, Replies, SubMessages DEF ResponseNames
    <2>3. full.status = Ok.status
      BY DEF attr_CopyFrom
    <2> QED BY <2>1, <2>2, <2>3, Replies
  <1>11. none \in Responses(Chars) /\ none.status = -ENOENT
    <2>1. -ENOENT \in Int /\ Int32(-ENOENT) = -ENOENT
      BY Numbers, Conversions DEF ENOENT
    <2>2. none \in Responses(Chars)
      BY <2>1, Replies, ResponseSet
    <2>3. "status" \in DOMAIN Ok
      BY Replies DEF ResponseNames
    <2>4. none.status = Int32(-ENOENT)
      BY <2>3 DEF set_status
    <2> QED BY <2>1, <2>2, <2>4
  <1> HIDE DEF full, none
  <1>12. rep \in Responses(Chars)
    BY <1>10, <1>11
  <1>13. /\ call'.req = call.req
         /\ s.thrown => call'.phase = "failed"
         /\ ~ s.thrown => call'.rep = rep
    <2> HIDE DEF rep
    <2> QED BY <1>6, <1>12, FinishFacts
  <1>14. Answers'
    <2>1. CASE s.thrown
      BY <1>13, <2>1 DEF Answers
    <2>2. CASE ~ s.thrown
      <3>1. Rep' = rep
        BY <1>13, <2>2 DEF Rep
      <3>2. Goal' = p /\ entry' = entry /\ node' = node
        BY <1>1 DEF Stays, clientVars, Goal, Callback, Subject, diskVars
      <3>3. KindAt(Goal)' = KindAt(p) /\ StatOf(Goal)' = st
        BY <3>2 DEF KindAt, StatOf, st
      <3>4. IF KindAt(p) = "none" THEN Stated'.status = -ENOENT
            ELSE Stated' = [status |-> 0, st |-> st]
        BY <1>9, <1>10, <1>11, <3>1 DEF Stated
      <3>5. \A d \in Telling \ {"getattr"} : <<"getattr">> # <<d>>
        BY OneElement
      <3> HIDE DEF p
      <3> QED BY <1>1, <1>13, <3>3, <3>4, <3>5 DEF Answers, Telling
    <2> QED BY <2>1, <2>2
  <1> HIDE DEF rep
  <1>15. Agreement'
    <2>1. <<"getattr">> # <<"rename">>
      BY OneElement
    <2> QED BY <1>1, <1>6, <1>7, <1>12, <2>1, StillAgrees
  <1>16. DiskTyped' /\ OpenedRight'
    BY <1>1, DiskBefore, StillOpen DEF DiskTyped, diskVars
  <1>17. Grows
    BY <1>6, <1>7, <1>12, FinishFacts DEF Good, Grows
  <1> QED BY <1>6, <1>7, <1>12, <1>14, <1>15, <1>16, <1>17, Served DEF Good

\* What readdir lists are paths.
LEMMA EntriesType == Entries \in Seq(Path)
  <1> DEFINE S == {n \in Name : entry[n] # 0}
             q == SetToSeq(S)
             n == Cardinality(S)
  <1>1. IsFiniteSet(S)
    <2>1. S \subseteq Name /\ IsFiniteSet(Name)
      BY CallsAssumption
    <2> HIDE DEF S
    <2> QED BY <2>1, FS_Subset
  <1>2. n \in Nat /\ ExistsBijection(1 .. n, S)
    <2> HIDE DEF S
    <2> QED BY <1>1, FS_CardinalityType
  <1> HIDE DEF S
  <1>3. \E f \in [1 .. n -> S] : IsInjective(f)
    BY <1>2 DEF ExistsBijection, Bijection, Injection
  <1>4. q \in [1 .. n -> S]
    BY <1>3 DEF SetToSeq
  <1> HIDE DEF q, n
  <1>5. q \in Seq(S)
    BY <1>2, <1>4
  <1>6. S \subseteq Path /\ <<".">> \in Path /\ <<"..">> \in Path
    BY CallsAssumption DEF S, Listed
  <1>7. q \in Seq(Path)
    BY <1>5, <1>6
  <1>8. <<<<".">>, <<"..">>>> \in Seq(Path)
    BY <1>6, Short
  <1>9. <<<<".">>, <<"..">>>> \o q \in Seq(Path)
    BY <1>7, <1>8
  <1> QED BY <1>9 DEF Entries, q, S

\* The table goes through good states while the entries are entered.
LEMMA EnteredAll ==
    ASSUME NEW s \in Tries, NEW paths \in Seq(Path)
    PROVE  Iterate(Enter, s, paths) \in Tries
  <1> DEFINE n == Len(paths)
             V == Tries
             h == [i \in 1 .. n |-> [v \in V |-> Enter(v, paths[i])]]
  <1>0. n \in Nat /\ \A i \in 1 .. n : paths[i] \in Path
    OBVIOUS
  <1>1. h \in StepsOn(n, V)
    BY <1>0, TriesKept DEF StepsOn
  <1>2. PICK g \in RunsOf(n, V, s, h) : TRUE
    <2> HIDE DEF h, V, n
    <2>1. s \in V
      BY DEF V
    <2> QED BY <1>0, <1>1, <2>1, Recursion
  <1> HIDE DEF V
  <1> g \in [0 .. n -> V]
    BY DEF RunsOf
  <1>3. g[0] = s
    BY DEF RunsOf
  <1>4. ASSUME NEW i \in 1 .. n PROVE g[i] = Enter(g[i - 1], paths[i])
    <2>1. i - 1 \in 0 .. n
      BY <1>0
    <2>2. g[i] = h[i][g[i - 1]] /\ g[i - 1] \in V
      <3> HIDE DEF h
      <3> QED BY <2>1 DEF RunsOf
    <2> QED BY <2>2
  <1> DEFINE r == [i \in 0 .. n |-> g[i]]
  <1>5. r = [i \in 0 .. n |-> IF i = 0 THEN s
                              ELSE CHOOSE u \in {Enter(v, paths[i]) : v \in {r[i - 1]}} : TRUE]
    <2>1. ASSUME NEW i \in 0 .. n
          PROVE  g[i] = IF i = 0 THEN s
                        ELSE CHOOSE u \in {Enter(v, paths[i]) : v \in {r[i - 1]}} : TRUE
      <3>1. CASE i = 0
        BY <1>3, <3>1
      <3>2. CASE i # 0
        <4>1. i \in 1 .. n /\ i - 1 \in 0 .. n
          BY <1>0, <3>2
        <4>2. r[i - 1] = g[i - 1]
          BY <4>1
        <4>3. {Enter(v, paths[i]) : v \in {r[i - 1]}} = {g[i]}
          <5> HIDE DEF r
          <5> QED BY <1>4, <4>1, <4>2
        <4>4. (CHOOSE u \in {g[i]} : TRUE) = g[i]
          OBVIOUS
        <4> HIDE DEF r
        <4> QED BY <3>2, <4>3, <4>4
      <3> QED BY <3>1, <3>2
    <2> QED BY <2>1
  <1>6. PICK f : /\ Iterate(Enter, s, paths) = f[n]
                 /\ f = [i \in 0 .. n |-> IF i = 0 THEN s
                              ELSE CHOOSE u \in {Enter(v, paths[i]) : v \in {f[i - 1]}} : TRUE]
    <2>1. Iterate(Enter, s, paths) =
            LET F[i \in 0 .. Len(paths)] ==
                    IF i = 0 THEN s
                    ELSE CHOOSE u \in {Enter(v, paths[i]) : v \in {F[i - 1]}} : TRUE
            IN  F[Len(paths)]
      BY DEF Iterate
    <2> HIDE DEF r, h
    <2> QED BY <1>5, <2>1
  <1>7. ASSUME NEW i \in 0 .. n PROVE f[i] \in V
    <2> DEFINE T == {j \in 0 .. n : f[j] \in V}
    <2>1. 0 \in T
      <3>1. 0 \in 0 .. n
        BY <1>0
      <3>2. f[0] = s
        BY <1>6, <3>1
      <3> QED BY <3>1, <3>2 DEF V
    <2>2. ASSUME NEW j \in 0 .. n - 1, j \in T PROVE j + 1 \in T
      <3>1. j + 1 \in 1 .. n /\ j + 1 # 0 /\ (j + 1) - 1 = j /\ j + 1 \in 0 .. n
        BY <1>0
      <3>2. f[j + 1] = CHOOSE u \in {Enter(v, paths[j + 1]) : v \in {f[j]}} : TRUE
        BY <1>6, <3>1
      <3>3. {Enter(v, paths[j + 1]) : v \in {f[j]}} = {Enter(f[j], paths[j + 1])}
        OBVIOUS
      <3>4. f[j] \in Tries /\ paths[j + 1] \in Path
        BY <1>0, <2>2, <3>1 DEF V
      <3>5. Enter(f[j], paths[j + 1]) \in Tries
        BY <3>4, TriesKept
      <3>6. f[j + 1] = Enter(f[j], paths[j + 1])
        BY <3>2, <3>3
      <3> QED BY <3>1, <3>5, <3>6 DEF V
    <2>3. 0 .. n \subseteq T
      <3> HIDE DEF T, n
      <3> QED BY <1>0, <2>1, <2>2, UpTo
    <2> QED BY <2>3
  <1>8. n \in 0 .. n
    BY <1>0
  <1> QED BY <1>6, <1>7, <1>8 DEF V

\* An entry of the listing, as a message and back.
LEMMA EntryConverted ==
    ASSUME Inv, NEW n \in Path, NEW junk \in {0, 1}
    PROVE  /\ EntryOf(n, junk) \in Directories(Chars) /\ EntryOf(n, junk).name = n
           /\ toCmdstat(attr(EntryOf(n, junk)))["st_ino"] = StatOf(n).st_ino
  <1> DEFINE st == EntryStat(n, junk)
             ino == StatOf(n).st_ino
             g == toGRPCstat(st)
             e == EntryOf(n, junk)
  <1>1. ino \in Unsigned32 /\ ino \in Int /\ UInt64(ino) = ino
    <2>1. "st_ino" \in StatFields
      BY DEF StatFields
    <2>2. ino \in Unsigned32
      BY <2>1, StatFacts
    <2>3. \A x \in Unsigned32 : x \in Int /\ UInt64(x) = x
      BY Numbers, Conversions
    <2> HIDE DEF ino
    <2> QED BY <2>2, <2>3
  <1> HIDE DEF ino
  <1>2. TypeBits(KindAt(n)) \in Int /\ junk \in Int
    BY DEF TypeBits, S_IFDIR, S_IFREG
  <1>3. st["st_ino"] = ino /\ \A f \in StatFields : st[f] \in Int
    <2> DEFINE bits == TypeBits(KindAt(n))
    <2>1. st = [f \in StatFields |-> CASE f = "st_ino" -> ino [] f = "st_mode" -> bits [] OTHER -> junk]
      BY DEF EntryStat, ino
    <2>2. "st_ino" \in StatFields
      BY DEF StatFields
    <2> HIDE DEF bits, st
    <2>3. st["st_ino"] = ino
      BY <2>1, <2>2
    <2>4. ASSUME NEW f \in StatFields PROVE st[f] \in Int
      <3>1. CASE f = "st_ino"
        BY <1>1, <2>3, <3>1
      <3>2. CASE f = "st_mode"
        BY <1>2, <2>1, <3>2 DEF bits
      <3>3. CASE f \notin {"st_ino", "st_mode"}
        BY <1>2, <2>1, <3>3
      <3> QED BY <3>1, <3>2, <3>3
    <2> QED BY <2>3, <2>4
  <1> HIDE DEF st
  <1>4. g \in Attributes /\ g["st_ino"] = ino
    <2>1. "st_ino" \in StatFields
      BY DEF StatFields
    <2> QED BY <1>1, <1>3, <2>1, StatConverted
  <1>5. e = attr_CopyFrom(set_name(directory_Empty, n), g)
    BY DEF EntryOf, toGrpcStat, st
  <1>6. directory_Empty \in [{"name", "attr"} -> {<<>>}]
    <2>1. directory_Empty = [m \in {"name", "attr"} |->
                                Default(directory_Fields[Number(directory_Fields, m)].kind)]
      BY FieldNames DEF directory_Empty, Empty
    <2>2. ASSUME NEW m \in {"name", "attr"}
          PROVE  Default(directory_Fields[Number(directory_Fields, m)].kind) = <<>>
      <3>1. Number(directory_Fields, m) \in DOMAIN directory_Fields
        BY FieldNames DEF Number, Names
      <3>2. DOMAIN directory_Fields = 1 .. 2
        BY DEF directory_Fields
      <3>3. directory_Fields[1].kind = "string" /\ directory_Fields[2].kind = "attributes"
        BY DEF directory_Fields, Field
      <3> QED BY <3>1, <3>2, <3>3 DEF Default, Scalar
    <2> QED BY <2>1, <2>2
  <1> HIDE DEF g, e
  <1>7. e = [m \in {"name", "attr"} |-> IF m = "name" THEN n ELSE <<g>>]
    BY <1>5, <1>6 DEF attr_CopyFrom, set_name
  <1>8. e.name = n /\ e.attr = <<g>>
    BY <1>7
  <1>9. n \in Seq(Chars) /\ <<g>> \in Optional(Attributes)
    BY <1>4, TextsOf DEF Optional
  <1>10. e \in Directories(Chars)
    BY <1>7, <1>8, <1>9, FieldNames DEF Directories
  <1>11. attr(e) = g
    <2>1. <<g>> # <<>> /\ <<g>>[1] = g
      OBVIOUS
    <2> QED BY <1>8, <2>1 DEF attr
  <1>12. toCmdstat(g)["st_ino"] = g["st_ino"]
    BY DEF toCmdstat, StatFields, Narrow
  <1> QED BY <1>4, <1>8, <1>10, <1>11, <1>12 DEF e, ino

\* The answer to readdir: what is in it is what is in the directory.
LEMMA EntriesReply ==
    ASSUME Inv, NEW junk \in {0, 1}
    PROVE  /\ EntriesMessage(junk) \in Responses(Chars)
           /\ EntriesMessage(junk).objects = [i \in DOMAIN Entries |-> EntryOf(Entries[i], junk)]
  <1> DEFINE v == [i \in DOMAIN Entries |-> EntryOf(Entries[i], junk)]
             n == Len(Entries)
             m == EntriesMessage(junk)
  <1>1. Entries \in Seq(Path)
    BY EntriesType
  <1>2. n \in Nat /\ DOMAIN Entries = 1 .. n /\ \A i \in 1 .. n : Entries[i] \in Path
    BY <1>1
  <1>3. v = [i \in 1 .. n |-> v[i]] /\ \A i \in 1 .. n : v[i] \in Directories(Chars)
    <2>1. ASSUME NEW i \in 1 .. n PROVE EntryOf(Entries[i], junk) \in Directories(Chars)
      BY <1>2, EntryConverted
    <2> QED BY <1>2, <2>1
  <1> HIDE DEF v, n
  <1>4. v \in Seq(Directories(Chars))
    BY <1>2, <1>3, Members
  <1>5. m = add_objects(Ok, v)
    BY DEF EntriesMessage, v
  <1> HIDE DEF m
  <1>6. m \in Responses(Chars)
    BY <1>4, <1>5, Replies, ResponseSet
  <1>7. m.objects = <<>> \o v
    BY <1>5, Replies DEF add_objects, ResponseNames
  <1>8. <<>> \o v = v
    BY <1>4
  <1> QED BY <1>6, <1>7, <1>8 DEF m, v

\* readdir lists the directory, and enters what it lists.
LEMMA ServeReaddirInv ==
    ASSUME Inv, call.phase = "received", Stays, ServeReaddir(call.req), table'.fhcount - 1 \in Fh
    PROVE  Inv' /\ Grows
  <1> DEFINE E == Entries
             l == Look(0)
  <1>1. call.req.command = <<"readdir">> /\ UNCHANGED <<diskVars, cache>> /\ Says(call.req)
    BY DEF ServeReaddir, NoDisk, Inv, Saying
  <1>2. call.req.dirfh = 0
    BY <1>1 DEF Says
  <1>3. \E junk \in {0, 1}, s \in {Iterate(Enter, l, E)} : Finish(s, EntriesMessage(junk))
    BY <1>2 DEF ServeReaddir
  <1>4. l \in Tries
    <2>1. Good(l) /\ l = [table |-> table, log |-> log, thrown |-> FALSE]
      BY LookRoot
    <2> HIDE DEF l
    <2>2. l = [table |-> l.table, log |-> l.log, thrown |-> l.thrown]
      BY <2>1
    <2> QED BY <2>1, <2>2, TriesKept
  <1> HIDE DEF l
  <1>5. PICK junk \in {0, 1} : Finish(Iterate(Enter, l, E), EntriesMessage(junk))
    BY <1>3
  <1> DEFINE s == Iterate(Enter, l, E)
             rep == EntriesMessage(junk)
  <1>6. s \in Tries
    BY <1>4, EntriesType, EnteredAll
  <1>7. Finish(s, rep)
    BY <1>5
  <1> HIDE DEF s
  <1>8. Good(s)
    <2>1. s.table.fhcount - 1 \in Fh
      BY <1>7 DEF Finish
    <2> QED BY <1>6, <2>1 DEF Tries
  <1>9. rep \in Responses(Chars) /\ rep.objects = [i \in DOMAIN E |-> EntryOf(E[i], junk)]
    BY EntriesReply
  <1> HIDE DEF rep
  <1>10. /\ call'.req = call.req
         /\ s.thrown => call'.phase = "failed"
         /\ ~ s.thrown => call'.rep = rep
    BY <1>7, <1>9, FinishFacts
  <1>11. Answers'
    <2>1. CASE s.thrown
      BY <1>10, <2>1 DEF Answers
    <2>2. CASE ~ s.thrown
      <3> DEFINE L == [i \in DOMAIN rep.objects |->
                            [name |-> rep.objects[i].name, st |-> toCmdstat(attr(rep.objects[i]))]]
                 told == [i \in DOMAIN L |-> <<L[i].name, L[i].st["st_ino"]>>]
                 there == [i \in DOMAIN E |-> <<E[i], StatOf(E[i]).st_ino>>]
      <3>1. Listing' = L
        BY <1>10, <2>2 DEF Listing, Rep
      <3>2. told = there
        <4>1. DOMAIN L = DOMAIN E /\ DOMAIN rep.objects = DOMAIN E
          BY <1>9
        <4>2. ASSUME NEW i \in DOMAIN E
              PROVE  L[i].name = E[i] /\ L[i].st["st_ino"] = StatOf(E[i]).st_ino
          <5>1. E[i] \in Path
            BY EntriesType
          <5>2. rep.objects[i] = EntryOf(E[i], junk)
            BY <1>9
          <5>3. L[i].name = EntryOf(E[i], junk).name
                /\ L[i].st = toCmdstat(attr(EntryOf(E[i], junk)))
            BY <4>1, <5>2
          <5> HIDE DEF E, L
          <5> QED BY <5>1, <5>3, EntryConverted
        <4> HIDE DEF E, L
        <4> QED BY <4>1, <4>2
      <3>3. entry' = entry /\ node' = node
        BY <1>1 DEF diskVars
      <3>4. [i \in DOMAIN Entries |-> <<Entries[i], StatOf(Entries[i]).st_ino>>]' = there
        BY <3>3 DEF Entries, StatOf
      <3>5. [i \in DOMAIN Listing |-> <<Listing[i].name, Listing[i].st["st_ino"]>>]' = told
        BY <3>1
      <3>6. \A d \in Telling \ {"readdir"} : <<"readdir">> # <<d>>
        BY OneElement
      <3> HIDE DEF E, L, told, there
      <3> QED BY <1>1, <1>10, <3>2, <3>4, <3>5, <3>6 DEF Answers, Telling
    <2> QED BY <2>1, <2>2
  <1>12. Agreement'
    <2>1. <<"readdir">> # <<"rename">>
      BY OneElement
    <2> QED BY <1>1, <1>7, <1>8, <1>9, <2>1, StillAgrees
  <1>13. DiskTyped' /\ OpenedRight'
    BY <1>1, DiskBefore, StillOpen DEF DiskTyped, diskVars
  <1>14. Grows
    BY <1>7, <1>8, <1>9, FinishFacts DEF Good, Grows
  <1> QED BY <1>7, <1>8, <1>9, <1>11, <1>12, <1>13, <1>14, Served DEF Good

-----------------------------------------------------------------------------
(* rename.                                                                  *)

\* A rename onto a path with a number gives that path the number of the other.
LEMMA RenamedOver ==
    ASSUME NEW t, TableInv(t), NEW p \in Path, NEW q \in Path, p # q, p # Root, q # Root,
           Mapped(t, p), Mapped(t, q)
    PROVE  /\ TableInv(RenameOver(t, p, q))
           /\ RenameOver(t, p, q).fhToPath[t.pathToFh[p]] = q
           /\ \A h \in Fh : t.fhToPath[h] \notin {p, q, NoPath} =>
                    RenameOver(t, p, q).fhToPath[h] = t.fhToPath[h]
  <1> DEFINE u == RenameOver(t, p, q)
             a == t.pathToFh[p]
             b == t.pathToFh[q]
             m1 == [t.pathToFh EXCEPT ![p] = NoFh]
             m2 == [m1 EXCEPT ![q] = a]
             f1 == [t.fhToPath EXCEPT ![b] = NoPath]
             f2 == [f1 EXCEPT ![a] = q]
  <1>1. t \in Table /\ t.pathToFh \in PathMap /\ t.fhToPath \in FhMap
    BY DEF TableInv, Table
  <1>2. a \in Fh /\ b \in Fh /\ t.fhToPath[a] = p /\ t.fhToPath[b] = q
    BY <1>1 DEF TableInv, PathMap, Mapped
  <1>3. a # b /\ a # 0 /\ b # 0
    <2>1. t.fhToPath[0] = Root
      BY DEF TableInv
    <2> QED BY <1>2, <2>1
  <1>4. u.pathToFh = m2 /\ u.fhToPath = f2 /\ u.fhcount = t.fhcount
        /\ u = [pathToFh |-> m2, fhToPath |-> f2, fhcount |-> t.fhcount]
    <2>1. t = [pathToFh |-> t.pathToFh, fhToPath |-> t.fhToPath, fhcount |-> t.fhcount]
      BY <1>1 DEF Table
    <2>2. u = [t EXCEPT !.pathToFh = m2, !.fhToPath = f2]
      BY DEF RenameOver
    <2> HIDE DEF m2, f2, u
    <2> QED BY <2>1, <2>2
  <1> HIDE DEF u
  <1>5. m1 \in PathMap /\ \A x \in Path : m1[x] = IF x = p THEN NoFh ELSE t.pathToFh[x]
    BY <1>1 DEF PathMap
  <1>6. f1 \in FhMap /\ \A h \in Fh : f1[h] = IF h = b THEN NoPath ELSE t.fhToPath[h]
    BY <1>1 DEF FhMap
  <1> HIDE DEF m1, f1, a, b
  <1>7. m2 \in PathMap /\ \A x \in Path : m2[x] = IF x = q THEN a ELSE m1[x]
    BY <1>2, <1>5 DEF PathMap
  <1>8. f2 \in FhMap /\ \A h \in Fh : f2[h] = IF h = a THEN q ELSE f1[h]
    BY <1>2, <1>6 DEF FhMap
  <1> HIDE DEF m2, f2
  <1>9. \A x \in Path : m2[x] = IF x = q THEN a ELSE IF x = p THEN NoFh ELSE t.pathToFh[x]
    BY <1>5, <1>7
  <1>10. \A h \in Fh : f2[h] = IF h = a THEN q ELSE IF h = b THEN NoPath ELSE t.fhToPath[h]
    BY <1>6, <1>8
  <1>11. TableInv(u)
    <2>1. u \in Table /\ u.fhcount - 1 \in Fh
      BY <1>1, <1>4, <1>7, <1>8 DEF Table, TableInv
    <2>2. u.pathToFh[Root] = 0 /\ u.fhToPath[0] = Root
      <3>1. Root \in Path /\ 0 \in Fh /\ t.pathToFh[Root] = 0 /\ t.fhToPath[0] = Root
        BY PathAssumption, MaxFhAssumption DEF Fh, TableInv
      <3> QED BY <1>3, <1>4, <1>9, <1>10, <3>1
    <2>3. ASSUME NEW x \in Path, u.pathToFh[x] # NoFh PROVE u.fhToPath[u.pathToFh[x]] = x
      <3>1. CASE x = q
        BY <1>2, <1>4, <1>9, <1>10, <3>1
      <3>2. CASE x # q
        <4>1. x # p /\ u.pathToFh[x] = t.pathToFh[x]
          BY <1>4, <1>9, <2>3, <3>2
        <4>2. t.pathToFh[x] \in Fh /\ t.fhToPath[t.pathToFh[x]] = x
          BY <1>1, <2>3, <4>1 DEF TableInv, PathMap
        <4>3. t.pathToFh[x] # a /\ t.pathToFh[x] # b
          BY <1>2, <3>2, <4>1, <4>2
        <4> QED BY <1>4, <1>10, <4>1, <4>2, <4>3
      <3> QED BY <3>1, <3>2
    <2>4. ASSUME NEW h \in Fh, u.fhToPath[h] # NoPath PROVE u.pathToFh[u.fhToPath[h]] = h
      <3>1. CASE h = a
        BY <1>2, <1>4, <1>9, <1>10, <3>1
      <3>2. CASE h # a
        <4>1. h # b /\ u.fhToPath[h] = t.fhToPath[h]
          BY <1>4, <1>10, <2>4, <3>2
        <4>2. t.fhToPath[h] \in Path /\ t.pathToFh[t.fhToPath[h]] = h
          BY <1>1, <2>4, <4>1 DEF TableInv, FhMap
        <4>3. t.fhToPath[h] # p /\ t.fhToPath[h] # q
          BY <3>2, <4>1, <4>2 DEF a, b
        <4> QED BY <1>4, <1>9, <4>1, <4>2, <4>3
      <3> QED BY <3>1, <3>2
    <2>5. ASSUME NEW h \in Fh, h >= u.fhcount PROVE u.fhToPath[h] = NoPath
      <3>1. t.fhToPath[h] = NoPath
        BY <1>4, <2>5 DEF TableInv
      <3>2. h # a /\ h # b
        BY <1>2, <3>1, PathAssumption
      <3> QED BY <1>4, <1>10, <3>1, <3>2
    <2> QED BY <2>1, <2>2, <2>3, <2>4, <2>5 DEF TableInv
  <1>12. ASSUME NEW h \in Fh, t.fhToPath[h] \notin {p, q, NoPath} PROVE u.fhToPath[h] = t.fhToPath[h]
    BY <1>2, <1>4, <1>10, <1>12
  <1>13. u.fhToPath[a] = q
    BY <1>2, <1>4, <1>10
  <1> QED BY <1>11, <1>12, <1>13 DEF u, a

\* A rename takes the number of the old path away.
LEMMA RenamedNew ==
    ASSUME NEW t, TableInv(t), NEW p \in Path, p # Root, Mapped(t, p)
    PROVE  /\ TableInv(RenameNew(t, p))
           /\ \A h \in Fh : t.fhToPath[h] # p => RenameNew(t, p).fhToPath[h] = t.fhToPath[h]
  <1> DEFINE u == RenameNew(t, p)
             a == t.pathToFh[p]
             m == [t.pathToFh EXCEPT ![p] = NoFh]
             f == [t.fhToPath EXCEPT ![a] = NoPath]
  <1>1. t \in Table /\ t.pathToFh \in PathMap /\ t.fhToPath \in FhMap
    BY DEF TableInv, Table
  <1>2. a \in Fh /\ t.fhToPath[a] = p
    BY <1>1 DEF TableInv, PathMap, Mapped
  <1>3. a # 0
    <2>1. t.fhToPath[0] = Root
      BY DEF TableInv
    <2> QED BY <1>2, <2>1
  <1>4. u.pathToFh = m /\ u.fhToPath = f /\ u.fhcount = t.fhcount
        /\ u = [pathToFh |-> m, fhToPath |-> f, fhcount |-> t.fhcount]
    <2>1. t = [pathToFh |-> t.pathToFh, fhToPath |-> t.fhToPath, fhcount |-> t.fhcount]
      BY <1>1 DEF Table
    <2>2. u = [t EXCEPT !.pathToFh = m, !.fhToPath = f]
      BY <2>1 DEF RenameNew
    <2> HIDE DEF m, f, u
    <2> QED BY <2>1, <2>2
  <1> HIDE DEF u
  <1>5. m \in PathMap /\ \A x \in Path : m[x] = IF x = p THEN NoFh ELSE t.pathToFh[x]
    BY <1>1 DEF PathMap
  <1>6. f \in FhMap /\ \A h \in Fh : f[h] = IF h = a THEN NoPath ELSE t.fhToPath[h]
    BY <1>1 DEF FhMap
  <1> HIDE DEF m, f, a
  <1>7. TableInv(u)
    <2>1. u \in Table /\ u.fhcount - 1 \in Fh
      BY <1>1, <1>4, <1>5, <1>6 DEF Table, TableInv
    <2>2. u.pathToFh[Root] = 0 /\ u.fhToPath[0] = Root
      <3>1. Root \in Path /\ 0 \in Fh /\ t.pathToFh[Root] = 0 /\ t.fhToPath[0] = Root
        BY PathAssumption, MaxFhAssumption DEF Fh, TableInv
      <3> QED BY <1>3, <1>4, <1>5, <1>6, <3>1
    <2>3. ASSUME NEW x \in Path, u.pathToFh[x] # NoFh PROVE u.fhToPath[u.pathToFh[x]] = x
      <3>1. x # p /\ u.pathToFh[x] = t.pathToFh[x]
        BY <1>4, <1>5, <2>3
      <3>2. t.pathToFh[x] \in Fh /\ t.fhToPath[t.pathToFh[x]] = x
        BY <1>1, <2>3, <3>1 DEF TableInv, PathMap
      <3>3. t.pathToFh[x] # a
        BY <1>2, <3>1, <3>2
      <3> QED BY <1>4, <1>6, <3>1, <3>2, <3>3
    <2>4. ASSUME NEW h \in Fh, u.fhToPath[h] # NoPath PROVE u.pathToFh[u.fhToPath[h]] = h
      <3>1. h # a /\ u.fhToPath[h] = t.fhToPath[h]
        BY <1>4, <1>6, <2>4
      <3>2. t.fhToPath[h] \in Path /\ t.pathToFh[t.fhToPath[h]] = h
        BY <1>1, <2>4, <3>1 DEF TableInv, FhMap
      <3>3. t.fhToPath[h] # p
        BY <3>1, <3>2 DEF a
      <3> QED BY <1>4, <1>5, <3>1, <3>2, <3>3
    <2>5. ASSUME NEW h \in Fh, h >= u.fhcount PROVE u.fhToPath[h] = NoPath
      <3>1. t.fhToPath[h] = NoPath
        BY <1>4, <2>5 DEF TableInv
      <3> QED BY <1>4, <1>6, <3>1
    <2> QED BY <2>1, <2>2, <2>3, <2>4, <2>5 DEF TableInv
  <1>8. ASSUME NEW h \in Fh, t.fhToPath[h] # p PROVE u.fhToPath[h] = t.fhToPath[h]
    BY <1>2, <1>4, <1>6, <1>8
  <1> QED BY <1>7, <1>8 DEF u

\* The paths and the handle of a rename.
LEMMA RenameFacts ==
    ASSUME Inv, call.phase = "received", call.req.command = <<"rename">>
    PROVE  /\ op.cb = "rename" /\ op.path \in Name /\ op.to \in Name /\ op.path # op.to
           /\ op.path \in Path /\ op.to \in Path /\ op.path # Root /\ op.to # Root
           /\ pathtofh[op.path] \in Fh /\ call.req.fromfh = pathtofh[op.path]
           /\ table.fhToPath[pathtofh[op.path]] = op.path
           /\ table.pathToFh[op.path] = pathtofh[op.path]
           /\ PathAt(call.req.fromfh) = op.path /\ PathAt(call.req.todirfh) \o call.req.name = op.to
           /\ Look(call.req.fromfh) = [table |-> table, log |-> log, thrown |-> FALSE]
           /\ Good(Look(call.req.fromfh))
  <1>1. /\ op.cb = "rename" /\ Says(call.req) /\ op.path \in Name /\ op.path \in Path
        /\ Name \subseteq Path
    <2>1. "rename" \in Callbacks \ {"getattr", "write"} /\ "rename" \in NameWalks
      BY DEF Callbacks, NameWalks
    <2> QED BY <2>1, CommandFacts
  <1>2. op.to \in Name /\ op.path # op.to
    BY <1>1 DEF Inv, Shape
  <1>3. op.to \in Path /\ op.path # Root /\ op.to # Root
    BY <1>1, <1>2, TextsOf
  <1>4. /\ call.req.fromfh = pathtofh[op.path] /\ call.req.todirfh = 0 /\ call.req.name = op.to
        /\ pathtofh[op.path] # NoFh
    BY <1>1 DEF Says
  <1>5. pathtofh[op.path] \in Fh
    <2>1. pathtofh \in PathMap
      BY DEF Inv, Typed, ClientType
    <2> QED BY <1>1, <1>4, <2>1 DEF PathMap
  <1>6. table.fhToPath[pathtofh[op.path]] = op.path
    BY <1>1, <1>4, AllAgree DEF Renamed
  <1>7. table.pathToFh[op.path] = pathtofh[op.path]
    <2>1. op.path # NoPath
      BY <1>1, PathAssumption
    <2> QED BY <1>5, <1>6, <2>1 DEF Inv, TableInv
  <1>8. /\ PathAt(call.req.fromfh) = op.path /\ Good(Look(call.req.fromfh))
        /\ Look(call.req.fromfh) = [table |-> table, log |-> log, thrown |-> FALSE]
    BY <1>1, <1>4, <1>6, LookKnown
  <1>9. PathAt(call.req.todirfh) \o call.req.name = op.to
    BY <1>3, <1>4, LookRoot, RootPath
  <1> QED BY <1>1, <1>2, <1>3, <1>4, <1>5, <1>6, <1>7, <1>8, <1>9

\* A rename that has happened leaves the client's other handles good.
LEMMA RenameDone ==
    ASSUME Unmixed, Inv, call.phase = "received", Stays, call.req.command = <<"rename">>,
           NEW s, Finish(s, Ok), ~ s.thrown, TableInv(s.table), s.log \in Log,
           \A h \in Fh : table.fhToPath[h] \notin {op.path, op.to, NoPath} =>
                    s.table.fhToPath[h] = table.fhToPath[h],
           pathtofh[op.to] # NoFh => s.table.fhToPath[pathtofh[op.path]] = op.to,
           DiskTyped', OpenedRight'
    PROVE  Inv'
  <1> USE DEF Stays, clientVars
  <1>1. Ok \in Responses(Chars) /\ Ok.success = 0
    BY Replies
  <1>2. call'.req = call.req /\ table' = s.table /\ call'.phase = "replied" /\ call'.rep = Ok
    BY <1>1, FinishFacts
  <1>3. Answers'
    <2>1. \A d \in Telling : <<"rename">> # <<d>>
      BY OneElement DEF Telling
    <2> QED BY <1>2, <2>1 DEF Answers, Telling
  <1>4. Renamed'
    BY <1>1, <1>2 DEF Renamed
  <1>5. ASSUME NEW x \in Path \ {op.path, op.to} PROVE Agrees(x)'
    <2>1. ASSUME pathtofh[x] # NoFh PROVE table'.fhToPath[pathtofh[x]] = x
      <3>1. table.fhToPath[pathtofh[x]] = x
        BY <2>1, AllAgree DEF Renamed
      <3>2. pathtofh[x] \in Fh
        <4>1. pathtofh \in PathMap
          BY DEF Inv, Typed, ClientType
        <4> QED BY <2>1, <4>1 DEF PathMap
      <3> QED BY <1>2, <3>1, <3>2, PathAssumption
    <2> QED BY <2>1 DEF Agrees
  <1>6. load.version = 2 => chunks = <<>>
    <2>1. op.cb = "rename" /\ op.pc # "idle"
      BY RenameFacts DEF Inv, Saying, Says
    <2>2. "rename" \in load.use /\ (chunks # <<>> => "write" \in load.use)
      BY <2>1 DEF Inv, Shape
    <2>3. load \in Workload
      BY DEF Inv, Typed, ClientType
    <2> QED BY <2>2, <2>3 DEF Unmixed
  <1>7. load.version = 2 => \A i \in DOMAIN chunks : Known(table, chunks[i].fh)'
    BY <1>6
  <1>8. Agreement'
    <2>1. pathtofh'[Root] = 0
      BY DEF Inv, Agreement
    <2>2. (pathtofh[op.to] # NoFh => table.fhToPath[pathtofh[op.path]] = op.to)'
      BY <1>2
    <2> QED BY <1>4, <1>5, <1>7, <2>1, <2>2 DEF Agreement
  <1> QED BY <1>1, <1>3, <1>8, Served

\* rename.
LEMMA ServeRenameInv ==
    ASSUME Unmixed, Inv, call.phase = "received", Stays, ServeRename(call.req),
           table'.fhcount - 1 \in Fh
    PROVE  Inv'
  <1> DEFINE p == op.path
             q == op.to
             s == Look(call.req.fromfh)
             e == Enter(s, q)
             error == RenameError(p, q)
  <1>1. call.req.command = <<"rename">> /\ cache' = cache
    BY DEF ServeRename
  <1>2. /\ PathAt(call.req.fromfh) = p /\ PathAt(call.req.todirfh) \o call.req.name = q
        /\ p \in Name /\ q \in Name /\ p \in Path /\ q \in Path /\ p # q /\ p # Root /\ q # Root
        /\ s = [table |-> table, log |-> log, thrown |-> FALSE] /\ Good(s)
        /\ pathtofh[p] \in Fh /\ table.pathToFh[p] = pathtofh[p]
        /\ table.fhToPath[pathtofh[p]] = p
    BY <1>1, RenameFacts
  <1>3. IF error # 0 THEN Finish(s, Refused(error)) /\ NoDisk
        ELSE /\ entry' = [entry EXCEPT ![p] = 0, ![q] = entry[p]]
             /\ IF Mapped(s.table, q)
                THEN Finish([s EXCEPT !.table = RenameOver(@, p, q)], Ok)
                ELSE Finish(IF e.thrown THEN e ELSE [e EXCEPT !.table = RenameNew(@, p)], Ok)
             /\ UNCHANGED <<node, fds>>
    BY <1>2 DEF ServeRename
  <1>4. DiskTyped /\ Ok \in Responses(Chars) /\ error \in Int
    BY DiskBefore, Replies DEF RenameError, ENOENT, ENOTDIR, EISDIR
  <1>5. s.table = table /\ s.log = log /\ ~ s.thrown
    BY <1>2
  <1> HIDE DEF error, s
  <1>6. CASE error # 0
    <2>1. Finish(s, Refused(error)) /\ UNCHANGED diskVars
      BY <1>3, <1>6 DEF NoDisk
    <2>2. Refused(error) \in Responses(Chars) /\ Refused(error).success # 0
      BY <1>4, Replies
    <2>3. DiskTyped' /\ OpenedRight'
      BY <1>1, <1>4, <2>1, StillOpen DEF DiskTyped, diskVars
    <2> QED BY <1>1, <1>2, <2>1, <2>2, <2>3, PlainInv DEF Telling
  <1>7. CASE error = 0
    <2>1. entry' = [entry EXCEPT ![p] = 0, ![q] = entry[p]] /\ UNCHANGED <<node, fds>>
      BY <1>3, <1>7
    <2>2. DiskTyped'
      <3> DEFINE n1 == [entry EXCEPT ![p] = 0]
      <3>1. n1 \in [Name -> Ino \cup {0}] /\ entry[p] \in Ino \cup {0}
        BY <1>2, <1>4 DEF DiskTyped
      <3>2. entry' = [n1 EXCEPT ![q] = entry[p]]
        BY <2>1
      <3> HIDE DEF n1
      <3>3. entry' \in [Name -> Ino \cup {0}]
        BY <3>1, <3>2
      <3> QED BY <1>1, <1>4, <2>1, <3>3 DEF DiskTyped
    <2>3. OpenedRight'
      BY <2>1, StillOpen
    <2>4. Mapped(table, p) /\ TableInv(table) /\ log \in Log
      <3>1. table.pathToFh[p] # NoFh
        BY <1>2, MaxFhAssumption DEF Fh, NoFh
      <3> QED BY <1>2, <1>5, <3>1 DEF Mapped, Good
    <2>5. CASE Mapped(table, q)
      <3> DEFINE z == [s EXCEPT !.table = RenameOver(@, p, q)]
                 u == RenameOver(table, p, q)
      <3>1. Finish(z, Ok)
        BY <1>3, <1>5, <1>7, <2>5
      <3>2. z = [table |-> u, log |-> log, thrown |-> FALSE]
        <4>1. z = [s EXCEPT !.table = u]
          BY <1>5
        <4> HIDE DEF z, u
        <4> QED BY <1>2, <4>1
      <3>3. /\ TableInv(u) /\ u.fhToPath[pathtofh[p]] = q
            /\ \A h \in Fh : table.fhToPath[h] \notin {p, q, NoPath} =>
                    u.fhToPath[h] = table.fhToPath[h]
        <4> HIDE DEF p, q, u
        <4>1. /\ TableInv(RenameOver(table, p, q))
              /\ RenameOver(table, p, q).fhToPath[table.pathToFh[p]] = q
              /\ \A h \in Fh : table.fhToPath[h] \notin {p, q, NoPath} =>
                    RenameOver(table, p, q).fhToPath[h] = table.fhToPath[h]
          BY <1>2, <2>4, <2>5, RenamedOver
        <4> QED BY <1>2, <4>1 DEF u
      <3> HIDE DEF z, u
      <3>4. z.table = u /\ z.log = log /\ ~ z.thrown
        BY <3>2
      <3> QED BY <1>1, <2>2, <2>3, <2>4, <3>1, <3>3, <3>4, RenameDone
    <2>6. CASE ~ Mapped(table, q)
      <3>1. Finish(IF e.thrown THEN e ELSE [e EXCEPT !.table = RenameNew(@, p)], Ok)
        BY <1>3, <1>5, <1>7, <2>6
      <3>2. e = [table |-> e.table, log |-> e.log, thrown |-> e.thrown]
        BY <1>5, <2>6 DEF Enter
      <3> HIDE DEF e
      <3>3. CASE e.thrown
        <4>1. Finish(e, Ok)
          BY <3>1, <3>3
        <4>2. Good(e)
          <5>1. e.table.fhcount - 1 \in Fh
            BY <4>1 DEF Finish
          <5> QED BY <1>2, <5>1, EnterGood DEF e
        <4> QED BY <1>1, <1>4, <2>2, <2>3, <3>3, <4>1, <4>2, PlainInv DEF Telling
      <3>4. CASE ~ e.thrown
        <4> DEFINE z == [e EXCEPT !.table = RenameNew(@, p)]
                   u == RenameNew(e.table, p)
        <4>1. Finish(z, Ok)
          BY <3>1, <3>4
        <4>2. z = [table |-> u, log |-> e.log, thrown |-> e.thrown]
          <5>1. z = [e EXCEPT !.table = u]
            OBVIOUS
          <5> HIDE DEF z, u
          <5> QED BY <3>2, <3>4, <5>1
        <4>3. u.fhcount = e.table.fhcount
          BY DEF RenameNew
        <4> HIDE DEF z, u
        <4>4. z.table = u /\ z.log = e.log /\ ~ z.thrown
          BY <3>4, <4>2
        <4>5. e.table.fhcount - 1 \in Fh
          BY <4>1, <4>3, <4>4 DEF Finish
        <4>6. /\ Good(e) /\ \A h \in Fh : Known(table, h) => e.table.fhToPath[h] = table.fhToPath[h]
              /\ \A x \in Path : Mapped(table, x) => e.table.pathToFh[x] = table.pathToFh[x]
          BY <1>2, <1>5, <4>5, EnterGood DEF e
        <4>7. TableInv(e.table) /\ Mapped(e.table, p) /\ e.log \in Log
          BY <1>2, <2>4, <4>6 DEF Good, Mapped
        <4>8. TableInv(u) /\ \A h \in Fh : e.table.fhToPath[h] # p => u.fhToPath[h] = e.table.fhToPath[h]
          <5> HIDE DEF p
          <5> QED BY <1>2, <4>7, RenamedNew DEF u
        <4>9. \A h \in Fh : table.fhToPath[h] \notin {p, q, NoPath} =>
                    u.fhToPath[h] = table.fhToPath[h]
          BY <4>6, <4>8 DEF Known
        <4>10. pathtofh[q] = NoFh
          <5>1. ASSUME pathtofh[q] # NoFh PROVE FALSE
            <6>1. table.fhToPath[pathtofh[q]] = q
              BY <1>2, <5>1, AllAgree DEF Renamed
            <6>2. pathtofh[q] \in Fh /\ q # NoPath
              <7>1. pathtofh \in PathMap
                BY DEF Inv, Typed, ClientType
              <7> QED BY <1>2, <5>1, <7>1, PathAssumption DEF PathMap
            <6>3. table.pathToFh[q] = pathtofh[q]
              BY <2>4, <6>1, <6>2 DEF TableInv
            <6> QED BY <2>6, <5>1, <6>3 DEF Mapped
          <5> QED BY <5>1
        <4> QED BY <1>1, <2>2, <2>3, <4>1, <4>4, <4>7, <4>8, <4>9, <4>10, RenameDone
      <3> QED BY <3>3, <3>4
    <2> QED BY <2>5, <2>6
  <1> QED BY <1>6, <1>7

-----------------------------------------------------------------------------
(* The steps together.                                                      *)

\* Whatever a handler does keeps the invariant.
LEMMA ServeCallInv ==
    ASSUME Unmixed, Inv, ServeCall
    PROVE  Inv' /\ (call.req.command # <<"rename">> => Grows)
  <1>1. call.phase = "received" /\ Stays /\ table'.fhcount - 1 \in Fh /\ Serve(call.req)
    <2>1. expect \in [Ino -> Seq(Byte \cup {Unsure})] /\ <<>> \in Seq(Byte \cup {Unsure})
      BY Short DEF Inv, Typed, ClientType
    <2>2. expect' \in [Ino -> Seq(Byte \cup {Unsure})]
      BY <2>1 DEF ServeCall, Forget
    <2> QED BY <2>2 DEF ServeCall, Stays
  <1>2. CASE ServeLookup(call.req) \/ ServeMkdir(call.req)
    BY <1>1, <1>2, ServeLookupInv, ServeMkdirInv
  <1>3. CASE ServeRmdir(call.req) \/ ServeUnlink(call.req) \/ ServeRename(call.req)
    <2>1. ServeRename(call.req) => call.req.command = <<"rename">>
      BY DEF ServeRename
    <2> QED BY <1>1, <1>3, <2>1, ServeRmdirInv, ServeUnlinkInv, ServeRenameInv
  <1>4. CASE ServeOpen(call.req) \/ ServeCreate(call.req)
    BY <1>1, <1>4, ServeOpenInv, ServeCreateInv
  <1>5. CASE ServeReaddir(call.req) \/ ServeGetattr(call.req)
    BY <1>1, <1>5, ServeReaddirInv, ServeGetattrInv
  <1>6. CASE ServeRead(call.req) \/ ServeRelease(call.req) \/ ServeFsync(call.req)
             \/ ServeFlush(call.req)
    BY <1>1, <1>6, ServeReadInv, ServeReleaseInv, ServeFsyncInv, ServeFlushInv
  <1>7. CASE ServeWriteThrough(call.req) \/ ServeWriteBack(call.req)
    BY <1>1, <1>7, ServeWriteThroughInv, ServeWriteBackInv
  <1>8. CASE ServeUnknown(call.req) \/ ServeCommit(call.req)
    BY <1>1, <1>8, ServeUnknownInv, ServeCommitInv
  <1> QED BY <1>1, <1>2, <1>3, <1>4, <1>5, <1>6, <1>7, <1>8 DEF Serve

\* The server starts with an empty table and the client with the handle of the root.
LEMMA InitInv == Init => Inv
  <1> SUFFICES ASSUME Init PROVE Inv
    OBVIOUS
  <1> USE DEF Init
  <1>1. /\ 0 \in Fh /\ 1 - 1 = 0 /\ Root \in Path /\ 0 \in Nat /\ Root # NoPath
        /\ \A h \in Fh : h \in Nat /\ h # NoFh
    BY PathAssumption, MaxFhAssumption DEF Fh, NoFh
  <1>2. TableInv(table) /\ table \in Table
    <2> DEFINE m == [p \in Path |-> IF p = Root THEN 0 ELSE NoFh]
               f == [h \in Fh |-> IF h = 0 THEN Root ELSE NoPath]
    <2>1. table \in Table /\ table.pathToFh = m /\ table.fhToPath = f /\ table.fhcount = 1
      BY NewTableType DEF NewTable
    <2>2. \A p \in Path : m[p] = IF p = Root THEN 0 ELSE NoFh
      OBVIOUS
    <2>3. \A h \in Fh : f[h] = IF h = 0 THEN Root ELSE NoPath
      OBVIOUS
    <2> HIDE DEF m, f
    <2>4. \A h \in Fh : h >= 1 => h # 0
      BY <1>1
    <2> QED BY <1>1, <2>1, <2>2, <2>3, <2>4 DEF TableInv
  <1>3. log \in Log
    BY DEF NoLog, Log
  <1>4. /\ fds \in [Fd -> Ino \cup {0}] /\ cache \in Seq(Writes) /\ chunks \in Seq(Chunks)
        /\ opened \in {<<>>} \cup {<<f>> : f \in OpenFiles} /\ todo \in Seq(Name)
    BY Short
  <1>5. entry \in [Name -> Ino \cup {0}]
    <2>1. PICK there \in SUBSET load.there :
              entry = [n \in Name |-> IF n \in there THEN FirstInos[n] ELSE 0]
      OBVIOUS
    <2>2. FirstInos \in [Name -> Ino]
      BY CallsAssumption DEF FirstInos
    <2> QED BY <2>1, <2>2
  <1>6. node \in Nodes
    <2>1. NewFile("file", 0) \in [kind : {"file", "dir"}, mode : {0, NewMode}, data : Data]
      BY NewFileKind
    <2>2. node = [i \in Ino |-> NewFile("file", 0)]
      OBVIOUS
    <2> QED BY <2>1, <2>2 DEF Nodes
  <1>7. ServerType
    BY <1>2, <1>3, <1>4, <1>5, <1>6 DEF ServerType
  <1>8. op \in Ops /\ call \in CallType /\ call.phase = "none" /\ op.cb = "none" /\ op.pc = "idle"
        /\ op.path = Root
    <2>1. Idle \in Ops
      BY <1>1 DEF Idle, Ops
    <2>2. Idle.cb = "none" /\ Idle.pc = "idle" /\ Idle.path = Root
      BY DEF Idle
    <2> QED BY <2>1, <2>2, NoCallType
  <1>9. pathtofh \in PathMap
    BY <1>1 DEF PathMap
  <1>10. ClientType
    <2>1. drawn \in 0 .. Len(Draw)
      <3>1. Draw \in Seq(Nat)
        BY CallsAssumption
      <3>2. Len(Draw) \in Nat
        BY <3>1
      <3> QED BY <3>2
    <2>2. expect \in [Ino -> Seq(Byte \cup {Unsure})]
      <3>1. <<>> \in Seq(Byte \cup {Unsure})
        OBVIOUS
      <3> QED BY <3>1
    <2> QED BY <1>4, <1>8, <1>9, <2>1, <2>2 DEF ClientType
  <1>11. Typed
    BY <1>7, <1>8, <1>10 DEF Typed
  <1>12. Shape
    BY <1>8 DEF Shape, NameWalks, FileOps
  <1>13. Saying /\ Answers
    BY <1>8 DEF Saying, Answers
  <1>14. Agreement
    <2>1. \A p \in Path : Agrees(p)
      <3> TAKE p \in Path
      <3>1. pathtofh[p] # NoFh => p = Root /\ pathtofh[p] = 0
        OBVIOUS
      <3>2. table.fhToPath[0] = Root
        BY <1>2 DEF TableInv
      <3> QED BY <3>1, <3>2 DEF Agrees
    <2>2. pathtofh[Root] = 0
      BY <1>1
    <2>3. ~ Renamed
      BY <1>8 DEF Renamed
    <2> QED BY <2>1, <2>2, <2>3 DEF Agreement
  <1>15. OpenedRight
    BY DEF OpenedRight
  <1> QED BY <1>2, <1>11, <1>12, <1>13, <1>14, <1>15 DEF Inv

\* A step that changes nothing keeps the invariant.
LEMMA StutterInv ==
    ASSUME Inv, UNCHANGED vars
    PROVE  Inv'
  <1> USE DEF vars, serverVars, diskVars, clientVars
  <1>1. Typed'
    BY DEF Inv, Typed, ServerType, ClientType
  <1>2. Shape'
    BY DEF Inv, Shape
  <1>3. Saying'
    BY DEF Inv, Saying, Says, Goal, Subject, Callback, Handle
  <1>4. TableInv(table)'
    BY DEF Inv, TableInv
  <1>5. Agreement'
    BY DEF Inv, Agreement, Agrees, Renamed, Known
  <1>6. Answers'
    <2>1. Goal' = Goal /\ Rep' = Rep /\ Stated' = Stated /\ Listing' = Listing /\ Entries' = Entries
      BY DEF Goal, Subject, Callback, Rep, Stated, Listing, Entries
    <2>2. \A p : StatOf(p)' = StatOf(p) /\ KindAt(p)' = KindAt(p)
      BY DEF StatOf, KindAt
    <2>3. StatOf(Goal)' = StatOf(Goal) /\ KindAt(Goal)' = KindAt(Goal)
      BY <2>1 DEF StatOf, KindAt
    <2>4. [i \in DOMAIN Entries |-> <<Entries[i], StatOf(Entries[i]).st_ino>>]' =
          [i \in DOMAIN Entries |-> <<Entries[i], StatOf(Entries[i]).st_ino>>]
      BY DEF Entries, StatOf
    <2> QED BY <2>1, <2>3, <2>4 DEF Inv, Answers
  <1>7. OpenedRight'
    BY DEF Inv, OpenedRight, InoOf
  <1> QED BY <1>1, <1>2, <1>3, <1>4, <1>5, <1>6, <1>7 DEF Inv

\* Every step keeps the invariant.
LEMMA NextInv ==
    ASSUME Unmixed, Inv, [Next]_vars
    PROVE  Inv'
  <1>1. CASE Ask
    BY <1>1, AskInv
  <1>2. CASE Proceed
    BY <1>2, ProceedInv
  <1>3. CASE Decode
    BY <1>3, DecodeInv
  <1>4. CASE ServeCall
    BY <1>4, ServeCallInv
  <1>5. CASE Lose
    BY <1>5, LoseInv
  <1>6. CASE Finished
    BY <1>6, StutterInv DEF Finished
  <1>7. CASE UNCHANGED vars
    BY <1>7, StutterInv
  <1> QED BY <1>1, <1>2, <1>3, <1>4, <1>5, <1>6, <1>7 DEF Next

-----------------------------------------------------------------------------
(* What follows.                                                            *)

\* The invariant implies the types a run checks.
LEMMA InvTypes == Inv => TypeOK
  <1> SUFFICES ASSUME Inv PROVE TypeOK
    OBVIOUS
  <1>1. ServerType /\ ClientType
    BY DEF Inv, Typed
  <1>2. \A i \in Ino : node[i].kind \in {"file", "dir"} /\ node[i].data \in Seq(Byte)
    <2> TAKE i \in Ino
    <2>1. node[i] \in [kind : {"file", "dir"}, mode : {0, NewMode}, data : Data]
      BY <1>1 DEF ServerType, Nodes
    <2> QED BY <2>1 DEF Data
  <1>3. \A i \in DOMAIN opened : opened[i].fh \in Fd /\ opened[i].flags = NewFlags
    <2>1. CASE opened = <<>>
      BY <2>1
    <2>2. CASE opened \in {<<f>> : f \in OpenFiles}
      <3>1. PICK f \in OpenFiles : opened = <<f>>
        BY <2>2
      <3>2. f.fh \in Fd /\ f.flags = NewFlags
        BY DEF OpenFiles
      <3>3. \A i \in DOMAIN opened : opened[i] = f
        BY <3>1
      <3> QED BY <3>2, <3>3
    <2> QED BY <1>1, <2>1, <2>2 DEF ClientType
  <1>4. todo \in Seq(Path)
    <2>1. todo \in Seq(Name) /\ Name \subseteq Path
      BY <1>1, TextsOf DEF ClientType
    <2> QED BY <2>1
  <1> QED BY <1>1, <1>2, <1>3, <1>4 DEF TypeOK, ServerType, ClientType

\* The invariant says what getattr and readdir tell.
LEMMA InvTold == Inv => Told
BY DEF Inv, Answers, Told

\* Every behaviour keeps the invariant.
LEMMA Invariance == Unmixed => (Spec => []Inv)
  <1> SUFFICES ASSUME Unmixed PROVE Spec => []Inv
    OBVIOUS
  <1>1. Init => Inv
    BY InitInv
  <1>2. Inv /\ [Next]_vars => Inv'
    BY NextInv
  <1> QED BY <1>1, <1>2, PTL DEF Spec

\* Type correctness: what the codec, the conversions between the C structures and the
\* messages, and the system calls leave in the table, in the descriptors and in the
\* files stays in range, with a server of either version, whatever RPCs fail.
THEOREM CallsTypeCorrect == Unmixed => (Spec => []TypeOK)
  <1> SUFFICES ASSUME Unmixed PROVE Spec => []TypeOK
    OBVIOUS
  <1>1. Spec => []Inv
    BY Invariance
  <1>2. Inv => TypeOK
    BY InvTypes
  <1> QED BY <1>1, <1>2, PTL

\* The descriptor the client holds is that of the file it opened until the release,
\* through renames, lost answers and descriptors that leaked.
THEOREM DescriptorKept == Unmixed => (Spec => []OpenedRight)
  <1> SUFFICES ASSUME Unmixed PROVE Spec => []OpenedRight
    OBVIOUS
  <1>1. Spec => []Inv
    BY Invariance
  <1>2. Inv => OpenedRight
    BY DEF Inv
  <1> QED BY <1>1, <1>2, PTL

\* getattr tells the attributes of the entry the application named, and readdir the
\* names and inodes of the directory.
THEOREM AnswersTell == Unmixed => (Spec => []Told)
  <1> SUFFICES ASSUME Unmixed PROVE Spec => []Told
    OBVIOUS
  <1>1. Spec => []Inv
    BY Invariance
  <1>2. Inv => Told
    BY InvTold
  <1> QED BY <1>1, <1>2, PTL

\* Every request and every response is decoded as the message that was sent, or, when
\* a name is not UTF-8 or the message too large for gRPC, not at all: with V1, and with V2
\* for applications that do not both write and rename.
THEOREM MessagesArrive == Unmixed => (Spec => RoundTrip)
  <1> SUFFICES ASSUME Unmixed PROVE Spec => RoundTrip
    OBVIOUS
  <1> DEFINE Came ==
        IF call.phase = "sent"
        THEN IF /\ IsUtf8(call.req.name \o call.req.path)
                /\ WireSize(request_Serialize(call.req)) <= MaxMessage
             THEN call'.phase = "received" /\ call'.req = call.req ELSE call'.phase = "failed"
        ELSE IF /\ \A i \in DOMAIN call.rep.objects : IsUtf8(call.rep.objects[i].name)
                /\ WireSize(response_Serialize(call.rep)) <= MaxMessage
             THEN call'.phase = "arrived" /\ call'.rep = call.rep ELSE call'.phase = "failed"
  <1>1. Spec => []Inv
    BY Invariance
  <1>2. Inv /\ [Next]_vars => [Decode => Came]_vars
    BY RoundTripStep
  <1>3. RoundTrip <=> [][Decode => Came]_vars
    BY DEF RoundTrip
  <1> QED BY <1>1, <1>2, <1>3, PTL DEF Spec

=============================================================================
