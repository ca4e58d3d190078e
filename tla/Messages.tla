------------------------------ MODULE Messages ------------------------------
(***************************************************************************)
(* The messages of nfs.proto as the generated classes hold, encode and     *)
(* decode them.  A message is a record of all its fields.  A submessage is *)
(* a sequence of at most one message (the pointer may be null), so that it *)
(* is encoded like a repeated one.  A text is the sequence of names it is  *)
(* made of and the data of a file a sequence of bytes; each of their       *)
(* elements takes one byte.                                                *)
(*                                                                         *)
(* On the wire a message is a sequence of tokens in field order.  A field  *)
(* that has its default value is left out.  A token remembers both the     *)
(* length written in front of its payload, which ByteSizeLong computed,    *)
(* and the length of the payload itself: decoding fails if they differ.    *)
(* Integers have widths Bits32 and Bits64 and a varint Septet bits a byte. *)
(***************************************************************************)
EXTENDS Integers, SequencesExt

CONSTANTS
    Bits32, Bits64,  \* bound: the widths of int32 and uint64
    Septet,          \* bound: the bits a byte of a varint carries
    Garbled,         \* names that are not UTF-8
    MaxMessage       \* the largest message gRPC receives (4 MB)

ASSUME WidthAssumption ==
    /\ {Bits32, Bits64, Septet, MaxMessage} \subseteq Nat \ {0}
    /\ Bits32 < Bits64

\* What the proofs use of powers of two.
ASSUME PowerAssumption ==
    /\ {2^(Bits32 - 1), 2^(Bits64 - Bits32)} \subseteq Nat \ {0}
    /\ 2^Bits32 = 2 * 2^(Bits32 - 1)
    /\ 2^Bits64 = 2^(Bits64 - Bits32) * 2^Bits32 /\ 2^(Bits64 - Bits32) > 1

\* What C++ makes of x when it is converted to these types.
UInt32(x) == x % 2^Bits32
UInt64(x) == x % 2^Bits64
Int32(x) == IF UInt32(x) < 2^(Bits32 - 1) THEN UInt32(x) ELSE UInt32(x) - 2^Bits32

-----------------------------------------------------------------------------
(* The fields, in the order of their numbers.                               *)

Scalar == {"int32", "uint32", "uint64"}
Text == {"string", "bytes"}

Field(name, kind) == [name |-> name, kind |-> kind]

request_Fields == <<
    Field("name", "string"), Field("attr", "attributes"), Field("todirfh", "int32"),
    Field("fromfh", "int32"), Field("fh", "int32"), Field("fi", "fileInfo"),
    Field("size", "int32"), Field("offset", "int32"), Field("dirfh", "int32"),
    Field("path", "string"), Field("data", "bytes"), Field("isDataSync", "int32"),
    Field("command", "string"), Field("gen", "int32"), Field("gens", "int32s")>>

response_Fields == <<
    Field("fh", "int32"), Field("success", "uint64"), Field("err", "uint64"),
    Field("fi", "fileInfo"), Field("data", "bytes"), Field("ern", "int32"),
    Field("size", "int32"), Field("objects", "directory"), Field("status", "int32"),
    Field("attr", "attributes"), Field("dataSize", "int32")>>

attributes_Fields == <<
    Field("st_dev", "uint64"), Field("st_ino", "uint64"), Field("st_mode", "uint64"),
    Field("st_nlink", "uint64"), Field("st_uid", "uint64"), Field("st_gid", "uint64"),
    Field("st_rdev", "uint64"), Field("st_size", "uint64"), Field("st_catime", "uint64"),
    Field("st_cmtime", "uint64"), Field("st_cctime", "uint64"), Field("st_blksize", "uint64"),
    Field("st_blocks", "uint64"), Field("st_attr", "uint64")>>

fileInfo_Fields == <<Field("fh", "uint64"), Field("flags", "uint32")>>

directory_Fields == <<Field("name", "string"), Field("attr", "attributes")>>

Default(kind) == IF kind \in Scalar THEN 0 ELSE <<>>

\* A message as its constructor leaves it.
Names(F) == {F[i].name : i \in DOMAIN F}
Number(F, name) == CHOOSE i \in DOMAIN F : F[i].name = name
Empty(F) == [n \in Names(F) |-> Default(F[Number(F, n)].kind)]

request_Empty == Empty(request_Fields)
response_Empty == Empty(response_Fields)
attributes_Empty == Empty(attributes_Fields)
fileInfo_Empty == Empty(fileInfo_Fields)
directory_Empty == Empty(directory_Fields)

-----------------------------------------------------------------------------
(* The accessors a handler or a callback uses.                              *)

set_name(m, text) == [m EXCEPT !.name = text]
set_command(m, text) == [m EXCEPT !.command = text]
set_path(m, text) == [m EXCEPT !.path = text]
set_fh(m, x) == [m EXCEPT !.fh = Int32(x)]
set_fromfh(m, x) == [m EXCEPT !.fromfh = Int32(x)]
set_todirfh(m, x) == [m EXCEPT !.todirfh = Int32(x)]
set_dirfh(m, x) == [m EXCEPT !.dirfh = Int32(x)]
set_size(m, x) == [m EXCEPT !.size = Int32(x)]
set_offset(m, x) == [m EXCEPT !.offset = Int32(x)]
set_isdatasync(m, x) == [m EXCEPT !.isDataSync = Int32(x)]
set_gen(m, x) == [m EXCEPT !.gen = Int32(x)]
set_ern(m, x) == [m EXCEPT !.ern = Int32(x)]
set_status(m, x) == [m EXCEPT !.status = Int32(x)]
set_datasize(m, x) == [m EXCEPT !.dataSize = Int32(x)]
set_success(m, x) == [m EXCEPT !.success = UInt64(x)]
set_st(m, f, x) == [m EXCEPT ![f] = UInt64(x)]
set_flags(m, x) == [m EXCEPT !.flags = UInt32(x)]
set_fi_fh(m, x) == [m EXCEPT !.fh = UInt64(x)]
\* add_gens and add_objects, called for each element of v.
add_gens(m, v) == [m EXCEPT !.gens = @ \o [j \in DOMAIN v |-> Int32(v[j])]]
add_objects(m, v) == [m EXCEPT !.objects = @ \o v]

\* The elements of s at the positions in I, in their order.
Picked(s, I) ==
    LET f[i \in 0 .. Len(s)] ==
            IF i = 0 THEN <<>> ELSE IF i \in I THEN Append(f[i - 1], s[i]) ELSE f[i - 1]
    IN  f[Len(s)]

\* Data given as a char pointer ends before its first zero byte; a std::string
\* keeps all its bytes.
CString(b) ==
    IF Contains(b, 0) THEN SubSeq(b, 1, Min({i \in DOMAIN b : b[i] = 0}) - 1) ELSE b
set_data(m, b) == [m EXCEPT !.data = b]
set_data_chars(m, b) == [m EXCEPT !.data = CString(b)]

\* A submessage that was never set reads as an empty one.
fi(m) == IF m.fi = <<>> THEN fileInfo_Empty ELSE m.fi[1]
attr(m) == IF m.attr = <<>> THEN attributes_Empty ELSE m.attr[1]
fi_CopyFrom(m, x) == [m EXCEPT !.fi = <<x>>]
attr_CopyFrom(m, x) == [m EXCEPT !.attr = <<x>>]

-----------------------------------------------------------------------------
(* Sizes, as ByteSizeLong of each class computes them.                      *)

\* One byte, and one more for every power of 2^Septet up to x.
VarintSize(x) == 1 + Cardinality({k \in 1 .. Bits64 \div Septet : x >= 2^(Septet * k)})
Prefixed(n) == VarintSize(n) + n
Sum(n, s) == LET f[i \in 0 .. n] == IF i = 0 THEN 0 ELSE f[i - 1] + s[i] IN f[n]
PackedSize(v) == Sum(Len(v), [j \in DOMAIN v |-> VarintSize(UInt64(v[j]))])

\* Op of each submessage in field f of m.
Each(Op(_, _), f, m) == [j \in DOMAIN m[f.name] |-> Op(f.kind, m[f.name][j])]

\* The size of field f with value v, whose submessages have the sizes z.
FieldSize(f, v, z) ==
    IF v = Default(f.kind) THEN 0
    ELSE CASE f.kind \in Scalar    -> 1 + VarintSize(UInt64(v))
           [] f.kind \in Text      -> 1 + Prefixed(Len(v))
           [] f.kind = "int32s"    -> 1 + Prefixed(PackedSize(v))
           [] OTHER -> Sum(Len(v), [j \in DOMAIN v |-> 1 + Prefixed(z[j])])

ByteSize(F, m, Size(_, _)) ==
    Sum(Len(F), [i \in DOMAIN F |-> FieldSize(F[i], m[F[i].name], Each(Size, F[i], m))])

NoSubSize(kind, m) == 0
attributes_ByteSize(m) == ByteSize(attributes_Fields, m, NoSubSize)
fileInfo_ByteSize(m) == ByteSize(fileInfo_Fields, m, NoSubSize)
LeafSize(kind, m) ==
    IF kind = "attributes" THEN attributes_ByteSize(m) ELSE fileInfo_ByteSize(m)
directory_ByteSize(m) == ByteSize(directory_Fields, m, LeafSize)
SubSize(kind, m) ==
    IF kind = "directory" THEN directory_ByteSize(m) ELSE LeafSize(kind, m)
request_ByteSize(m) == ByteSize(request_Fields, m, SubSize)

\* Mutant: the names of the listed entries are not counted.
response_ByteSizeShort(m) == ByteSize(response_Fields, m, LAMBDA kind, d :
    IF kind = "directory" THEN directory_ByteSize([d EXCEPT !.name = <<>>]) ELSE LeafSize(kind, d))

response_ByteSize(m) == ByteSize(response_Fields, m, SubSize)

-----------------------------------------------------------------------------
(* Encoding.                                                                *)

\* A varint, and a payload with its length in front.
Varint(num, x) ==
    [num |-> num, val |-> x, head |-> 1, len |-> VarintSize(x), payload |-> VarintSize(x)]
Delimited(num, val, len, payload) ==
    [num |-> num, val |-> val, head |-> 1 + VarintSize(len), len |-> len, payload |-> payload]
WireSize(w) == Sum(Len(w), [i \in DOMAIN w |-> w[i].head + w[i].payload])

\* The tokens of field f, whose number is num, with value v; b are its submessages
\* encoded and z the sizes written in front of them.
Tokens(num, f, v, b, z) ==
    IF v = Default(f.kind) THEN <<>>
    ELSE CASE f.kind \in Scalar -> <<Varint(num, UInt64(v))>>
           [] f.kind \in Text   -> <<Delimited(num, v, Len(v), Len(v))>>
           [] f.kind = "int32s" ->
                <<Delimited(num, [j \in DOMAIN v |-> UInt64(v[j])], PackedSize(v), PackedSize(v))>>
           [] OTHER -> [j \in DOMAIN v |-> CHOOSE t \in
                {Delimited(num, w, n, WireSize(w)) : w \in {b[j]}, n \in {z[j]}} : TRUE]

\* The first n members of the sequence s of sequences, one after the other.
Joined(n, s) == LET f[i \in 0 .. n] == IF i = 0 THEN <<>> ELSE f[i - 1] \o s[i] IN f[n]

Serialize(F, m, Bytes(_, _), Size(_, _)) ==
    Joined(Len(F), [i \in DOMAIN F |->
        Tokens(i, F[i], m[F[i].name], Each(Bytes, F[i], m), Each(Size, F[i], m))])

NoBytes(kind, m) == <<>>
attributes_Serialize(m) == Serialize(attributes_Fields, m, NoBytes, NoSubSize)
fileInfo_Serialize(m) == Serialize(fileInfo_Fields, m, NoBytes, NoSubSize)
LeafBytes(kind, m) ==
    IF kind = "attributes" THEN attributes_Serialize(m) ELSE fileInfo_Serialize(m)
directory_Serialize(m) == Serialize(directory_Fields, m, LeafBytes, LeafSize)
SubBytes(kind, m) ==
    IF kind = "directory" THEN directory_Serialize(m) ELSE LeafBytes(kind, m)
request_Serialize(m) == Serialize(request_Fields, m, SubBytes, SubSize)
response_Serialize(m) == Serialize(response_Fields, m, SubBytes, SubSize)

-----------------------------------------------------------------------------
(* Decoding: the set of what the bytes are as a message of the type, which   *)
(* is empty if they are none.                                               *)

IsUtf8(text) == \A i \in DOMAIN text : text[i] \notin Garbled

\* Token t of field f, with the set of what its submessage is.
Valid(f, t, sub) ==
    /\ t.len = t.payload
    /\ f.kind = "string" => IsUtf8(t.val)
    /\ f.kind \notin Scalar \cup Text \cup {"int32s"} => sub # {}

\* Field f, which held old, once a token with val is read: a repeated field grows.
Merged(f, old, val, sub) ==
    CASE f.kind = "int32"     -> Int32(val)
      [] f.kind = "uint32"    -> UInt32(val)
      [] f.kind \in {"uint64"} \cup Text -> val
      [] f.kind = "int32s"    -> old \o [j \in DOMAIN val |-> Int32(val[j])]
      [] f.kind = "directory" -> Append(old, CHOOSE m \in sub : TRUE)
      [] OTHER                -> <<CHOOSE m \in sub : TRUE>>

\* Message m after token t, and after the first n tokens of w, from the empty message.
Taken(F, m, t, sub) ==
    [m EXCEPT ![F[t.num].name] = Merged(F[t.num], @, t.val, sub)]
Read(F, w, n, parsed) ==
    LET g[i \in 0 .. n] ==
            IF i = 0 THEN Empty(F) ELSE Taken(F, g[i - 1], w[i], parsed[i])
    IN  g[n]

Parsed(F, w, Sub(_, _)) == [i \in DOMAIN w |-> Sub(F[w[i].num].kind, w[i].val)]
Parse(F, w, parsed) ==
    IF \A i \in DOMAIN w : Valid(F[w[i].num], w[i], parsed[i])
    THEN {Read(F, w, Len(w), parsed)} ELSE {}

NoParse(kind, w) == {}
attributes_Parse(w) == Parse(attributes_Fields, w, Parsed(attributes_Fields, w, NoParse))
fileInfo_Parse(w) == Parse(fileInfo_Fields, w, Parsed(fileInfo_Fields, w, NoParse))
LeafParse(kind, w) ==
    CASE kind = "attributes" -> attributes_Parse(w)
      [] kind = "fileInfo"   -> fileInfo_Parse(w)
      [] OTHER               -> {}
directory_Parse(w) == Parse(directory_Fields, w, Parsed(directory_Fields, w, LeafParse))
SubParse(kind, w) == IF kind = "directory" THEN directory_Parse(w) ELSE LeafParse(kind, w)
request_Parse(w) == Parse(request_Fields, w, Parsed(request_Fields, w, SubParse))
response_Parse(w) == Parse(response_Fields, w, Parsed(response_Fields, w, SubParse))

\* What arrives of a message that is sent.
ReceivedRequest(m) ==
    IF request_ByteSize(m) > MaxMessage THEN {}
    ELSE UNION {request_Parse(w) : w \in {request_Serialize(m)}}
ReceivedResponse(m) ==
    IF response_ByteSize(m) > MaxMessage THEN {}
    ELSE UNION {response_Parse(w) : w \in {response_Serialize(m)}}

=============================================================================
