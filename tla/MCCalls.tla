------------------------------ MODULE MCCalls ------------------------------
(***************************************************************************)
(* Instances of Calls for TLC.                                             *)
(***************************************************************************)
EXTENDS Calls

Texts == {<<"a">>, <<"b">>, <<"x">>}
Paths == {<<>>, <<"">>, <<".">>, <<"..">>} \cup Texts
EmptyRoot == <<>>

NameCalls == {"getattr", "readdir", "mkdir", "rmdir", "unlink", "rename", "create", "release"}
FileCalls == {"open", "write", "read", "flush", "fsync", "release"}
Transfers == {"open", "write", "read", "release"}
Moves == {"open", "write", "rename"}
Mix(use, bound, there, versions) ==
    [use : {use}, asks : {bound}, there : {there}, version : versions]

\* Every call on names, beside a file whose name is not UTF-8; names when there are
\* two files; every call on one file; the bytes of one file, up to a read after the
\* commit in V2; and those of a file that is renamed, perhaps over another, while it is open in V1.
Workloads ==
    Mix(NameCalls, 3, {<<"x">>}, {1})
    \cup Mix({"readdir", "getattr", "unlink", "rename"}, 2, {<<"a">>, <<"b">>}, {1})
    \cup Mix(FileCalls, 3, {<<"a">>}, {1, 2})
    \cup Mix(Transfers, 4, {<<"a">>}, {1})
    \cup Mix(Transfers, 5, {<<"a">>}, {2})
    \cup Mix(Moves, 3, {<<"a">>, <<"b">>}, {1})

\* Two bytes, a zero between them, and one byte over them.
Buffers == {<<1>>, <<2, 0, 1>>}
Tails == {<<>>, <<2>>}
Drawn == <<0, 3>>
=============================================================================
