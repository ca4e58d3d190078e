----------------------------- MODULE MCThreads -----------------------------
(***************************************************************************)
(* Instances of Threads for TLC.                                           *)
(***************************************************************************)
EXTENDS Threads

EmptyRoot == <<>>
Gone == <<"gone">>
Inner == <<"d", "a">>
Outer == <<"a">>
Paths == {EmptyRoot, <<"d">>, Inner, Outer, Gone}
TwoFiles == {Inner, Outer}

CONSTANTS t1, t2

Work(f1, f2, a1, a2, losses) ==
    [uses |-> (t1 :> f1 @@ t2 :> f2), asks |-> (t1 :> a1 @@ t2 :> a2), lost |-> losses]

\* The threads open files of different directories while calls fail; they write and
\* close two files; they write and close one file, one of them twice or losing a call.
Workloads == {
    Work({Inner}, TwoFiles, 1, 1, 2),
    Work({Outer}, {Inner}, 3, 3, 0),
    Work({Outer}, {Outer}, 4, 2, 0),
    Work({Outer}, {Outer}, 3, 2, 1)}

\* One of the threads closes a file, the other one writes to it.
Race == {Work({Outer}, {Outer}, 3, 2, 0)}
=============================================================================
