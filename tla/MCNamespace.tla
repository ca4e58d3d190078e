---------------------------- MODULE MCNamespace ----------------------------
(***************************************************************************)
(* Instances of Namespace for TLC.                                         *)
(***************************************************************************)
EXTENDS Namespace

\* The names applications use, but for one more in the root.
Letter == {"a", "b"}

\* The paths of at most n names.
UpTo(n, S) == UNION {[1 .. k -> S] : k \in 0 .. n}

Nodes == UpTo(2, Letter)
MoreNodes == Nodes \cup {<<"d">>}

\* ... with "/" and the entries "." and ".." of every directory.
ListedPaths == Nodes \cup {<<"">>} \cup {Append(d, n) : d \in Nodes, n \in {".", ".."}}

\* Without readdir, but with the longer paths a wrong parent handle can lead to.
DeepPaths == UpTo(4, Letter) \cup {<<"">> \o p : p \in UpTo(2, Letter)}

\* Two files in the root; a directory with a file; and another file beside it.
Flat == {<<>>, <<"a">>, <<"b">>}
Nested == {<<>>, <<"a">>, <<"a", "b">>}
Beside == Flat \cup Nested

\* Three entries of the root.
Three == UpTo(1, {"a", "b", "d"})

\* What is entered for wrong parents, for Beside and Three, and what readdir enters.
CrashPaths ==
    DeepPaths \cup Three \cup {<<"">> \o p : p \in Three}
    \cup {Append(d, n) : d \in {<<>>, <<"a">>, <<"b">>}, n \in {".", ".."}}
    \cup {<<d, n>> : d \in {".", ".."}, n \in Letter \cup {".", ".."}}

EmptyRoot == <<>>
Top == {<<>>}
InA == {<<"a">>}
AllCalls == FT!Calls

CONSTANTS c1, c2

Asks(n, m) == [c \in Client |-> IF c = c1 THEN n ELSE m]

\* Everything, in the root, with two calls lost.
Solo == {[asks |-> Asks(3, 0), use |-> AllCalls, target |-> Beside, into |-> Top, excl |-> {TRUE},
          lost |-> 2, crash |-> 0, torn |-> 0]}

\* Something is renamed into a directory.
Moving == {[asks |-> Asks(6, 0), use |-> {"mkdir", "create", "rename", "unlink"}, target |-> Beside,
            into |-> InA, excl |-> {}, lost |-> 0, crash |-> 0, torn |-> 0]}

\* Two clients rename files of the root; one client's server restarts, and later calls
\* use old handles; it crashes in a handler and in storeMapping too; it crashes in
\* storeMapping for one client, and the other's handles make it read what is left.
Rivals == [asks |-> Asks(2, 2), use |-> {"create", "rename", "unlink"}, target |-> Flat,
           into |-> Top, excl |-> {}, lost |-> 0, crash |-> 0, torn |-> 0]
Remount == [asks |-> Asks(5, 0), use |-> {"mkdir", "rename", "rmdir"}, target |-> Three,
            into |-> Top, excl |-> {}, lost |-> 0, crash |-> 1, torn |-> 0]
Torn == [asks |-> Asks(3, 0), use |-> {"mkdir", "create", "rename", "rmdir"}, target |-> Beside,
         into |-> InA, excl |-> {TRUE}, lost |-> 1, crash |-> 1, torn |-> 1]
Reread == [asks |-> Asks(1, 2), use |-> {"create", "unlink"}, target |-> Flat,
           into |-> Top, excl |-> {}, lost |-> 0, crash |-> 0, torn |-> 1]
Relist == [asks |-> Asks(3, 0), use |-> {"create", "getattr", "readdir"}, target |-> Flat,
           into |-> Top, excl |-> {}, lost |-> 0, crash |-> 0, torn |-> 1]
Hard == {Rivals, Remount, Torn, Reread, Relist}
=============================================================================
