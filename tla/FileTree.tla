------------------------------ MODULE FileTree ------------------------------
(***************************************************************************)
(* What an application sees of a remote directory tree: it asks for a call *)
(* on the paths it names, the call takes effect on those paths at most     *)
(* once and in one step, and nothing else changes the tree.  The operators *)
(* are the system calls mkdir, rmdir, open with O_CREAT, unlink and rename *)
(* of the file system the server exports.                                  *)
(***************************************************************************)
EXTENDS SequencesExt

CONSTANTS
    Client,
    Node,        \* the paths the tree can hold, as sequences of names
    NoCall       \* no call

\* A path that is not of the tree has kind "none".
Kind == {"none", "file", "dir"}
Tree == {t \in [Node -> Kind] : t[<<>>] = "dir"}

\* A call, with the second path of a rename, and O_EXCL for create.
Calls == {"mkdir", "rmdir", "create", "unlink", "rename", "readdir", "getattr"}
Asked == [cb : Calls, path : Node, to : Node, excl : BOOLEAN]

KindOf(t, p) == IF p \in Node THEN t[p] ELSE "none"
Inside(t, p) == {q \in Node : IsStrictPrefix(p, q) /\ t[q] # "none"}
Addable(t, p) == p \in Node \ {<<>>} /\ t[Front(p)] = "dir"

\* The path that x gets when p is renamed to q.
Moved(x, p, q) == q \o SubSeq(x, Len(p) + 1, Len(x))

CanRename(t, p, q) ==
    /\ p # <<>> /\ KindOf(t, p) # "none" /\ Addable(t, q)
    /\ \/ p = q
       \/ /\ ~IsPrefix(p, q) /\ ~IsPrefix(q, p)
          /\ KindOf(t, q) \in {"none", t[p]}
          /\ Inside(t, q) = {}
          /\ \A x \in Inside(t, p) : Moved(x, p, q) \in Node

Renamed(t, p, q) ==
    [x \in Node |->
        IF p = q THEN t[x]
        ELSE IF IsPrefix(q, x) THEN KindOf(t, Moved(x, q, p))
        ELSE IF IsPrefix(p, x) THEN "none" ELSE t[x]]

\* Whether a call succeeds on tree t, and the tree it leaves.
Succeeds(t, a) ==
    \/ a.cb = "mkdir"  /\ Addable(t, a.path) /\ t[a.path] = "none"
    \/ a.cb = "create" /\ Addable(t, a.path) /\ t[a.path] \in {"none", IF a.excl THEN "none" ELSE "file"}
    \/ a.cb = "rmdir"  /\ a.path # <<>> /\ KindOf(t, a.path) = "dir" /\ Inside(t, a.path) = {}
    \/ a.cb = "unlink" /\ KindOf(t, a.path) = "file"
    \/ a.cb = "rename" /\ CanRename(t, a.path, a.to)

Effect(t, a) ==
    CASE a.cb = "mkdir"              -> [t EXCEPT ![a.path] = "dir"]
      [] a.cb = "create"             -> [t EXCEPT ![a.path] = "file"]
      [] a.cb \in {"rmdir", "unlink"} -> [t EXCEPT ![a.path] = "none"]
      [] a.cb = "rename"             -> Renamed(t, a.path, a.to)
      [] OTHER                       -> t

-----------------------------------------------------------------------------

VARIABLES
    tree,        \* the exported tree
    asked,       \* the call each client has asked for and not yet got back
    done         \* the clients whose call has taken effect

vars == <<tree, asked, done>>

TypeOK == tree \in Tree /\ asked \in [Client -> Asked \cup {NoCall}] /\ done \subseteq Client

Init ==
    /\ tree = [p \in Node |-> IF p = <<>> THEN "dir" ELSE "none"]
    /\ asked = [c \in Client |-> NoCall]
    /\ done = {}

Ask(c, a) ==
    /\ asked[c] = NoCall
    /\ asked' = [asked EXCEPT ![c] = a]
    /\ UNCHANGED <<tree, done>>

Do(c) ==
    /\ asked[c] # NoCall /\ c \notin done
    /\ Succeeds(tree, asked[c])
    /\ tree' = Effect(tree, asked[c])
    /\ done' = done \cup {c}
    /\ UNCHANGED asked

Answer(c) ==
    /\ asked[c] # NoCall
    /\ asked' = [asked EXCEPT ![c] = NoCall]
    /\ done' = done \ {c}
    /\ UNCHANGED tree

Next == \E c \in Client : Do(c) \/ Answer(c) \/ \E a \in Asked : Ask(c, a)

Spec == Init /\ [][Next]_vars
=============================================================================
