--------------------------- MODULE MCWriteCommit ---------------------------
(***************************************************************************)
(* Instances of WriteCommit for TLC.                                       *)
(***************************************************************************)
EXTENDS WriteCommit

\* Each client sees a stretch of the stream of rand() that has no value in
\* common with another's: the first Writes of it for one client, the next for
\* the other.
CONSTANT Writes

First == CHOOSE c \in Client : TRUE

DrawApart ==
    [c \in Client |-> [i \in 1 .. Writes |-> IF c = First THEN i ELSE Writes + i]]

\* Two clients that start with the same seed, as nothing calls srand.
DrawAlike == [c \in Client |-> [i \in 1 .. Writes |-> i]]
=============================================================================
