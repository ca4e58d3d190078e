----------------------------- MODULE WriteBack -----------------------------
(***************************************************************************)
(* What the COMMIT optimisation promises a client that keeps copies of its *)
(* writes for retransmission: a copy is dropped only when the write is on  *)
(* the server's disk, and nothing reaches the disk that no client wrote.   *)
(* Nothing is said about messages, caches or crashes of the server.        *)
(***************************************************************************)
CONSTANT Write   \* the writes that can be issued

VARIABLES
    held,        \* the writes whose copy a client still keeps
    stable       \* the writes the server has written to its disk

vars == <<held, stable>>

TypeOK == held \subseteq Write /\ stable \subseteq Write

Init == held = {} /\ stable = {}

\* A client issues a write it never issued before, and keeps a copy.
Issue(w) ==
    /\ w \notin held \cup stable
    /\ held' = held \cup {w}
    /\ UNCHANGED stable

\* The server writes issued data to its disk.
Persist ==
    /\ stable \subseteq stable'
    /\ stable' \subseteq stable \cup held
    /\ UNCHANGED held

\* A client drops copies of what is on disk.
Drop ==
    /\ held' \subseteq held
    /\ held \ held' \subseteq stable
    /\ UNCHANGED stable

Next ==
    \/ \E w \in Write : Issue(w)
    \/ Persist
    \/ Drop

Spec == Init /\ [][Next]_vars
=============================================================================
