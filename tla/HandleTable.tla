---------------------------- MODULE HandleTable ----------------------------
(***************************************************************************)
(* The server's translation between paths and file handles, and its copy   *)
(* in the two JSON files.  Every request handler that changes the table    *)
(* does it through the operators below; they map a table to a table, so    *)
(* that a handler which calls several of them stays one step.              *)
(*                                                                         *)
(* A std::map is a total function whose absent keys hold NoFh or NoPath.   *)
(* A path is an opaque value; the empty string is Root.                    *)
(***************************************************************************)
EXTENDS Integers

CONSTANTS
    Path,        \* the paths a request can name
    Root,        \* the empty path, whose handle is 0
    NoPath,      \* "no entry" in fhToPath
    Unreadable,  \* content of a JSON file that does not parse
    MaxFh        \* bound: the largest handle the table can give out

Fh == 0 .. MaxFh
NoFh == -1

PathMap == [Path -> Fh \cup {NoFh}]
FhMap == [Fh -> Path \cup {NoPath}]

Table == [pathToFh : PathMap, fhToPath : FhMap, fhcount : Nat]
Log == [pathToFh : PathMap \cup {Unreadable}, fhToPath : FhMap \cup {Unreadable}]

ASSUME PathAssumption ==
    /\ Root \in Path
    /\ NoPath \notin Path
    /\ Unreadable \notin PathMap
    /\ Unreadable \notin FhMap

ASSUME MaxFhAssumption == MaxFh \in Nat

-----------------------------------------------------------------------------

\* The constructor: only the root is known and the numbering starts at 1.
\* The JSON files are not read.
NewTable ==
    [pathToFh |-> [p \in Path |-> IF p = Root THEN 0 ELSE NoFh],
     fhToPath |-> [h \in Fh |-> IF h = 0 THEN Root ELSE NoPath],
     fhcount  |-> 1]

\* JSON files that were never written, or were emptied.
NoLog == [pathToFh |-> Unreadable, fhToPath |-> Unreadable]

Known(t, fh) == t.fhToPath[fh] # NoPath
Mapped(t, p) == t.pathToFh[p] # NoFh

\* Mutants of AddLookup: the numbering stands still; only one map is filled.
AddLookupSameNumber(t, p) ==
    IF Mapped(t, p) THEN t
    ELSE [t EXCEPT !.pathToFh[p] = t.fhcount, !.fhToPath[t.fhcount] = p]

AddLookupOneWay(t, p) ==
    IF Mapped(t, p) THEN t
    ELSE [t EXCEPT !.pathToFh[p] = t.fhcount, !.fhcount = t.fhcount + 1]

\* addLookup: a new path takes the next handle; a path of the table keeps its.
AddLookup(t, p) ==
    IF Mapped(t, p) THEN t
    ELSE [pathToFh |-> [t.pathToFh EXCEPT ![p] = t.fhcount],
          fhToPath |-> [t.fhToPath EXCEPT ![t.fhcount] = p],
          fhcount  |-> t.fhcount + 1]

\* storeMapping: the content of the two files after a write of both.
Stored(t) == [pathToFh |-> t.pathToFh, fhToPath |-> t.fhToPath]

\* addLookup calls storeMapping only when it added an entry.
LogAfterAdd(t, log, p) == IF Mapped(t, p) THEN log ELSE Stored(AddLookup(t, p))

\* What the files can hold when the process dies inside storeMapping: each
\* file is truncated when it is opened and the second one is written last.
CutStores(t, log) ==
    {[log EXCEPT !.pathToFh = Unreadable],
     [log EXCEPT !.pathToFh = t.pathToFh],
     [pathToFh |-> t.pathToFh, fhToPath |-> Unreadable]}

\* Mutant of Loaded: the first map is assigned whether or not its file parses.
LoadedUnparsed(t, log) ==
    [t EXCEPT
        !.pathToFh = log.pathToFh,
        !.fhToPath = IF Unreadable \in {log.pathToFh, log.fhToPath}
                     THEN @ ELSE log.fhToPath]

\* getMapping: the two maps are replaced one after the other and a file that
\* does not parse throws.  fhcount is not part of what is read.
Loaded(t, log) ==
    [t EXCEPT
        !.pathToFh = IF log.pathToFh = Unreadable THEN @ ELSE log.pathToFh,
        !.fhToPath = IF Unreadable \in {log.pathToFh, log.fhToPath}
                     THEN @ ELSE log.fhToPath]

\* The table after findLookup(fh), which reads the files on a miss ...
Found(t, log, fh) == IF Known(t, fh) THEN t ELSE Loaded(t, log)

\* ... and whether it returns a path: a second miss, like a file that does not
\* parse, throws out of the handler.
Resolves(t, log, fh) == Known(Found(t, log, fh), fh)
PathOf(t, log, fh) == Found(t, log, fh).fhToPath[fh]

=============================================================================
