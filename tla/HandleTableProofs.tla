------------------------- MODULE HandleTableProofs -------------------------
(***************************************************************************)
(* Typing lemmas for the operators of HandleTable: whatever the handlers   *)
(* do, the two maps and the two files stay maps of the declared kind.      *)
(***************************************************************************)
EXTENDS HandleTable, TLAPS

\* The constructor's table is a table.
LEMMA NewTableType == NewTable \in Table
BY PathAssumption, MaxFhAssumption DEF NewTable, Table, PathMap, FhMap, Fh, NoFh

\* addLookup keeps the maps maps, and answers with a handle that is in range.
LEMMA AddLookupType ==
    ASSUME NEW t \in Table, NEW p \in Path, Mapped(t, p) \/ t.fhcount \in Fh
    PROVE  /\ AddLookup(t, p) \in Table
           /\ AddLookup(t, p).pathToFh[p] \in Fh
<1>1. CASE Mapped(t, p)
  BY <1>1 DEF AddLookup, Mapped, Table, PathMap
<1>2. CASE ~Mapped(t, p)
  <2>1. t.fhcount \in Fh
    BY <1>2
  <2>2. [t.pathToFh EXCEPT ![p] = t.fhcount] \in PathMap
    BY <2>1 DEF Table, PathMap
  <2>3. [t.fhToPath EXCEPT ![t.fhcount] = p] \in FhMap
    BY <2>1 DEF Table, FhMap
  <2>4. t.fhcount + 1 \in Nat
    BY DEF Table
  <2>5. [t.pathToFh EXCEPT ![p] = t.fhcount][p] = t.fhcount
    BY DEF Table, PathMap
  <2> QED
    BY <1>2, <2>1, <2>2, <2>3, <2>4, <2>5 DEF AddLookup, Table
<1> QED
  BY <1>1, <1>2

\* What is written to the files is a content they may have.
LEMMA StoredType ==
    ASSUME NEW t \in Table
    PROVE  Stored(t) \in Log
BY DEF Stored, Log, Table

\* So is what a crash in the middle of storeMapping leaves.
LEMMA CutStoresType ==
    ASSUME NEW t \in Table, NEW log \in Log
    PROVE  CutStores(t, log) \subseteq Log
BY DEF CutStores, Log, Table

\* The files after a lookup.
LEMMA LogAfterAddType ==
    ASSUME NEW t \in Table, NEW log \in Log, NEW p \in Path,
           Mapped(t, p) \/ t.fhcount \in Fh
    PROVE  LogAfterAdd(t, log, p) \in Log
BY AddLookupType, StoredType DEF LogAfterAdd

\* getMapping and findLookup keep the maps maps.
LEMMA LoadedType ==
    ASSUME NEW t \in Table, NEW log \in Log
    PROVE  Loaded(t, log) \in Table
BY DEF Loaded, Log, Table

LEMMA FoundType ==
    ASSUME NEW t \in Table, NEW log \in Log, NEW fh
    PROVE  Found(t, log, fh) \in Table
BY LoadedType DEF Found

\* A handle that resolves names a path.
LEMMA PathOfType ==
    ASSUME NEW t \in Table, NEW log \in Log, NEW fh \in Fh, Resolves(t, log, fh)
    PROVE  PathOf(t, log, fh) \in Path
BY FoundType DEF Resolves, Known, PathOf, Table, FhMap
=============================================================================
