---------------------------- MODULE HashTable2 -----------------------------
(***************************************************************************)
(* class HashTable2 of data-structure/EdgeBlock/HashTable.h: the           *)
(* open-addressing table that tells a vertex which destinations it already *)
(* has an edge to.  Every operation runs under the vertex's write lock, so *)
(* one call is one action.                                                 *)
(***************************************************************************)
EXTENDS Integers, FiniteSets, FiniteSetsExt

CONSTANTS
  Keys,      \* the destinations a run uses, natural numbers
  Empty      \* FLAG_EMPTY_SLOT, which is no destination

ASSUME KeysAssumption == Keys \subseteq Nat /\ Empty \notin Keys

VARIABLES
  hashtable,      \* the slots, 0 .. hashBlockSize - 1
  entryCounter,
  keys            \* history: what has been set and not removed since

indexVars == <<hashtable, entryCounter, keys>>

BlockSize(tab) == Cardinality(DOMAIN tab)
hash(key, size) == key % size

\* The slot at which a linear probe for key stops; the loop ends at one of stops.
Probe(tab, key, stops) ==
  LET size == BlockSize(tab)
      at(d) == (hash(key, size) + d) % size
  IN  at(Min({d \in 0 .. size - 1 : tab[at(d)] \in stops}))

EmptyTable(size) == [i \in 0 .. size - 1 |-> Empty]

Place(tab, key) == [tab EXCEPT ![Probe(tab, key, {Empty})] = key]

IndexInit ==
  /\ hashtable = EmptyTable(2)
  /\ entryCounter = 0
  /\ keys = {}

getDestHashTableVal(key) ==
  hashtable[Probe(hashtable, key, {key, Empty})] = key

\* The loop over the slots of the old table: each key is placed in the new one.
Moved(tab, size) ==
  LET new[i \in 0 .. BlockSize(tab)] ==
        IF i = 0 THEN EmptyTable(size)
        ELSE IF tab[i - 1] = Empty THEN new[i - 1] ELSE Place(new[i - 1], tab[i - 1])
  IN  new

resizeHashTable(tab, requested_block) == Moved(tab, requested_block)[BlockSize(tab)]

\* Mutant: the threshold of the other class of HashTable.h.
HalfFullLate == entryCounter > BlockSize(hashtable) \div 2

HalfFull == entryCounter >= BlockSize(hashtable) \div 2

\* VertexEdges sets a destination only after getDestHashTableVal has missed it.
setDestHashTableVal(key) ==
  /\ ~getDestHashTableVal(key)
  /\ hashtable' = Place(IF HalfFull
                        THEN resizeHashTable(hashtable, 2 * BlockSize(hashtable))
                        ELSE hashtable, key)
  /\ entryCounter' = entryCounter + 1
  /\ keys' = keys \cup {key}

\* Mutant: a probe path that wraps round the end of the table is not recognised.
OnPathNoWrap(home, i, j) == home <= i /\ i < j

\* The gap i lies on the probe path [home, j) of the key at j.
OnPath(home, i, j) ==
  IF home <= j THEN home <= i /\ i < j ELSE i >= home \/ i < j

\* One turn of the loop of the backward-shift deletion, at slot j.  Its state is
\* the table, the gap i and whether the cluster has ended.
Shift(s, j) ==
  IF s.ended \/ s.tab[j] = Empty THEN [s EXCEPT !.ended = TRUE]
  ELSE IF OnPath(hash(s.tab[j], BlockSize(s.tab)), s.i, j)
  THEN [tab |-> [s.tab EXCEPT ![s.i] = s.tab[j], ![j] = Empty], i |-> j, ended |-> FALSE]
  ELSE s

Shifted(tab, index) ==
  LET turn[d \in 0 .. BlockSize(tab)] ==
        IF d = 0 THEN [tab |-> tab, i |-> index, ended |-> FALSE]
        ELSE Shift(turn[d - 1], (index + d) % BlockSize(tab))
  IN  turn

\* The loop, from a table with a gap at index.
BackwardShift(tab, index) == Shifted(tab, index)[BlockSize(tab)].tab

\* A key that is not present leaves the table alone.
removeDestHashTableVal(key) ==
  LET index == Probe(hashtable, key, {key, Empty}) IN
  /\ IF hashtable[index] # key
     THEN UNCHANGED <<hashtable, entryCounter>>
     ELSE /\ hashtable' = BackwardShift([hashtable EXCEPT ![index] = Empty], index)
          /\ entryCounter' = entryCounter - 1
  /\ keys' = keys \ {key}

IndexNext ==
  \E key \in Keys : setDestHashTableVal(key) \/ removeDestHashTableVal(key)

IndexSpec == IndexInit /\ [][IndexNext]_indexVars

-----------------------------------------------------------------------------
\* At least half of the slots are empty, and entryCounter counts the others:
\* every probe loop, of get, set and remove, meets an empty slot and ends.
ProbesEnd ==
  LET used == {i \in DOMAIN hashtable : hashtable[i] # Empty} IN
  /\ entryCounter = Cardinality(used)
  /\ 2 * entryCounter <= BlockSize(hashtable)

\* getDestHashTableVal finds exactly the keys that were set and not removed
\* since: no deletion breaks the probe chain of another key, no growth loses one.
LookupExact == \A key \in Keys : getDestHashTableVal(key) <=> key \in keys
=============================================================================
