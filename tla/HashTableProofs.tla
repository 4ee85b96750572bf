--------------------------- MODULE HashTableProofs ---------------------------
(***************************************************************************)
(* Proofs about the destination index of a vertex, HashTable2, for every   *)
(* set of keys and tables of any size: linear probing with backward-shift  *)
(* deletion finds exactly the keys that were set and not removed since,    *)
(* and every probe meets an empty slot.                                    *)
(***************************************************************************)
EXTENDS HashTable2, FiniteSetTheorems, WellFoundedInduction, TLAPS

(***************************************************************************)
(* What a table satisfies between two calls.                               *)
(***************************************************************************)
IsTable(tab, n) == n \in Nat \ {0} /\ tab \in [0 .. n - 1 -> Keys \cup {Empty}]

Elements(tab) == {tab[i] : i \in DOMAIN tab} \ {Empty}

\* No key is in two slots.
Distinct(tab) ==
  \A i, j \in DOMAIN tab : tab[i] = tab[j] /\ tab[i] # Empty => i = j

\* Every slot on the probe path from the home of a key to its slot is in use.
Chained(tab) ==
  \A p \in DOMAIN tab : tab[p] # Empty =>
    \A x \in DOMAIN tab :
      OnPath(hash(tab[p], BlockSize(tab)), x, p) => tab[x] # Empty

Sound(tab, n) == IsTable(tab, n) /\ Distinct(tab) /\ Chained(tab)

IndexInv ==
  /\ Sound(hashtable, BlockSize(hashtable))
  /\ keys = Elements(hashtable)
  /\ IsFiniteSet(keys)
  /\ entryCounter = Cardinality(keys)
  /\ BlockSize(hashtable) >= 2
  /\ 2 * entryCounter <= BlockSize(hashtable)

-----------------------------------------------------------------------------
(* Slots and probes.                                                       *)

LEMMA LeastNat ==
  ASSUME NEW T, T \subseteq Nat, T # {}
  PROVE  Min(T) \in T /\ \A y \in T : Min(T) <= y
<1>1. PICK x \in T : \A y \in T : ~(<<y, x>> \in OpToRel(<, Nat))
  BY NatLessThanWellFounded, WFMin, Zenon
<1>2. \A y \in T : ~(y < x)
  BY <1>1 DEF OpToRel
<1>3. \A y \in T : x <= y
  BY <1>2
<1> QED
  BY <1>3 DEF Min

LEMMA SizeOfTable ==
  ASSUME NEW n \in Nat \ {0}, NEW tab, DOMAIN tab = 0 .. n - 1
  PROVE  BlockSize(tab) = n
BY FS_Interval DEF BlockSize

LEMMA WrapOnce ==
  ASSUME NEW n \in Nat, n > 0, NEW a \in 0 .. n - 1, NEW d \in 0 .. n
  PROVE  (a + d) % n = IF a + d < n THEN a + d ELSE a + d - n
OBVIOUS

LEMMA HomeIsSlot ==
  ASSUME NEW n \in Nat \ {0}, NEW key \in Keys
  PROVE  hash(key, n) \in 0 .. n - 1
BY KeysAssumption DEF hash

\* A probe stops at the first slot that ends it, counted from the home of the key.
LEMMA ProbeStops ==
  ASSUME NEW n, NEW tab, IsTable(tab, n), NEW key \in Keys, NEW stops,
         NEW y \in 0 .. n - 1, tab[y] \in stops
  PROVE  /\ Probe(tab, key, stops) \in 0 .. n - 1
         /\ tab[Probe(tab, key, stops)] \in stops
         /\ \A x \in 0 .. n - 1 :
              OnPath(hash(key, n), x, Probe(tab, key, stops)) => tab[x] \notin stops
<1> DEFINE h == hash(key, n)
           at(d) == (h + d) % n
           D == {d \in 0 .. n - 1 : tab[at(d)] \in stops}
           off(x) == IF x >= h THEN x - h ELSE x - h + n
<1>1. n \in Nat \ {0} /\ DOMAIN tab = 0 .. n - 1
  BY DEF IsTable
<1>2. h \in 0 .. n - 1
  BY <1>1, HomeIsSlot
<1>3. Probe(tab, key, stops) = at(Min(D))
  <2>1. BlockSize(tab) = n
    BY <1>1, SizeOfTable
  <2> QED
    BY <2>1 DEF Probe
<1>4. \A d \in 0 .. n - 1 : at(d) = IF h + d < n THEN h + d ELSE h + d - n
  <2> TAKE d \in 0 .. n - 1
  <2> HIDE DEF h
  <2> QED
    BY <1>1, <1>2, WrapOnce
<1> HIDE DEF h, at
<1>5. \A x \in 0 .. n - 1 : off(x) \in 0 .. n - 1 /\ at(off(x)) = x
  BY <1>1, <1>2, <1>4
<1>6. D \subseteq Nat /\ off(y) \in D
  BY <1>5
<1>7. Min(D) \in D /\ \A d \in D : Min(D) <= d
  BY <1>6, LeastNat, Zenon
<1>8. PICK m \in 0 .. n - 1 : m = Min(D)
  BY <1>7
<1>9. at(m) \in 0 .. n - 1 /\ tab[at(m)] \in stops
  BY <1>1, <1>2, <1>4, <1>7, <1>8
<1>10. ASSUME NEW x \in 0 .. n - 1, OnPath(h, x, at(m))
       PROVE  tab[x] \notin stops
  <2>1. off(x) \in 0 .. n - 1 /\ off(x) < m
    <3> USE <1>10 DEF OnPath
    <3> QED
      BY <1>1, <1>2, <1>4, <1>5
  <2>2. off(x) \notin D
    <3> HIDE DEF D, off
    <3> QED
      BY <1>1, <1>7, <1>8, <2>1
  <2> QED
    BY <1>5, <2>1, <2>2
<1> QED
  BY <1>3, <1>8, <1>9, <1>10 DEF h

\* A table with fewer keys than slots has an empty slot.
LEMMA SlotLeft ==
  ASSUME NEW n, NEW tab, IsTable(tab, n), Distinct(tab),
         NEW K, Elements(tab) \subseteq K, IsFiniteSet(K), Cardinality(K) < n
  PROVE  \E y \in 0 .. n - 1 : tab[y] = Empty
<1> SUFFICES ASSUME \A y \in 0 .. n - 1 : tab[y] # Empty PROVE FALSE
  OBVIOUS
<1>1. n \in Nat \ {0} /\ DOMAIN tab = 0 .. n - 1
  BY DEF IsTable
<1>2. tab \in [0 .. n - 1 -> K]
  BY <1>1 DEF IsTable, Elements
<1>3. IsFiniteSet(0 .. n - 1) /\ Cardinality(0 .. n - 1) = n
  BY <1>1, FS_Interval
<1>4. \E x, y \in 0 .. n - 1 : x # y /\ tab[x] = tab[y]
  BY <1>2, <1>3, FS_PigeonHole
<1> QED
  BY <1>1, <1>4 DEF Distinct

\* The used slots of a table and its keys are equally many.
LEMMA UsedSlots ==
  ASSUME NEW n, NEW tab, IsTable(tab, n), Distinct(tab)
  PROVE  /\ IsFiniteSet(Elements(tab))
         /\ Cardinality({i \in DOMAIN tab : tab[i] # Empty}) = Cardinality(Elements(tab))
<1> DEFINE used == {i \in DOMAIN tab : tab[i] # Empty}
           f == [i \in used |-> tab[i]]
<1>1. n \in Nat \ {0} /\ DOMAIN tab = 0 .. n - 1
  BY DEF IsTable
<1>2. IsFiniteSet(used)
  <2>1. IsFiniteSet(0 .. n - 1)
    BY <1>1, FS_Interval
  <2> QED
    BY <1>1, <2>1, FS_Subset
<1>3. f \in [used -> Elements(tab)]
  BY DEF Elements
<1>4. \A a, b \in used : f[a] = f[b] => a = b
  BY DEF Distinct
<1>5. \A e \in Elements(tab) : \E a \in used : f[a] = e
  BY DEF Elements
<1>6. f \in Injection(used, Elements(tab))
  BY <1>3, <1>4 DEF Injection, IsInjective
<1>7. f \in Surjection(used, Elements(tab))
  BY <1>3, <1>5 DEF Surjection
<1>8. ExistsBijection(used, Elements(tab))
  BY <1>6, <1>7 DEF ExistsBijection, Bijection
<1> QED
  BY <1>2, <1>8, FS_Bijection

\* Placing a new key keeps a table with an empty slot sound.
LEMMA PlaceSound ==
  ASSUME NEW n, NEW tab, Sound(tab, n), NEW key \in Keys, key \notin Elements(tab),
         NEW y \in 0 .. n - 1, tab[y] = Empty
  PROVE  /\ Sound(Place(tab, key), n)
         /\ Elements(Place(tab, key)) = Elements(tab) \cup {key}
<1> DEFINE p == Probe(tab, key, {Empty})
           new == Place(tab, key)
<1>1. n \in Nat \ {0} /\ DOMAIN tab = 0 .. n - 1 /\ IsTable(tab, n) /\ Distinct(tab)
      /\ BlockSize(tab) = n
  BY SizeOfTable DEF Sound, IsTable
<1>2. /\ p \in 0 .. n - 1 /\ tab[p] = Empty
      /\ \A x \in 0 .. n - 1 : OnPath(hash(key, n), x, p) => tab[x] # Empty
  <2>1. tab[y] \in {Empty}
    OBVIOUS
  <2>2. /\ p \in 0 .. n - 1 /\ tab[p] \in {Empty}
        /\ \A x \in 0 .. n - 1 : OnPath(hash(key, n), x, p) => tab[x] \notin {Empty}
    BY <1>1, <2>1, ProbeStops
  <2> QED
    BY <2>2
<1>3. new = [tab EXCEPT ![p] = key] /\ key # Empty
  BY KeysAssumption DEF Place
<1> HIDE DEF p, new
<1>4. IsTable(new, n) /\ DOMAIN new = 0 .. n - 1
  BY <1>1, <1>2, <1>3 DEF IsTable
<1>5. BlockSize(new) = n
  BY <1>1, <1>4, SizeOfTable
<1>6. Elements(new) = Elements(tab) \cup {key}
  BY <1>1, <1>2, <1>3, <1>4 DEF Elements
<1>7. Distinct(new)
  <2>1. \A i \in 0 .. n - 1 : tab[i] # key
    BY <1>1, <1>3 DEF Elements
  <2> QED
    BY <1>1, <1>2, <1>3, <1>4, <2>1 DEF Distinct
<1>8. Chained(new)
  <2> SUFFICES ASSUME NEW q \in 0 .. n - 1, new[q] # Empty,
                      NEW x \in 0 .. n - 1, OnPath(hash(new[q], n), x, q)
               PROVE  new[x] # Empty
    BY <1>4, <1>5 DEF Chained
  <2>1. CASE q = p
    BY <1>1, <1>2, <1>3, <1>4, <2>1
  <2>2. CASE q # p
    <3>1. new[q] = tab[q]
      BY <1>1, <1>3, <2>2
    <3>2. tab[x] # Empty
      BY <1>1, <3>1 DEF Sound, Chained
    <3> QED
      BY <1>1, <1>3, <3>2
  <2> QED
    BY <2>1, <2>2
<1> QED
  BY <1>4, <1>6, <1>7, <1>8 DEF Sound, new

\* getDestHashTableVal and removeDestHashTableVal find the keys of a sound table.
LEMMA LookupSound ==
  ASSUME NEW n, NEW tab, Sound(tab, n), NEW key \in Keys,
         NEW y \in 0 .. n - 1, tab[y] = Empty
  PROVE  /\ Probe(tab, key, {key, Empty}) \in 0 .. n - 1
         /\ tab[Probe(tab, key, {key, Empty})] = key <=> key \in Elements(tab)
<1> DEFINE p == Probe(tab, key, {key, Empty})
<1>1. n \in Nat \ {0} /\ DOMAIN tab = 0 .. n - 1 /\ BlockSize(tab) = n /\ key # Empty
  BY SizeOfTable, KeysAssumption DEF Sound, IsTable
<1>2. /\ p \in 0 .. n - 1 /\ tab[p] \in {key, Empty}
      /\ \A x \in 0 .. n - 1 : OnPath(hash(key, n), x, p) => tab[x] \notin {key, Empty}
  BY <1>1, ProbeStops DEF Sound
<1>3. hash(key, n) \in 0 .. n - 1
  BY <1>1, HomeIsSlot
<1> HIDE DEF p
<1>4. tab[p] = key => key \in Elements(tab)
  BY <1>1, <1>2 DEF Elements
<1>5. ASSUME key \in Elements(tab), tab[p] = Empty PROVE FALSE
  <2>1. PICK i \in 0 .. n - 1 : tab[i] = key
    BY <1>1, <1>5 DEF Elements
  <2>2. ~OnPath(hash(key, n), i, p)
    BY <1>2, <2>1
  <2>3. ~OnPath(hash(key, n), p, i)
    BY <1>1, <1>2, <1>5, <2>1 DEF Sound, Chained
  <2>4. i # p
    BY <1>1, <1>5, <2>1
  <2> QED
    BY <1>1, <1>2, <1>3, <2>2, <2>3, <2>4 DEF OnPath
<1> QED
  BY <1>2, <1>4, <1>5 DEF p

-----------------------------------------------------------------------------
(* The growth of the table.                                                *)

\* The loop of resizeHashTable, as the recursion it is.
LEMMA MovedLoop ==
  ASSUME NEW n, NEW tab, IsTable(tab, n), NEW size
  PROVE  /\ Moved(tab, size)[0] = EmptyTable(size)
         /\ \A i \in 1 .. n :
              Moved(tab, size)[i] = IF tab[i - 1] = Empty THEN Moved(tab, size)[i - 1]
                                    ELSE Place(Moved(tab, size)[i - 1], tab[i - 1])
<1> DEFINE Step(x, i) == IF tab[i - 1] = Empty THEN x ELSE Place(x, tab[i - 1])
           Loop(g, k) == g = [i \in 0 .. k |-> IF i = 0 THEN EmptyTable(size)
                                               ELSE Step(g[i - 1], i)]
           Bad == {k \in 0 .. n : ~\E g : Loop(g, k)}
<1>1. n \in Nat \ {0} /\ BlockSize(tab) = n
  BY SizeOfTable DEF IsTable
<1>2. Moved(tab, size) = CHOOSE g : Loop(g, n)
  BY <1>1 DEF Moved
<1> HIDE DEF Step
<1>3. Bad = {}
  <2> SUFFICES ASSUME Bad # {} PROVE FALSE
    OBVIOUS
  <2>1. PICK k \in Bad : \A j \in Bad : k <= j
    <3>1. Bad \subseteq Nat
      OBVIOUS
    <3> HIDE DEF Bad
    <3> QED
      BY <3>1, LeastNat
  <2>2. k # 0
    <3>1. Loop([i \in 0 .. 0 |-> EmptyTable(size)], 0)
      OBVIOUS
    <3> QED
      BY <3>1
  <2>3. k \in 1 .. n /\ k - 1 \in 0 .. n /\ ~(k <= k - 1)
    BY <1>1, <2>2
  <2>4. PICK g : Loop(g, k - 1)
    BY <2>1, <2>3
  <2> DEFINE h == [i \in 0 .. k |-> IF i = k THEN Step(g[k - 1], k) ELSE g[i]]
  <2>5. Loop(h, k)
    <3>1. \A i \in 0 .. k : h[i] = IF i = 0 THEN EmptyTable(size) ELSE Step(h[i - 1], i)
      <4> TAKE i \in 0 .. k
      <4>1. CASE i = 0
        BY <2>3, <2>4, <4>1
      <4>2. CASE i = k
        <5>1. h[i - 1] = g[k - 1]
          BY <2>3, <4>2
        <5> QED
          BY <2>3, <4>2, <5>1
      <4>3. CASE i \in 1 .. k - 1
        <5>1. h[i] = g[i] /\ h[i - 1] = g[i - 1]
          BY <2>3, <4>3
        <5>2. i \in 0 .. k - 1 /\ i # 0
          BY <2>3, <4>3
        <5>3. g[i] = Step(g[i - 1], i)
          BY <2>4, <5>2
        <5> QED
          BY <5>1, <5>2, <5>3
      <4> QED
        BY <2>3, <4>1, <4>2, <4>3
    <3> QED
      BY <3>1
  <2> QED
    BY <2>5
<1>4. \E g : Loop(g, n)
  BY <1>1, <1>3
<1>5. Loop(Moved(tab, size), n)
  <2> HIDE DEF Loop
  <2> QED
    BY <1>2, <1>4
<1>6. Moved(tab, size)[0] = EmptyTable(size)
  <2>1. 0 \in 0 .. n
    BY <1>1
  <2> QED
    BY <1>5, <2>1
<1>7. \A i \in 1 .. n : Moved(tab, size)[i] = Step(Moved(tab, size)[i - 1], i)
  <2> TAKE i \in 1 .. n
  <2>1. i \in 0 .. n /\ i # 0
    BY <1>1
  <2> QED
    BY <1>5, <2>1
<1> QED
  BY <1>6, <1>7 DEF Step

\* Growing a sound table keeps its keys.
LEMMA ResizeSound ==
  ASSUME NEW n, NEW tab, Sound(tab, n), NEW size \in Nat \ {0},
         Cardinality(Elements(tab)) < size
  PROVE  /\ Sound(resizeHashTable(tab, size), size)
         /\ Elements(resizeHashTable(tab, size)) = Elements(tab)
<1> DEFINE M == Moved(tab, size)
           Before(i) == {tab[x] : x \in 0 .. i - 1} \ {Empty}
           Fine(i) == Sound(M[i], size) /\ Elements(M[i]) = Before(i)
           Bad == {i \in 0 .. n : ~Fine(i)}
<1>1. n \in Nat \ {0} /\ DOMAIN tab = 0 .. n - 1 /\ BlockSize(tab) = n
      /\ IsTable(tab, n) /\ Distinct(tab)
  BY SizeOfTable DEF Sound, IsTable
<1>2. /\ M[0] = EmptyTable(size)
      /\ \A i \in 1 .. n : M[i] = IF tab[i - 1] = Empty THEN M[i - 1]
                                  ELSE Place(M[i - 1], tab[i - 1])
  BY <1>1, MovedLoop
<1>3. resizeHashTable(tab, size) = M[n]
  BY <1>1 DEF resizeHashTable
<1>4. IsFiniteSet(Elements(tab))
  BY <1>1, UsedSlots
<1> HIDE DEF M
<1>5. Fine(0)
  <2>1. M[0] = [x \in 0 .. size - 1 |-> Empty]
    BY <1>2 DEF EmptyTable
  <2>2. Sound(M[0], size)
    BY <2>1 DEF Sound, IsTable, Distinct, Chained
  <2>3. Elements(M[0]) = Before(0)
    BY <2>1 DEF Elements
  <2> QED
    BY <2>2, <2>3
<1>6. ASSUME NEW i \in 1 .. n, Fine(i - 1) PROVE Fine(i)
  <2>1. i - 1 \in 0 .. n - 1 /\ 0 .. i - 1 = (0 .. (i - 1) - 1) \cup {i - 1}
    BY <1>1
  <2>2. CASE tab[i - 1] = Empty
    <3>1. M[i] = M[i - 1]
      BY <1>2, <2>2
    <3>2. Before(i) = Before(i - 1)
      BY <2>1, <2>2
    <3> HIDE DEF Before
    <3> QED
      BY <1>6, <3>1, <3>2
  <2>3. CASE tab[i - 1] # Empty
    <3>1. M[i] = Place(M[i - 1], tab[i - 1])
      BY <1>2, <2>3
    <3>2. tab[i - 1] \in Keys
      BY <1>1, <2>1, <2>3 DEF IsTable
    <3>3. Before(i) = Before(i - 1) \cup {tab[i - 1]}
      BY <2>1, <2>3
    <3>4. tab[i - 1] \notin Before(i - 1)
      <4>1. \A x \in 0 .. (i - 1) - 1 : x \in 0 .. n - 1 /\ x # i - 1
        BY <1>1, <2>1
      <4> QED
        BY <1>1, <2>1, <2>3, <4>1 DEF Distinct
    <3>5. Before(i - 1) \subseteq Elements(tab)
      <4>1. \A x \in 0 .. (i - 1) - 1 : x \in 0 .. n - 1
        BY <1>1, <2>1
      <4> QED
        BY <1>1, <4>1 DEF Elements
    <3> HIDE DEF Before
    <3>6. Sound(M[i - 1], size) /\ Elements(M[i - 1]) \subseteq Elements(tab)
      BY <1>6, <3>5
    <3>7. PICK y \in 0 .. size - 1 : M[i - 1][y] = Empty
      BY <1>4, <3>6, SlotLeft DEF Sound
    <3> QED
      BY <1>6, <3>1, <3>2, <3>3, <3>4, <3>6, <3>7, PlaceSound
  <2> QED
    BY <2>2, <2>3
<1>7. Bad = {}
  <2> SUFFICES ASSUME Bad # {} PROVE FALSE
    OBVIOUS
  <2> HIDE DEF Fine
  <2>1. PICK k \in Bad : \A j \in Bad : k <= j
    <3>1. Bad \subseteq Nat
      OBVIOUS
    <3> HIDE DEF Bad
    <3> QED
      BY <3>1, LeastNat
  <2>2. k \in 1 .. n /\ k - 1 \in 0 .. n /\ ~(k <= k - 1)
    BY <1>1, <1>5
  <2>3. Fine(k - 1)
    BY <2>1, <2>2
  <2> QED
    BY <1>6, <2>2, <2>3
<1>8. Fine(n)
  <2> HIDE DEF Fine
  <2> QED
    BY <1>1, <1>7
<1>9. Before(n) = Elements(tab)
  BY <1>1 DEF Elements
<1> HIDE DEF Before
<1> QED
  BY <1>3, <1>8, <1>9

-----------------------------------------------------------------------------
(* The backward-shift deletion.                                            *)

\* How many steps after slot a the slot x is, in a table of n slots.
Off(a, x, n) == IF x >= a THEN x - a ELSE x - a + n

\* The probe paths are unbroken except at the gap i.
ChainedBut(tab, i) ==
  \A p \in DOMAIN tab : tab[p] # Empty =>
    \A x \in DOMAIN tab :
      OnPath(hash(tab[p], BlockSize(tab)), x, p) => tab[x] # Empty \/ x = i

(***************************************************************************)
(* The invariant of the loop after d turns, for a gap that was at index,   *)
(* an empty slot z and the keys E: the gap has not been carried past slot  *)
(* index + d, no slot between the gap and that one holds a key whose path  *)
(* contains the gap, and the end of the cluster is still to come.          *)
(***************************************************************************)
LoopInv(s, d, index, z, E, n) ==
  /\ s \in [tab : [0 .. n - 1 -> Keys \cup {Empty}], i : 0 .. n - 1, ended : BOOLEAN]
  /\ Distinct(s.tab) /\ Elements(s.tab) = E
  /\ s.ended => Chained(s.tab)
  /\ ~s.ended =>
       /\ d < Off(index, z, n) /\ s.tab[z] = Empty
       /\ Off(index, s.i, n) <= d /\ s.tab[s.i] = Empty
       /\ ChainedBut(s.tab, s.i)
       /\ \A p \in 0 .. n - 1 :
            s.tab[p] # Empty /\ Off(index, s.i, n) < Off(index, p, n) /\ Off(index, p, n) <= d
              => ~OnPath(hash(s.tab[p], n), s.i, p)

\* The end of the cluster: no path contains the gap, or it would contain j too.
LEMMA GapOffEveryPath ==
  ASSUME NEW n \in Nat \ {0}, NEW index \in 0 .. n - 1, NEW i \in 0 .. n - 1,
         NEW j \in 0 .. n - 1, NEW p \in 0 .. n - 1, NEW home \in 0 .. n - 1,
         Off(index, i, n) < Off(index, j, n), p # i, p # j,
         OnPath(home, i, p), ~OnPath(home, j, p)
  PROVE  Off(index, i, n) < Off(index, p, n) /\ Off(index, p, n) < Off(index, j, n)
BY DEF Off, OnPath

\* A shorter path is part of a longer one from the same home.
LEMMA PathPrefix ==
  ASSUME NEW n \in Nat \ {0}, NEW i \in 0 .. n - 1, NEW j \in 0 .. n - 1,
         NEW x \in 0 .. n - 1, NEW home \in 0 .. n - 1,
         OnPath(home, i, j), OnPath(home, x, i)
  PROVE  OnPath(home, x, j) /\ x # i
BY DEF OnPath

\* One turn of the loop keeps its invariant.
LEMMA ShiftTurn ==
  ASSUME NEW n \in Nat \ {0}, NEW index \in 0 .. n - 1, NEW z \in 0 .. n - 1, NEW E,
         NEW s, NEW d \in 0 .. n - 1, LoopInv(s, d, index, z, E, n)
  PROVE  LoopInv(Shift(s, (index + (d + 1)) % n), d + 1, index, z, E, n)
<1> DEFINE j == (index + (d + 1)) % n
           r == Shift(s, j)
<1>1. /\ s.tab \in [0 .. n - 1 -> Keys \cup {Empty}] /\ DOMAIN s.tab = 0 .. n - 1
      /\ s.i \in 0 .. n - 1 /\ s.ended \in BOOLEAN
      /\ s \in [tab : [0 .. n - 1 -> Keys \cup {Empty}], i : 0 .. n - 1, ended : BOOLEAN]
      /\ Distinct(s.tab) /\ Elements(s.tab) = E
  BY DEF LoopInv
<1>2. BlockSize(s.tab) = n
  BY <1>1, SizeOfTable
<1>3. j \in 0 .. n - 1 /\ (d + 1 < n => Off(index, j, n) = d + 1)
  <2>1. d + 1 \in 0 .. n
    OBVIOUS
  <2>2. j = IF index + (d + 1) < n THEN index + (d + 1) ELSE index + (d + 1) - n
    BY <2>1, WrapOnce
  <2> QED
    BY <2>2 DEF Off
<1> HIDE DEF j
<1>4. Off(index, z, n) \in 0 .. n - 1
  BY DEF Off
<1>5. CASE s.ended
  <2>1. r = [s EXCEPT !.ended = TRUE]
    BY <1>5 DEF Shift
  <2>2. r = s
    BY <1>1, <1>5, <2>1
  <2> QED
    BY <1>5, <2>2 DEF LoopInv, j
<1>6. CASE ~s.ended /\ s.tab[j] = Empty
  <2>1. r = [s EXCEPT !.ended = TRUE]
    BY <1>6 DEF Shift
  <2>2. /\ r \in [tab : [0 .. n - 1 -> Keys \cup {Empty}], i : 0 .. n - 1, ended : BOOLEAN]
        /\ r.tab = s.tab /\ r.ended
    BY <1>1, <2>1
  <2>3. d < Off(index, z, n) /\ Off(index, s.i, n) <= d /\ s.tab[s.i] = Empty
        /\ ChainedBut(s.tab, s.i)
    BY <1>6 DEF LoopInv
  <2>4. Off(index, j, n) = d + 1 /\ Off(index, s.i, n) \in Nat
    BY <1>1, <1>3, <1>4, <2>3 DEF Off
  <2>5. j # s.i
    BY <2>3, <2>4
  <2>6. Chained(s.tab)
    <3> SUFFICES ASSUME NEW p \in 0 .. n - 1, s.tab[p] # Empty,
                        NEW x \in 0 .. n - 1, OnPath(hash(s.tab[p], n), x, p),
                        s.tab[x] = Empty
                 PROVE  FALSE
      BY <1>1, <1>2 DEF Chained
    <3>1. x = s.i
      BY <1>1, <1>2, <2>3 DEF ChainedBut
    <3>2. ~OnPath(hash(s.tab[p], n), j, p)
      BY <1>1, <1>2, <1>3, <1>6, <2>3, <2>5 DEF ChainedBut
    <3>3. hash(s.tab[p], n) \in 0 .. n - 1
      BY <1>1, HomeIsSlot
    <3>4. p # s.i /\ p # j
      BY <1>6, <2>3
    <3>5. Off(index, s.i, n) < Off(index, p, n) /\ Off(index, p, n) < Off(index, j, n)
      <4>1. Off(index, s.i, n) < Off(index, j, n)
        BY <2>3, <2>4
      <4> QED
        BY <1>1, <1>3, <3>1, <3>2, <3>3, <3>4, <4>1, GapOffEveryPath
    <3>6. Off(index, p, n) <= d
      BY <2>4, <3>5 DEF Off
    <3> QED
      BY <1>6, <3>1, <3>5, <3>6 DEF LoopInv
  <2> QED
    BY <1>1, <2>2, <2>6 DEF LoopInv, j
<1>7. CASE ~s.ended /\ s.tab[j] # Empty
  <2>1. d < Off(index, z, n) /\ Off(index, s.i, n) <= d /\ s.tab[s.i] = Empty
        /\ ChainedBut(s.tab, s.i) /\ s.tab[z] = Empty
    BY <1>7 DEF LoopInv
  <2>2. Off(index, j, n) = d + 1 /\ Off(index, s.i, n) \in Nat
    BY <1>1, <1>3, <1>4, <2>1 DEF Off
  <2>3. j # s.i /\ j # z
    BY <1>7, <2>1, <2>2
  <2>4. d + 1 < Off(index, z, n)
    BY <1>3, <1>4, <2>1, <2>2, <2>3 DEF Off
  <2>5. z # s.i
    BY <2>1, <2>2, <1>4
  <2>6. CASE ~OnPath(hash(s.tab[j], n), s.i, j)
    <3>1. r = s
      BY <1>2, <1>7, <2>6 DEF Shift
    <3>2. ASSUME NEW p \in 0 .. n - 1, s.tab[p] # Empty,
                 Off(index, s.i, n) < Off(index, p, n), Off(index, p, n) <= d + 1
          PROVE  ~OnPath(hash(s.tab[p], n), s.i, p)
      <4>1. CASE Off(index, p, n) <= d
        BY <1>7, <3>2, <4>1 DEF LoopInv
      <4>2. CASE Off(index, p, n) = d + 1
        <5>1. p = j
          BY <1>3, <2>2, <4>2 DEF Off
        <5> QED
          BY <2>6, <5>1
      <4> QED
        BY <3>2, <4>1, <4>2 DEF Off
    <3>3. Off(index, s.i, n) <= d + 1
      BY <2>1, <2>2
    <3> QED
      BY <1>1, <1>7, <2>1, <2>4, <3>1, <3>2, <3>3 DEF LoopInv, j
  <2>7. CASE OnPath(hash(s.tab[j], n), s.i, j)
    <3> DEFINE new == [s.tab EXCEPT ![s.i] = s.tab[j], ![j] = Empty]
    <3>1. r = [tab |-> new, i |-> j, ended |-> FALSE]
      BY <1>2, <1>7, <2>7 DEF Shift
    <3>2. /\ new \in [0 .. n - 1 -> Keys \cup {Empty}] /\ DOMAIN new = 0 .. n - 1
          /\ new[s.i] = s.tab[j] /\ new[j] = Empty
          /\ \A x \in 0 .. n - 1 : x # s.i /\ x # j => new[x] = s.tab[x]
      BY <1>1, <1>3, <2>3
    <3> HIDE DEF new
    <3>3. BlockSize(new) = n
      BY <3>2, SizeOfTable
    <3>4. r.tab = new /\ r.i = j /\ r.ended = FALSE
          /\ r \in [tab : [0 .. n - 1 -> Keys \cup {Empty}], i : 0 .. n - 1, ended : BOOLEAN]
      BY <1>3, <3>1, <3>2
    <3>5. Elements(new) = E
      <4>1. ASSUME NEW e \in Elements(new) PROVE e \in Elements(s.tab)
        <5>1. PICK x \in 0 .. n - 1 : new[x] = e /\ e # Empty
          BY <3>2, <4>1 DEF Elements
        <5>2. CASE x = s.i
          BY <1>1, <1>3, <3>2, <5>1, <5>2 DEF Elements
        <5>3. CASE x # s.i
          BY <1>1, <3>2, <5>1, <5>3 DEF Elements
        <5> QED
          BY <5>2, <5>3
      <4>2. ASSUME NEW e \in Elements(s.tab) PROVE e \in Elements(new)
        <5>1. PICK x \in 0 .. n - 1 : s.tab[x] = e /\ e # Empty
          BY <1>1, <4>2 DEF Elements
        <5>2. CASE x = j
          BY <1>1, <3>2, <5>1, <5>2 DEF Elements
        <5>3. CASE x # j
          BY <1>1, <2>1, <3>2, <5>1, <5>3 DEF Elements
        <5> QED
          BY <5>2, <5>3
      <4> QED
        BY <1>1, <4>1, <4>2
    <3>6. Distinct(new)
      BY <1>1, <1>3, <2>1, <3>2 DEF Distinct
    <3>7. ChainedBut(new, j)
      <4> SUFFICES ASSUME NEW p \in 0 .. n - 1, new[p] # Empty,
                          NEW x \in 0 .. n - 1, OnPath(hash(new[p], n), x, p), x # j
                   PROVE  new[x] # Empty
        BY <3>2, <3>3 DEF ChainedBut
      <4>1. CASE x = s.i
        BY <1>7, <3>2, <4>1
      <4>2. CASE x # s.i /\ p # s.i
        <5>1. p # j /\ new[p] = s.tab[p] /\ new[x] = s.tab[x]
          BY <3>2, <4>2
        <5> QED
          BY <1>1, <1>2, <2>1, <4>2, <5>1 DEF ChainedBut
      <4>3. CASE x # s.i /\ p = s.i
        <5>1. hash(s.tab[j], n) \in 0 .. n - 1
          BY <1>1, <1>3, <1>7, HomeIsSlot
        <5>2. OnPath(hash(s.tab[j], n), x, s.i)
          BY <3>2, <4>3
        <5>3. OnPath(hash(s.tab[j], n), x, j)
          BY <1>1, <1>3, <2>7, <5>1, <5>2, PathPrefix
        <5>4. s.tab[x] # Empty
          BY <1>1, <1>2, <1>3, <1>7, <2>1, <4>3, <5>3 DEF ChainedBut
        <5> QED
          BY <3>2, <4>3, <5>4
      <4> QED
        BY <4>1, <4>2, <4>3
    <3>8. new[z] = Empty
      BY <2>1, <2>3, <2>5, <3>2
    <3>9. ASSUME NEW p \in 0 .. n - 1 PROVE ~(d + 1 < Off(index, p, n) /\ Off(index, p, n) <= d + 1)
      BY DEF Off
    <3>10. Off(index, r.i, n) = d + 1 /\ Off(index, r.i, n) <= d + 1
      BY <2>2, <3>4
    <3> QED
      BY <2>4, <3>2, <3>4, <3>5, <3>6, <3>7, <3>8, <3>9, <3>10 DEF LoopInv, j
  <2> QED
    BY <2>6, <2>7
<1> QED
  BY <1>1, <1>5, <1>6, <1>7 DEF j

\* The loop of removeDestHashTableVal, as the recursion it is.
LEMMA ShiftedLoop ==
  ASSUME NEW n, NEW tab, IsTable(tab, n), NEW index
  PROVE  /\ Shifted(tab, index)[0] = [tab |-> tab, i |-> index, ended |-> FALSE]
         /\ \A d \in 1 .. n :
              Shifted(tab, index)[d] = Shift(Shifted(tab, index)[d - 1], (index + d) % n)
<1> DEFINE First == [tab |-> tab, i |-> index, ended |-> FALSE]
           Step(x, d) == Shift(x, (index + d) % n)
           Loop(g, k) == g = [d \in 0 .. k |-> IF d = 0 THEN First ELSE Step(g[d - 1], d)]
           Bad == {k \in 0 .. n : ~\E g : Loop(g, k)}
<1>1. n \in Nat \ {0} /\ BlockSize(tab) = n
  BY SizeOfTable DEF IsTable
<1>2. Shifted(tab, index) = CHOOSE g : Loop(g, n)
  BY <1>1 DEF Shifted
<1> HIDE DEF First, Step
<1>3. Bad = {}
  <2> SUFFICES ASSUME Bad # {} PROVE FALSE
    OBVIOUS
  <2>1. PICK k \in Bad : \A j \in Bad : k <= j
    <3>1. Bad \subseteq Nat
      OBVIOUS
    <3> HIDE DEF Bad
    <3> QED
      BY <3>1, LeastNat
  <2>2. k # 0
    <3>1. Loop([d \in 0 .. 0 |-> First], 0)
      OBVIOUS
    <3> QED
      BY <3>1
  <2>3. k \in 1 .. n /\ k - 1 \in 0 .. n /\ ~(k <= k - 1)
    BY <1>1, <2>2
  <2>4. PICK g : Loop(g, k - 1)
    BY <2>1, <2>3
  <2> DEFINE h == [d \in 0 .. k |-> IF d = k THEN Step(g[k - 1], k) ELSE g[d]]
  <2>5. Loop(h, k)
    <3>1. \A d \in 0 .. k : h[d] = IF d = 0 THEN First ELSE Step(h[d - 1], d)
      <4> TAKE d \in 0 .. k
      <4>1. CASE d = 0
        BY <2>3, <2>4, <4>1
      <4>2. CASE d = k
        <5>1. h[d - 1] = g[k - 1]
          BY <2>3, <4>2
        <5> QED
          BY <2>3, <4>2, <5>1
      <4>3. CASE d \in 1 .. k - 1
        <5>1. h[d] = g[d] /\ h[d - 1] = g[d - 1]
          BY <2>3, <4>3
        <5>2. d \in 0 .. k - 1 /\ d # 0
          BY <2>3, <4>3
        <5>3. g[d] = Step(g[d - 1], d)
          BY <2>4, <5>2
        <5> QED
          BY <5>1, <5>2, <5>3
      <4> QED
        BY <2>3, <4>1, <4>2, <4>3
    <3> QED
      BY <3>1
  <2> QED
    BY <2>5
<1>4. \E g : Loop(g, n)
  BY <1>1, <1>3
<1>5. Loop(Shifted(tab, index), n)
  <2> HIDE DEF Loop
  <2> QED
    BY <1>2, <1>4
<1>6. Shifted(tab, index)[0] = First
  <2>1. 0 \in 0 .. n
    BY <1>1
  <2> QED
    BY <1>5, <2>1
<1>7. \A d \in 1 .. n : Shifted(tab, index)[d] = Step(Shifted(tab, index)[d - 1], d)
  <2> TAKE d \in 1 .. n
  <2>1. d \in 0 .. n /\ d # 0
    BY <1>1
  <2> QED
    BY <1>5, <2>1
<1> QED
  BY <1>6, <1>7 DEF First, Step

\* Deleting the key at index keeps the other keys and their probe paths.
LEMMA RemoveSound ==
  ASSUME NEW n, NEW tab, Sound(tab, n), NEW index \in 0 .. n - 1, tab[index] # Empty,
         NEW z \in 0 .. n - 1, tab[z] = Empty
  PROVE  LET new == BackwardShift([tab EXCEPT ![index] = Empty], index)
         IN  Sound(new, n) /\ Elements(new) = Elements(tab) \ {tab[index]}
<1> DEFINE gap == [tab EXCEPT ![index] = Empty]
           turn == Shifted(gap, index)
           E == Elements(tab) \ {tab[index]}
           Fine(d) == LoopInv(turn[d], d, index, z, E, n)
           Bad == {d \in 0 .. n : ~Fine(d)}
<1>1. n \in Nat \ {0} /\ DOMAIN tab = 0 .. n - 1 /\ IsTable(tab, n) /\ Distinct(tab)
      /\ Chained(tab) /\ BlockSize(tab) = n
  BY SizeOfTable DEF Sound, IsTable
<1>2. /\ gap \in [0 .. n - 1 -> Keys \cup {Empty}] /\ DOMAIN gap = 0 .. n - 1
      /\ gap[index] = Empty /\ \A x \in 0 .. n - 1 : x # index => gap[x] = tab[x]
  BY <1>1 DEF IsTable
<1> HIDE DEF gap
<1>3. IsTable(gap, n) /\ BlockSize(gap) = n
  BY <1>1, <1>2, SizeOfTable DEF IsTable
<1>4. /\ turn[0] = [tab |-> gap, i |-> index, ended |-> FALSE]
      /\ \A d \in 1 .. n : turn[d] = Shift(turn[d - 1], (index + d) % n)
  BY <1>3, ShiftedLoop
<1> HIDE DEF turn
<1>5. Fine(0)
  <2>1. /\ turn[0] \in [tab : [0 .. n - 1 -> Keys \cup {Empty}], i : 0 .. n - 1,
                        ended : BOOLEAN]
        /\ turn[0].tab = gap /\ turn[0].i = index /\ turn[0].ended = FALSE
    BY <1>2, <1>4
  <2>2. Distinct(gap)
    BY <1>1, <1>2 DEF Distinct
  <2>3. Elements(gap) = E
    BY <1>1, <1>2 DEF Elements, Distinct
  <2>4. ChainedBut(gap, index)
    BY <1>1, <1>2, <1>3 DEF Chained, ChainedBut
  <2>5. z # index /\ gap[z] = Empty /\ 0 < Off(index, z, n) /\ Off(index, index, n) = 0
    BY <1>1, <1>2 DEF Off
  <2>6. \A p \in 0 .. n - 1 : ~(0 < Off(index, p, n) /\ Off(index, p, n) <= 0)
    BY <1>1 DEF Off
  <2> HIDE DEF E
  <2> QED
    BY <1>2, <2>1, <2>2, <2>3, <2>4, <2>5, <2>6 DEF LoopInv
<1>6. ASSUME NEW d \in 1 .. n, Fine(d - 1) PROVE Fine(d)
  <2>1. d - 1 \in 0 .. n - 1 /\ (d - 1) + 1 = d
    BY <1>1
  <2>2. turn[d] = Shift(turn[d - 1], (index + ((d - 1) + 1)) % n)
    BY <1>4, <2>1
  <2> HIDE DEF E
  <2>3. LoopInv(turn[d], (d - 1) + 1, index, z, E, n)
    BY <1>1, <1>6, <2>1, <2>2, ShiftTurn
  <2> QED
    BY <2>1, <2>3
<1>7. Bad = {}
  <2> SUFFICES ASSUME Bad # {} PROVE FALSE
    OBVIOUS
  <2> HIDE DEF Fine
  <2>1. PICK k \in Bad : \A j \in Bad : k <= j
    <3>1. Bad \subseteq Nat
      OBVIOUS
    <3> HIDE DEF Bad
    <3> QED
      BY <3>1, LeastNat
  <2>2. k \in 1 .. n /\ k - 1 \in 0 .. n /\ ~(k <= k - 1)
    BY <1>1, <1>5
  <2>3. Fine(k - 1)
    BY <2>1, <2>2
  <2> QED
    BY <1>6, <2>2, <2>3
<1>8. Fine(n)
  <2> HIDE DEF Fine
  <2> QED
    BY <1>1, <1>7
<1>9. turn[n].ended
  BY <1>1, <1>8 DEF LoopInv, Off
<1>10. Sound(turn[n].tab, n) /\ Elements(turn[n].tab) = E
  BY <1>1, <1>8, <1>9 DEF LoopInv, Sound, IsTable
<1>11. BackwardShift(gap, index) = turn[n].tab
  BY <1>3 DEF BackwardShift, turn
<1> QED
  BY <1>10, <1>11 DEF gap

-----------------------------------------------------------------------------
(* The operations.                                                         *)

\* In a state of the invariant some slot is empty.
LEMMA EmptySlot ==
  ASSUME IndexInv
  PROVE  \E y \in 0 .. BlockSize(hashtable) - 1 : hashtable[y] = Empty
<1>1. Cardinality(keys) \in Nat /\ Cardinality(keys) < BlockSize(hashtable)
  BY FS_CardinalityType DEF IndexInv, Sound, IsTable
<1> QED
  BY <1>1, SlotLeft DEF IndexInv, Sound

LEMMA InitIndexInv ==
  ASSUME IndexInit
  PROVE  IndexInv
<1>1. hashtable = [i \in 0 .. 1 |-> Empty] /\ keys = {} /\ entryCounter = 0
  BY DEF IndexInit, EmptyTable
<1>2. BlockSize(hashtable) = 2
  <2>1. DOMAIN hashtable = 0 .. 2 - 1 /\ 2 \in Nat \ {0}
    BY <1>1
  <2> QED
    BY <2>1, SizeOfTable
<1>3. Sound(hashtable, 2) /\ Elements(hashtable) = {}
  BY <1>1 DEF Sound, IsTable, Distinct, Chained, Elements
<1> QED
  BY <1>1, <1>2, <1>3, FS_EmptySet DEF IndexInv

\* setDestHashTableVal, with or without growth.
LEMMA SetKeepsIndexInv ==
  ASSUME IndexInv, NEW key \in Keys, setDestHashTableVal(key)
  PROVE  IndexInv'
<1> DEFINE n == BlockSize(hashtable)
           base == IF HalfFull THEN resizeHashTable(hashtable, 2 * n) ELSE hashtable
           size == IF HalfFull THEN 2 * n ELSE n
<1>1. /\ n \in Nat \ {0} /\ n >= 2 /\ Sound(hashtable, n) /\ keys = Elements(hashtable)
      /\ IsFiniteSet(keys) /\ entryCounter = Cardinality(keys) /\ 2 * entryCounter <= n
      /\ entryCounter \in Nat
  BY FS_CardinalityType DEF IndexInv, Sound, IsTable
<1>2. hashtable' = Place(base, key) /\ entryCounter' = entryCounter + 1 /\ keys' = keys \cup {key}
  BY DEF setDestHashTableVal
<1>3. key \notin keys
  <2>1. PICK y \in 0 .. n - 1 : hashtable[y] = Empty
    BY EmptySlot
  <2>2. ~(hashtable[Probe(hashtable, key, {key, Empty})] = key)
    BY DEF setDestHashTableVal, getDestHashTableVal
  <2> QED
    BY <1>1, <2>1, <2>2, LookupSound
<1>4. Sound(base, size) /\ Elements(base) = keys
  <2>1. CASE HalfFull
    <3>1. 2 * n \in Nat \ {0} /\ Cardinality(Elements(hashtable)) < 2 * n
      BY <1>1
    <3> HIDE DEF n
    <3> QED
      BY <1>1, <2>1, <3>1, ResizeSound
  <2>2. CASE ~HalfFull
    BY <1>1, <2>2
  <2> QED
    BY <2>1, <2>2
<1>5. size \in Nat \ {0} /\ size >= 2 /\ 2 * (entryCounter + 1) <= size
  BY <1>1 DEF HalfFull
<1> HIDE DEF base, size, n
<1>6. PICK y \in 0 .. size - 1 : base[y] = Empty
  <2>1. Cardinality(keys) < size
    BY <1>1, <1>5
  <2> QED
    BY <1>1, <1>4, <2>1, SlotLeft DEF Sound
<1>7. Sound(Place(base, key), size) /\ Elements(Place(base, key)) = keys \cup {key}
  BY <1>3, <1>4, <1>6, PlaceSound
<1>8. BlockSize(hashtable') = size
  BY <1>2, <1>5, <1>7, SizeOfTable DEF Sound, IsTable
<1>9. IsFiniteSet(keys') /\ entryCounter' = Cardinality(keys')
  BY <1>1, <1>2, <1>3, FS_AddElement
<1> QED
  BY <1>2, <1>5, <1>7, <1>8, <1>9 DEF IndexInv

\* removeDestHashTableVal, of a key that is present or not.
LEMMA RemoveKeepsIndexInv ==
  ASSUME IndexInv, NEW key \in Keys, removeDestHashTableVal(key)
  PROVE  IndexInv'
<1> DEFINE n == BlockSize(hashtable)
           index == Probe(hashtable, key, {key, Empty})
<1>1. /\ n \in Nat \ {0} /\ n >= 2 /\ Sound(hashtable, n) /\ keys = Elements(hashtable)
      /\ IsFiniteSet(keys) /\ entryCounter = Cardinality(keys) /\ 2 * entryCounter <= n
      /\ entryCounter \in Nat
  BY FS_CardinalityType DEF IndexInv, Sound, IsTable
<1>2. PICK z \in 0 .. n - 1 : hashtable[z] = Empty
  BY EmptySlot
<1>3. index \in 0 .. n - 1 /\ (hashtable[index] = key <=> key \in keys)
  BY <1>1, <1>2, LookupSound
<1>4. keys' = keys \ {key}
  BY DEF removeDestHashTableVal
<1>5. CASE hashtable[index] # key
  <2>1. UNCHANGED <<hashtable, entryCounter>> /\ keys' = keys
    BY <1>3, <1>4, <1>5 DEF removeDestHashTableVal
  <2>2. n' = n
    BY <2>1 DEF BlockSize
  <2> QED
    BY <1>1, <2>1, <2>2 DEF IndexInv, Sound, IsTable, Distinct, Chained, Elements
<1>6. CASE hashtable[index] = key
  <2> DEFINE new == BackwardShift([hashtable EXCEPT ![index] = Empty], index)
  <2>1. hashtable' = new /\ entryCounter' = entryCounter - 1
    BY <1>6 DEF removeDestHashTableVal
  <2>2. hashtable[index] # Empty
    BY <1>6, KeysAssumption
  <2> HIDE DEF n, index
  <2>3. Sound(new, n) /\ Elements(new) = Elements(hashtable) \ {hashtable[index]}
    BY <1>1, <1>2, <1>3, <2>2, RemoveSound
  <2>4. BlockSize(hashtable') = n
    BY <1>1, <2>1, <2>3, SizeOfTable DEF Sound, IsTable
  <2>5. IsFiniteSet(keys') /\ entryCounter' = Cardinality(keys')
    BY <1>1, <1>3, <1>4, <1>6, <2>1, FS_RemoveElement
  <2> HIDE DEF new
  <2> QED
    BY <1>1, <1>4, <1>6, <2>1, <2>3, <2>4, <2>5 DEF IndexInv
<1> QED
  BY <1>5, <1>6

\* Every state of the index is sound, and its keys are the ones set and not removed.
THEOREM IndexInvariant == IndexSpec => []IndexInv
<1>1. IndexInit => IndexInv
  BY InitIndexInv
<1>2. IndexInv /\ [IndexNext]_indexVars => IndexInv'
  <2> SUFFICES ASSUME IndexInv, [IndexNext]_indexVars PROVE IndexInv'
    OBVIOUS
  <2>1. CASE IndexNext
    BY <2>1, SetKeepsIndexInv, RemoveKeepsIndexInv DEF IndexNext
  <2>2. CASE UNCHANGED indexVars
    BY <2>2 DEF indexVars, IndexInv, Sound, IsTable, Distinct, Chained, Elements, BlockSize
  <2> QED
    BY <2>1, <2>2
<1> QED
  BY <1>1, <1>2, PTL DEF IndexSpec

\* Every probe loop of get, set and remove ends: the counter counts the used slots
\* and at least half of the slots are empty, whatever was set and removed.
THEOREM IndexProbesEnd == IndexSpec => []ProbesEnd
<1>1. IndexInv => ProbesEnd
  BY UsedSlots DEF IndexInv, Sound, ProbesEnd
<1> QED
  BY <1>1, IndexInvariant, PTL

\* A lookup finds exactly the destinations set and not removed since: no growth
\* loses a key and no deletion breaks the probe path of another.
THEOREM IndexLookupExact == IndexSpec => []LookupExact
<1>1. IndexInv => LookupExact
  <2> SUFFICES ASSUME IndexInv, NEW key \in Keys
               PROVE  getDestHashTableVal(key) <=> key \in keys
    BY DEF LookupExact
  <2>1. PICK y \in 0 .. BlockSize(hashtable) - 1 : hashtable[y] = Empty
    BY EmptySlot
  <2> QED
    BY <2>1, LookupSound DEF IndexInv, getDestHashTableVal
<1> QED
  BY <1>1, IndexInvariant, PTL
=============================================================================
