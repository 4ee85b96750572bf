-------------------------- MODULE VertexEdgesProofs --------------------------
(***************************************************************************)
(* Proofs about VertexEdges, for every vertex, workload, size of the       *)
(* buffers and number of epochs: the stored edges, the index M and the     *)
(* counters agree after every merge, and Transform takes no other edge for *)
(* that of a version; if epochs are not pipelined, it finds the edge.      *)
(***************************************************************************)
EXTENDS VertexEdges, FiniteSetTheorems, SequenceTheorems, WellFoundedInduction, TLAPS

-----------------------------------------------------------------------------
(* Types, for a vertex with destinations D.                                *)

Items(D) == [e : D, del : BOOLEAN, block : Nat, tmp : BOOLEAN, index : Nat, w : Nat,
             pblock : Nat]

Blocks(D) == [start : Seq(Items(D)), tmp_item : Seq(Items(D)), M : SUBSET D, num : Nat,
              capacity : Nat, merge_times : Nat]

Places == {"start", "tmp_item"} \X Nat

Entries(D) == [e : D, del : BOOLEAN, weight : Nat, offset : Places, merge_times : Nat,
               last_epoch : Nat, old_intra_c : Nat, new_intra_c : Nat, next : BOOLEAN]

Buffers(D) == [timestamp_ : Nat, entries : Seq(Entries(D))]

Stages == {"idle", "clear", "load", "store", "done"}

VertexType ==
  /\ use \in Uses
  /\ eb \in Blocks(Dsts)
  /\ tmp_vb \in [Slots -> Buffers(Dsts)]
  /\ active_tvb_mask_ \in SUBSET Slots /\ mask_reg \in SUBSET Slots
  /\ intra_counter_ \in [Epochs -> Nat]
  /\ cur_ \in Epochs /\ read_epoch_ \in 0 .. cur_ - 1 /\ g_oldest_epoch \in 0 .. read_epoch_
  /\ stage \in Stages
  /\ stage # "idle" => read_epoch_ + 1 < cur_
  /\ IsFiniteSet(log)

-----------------------------------------------------------------------------
(* Sets and sequences.                                                     *)

LEMMA NatHasLeast ==
  ASSUME NEW T, T \subseteq Nat, T # {}
  PROVE  Min(T) \in T /\ \A y \in T : Min(T) <= y
<1>1. PICK x \in T : \A y \in T : ~(<<y, x>> \in OpToRel(<, Nat))
  BY NatLessThanWellFounded, WFMin, Zenon
<1>2. \A y \in T : ~(y < x)
  BY <1>1 DEF OpToRel
<1>3. \A y \in T : x <= y
  BY <1>2
<1> QED
  BY <1>3 DEF Min

\* A finite set of items can be sorted.
LEMMA SortExists ==
  ASSUME NEW S, IsFiniteSet(S), \A x \in S : x.e \in Nat
  PROVE  \E s \in [1 .. Cardinality(S) -> S] :
           /\ \A i, j \in DOMAIN s : i < j => s[i].e <= s[j].e
           /\ Range(s) = S
<1> DEFINE Sorted(s, n, T) == /\ s \in [1 .. n -> T]
                              /\ \A i, j \in 1 .. n : i < j => s[i].e <= s[j].e
                              /\ Range(s) = T
           P(n) == \A T \in SUBSET S : Cardinality(T) = n => \E s : Sorted(s, n, T)
           Bad == {n \in Nat : ~P(n)}
<1>1. \A T \in SUBSET S : IsFiniteSet(T) /\ Cardinality(T) \in Nat
  BY FS_Subset, FS_CardinalityType
<1>2. P(0)
  <2> SUFFICES ASSUME NEW T \in SUBSET S, Cardinality(T) = 0 PROVE \E s : Sorted(s, 0, T)
    OBVIOUS
  <2>1. T = {}
    BY <1>1, FS_EmptySet
  <2>2. Sorted(<< >>, 0, T)
    BY <2>1 DEF Range
  <2> QED
    BY <2>2
<1>3. ASSUME NEW n \in Nat, n # 0, P(n - 1) PROVE P(n)
  <2> SUFFICES ASSUME NEW T \in SUBSET S, Cardinality(T) = n PROVE \E s : Sorted(s, n, T)
    OBVIOUS
  <2>1. T # {}
    BY <1>3, FS_EmptySet
  <2>2. PICK x \in T : \A y \in T : x.e <= y.e
    <3> DEFINE K == {y.e : y \in T}
    <3>1. K \subseteq Nat /\ K # {}
      BY <2>1
    <3>2. Min(K) \in K /\ \A k \in K : Min(K) <= k
      <4> HIDE DEF K
      <4> QED
        BY <3>1, NatHasLeast
    <3>3. PICK y \in T : y.e = Min(K)
      BY <3>2
    <3> QED
      BY <3>2, <3>3
  <2>3. Cardinality(T \ {x}) = n - 1 /\ T \ {x} \in SUBSET S
    BY <1>1, FS_RemoveElement
  <2>4. PICK r : Sorted(r, n - 1, T \ {x})
    BY <1>3, <2>3
  <2> DEFINE s == [i \in 1 .. n |-> IF i = 1 THEN x ELSE r[i - 1]]
  <2>5. \A i \in 1 .. n - 1 : r[i] \in T \ {x}
    BY <2>4
  <2>6. \A i \in 2 .. n : i - 1 \in 1 .. n - 1 /\ s[i] = r[i - 1]
    BY <1>3
  <2>7. s[1] = x /\ 1 \in 1 .. n
    BY <1>3
  <2>8. \A i \in 1 .. n : i = 1 \/ i \in 2 .. n
    OBVIOUS
  <2> HIDE DEF s
  <2>9. s \in [1 .. n -> T]
    BY <2>5, <2>6, <2>7, <2>8 DEF s
  <2>10. Range(s) = T
    <3>1. ASSUME NEW y \in T PROVE \E i \in 1 .. n : s[i] = y
      <4>1. CASE y = x
        BY <2>7, <4>1
      <4>2. CASE y # x
        <5>1. PICK i \in 1 .. n - 1 : r[i] = y
          <6>1. y \in Range(r)
            BY <2>4, <4>2
          <6> QED
            BY <2>4, <6>1 DEF Range
        <5>2. i + 1 \in 2 .. n /\ i + 1 \in 1 .. n /\ (i + 1) - 1 = i
          BY <1>3
        <5> QED
          BY <2>6, <5>1, <5>2
      <4> QED
        BY <4>1, <4>2
    <3> QED
      BY <2>9, <3>1 DEF Range
  <2>11. ASSUME NEW i \in 1 .. n, NEW j \in 1 .. n, i < j PROVE s[i].e <= s[j].e
    <3>1. j \in 2 .. n
      BY <2>11
    <3>2. CASE i = 1
      BY <2>2, <2>5, <2>6, <2>7, <3>1, <3>2
    <3>3. CASE i \in 2 .. n
      <4>1. i - 1 < j - 1 /\ i - 1 \in 1 .. n - 1 /\ j - 1 \in 1 .. n - 1
        BY <2>6, <2>11, <3>1, <3>3
      <4>2. r[i - 1].e <= r[j - 1].e
        BY <2>4, <4>1
      <4> QED
        BY <2>6, <3>1, <3>3, <4>2
    <3> QED
      BY <2>8, <3>2, <3>3
  <2> QED
    BY <2>9, <2>10, <2>11
<1>4. Bad = {}
  <2> SUFFICES ASSUME Bad # {} PROVE FALSE
    OBVIOUS
  <2> HIDE DEF P
  <2>1. PICK n \in Bad : \A m \in Bad : n <= m
    <3>1. Bad \subseteq Nat
      OBVIOUS
    <3> HIDE DEF Bad
    <3> QED
      BY <3>1, NatHasLeast
  <2>2. n # 0 /\ n - 1 \in Nat /\ ~(n <= n - 1)
    BY <1>2, <2>1
  <2> QED
    BY <1>3, <2>1, <2>2
<1>5. PICK s : Sorted(s, Cardinality(S), S)
  BY <1>1, <1>4
<1> QED
  BY <1>5

\* The sorted sequence holds every item once.
LEMMA SortFacts ==
  ASSUME NEW S, IsFiniteSet(S), \A x \in S : x.e \in Nat
  PROVE  /\ SortByDst(S) \in Seq(S)
         /\ Len(SortByDst(S)) = Cardinality(S)
         /\ Range(SortByDst(S)) = S
         /\ \A i, j \in DOMAIN SortByDst(S) : SortByDst(S)[i] = SortByDst(S)[j] => i = j
<1> DEFINE n == Cardinality(S)
           s == SortByDst(S)
<1>1. n \in Nat
  BY FS_CardinalityType
<1>2. s \in [1 .. n -> S] /\ Range(s) = S
  BY SortExists DEF SortByDst
<1> HIDE DEF s
<1>3. s \in Seq(S) /\ Len(s) = n /\ DOMAIN s = 1 .. n
  BY <1>1, <1>2, SeqDef
<1>4. s \in Surjection(1 .. n, S)
  BY <1>2 DEF Surjection, Range
<1>5. IsFiniteSet(1 .. n) /\ Cardinality(1 .. n) = n
  BY <1>1, FS_Interval
<1>6. s \in Injection(1 .. n, S)
  BY <1>4, <1>5, FS_Surjection
<1> QED
  BY <1>2, <1>3, <1>6 DEF s, Injection, IsInjective

\* A sequence without repetition has as many elements as places.
LEMMA RangeSize ==
  ASSUME NEW T, NEW q \in Seq(T), \A i, j \in DOMAIN q : q[i] = q[j] => i = j
  PROVE  IsFiniteSet(Range(q)) /\ Cardinality(Range(q)) = Len(q) /\ Range(q) \subseteq T
<1>1. Len(q) \in Nat /\ DOMAIN q = 1 .. Len(q) /\ q \in [1 .. Len(q) -> T]
  OBVIOUS
<1>2. q \in Surjection(1 .. Len(q), Range(q)) /\ q \in Injection(1 .. Len(q), Range(q))
  BY <1>1 DEF Surjection, Injection, IsInjective, Range
<1>3. IsFiniteSet(1 .. Len(q)) /\ Cardinality(1 .. Len(q)) = Len(q)
  BY <1>1, FS_Interval
<1> QED
  BY <1>1, <1>2, <1>3, FS_Surjection DEF Range

-----------------------------------------------------------------------------
(* The capacity.                                                           *)

LEMMA DoubledFacts ==
  ASSUME NEW c \in Nat, NEW n \in Nat
  PROVE  /\ Doubled(c, n)[0] = c
         /\ \A k \in 1 .. n : Doubled(c, n)[k] = 2 * Doubled(c, n)[k - 1]
<1> DEFINE Loop(g, m) == g = [k \in 0 .. m |-> IF k = 0 THEN c ELSE 2 * g[k - 1]]
           Bad == {m \in 0 .. n : ~\E g : Loop(g, m)}
<1>1. Doubled(c, n) = CHOOSE g : Loop(g, n)
  BY DEF Doubled
<1>2. Bad = {}
  <2> SUFFICES ASSUME Bad # {} PROVE FALSE
    OBVIOUS
  <2>1. PICK m \in Bad : \A j \in Bad : m <= j
    <3>1. Bad \subseteq Nat
      OBVIOUS
    <3> HIDE DEF Bad
    <3> QED
      BY <3>1, NatHasLeast
  <2>2. m # 0
    <3>1. Loop([k \in 0 .. 0 |-> c], 0)
      OBVIOUS
    <3> QED
      BY <3>1
  <2>3. m \in 1 .. n /\ m - 1 \in 0 .. n /\ ~(m <= m - 1)
    BY <2>2
  <2>4. PICK g : Loop(g, m - 1)
    BY <2>1, <2>3
  <2> DEFINE h == [k \in 0 .. m |-> IF k = m THEN 2 * g[m - 1] ELSE g[k]]
  <2>5. Loop(h, m)
    <3>1. \A k \in 0 .. m : h[k] = IF k = 0 THEN c ELSE 2 * h[k - 1]
      <4> TAKE k \in 0 .. m
      <4>1. CASE k = 0
        BY <2>3, <2>4, <4>1
      <4>2. CASE k = m
        BY <2>3, <4>2
      <4>3. CASE k \in 1 .. m - 1
        <5>1. h[k] = g[k] /\ h[k - 1] = g[k - 1]
          BY <2>3, <4>3
        <5>2. k \in 0 .. m - 1 /\ k # 0
          BY <2>3, <4>3
        <5>3. g[k] = 2 * g[k - 1]
          BY <2>4, <5>2
        <5> QED
          BY <5>1, <5>2, <5>3
      <4> QED
        BY <2>3, <4>1, <4>2, <4>3
    <3> QED
      BY <3>1
  <2> QED
    BY <2>5
<1>3. \E g : Loop(g, n)
  BY <1>2
<1>4. Loop(Doubled(c, n), n)
  <2> HIDE DEF Loop
  <2> QED
    BY <1>1, <1>3
<1>5. Doubled(c, n)[0] = c
  <2>1. 0 \in 0 .. n
    OBVIOUS
  <2> QED
    BY <1>4, <2>1
<1>6. \A k \in 1 .. n : Doubled(c, n)[k] = 2 * Doubled(c, n)[k - 1]
  <2> TAKE k \in 1 .. n
  <2>1. k \in 0 .. n /\ k # 0
    OBVIOUS
  <2> QED
    BY <1>4, <2>1
<1> QED
  BY <1>5, <1>6

\* The loop that doubles the capacity ends, with room for num edges.
LEMMA GrownFits ==
  ASSUME NEW c \in Nat, NEW n \in Nat
  PROVE  Grown(c, n) \in Nat /\ n <= Grown(c, n)
<1>1. CASE n <= c
  BY <1>1 DEF Grown
<1>2. CASE ~(n <= c) /\ c = 0
  BY <1>2 DEF Grown
<1>3. CASE ~(n <= c) /\ c # 0
  <2> DEFINE d == Doubled(c, n)
             Big(k) == d[k] \in Nat /\ k <= d[k] /\ d[k] # 0
             Bad == {k \in 0 .. n : ~Big(k)}
             Fits == {d[k] : k \in 0 .. n} \ 0 .. n - 1
  <2>1. d[0] = c /\ \A k \in 1 .. n : d[k] = 2 * d[k - 1]
    BY DoubledFacts
  <2> HIDE DEF d
  <2>2. Bad = {}
    <3> SUFFICES ASSUME Bad # {} PROVE FALSE
      OBVIOUS
    <3>1. PICK k \in Bad : \A j \in Bad : k <= j
      <4>1. Bad \subseteq Nat
        OBVIOUS
      <4> HIDE DEF Bad
      <4> QED
        BY <4>1, NatHasLeast
    <3>2. k # 0
      BY <1>3, <2>1
    <3>3. k \in 1 .. n /\ k - 1 \in 0 .. n /\ ~(k <= k - 1)
      BY <3>2
    <3>4. Big(k - 1)
      BY <3>1, <3>3
    <3>5. d[k] = 2 * d[k - 1]
      BY <2>1, <3>3
    <3> QED
      BY <3>3, <3>4, <3>5
  <2>3. Fits \subseteq Nat /\ \A x \in Fits : n <= x
    <3>1. \A k \in 0 .. n : d[k] \in Nat
      BY <2>2
    <3> QED
      BY <3>1
  <2>4. d[n] \in Fits
    BY <2>2
  <2>5. Min(Fits) \in Fits
    <3> HIDE DEF Fits
    <3> QED
      BY <2>3, <2>4, NatHasLeast
  <2>6. Grown(c, n) = Min(Fits)
    BY <1>3 DEF Grown, d
  <2> HIDE DEF Fits
  <2> QED
    BY <2>3, <2>5, <2>6
<1> QED
  BY <1>1, <1>2, <1>3

-----------------------------------------------------------------------------
(* What is stored, for destinations D and an insertion buffer of N.        *)

Stored(b, D, N) ==
  /\ b \in Blocks(D)
  /\ \A i, j \in DOMAIN b.start : b.start[i].e = b.start[j].e => i = j
  /\ \A i, j \in DOMAIN b.tmp_item : b.tmp_item[i].e = b.tmp_item[j].e => i = j
  /\ \A i \in DOMAIN b.start, j \in DOMAIN b.tmp_item : b.start[i].e # b.tmp_item[j].e
  /\ b.M = {b.start[i].e : i \in DOMAIN b.start} \cup {b.tmp_item[i].e : i \in DOMAIN b.tmp_item}
  /\ b.num = Len(b.start) + Len(b.tmp_item)
  /\ Len(b.start) <= b.capacity
  /\ Len(b.tmp_item) <= N

\* Two blocks that differ at most in the versions of their edges.
SameShape(b, c) ==
  /\ Len(c.start) = Len(b.start) /\ Len(c.tmp_item) = Len(b.tmp_item)
  /\ \A i \in DOMAIN b.start : c.start[i].e = b.start[i].e
  /\ \A i \in DOMAIN b.tmp_item : c.tmp_item[i].e = b.tmp_item[i].e
  /\ c.M = b.M /\ c.num = b.num /\ c.capacity = b.capacity /\ c.merge_times = b.merge_times

LEMMA BlockFacts ==
  ASSUME NEW D, NEW b \in Blocks(D)
  PROVE  /\ b.start \in Seq(Items(D)) /\ b.tmp_item \in Seq(Items(D)) /\ b.M \in SUBSET D
         /\ b.num \in Nat /\ b.capacity \in Nat /\ b.merge_times \in Nat
         /\ Len(b.start) \in Nat /\ DOMAIN b.start = 1 .. Len(b.start)
         /\ Len(b.tmp_item) \in Nat /\ DOMAIN b.tmp_item = 1 .. Len(b.tmp_item)
         /\ \A i \in DOMAIN b.start : b.start[i] \in Items(D) /\ b.start[i].e \in D
         /\ \A i \in DOMAIN b.tmp_item : b.tmp_item[i] \in Items(D) /\ b.tmp_item[i].e \in D
<1>1. /\ b.start \in Seq(Items(D)) /\ b.tmp_item \in Seq(Items(D)) /\ b.M \in SUBSET D
      /\ b.num \in Nat /\ b.capacity \in Nat /\ b.merge_times \in Nat
  BY DEF Blocks
<1>2. /\ Len(b.start) \in Nat /\ DOMAIN b.start = 1 .. Len(b.start)
      /\ Len(b.tmp_item) \in Nat /\ DOMAIN b.tmp_item = 1 .. Len(b.tmp_item)
      /\ \A i \in DOMAIN b.start : b.start[i] \in Items(D)
      /\ \A i \in DOMAIN b.tmp_item : b.tmp_item[i] \in Items(D)
  BY <1>1
<1>3. \A x \in Items(D) : x.e \in D
  BY DEF Items
<1> QED
  BY <1>1, <1>2, <1>3

LEMMA ShapeRefl ==
  ASSUME NEW b
  PROVE  SameShape(b, b)
BY DEF SameShape

LEMMA ShapeTrans ==
  ASSUME NEW D, NEW a \in Blocks(D), NEW b \in Blocks(D), NEW c \in Blocks(D),
         SameShape(a, b), SameShape(b, c)
  PROVE  SameShape(a, c)
<1>1. DOMAIN b.start = DOMAIN a.start /\ DOMAIN b.tmp_item = DOMAIN a.tmp_item
  BY BlockFacts DEF SameShape
<1> QED
  BY <1>1 DEF SameShape

LEMMA ShapeStored ==
  ASSUME NEW D, NEW N, NEW b, NEW c \in Blocks(D), Stored(b, D, N), SameShape(b, c)
  PROVE  Stored(c, D, N)
<1>1. b \in Blocks(D)
  BY DEF Stored
<1>2. DOMAIN c.start = DOMAIN b.start /\ DOMAIN c.tmp_item = DOMAIN b.tmp_item
  BY <1>1, BlockFacts DEF SameShape
<1>3. /\ {c.start[i].e : i \in DOMAIN c.start} = {b.start[i].e : i \in DOMAIN b.start}
      /\ {c.tmp_item[i].e : i \in DOMAIN c.tmp_item} = {b.tmp_item[i].e : i \in DOMAIN b.tmp_item}
  BY <1>2 DEF SameShape
<1>4. /\ \A i, j \in DOMAIN c.start : c.start[i].e = c.start[j].e => i = j
      /\ \A i, j \in DOMAIN c.tmp_item : c.tmp_item[i].e = c.tmp_item[j].e => i = j
      /\ \A i \in DOMAIN c.start, j \in DOMAIN c.tmp_item : c.start[i].e # c.tmp_item[j].e
  BY <1>2 DEF SameShape, Stored
<1>5. /\ c.M = b.M /\ c.num = b.num /\ c.capacity = b.capacity
      /\ Len(c.start) = Len(b.start) /\ Len(c.tmp_item) = Len(b.tmp_item)
  BY DEF SameShape
<1> QED
  BY <1>3, <1>4, <1>5 DEF Stored

\* An item of a sequence replaced.
LEMMA ReplaceItem ==
  ASSUME NEW D, NEW q \in Seq(Items(D)), NEW i \in Nat, NEW x \in Items(D),
         i \in DOMAIN q => x.e = q[i].e
  PROVE  LET r == [q EXCEPT ![i] = x]
         IN  /\ r \in Seq(Items(D)) /\ Len(r) = Len(q)
             /\ \A j \in DOMAIN q : r[j].e = q[j].e
             /\ \A j \in DOMAIN q : r[j] = IF j = i THEN x ELSE q[j]
<1>1. CASE i \in DOMAIN q
  <2>1. i \in 1 .. Len(q) /\ DOMAIN q = 1 .. Len(q)
    BY <1>1
  <2> QED
    BY <1>1, <2>1, ExceptSeq
<1>2. CASE i \notin DOMAIN q
  <2>1. [q EXCEPT ![i] = x] = q
    BY <1>2
  <2> QED
    BY <1>2, <2>1
<1> QED
  BY <1>1, <1>2

\* A store into an item leaves the shape of the block.
LEMMA PutShape ==
  ASSUME NEW D, NEW b \in Blocks(D), NEW loc \in Places, NEW x \in Items(D),
         loc[2] \in DOMAIN b[loc[1]] => x.e = ItemAt(b, loc).e
  PROVE  Put(b, loc, x) \in Blocks(D) /\ SameShape(b, Put(b, loc, x))
<1>1. loc = <<loc[1], loc[2]>> /\ loc[1] \in {"start", "tmp_item"} /\ loc[2] \in Nat
  BY DEF Places
<1> DEFINE i == loc[2]
<1>2. CASE loc[1] = "start"
  <2> DEFINE r == [b.start EXCEPT ![i] = x]
  <2>1. Put(b, loc, x) = [b EXCEPT !.start = r]
    BY <1>1, <1>2 DEF Put, Blocks
  <2>2. i \in DOMAIN b.start => x.e = b.start[i].e
    BY <1>2 DEF ItemAt, Blocks
  <2>3. r \in Seq(Items(D)) /\ Len(r) = Len(b.start) /\ \A j \in DOMAIN b.start : r[j].e = b.start[j].e
    BY <1>1, <2>2, BlockFacts, ReplaceItem
  <2> HIDE DEF r
  <2> QED
    BY <2>1, <2>3 DEF Blocks, SameShape
<1>3. CASE loc[1] = "tmp_item"
  <2> DEFINE r == [b.tmp_item EXCEPT ![i] = x]
  <2>1. Put(b, loc, x) = [b EXCEPT !.tmp_item = r]
    BY <1>1, <1>3 DEF Put, Blocks
  <2>2. i \in DOMAIN b.tmp_item => x.e = b.tmp_item[i].e
    BY <1>3 DEF ItemAt, Blocks
  <2>3. r \in Seq(Items(D)) /\ Len(r) = Len(b.tmp_item)
        /\ \A j \in DOMAIN b.tmp_item : r[j].e = b.tmp_item[j].e
    BY <1>1, <2>2, BlockFacts, ReplaceItem
  <2> HIDE DEF r
  <2> QED
    BY <2>1, <2>3 DEF Blocks, SameShape
<1> QED
  BY <1>1, <1>2, <1>3

-----------------------------------------------------------------------------
(* The merge.                                                              *)

\* A merge keeps index, counts and capacity in agreement with what is stored.
LEMMA MergeStored ==
  ASSUME NEW D, D \subseteq Nat, NEW N \in Nat, NEW b, Stored(b, D, N)
  PROVE  LET c == merge_tmpev_with_eb(b)
             dropped == {item \in Range(b.start) : Droppable(item)}
         IN  /\ Stored(c, D, N)
             /\ Range(c.start) = (Range(b.start) \ dropped) \cup Range(b.tmp_item)
             /\ c.tmp_item = << >> /\ c.merge_times = b.merge_times + 1
<1> DEFINE c == merge_tmpev_with_eb(b)
           R == Range(b.start)
           T == Range(b.tmp_item)
           G == {item \in R : Droppable(item)}
           S == (R \ G) \cup T
           q == SortByDst(S)
<1>1. b \in Blocks(D)
  BY DEF Stored
<1>2. /\ IsFiniteSet(R) /\ Cardinality(R) = Len(b.start) /\ R \subseteq Items(D)
      /\ \A x, y \in R : x.e = y.e => x = y
  <2>1. \A i, j \in DOMAIN b.start : b.start[i] = b.start[j] => i = j
    BY DEF Stored
  <2>2. b.start \in Seq(Items(D))
    BY <1>1, BlockFacts
  <2>3. IsFiniteSet(R) /\ Cardinality(R) = Len(b.start) /\ R \subseteq Items(D)
    BY <2>1, <2>2, RangeSize
  <2>4. \A x, y \in R : x.e = y.e => x = y
    BY DEF Stored, Range
  <2> QED
    BY <2>3, <2>4
<1>3. /\ IsFiniteSet(T) /\ Cardinality(T) = Len(b.tmp_item) /\ T \subseteq Items(D)
      /\ \A x, y \in T : x.e = y.e => x = y
  <2>1. \A i, j \in DOMAIN b.tmp_item : b.tmp_item[i] = b.tmp_item[j] => i = j
    BY DEF Stored
  <2>2. b.tmp_item \in Seq(Items(D))
    BY <1>1, BlockFacts
  <2>3. IsFiniteSet(T) /\ Cardinality(T) = Len(b.tmp_item) /\ T \subseteq Items(D)
    BY <2>1, <2>2, RangeSize
  <2>4. \A x, y \in T : x.e = y.e => x = y
    BY DEF Stored, Range
  <2> QED
    BY <2>3, <2>4
<1>4. \A x \in R, y \in T : x.e # y.e
  BY DEF Stored, Range
<1>5. b.M = {x.e : x \in R} \cup {x.e : x \in T}
  BY DEF Stored, Range
<1> HIDE DEF R, T
<1>6. /\ IsFiniteSet(G) /\ IsFiniteSet(R \ G) /\ IsFiniteSet(S)
      /\ Cardinality(G) \in Nat /\ Cardinality(G) <= Len(b.start)
      /\ Cardinality(S) = Len(b.start) - Cardinality(G) + Len(b.tmp_item)
  <2>1. G \subseteq R /\ R \cap G = G /\ (R \ G) \cap T = {}
    BY <1>4
  <2>2. IsFiniteSet(G) /\ Cardinality(G) <= Cardinality(R) /\ Cardinality(G) \in Nat
    BY <1>2, <2>1, FS_Subset, FS_CardinalityType
  <2>3. IsFiniteSet(R \ G) /\ Cardinality(R \ G) = Cardinality(R) - Cardinality(G)
    BY <1>2, <2>1, FS_Difference
  <2> HIDE DEF G
  <2>4. IsFiniteSet(S) /\ Cardinality(S) = Cardinality(R \ G) + Cardinality(T) - Cardinality({})
    BY <1>3, <2>1, <2>3, FS_Union
  <2>5. Cardinality({}) = 0 /\ Len(b.start) \in Nat /\ Len(b.tmp_item) \in Nat
    BY <1>1, FS_EmptySet, BlockFacts
  <2> QED
    BY <1>2, <1>3, <2>2, <2>3, <2>4, <2>5
<1>7. S \subseteq Items(D) /\ \A x, y \in S : x.e = y.e => x = y
  BY <1>2, <1>3, <1>4
<1>8. {x.e : x \in S} = b.M \ {x.e : x \in G}
  BY <1>2, <1>4, <1>5
<1>9. /\ c.start = q /\ c.tmp_item = << >> /\ c.M = b.M \ {x.e : x \in G}
      /\ c.num = b.num - Cardinality(G) /\ c.capacity = Grown(b.capacity, b.num)
      /\ c.merge_times = b.merge_times + 1
  BY <1>1 DEF merge_tmpev_with_eb, Blocks, R, T
<1>0. c = [b EXCEPT !.start = q, !.tmp_item = << >>, !.M = c.M, !.num = c.num,
                    !.capacity = c.capacity, !.merge_times = c.merge_times]
  BY <1>1 DEF merge_tmpev_with_eb, Blocks, R, T
<1> HIDE DEF c, G, S
<1>10. \A x \in S : x.e \in Nat
  BY <1>7 DEF Items
<1>11. /\ q \in Seq(S) /\ Len(q) = Cardinality(S) /\ Range(q) = S
       /\ \A i, j \in DOMAIN q : q[i] = q[j] => i = j
  BY <1>6, <1>10, SortFacts
<1> HIDE DEF q
<1>12. DOMAIN q = 1 .. Len(q) /\ \A i \in DOMAIN q : q[i] \in S
  BY <1>11
<1>13. q \in Seq(Items(D))
  BY <1>7, <1>11, <1>12
<1>14. Grown(b.capacity, b.num) \in Nat /\ b.num <= Grown(b.capacity, b.num)
  BY <1>1, BlockFacts, GrownFits
<1>15. b.num = Len(b.start) + Len(b.tmp_item) /\ Len(b.start) \in Nat /\ Len(b.tmp_item) \in Nat
  BY <1>1, BlockFacts DEF Stored
<1>16. c.num = Len(q) /\ c.num \in Nat /\ Len(q) <= c.capacity /\ c.capacity \in Nat
  <2>1. c.num = b.num - Cardinality(G) /\ c.capacity = Grown(b.capacity, b.num)
    BY <1>9
  <2>2. Len(q) = Cardinality(S)
    BY <1>11
  <2>3. /\ Cardinality(G) \in Nat /\ Cardinality(G) <= Len(b.start)
        /\ Cardinality(S) = Len(b.start) - Cardinality(G) + Len(b.tmp_item)
    BY <1>6
  <2>4. b.num \in Nat
    BY <1>1, BlockFacts
  <2>5. /\ b.num - Cardinality(G) = Len(b.start) - Cardinality(G) + Len(b.tmp_item)
        /\ b.num - Cardinality(G) \in Nat
        /\ Len(b.start) - Cardinality(G) + Len(b.tmp_item) <= Grown(b.capacity, b.num)
    <3> DEFINE g == Cardinality(G)
               x == Len(b.start)
               y == Len(b.tmp_item)
               z == Grown(b.capacity, b.num)
               k == b.num
    <3>1. k \in Nat /\ g \in Nat /\ x \in Nat /\ y \in Nat /\ z \in Nat
      BY <1>14, <1>15, <2>3, <2>4
    <3>2. k = x + y /\ g <= x /\ k <= z
      BY <1>14, <1>15, <2>3
    <3> HIDE DEF g, x, y, z, k
    <3>3. k - g = x - g + y /\ k - g \in Nat /\ x - g + y <= z
      BY <3>1, <3>2
    <3> QED
      BY <3>3 DEF g, x, y, z, k
  <2> QED
    BY <1>14, <2>1, <2>2, <2>3, <2>5
<1>17. c.M \in SUBSET D /\ c.merge_times \in Nat
  BY <1>1, <1>9, BlockFacts
<1>18. c.tmp_item \in Seq(Items(D)) /\ Len(c.tmp_item) = 0 /\ DOMAIN c.tmp_item = {}
  BY <1>9
<1>19. c \in Blocks(D)
  <2>1. << >> \in Seq(Items(D))
    OBVIOUS
  <2> QED
    BY <1>0, <1>1, <1>13, <1>16, <1>17, <2>1 DEF Blocks
<1>20. \A i, j \in DOMAIN q : q[i].e = q[j].e => i = j
  BY <1>7, <1>11, <1>12
<1>21. c.M = {c.start[i].e : i \in DOMAIN c.start} \cup {c.tmp_item[i].e : i \in DOMAIN c.tmp_item}
  <2>1. {q[i].e : i \in DOMAIN q} = {x.e : x \in S}
    BY <1>11 DEF Range
  <2> QED
    BY <1>8, <1>9, <1>18, <2>1
<1>22. Stored(c, D, N)
  <2>1. c.start = q
    BY <1>9
  <2>2. c.num = Len(c.start) + Len(c.tmp_item) /\ Len(c.start) <= c.capacity /\ Len(c.tmp_item) <= N
    BY <1>16, <1>18, <2>1
  <2> QED
    BY <1>18, <1>19, <1>20, <1>21, <2>1, <2>2 DEF Stored
<1> QED
  BY <1>9, <1>11, <1>22 DEF c, S, G, R, T

LEMMA MergedIfFullStored ==
  ASSUME use \in Uses, NEW b, Stored(b, Dsts, TMPNUM)
  PROVE  /\ Stored(MergedIfFull(b), Dsts, TMPNUM)
         /\ Len(MergedIfFull(b).tmp_item) < TMPNUM
<1>1. Dsts \subseteq Nat /\ TMPNUM \in Nat /\ TMPNUM > 0
  BY VertexAssumption DEF Dsts, TMPNUM
<1>2. CASE Len(b.tmp_item) = TMPNUM
  <2>1. MergedIfFull(b) = merge_tmpev_with_eb(b)
    BY <1>2 DEF MergedIfFull
  <2>2. Stored(merge_tmpev_with_eb(b), Dsts, TMPNUM) /\ merge_tmpev_with_eb(b).tmp_item = << >>
    BY <1>1, MergeStored
  <2> QED
    BY <1>1, <2>1, <2>2
<1>3. CASE Len(b.tmp_item) # TMPNUM
  <2>1. MergedIfFull(b) = b
    BY <1>3 DEF MergedIfFull
  <2>2. Len(b.tmp_item) \in Nat /\ Len(b.tmp_item) <= TMPNUM
    BY BlockFacts DEF Stored
  <2> QED
    BY <1>1, <1>3, <2>1, <2>2
<1> QED
  BY <1>2, <1>3

\* The block with a new edge in its insertion buffer.
Appended(b, x) == [b EXCEPT !.tmp_item = Append(@, x), !.M = @ \cup {x.e}, !.num = @ + 1]

LEMMA AppendStored ==
  ASSUME NEW D, NEW N \in Nat, NEW b, Stored(b, D, N), Len(b.tmp_item) < N,
         NEW x \in Items(D), x.e \notin b.M
  PROVE  LET c == Appended(b, x)
         IN  /\ Stored(c, D, N)
             /\ c.start = b.start /\ c.merge_times = b.merge_times
             /\ Len(c.tmp_item) = Len(b.tmp_item) + 1
             /\ c.tmp_item[Len(b.tmp_item) + 1] = x
             /\ \A i \in DOMAIN b.tmp_item : c.tmp_item[i] = b.tmp_item[i]
<1> DEFINE c == Appended(b, x)
           n == Len(b.tmp_item)
           q == Append(b.tmp_item, x)
<1>1. b \in Blocks(D)
  BY DEF Stored
<1>2. /\ c.start = b.start /\ c.merge_times = b.merge_times /\ c.capacity = b.capacity
      /\ c.tmp_item = q /\ c.M = b.M \cup {x.e} /\ c.num = b.num + 1
  BY <1>1 DEF Blocks, Appended
<1>0. c = [b EXCEPT !.tmp_item = q, !.M = c.M, !.num = c.num]
  BY <1>1 DEF Blocks, Appended
<1> HIDE DEF c
<1>3. /\ n \in Nat /\ DOMAIN b.tmp_item = 1 .. n /\ q \in Seq(Items(D)) /\ Len(q) = n + 1
      /\ DOMAIN q = 1 .. n + 1 /\ q[n + 1] = x /\ \A i \in 1 .. n : q[i] = b.tmp_item[i]
  BY <1>1, BlockFacts
<1> HIDE DEF q, n
<1>4. x.e \in D
  BY DEF Items
<1>5. c \in Blocks(D)
  <2>1. c.M \in SUBSET D /\ c.num \in Nat
    BY <1>1, <1>2, <1>4, BlockFacts
  <2> QED
    BY <1>0, <1>1, <1>3, <2>1 DEF Blocks
<1>6. \A i \in 1 .. n + 1 : i \in 1 .. n \/ i = n + 1
  BY <1>3
<1>7. \A i \in DOMAIN b.start : b.start[i].e # x.e
  BY DEF Stored
<1>8. \A i \in 1 .. n : b.tmp_item[i].e # x.e
  BY <1>3 DEF Stored
<1>9. \A i, j \in DOMAIN q : q[i].e = q[j].e => i = j
  BY <1>3, <1>6, <1>8 DEF Stored
<1>10. \A i \in DOMAIN b.start, j \in DOMAIN q : b.start[i].e # q[j].e
  BY <1>3, <1>6, <1>7 DEF Stored
<1>11. {q[i].e : i \in DOMAIN q} = {b.tmp_item[i].e : i \in DOMAIN b.tmp_item} \cup {x.e}
  <2>1. n + 1 \in DOMAIN q /\ \A i \in 1 .. n : i \in DOMAIN q
    BY <1>3
  <2> QED
    BY <1>3, <1>6, <2>1
<1>12. c.num = Len(c.start) + Len(c.tmp_item) /\ Len(c.tmp_item) <= N
  <2>1. b.num = Len(b.start) + n /\ n < N /\ Len(b.start) \in Nat
    BY <1>1, BlockFacts DEF Stored, n
  <2>2. Len(c.start) = Len(b.start) /\ Len(c.tmp_item) = n + 1 /\ n \in Nat
    BY <1>2, <1>3
  <2>3. c.num = b.num + 1 /\ b.num \in Nat
    BY <1>1, <1>2, BlockFacts
  <2>4. \A k, y, z \in Nat : k = y + z => k + 1 = y + (z + 1)
    OBVIOUS
  <2>5. b.num + 1 = Len(b.start) + (n + 1)
    BY <2>1, <2>2, <2>3, <2>4
  <2>6. Len(c.tmp_item) <= N
    BY <2>1, <2>2
  <2> QED
    BY <2>2, <2>3, <2>5, <2>6
<1>13. c.M = {c.start[i].e : i \in DOMAIN c.start} \cup {c.tmp_item[i].e : i \in DOMAIN c.tmp_item}
  <2>1. c.start = b.start /\ c.tmp_item = q /\ c.M = b.M \cup {x.e}
    BY <1>2
  <2>2. b.M = {b.start[i].e : i \in DOMAIN b.start} \cup {b.tmp_item[i].e : i \in DOMAIN b.tmp_item}
    BY DEF Stored
  <2> QED
    BY <1>11, <2>1, <2>2
<1>14. Stored(c, D, N)
  <2>1. c.start = b.start /\ c.tmp_item = q /\ c.capacity = b.capacity
    BY <1>2
  <2> QED
    BY <1>5, <1>9, <1>10, <1>12, <1>13, <2>1 DEF Stored
<1> QED
  BY <1>2, <1>3, <1>14 DEF c, n

-----------------------------------------------------------------------------
(* What the entries of the write buffers say of the block.  Of an entry    *)
(* only its destination, its offset and the merges it has seen matter:     *)
(* it is filed as a triple f.                                              *)

Filed(tvbs, s) == {<<t.e, t.offset, t.merge_times>> : t \in Range(tvbs[s].entries)}

Triples(D) == D \X Places \X Nat

\* There is an edge to d at loc.
Valid(b, loc, d) == loc[2] \in DOMAIN b[loc[1]] /\ b[loc[1]][loc[2]].e = d

\* An offset that no merge has followed is good.
OffsetGood(b, f) ==
  f[3] <= b.merge_times /\ (f[3] = b.merge_times => Valid(b, f[2], f[1]))

\* An edge that a merge has moved is in the array.
EdgeKept(b, f) == f[3] < b.merge_times => \E i \in DOMAIN b.start : b.start[i].e = f[1]

\* The edge to d, wherever it is, carries TMPVB_MASK.
Marked(b, d) ==
  /\ \A i \in DOMAIN b.start : b.start[i].e = d => b.start[i].tmp
  /\ \A i \in DOMAIN b.tmp_item : b.tmp_item[i].e = d => b.tmp_item[i].tmp

LEMMA PlaceFacts ==
  ASSUME NEW loc \in Places
  PROVE  loc = <<loc[1], loc[2]>> /\ loc[1] \in {"start", "tmp_item"} /\ loc[2] \in Nat
BY DEF Places

LEMMA AtFacts ==
  ASSUME NEW D, NEW b \in Blocks(D), NEW a \in {"start", "tmp_item"}, NEW d,
         NEW loc \in At(b, a, d)
  PROVE  loc \in Places /\ loc[1] = a /\ Valid(b, loc, d)
<1>1. PICK i \in DOMAIN b[a] : b[a][i].e = d /\ loc = <<a, i>>
  BY DEF At
<1>2. i \in Nat
  <2>1. CASE a = "start"
    BY <1>1, <2>1, BlockFacts
  <2>2. CASE a = "tmp_item"
    BY <1>1, <2>2, BlockFacts
  <2> QED
    BY <2>1, <2>2
<1>3. loc[1] = a /\ loc[2] = i
  BY <1>1
<1> QED
  BY <1>1, <1>2, <1>3 DEF Places, Valid

\* A valid place holds an item.
LEMMA ValidItem ==
  ASSUME NEW D, NEW b \in Blocks(D), NEW loc \in Places, NEW d, Valid(b, loc, d)
  PROVE  ItemAt(b, loc) \in Items(D) /\ ItemAt(b, loc).e = d
<1>1. loc[1] = "start" \/ loc[1] = "tmp_item"
  BY PlaceFacts
<1>2. CASE loc[1] = "start"
  BY <1>2, BlockFacts DEF Valid, ItemAt
<1>3. CASE loc[1] = "tmp_item"
  BY <1>3, BlockFacts DEF Valid, ItemAt
<1> QED
  BY <1>1, <1>2, <1>3

\* What is good of a block is good of every block of the same shape.
LEMMA ShapeEntry ==
  ASSUME NEW D, NEW b \in Blocks(D), NEW c \in Blocks(D), SameShape(b, c),
         NEW f \in Triples(D)
  PROVE  /\ OffsetGood(b, f) => OffsetGood(c, f)
         /\ EdgeKept(b, f) => EdgeKept(c, f)
         /\ \A loc \in Places, d \in D : Valid(b, loc, d) => Valid(c, loc, d)
<1>1. /\ DOMAIN c.start = DOMAIN b.start /\ DOMAIN c.tmp_item = DOMAIN b.tmp_item
      /\ c.merge_times = b.merge_times
  BY BlockFacts DEF SameShape
<1>2. ASSUME NEW loc \in Places, NEW d, Valid(b, loc, d) PROVE Valid(c, loc, d)
  <2>1. loc[1] = "start" \/ loc[1] = "tmp_item"
    BY PlaceFacts
  <2>2. CASE loc[1] = "start"
    BY <1>1, <1>2, <2>2 DEF Valid, SameShape
  <2>3. CASE loc[1] = "tmp_item"
    BY <1>1, <1>2, <2>3 DEF Valid, SameShape
  <2> QED
    BY <2>1, <2>2, <2>3
<1>3. f[2] \in Places
  BY DEF Triples
<1>4. OffsetGood(b, f) => OffsetGood(c, f)
  BY <1>1, <1>2, <1>3 DEF OffsetGood
<1>5. EdgeKept(b, f) => EdgeKept(c, f)
  BY <1>1 DEF EdgeKept, SameShape
<1> QED
  BY <1>2, <1>4, <1>5

-----------------------------------------------------------------------------
(* The three loops of Transform.                                           *)

Records(D) == [e : D, block : Nat, index : Nat, w : Nat, inv : Nat]

Runs(D) == [eb : Blocks(D), records : Seq(Records(D)), edge_num_ : Int, lost : BOOLEAN]

LEMMA LocatedValid ==
  ASSUME NEW D, NEW b \in Blocks(D), NEW t \in Entries(D),
         OffsetGood(b, <<t.e, t.offset, t.merge_times>>), NEW loc \in Located(b, t)
  PROVE  loc \in Places /\ Valid(b, loc, t.e)
<1>1. t.offset \in Places
  BY DEF Entries
<1>2. CASE t.merge_times = b.merge_times
  BY <1>1, <1>2 DEF Located, OffsetGood
<1>3. CASE t.merge_times # b.merge_times
  BY <1>3, AtFacts DEF Located
<1> QED
  BY <1>2, <1>3

\* One turn of a loop.
LEMMA ApplyShape ==
  ASSUME NEW D, NEW s \in Runs(D), NEW t \in Entries(D), NEW epoch \in Nat,
         OffsetGood(s.eb, <<t.e, t.offset, t.merge_times>>)
  PROVE  Apply(s, t, epoch) \in Runs(D) /\ SameShape(s.eb, Apply(s, t, epoch).eb)
<1>1. s.eb \in Blocks(D) /\ s.records \in Seq(Records(D)) /\ s.edge_num_ \in Int
  BY DEF Runs
<1>2. CASE Located(s.eb, t) = {}
  <2>1. Apply(s, t, epoch) = [s EXCEPT !.lost = TRUE]
    BY <1>2 DEF Apply
  <2> QED
    BY <2>1, ShapeRefl DEF Runs
<1>3. CASE Located(s.eb, t) # {}
  <2> DEFINE loc == CHOOSE loc \in Located(s.eb, t) : TRUE
             item == ItemAt(s.eb, loc)
  <2>1. loc \in Located(s.eb, t)
    BY <1>3
  <2>2. loc \in Places /\ Valid(s.eb, loc, t.e)
    BY <1>1, <2>1, LocatedValid
  <2>3. Apply(s, t, epoch) = IF LoopOf(t) = 1 THEN ApplyFirst(s, t, loc, epoch)
                                              ELSE ApplyVersion(s, t, loc, epoch)
    BY <1>3 DEF Apply
  <2> HIDE DEF loc
  <2>4. item \in Items(D) /\ item.e = t.e
    BY <1>1, <2>2, ValidItem
  <2>5. /\ t.e \in D /\ t.del \in BOOLEAN /\ t.weight \in Nat /\ t.last_epoch \in Nat
        /\ t.old_intra_c \in Nat /\ t.new_intra_c \in Nat
    BY DEF Entries
  <2>6. Stamped(item, t, epoch) \in Items(D) /\ Stamped(item, t, epoch).e = item.e
    <3> HIDE DEF item
    <3> QED
      BY <2>4, <2>5 DEF Stamped, Items
  <2>7. ASSUME NEW x \in Items(D), x.e = item.e
        PROVE  Put(s.eb, loc, x) \in Blocks(D) /\ SameShape(s.eb, Put(s.eb, loc, x))
    BY <1>1, <2>2, <2>7, PutShape
  <2>8. CASE LoopOf(t) = 1
    <3> DEFINE x == IF t.next THEN [item EXCEPT !.w = t.weight]
                    ELSE [Stamped(item, t, epoch) EXCEPT !.w = t.weight, !.pblock = 1]
               k == s.edge_num_ + 1
    <3>1. Apply(s, t, epoch) = [s EXCEPT !.eb = Put(s.eb, loc, x), !.edge_num_ = k]
      BY <2>3, <2>8 DEF ApplyFirst, Runs
    <3>2. x \in Items(D) /\ x.e = item.e
      <4> HIDE DEF item
      <4> QED
        BY <2>4, <2>5, <2>6 DEF Items
    <3>3. Put(s.eb, loc, x) \in Blocks(D) /\ SameShape(s.eb, Put(s.eb, loc, x))
      <4> HIDE DEF x
      <4> QED
        BY <2>7, <3>2
    <3>4. k \in Int
      BY <1>1
    <3> HIDE DEF x, k
    <3> QED
      BY <3>1, <3>3, <3>4 DEF Runs
  <2>9. CASE LoopOf(t) # 1
    <3> DEFINE x == [Stamped(item, t, epoch) EXCEPT !.w = IF t.del THEN 0 ELSE t.weight,
                                                    !.pblock = Len(s.records) + 1]
               r == RecordOf(t, item.w)
               k == IF t.del THEN s.edge_num_ - 1 ELSE s.edge_num_ + 1
    <3>1. Apply(s, t, epoch) = [s EXCEPT !.records = Append(s.records, r),
                                         !.eb = Put(s.eb, loc, x), !.edge_num_ = k]
      BY <2>3, <2>9 DEF ApplyVersion, Overwritten, Runs
    <3>2. x \in Items(D) /\ x.e = item.e
      <4>1. Len(s.records) + 1 \in Nat
        BY <1>1
      <4> HIDE DEF item
      <4> QED
        BY <2>4, <2>5, <2>6, <4>1 DEF Items
    <3>3. Put(s.eb, loc, x) \in Blocks(D) /\ SameShape(s.eb, Put(s.eb, loc, x))
      <4> HIDE DEF x
      <4> QED
        BY <2>7, <3>2
    <3>4. Append(s.records, r) \in Seq(Records(D))
      <4>1. item.w \in Nat
        BY <2>4 DEF Items
      <4>2. r \in Records(D)
        <5> HIDE DEF item
        <5> QED
          BY <2>5, <4>1 DEF RecordOf, Records
      <4> QED
        BY <1>1, <4>2
    <3>5. k \in Int
      BY <1>1
    <3> HIDE DEF x, r, k
    <3> QED
      BY <3>1, <3>3, <3>4, <3>5 DEF Runs
  <2> QED
    BY <2>8, <2>9
<1> QED
  BY <1>2, <1>3

\* The loops turn by turn.
LEMMA AppliedLoop ==
  ASSUME NEW b, NEW entries, NEW p, NEW n \in Nat, Len(p) = n, NEW epoch
  PROVE  LET turn == Applied(b, entries, p, epoch)
         IN  /\ turn[0] = [eb |-> b, records |-> << >>, edge_num_ |-> 0, lost |-> FALSE]
             /\ \A k \in 1 .. n : turn[k] = Apply(turn[k - 1], entries[p[k]], epoch)
<1> DEFINE First == [eb |-> b, records |-> << >>, edge_num_ |-> 0, lost |-> FALSE]
           Step(s, k) == Apply(s, entries[p[k]], epoch)
           Loop(g, m) == g = [k \in 0 .. m |-> IF k = 0 THEN First ELSE Step(g[k - 1], k)]
           Bad == {m \in 0 .. n : ~\E g : Loop(g, m)}
<1>1. Applied(b, entries, p, epoch) = CHOOSE g : Loop(g, n)
  BY DEF Applied
<1> HIDE DEF First, Step
<1>2. Bad = {}
  <2> SUFFICES ASSUME Bad # {} PROVE FALSE
    OBVIOUS
  <2>1. PICK m \in Bad : \A j \in Bad : m <= j
    <3>1. Bad \subseteq Nat
      OBVIOUS
    <3> HIDE DEF Bad
    <3> QED
      BY <3>1, NatHasLeast
  <2>2. m # 0
    <3>1. Loop([k \in 0 .. 0 |-> First], 0)
      OBVIOUS
    <3> QED
      BY <3>1
  <2>3. m \in 1 .. n /\ m - 1 \in 0 .. n /\ ~(m <= m - 1)
    BY <2>2
  <2>4. PICK g : Loop(g, m - 1)
    BY <2>1, <2>3
  <2> DEFINE h == [k \in 0 .. m |-> IF k = m THEN Step(g[m - 1], m) ELSE g[k]]
  <2>5. Loop(h, m)
    <3>1. \A k \in 0 .. m : h[k] = IF k = 0 THEN First ELSE Step(h[k - 1], k)
      <4> TAKE k \in 0 .. m
      <4>1. CASE k = 0
        BY <2>3, <2>4, <4>1
      <4>2. CASE k = m
        BY <2>3, <4>2
      <4>3. CASE k \in 1 .. m - 1
        <5>1. h[k] = g[k] /\ h[k - 1] = g[k - 1]
          BY <2>3, <4>3
        <5>2. k \in 0 .. m - 1 /\ k # 0
          BY <2>3, <4>3
        <5>3. g[k] = Step(g[k - 1], k)
          BY <2>4, <5>2
        <5> QED
          BY <5>1, <5>2, <5>3
      <4> QED
        BY <2>3, <4>1, <4>2, <4>3
    <3> QED
      BY <3>1
  <2> QED
    BY <2>5
<1>3. \E g : Loop(g, n)
  BY <1>2
<1>4. Loop(Applied(b, entries, p, epoch), n)
  <2> HIDE DEF Loop
  <2> QED
    BY <1>1, <1>3
<1> DEFINE turn == Applied(b, entries, p, epoch)
<1> HIDE DEF turn
<1>5. turn[0] = First
  <2>1. 0 \in 0 .. n
    OBVIOUS
  <2> QED
    BY <1>4, <2>1 DEF turn
<1>6. \A k \in 1 .. n : turn[k] = Step(turn[k - 1], k)
  <2> TAKE k \in 1 .. n
  <2>1. k \in 0 .. n /\ k # 0
    OBVIOUS
  <2> QED
    BY <1>4, <2>1 DEF turn
<1> QED
  BY <1>5, <1>6 DEF turn, First, Step

\* Transform changes the versions of the edges, never which edges are stored where.
LEMMA AppliedShape ==
  ASSUME NEW D, NEW b \in Blocks(D), NEW entries \in Seq(Entries(D)), NEW epoch \in Nat,
         NEW p \in LoopOrders(entries),
         \A t \in Range(entries) : OffsetGood(b, <<t.e, t.offset, t.merge_times>>)
  PROVE  LET s == Applied(b, entries, p, epoch)[Len(p)]
         IN  s.eb \in Blocks(D) /\ SameShape(b, s.eb)
<1> DEFINE n == Len(p)
           turn == Applied(b, entries, p, epoch)
           Fine(k) == turn[k] \in Runs(D) /\ SameShape(b, turn[k].eb)
           Bad == {k \in 0 .. n : ~Fine(k)}
<1>1. n \in Nat /\ DOMAIN p = 1 .. n /\ \A k \in 1 .. n : p[k] \in DOMAIN entries
  <2>1. p \in SetToSeqs(DOMAIN entries)
    BY DEF LoopOrders
  <2>2. IsFiniteSet(DOMAIN entries)
    <3>1. DOMAIN entries = 1 .. Len(entries) /\ Len(entries) \in Nat
      OBVIOUS
    <3> QED
      BY <3>1, FS_Interval
  <2>3. Cardinality(DOMAIN entries) \in Nat
    BY <2>2, FS_CardinalityType
  <2>4. p \in [1 .. Cardinality(DOMAIN entries) -> DOMAIN entries]
    BY <2>1 DEF SetToSeqs
  <2>5. p \in Seq(DOMAIN entries)
    BY <2>3, <2>4, SeqDef
  <2> QED
    BY <2>5
<1>2. /\ turn[0] = [eb |-> b, records |-> << >>, edge_num_ |-> 0, lost |-> FALSE]
      /\ \A k \in 1 .. n : turn[k] = Apply(turn[k - 1], entries[p[k]], epoch)
  BY <1>1, AppliedLoop
<1> HIDE DEF n, turn
<1>3. Fine(0)
  <2>1. << >> \in Seq(Records(D))
    OBVIOUS
  <2>2. turn[0].eb = b
    BY <1>2
  <2> QED
    BY <1>2, <2>1, <2>2, ShapeRefl DEF Runs
<1>4. ASSUME NEW k \in 1 .. n, Fine(k - 1) PROVE Fine(k)
  <2> DEFINE t == entries[p[k]]
  <2>1. t \in Entries(D) /\ t \in Range(entries)
    BY <1>1 DEF Range
  <2> HIDE DEF t
  <2> DEFINE f == <<t.e, t.offset, t.merge_times>>
  <2>2. turn[k - 1].eb \in Blocks(D)
    BY <1>4 DEF Runs
  <2>3. OffsetGood(turn[k - 1].eb, f)
    <3>1. f \in Triples(D)
      BY <2>1 DEF Entries, Triples
    <3>2. OffsetGood(b, f)
      BY <2>1
    <3> HIDE DEF f
    <3> QED
      BY <1>4, <2>2, <3>1, <3>2, ShapeEntry
  <2>4. /\ Apply(turn[k - 1], t, epoch) \in Runs(D)
        /\ SameShape(turn[k - 1].eb, Apply(turn[k - 1], t, epoch).eb)
    BY <1>4, <2>1, <2>3, ApplyShape
  <2>5. turn[k] = Apply(turn[k - 1], t, epoch)
    BY <1>2 DEF t
  <2>6. turn[k] \in Runs(D) /\ SameShape(turn[k - 1].eb, turn[k].eb)
    BY <2>4, <2>5
  <2>7. turn[k].eb \in Blocks(D)
    BY <2>6 DEF Runs
  <2> QED
    BY <1>4, <2>2, <2>6, <2>7, ShapeTrans
<1>5. Bad = {}
  <2> SUFFICES ASSUME Bad # {} PROVE FALSE
    OBVIOUS
  <2> HIDE DEF Fine
  <2>1. PICK k \in Bad : \A j \in Bad : k <= j
    <3>1. Bad \subseteq Nat
      BY <1>1
    <3> HIDE DEF Bad
    <3> QED
      BY <3>1, NatHasLeast
  <2>2. k # 0
    BY <1>3
  <2>3. k \in 1 .. n /\ k - 1 \in 0 .. n /\ ~(k <= k - 1)
    BY <1>1, <2>2
  <2> QED
    BY <1>4, <2>1, <2>3
<1>6. Fine(n)
  BY <1>1, <1>5
<1>7. turn[n].eb \in Blocks(D)
  BY <1>6 DEF Runs
<1> QED
  BY <1>6, <1>7 DEF n, turn

-----------------------------------------------------------------------------
(* The write buffers.                                                      *)

LEMMA SlotFacts ==
  ASSUME NEW e \in Nat
  PROVE  Slot(e) \in Slots
BY VertexAssumption DEF Slot, Slots

LEMMA BufferFacts ==
  ASSUME NEW D, NEW tvbs \in [Slots -> Buffers(D)], NEW s \in Slots
  PROVE  /\ tvbs[s] \in Buffers(D) /\ tvbs[s].timestamp_ \in Nat
         /\ tvbs[s].entries \in Seq(Entries(D))
         /\ Range(tvbs[s].entries) \subseteq Entries(D)
         /\ Filed(tvbs, s) \subseteq Triples(D)
<1>1. /\ tvbs[s] \in Buffers(D) /\ tvbs[s].timestamp_ \in Nat
      /\ tvbs[s].entries \in Seq(Entries(D))
  BY DEF Buffers
<1>2. Range(tvbs[s].entries) \subseteq Entries(D)
  BY <1>1 DEF Range
<1>3. \A t \in Entries(D) : <<t.e, t.offset, t.merge_times>> \in Triples(D)
  BY DEF Entries, Triples
<1> QED
  BY <1>1, <1>2, <1>3 DEF Filed

LEMMA ClaimedFacts ==
  ASSUME NEW D, tmp_vb \in [Slots -> Buffers(D)], NEW e \in Nat
  PROVE  /\ Claimed(e) \in [Slots -> Buffers(D)]
         /\ Claimed(e)[Slot(e)].timestamp_ = e
         /\ \A s \in Slots \ {Slot(e)} : Claimed(e)[s] = tmp_vb[s]
         /\ Filed(Claimed(e), Slot(e)) \subseteq Filed(tmp_vb, Slot(e))
<1> DEFINE r == [timestamp_ |-> e, entries |-> << >>]
<1>1. Slot(e) \in Slots
  BY SlotFacts
<1>2. r \in Buffers(D) /\ Range(<< >>) = {}
  <2>1. << >> \in Seq(Entries(D))
    OBVIOUS
  <2> QED
    BY <2>1 DEF Buffers, Range
<1>3. r.timestamp_ = e /\ r.entries = << >>
  OBVIOUS
<1> HIDE DEF r
<1>4. CASE tmp_vb[Slot(e)].timestamp_ = e
  BY <1>4 DEF Claimed
<1>5. CASE tmp_vb[Slot(e)].timestamp_ # e
  <2>1. Claimed(e) = [tmp_vb EXCEPT ![Slot(e)] = r]
    BY <1>5 DEF Claimed, r
  <2>2. Claimed(e)[Slot(e)] = r /\ \A s \in Slots \ {Slot(e)} : Claimed(e)[s] = tmp_vb[s]
    BY <1>1, <2>1
  <2>3. Claimed(e) \in [Slots -> Buffers(D)]
    BY <1>2, <2>1
  <2>4. Filed(Claimed(e), Slot(e)) = {}
    BY <1>2, <1>3, <2>2 DEF Filed
  <2> QED
    BY <1>3, <2>2, <2>3, <2>4
<1> QED
  BY <1>4, <1>5

\* A buffer with one more entry.
LEMMA AppendedEntry ==
  ASSUME NEW D, NEW tvbs \in [Slots -> Buffers(D)], NEW e \in Nat, NEW t \in Entries(D)
  PROVE  LET added == [tvbs EXCEPT ![Slot(e)].entries = Append(@, t)]
         IN  /\ added \in [Slots -> Buffers(D)]
             /\ added[Slot(e)].timestamp_ = tvbs[Slot(e)].timestamp_
             /\ \A s \in Slots \ {Slot(e)} : added[s] = tvbs[s]
             /\ Filed(added, Slot(e)) \subseteq Filed(tvbs, Slot(e)) \cup {<<t.e, t.offset, t.merge_times>>}
<1> DEFINE added == [tvbs EXCEPT ![Slot(e)].entries = Append(@, t)]
           q == tvbs[Slot(e)].entries
           r == [tvbs[Slot(e)] EXCEPT !.entries = Append(q, t)]
<1>2. added = [tvbs EXCEPT ![Slot(e)] = r]
  OBVIOUS
<1> HIDE DEF added
<1>3. Slot(e) \in Slots
  BY SlotFacts
<1>4. tvbs[Slot(e)] \in Buffers(D) /\ q \in Seq(Entries(D))
  BY <1>3, BufferFacts
<1> HIDE DEF q
<1>5. Append(q, t) \in Seq(Entries(D)) /\ Range(Append(q, t)) \subseteq Range(q) \cup {t}
  <2>1. /\ Len(q) \in Nat /\ DOMAIN q = 1 .. Len(q) /\ DOMAIN Append(q, t) = 1 .. Len(q) + 1
        /\ Append(q, t)[Len(q) + 1] = t /\ \A i \in 1 .. Len(q) : Append(q, t)[i] = q[i]
        /\ Append(q, t) \in Seq(Entries(D))
    BY <1>4
  <2>2. \A i \in 1 .. Len(q) + 1 : i \in 1 .. Len(q) \/ i = Len(q) + 1
    BY <2>1
  <2> QED
    BY <2>1, <2>2 DEF Range
<1>6. r \in Buffers(D) /\ r.entries = Append(q, t) /\ r.timestamp_ = tvbs[Slot(e)].timestamp_
  BY <1>4, <1>5 DEF Buffers
<1> HIDE DEF r
<1>7. added[Slot(e)] = r /\ \A s \in Slots \ {Slot(e)} : added[s] = tvbs[s]
  BY <1>2, <1>3
<1>8. added \in [Slots -> Buffers(D)]
  BY <1>2, <1>6
<1>9. Filed(added, Slot(e)) \subseteq Filed(tvbs, Slot(e)) \cup {<<t.e, t.offset, t.merge_times>>}
  <2> SUFFICES ASSUME NEW f \in Filed(added, Slot(e))
               PROVE  f \in Filed(tvbs, Slot(e)) \/ f = <<t.e, t.offset, t.merge_times>>
    OBVIOUS
  <2>1. PICK x \in Range(Append(q, t)) : f = <<x.e, x.offset, x.merge_times>>
    BY <1>6, <1>7 DEF Filed
  <2>2. CASE x \in Range(q)
    BY <2>1, <2>2 DEF Filed, q
  <2>3. CASE x = t
    BY <2>1, <2>3
  <2> QED
    BY <1>5, <2>1, <2>2, <2>3
<1> QED
  BY <1>6, <1>7, <1>8, <1>9 DEF added

LEMMA LinkedFacts ==
  ASSUME NEW D, NEW tvbs \in [Slots -> Buffers(D)], NEW slot \in Slots, NEW k \in Nat
  PROVE  LET linked == Linked(tvbs, slot, k)
         IN  /\ linked \in [Slots -> Buffers(D)]
             /\ \A s \in Slots : linked[s].timestamp_ = tvbs[s].timestamp_
             /\ \A s \in Slots : Filed(linked, s) \subseteq Filed(tvbs, s)
             /\ \A s \in Slots : tvbs[s].entries = << >> => linked[s].entries = << >>
<1> DEFINE q == tvbs[slot].entries
           t == [q[k] EXCEPT !.next = TRUE]
           u == [q EXCEPT ![k] = t]
           r == [tvbs[slot] EXCEPT !.entries = u]
           linked == Linked(tvbs, slot, k)
<1>1. linked = [tvbs EXCEPT ![slot] = r]
  BY DEF Linked
<1>2. tvbs[slot] \in Buffers(D) /\ q \in Seq(Entries(D))
  BY BufferFacts
<1> HIDE DEF linked, q
<1>3. /\ u \in Seq(Entries(D)) /\ (q = << >> => u = << >>)
      /\ \A x \in Range(u) : \E y \in Range(q) :
           x.e = y.e /\ x.offset = y.offset /\ x.merge_times = y.merge_times
  <2>1. CASE k \in DOMAIN q
    <3>1. q[k] \in Entries(D) /\ k \in 1 .. Len(q) /\ DOMAIN q = 1 .. Len(q) /\ q # << >>
      BY <1>2, <2>1
    <3>2. /\ t \in Entries(D)
          /\ t.e = q[k].e /\ t.offset = q[k].offset /\ t.merge_times = q[k].merge_times
      BY <3>1 DEF Entries
    <3> HIDE DEF t
    <3>3. u \in Seq(Entries(D)) /\ DOMAIN u = DOMAIN q
      BY <1>2, <3>1, <3>2, ExceptSeq
    <3>4. u[k] = t /\ \A i \in DOMAIN q \ {k} : u[i] = q[i]
      BY <2>1
    <3> HIDE DEF u
    <3> QED
      BY <2>1, <3>1, <3>2, <3>3, <3>4 DEF Range
  <2>2. CASE k \notin DOMAIN q
    <3> HIDE DEF t
    <3>1. u = q
      BY <1>2, <2>2
    <3> QED
      BY <1>2, <3>1
  <2> QED
    BY <2>1, <2>2
<1> HIDE DEF u
<1>4. r \in Buffers(D) /\ r.entries = u /\ r.timestamp_ = tvbs[slot].timestamp_
  BY <1>2, <1>3 DEF Buffers
<1> HIDE DEF r
<1>5. linked[slot] = r /\ \A s \in Slots \ {slot} : linked[s] = tvbs[s]
  BY <1>1
<1>6. linked \in [Slots -> Buffers(D)]
  BY <1>1, <1>4
<1>7. Filed(linked, slot) \subseteq Filed(tvbs, slot)
  BY <1>3, <1>4, <1>5 DEF Filed, q
<1>8. \A s \in Slots \ {slot} : Filed(linked, s) = Filed(tvbs, s)
  BY <1>5 DEF Filed
<1> QED
  BY <1>3, <1>4, <1>5, <1>6, <1>7, <1>8 DEF linked, q

-----------------------------------------------------------------------------
(* The marks.                                                              *)

\* A store leaves the marks of the other edges, and of its own edge if it stores one.
LEMMA PutMarks ==
  ASSUME NEW D, NEW b \in Blocks(D), NEW loc \in Places, NEW d \in D, Valid(b, loc, d),
         NEW x \in Items(D), x.e = d
  PROVE  /\ \A y \in D : Marked(b, y) /\ (y # d \/ x.tmp) => Marked(Put(b, loc, x), y)
         /\ \A N : Stored(b, D, N) /\ x.tmp => Marked(Put(b, loc, x), d)
<1> DEFINE i == loc[2]
           c == Put(b, loc, x)
<1>1. loc[1] \in {"start", "tmp_item"} /\ i \in Nat
  BY PlaceFacts
<1>2. CASE loc[1] = "start"
  <2>1. c = [b EXCEPT !.start = [b.start EXCEPT ![i] = x]]
    BY <1>1, <1>2 DEF Put, Blocks
  <2>2. /\ c.tmp_item = b.tmp_item /\ c.start = [b.start EXCEPT ![i] = x]
        /\ i \in DOMAIN b.start /\ b.start[i].e = d
    BY <1>2, <2>1 DEF Blocks, Valid
  <2>3. DOMAIN c.start = DOMAIN b.start /\ c.start[i] = x
        /\ \A j \in DOMAIN b.start \ {i} : c.start[j] = b.start[j]
    BY <2>2
  <2> HIDE DEF c, i
  <2>4. \A y \in D : Marked(b, y) /\ (y # d \/ x.tmp) => Marked(c, y)
    BY <2>2, <2>3 DEF Marked
  <2>5. \A N : Stored(b, D, N) /\ x.tmp => Marked(c, d)
    BY <2>2, <2>3 DEF Marked, Stored
  <2> QED
    BY <2>4, <2>5 DEF c
<1>3. CASE loc[1] = "tmp_item"
  <2>1. c = [b EXCEPT !.tmp_item = [b.tmp_item EXCEPT ![i] = x]]
    BY <1>1, <1>3 DEF Put, Blocks
  <2>2. /\ c.start = b.start /\ c.tmp_item = [b.tmp_item EXCEPT ![i] = x]
        /\ i \in DOMAIN b.tmp_item /\ b.tmp_item[i].e = d
    BY <1>3, <2>1 DEF Blocks, Valid
  <2>3. DOMAIN c.tmp_item = DOMAIN b.tmp_item /\ c.tmp_item[i] = x
        /\ \A j \in DOMAIN b.tmp_item \ {i} : c.tmp_item[j] = b.tmp_item[j]
    BY <2>2
  <2> HIDE DEF c, i
  <2>4. \A y \in D : Marked(b, y) /\ (y # d \/ x.tmp) => Marked(c, y)
    BY <2>2, <2>3 DEF Marked
  <2>5. \A N : Stored(b, D, N) /\ x.tmp => Marked(c, d)
    BY <2>2, <2>3 DEF Marked, Stored
  <2> QED
    BY <2>4, <2>5 DEF c
<1> QED
  BY <1>1, <1>2, <1>3

\* The mark of an edge is that of its item.
LEMMA MarkedItem ==
  ASSUME NEW D, NEW b \in Blocks(D), NEW loc \in Places, NEW d \in D, Valid(b, loc, d),
         Marked(b, d)
  PROVE  ItemAt(b, loc).tmp
<1>1. loc[1] = "start" \/ loc[1] = "tmp_item"
  BY PlaceFacts
<1>2. CASE loc[1] = "start"
  BY <1>2 DEF Valid, Marked, ItemAt
<1>3. CASE loc[1] = "tmp_item"
  BY <1>3 DEF Valid, Marked, ItemAt
<1> QED
  BY <1>1, <1>2, <1>3

\* A merge loses no marked edge, and no offset that counts.
LEMMA MergeEntry ==
  ASSUME NEW D, D \subseteq Nat, NEW N \in Nat, NEW b, Stored(b, D, N), NEW f \in Triples(D),
         OffsetGood(b, f)
  PROVE  LET c == merge_tmpev_with_eb(b)
         IN  /\ OffsetGood(c, f)
             /\ Marked(b, f[1]) => Marked(c, f[1])
             /\ Marked(b, f[1]) /\ EdgeKept(b, f) => EdgeKept(c, f)
<1> DEFINE c == merge_tmpev_with_eb(b)
           dropped == {item \in Range(b.start) : Droppable(item)}
<1>1. /\ Stored(c, D, N) /\ c.tmp_item = << >> /\ c.merge_times = b.merge_times + 1
      /\ Range(c.start) = (Range(b.start) \ dropped) \cup Range(b.tmp_item)
  BY MergeStored
<1>2. b \in Blocks(D) /\ c \in Blocks(D)
  BY <1>1 DEF Stored
<1> HIDE DEF c
<1>3. f[3] \in Nat /\ f[2] \in Places /\ f[1] \in D /\ b.merge_times \in Nat
  BY <1>2, BlockFacts DEF Triples
<1>4. OffsetGood(c, f)
  BY <1>1, <1>3 DEF OffsetGood
<1>5. Marked(b, f[1]) => Marked(c, f[1])
  <2> SUFFICES ASSUME Marked(b, f[1]) PROVE Marked(c, f[1])
    OBVIOUS
  <2>1. \A x \in Range(b.start) \cup Range(b.tmp_item) : x.e = f[1] => x.tmp
    BY DEF Marked, Range
  <2>2. \A i \in DOMAIN c.start : c.start[i] \in Range(b.start) \cup Range(b.tmp_item)
    BY <1>1 DEF Range
  <2>3. DOMAIN c.tmp_item = {}
    BY <1>1
  <2> QED
    BY <2>1, <2>2, <2>3 DEF Marked
<1>6. Marked(b, f[1]) /\ EdgeKept(b, f) => EdgeKept(c, f)
  <2> SUFFICES ASSUME Marked(b, f[1]), EdgeKept(b, f)
               PROVE  \E i \in DOMAIN c.start : c.start[i].e = f[1]
    BY DEF EdgeKept
  <2>1. PICK x \in Range(c.start) : x.e = f[1]
    <3>1. CASE f[3] < b.merge_times
      <4>1. PICK i \in DOMAIN b.start : b.start[i].e = f[1]
        BY <3>1 DEF EdgeKept
      <4>2. b.start[i].tmp /\ b.start[i] \in Range(b.start)
        BY <4>1 DEF Marked, Range
      <4> QED
        BY <1>1, <4>1, <4>2 DEF Droppable
    <3>2. CASE f[3] = b.merge_times
      <4> DEFINE loc == f[2]
      <4>1. Valid(b, loc, f[1]) /\ loc \in Places
        BY <1>3, <3>2 DEF OffsetGood
      <4> HIDE DEF loc
      <4>2. loc[1] = "start" \/ loc[1] = "tmp_item"
        BY <4>1, PlaceFacts
      <4>3. CASE loc[1] = "start"
        <5>1. loc[2] \in DOMAIN b.start /\ b.start[loc[2]].e = f[1]
          BY <4>1, <4>3 DEF Valid
        <5>2. b.start[loc[2]].tmp /\ b.start[loc[2]] \in Range(b.start)
          BY <5>1 DEF Marked, Range
        <5> QED
          BY <1>1, <5>1, <5>2 DEF Droppable
      <4>4. CASE loc[1] = "tmp_item"
        <5>1. loc[2] \in DOMAIN b.tmp_item /\ b.tmp_item[loc[2]].e = f[1]
          BY <4>1, <4>4 DEF Valid
        <5>2. b.tmp_item[loc[2]] \in Range(b.tmp_item)
          BY <5>1 DEF Range
        <5> QED
          BY <1>1, <5>1, <5>2
      <4> QED
        BY <4>2, <4>3, <4>4
    <3> QED
      BY <1>3, <3>1, <3>2 DEF OffsetGood
  <2> QED
    BY <2>1 DEF Range
<1> QED
  BY <1>4, <1>5, <1>6 DEF c

LEMMA MergedIfFullEntry ==
  ASSUME use \in Uses, NEW b, Stored(b, Dsts, TMPNUM), NEW f \in Triples(Dsts),
         OffsetGood(b, f)
  PROVE  LET c == MergedIfFull(b)
         IN  /\ OffsetGood(c, f)
             /\ Marked(b, f[1]) => Marked(c, f[1])
             /\ Marked(b, f[1]) /\ EdgeKept(b, f) => EdgeKept(c, f)
<1>1. Dsts \subseteq Nat /\ TMPNUM \in Nat
  BY VertexAssumption DEF Dsts, TMPNUM
<1>2. CASE Len(b.tmp_item) = TMPNUM
  BY <1>1, <1>2, MergeEntry DEF MergedIfFull
<1>3. CASE Len(b.tmp_item) # TMPNUM
  BY <1>3 DEF MergedIfFull
<1> QED
  BY <1>2, <1>3

-----------------------------------------------------------------------------
(* A write, from the conflict check on.                                    *)

\* What a write of epoch e to the edge to d at loc of b does, if it overwrites a
\* version of epoch le.
Wrote(b, loc, d, e, le) ==
  /\ eb' \in Blocks(Dsts) /\ SameShape(b, eb')
  /\ tmp_vb' \in [Slots -> Buffers(Dsts)]
  /\ active_tvb_mask_' = MarkTvbActive(e)
  /\ intra_counter_' \in [Epochs -> Nat] /\ IsFiniteSet(log')
  /\ \A s \in Slots : tmp_vb'[s].timestamp_ = IF s = Slot(e) THEN e ELSE tmp_vb[s].timestamp_
  /\ \A s \in Slots \ {Slot(e)} : tmp_vb[s].entries = << >> => tmp_vb'[s].entries = << >>
  /\ \A y \in Dsts \ {d} : Marked(b, y) => Marked(eb', y)
  /\ \/ /\ le # 0 /\ eb' = b
        /\ \A s \in Slots : Filed(tmp_vb', s) \subseteq Filed(tmp_vb, s)
     \/ /\ Marked(eb', d)
        /\ \A s \in Slots : Filed(tmp_vb', s) \subseteq Filed(tmp_vb, s) \cup {<<d, loc, b.merge_times>>}

LEMMA AddVersionWrites ==
  ASSUME VertexType, NEW b, Stored(b, Dsts, TMPNUM), NEW loc \in Places, NEW d \in Dsts,
         Valid(b, loc, d), NEW new \in Items(Dsts), new.e = d, NEW w \in Nat,
         NEW e \in Epochs, NEW le \in Nat, NEW oi \in Nat,
         AddVersion(b, loc, new, d, w, e, le, oi)
  PROVE  Wrote(b, loc, d, e, le)
<1> DEFINE item == ItemAt(b, loc)
           tvbs == Claimed(e)
           pred == Slot(le)
           Added(i) == InsertVersion(tvbs, e, d, new.del, w, loc, b.merge_times, le, oi, i)
           Refused == /\ \E re \in ReadEpochs(e) : re < le
                      /\ eb' = b /\ tmp_vb' = tvbs
                      /\ intra_counter_' = intra_counter_ /\ log' = log
<1>1. /\ b \in Blocks(Dsts) /\ e \in Nat /\ Slot(e) \in Slots /\ pred \in Slots
      /\ tmp_vb \in [Slots -> Buffers(Dsts)] /\ intra_counter_ \in [Epochs -> Nat]
      /\ b.merge_times \in Nat /\ new.del \in BOOLEAN /\ read_epoch_ \in Nat
      /\ IntraOfWriter(e) \subseteq Nat
  <2>1. b \in Blocks(Dsts) /\ e \in Nat
    BY DEF Stored, Epochs
  <2>2. /\ intra_counter_ \in [Epochs -> Nat] /\ tmp_vb \in [Slots -> Buffers(Dsts)]
        /\ read_epoch_ \in Nat
    BY DEF VertexType, Epochs
  <2>3. new.del \in BOOLEAN
    BY DEF Items
  <2>4. IntraOfWriter(e) \subseteq Nat
    <3> DEFINE n == Cardinality(UNION {{<<f, i>> : i \in Elsewhere(f)} : f \in Epochs})
    <3>1. Drawn(e) = intra_counter_[e] .. intra_counter_[e] + MaxElsewhere - n
      BY DEF Drawn
    <3>2. intra_counter_[e] \in Nat
      BY <2>2
    <3> HIDE DEF n
    <3>3. Drawn(e) \subseteq Nat
      BY <3>1, <3>2
    <3> QED
      BY <3>2, <3>3 DEF IntraOfWriter, Elsewhere
  <2> QED
    BY <2>1, <2>2, <2>3, <2>4, SlotFacts, BlockFacts
<1>2. item \in Items(Dsts) /\ item.pblock \in Nat
  <2>1. item \in Items(Dsts)
    BY <1>1, ValidItem
  <2> HIDE DEF item
  <2> QED
    BY <2>1 DEF Items
<1>3. /\ active_tvb_mask_' = MarkTvbActive(e)
      /\ \/ Refused
         \/ \E i \in IntraOfWriter(e) : Accept(b, loc, new, d, w, e, le, oi, i)
  BY DEF AddVersion
<1> HIDE DEF item, pred
<1>4. /\ tvbs \in [Slots -> Buffers(Dsts)]
      /\ \A s \in Slots : tvbs[s].timestamp_ = IF s = Slot(e) THEN e ELSE tmp_vb[s].timestamp_
      /\ \A s \in Slots \ {Slot(e)} : tvbs[s] = tmp_vb[s]
      /\ \A s \in Slots : Filed(tvbs, s) \subseteq Filed(tmp_vb, s)
  <2>1. /\ tvbs \in [Slots -> Buffers(Dsts)] /\ tvbs[Slot(e)].timestamp_ = e
        /\ \A s \in Slots \ {Slot(e)} : tvbs[s] = tmp_vb[s]
        /\ Filed(tvbs, Slot(e)) \subseteq Filed(tmp_vb, Slot(e))
    BY <1>1, ClaimedFacts
  <2> HIDE DEF tvbs
  <2> QED
    BY <2>1 DEF Filed
<1> HIDE DEF tvbs
<1>5. CASE Refused
  <2>1. SameShape(b, eb') /\ intra_counter_' \in [Epochs -> Nat] /\ IsFiniteSet(log')
    BY <1>5, ShapeRefl DEF VertexType
  <2>2. le # 0
    BY <1>1, <1>5 DEF ReadEpochs
  <2> QED
    BY <1>1, <1>3, <1>4, <1>5, <2>1, <2>2 DEF Wrote
<1>6. ASSUME NEW i \in IntraOfWriter(e), Accept(b, loc, new, d, w, e, le, oi, i)
      PROVE  Wrote(b, loc, d, e, le)
  <2> DEFINE added == Added(i)
             x == [new EXCEPT !.block = e, !.tmp = TRUE, !.index = i,
                              !.pblock = IF new.del THEN 1 ELSE Len(added[Slot(e)].entries)]
             n == Writes + 1
  <2>1. /\ eb' = Put(b, loc, x)
        /\ intra_counter_' = [intra_counter_ EXCEPT ![e] = IF i > @ THEN i ELSE @]
        /\ log' = log \cup {[at |-> n, ts |-> <<e, i>>, e |-> d, del |-> new.del, w |-> w]}
        /\ tmp_vb' = added \/ tmp_vb' = Linked(added, pred, item.pblock)
    BY <1>6 DEF Accept, pred, item, tvbs
  <2>2. i \in Nat
    BY <1>1
  <2> HIDE DEF n
  <2>3. /\ added \in [Slots -> Buffers(Dsts)]
        /\ \A s \in Slots : added[s].timestamp_ = tvbs[s].timestamp_
        /\ \A s \in Slots \ {Slot(e)} : added[s] = tvbs[s]
        /\ \A s \in Slots : Filed(added, s) \subseteq Filed(tmp_vb, s) \cup {<<d, loc, b.merge_times>>}
    <3>1. /\ added \in [Slots -> Buffers(Dsts)]
          /\ added[Slot(e)].timestamp_ = tvbs[Slot(e)].timestamp_
          /\ \A s \in Slots \ {Slot(e)} : added[s] = tvbs[s]
          /\ Filed(added, Slot(e)) \subseteq Filed(tvbs, Slot(e)) \cup {<<d, loc, b.merge_times>>}
      <4> DEFINE t == [e |-> d, del |-> new.del, weight |-> w, offset |-> loc,
                       merge_times |-> b.merge_times, last_epoch |-> le, old_intra_c |-> oi,
                       new_intra_c |-> i, next |-> FALSE]
                 add == [tvbs EXCEPT ![Slot(e)].entries = Append(@, t)]
      <4>1. added = add
        BY DEF InsertVersion
      <4>2. t \in Entries(Dsts) /\ t.e = d /\ t.offset = loc /\ t.merge_times = b.merge_times
        BY <1>1, <2>2 DEF Entries
      <4> HIDE DEF t
      <4>3. /\ add \in [Slots -> Buffers(Dsts)]
            /\ add[Slot(e)].timestamp_ = tvbs[Slot(e)].timestamp_
            /\ \A s \in Slots \ {Slot(e)} : add[s] = tvbs[s]
            /\ Filed(add, Slot(e)) \subseteq Filed(tvbs, Slot(e)) \cup {<<t.e, t.offset, t.merge_times>>}
        BY <1>1, <1>4, <4>2, AppendedEntry
      <4> HIDE DEF add, added
      <4> QED
        BY <4>1, <4>2, <4>3
    <3> HIDE DEF added
    <3>2. \A s \in Slots \ {Slot(e)} : Filed(added, s) = Filed(tvbs, s)
      BY <3>1 DEF Filed
    <3> QED
      BY <1>4, <3>1, <3>2
  <2> HIDE DEF added
  <2>4. x \in Items(Dsts) /\ x.e = d /\ x.tmp
    <3>1. Len(added[Slot(e)].entries) \in Nat
      <4>1. added[Slot(e)].entries \in Seq(Entries(Dsts))
        BY <1>1, <2>3, BufferFacts
      <4> QED
        BY <4>1
    <3> QED
      BY <1>1, <2>2, <3>1 DEF Items
  <2> HIDE DEF x
  <2>5. eb' \in Blocks(Dsts) /\ SameShape(b, eb')
    <3>1. loc[2] \in DOMAIN b[loc[1]] => x.e = ItemAt(b, loc).e
      BY <2>4 DEF Valid, ItemAt
    <3> QED
      BY <1>1, <2>1, <2>4, <3>1, PutShape
  <2>6. Marked(eb', d) /\ \A y \in Dsts \ {d} : Marked(b, y) => Marked(eb', y)
    BY <1>1, <2>1, <2>4, PutMarks
  <2>7. /\ tmp_vb' \in [Slots -> Buffers(Dsts)]
        /\ \A s \in Slots : tmp_vb'[s].timestamp_ = added[s].timestamp_
        /\ \A s \in Slots : Filed(tmp_vb', s) \subseteq Filed(added, s)
        /\ \A s \in Slots : added[s].entries = << >> => tmp_vb'[s].entries = << >>
    <3>1. CASE tmp_vb' = added
      BY <2>3, <3>1
    <3>2. CASE tmp_vb' = Linked(added, pred, item.pblock)
      BY <1>1, <1>2, <2>3, <3>2, LinkedFacts
    <3> QED
      BY <2>1, <3>1, <3>2
  <2>8. intra_counter_' \in [Epochs -> Nat]
    BY <1>1, <2>1, <2>2
  <2>9. IsFiniteSet(log')
    <3>1. IsFiniteSet(log)
      BY DEF VertexType
    <3> QED
      BY <2>1, <3>1, FS_AddElement
  <2>10. \A s \in Slots : tmp_vb'[s].timestamp_ = IF s = Slot(e) THEN e ELSE tmp_vb[s].timestamp_
    BY <1>4, <2>3, <2>7
  <2>11. \A s \in Slots \ {Slot(e)} : tmp_vb[s].entries = << >> => tmp_vb'[s].entries = << >>
    BY <1>4, <2>3, <2>7
  <2>12. \A s \in Slots : Filed(tmp_vb', s) \subseteq Filed(tmp_vb, s) \cup {<<d, loc, b.merge_times>>}
    BY <2>3, <2>7
  <2> QED
    BY <1>3, <2>5, <2>6, <2>7, <2>8, <2>9, <2>10, <2>11, <2>12 DEF Wrote
<1> HIDE DEF Refused
<1> QED
  BY <1>3, <1>5, <1>6

\* The entries stay good, the new one included.
LEMMA WroteEntries ==
  ASSUME NEW b, Stored(b, Dsts, TMPNUM), NEW loc \in Places, NEW d \in Dsts,
         Valid(b, loc, d), NEW e, NEW le, Wrote(b, loc, d, e, le),
         tmp_vb \in [Slots -> Buffers(Dsts)],
         \A s \in Slots : \A f \in Filed(tmp_vb, s) : OffsetGood(b, f)
  PROVE  /\ Stored(eb', Dsts, TMPNUM)
         /\ \A s \in Slots : \A f \in Filed(tmp_vb', s) : OffsetGood(eb', f)
<1>1. b \in Blocks(Dsts) /\ eb' \in Blocks(Dsts) /\ SameShape(b, eb')
  BY DEF Stored, Wrote
<1>2. Stored(eb', Dsts, TMPNUM)
  BY <1>1, ShapeStored
<1>3. ASSUME NEW s \in Slots, NEW f \in Filed(tmp_vb', s) PROVE OffsetGood(eb', f)
  <2> DEFINE g == <<d, loc, b.merge_times>>
  <2>1. f \in Filed(tmp_vb, s) \/ f = g
    BY <1>3 DEF Wrote
  <2>2. OffsetGood(b, g) /\ g \in Triples(Dsts)
    <3>1. b.merge_times \in Nat
      BY <1>1, BlockFacts
    <3> QED
      BY <3>1 DEF OffsetGood, Triples
  <2> HIDE DEF g
  <2>3. f \in Triples(Dsts) /\ OffsetGood(b, f)
    BY <1>3, <2>1, <2>2, BufferFacts
  <2> QED
    BY <1>1, <2>3, ShapeEntry
<1> QED
  BY <1>2, <1>3

\* The entries stay located and their edges marked.
LEMMA WroteKept ==
  ASSUME NEW b, Stored(b, Dsts, TMPNUM), NEW loc \in Places, NEW d \in Dsts,
         NEW e, NEW le, Wrote(b, loc, d, e, le), tmp_vb \in [Slots -> Buffers(Dsts)],
         \A s \in Slots : \A f \in Filed(tmp_vb, s) :
           EdgeKept(b, f) /\ (Marked(b, f[1]) \/ (f[1] = d /\ le = 0))
  PROVE  \A s \in Slots : \A f \in Filed(tmp_vb', s) : EdgeKept(eb', f) /\ Marked(eb', f[1])
<1>1. b \in Blocks(Dsts) /\ eb' \in Blocks(Dsts) /\ SameShape(b, eb')
  BY DEF Stored, Wrote
<1> SUFFICES ASSUME NEW s \in Slots, NEW f \in Filed(tmp_vb', s)
             PROVE  EdgeKept(eb', f) /\ Marked(eb', f[1])
  OBVIOUS
<1> DEFINE g == <<d, loc, b.merge_times>>
<1>2. f \in Filed(tmp_vb, s) \/ f = g
  BY DEF Wrote
<1>3. EdgeKept(b, g) /\ g \in Triples(Dsts) /\ g[1] = d
  <2>1. b.merge_times \in Nat
    BY <1>1, BlockFacts
  <2> QED
    BY <2>1 DEF EdgeKept, Triples
<1> HIDE DEF g
<1>4. f \in Triples(Dsts) /\ EdgeKept(b, f) /\ f[1] \in Dsts
  <2>1. f \in Triples(Dsts) /\ EdgeKept(b, f)
    BY <1>2, <1>3, BufferFacts
  <2> QED
    BY <2>1 DEF Triples
<1>5. EdgeKept(eb', f)
  BY <1>1, <1>4, ShapeEntry
<1>6. Marked(eb', f[1])
  <2>1. CASE f[1] = d /\ Marked(eb', d)
    BY <2>1
  <2>2. CASE f[1] = d /\ ~Marked(eb', d)
    <3>1. le # 0 /\ eb' = b /\ f \in Filed(tmp_vb, s)
      BY <2>2 DEF Wrote
    <3>2. Marked(b, f[1])
      BY <3>1
    <3> QED
      BY <3>1, <3>2
  <2>3. CASE f[1] # d
    <3>1. f \in Filed(tmp_vb, s)
      BY <1>2, <1>3, <2>3
    <3> QED
      BY <1>4, <2>3, <3>1 DEF Wrote
  <2> QED
    BY <2>1, <2>2, <2>3
<1> QED
  BY <1>5, <1>6

-----------------------------------------------------------------------------
(* The write handlers up to the conflict check.                            *)

StoreInv ==
  /\ VertexType
  /\ Stored(eb, Dsts, TMPNUM)
  /\ \A s \in Slots : \A f \in Filed(tmp_vb, s) : OffsetGood(eb, f)

\* The block b in which a write to the edge to d at loc is about to be recorded.
Ready(b, loc, d, e, le) ==
  /\ Stored(b, Dsts, TMPNUM) /\ loc \in Places /\ Valid(b, loc, d)
  /\ \A s \in Slots : \A f \in Filed(tmp_vb, s) :
       /\ OffsetGood(b, f)
       /\ Marked(eb, f[1]) /\ EdgeKept(eb, f) =>
            EdgeKept(b, f) /\ (Marked(b, f[1]) \/ (f[1] = d /\ le = 0))

\* The search finds an edge that M knows.
LEMMA SearchFinds ==
  ASSUME NEW D, NEW N, NEW b, Stored(b, D, N), NEW d \in b.M
  PROVE  get_edge_index(b, d) \in Places /\ Valid(b, get_edge_index(b, d), d)
<1> DEFINE S == At(b, "start", d)
           T == At(b, "tmp_item", d)
           loc == get_edge_index(b, d)
<1>1. S # {} \/ T # {}
  <2>1. \/ \E i \in DOMAIN b.start : b.start[i].e = d
        \/ \E i \in DOMAIN b.tmp_item : b.tmp_item[i].e = d
    BY DEF Stored
  <2>2. CASE \E i \in DOMAIN b.start : b.start[i].e = d
    <3>1. PICK i \in DOMAIN b.start : b.start[i].e = d
      BY <2>2
    <3>2. <<"start", i>> \in S
      BY <3>1 DEF At
    <3> QED
      BY <3>2
  <2>3. CASE \E i \in DOMAIN b.tmp_item : b.tmp_item[i].e = d
    <3>1. PICK i \in DOMAIN b.tmp_item : b.tmp_item[i].e = d
      BY <2>3
    <3>2. <<"tmp_item", i>> \in T
      BY <3>1 DEF At
    <3> QED
      BY <3>2
  <2> QED
    BY <2>1, <2>2, <2>3
<1>2. loc \in S \/ loc \in T
  <2> HIDE DEF S, T
  <2>1. loc = CHOOSE l \in IF S # {} THEN S ELSE T : TRUE
    BY DEF get_edge_index, S, T
  <2> QED
    BY <1>1, <2>1
<1>3. b \in Blocks(D)
  BY DEF Stored
<1> HIDE DEF loc
<1>4. loc \in Places /\ Valid(b, loc, d)
  BY <1>2, <1>3, AtFacts
<1> QED
  BY <1>4 DEF loc

\* The block once the insertion buffer, if full, is merged.
LEMMA MergedReady ==
  ASSUME StoreInv
  PROVE  LET b == MergedIfFull(eb)
         IN  /\ Stored(b, Dsts, TMPNUM) /\ b \in Blocks(Dsts)
             /\ Len(b.tmp_item) < TMPNUM
             /\ \A s \in Slots : \A f \in Filed(tmp_vb, s) :
                  /\ f \in Triples(Dsts) /\ f[1] \in Dsts
                  /\ OffsetGood(b, f)
                  /\ Marked(eb, f[1]) /\ EdgeKept(eb, f) => EdgeKept(b, f) /\ Marked(b, f[1])
<1> DEFINE b == MergedIfFull(eb)
<1>1. use \in Uses /\ tmp_vb \in [Slots -> Buffers(Dsts)] /\ Stored(eb, Dsts, TMPNUM)
  BY DEF StoreInv, VertexType
<1>2. Stored(b, Dsts, TMPNUM) /\ Len(b.tmp_item) < TMPNUM
  BY <1>1, MergedIfFullStored
<1>3. b \in Blocks(Dsts)
  BY <1>2 DEF Stored
<1>4. ASSUME NEW s \in Slots, NEW f \in Filed(tmp_vb, s)
      PROVE  /\ f \in Triples(Dsts) /\ f[1] \in Dsts
             /\ OffsetGood(b, f)
             /\ Marked(eb, f[1]) /\ EdgeKept(eb, f) => EdgeKept(b, f) /\ Marked(b, f[1])
  <2>1. f \in Triples(Dsts) /\ OffsetGood(eb, f)
    BY <1>1, <1>4, BufferFacts DEF StoreInv
  <2>2. f[1] \in Dsts
    BY <2>1 DEF Triples
  <2> QED
    BY <1>1, <2>1, <2>2, MergedIfFullEntry
<1> QED
  BY <1>2, <1>3, <1>4

LEMMA WeightsAreNat ==
  ASSUME VertexType
  PROVE  WriteWeight \in Nat
<1>1. FirstWeight \in Nat
  BY VertexAssumption DEF VertexType, FirstWeight
<1>2. IsFiniteSet({l \in log : l.at # 0})
  BY FS_Subset DEF VertexType
<1>3. Writes \in Nat
  BY <1>2, FS_CardinalityType DEF Writes
<1> QED
  BY <1>1, <1>3 DEF WriteWeight

\* An edge that M does not know is put at the end of the insertion buffer.
LEMMA InsertNewWrites ==
  ASSUME StoreInv, NEW d \in Dsts, NEW e \in Epochs, NEW w \in Nat,
         d \notin MergedIfFull(eb).M, InsertNew(MergedIfFull(eb), d, w, e)
  PROVE  \E b, loc, le : Ready(b, loc, d, e, le) /\ Wrote(b, loc, d, e, le)
<1> DEFINE b == MergedIfFull(eb)
           x == Item(d, w)
           c == [b EXCEPT !.tmp_item = Append(@, x), !.M = @ \cup {d}, !.num = @ + 1]
           n == Len(b.tmp_item)
           loc == <<"tmp_item", n + 1>>
<1>1. /\ Stored(b, Dsts, TMPNUM) /\ b \in Blocks(Dsts) /\ n < TMPNUM
      /\ \A s \in Slots : \A f \in Filed(tmp_vb, s) :
           /\ f \in Triples(Dsts) /\ f[1] \in Dsts
           /\ OffsetGood(b, f)
           /\ Marked(eb, f[1]) /\ EdgeKept(eb, f) => EdgeKept(b, f) /\ Marked(b, f[1])
  BY MergedReady
<1>2. d \notin b.M /\ AddVersion(c, <<"tmp_item", Len(c.tmp_item)>>, x, d, w, e, 0, 0)
  BY DEF InsertNew
<1>3. VertexType /\ TMPNUM \in Nat
  BY VertexAssumption DEF StoreInv, VertexType, TMPNUM
<1> HIDE DEF b
<1>4. x \in Items(Dsts) /\ x.e = d
  BY DEF Item, Items
<1> HIDE DEF x
<1>5. /\ Stored(c, Dsts, TMPNUM) /\ c.start = b.start /\ c.merge_times = b.merge_times
      /\ Len(c.tmp_item) = n + 1 /\ c.tmp_item[n + 1] = x
      /\ \A i \in DOMAIN b.tmp_item : c.tmp_item[i] = b.tmp_item[i]
  <2> DEFINE a == Appended(b, x)
  <2>1. c = a
    BY <1>4 DEF Appended
  <2>2. /\ Stored(a, Dsts, TMPNUM) /\ a.start = b.start /\ a.merge_times = b.merge_times
        /\ Len(a.tmp_item) = n + 1 /\ a.tmp_item[n + 1] = x
        /\ \A i \in DOMAIN b.tmp_item : a.tmp_item[i] = b.tmp_item[i]
    <3>1. x.e \notin b.M /\ Len(b.tmp_item) < TMPNUM
      BY <1>1, <1>2, <1>4
    <3> QED
      BY <1>1, <1>3, <1>4, <3>1, AppendStored
  <2> HIDE DEF a, c, n
  <2> QED
    BY <2>1, <2>2
<1> HIDE DEF c
<1>6. /\ c \in Blocks(Dsts) /\ n \in Nat
      /\ DOMAIN c.tmp_item = 1 .. n + 1 /\ DOMAIN b.tmp_item = 1 .. n
  <2>1. c \in Blocks(Dsts)
    BY <1>5 DEF Stored
  <2> QED
    BY <1>1, <1>5, <2>1, BlockFacts
<1> HIDE DEF n
<1>7. loc \in Places /\ Valid(c, loc, d)
  <2>1. loc \in Places
    BY <1>6 DEF Places
  <2>2. n + 1 \in DOMAIN c.tmp_item
    BY <1>6
  <2> QED
    BY <1>4, <1>5, <2>1, <2>2 DEF Valid
<1>8. Wrote(c, loc, d, e, 0)
  <2>1. loc = <<"tmp_item", Len(c.tmp_item)>>
    BY <1>5
  <2> HIDE DEF loc
  <2> QED
    BY <1>2, <1>3, <1>4, <1>5, <1>7, <2>1, AddVersionWrites
<1>9. Ready(c, loc, d, e, 0)
  <2>1. ASSUME NEW s \in Slots, NEW f \in Filed(tmp_vb, s)
        PROVE  /\ OffsetGood(c, f)
               /\ Marked(eb, f[1]) /\ EdgeKept(eb, f) =>
                    EdgeKept(c, f) /\ (Marked(c, f[1]) \/ (f[1] = d /\ ~(0 > e)))
    <3>1. /\ f \in Triples(Dsts) /\ f[1] \in Dsts
          /\ OffsetGood(b, f)
          /\ Marked(eb, f[1]) /\ EdgeKept(eb, f) => EdgeKept(b, f) /\ Marked(b, f[1])
      BY <1>1, <2>1
    <3>2. \A i \in 1 .. n : i \in 1 .. n + 1
      BY <1>6
    <3>3. ASSUME NEW l \in Places, Valid(b, l, f[1]) PROVE Valid(c, l, f[1])
      <4>1. l[1] = "start" \/ l[1] = "tmp_item"
        BY PlaceFacts
      <4>2. CASE l[1] = "start"
        BY <1>5, <3>3, <4>2 DEF Valid
      <4>3. CASE l[1] = "tmp_item"
        BY <1>5, <1>6, <3>2, <3>3, <4>3 DEF Valid
      <4> QED
        BY <4>1, <4>2, <4>3
    <3>4. f[2] \in Places
      BY <3>1 DEF Triples
    <3>5. OffsetGood(c, f)
      BY <1>5, <3>1, <3>3, <3>4 DEF OffsetGood
    <3>6. EdgeKept(b, f) => EdgeKept(c, f)
      BY <1>5 DEF EdgeKept
    <3>7. Marked(b, f[1]) /\ f[1] # d => Marked(c, f[1])
      <4>1. \A i \in 1 .. n + 1 : i \in 1 .. n \/ i = n + 1
        BY <1>6
      <4> QED
        BY <1>4, <1>5, <1>6, <4>1 DEF Marked
    <3>8. ~(0 > e)
      BY DEF Epochs
    <3> QED
      BY <3>1, <3>5, <3>6, <3>7, <3>8
  <2> QED
    BY <1>5, <1>7, <2>1 DEF Ready
<1> QED
  BY <1>8, <1>9

\* An edge that M knows is updated where it is.
LEMMA InsertKnownWrites ==
  ASSUME StoreInv, NEW d \in Dsts, NEW e \in Epochs, NEW w \in Nat,
         d \in MergedIfFull(eb).M, InsertKnown(MergedIfFull(eb), d, w, e)
  PROVE  \E b, loc, le : Ready(b, loc, d, e, le) /\ Wrote(b, loc, d, e, le)
<1> DEFINE b == MergedIfFull(eb)
           loc == get_edge_index(b, d)
           item == ItemAt(b, loc)
           alive == [item EXCEPT !.del = FALSE]
           c == Put(b, loc, alive)
           le == IF item.del THEN 0 ELSE item.block
           oi == IF item.del THEN 0 ELSE item.index
<1>1. /\ Stored(b, Dsts, TMPNUM) /\ b \in Blocks(Dsts)
      /\ \A s \in Slots : \A f \in Filed(tmp_vb, s) :
           /\ f \in Triples(Dsts) /\ f[1] \in Dsts
           /\ OffsetGood(b, f)
           /\ Marked(eb, f[1]) /\ EdgeKept(eb, f) => EdgeKept(b, f) /\ Marked(b, f[1])
  BY MergedReady
<1>2. d \in b.M /\ AddVersion(c, loc, alive, d, w, e, le, oi)
  BY DEF InsertKnown
<1>3. VertexType
  BY DEF StoreInv
<1> HIDE DEF b
<1>4. loc \in Places /\ Valid(b, loc, d)
  BY <1>1, <1>2, SearchFinds
<1> HIDE DEF loc
<1>5. item \in Items(Dsts) /\ item.e = d
  BY <1>1, <1>4, ValidItem
<1>6. Marked(b, d) => item.tmp
  BY <1>1, <1>4, MarkedItem
<1> HIDE DEF item
<1>7. alive \in Items(Dsts) /\ alive.e = d /\ alive.tmp = item.tmp
  BY <1>5 DEF Items
<1>8. le \in Nat /\ oi \in Nat
  BY <1>5 DEF Items
<1> HIDE DEF alive, le, oi
<1>9. c \in Blocks(Dsts) /\ SameShape(b, c)
  <2>1. ItemAt(b, loc).e = d
    BY <1>5 DEF item
  <2> QED
    BY <1>1, <1>4, <1>7, <2>1, PutShape
<1>10. \A y \in Dsts : Marked(b, y) => Marked(c, y)
  <2> TAKE y \in Dsts
  <2> HAVE Marked(b, y)
  <2>1. y # d \/ alive.tmp
    BY <1>6, <1>7
  <2> QED
    BY <1>1, <1>4, <1>7, <2>1, PutMarks
<1> HIDE DEF c
<1>11. Stored(c, Dsts, TMPNUM)
  BY <1>1, <1>9, ShapeStored
<1>12. /\ Valid(c, loc, d)
       /\ \A f \in Triples(Dsts) : /\ OffsetGood(b, f) => OffsetGood(c, f)
                                   /\ EdgeKept(b, f) => EdgeKept(c, f)
  <2>1. \A f \in Triples(Dsts) : /\ OffsetGood(b, f) => OffsetGood(c, f)
                                 /\ EdgeKept(b, f) => EdgeKept(c, f)
    BY <1>1, <1>9, ShapeEntry
  <2>2. <<d, loc, 0>> \in Triples(Dsts)
    BY <1>4 DEF Triples
  <2>3. Valid(c, loc, d)
    BY <1>1, <1>4, <1>9, <2>2, ShapeEntry
  <2> QED
    BY <2>1, <2>3
<1>13. Wrote(c, loc, d, e, le)
  BY <1>2, <1>3, <1>4, <1>7, <1>8, <1>11, <1>12, AddVersionWrites
<1>14. Ready(c, loc, d, e, le)
  <2>1. ASSUME NEW s \in Slots, NEW f \in Filed(tmp_vb, s)
        PROVE  /\ OffsetGood(c, f)
               /\ Marked(eb, f[1]) /\ EdgeKept(eb, f) =>
                    EdgeKept(c, f) /\ (Marked(c, f[1]) \/ (f[1] = d /\ le = 0))
    BY <1>1, <1>10, <1>12, <2>1
  <2> QED
    BY <1>4, <1>11, <1>12, <2>1 DEF Ready
<1> QED
  BY <1>13, <1>14

LEMMA DeleteKnownWrites ==
  ASSUME StoreInv, NEW d \in Dsts, NEW e \in Epochs, NEW b, b = MergedIfFull(eb), d \in b.M,
         NEW loc, loc = get_edge_index(b, d), NEW item, item = ItemAt(b, loc),
         AddVersion(b, loc, [item EXCEPT !.del = TRUE], d, 0, e, item.block, item.index)
  PROVE  \E c, l, le : Ready(c, l, d, e, le) /\ Wrote(c, l, d, e, le)
<1>1. /\ Stored(b, Dsts, TMPNUM) /\ b \in Blocks(Dsts)
      /\ \A s \in Slots : \A f \in Filed(tmp_vb, s) :
           /\ OffsetGood(b, f)
           /\ Marked(eb, f[1]) /\ EdgeKept(eb, f) => EdgeKept(b, f) /\ Marked(b, f[1])
  BY MergedReady
<1>2. VertexType
  BY DEF StoreInv
<1>3. loc \in Places /\ Valid(b, loc, d)
  BY <1>1, SearchFinds
<1>4. item \in Items(Dsts) /\ item.e = d
  BY <1>1, <1>3, ValidItem
<1> DEFINE dead == [item EXCEPT !.del = TRUE]
           le == item.block
           oi == item.index
<1>5. dead \in Items(Dsts) /\ dead.e = d /\ le \in Nat /\ oi \in Nat
  BY <1>4 DEF Items
<1>6. AddVersion(b, loc, dead, d, 0, e, le, oi)
  OBVIOUS
<1> HIDE DEF dead, le, oi
<1>7. Wrote(b, loc, d, e, le)
  BY <1>1, <1>2, <1>3, <1>5, <1>6, AddVersionWrites
<1>8. Ready(b, loc, d, e, le)
  <2>1. ASSUME NEW s \in Slots, NEW f \in Filed(tmp_vb, s)
        PROVE  /\ OffsetGood(b, f)
               /\ Marked(eb, f[1]) /\ EdgeKept(eb, f) =>
                    EdgeKept(b, f) /\ (Marked(b, f[1]) \/ (f[1] = d /\ le = 0))
    BY <1>1, <2>1
  <2> QED
    BY <1>1, <1>3, <2>1 DEF Ready
<1> QED
  BY <1>7, <1>8

\* What the two write handlers do.
LEMMA WriteCases ==
  ASSUME StoreInv, NEW d \in Dsts, NEW e \in Epochs,
         insert_edge_block(d, e) \/ delete_edge_block(d, e)
  PROVE  /\ Writable(e)
         /\ UNCHANGED <<vbVars, epochVars, stage, mask_reg, reader>>
         /\ \/ UNCHANGED <<eb, tmp_vb, active_tvb_mask_, intra_counter_, log>>
            \/ /\ eb' = MergedIfFull(eb)
               /\ UNCHANGED <<tmp_vb, active_tvb_mask_, intra_counter_, log>>
            \/ \E b, loc, le : Ready(b, loc, d, e, le) /\ Wrote(b, loc, d, e, le)
<1> DEFINE b == MergedIfFull(eb)
           Outcome == \/ UNCHANGED <<eb, tmp_vb, active_tvb_mask_, intra_counter_, log>>
                      \/ /\ eb' = b
                         /\ UNCHANGED <<tmp_vb, active_tvb_mask_, intra_counter_, log>>
                      \/ \E c, loc, le : Ready(c, loc, d, e, le) /\ Wrote(c, loc, d, e, le)
<1>1. WriteWeight \in Nat
  BY WeightsAreNat DEF StoreInv
<1>2. CASE insert_edge_block(d, e)
  <2> DEFINE w == WriteWeight
  <2>1. /\ Writable(e)
        /\ \/ d \notin b.M /\ InsertNew(b, d, w, e)
           \/ d \in b.M /\ FindsEdge(b, d) /\ InsertKnown(b, d, w, e)
           \/ d \in b.M /\ MissesEdge(b, d)
        /\ UNCHANGED <<vbVars, epochVars, stage, mask_reg, reader>>
    BY <1>2 DEF insert_edge_block
  <2> HIDE DEF w
  <2>2. w \in Nat
    BY <1>1 DEF w
  <2>3. CASE d \notin b.M /\ InsertNew(b, d, w, e)
    BY <2>1, <2>2, <2>3, InsertNewWrites
  <2>4. CASE d \in b.M /\ InsertKnown(b, d, w, e)
    BY <2>1, <2>2, <2>4, InsertKnownWrites
  <2>5. CASE MissesEdge(b, d)
    BY <2>1, <2>5 DEF MissesEdge
  <2> QED
    BY <2>1, <2>3, <2>4, <2>5
<1>3. CASE delete_edge_block(d, e)
  <2> DEFINE loc == get_edge_index(b, d)
             item == ItemAt(b, loc)
  <2>1. /\ Writable(e)
        /\ \/ /\ d \notin b.M
              /\ eb' = b
              /\ UNCHANGED <<tmp_vb, active_tvb_mask_, intra_counter_, log, ub>>
           \/ /\ d \in b.M /\ FindsEdge(b, d)
              /\ AddVersion(b, loc, [item EXCEPT !.del = TRUE], d, 0, e, item.block, item.index)
           \/ d \in b.M /\ MissesEdge(b, d)
        /\ UNCHANGED <<vbVars, epochVars, stage, mask_reg, reader>>
    BY <1>3 DEF delete_edge_block
  <2>2. CASE /\ eb' = b
             /\ UNCHANGED <<tmp_vb, active_tvb_mask_, intra_counter_, log, ub>>
    BY <2>1, <2>2
  <2>3. CASE /\ d \in b.M
             /\ AddVersion(b, loc, [item EXCEPT !.del = TRUE], d, 0, e, item.block, item.index)
    <3>1. \E c, l, le : Ready(c, l, d, e, le) /\ Wrote(c, l, d, e, le)
      BY <2>3, DeleteKnownWrites
    <3> QED
      BY <2>1, <3>1
  <2>4. CASE MissesEdge(b, d)
    BY <2>1, <2>4 DEF MissesEdge
  <2> QED
    BY <2>1, <2>2, <2>3, <2>4
<1> QED
  BY <1>2, <1>3

-----------------------------------------------------------------------------
(* The stored edges.                                                       *)

LEMMA StoreInit ==
  ASSUME Init
  PROVE  StoreInv
<1>0. /\ use \in Uses
      /\ eb = [start |-> SortByDst({Item(d, FirstWeight) : d \in Built}),
               tmp_item |-> << >>, M |-> Built, num |-> Cardinality(Built),
               capacity |-> Cardinality(Built), merge_times |-> 0]
      /\ log = {[at |-> 0, ts |-> <<0, 0>>, e |-> d, del |-> FALSE, w |-> FirstWeight] : d \in Built}
      /\ tmp_vb = [s \in Slots |-> [timestamp_ |-> 0, entries |-> << >>]]
      /\ active_tvb_mask_ = {} /\ mask_reg = {} /\ stage = "idle"
      /\ intra_counter_ = [e \in Epochs |-> 0]
      /\ cur_ = 1 /\ read_epoch_ = 0 /\ g_oldest_epoch = 0
  BY DEF Init
<1>1. /\ IsFiniteSet(Built) /\ Built \subseteq Dsts /\ Dsts \subseteq Nat
      /\ FirstWeight \in Nat /\ TMPNUM \in Nat
  <2>1. IsFiniteSet(Dsts) /\ Built \subseteq Dsts
    BY <1>0, VertexAssumption DEF Dsts, Built
  <2>2. IsFiniteSet(Built)
    BY <2>1, FS_Subset
  <2> QED
    BY <1>0, <2>1, <2>2, VertexAssumption DEF Dsts, Built, FirstWeight, TMPNUM
<1> DEFINE S == {Item(d, FirstWeight) : d \in Built}
           q == SortByDst(S)
<1>2. \A d \in Built : Item(d, FirstWeight) \in Items(Dsts) /\ Item(d, FirstWeight).e = d
  BY <1>1 DEF Item, Items
<1>3. S \subseteq Items(Dsts) /\ {x.e : x \in S} = Built /\ \A x, y \in S : x.e = y.e => x = y
  BY <1>2
<1>4. IsFiniteSet(S) /\ Cardinality(S) = Cardinality(Built) /\ Cardinality(Built) \in Nat
  <2> DEFINE g == [d \in Built |-> Item(d, FirstWeight)]
  <2>1. g \in Bijection(Built, S)
    <3>1. g \in [Built -> S] /\ \A d \in Built : g[d].e = d
      BY <1>2
    <3>2. \A x \in S : \E d \in Built : g[d] = x
      OBVIOUS
    <3> HIDE DEF g, S
    <3> QED
      BY <3>1, <3>2 DEF Bijection, Injection, Surjection, IsInjective
  <2> HIDE DEF S, g
  <2>2. ExistsBijection(Built, S)
    BY <2>1 DEF ExistsBijection
  <2> QED
    BY <1>1, <2>2, FS_Bijection, FS_CardinalityType
<1>5. eb = [start |-> q, tmp_item |-> << >>, M |-> Built, num |-> Cardinality(Built),
            capacity |-> Cardinality(Built), merge_times |-> 0]
  BY <1>0
<1> HIDE DEF S
<1>6. /\ q \in Seq(S) /\ Len(q) = Cardinality(S) /\ Range(q) = S
      /\ \A i, j \in DOMAIN q : q[i] = q[j] => i = j
  <2>1. \A x \in S : x.e \in Nat
    BY <1>1, <1>3 DEF Items
  <2> QED
    BY <1>4, <2>1, SortFacts
<1> HIDE DEF q
<1>7. q \in Seq(Items(Dsts)) /\ Len(q) \in Nat /\ \A i \in DOMAIN q : q[i] \in S
  BY <1>3, <1>6
<1>8. eb \in Blocks(Dsts)
  <2>1. << >> \in Seq(Items(Dsts))
    OBVIOUS
  <2> QED
    BY <1>1, <1>4, <1>5, <1>7, <2>1 DEF Blocks
<1>9. Stored(eb, Dsts, TMPNUM)
  <2>1. /\ eb.start = q /\ eb.tmp_item = << >> /\ eb.M = Built /\ eb.num = Len(q)
        /\ eb.capacity = Len(q) /\ DOMAIN eb.tmp_item = {} /\ Len(eb.tmp_item) = 0
    BY <1>4, <1>5, <1>6
  <2>2. \A i, j \in DOMAIN q : q[i].e = q[j].e => i = j
    BY <1>3, <1>6, <1>7
  <2>3. {q[i].e : i \in DOMAIN q} = Built
    BY <1>3, <1>6 DEF Range
  <2>4. Len(q) = Len(q) + 0 /\ Len(q) <= Len(q) /\ 0 <= TMPNUM
    BY <1>1, <1>7
  <2> QED
    BY <1>8, <2>1, <2>2, <2>3, <2>4 DEF Stored
<1>10. tmp_vb \in [Slots -> Buffers(Dsts)] /\ \A s \in Slots : Filed(tmp_vb, s) = {}
  <2>1. << >> \in Seq(Entries(Dsts)) /\ Range(<< >>) = {}
    BY DEF Range
  <2> QED
    BY <1>0, <2>1 DEF Buffers, Filed
<1>11. IsFiniteSet(log)
  <2> DEFINE Entry(d) == [at |-> 0, ts |-> <<0, 0>>, e |-> d, del |-> FALSE, w |-> FirstWeight]
             g == [d \in Built |-> Entry(d)]
  <2>1. log = {Entry(d) : d \in Built}
    BY <1>0
  <2> HIDE DEF Entry
  <2>2. g \in Surjection(Built, log)
    BY <2>1 DEF Surjection
  <2> HIDE DEF g
  <2> QED
    BY <1>1, <2>2, FS_Surjection
<1>12. intra_counter_ \in [Epochs -> Nat] /\ cur_ \in Epochs /\ read_epoch_ \in 0 .. cur_ - 1
       /\ g_oldest_epoch \in 0 .. read_epoch_
  BY <1>0, VertexAssumption DEF Epochs
<1> QED
  BY <1>0, <1>8, <1>9, <1>10, <1>11, <1>12 DEF StoreInv, VertexType, Stages

\* The parts of StoreInv that a step sees.
LEMMA StoreFacts ==
  ASSUME StoreInv
  PROVE  /\ use \in Uses /\ eb \in Blocks(Dsts) /\ Stored(eb, Dsts, TMPNUM)
         /\ tmp_vb \in [Slots -> Buffers(Dsts)]
         /\ active_tvb_mask_ \in SUBSET Slots /\ mask_reg \in SUBSET Slots
         /\ intra_counter_ \in [Epochs -> Nat]
         /\ cur_ \in Epochs /\ read_epoch_ \in 0 .. cur_ - 1 /\ g_oldest_epoch \in 0 .. read_epoch_
         /\ cur_ \in Nat /\ read_epoch_ \in Nat /\ g_oldest_epoch \in Nat
         /\ stage \in Stages /\ (stage # "idle" => read_epoch_ + 1 < cur_)
         /\ IsFiniteSet(log)
         /\ \A s \in Slots : \A f \in Filed(tmp_vb, s) : OffsetGood(eb, f)
         /\ Slot(read_epoch_ + 1) \in Slots
<1>1. cur_ \in Nat /\ read_epoch_ \in Nat /\ g_oldest_epoch \in Nat
  BY DEF StoreInv, VertexType, Epochs
<1>2. Slot(read_epoch_ + 1) \in Slots
  BY <1>1, SlotFacts
<1> QED
  BY <1>1, <1>2 DEF StoreInv, VertexType

\* A write keeps the stored edges consistent.
LEMMA StoreWrite ==
  ASSUME StoreInv, UNCHANGED use, NEW d \in Dsts, NEW e \in Epochs,
         insert_edge_block(d, e) \/ delete_edge_block(d, e)
  PROVE  StoreInv'
<1>1. Dsts' = Dsts /\ TMPNUM' = TMPNUM
  BY DEF Dsts, TMPNUM
<1>2. /\ UNCHANGED <<vbVars, epochVars, stage, mask_reg, reader>>
      /\ \/ UNCHANGED <<eb, tmp_vb, active_tvb_mask_, intra_counter_, log>>
         \/ /\ eb' = MergedIfFull(eb)
            /\ UNCHANGED <<tmp_vb, active_tvb_mask_, intra_counter_, log>>
         \/ \E b, loc, le : Ready(b, loc, d, e, le) /\ Wrote(b, loc, d, e, le)
  BY WriteCases
<1>3. /\ eb' \in Blocks(Dsts) /\ Stored(eb', Dsts, TMPNUM)
      /\ tmp_vb' \in [Slots -> Buffers(Dsts)] /\ active_tvb_mask_' \in SUBSET Slots
      /\ intra_counter_' \in [Epochs -> Nat] /\ IsFiniteSet(log')
      /\ \A s \in Slots : \A f \in Filed(tmp_vb', s) : OffsetGood(eb', f)
  <2>1. CASE UNCHANGED <<eb, tmp_vb, active_tvb_mask_, intra_counter_, log>>
    BY <2>1, StoreFacts
  <2>2. CASE /\ eb' = MergedIfFull(eb)
             /\ UNCHANGED <<tmp_vb, active_tvb_mask_, intra_counter_, log>>
    BY <2>2, StoreFacts, MergedReady
  <2>3. CASE \E b, loc, le : Ready(b, loc, d, e, le) /\ Wrote(b, loc, d, e, le)
    <3>1. PICK b, loc, le : Ready(b, loc, d, e, le) /\ Wrote(b, loc, d, e, le)
      BY <2>3
    <3>2. /\ Stored(b, Dsts, TMPNUM) /\ loc \in Places /\ Valid(b, loc, d)
          /\ \A s \in Slots : \A f \in Filed(tmp_vb, s) : OffsetGood(b, f)
      BY <3>1 DEF Ready
    <3>3. /\ Stored(eb', Dsts, TMPNUM)
          /\ \A s \in Slots : \A f \in Filed(tmp_vb', s) : OffsetGood(eb', f)
      BY <3>1, <3>2, StoreFacts, WroteEntries
    <3>4. active_tvb_mask_' \in SUBSET Slots
      <4>1. Slot(e) \in Slots
        BY SlotFacts DEF Epochs
      <4> QED
        BY <3>1, <4>1, StoreFacts DEF Wrote, MarkTvbActive
    <3> QED
      BY <3>1, <3>3, <3>4 DEF Wrote
  <2> QED
    BY <1>2, <2>1, <2>2, <2>3
<1> QED
  BY <1>1, <1>2, <1>3, StoreFacts DEF StoreInv, VertexType, epochVars

\* So does Transform.
LEMMA StoreTransform ==
  ASSUME StoreInv, UNCHANGED use, Transform
  PROVE  /\ StoreInv' /\ SameShape(eb, eb')
<1> DEFINE epoch == read_epoch_ + 1
           entries == tmp_vb[Slot(epoch)].entries
<1>1. Dsts' = Dsts /\ TMPNUM' = TMPNUM
  BY DEF Dsts, TMPNUM
<1>2. PICK p \in LoopOrders(entries) : eb' = Applied(eb, entries, p, epoch)[Len(p)].eb
  BY DEF Transform
<1>3. /\ stage' = "clear" /\ epoch < cur_
      /\ UNCHANGED <<tmp_vb, active_tvb_mask_, intra_counter_, epochVars, mask_reg, log>>
  BY DEF Transform
<1>4. /\ entries \in Seq(Entries(Dsts)) /\ epoch \in Nat
      /\ \A t \in Range(entries) : OffsetGood(eb, <<t.e, t.offset, t.merge_times>>)
  <2>1. Slot(epoch) \in Slots /\ epoch \in Nat
    BY StoreFacts
  <2>2. \A t \in Range(entries) : <<t.e, t.offset, t.merge_times>> \in Filed(tmp_vb, Slot(epoch))
    BY DEF Filed
  <2> QED
    BY <2>1, <2>2, StoreFacts, BufferFacts
<1> HIDE DEF entries, epoch
<1>5. eb' \in Blocks(Dsts) /\ SameShape(eb, eb')
  BY <1>2, <1>4, StoreFacts, AppliedShape
<1>6. Stored(eb', Dsts, TMPNUM)
  BY <1>5, StoreFacts, ShapeStored
<1>7. \A s \in Slots : \A f \in Filed(tmp_vb', s) : OffsetGood(eb', f)
  BY <1>3, <1>5, StoreFacts, BufferFacts, ShapeEntry
<1> QED
  BY <1>1, <1>3, <1>5, <1>6, <1>7, StoreFacts DEF StoreInv, VertexType, Stages, epochVars, epoch

\* And every other step.
LEMMA StoreClear ==
  ASSUME StoreInv, UNCHANGED use, ClearTvb
  PROVE  /\ StoreInv'
         /\ \A s \in Slots : /\ tmp_vb'[s].timestamp_ = tmp_vb[s].timestamp_
                             /\ Filed(tmp_vb', s) \subseteq Filed(tmp_vb, s)
                             /\ s # Slot(read_epoch_ + 1) => tmp_vb'[s] = tmp_vb[s]
         /\ tmp_vb'[Slot(read_epoch_ + 1)].entries = << >>
<1> DEFINE z == Slot(read_epoch_ + 1)
           r == [tmp_vb[z] EXCEPT !.entries = << >>]
<1>1. Dsts' = Dsts /\ TMPNUM' = TMPNUM
  BY DEF Dsts, TMPNUM
<1>2. /\ tmp_vb' = [tmp_vb EXCEPT ![z] = r]
      /\ stage = "clear" /\ stage' = "load"
      /\ UNCHANGED <<eb, active_tvb_mask_, intra_counter_, epochVars, mask_reg, log>>
  BY DEF ClearTvb
<1>3. z \in Slots /\ tmp_vb \in [Slots -> Buffers(Dsts)]
  BY StoreFacts
<1> HIDE DEF z
<1>4. r \in Buffers(Dsts) /\ r.entries = << >> /\ r.timestamp_ = tmp_vb[z].timestamp_
  <2>1. tmp_vb[z] \in Buffers(Dsts) /\ << >> \in Seq(Entries(Dsts))
    BY <1>3
  <2> QED
    BY <2>1 DEF Buffers
<1> HIDE DEF r
<1>5. tmp_vb'[z] = r /\ \A s \in Slots : s # z => tmp_vb'[s] = tmp_vb[s]
  BY <1>2, <1>3
<1>6. tmp_vb' \in [Slots -> Buffers(Dsts)]
  BY <1>2, <1>3, <1>4
<1>7. \A s \in Slots : Filed(tmp_vb', s) \subseteq Filed(tmp_vb, s)
  <2>1. Range(<< >>) = {}
    BY DEF Range
  <2>2. Filed(tmp_vb', z) = {}
    BY <1>4, <1>5, <2>1 DEF Filed
  <2>3. \A s \in Slots : s # z => Filed(tmp_vb', s) = Filed(tmp_vb, s)
    BY <1>5 DEF Filed
  <2> QED
    BY <2>2, <2>3
<1>8. StoreInv'
  BY <1>1, <1>2, <1>6, <1>7, StoreFacts DEF StoreInv, VertexType, Stages, epochVars
<1> QED
  BY <1>4, <1>5, <1>7, <1>8 DEF z

LEMMA StoreOther ==
  ASSUME StoreInv, UNCHANGED use,
         LoadMask \/ MarkTvbInactive \/ OpenEpoch \/ Publish \/ GC
           \/ registerROTransaction \/ deregisterROTransaction
  PROVE  StoreInv' /\ UNCHANGED <<eb, tmp_vb>>
<1>1. Dsts' = Dsts /\ TMPNUM' = TMPNUM
  BY DEF Dsts, TMPNUM
<1>2. UNCHANGED <<eb, tmp_vb, log>>
  BY DEF LoadMask, MarkTvbInactive, OpenEpoch, Publish, GC, registerROTransaction,
         deregisterROTransaction
<1>5. intra_counter_' \in [Epochs -> Nat]
  <2>1. CASE registerROTransaction
    <3> DEFINE e == read_epoch_ + 1
               n == Cardinality(UNION {{<<f, i>> : i \in Elsewhere(f)} : f \in Epochs})
    <3>1. PICK i \in Drawn(e) : intra_counter_' = [intra_counter_ EXCEPT ![e] = i]
      BY <2>1 DEF registerROTransaction
    <3>2. Drawn(e) = intra_counter_[e] .. intra_counter_[e] + MaxElsewhere - n
      BY DEF Drawn
    <3>3. e \in Epochs
      <4>1. read_epoch_ \in 0 .. cur_ - 1 /\ cur_ \in 1 .. MaxEpoch /\ MaxEpoch \in Nat
        BY StoreFacts, VertexAssumption DEF Epochs
      <4> HIDE DEF e
      <4>2. e = read_epoch_ + 1
        BY DEF e
      <4> QED
        BY <4>1, <4>2 DEF Epochs
    <3> HIDE DEF n, e
    <3>4. intra_counter_[e] \in Nat
      BY <3>3, StoreFacts
    <3>5. i \in Nat
      BY <3>1, <3>2, <3>4
    <3> QED
      BY <3>1, <3>5, StoreFacts
  <2>2. CASE ~registerROTransaction
    <3>1. UNCHANGED intra_counter_
      BY <2>2 DEF LoadMask, MarkTvbInactive, OpenEpoch, Publish, GC, deregisterROTransaction
    <3> QED
      BY <3>1, StoreFacts
  <2> QED
    BY <2>1, <2>2
<1>3. /\ active_tvb_mask_' \in SUBSET Slots /\ mask_reg' \in SUBSET Slots
      /\ stage' \in Stages
  BY StoreFacts DEF LoadMask, MarkTvbInactive, OpenEpoch, Publish, GC, registerROTransaction,
                    deregisterROTransaction, Stages
<1>4. /\ cur_' \in Epochs /\ read_epoch_' \in 0 .. cur_' - 1 /\ g_oldest_epoch' \in 0 .. read_epoch_'
      /\ (stage' # "idle" => read_epoch_' + 1 < cur_')
  <2>1. CASE LoadMask \/ MarkTvbInactive \/ registerROTransaction \/ deregisterROTransaction
    BY <2>1, StoreFacts DEF LoadMask, MarkTvbInactive, registerROTransaction,
                            deregisterROTransaction, epochVars
  <2>2. CASE OpenEpoch
    <3>1. cur_' = cur_ + 1 /\ cur_ < MaxEpoch /\ UNCHANGED <<read_epoch_, g_oldest_epoch, stage>>
      BY <2>2 DEF OpenEpoch
    <3>2. cur_' \in Epochs
      BY <3>1, StoreFacts, VertexAssumption DEF Epochs
    <3> QED
      BY <3>1, <3>2, StoreFacts
  <2>3. CASE Publish
    <3>1. /\ read_epoch_' = read_epoch_ + 1 /\ read_epoch_ + 1 < cur_
          /\ stage' = "idle" /\ UNCHANGED <<cur_, g_oldest_epoch>>
      BY <2>3, StoreFacts DEF Publish
    <3> QED
      BY <3>1, StoreFacts
  <2>4. CASE GC
    <3>1. /\ UNCHANGED <<cur_, read_epoch_, stage>>
          /\ g_oldest_epoch' \in g_oldest_epoch + 1 .. read_epoch_
      BY <2>4 DEF GC, Unpinned
    <3> QED
      BY <3>1, StoreFacts
  <2> QED
    BY <2>1, <2>2, <2>3, <2>4
<1> QED
  BY <1>1, <1>2, <1>3, <1>4, <1>5, StoreFacts DEF StoreInv, VertexType

LEMMA StoreNext ==
  ASSUME StoreInv, [Next]_vars
  PROVE  StoreInv'
<1>1. CASE UNCHANGED vars
  <2>1. /\ UNCHANGED <<use, eb, tmp_vb, active_tvb_mask_, mask_reg, intra_counter_, cur_,
                       read_epoch_, g_oldest_epoch, stage, log>>
    BY <1>1 DEF vars, epochVars
  <2>2. Dsts' = Dsts /\ TMPNUM' = TMPNUM
    BY <2>1 DEF Dsts, TMPNUM
  <2> QED
    BY <2>1, <2>2, StoreFacts DEF StoreInv, VertexType
<1>2. CASE Next
  BY <1>2, StoreWrite, StoreTransform, StoreClear, StoreOther DEF Next
<1> QED
  BY <1>1, <1>2

\* The stored edges, M, num and the capacity agree.
LEMMA StoredConsistent ==
  ASSUME StoreInv
  PROVE  StorageConsistent
<1> DEFINE m == Len(eb.start)
           n == Len(eb.tmp_item)
           stored == [i \in 1 .. m + n |-> (eb.start \o eb.tmp_item)[i].e]
<1>1. eb \in Blocks(Dsts) /\ Stored(eb, Dsts, TMPNUM)
  BY StoreFacts
<1>2. /\ m \in Nat /\ n \in Nat /\ DOMAIN eb.start = 1 .. m /\ DOMAIN eb.tmp_item = 1 .. n
      /\ eb.start \in Seq(Items(Dsts)) /\ eb.tmp_item \in Seq(Items(Dsts))
  BY <1>1, BlockFacts
<1>3. \A i \in 1 .. m + n : (eb.start \o eb.tmp_item)[i] =
                              IF i <= m THEN eb.start[i] ELSE eb.tmp_item[i - m]
  BY <1>2
<1> HIDE DEF m, n
<1>4. /\ DOMAIN stored = 1 .. m + n
      /\ \A i \in 1 .. m : stored[i] = eb.start[i].e
      /\ \A i \in 1 .. n : stored[m + i] = eb.tmp_item[i].e
  <2>1. \A i \in 1 .. m + n : stored[i] = (eb.start \o eb.tmp_item)[i].e
    OBVIOUS
  <2>2. \A i \in 1 .. m : i \in 1 .. m + n /\ i <= m
    BY <1>2
  <2>3. \A i \in 1 .. n : m + i \in 1 .. m + n /\ ~(m + i <= m) /\ (m + i) - m = i
    BY <1>2
  <2> HIDE DEF stored
  <2>4. DOMAIN stored = 1 .. m + n
    BY DEF stored
  <2>5. ASSUME NEW i \in 1 .. m
        PROVE  stored[i] = eb.start[i].e
    <3>1. (eb.start \o eb.tmp_item)[i] = eb.start[i]
      BY <1>3, <2>2
    <3> QED
      BY <2>1, <2>2, <3>1
  <2>6. ASSUME NEW i \in 1 .. n
        PROVE  stored[m + i] = eb.tmp_item[i].e
    <3>1. (eb.start \o eb.tmp_item)[m + i] = eb.tmp_item[i]
      BY <1>3, <2>3
    <3> QED
      BY <2>1, <2>3, <3>1
  <2> QED
    BY <2>4, <2>5, <2>6
<1>5. \A i \in 1 .. m + n : i \in 1 .. m \/ \E j \in 1 .. n : i = m + j
  <2> TAKE i \in 1 .. m + n
  <2>1. CASE i <= m
    BY <1>2, <2>1
  <2>2. CASE ~(i <= m)
    <3>1. i - m \in 1 .. n /\ i = m + (i - m)
      BY <1>2, <2>2
    <3> QED
      BY <3>1
  <2> QED
    BY <2>1, <2>2
<1>6. \A i \in 1 .. n : m + i \in 1 .. m + n
  BY <1>2
<1> HIDE DEF stored
<1>7. \A i, j \in DOMAIN stored : stored[i] = stored[j] => i = j
  <2> SUFFICES ASSUME NEW i \in 1 .. m + n, NEW j \in 1 .. m + n, stored[i] = stored[j]
               PROVE  i = j
    BY <1>4
  <2>1. /\ \A x, y \in 1 .. m : eb.start[x].e = eb.start[y].e => x = y
        /\ \A x, y \in 1 .. n : eb.tmp_item[x].e = eb.tmp_item[y].e => x = y
        /\ \A x \in 1 .. m, y \in 1 .. n : eb.start[x].e # eb.tmp_item[y].e
    BY <1>1, <1>2 DEF Stored
  <2>2. CASE i \in 1 .. m /\ j \in 1 .. m
    BY <1>4, <2>1, <2>2
  <2>3. CASE i \in 1 .. m /\ j \notin 1 .. m
    <3>1. PICK y \in 1 .. n : j = m + y
      BY <1>5, <2>3
    <3> QED
      BY <1>4, <2>1, <2>3, <3>1
  <2>4. CASE i \notin 1 .. m /\ j \in 1 .. m
    <3>1. PICK x \in 1 .. n : i = m + x
      BY <1>5, <2>4
    <3> QED
      BY <1>4, <2>1, <2>4, <3>1
  <2>5. CASE i \notin 1 .. m /\ j \notin 1 .. m
    <3>1. PICK x \in 1 .. n : i = m + x
      BY <1>5, <2>5
    <3>2. PICK y \in 1 .. n : j = m + y
      BY <1>5, <2>5
    <3> QED
      BY <1>4, <2>1, <3>1, <3>2
  <2> QED
    BY <2>2, <2>3, <2>4, <2>5
<1>8. Range(stored) = eb.M
  <2>1. ASSUME NEW x \in Range(stored) PROVE x \in eb.M
    <3>1. PICK i \in 1 .. m + n : stored[i] = x
      BY <1>4, <2>1 DEF Range
    <3>2. /\ \A k \in 1 .. m : eb.start[k].e \in eb.M
          /\ \A k \in 1 .. n : eb.tmp_item[k].e \in eb.M
      BY <1>1, <1>2 DEF Stored
    <3>3. CASE i \in 1 .. m
      BY <1>4, <3>1, <3>2, <3>3
    <3>4. CASE i \notin 1 .. m
      <4>1. PICK k \in 1 .. n : i = m + k
        BY <1>5, <3>4
      <4> QED
        BY <1>4, <3>1, <3>2, <4>1
    <3> QED
      BY <3>3, <3>4
  <2>2. ASSUME NEW x \in eb.M PROVE x \in Range(stored)
    <3>1. \/ \E i \in 1 .. m : eb.start[i].e = x
          \/ \E i \in 1 .. n : eb.tmp_item[i].e = x
      BY <1>1, <1>2, <2>2 DEF Stored
    <3>2. \A i \in 1 .. m : i \in 1 .. m + n
      BY <1>2
    <3> QED
      BY <1>4, <1>6, <3>1, <3>2 DEF Range
  <2> QED
    BY <2>1, <2>2
<1>9. eb.num = Len(stored)
  <2>1. Len(stored) = m + n
    BY <1>2, <1>4 DEF stored
  <2> QED
    BY <1>1, <2>1 DEF Stored, m, n
<1>10. Len(eb.start) <= eb.capacity /\ Len(eb.tmp_item) <= TMPNUM
  BY <1>1 DEF Stored
<1> QED
  BY <1>7, <1>8, <1>9, <1>10 DEF StorageConsistent, stored, m, n

\* The adjacency is well formed, and every recorded offset that no merge has followed is
\* that of its edge: the VertexType invariant and the storage invariant it needs, for every
\* number of destinations, size of the insertion buffer and schedule of the epochs.
THEOREM VertexStore == Spec => []StoreInv
<1>1. Init => StoreInv
  BY StoreInit
<1>2. StoreInv /\ [Next]_vars => StoreInv'
  BY StoreNext
<1> QED
  BY <1>1, <1>2, PTL DEF Spec

\* Inserts, merges and physical drops agree, in both builds of the epoch pipeline.
THEOREM VertexStorage == Spec => []StorageConsistent
<1>1. StoreInv => StorageConsistent
  BY StoredConsistent
<1> QED
  BY <1>1, VertexStore, PTL

-----------------------------------------------------------------------------
(* The write buffers of an unpipelined vertex: an epoch is written in only *)
(* after its predecessor is published, so only the epoch after the         *)
(* published one has a buffer with entries.                                *)

BufferInv ==
  /\ \A s \in Slots : tmp_vb[s].timestamp_ <= read_epoch_ + 1
  /\ \A s \in Slots : tmp_vb[s].entries # << >> =>
       /\ s = Slot(read_epoch_ + 1) /\ tmp_vb[s].timestamp_ = read_epoch_ + 1
       /\ stage \in {"idle", "clear"}
  /\ \A s \in Slots : \A f \in Filed(tmp_vb, s) :
       EdgeKept(eb, f) /\ (stage = "idle" => Marked(eb, f[1]))

LEMMA FiledEntries ==
  ASSUME NEW tvbs, NEW s, NEW f \in Filed(tvbs, s)
  PROVE  tvbs[s].entries # << >>
<1>1. Range(<< >>) = {}
  BY DEF Range
<1> QED
  BY <1>1 DEF Filed

LEMMA BufferInit ==
  ASSUME Init
  PROVE  BufferInv
<1>1. /\ tmp_vb = [s \in Slots |-> [timestamp_ |-> 0, entries |-> << >>]] /\ read_epoch_ = 0
  BY DEF Init
<1>2. \A s \in Slots : tmp_vb[s].timestamp_ = 0 /\ tmp_vb[s].entries = << >>
  BY <1>1
<1>3. Slot(read_epoch_ + 1) \in Slots
  BY <1>1, SlotFacts
<1> QED
  BY <1>1, <1>2, <1>3, FiledEntries DEF BufferInv

LEMMA BufferWrite ==
  ASSUME ~Pipelined, StoreInv, BufferInv, UNCHANGED use, NEW d \in Dsts, NEW e \in Epochs,
         insert_edge_block(d, e) \/ delete_edge_block(d, e)
  PROVE  BufferInv'
<1>1. /\ Writable(e)
      /\ UNCHANGED <<vbVars, epochVars, stage, mask_reg, reader>>
      /\ \/ UNCHANGED <<eb, tmp_vb, active_tvb_mask_, intra_counter_, log>>
         \/ /\ eb' = MergedIfFull(eb)
            /\ UNCHANGED <<tmp_vb, active_tvb_mask_, intra_counter_, log>>
         \/ \E b, loc, le : Ready(b, loc, d, e, le) /\ Wrote(b, loc, d, e, le)
  BY WriteCases
<1>2. e = read_epoch_ + 1 /\ stage = "idle" /\ e \in Nat /\ Slot(e) \in Slots
  BY <1>1, SlotFacts DEF Writable, Epochs
<1>3. UNCHANGED <<read_epoch_, stage>>
  BY <1>1 DEF epochVars
<1>4. /\ \A s \in Slots : tmp_vb[s].timestamp_ <= e
      /\ \A s \in Slots : tmp_vb[s].entries # << >> => s = Slot(e) /\ tmp_vb[s].timestamp_ = e
      /\ \A s \in Slots : \A f \in Filed(tmp_vb, s) : EdgeKept(eb, f) /\ Marked(eb, f[1])
  BY <1>2 DEF BufferInv
<1>5. /\ \A s \in Slots : tmp_vb'[s].timestamp_ <= e
      /\ \A s \in Slots : tmp_vb'[s].entries # << >> => s = Slot(e) /\ tmp_vb'[s].timestamp_ = e
      /\ \A s \in Slots : \A f \in Filed(tmp_vb', s) : EdgeKept(eb', f) /\ Marked(eb', f[1])
  <2>1. CASE UNCHANGED <<eb, tmp_vb, active_tvb_mask_, intra_counter_, log>>
    BY <1>4, <2>1
  <2>2. CASE /\ eb' = MergedIfFull(eb)
             /\ UNCHANGED <<tmp_vb, active_tvb_mask_, intra_counter_, log>>
    BY <1>4, <2>2, MergedReady
  <2>3. CASE \E b, loc, le : Ready(b, loc, d, e, le) /\ Wrote(b, loc, d, e, le)
    <3>1. PICK b, loc, le : Ready(b, loc, d, e, le) /\ Wrote(b, loc, d, e, le)
      BY <2>3
    <3>2. /\ \A s \in Slots : tmp_vb'[s].timestamp_ = IF s = Slot(e) THEN e ELSE tmp_vb[s].timestamp_
          /\ \A s \in Slots \ {Slot(e)} : tmp_vb[s].entries = << >> => tmp_vb'[s].entries = << >>
      BY <3>1 DEF Wrote
    <3>3. \A s \in Slots : tmp_vb'[s].timestamp_ <= e
      BY <1>2, <1>4, <3>2
    <3>4. \A s \in Slots : tmp_vb'[s].entries # << >> => s = Slot(e) /\ tmp_vb'[s].timestamp_ = e
      BY <1>4, <3>2
    <3>6. \A s \in Slots : \A f \in Filed(tmp_vb', s) : EdgeKept(eb', f) /\ Marked(eb', f[1])
      <4>1. /\ Stored(b, Dsts, TMPNUM) /\ loc \in Places
            /\ \A s \in Slots : \A f \in Filed(tmp_vb, s) :
                 EdgeKept(b, f) /\ (Marked(b, f[1]) \/ (f[1] = d /\ le = 0))
        BY <1>4, <3>1 DEF Ready
      <4> QED
        BY <3>1, <4>1, StoreFacts, WroteKept
    <3> QED
      BY <3>3, <3>4, <3>6
  <2> QED
    BY <1>1, <2>1, <2>2, <2>3
<1> QED
  BY <1>2, <1>3, <1>5 DEF BufferInv

LEMMA BufferNext ==
  ASSUME ~Pipelined, StoreInv, BufferInv, [Next]_vars
  PROVE  BufferInv'
<1>1. CASE UNCHANGED vars
  <2>1. UNCHANGED <<eb, tmp_vb, active_tvb_mask_, read_epoch_, stage>>
    BY <1>1 DEF vars, epochVars
  <2> QED
    BY <2>1 DEF BufferInv
<1>2. ASSUME UNCHANGED use, NEW d \in Dsts, NEW e \in Epochs,
             insert_edge_block(d, e) \/ delete_edge_block(d, e)
      PROVE  BufferInv'
  BY <1>2, BufferWrite
<1>3. ASSUME UNCHANGED use, Transform PROVE BufferInv'
  <2>1. /\ stage = "idle" /\ stage' = "clear"
        /\ UNCHANGED <<tmp_vb, active_tvb_mask_, read_epoch_>>
    BY <1>3 DEF Transform, epochVars
  <2>2. SameShape(eb, eb') /\ eb \in Blocks(Dsts) /\ eb' \in Blocks(Dsts)
    <3>1. SameShape(eb, eb') /\ StoreInv'
      BY <1>3, StoreTransform
    <3>2. Dsts' = Dsts /\ TMPNUM' = TMPNUM
      BY <1>3 DEF Dsts, TMPNUM
    <3>3. eb' \in Blocks(Dsts)
      BY <3>1, <3>2 DEF StoreInv, VertexType
    <3> QED
      BY <3>1, <3>3, StoreFacts
  <2>3. \A s \in Slots : \A f \in Filed(tmp_vb, s) : EdgeKept(eb', f)
    <3> TAKE s \in Slots
    <3> TAKE f \in Filed(tmp_vb, s)
    <3>1. f \in Triples(Dsts) /\ EdgeKept(eb, f)
      BY StoreFacts, BufferFacts DEF BufferInv
    <3> QED
      BY <2>2, <3>1, ShapeEntry
  <2> QED
    BY <2>1, <2>3 DEF BufferInv
<1>4. ASSUME UNCHANGED use, ClearTvb PROVE BufferInv'
  <2>1. /\ stage = "clear" /\ stage' = "load"
        /\ UNCHANGED <<eb, active_tvb_mask_, read_epoch_>>
    BY <1>4 DEF ClearTvb, epochVars
  <2>2. /\ \A s \in Slots : /\ tmp_vb'[s].timestamp_ = tmp_vb[s].timestamp_
                            /\ Filed(tmp_vb', s) \subseteq Filed(tmp_vb, s)
                            /\ s # Slot(read_epoch_ + 1) => tmp_vb'[s] = tmp_vb[s]
        /\ tmp_vb'[Slot(read_epoch_ + 1)].entries = << >>
    BY <1>4, StoreClear
  <2> QED
    BY <2>1, <2>2 DEF BufferInv
<1>5. CASE LoadMask \/ MarkTvbInactive
  <2>1. /\ stage \in {"load", "store"} /\ stage' \in {"store", "done"}
        /\ UNCHANGED <<eb, tmp_vb, read_epoch_>>
    BY <1>5 DEF LoadMask, MarkTvbInactive, epochVars
  <2> QED
    BY <2>1 DEF BufferInv
<1>6. CASE Publish
  <2>1. /\ read_epoch_' = read_epoch_ + 1 /\ stage' = "idle"
        /\ UNCHANGED <<eb, tmp_vb, active_tvb_mask_>>
        /\ stage = "done" \/ Untouched(read_epoch_ + 1)
    BY <1>6 DEF Publish
  <2>2. \A s \in Slots : tmp_vb[s].entries = << >>
    BY <2>1 DEF BufferInv, Untouched
  <2>3. \A s \in Slots : Filed(tmp_vb, s) = {}
    BY <2>2, FiledEntries
  <2>4. read_epoch_ \in Nat /\ \A s \in Slots : tmp_vb[s].timestamp_ \in Nat
    BY StoreFacts, BufferFacts
  <2>5. /\ \A s \in Slots : tmp_vb[s].timestamp_ <= (read_epoch_ + 1) + 1
        /\ \A s \in Slots : tmp_vb[s].timestamp_ # (read_epoch_ + 1) + 1
    BY <2>4 DEF BufferInv
  <2>6. Slot((read_epoch_ + 1) + 1) \in Slots
    BY <2>4, SlotFacts
  <2> QED
    BY <2>1, <2>2, <2>3, <2>5, <2>6 DEF BufferInv
<1>7. CASE OpenEpoch \/ GC \/ registerROTransaction \/ deregisterROTransaction
  <2>1. UNCHANGED <<eb, tmp_vb, active_tvb_mask_, read_epoch_, stage>>
    BY <1>7 DEF OpenEpoch, GC, registerROTransaction, deregisterROTransaction, epochVars
  <2> QED
    BY <2>1 DEF BufferInv
<1> QED
  BY <1>1, <1>2, <1>3, <1>4, <1>5, <1>6, <1>7 DEF Next

\* The cell that Transform takes for an entry's edge is that edge's, and with BufferInv
\* there is one.
LEMMA EntriesFound ==
  ASSUME StoreInv, ~Pipelined => BufferInv
  PROVE  PendingFound
<1> SUFFICES ASSUME NEW s \in Slots, NEW k \in DOMAIN tmp_vb[s].entries
             PROVE  LET t == tmp_vb[s].entries[k] IN
                    /\ \A loc \in Located(eb, t) :
                         loc[2] \in DOMAIN eb[loc[1]] /\ ItemAt(eb, loc).e = t.e
                    /\ Pipelined \/ Located(eb, t) # {}
  BY DEF PendingFound, Pending
<1> DEFINE t == tmp_vb[s].entries[k]
           f == <<t.e, t.offset, t.merge_times>>
<1>1. f \in Filed(tmp_vb, s)
  BY DEF Filed, Range
<1>2. t \in Entries(Dsts) /\ eb.merge_times \in Nat
  <2>1. tmp_vb[s].entries \in Seq(Entries(Dsts))
    BY StoreFacts, BufferFacts
  <2> QED
    BY <2>1, StoreFacts, BlockFacts
<1>3. ~Pipelined => EdgeKept(eb, f)
  BY <1>1 DEF BufferInv
<1> HIDE DEF t
<1>4. OffsetGood(eb, f) /\ t.merge_times \in Nat
  BY <1>1, <1>2, StoreFacts DEF Entries
<1>5. CASE t.merge_times = eb.merge_times
  <2>1. Valid(eb, t.offset, t.e)
    BY <1>4, <1>5 DEF OffsetGood
  <2>2. Located(eb, t) = {t.offset}
    BY <1>5 DEF Located
  <2> QED
    BY <2>1, <2>2 DEF Valid, ItemAt, t
<1>6. CASE t.merge_times # eb.merge_times
  <2>1. Located(eb, t) = At(eb, "start", t.e)
    BY <1>6 DEF Located
  <2>2. \A loc \in At(eb, "start", t.e) : loc[2] \in DOMAIN eb[loc[1]] /\ ItemAt(eb, loc).e = t.e
    BY DEF At, ItemAt
  <2>3. ~Pipelined => At(eb, "start", t.e) # {}
    <3> HAVE ~Pipelined
    <3>1. t.merge_times < eb.merge_times
      BY <1>2, <1>4, <1>6 DEF OffsetGood
    <3>2. PICK i \in DOMAIN eb.start : eb.start[i].e = t.e
      BY <1>3, <3>1 DEF EdgeKept
    <3>3. <<"start", i>> \in At(eb, "start", t.e)
      BY <3>2 DEF At
    <3> QED
      BY <3>3
  <2> QED
    BY <2>1, <2>2, <2>3 DEF t
<1> QED
  BY <1>5, <1>6

\* Transform never takes another edge for that of an entry, however often the insertion
\* buffer was merged since the write; and it finds the edge if no epoch is written in before
\* the one before it is published.
THEOREM VertexPendingFound == Spec => []PendingFound
<1> DEFINE Inv == StoreInv /\ (~Pipelined => BufferInv)
<1>1. Init => Inv
  BY StoreInit, BufferInit
<1>2. Inv /\ [Next]_vars => Inv'
  <2> SUFFICES ASSUME Inv, [Next]_vars PROVE Inv'
    OBVIOUS
  <2>1. Pipelined' = Pipelined
    BY DEF Next, vars, Pipelined
  <2> QED
    BY <2>1, StoreNext, BufferNext
<1>3. Inv => PendingFound
  BY EntriesFound
<1> QED
  BY <1>1, <1>2, <1>3, PTL DEF Spec
=============================================================================
