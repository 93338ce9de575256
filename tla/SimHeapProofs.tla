--------------------------- MODULE SimHeapProofs ---------------------------
(***************************************************************************)
(* The heap keeps its blocks apart, for every layout of the memory, every  *)
(* size of the table and every sequence of calls: HeapInv is inductive     *)
(* together with the type invariant.  The proof speaks of a table and of   *)
(* pointers as parameters, because a reallocation allocates in one table   *)
(* and frees in the result.  The heap implements BlockHeap, and it loses   *)
(* no byte: the blocks tile what lies below a pointer, which takes sums    *)
(* over the table, argued by the least counterexample.                     *)
(***************************************************************************)
EXTENDS SimHeap, WellFoundedInduction, TLAPS

----------------------------------------------------------------------------
(* Choices of the least.                                                   *)

(* A set of natural numbers that is not empty has a least member.          *)
LEMMA LeastMember ==
  ASSUME NEW S \in SUBSET Nat, S # {}
  PROVE  \E m \in S : \A n \in S : m <= n
<1>1. PICK m \in S : \A n \in S : <<n, m>> \notin OpToRel(<, Nat)
  BY WFMin, NatLessThanWellFounded, Zenon
<1>2. \A n \in S : ~ (n < m)
  BY <1>1, Zenon DEF OpToRel
<1> QED
  BY <1>2

(* First answers a member of the set.                                      *)
LEMMA FirstIsMember ==
  ASSUME NEW S \in SUBSET Slots, S # {}
  PROVE  First(S) \in S
<1>1. Slots \in SUBSET Nat
  BY TableAssumption DEF Slots
<1> QED
  BY <1>1, LeastMember DEF First

----------------------------------------------------------------------------
(* The pools.                                                              *)

(* Rounding up goes forward and stays on the grid.                         *)
LEMMA AlignUpRounds ==
  ASSUME NEW a \in Nat
  PROVE  AlignUp(a) \in Nat /\ a <= AlignUp(a) /\ AlignUp(a) < a + 64
BY DEF AlignUp, Alignment

(* The pools are ranges of addresses that do not overlap, and two pools of *)
(* one kind of memory do not even touch: the ROM stub lies between them.   *)
PoolsApart ==
  /\ \A p \in Pools : Base(p) \in Nat /\ Limit(p) \in Nat /\ Base(p) <= Limit(p)
  /\ \A p, q \in Pools : p # q => Limit(p) <= Base(q) \/ Limit(q) <= Base(p)
  /\ \A p, q \in Pools : p # q /\ ClassOf(p) = ClassOf(q) =>
       Limit(p) < Base(q) \/ Limit(q) < Base(p)

LEMMA PoolsLieApart ==
  ASSUME mode \in {"device", "test"}, heapStart \in HeapStarts
  PROVE  PoolsApart
<1> USE LayoutAssumption
<1>0. heapStart \in Nat
  BY InputAssumption
<1>a. /\ \A a \in {DramBase, RomStubBase, RomStubLimit, ExternalRamBase, TestLimit, InternalBytes,
                   HeapBase, PsramLimit, HeapLimit} : a \in Nat
  OBVIOUS
<1>1. InternalHeapStart \in Nat /\ DramBase <= InternalHeapStart
  BY <1>0, <1>a, AlignUpRounds DEF InternalHeapStart
<1>2. /\ InternalRange.base \in Nat /\ InternalRange.limit \in Nat
      /\ DramBase <= InternalRange.base /\ InternalRange.base <= InternalRange.limit
      /\ mode = "device" /\ InternalHeapStart < RomStubBase => InternalRange.limit <= RomStubBase
  BY <1>1, <1>a DEF InternalRange, Lower
<1>3. \/ ExtRange = [base |-> 0, limit |-> 0]
      \/ /\ mode = "device" /\ InternalHeapStart < RomStubBase
         /\ ExtRange.base = RomStubLimit /\ ExtRange.limit \in Nat /\ RomStubLimit <= ExtRange.limit
  BY <1>1, <1>a DEF ExtRange, Lower
<1>4. PsramRange.base = HeapBase /\ PsramRange.limit \in Nat /\ HeapBase <= PsramRange.limit
      /\ PsramRange.limit <= HeapLimit
  BY <1>a DEF PsramRange
<1>5. /\ Base("internal") = InternalRange.base /\ Limit("internal") = InternalRange.limit
      /\ Base("ext") = ExtRange.base /\ Limit("ext") = ExtRange.limit
      /\ Base("psram") = PsramRange.base /\ Limit("psram") = PsramRange.limit
  BY DEF Base, Limit, Range, Pools
<1>6. /\ ClassOf("internal") = "internal" /\ ClassOf("ext") = "internal" /\ ClassOf("psram") = "psram"
  BY DEF ClassOf
<1>7. ExtRange.base \in Nat /\ ExtRange.limit \in Nat /\ ExtRange.base <= ExtRange.limit
  BY <1>3, <1>a
<1>8. \/ Limit("ext") < Base("internal")
      \/ Limit("internal") < Base("ext")
  BY <1>2, <1>3, <1>5, <1>a
<1>9. Limit("psram") <= Base("internal") /\ (Limit("psram") <= Base("ext") \/ Limit("ext") <= Base("psram"))
  BY <1>2, <1>3, <1>4, <1>5, <1>a
<1> QED
  BY <1>2, <1>4, <1>5, <1>6, <1>7, <1>8, <1>9 DEF PoolsApart, Pools

----------------------------------------------------------------------------
(* A table of records and the pointers, as HeapInv wants them.             *)

Placed(record, pointers) ==
  \E p \in Pools : /\ record.class = ClassOf(p)
                   /\ Base(p) <= record.addr /\ record.addr + record.size <= pointers[p]
Separate(r, s) == r.addr + r.size <= s.addr \/ s.addr + s.size <= r.addr

GoodTable(table, pointers) ==
  /\ table \in [Slots -> RecordType]
  /\ pointers \in [Pools -> Nat]
  /\ \A p \in Pools : Base(p) <= pointers[p] /\ pointers[p] <= Limit(p)
  /\ \A i \in Slots : table[i].active => table[i].size > 0 /\ table[i].requested <= table[i].size
  /\ \A i \in Slots : table[i].size > 0 => Placed(table[i], pointers)
  /\ \A i, j \in Slots : i # j /\ table[i].size > 0 /\ table[j].size > 0 =>
       Separate(table[i], table[j])

(* The records of a good table are placed as the invariant says.           *)
LEMMA GoodTableIsInvariant ==
  ASSUME PoolsApart, TypeOK
  PROVE  GoodTable(records, ptr) <=> RecordsBelow /\ RecordsApart /\ ActiveUsed
<1>1. \A i \in Slots : records[i] \in RecordType
  BY DEF TypeOK
<1>2. \A i \in Slots, p \in Pools : /\ records[i].addr \in Nat /\ records[i].size \in Nat
                                    /\ ptr[p] \in Nat /\ ptr[p] <= Limit(p) /\ Base(p) <= ptr[p]
                                    /\ Limit(p) \in Nat
  BY <1>1 DEF TypeOK, RecordType, PoolsApart
<1>3. \A i \in Slots : records[i].size > 0 =>
        (Placed(records[i], ptr) <=> \E p \in Pools : Below(i, p))
  BY <1>2 DEF Placed, Below, InPool, End
<1>4. (\A i \in Slots : records[i].size > 0 => Placed(records[i], ptr)) <=> RecordsBelow
  BY <1>3 DEF RecordsBelow, Used
<1>5. (\A i, j \in Slots : i # j /\ records[i].size > 0 /\ records[j].size > 0 =>
         Separate(records[i], records[j])) <=> RecordsApart
  BY DEF RecordsApart, Used, Separate, Apart, End
<1>6. (\A i \in Slots : records[i].active =>
         records[i].size > 0 /\ records[i].requested <= records[i].size) <=> ActiveUsed
  BY DEF ActiveUsed, Used, Active
<1>7. records \in [Slots -> RecordType] /\ ptr \in [Pools -> Nat]
      /\ \A p \in Pools : Base(p) <= ptr[p] /\ ptr[p] <= Limit(p)
  BY DEF TypeOK
<1> QED
  BY <1>4, <1>5, <1>6, <1>7 DEF GoodTable

----------------------------------------------------------------------------
(* Allocation.                                                             *)

(* The size of a block is enough for the bytes asked for, if it is not 0.  *)
LEMMA AlignSizeSuffices ==
  ASSUME NEW bytes \in Nat, AlignSize(bytes) > 0
  PROVE  AlignSize(bytes) \in Nat /\ bytes <= AlignSize(bytes)
BY AlignUpRounds DEF AlignSize, Alignment

LEMMA AlignSizeType ==
  ASSUME NEW bytes \in Nat
  PROVE  AlignSize(bytes) \in Nat
BY AlignUpRounds DEF AlignSize, Alignment

(* A pool that grants a request has a free block or room at its pointer.   *)
LEMMA GrantedHasRoom ==
  ASSUME NEW bytes \in Nat, NEW caps, Grants(bytes, caps) # None
  PROVE  LET p == Grants(bytes, caps)
             n == AlignSize(bytes)
         IN  p \in Pools /\ n > 0 /\ (Fitting(p, n) # {} \/ Holds(p, n))
<1>1. \A c : TakesFrom(bytes, c) # None =>
        LET p == TakesFrom(bytes, c)
            n == AlignSize(bytes)
        IN  p \in Pools /\ n > 0 /\ (Fitting(p, n) # {} \/ Holds(p, n))
  <2> TAKE c
  <2>1. PoolForCaps(c) \in Pools
    BY DEF PoolForCaps, Pools
  <2>2. ResolvePool(PoolForCaps(c), AlignSize(bytes)) \in Pools
    BY <2>1 DEF ResolvePool, Pools
  <2> QED
    BY <2>2 DEF TakesFrom
<1> QED
  BY <1>1 DEF Grants

(* The smallest block that fits is one that fits.                          *)
LEMMA BestFits ==
  ASSUME NEW p \in Pools, NEW n \in Nat, records \in [Slots -> RecordType], Fitting(p, n) # {}
  PROVE  Best(p, n) \in Fitting(p, n)
<1> DEFINE S == Fitting(p, n)
           Sizes == {records[i].size : i \in S}
<1>1. S \subseteq Slots /\ Slots \subseteq Nat
  BY TableAssumption DEF Fitting, Slots
<1>2. \A i \in Slots : records[i].size \in Nat
  BY DEF RecordType
<1>3. Sizes \in SUBSET Nat /\ Sizes # {}
  BY <1>1, <1>2
<1>4. PICK m \in Sizes : \A k \in Sizes : m <= k
  <2> HIDE DEF Sizes
  <2> QED BY <1>3, LeastMember
<1> DEFINE Smallest == {i \in S : records[i].size = m}
<1>5. Smallest \in SUBSET Nat /\ Smallest # {}
  BY <1>1, <1>4
<1>6. PICK i \in Smallest : \A j \in Smallest : i <= j
  <2> HIDE DEF Smallest
  <2> QED BY <1>5, LeastMember
<1>7. \A j \in S : records[i].size < records[j].size \/ (records[i].size = records[j].size /\ i <= j)
  <2> TAKE j \in S
  <2>1. m <= records[j].size /\ records[i].size = m /\ m \in Nat /\ records[j].size \in Nat
    BY <1>1, <1>2, <1>3, <1>4, <1>6
  <2>2. CASE records[j].size = m
    BY <2>1, <2>2, <1>6
  <2>3. CASE records[j].size # m
    BY <2>1, <2>3
  <2> QED BY <2>2, <2>3
<1>8. i \in S
  BY <1>6
<1> HIDE DEF S
<1> QED
  BY <1>7, <1>8 DEF Best, S

(* What is handed out of a block that is free, and what is left of it.     *)
Splits(i, n) == records[i].size > n /\ Spares # {}

LEMMA ReusedIs ==
  ASSUME GoodTable(records, ptr), NEW p \in Pools, NEW n \in Nat, n > 0,
         NEW bytes \in Nat, Fitting(p, n) # {}
  PROVE  LET i == Best(p, n)
             t == Reused(i, n, bytes)
             split == Splits(i, n)
             k == First(Spares)
         IN  /\ i \in Slots /\ ~ records[i].active /\ records[i].size >= n
             /\ split => k \in Slots /\ k # i /\ records[k].size = 0
             /\ t \in [Slots -> RecordType]
             /\ t[i].addr = records[i].addr /\ t[i].class = records[i].class
             /\ t[i].active /\ t[i].requested = bytes
             /\ t[i].size = IF split THEN n ELSE records[i].size
             /\ split => /\ t[k].addr = records[i].addr + n /\ t[k].size = records[i].size - n
                         /\ t[k].class = records[i].class /\ ~ t[k].active
             /\ \A j \in Slots : j # i /\ (split => j # k) => t[j] = records[j]
<1> DEFINE i == Best(p, n)
           t == Reused(i, n, bytes)
           split == records[i].size > n /\ Spares # {}
           k == First(Spares)
<1>1. i \in Slots /\ ~ records[i].active /\ records[i].size >= n
  BY BestFits DEF GoodTable, Fitting, Free
<1>2. \A j \in Slots : records[j] \in RecordType
  BY DEF GoodTable
<1>3. split => k \in Slots /\ k # i /\ records[k].size = 0
  <2>1. Spares \in SUBSET Slots
    BY DEF Spares
  <2>2. split => k \in Spares
    BY <2>1, FirstIsMember
  <2> QED
    BY <1>1, <1>2, <2>2 DEF Spares, RecordType
<1> HIDE DEF i
<1>4. /\ t \in [Slots -> RecordType]
      /\ t[i].addr = records[i].addr /\ t[i].class = records[i].class
      /\ t[i].active /\ t[i].requested = bytes
      /\ t[i].size = IF split THEN n ELSE records[i].size
      /\ split => /\ t[k].addr = records[i].addr + n /\ t[k].size = records[i].size - n
                  /\ t[k].class = records[i].class /\ ~ t[k].active
      /\ \A j \in Slots : j # i /\ (split => j # k) => t[j] = records[j]
  <2>1. records[i].size - n \in Nat
    BY <1>1, <1>2 DEF RecordType
  <2>2. CASE split
    <3>1. TailSlot(i, n) = {k}
      BY <2>2 DEF TailSlot
    <3> HIDE DEF k
    <3>2. \A j \in Slots : t[j] = IF j = i
             THEN [records[i] EXCEPT !.requested = bytes, !.active = TRUE, !.size = n]
             ELSE IF j = k
             THEN [addr |-> records[i].addr + n, requested |-> records[i].size - n,
                   size |-> records[i].size - n, class |-> records[i].class, active |-> FALSE]
             ELSE records[j]
      BY <2>2, <3>1 DEF Reused
    <3>3. t = [j \in Slots |-> t[j]]
      BY DEF Reused
    <3> HIDE DEF t
    <3>4. t[i] = [records[i] EXCEPT !.requested = bytes, !.active = TRUE, !.size = n]
      BY <1>1, <3>2
    <3>5. t[k] = [addr |-> records[i].addr + n, requested |-> records[i].size - n,
                  size |-> records[i].size - n, class |-> records[i].class, active |-> FALSE]
      BY <1>3, <2>2, <3>2
    <3>6. \A j \in Slots : j # i /\ j # k => t[j] = records[j]
      BY <3>2
    <3>7. t[i] \in RecordType /\ t[i].addr = records[i].addr /\ t[i].class = records[i].class
          /\ t[i].active /\ t[i].requested = bytes /\ t[i].size = n
      <4>1. records[i] \in RecordType
        BY <1>1, <1>2
      <4> QED BY <3>4, <4>1 DEF RecordType
    <3>8. t[k] \in RecordType /\ t[k].addr = records[i].addr + n /\ t[k].size = records[i].size - n
          /\ t[k].class = records[i].class /\ ~ t[k].active
      <4>1. records[i].addr + n \in Nat /\ records[i].class \in {"internal", "psram"}
        BY <1>1, <1>2 DEF RecordType
      <4> QED BY <2>1, <3>5, <4>1 DEF RecordType
    <3>9. \A j \in Slots : t[j] \in RecordType
      BY <1>2, <3>6, <3>7, <3>8
    <3> QED
      BY <2>2, <3>3, <3>6, <3>7, <3>8, <3>9
  <2>3. CASE ~ split
    <3>1. TailSlot(i, n) = {}
      BY <2>3 DEF TailSlot
    <3>2. \A j \in Slots : t[j] = IF j = i
             THEN [records[i] EXCEPT !.requested = bytes, !.active = TRUE]
             ELSE records[j]
      BY <1>2, <2>3, <3>1 DEF Reused, RecordType
    <3>3. t = [j \in Slots |-> t[j]]
      BY DEF Reused
    <3> HIDE DEF t
    <3>4. \A j \in Slots : t[j] \in RecordType
      BY <1>1, <1>2, <3>2 DEF RecordType
    <3> QED
      BY <1>1, <1>2, <2>3, <3>2, <3>3, <3>4 DEF RecordType
  <2> QED BY <2>2, <2>3
<1> QED
  BY <1>1, <1>3, <1>4 DEF Splits, i

(* The free block that fits is handed out, and what is left of it becomes  *)
(* a free block behind it: both lie where the block lay.                   *)
LEMMA ReusedStaysGood ==
  ASSUME PoolsApart, GoodTable(records, ptr), NEW p \in Pools, NEW n \in Nat, n > 0,
         NEW bytes \in Nat, bytes <= n, Fitting(p, n) # {}
  PROVE  GoodTable(Reused(Best(p, n), n, bytes), ptr)
<1> DEFINE i == Best(p, n)
           t == Reused(i, n, bytes)
           split == Splits(i, n)
           k == First(Spares)
<1>1. /\ i \in Slots /\ ~ records[i].active /\ records[i].size >= n
      /\ split => k \in Slots /\ k # i /\ records[k].size = 0
  BY ReusedIs
<1>2. \A j \in Slots : records[j] \in RecordType
  BY DEF GoodTable
<1>3. split => records[i].size > n
  BY DEF Splits
<1>4. /\ t \in [Slots -> RecordType]
      /\ t[i].addr = records[i].addr /\ t[i].class = records[i].class
      /\ t[i].active /\ t[i].requested = bytes
      /\ t[i].size = IF split THEN n ELSE records[i].size
      /\ split => /\ t[k].addr = records[i].addr + n /\ t[k].size = records[i].size - n
                  /\ t[k].class = records[i].class /\ ~ t[k].active
      /\ \A j \in Slots : j # i /\ (split => j # k) => t[j] = records[j]
  BY ReusedIs
<1> HIDE DEF i, t, k, split
<1>5. /\ records[i].addr \in Nat /\ records[i].size \in Nat
      /\ \A j \in Slots : records[j].addr \in Nat /\ records[j].size \in Nat
  BY <1>1, <1>2 DEF RecordType
<1>6. Placed(records[i], ptr)
  BY <1>1, <1>5 DEF GoodTable
<1>7. \A j \in Slots : t[j].size > 0 =>
        \/ records[j].size > 0 /\ t[j] = records[j] /\ j # i
        \/ /\ j \in {i, k} /\ t[j].class = records[i].class
           /\ records[i].addr <= t[j].addr
           /\ t[j].addr + t[j].size <= records[i].addr + records[i].size
           /\ t[j].addr \in Nat /\ t[j].size \in Nat
  BY <1>1, <1>3, <1>4, <1>5
<1>8. \A q \in Pools : Base(q) \in Nat /\ ptr[q] \in Nat
  BY DEF GoodTable, PoolsApart
<1>9. \A j \in Slots : t[j].size > 0 => Placed(t[j], ptr)
  <2> TAKE j \in Slots
  <2> HAVE t[j].size > 0
  <2>1. CASE records[j].size > 0 /\ t[j] = records[j]
    BY <2>1 DEF GoodTable
  <2>2. CASE /\ t[j].class = records[i].class /\ records[i].addr <= t[j].addr
             /\ t[j].addr + t[j].size <= records[i].addr + records[i].size
             /\ t[j].addr \in Nat /\ t[j].size \in Nat
    BY <2>2, <1>5, <1>6, <1>8 DEF Placed
  <2> QED BY <1>7, <2>1, <2>2
<1>10. \A j, l \in Slots : j # l /\ t[j].size > 0 /\ t[l].size > 0 => Separate(t[j], t[l])
  <2>1. \A j \in Slots : j # i /\ records[j].size > 0 => Separate(records[i], records[j])
    BY <1>1, <1>5 DEF GoodTable
  <2>2. split => Separate(t[i], t[k]) /\ Separate(t[k], t[i])
    BY <1>1, <1>4, <1>5 DEF Separate
  <2>3. ~ split => t[i].size = records[i].size
    BY <1>4
  <2>4. \A j, l \in Slots : /\ j # i /\ records[j].size > 0 /\ t[j] = records[j]
                            /\ records[i].addr <= t[l].addr
                            /\ t[l].addr + t[l].size <= records[i].addr + records[i].size
                            /\ t[l].addr \in Nat /\ t[l].size \in Nat
                            => Separate(t[j], t[l]) /\ Separate(t[l], t[j])
    BY <1>5, <2>1 DEF Separate
  <2>5. \A j, l \in Slots : j # l /\ t[j] = records[j] /\ t[l] = records[l]
                            /\ records[j].size > 0 /\ records[l].size > 0 => Separate(t[j], t[l])
    BY DEF GoodTable
  <2>6. \A j \in Slots : j = k /\ ~ split /\ j # i => t[j] = records[j]
    BY <1>4
  <2> TAKE j, l \in Slots
  <2> HAVE j # l /\ t[j].size > 0 /\ t[l].size > 0
  <2>7. CASE j \in {i, k} /\ l \in {i, k}
    <3>1. CASE split
      BY <2>7, <3>1, <2>2
    <3>2. CASE ~ split
      BY <2>7, <3>2, <2>4, <2>6, <1>4, <1>5, <1>7
    <3> QED BY <3>1, <3>2
  <2>8. CASE ~ (j \in {i, k} /\ l \in {i, k})
    BY <2>8, <1>7, <2>4, <2>5
  <2> QED BY <2>7, <2>8
<1>11. \A j \in Slots : t[j].active => t[j].size > 0 /\ t[j].requested <= t[j].size
  <2> TAKE j \in Slots
  <2>1. CASE j = i
    BY <2>1, <1>1, <1>4, <1>5
  <2>2. CASE j # i /\ t[j] = records[j]
    BY <2>2 DEF GoodTable
  <2>3. CASE split /\ j = k
    BY <2>3, <1>1, <1>3, <1>4, <1>5
  <2> QED BY <1>4, <2>1, <2>2, <2>3
<1> QED
  BY <1>4, <1>9, <1>10, <1>11 DEF GoodTable, i, t

(* A new block at the pointer lies behind all others of its pool.          *)
LEMMA BumpedStaysGood ==
  ASSUME PoolsApart, GoodTable(records, ptr), NEW p \in Pools, NEW n \in Nat, n > 0,
         NEW bytes \in Nat, bytes <= n, Holds(p, n)
  PROVE  GoodTable(Bumped(p, n, bytes), [ptr EXCEPT ![p] = @ + n])
<1> DEFINE k == First(Spares)
           t == Bumped(p, n, bytes)
           q == [ptr EXCEPT ![p] = @ + n]
<1>1. k \in Slots /\ records[k].size = 0
  <2>1. Spares \in SUBSET Slots /\ k \in Spares
    BY FirstIsMember DEF Spares, Holds
  <2> QED BY <2>1 DEF Spares
<1> HIDE DEF k
<1>2. \A j \in Slots : /\ records[j] \in RecordType
                       /\ records[j].addr \in Nat /\ records[j].size \in Nat
  BY DEF GoodTable, RecordType
<1>3. \A s \in Pools : /\ ptr[s] \in Nat /\ Base(s) \in Nat /\ Limit(s) \in Nat
                       /\ Base(s) <= ptr[s] /\ ptr[s] <= Limit(s)
  BY DEF GoodTable, PoolsApart
<1>4. ptr[p] + n <= Limit(p)
  BY <1>3 DEF Holds
<1>5. /\ q \in [Pools -> Nat] /\ q[p] = ptr[p] + n
      /\ \A s \in Pools : ptr[s] <= q[s] /\ Base(s) <= q[s] /\ q[s] <= Limit(s)
  BY <1>3, <1>4 DEF GoodTable
<1>6. t = [records EXCEPT ![k] = [addr |-> ptr[p], requested |-> bytes, size |-> n,
                                  class |-> ClassOf(p), active |-> TRUE]]
  BY DEF Bumped, k
<1>7. ClassOf(p) \in {"internal", "psram"}
  BY DEF ClassOf
<1>8. /\ t \in [Slots -> RecordType]
      /\ t[k].addr = ptr[p] /\ t[k].size = n /\ t[k].class = ClassOf(p) /\ t[k].requested = bytes
      /\ \A j \in Slots : j # k => t[j] = records[j]
  BY <1>1, <1>2, <1>3, <1>6, <1>7 DEF RecordType, GoodTable
<1> HIDE DEF t, q
<1>9. \A j \in Slots : t[j].active => t[j].size > 0 /\ t[j].requested <= t[j].size
  BY <1>8 DEF GoodTable
<1>10. \A j \in Slots : t[j].size > 0 => Placed(t[j], q)
  <2> TAKE j \in Slots
  <2> HAVE t[j].size > 0
  <2>1. CASE j = k
    BY <2>1, <1>3, <1>5, <1>8 DEF Placed
  <2>2. CASE j # k
    <3>1. PICK s \in Pools : /\ records[j].class = ClassOf(s)
                             /\ Base(s) <= records[j].addr /\ records[j].addr + records[j].size <= ptr[s]
      BY <2>2, <1>8 DEF GoodTable, Placed
    <3>2. q[s] \in Nat /\ ptr[s] <= q[s]
      BY <1>5
    <3> QED BY <1>2, <1>3, <1>8, <2>2, <3>1, <3>2 DEF Placed
  <2> QED BY <2>1, <2>2
<1>11. \A j \in Slots : j # k /\ t[j].size > 0 => Separate(t[j], t[k]) /\ Separate(t[k], t[j])
  <2> TAKE j \in Slots
  <2> HAVE j # k /\ t[j].size > 0
  <2>1. PICK s \in Pools : /\ Base(s) <= records[j].addr
                           /\ records[j].addr + records[j].size <= ptr[s]
    BY <1>8 DEF GoodTable, Placed
  <2>2. s = p \/ Limit(s) <= Base(p) \/ Limit(p) <= Base(s)
    BY DEF PoolsApart
  <2> QED
    BY <1>2, <1>3, <1>4, <1>8, <2>1, <2>2 DEF Separate
<1>12. \A j, l \in Slots : j # l /\ t[j].size > 0 /\ t[l].size > 0 => Separate(t[j], t[l])
  BY <1>8, <1>11 DEF GoodTable
<1> QED
  BY <1>5, <1>8, <1>9, <1>10, <1>12 DEF GoodTable, t, q

(* An allocation that is granted leaves a good table.                      *)
LEMMA AllocatedStaysGood ==
  ASSUME PoolsApart, GoodTable(records, ptr), NEW bytes \in Nat, NEW caps,
         Grants(bytes, caps) # None
  PROVE  GoodTable(Allocated(Grants(bytes, caps), bytes), PtrAfter(Grants(bytes, caps), bytes))
<1> DEFINE p == Grants(bytes, caps)
           n == AlignSize(bytes)
<1>1. p \in Pools /\ n > 0 /\ (Fitting(p, n) # {} \/ Holds(p, n))
  BY GrantedHasRoom
<1>2. n \in Nat /\ bytes <= n
  BY <1>1, AlignSizeSuffices
<1> HIDE DEF p
<1>3. CASE Reuses(p, bytes)
  <2>1. /\ Allocated(p, bytes) = Reused(Best(p, n), n, bytes)
        /\ PtrAfter(p, bytes) = ptr
        /\ Fitting(p, n) # {}
    BY <1>3 DEF Allocated, PtrAfter, Reuses
  <2> HIDE DEF n
  <2> QED BY <1>1, <1>2, <2>1, ReusedStaysGood DEF p
<1>4. CASE ~ Reuses(p, bytes)
  <2>1. /\ Allocated(p, bytes) = Bumped(p, n, bytes)
        /\ PtrAfter(p, bytes) = [ptr EXCEPT ![p] = @ + n]
        /\ Holds(p, n)
    BY <1>1, <1>4 DEF Allocated, PtrAfter, Reuses
  <2> HIDE DEF n
  <2> QED BY <1>1, <1>2, <2>1, BumpedStaysGood DEF p
<1> QED
  BY <1>3, <1>4

----------------------------------------------------------------------------
(* Release.                                                                *)

(* Marking a block free keeps the table good; the loops have a free record *)
(* and a pool to work on.                                                  *)
LEMMA StartFreeStaysGood ==
  ASSUME NEW table, NEW pointers, GoodTable(table, pointers), NEW addr, pc = "idle",
         TypeOK, StartFree(table, addr)
  PROVE  /\ GoodTable(records', pointers)
         /\ LoopsInv'
         /\ pc' \in {"idle", "merge", "trim"} /\ freed' \in Slots \cup {0}
         /\ trimmed' \in Pools \cup {None}
<1>1. CASE addr # Null /\ Found(table, addr) # {}
  <2> DEFINE i == First(Found(table, addr))
  <2>1. i \in Slots /\ table[i].active
    <3>1. Found(table, addr) \in SUBSET Slots /\ i \in Found(table, addr)
      BY <1>1, FirstIsMember DEF Found
    <3> QED BY <3>1 DEF Found
  <2> HIDE DEF i
  <2>2. /\ records' = [table EXCEPT ![i].active = FALSE, ![i].requested = table[i].size]
        /\ freed' = i /\ trimmed' = PoolOfFreed(table[i], addr) /\ pc' = "merge"
    BY <1>1 DEF StartFree, i
  <2>3. table[i] \in RecordType /\ table[i].size > 0
    BY <2>1 DEF GoodTable
  <2>4. /\ records'[i] = [addr |-> table[i].addr, requested |-> table[i].size, size |-> table[i].size,
                          class |-> table[i].class, active |-> FALSE]
        /\ \A j \in Slots : j # i => records'[j] = table[j]
        /\ DOMAIN records' = Slots
    BY <2>1, <2>2, <2>3 DEF GoodTable, RecordType
  <2>5. records' \in [Slots -> RecordType]
    <3>1. records'[i] \in RecordType
      BY <2>3, <2>4 DEF RecordType
    <3>2. records' = [j \in Slots |-> records'[j]]
      BY <2>1, <2>2 DEF GoodTable
    <3> QED BY <2>4, <3>1, <3>2 DEF GoodTable
  <2>6. \A j \in Slots : /\ records'[j].addr = table[j].addr /\ records'[j].size = table[j].size
                         /\ records'[j].class = table[j].class
                         /\ records'[j].active => table[j].active /\ records'[j] = table[j]
    BY <2>4
  <2>7. \A j \in Slots : Placed(records'[j], pointers) <=> Placed(table[j], pointers)
    BY <2>6 DEF Placed
  <2>8. \A j, l \in Slots : Separate(records'[j], records'[l]) <=> Separate(table[j], table[l])
    BY <2>6 DEF Separate
  <2>9. GoodTable(records', pointers)
    BY <2>5, <2>6, <2>7, <2>8 DEF GoodTable
  <2>10. freed' \in Slots /\ ~ records'[freed'].active /\ records'[freed'].size > 0
    BY <2>1, <2>2, <2>3, <2>4
  <2>11. trimmed' \in Pools
    BY <2>2 DEF PoolOfFreed, Pools
  <2> QED
    BY <2>2, <2>9, <2>10, <2>11 DEF LoopsInv, Free
<1>2. CASE ~ (addr # Null /\ Found(table, addr) # {})
  BY <1>2 DEF StartFree, LoopsInv, TypeOK
<1> QED
  BY <1>1, <1>2

(* The record that is kept of two that touch, the one that is gone, and    *)
(* the pool of both, since pools of one kind of memory do not touch.       *)
Kept == IF End(freed) = records[First(Neighbours)].addr THEN freed ELSE First(Neighbours)
Gone == IF Kept = freed THEN First(Neighbours) ELSE freed

LEMMA MergedIs ==
  ASSUME PoolsApart, GoodTable(records, ptr), LoopsInv, Merge
  PROVE  /\ Kept \in Slots /\ Gone \in Slots /\ Kept # Gone /\ Free(Kept) /\ Free(Gone)
         /\ records[Kept].class = records[Gone].class
         /\ records[Kept].addr + records[Kept].size = records[Gone].addr
         /\ freed' = Kept /\ records' \in [Slots -> RecordType]
         /\ records'[Kept].addr = records[Kept].addr
         /\ records'[Kept].size = records[Kept].size + records[Gone].size
         /\ records'[Kept].class = records[Kept].class /\ ~ records'[Kept].active
         /\ records'[Gone].size = 0 /\ ~ records'[Gone].active
         /\ \A j \in Slots : j # Kept /\ j # Gone => records'[j] = records[j]
         /\ \E p \in Pools : /\ records[Kept].class = ClassOf(p) /\ Base(p) <= records[Kept].addr
                            /\ records[Gone].addr + records[Gone].size <= ptr[p]
<1> DEFINE i == First(Neighbours)
           kept == IF End(freed) = records[i].addr THEN freed ELSE i
           gone == IF kept = freed THEN i ELSE freed
           size == records[freed].size + records[i].size
<1>1. freed \in Slots /\ Free(freed)
  BY DEF Merge, LoopsInv
<1>2. i \in Slots /\ i # freed /\ Free(i) /\ records[i].class = records[freed].class
      /\ (End(freed) = records[i].addr \/ End(i) = records[freed].addr)
  <2>1. Neighbours \in SUBSET Slots /\ i \in Neighbours
    BY FirstIsMember DEF Neighbours, Merge
  <2> HIDE DEF i
  <2> QED BY <2>1 DEF Neighbours, Mergeable
<1>3. /\ records' = [records EXCEPT ![kept].size = size, ![kept].requested = size, ![gone] = Unused]
      /\ freed' = kept
  BY DEF Merge
<1> HIDE DEF i
<1>4. /\ {kept, gone} = {freed, i} /\ kept # gone
      /\ records[kept].addr + records[kept].size = records[gone].addr
  BY <1>1, <1>2 DEF End
<1>5. size = records[kept].size + records[gone].size
  <2>1. records[freed].size \in Nat /\ records[i].size \in Nat
    BY <1>1, <1>2 DEF GoodTable, RecordType
  <2> QED BY <1>4, <2>1
<1> HIDE DEF kept, gone, size
<1>6. /\ kept \in Slots /\ gone \in Slots /\ Free(kept) /\ Free(gone)
      /\ records[kept].class = records[gone].class
  BY <1>1, <1>2, <1>4
<1>7. \A j \in Slots : /\ records[j] \in RecordType
                       /\ records[j].addr \in Nat /\ records[j].size \in Nat
  BY DEF GoodTable, RecordType
<1>8. size \in Nat
  BY <1>5, <1>6, <1>7
<1>9. /\ records'[kept] = [records[kept] EXCEPT !.size = size, !.requested = size]
      /\ records'[gone] = Unused
      /\ \A j \in Slots : j # kept /\ j # gone => records'[j] = records[j]
      /\ DOMAIN records' = Slots /\ records' = [j \in Slots |-> records'[j]]
  BY <1>3, <1>4, <1>6, <1>7 DEF GoodTable, RecordType
<1>10. /\ records'[kept] \in RecordType
       /\ records'[kept].addr = records[kept].addr /\ records'[kept].size = size
       /\ records'[kept].class = records[kept].class
       /\ ~ records'[kept].active
  <2>1. records[kept] \in RecordType /\ ~ records[kept].active
    BY <1>6, <1>7 DEF Free
  <2> QED BY <1>8, <1>9, <2>1 DEF RecordType
<1>11. records'[gone] \in RecordType /\ records'[gone].size = 0 /\ ~ records'[gone].active
  BY <1>9 DEF Unused, RecordType
<1>12. records' \in [Slots -> RecordType]
  BY <1>7, <1>9, <1>10, <1>11
<1>14. PICK p \in Pools : /\ records[kept].class = ClassOf(p) /\ Base(p) <= records[kept].addr
                          /\ records[kept].addr + records[kept].size <= ptr[p]
  BY <1>6 DEF GoodTable, Placed, Free
<1>15. PICK q \in Pools : /\ records[gone].class = ClassOf(q) /\ Base(q) <= records[gone].addr
                          /\ records[gone].addr + records[gone].size <= ptr[q]
  BY <1>6 DEF GoodTable, Placed, Free
<1>16. records[kept].size > 0 /\ records[gone].size > 0
  BY <1>6 DEF Free
<1>17. \A s \in Pools : /\ ptr[s] \in Nat /\ Base(s) \in Nat /\ Limit(s) \in Nat
                        /\ Base(s) <= ptr[s] /\ ptr[s] <= Limit(s)
  BY DEF GoodTable, PoolsApart
<1>18. p = q
  <2>1. p # q => Limit(p) < Base(q) \/ Limit(q) < Base(p)
    BY <1>6, <1>14, <1>15 DEF PoolsApart
  <2> QED
    BY <1>4, <1>6, <1>7, <1>14, <1>15, <1>16, <1>17, <2>1
<1> QED
  BY <1>3, <1>4, <1>5, <1>6, <1>9, <1>10, <1>11, <1>12, <1>14, <1>15, <1>18 DEF Kept, Gone, kept, gone, i

(* Two free blocks that touch become one.  They belong to one pool, since  *)
(* pools of one kind of memory do not touch.                               *)
LEMMA MergeStaysGood ==
  ASSUME PoolsApart, GoodTable(records, ptr), LoopsInv, Merge
  PROVE  GoodTable(records', ptr) /\ freed' \in Slots /\ Free(freed)'
<1> DEFINE kept == Kept
           gone == Gone
<1>1. /\ kept \in Slots /\ gone \in Slots /\ kept # gone /\ Free(kept) /\ Free(gone)
      /\ records[kept].class = records[gone].class
      /\ records[kept].addr + records[kept].size = records[gone].addr
      /\ freed' = kept /\ records' \in [Slots -> RecordType]
      /\ records'[kept].addr = records[kept].addr
      /\ records'[kept].size = records[kept].size + records[gone].size
      /\ records'[kept].class = records[kept].class /\ ~ records'[kept].active
      /\ records'[gone].size = 0 /\ ~ records'[gone].active
      /\ \A j \in Slots : j # kept /\ j # gone => records'[j] = records[j]
  BY MergedIs
<1>2. PICK p \in Pools : /\ records[kept].class = ClassOf(p) /\ Base(p) <= records[kept].addr
                         /\ records[gone].addr + records[gone].size <= ptr[p]
  BY MergedIs
<1> HIDE DEF kept, gone
<1>7. \A j \in Slots : /\ records[j] \in RecordType
                       /\ records[j].addr \in Nat /\ records[j].size \in Nat
  BY DEF GoodTable, RecordType
<1>13. \A j \in Slots : records'[j].active => records'[j].size > 0 /\ records'[j].requested <= records'[j].size
  BY <1>1 DEF GoodTable
<1>16. records[kept].size > 0 /\ records[gone].size > 0
  BY <1>1 DEF Free
<1>17. \A s \in Pools : /\ ptr[s] \in Nat /\ Base(s) \in Nat /\ Limit(s) \in Nat
                        /\ Base(s) <= ptr[s] /\ ptr[s] <= Limit(s)
  BY DEF GoodTable, PoolsApart
<1>19. Placed(records'[kept], ptr)
  BY <1>1, <1>2, <1>7, <1>17 DEF Placed
<1>20. \A j \in Slots : records'[j].size > 0 => Placed(records'[j], ptr)
  BY <1>1, <1>19 DEF GoodTable
<1>21. \A j \in Slots : j # kept /\ j # gone /\ records[j].size > 0 =>
         Separate(records'[kept], records[j]) /\ Separate(records[j], records'[kept])
  <2> TAKE j \in Slots
  <2> HAVE j # kept /\ j # gone /\ records[j].size > 0
  <2>1. Separate(records[kept], records[j]) /\ Separate(records[gone], records[j])
    BY <1>1, <1>16 DEF GoodTable
  <2> QED
    BY <1>1, <1>7, <2>1 DEF Separate
<1>22. \A j, l \in Slots : j # l /\ records'[j].size > 0 /\ records'[l].size > 0 =>
         Separate(records'[j], records'[l])
  BY <1>1, <1>21 DEF GoodTable
<1>23. GoodTable(records', ptr)
  <2>1. ptr \in [Pools -> Nat] /\ \A s \in Pools : Base(s) <= ptr[s] /\ ptr[s] <= Limit(s)
    BY DEF GoodTable
  <2> QED BY <1>1, <1>13, <1>20, <1>22, <2>1 DEF GoodTable
<1>24. records'[kept].size > 0
  BY <1>1, <1>7, <1>16
<1> QED
  BY <1>1, <1>23, <1>24 DEF Free

(* The pointer sinks to the start of the block below it; no other block of *)
(* the pool ends higher.                                                   *)
LEMMA TrimStaysGood ==
  ASSUME PoolsApart, GoodTable(records, ptr), LoopsInv, Trim
  PROVE  GoodTable(records', ptr')
<1> DEFINE i == First(Tops)
<1>1. trimmed \in Pools
  BY DEF Trim, LoopsInv
<1>2. i \in Slots /\ Free(i) /\ InPool(i, trimmed) /\ End(i) = ptr[trimmed]
  <2>1. Tops \in SUBSET Slots /\ i \in Tops
    BY FirstIsMember DEF Tops, Trim
  <2> HIDE DEF i
  <2> QED BY <2>1 DEF Tops
<1>3. ptr' = [ptr EXCEPT ![trimmed] = records[i].addr] /\ records' = [records EXCEPT ![i] = Unused]
  BY DEF Trim
<1> HIDE DEF i
<1>4. \A j \in Slots : /\ records[j] \in RecordType
                       /\ records[j].addr \in Nat /\ records[j].size \in Nat
  BY DEF GoodTable, RecordType
<1>5. \A s \in Pools : /\ ptr[s] \in Nat /\ Base(s) \in Nat /\ Limit(s) \in Nat
                       /\ Base(s) <= ptr[s] /\ ptr[s] <= Limit(s)
  BY DEF GoodTable, PoolsApart
<1>6. /\ records' \in [Slots -> RecordType] /\ records'[i] = Unused
      /\ \A j \in Slots : j # i => records'[j] = records[j]
  BY <1>2, <1>3, <1>4 DEF GoodTable, RecordType, Unused
<1>7. /\ ptr' \in [Pools -> Nat] /\ ptr'[trimmed] = records[i].addr
      /\ \A s \in Pools : s # trimmed => ptr'[s] = ptr[s]
      /\ \A s \in Pools : Base(s) <= ptr'[s] /\ ptr'[s] <= Limit(s)
  BY <1>1, <1>2, <1>3, <1>4, <1>5 DEF GoodTable, InPool
<1>8. records[i].size > 0
  BY <1>2 DEF Free
<1>9. \A j \in Slots : records'[j].size > 0 => j # i
  BY <1>6 DEF Unused
<1>10. \A j \in Slots : records'[j].size > 0 => Placed(records'[j], ptr')
  <2> TAKE j \in Slots
  <2> HAVE records'[j].size > 0
  <2>1. j # i /\ records'[j] = records[j] /\ records[j].size > 0
    BY <1>6, <1>9
  <2>2. PICK s \in Pools : /\ records[j].class = ClassOf(s) /\ Base(s) <= records[j].addr
                           /\ records[j].addr + records[j].size <= ptr[s]
    BY <2>1 DEF GoodTable, Placed
  <2>3. CASE s # trimmed
    BY <1>7, <2>1, <2>2, <2>3 DEF Placed
  <2>4. CASE s = trimmed
    <3>1. Separate(records[i], records[j])
      BY <1>2, <1>8, <2>1 DEF GoodTable
    <3>2. records[j].addr + records[j].size <= records[i].addr
      BY <1>2, <1>4, <1>5, <2>1, <2>2, <2>4, <3>1 DEF Separate, End
    <3> QED BY <1>7, <2>1, <2>2, <2>4, <3>2 DEF Placed
  <2> QED BY <2>3, <2>4
<1>11. \A j \in Slots : records'[j].active => records'[j].size > 0 /\ records'[j].requested <= records'[j].size
  BY <1>6 DEF GoodTable, Unused
<1>12. \A j, l \in Slots : j # l /\ records'[j].size > 0 /\ records'[l].size > 0 =>
         Separate(records'[j], records'[l])
  BY <1>6, <1>9 DEF GoodTable
<1> QED
  BY <1>6, <1>7, <1>10, <1>11, <1>12 DEF GoodTable

----------------------------------------------------------------------------
(* The theorems.                                                           *)

(* The requests are natural numbers of bytes.                              *)
LEMMA ProductType ==
  ASSUME NEW a \in Nat, NEW b \in Nat
  PROVE  MulSizeOrZero(a, b) \in Nat
BY DEF MulSizeOrZero

IInv == TypeOK /\ HeapInv

LEMMA InitEstablishes == Init => IInv
<1> SUFFICES ASSUME Init PROVE IInv
  OBVIOUS
<1>1. PoolsApart
  BY PoolsLieApart DEF Init
<1>2. Unused \in RecordType /\ Unused.size = 0 /\ ~ Unused.active
  BY DEF Unused, RecordType
<1>3. TypeOK
  BY <1>1, <1>2 DEF Init, TypeOK, PoolsApart, None
<1>4. HeapInv
  BY <1>2 DEF Init, HeapInv, LoopsInv, RecordsBelow, RecordsApart, ActiveUsed, Used, Active
<1> QED BY <1>3, <1>4 DEF IInv

(* The pools do not move while the program runs.                           *)
LEMMA PoolsStay ==
  ASSUME UNCHANGED <<mode, heapStart>>
  PROVE  /\ \A p : Base(p)' = Base(p) /\ Limit(p)' = Limit(p)
         /\ \A table, pointers : GoodTable(table, pointers)
              => /\ \A i \in Slots : table[i].size > 0 =>
                      \E p \in Pools : /\ table[i].class = ClassOf(p) /\ Base(p)' <= table[i].addr
                                       /\ table[i].addr + table[i].size <= pointers[p]
BY DEF Base, Limit, Range, InternalRange, ExtRange, PsramRange, InternalHeapStart, GoodTable, Placed

(* A step that leaves a good table and a loop with its work preserves the  *)
(* invariant.                                                              *)
LEMMA GoodStep ==
  ASSUME IInv, UNCHANGED <<mode, heapStart>>, GoodTable(records', ptr'), LoopsInv',
         pc' \in {"idle", "merge", "trim"}, freed' \in Slots \cup {0},
         trimmed' \in Pools \cup {None}
  PROVE  IInv'
<1>1. \A p : Base(p)' = Base(p) /\ Limit(p)' = Limit(p)
  BY PoolsStay
<1>2. TypeOK'
  BY <1>1 DEF IInv, TypeOK, GoodTable
<1>3. PoolsApart'
  BY PoolsLieApart, PoolsStay DEF IInv, TypeOK, PoolsApart
<1>4. GoodTable(records, ptr)'
  BY <1>1 DEF GoodTable, Placed
<1> QED
  BY <1>2, <1>3, <1>4, GoodTableIsInvariant, PTL DEF IInv, HeapInv

LEMMA MallocPreserves ==
  ASSUME IInv, NEW bytes \in Nat, NEW caps, Malloc(bytes, caps)
  PROVE  IInv'
<1>1. PoolsApart /\ GoodTable(records, ptr) /\ LoopsInv
  BY PoolsLieApart, GoodTableIsInvariant DEF IInv, TypeOK, HeapInv
<1>2. GoodTable(records', ptr')
  BY <1>1, AllocatedStaysGood DEF Malloc
<1>3. LoopsInv' /\ UNCHANGED <<mode, heapStart, pc, freed, trimmed>>
  BY DEF Malloc, LoopsInv
<1> QED
  BY <1>2, <1>3, GoodStep DEF IInv, TypeOK

LEMMA FreePreserves ==
  ASSUME IInv, NEW addr, FreeBlock(addr)
  PROVE  IInv'
<1>1. GoodTable(records, ptr)
  BY PoolsLieApart, GoodTableIsInvariant DEF IInv, TypeOK, HeapInv
<1>2. UNCHANGED <<mode, heapStart, ptr>> /\ pc = "idle" /\ StartFree(records, addr)
  BY DEF FreeBlock
<1> QED
  BY <1>1, <1>2, StartFreeStaysGood, GoodStep DEF IInv

LEMMA ReallocPreserves ==
  ASSUME IInv, NEW addr, NEW bytes \in Nat, NEW caps, Realloc(addr, bytes, caps)
  PROVE  IInv'
<1>1. CASE FreeBlock(addr)
  BY <1>1, FreePreserves
<1>2. CASE Malloc(bytes, caps)
  BY <1>2, MallocPreserves
<1>3. CASE /\ pc = "idle" /\ UNCHANGED <<mode, heapStart>>
           /\ LET p == Grants(bytes, caps) IN
              IF p = None
              THEN UNCHANGED <<ptr, records, freed, trimmed, pc>>
              ELSE StartFree(Allocated(p, bytes), addr) /\ ptr' = PtrAfter(p, bytes)
  <2>1. PoolsApart /\ GoodTable(records, ptr) /\ LoopsInv
    BY PoolsLieApart, GoodTableIsInvariant DEF IInv, TypeOK, HeapInv
  <2>2. CASE Grants(bytes, caps) = None
    <3>1. UNCHANGED vars
      BY <1>3, <2>2 DEF vars
    <3>2. GoodTable(records', ptr') /\ LoopsInv'
      BY <2>1, <3>1 DEF vars, LoopsInv, Free
    <3> QED BY <3>1, <3>2, GoodStep DEF vars, IInv, TypeOK
  <2>3. CASE Grants(bytes, caps) # None
    <3> DEFINE table == Allocated(Grants(bytes, caps), bytes)
               pointers == PtrAfter(Grants(bytes, caps), bytes)
    <3>1. GoodTable(table, pointers)
      BY <2>1, <2>3, AllocatedStaysGood
    <3>2. StartFree(table, addr) /\ ptr' = pointers
      BY <1>3, <2>3
    <3> HIDE DEF table, pointers
    <3> QED BY <1>3, <3>1, <3>2, StartFreeStaysGood, GoodStep DEF IInv
  <2> QED BY <2>2, <2>3
<1> QED
  BY <1>1, <1>2, <1>3 DEF Realloc

LEMMA StepPreserves == IInv /\ [Next]_vars => IInv'
<1> SUFFICES ASSUME IInv, [Next]_vars PROVE IInv'
  OBVIOUS
<1>0. PoolsApart /\ GoodTable(records, ptr) /\ LoopsInv /\ TypeOK
  BY PoolsLieApart, GoodTableIsInvariant DEF IInv, TypeOK, HeapInv
<1>1. ASSUME NEW bytes \in Amounts, NEW wish \in Wishes, Malloc(bytes, CapsOf(wish))
      PROVE  IInv'
  BY <1>1, MallocPreserves, InputAssumption
<1>2. ASSUME NEW a \in Factors, NEW b \in Factors, NEW wish \in Wishes, Calloc(a, b, CapsOf(wish))
      PROVE  IInv'
  BY <1>2, MallocPreserves, ProductType, InputAssumption DEF Calloc
<1>3. ASSUME NEW addr \in Known, FreeBlock(addr)
      PROVE  IInv'
  BY <1>3, FreePreserves
<1>4. ASSUME NEW addr \in Known, NEW bytes \in Amounts, NEW wish \in Wishes,
             Realloc(addr, bytes, CapsOf(wish))
      PROVE  IInv'
  BY <1>4, ReallocPreserves, InputAssumption
<1>5. CASE Merge
  <2>1. GoodTable(records', ptr) /\ freed' \in Slots /\ Free(freed)'
    BY <1>0, <1>5, MergeStaysGood
  <2>2. UNCHANGED <<mode, heapStart, ptr, pc, trimmed>>
    BY <1>5 DEF Merge
  <2>3. LoopsInv'
    BY <1>0, <2>1, <2>2 DEF LoopsInv
  <2> QED BY <1>0, <2>1, <2>2, <2>3, GoodStep DEF TypeOK
<1>6. CASE MergeEnds
  <2>1. UNCHANGED <<mode, heapStart, ptr, records, freed, trimmed>> /\ pc = "merge" /\ pc' = "trim"
    BY <1>6 DEF MergeEnds
  <2>2. LoopsInv'
    BY <1>0, <2>1 DEF LoopsInv
  <2> QED BY <1>0, <2>1, <2>2, GoodStep DEF TypeOK
<1>7. CASE Trim
  <2>1. GoodTable(records', ptr')
    BY <1>0, <1>7, TrimStaysGood
  <2>2. UNCHANGED <<mode, heapStart, pc, freed, trimmed>> /\ pc = "trim"
    BY <1>7 DEF Trim
  <2>3. LoopsInv'
    BY <1>0, <2>2 DEF LoopsInv
  <2> QED BY <1>0, <2>1, <2>2, <2>3, GoodStep DEF TypeOK
<1>8. CASE TrimEnds
  <2>1. UNCHANGED <<mode, heapStart, ptr, records>> /\ pc' = "idle" /\ freed' = 0 /\ trimmed' = None
    BY <1>8 DEF TrimEnds
  <2>2. LoopsInv'
    BY <2>1 DEF LoopsInv
  <2> QED BY <1>0, <2>1, <2>2, GoodStep
<1>9. CASE UNCHANGED vars
  <2>1. UNCHANGED <<mode, heapStart, ptr, records, pc, freed, trimmed>>
    BY <1>9 DEF vars
  <2>2. LoopsInv'
    BY <1>0, <2>1 DEF LoopsInv, Free
  <2> QED BY <1>0, <2>1, <2>2, GoodStep DEF TypeOK
<1> QED
  BY <1>1, <1>2, <1>3, <1>4, <1>5, <1>6, <1>7, <1>8, <1>9 DEF Next

(* Every pointer stays in its pool and every record is well formed, for    *)
(* any layout of the memory and any table.                                 *)
THEOREM HeapTypeCorrect == Spec => []TypeOK
<1>1. IInv => TypeOK
  BY DEF IInv
<1> QED
  BY <1>1, InitEstablishes, StepPreserves, PTL DEF Spec

(* No byte of the guest's memory is ever part of two blocks, and every     *)
(* block lies below the pointer of its pool: the firmware's allocations    *)
(* never overlap, whatever it frees, reallocates or asks for twice.        *)
THEOREM BlocksStayApart == Spec => []HeapInv
<1>1. IInv => HeapInv
  BY DEF IInv
<1> QED
  BY <1>1, InitEstablishes, StepPreserves, PTL DEF Spec

----------------------------------------------------------------------------
(***************************************************************************)
(* The heap implements BlockHeap: an allocation obtains a block, a free    *)
(* releases one, a reallocation moves one or changes nothing, and the      *)
(* loops that merge and trim free blocks are not seen by the guest.        *)
(***************************************************************************)
BlockOf(record) == [addr |-> record.addr, size |-> record.size, requested |-> record.requested]
LiveIn(table) == {BlockOf(table[i]) : i \in {j \in Slots : table[j].active}}

Regions == {[base |-> DramBase, limit |-> TestLimit], [base |-> HeapBase, limit |-> HeapLimit]}

(* Live of the module SimHeap, of its table.                               *)
LEMMA LiveIsOfTable == Live = LiveIn(records) /\ Live' = LiveIn(records')
BY DEF Live, LiveIn, BlockOf, Active

----------------------------------------------------------------------------
(* Every pool lies in a region, or is empty.                               *)
LEMMA PoolsInRegions ==
  ASSUME mode \in {"device", "test"}, heapStart \in HeapStarts, NEW p \in Pools,
         Base(p) < Limit(p)
  PROVE  \E r \in Regions : r.base <= Base(p) /\ Limit(p) <= r.limit
<1> USE LayoutAssumption
<1>0. heapStart \in Nat
  BY InputAssumption
<1>a. \A a \in {DramBase, RomStubBase, RomStubLimit, ExternalRamBase, TestLimit, InternalBytes,
                HeapBase, PsramLimit, HeapLimit} : a \in Nat
  OBVIOUS
<1>1. InternalHeapStart \in Nat /\ DramBase <= InternalHeapStart
  BY <1>0, <1>a, AlignUpRounds DEF InternalHeapStart
<1>2. DramBase <= InternalRange.base /\ InternalRange.limit <= TestLimit
  BY <1>1, <1>a DEF InternalRange, Lower
<1>3. ExtRange.base < ExtRange.limit => DramBase <= ExtRange.base /\ ExtRange.limit <= TestLimit
  BY <1>1, <1>a DEF ExtRange, Lower
<1>4. PsramRange.base = HeapBase /\ PsramRange.limit <= HeapLimit
  BY <1>a DEF PsramRange
<1>5. /\ Base("internal") = InternalRange.base /\ Limit("internal") = InternalRange.limit
      /\ Base("ext") = ExtRange.base /\ Limit("ext") = ExtRange.limit
      /\ Base("psram") = PsramRange.base /\ Limit("psram") = PsramRange.limit
  BY DEF Base, Limit, Range, Pools
<1>6. CASE p = "psram"
  <2>1. [base |-> HeapBase, limit |-> HeapLimit] \in Regions
    BY DEF Regions
  <2> QED BY <1>a, <1>4, <1>5, <1>6, <2>1
<1>7. CASE p \in {"internal", "ext"}
  <2>1. [base |-> DramBase, limit |-> TestLimit] \in Regions
    BY DEF Regions
  <2>2. DramBase <= Base(p) /\ Limit(p) <= TestLimit
    BY <1>2, <1>3, <1>5, <1>7
  <2> QED BY <2>1, <2>2
<1> QED BY <1>6, <1>7 DEF Pools

(* A live record of a good table is a block as BlockHeap wants it, in a    *)
(* region, and apart from the other live ones.                             *)
LEMMA LiveRecordIsFresh ==
  ASSUME mode \in {"device", "test"}, heapStart \in HeapStarts, PoolsApart,
         NEW table, NEW pointers, GoodTable(table, pointers), NEW s \in Slots, table[s].active
  PROVE  /\ Promised!Block(BlockOf(table[s])) /\ Promised!Inside(BlockOf(table[s]))
         /\ \A j \in Slots : j # s /\ table[j].active =>
              /\ Promised!Apart(BlockOf(table[s]), BlockOf(table[j]))
              /\ BlockOf(table[s]) # BlockOf(table[j])
<1> DEFINE r == table[s]
<1>1. /\ r \in RecordType /\ r.addr \in Nat /\ r.size \in Nat /\ r.requested \in Nat
      /\ r.size > 0 /\ r.requested <= r.size
  BY DEF GoodTable, RecordType
<1>2. /\ BlockOf(r).addr = r.addr /\ BlockOf(r).size = r.size /\ BlockOf(r).requested = r.requested
  BY DEF BlockOf
<1>3. Promised!Block(BlockOf(r))
  BY <1>1, <1>2 DEF Promised!Block
<1>4. PICK p \in Pools : Base(p) <= r.addr /\ r.addr + r.size <= pointers[p]
  BY <1>1 DEF GoodTable, Placed
<1>5. /\ pointers[p] \in Nat /\ pointers[p] <= Limit(p) /\ Base(p) \in Nat /\ Limit(p) \in Nat
  BY DEF GoodTable, PoolsApart
<1>6. Base(p) < Limit(p)
  BY <1>1, <1>4, <1>5
<1>7. PICK q \in Regions : q.base <= Base(p) /\ Limit(p) <= q.limit
  BY <1>6, PoolsInRegions
<1>8. q.base \in Nat /\ q.limit \in Nat
  BY <1>7, LayoutAssumption DEF Regions
<1>9. q.base <= BlockOf(r).addr /\ BlockOf(r).addr + BlockOf(r).size <= q.limit
  BY <1>1, <1>2, <1>4, <1>5, <1>7, <1>8
<1>10. Promised!Inside(BlockOf(r))
  BY <1>9 DEF Promised!Inside, Regions
<1>11. ASSUME NEW j \in Slots, j # s, table[j].active
       PROVE  /\ Promised!Apart(BlockOf(r), BlockOf(table[j])) /\ BlockOf(r) # BlockOf(table[j])
  <2>1. table[j].size > 0 /\ table[j].addr \in Nat /\ table[j].size \in Nat
    BY <1>11 DEF GoodTable, RecordType
  <2>2. Separate(r, table[j])
    BY <1>1, <1>11, <2>1 DEF GoodTable
  <2>3. /\ BlockOf(table[j]).addr = table[j].addr /\ BlockOf(table[j]).size = table[j].size
    BY DEF BlockOf
  <2>4. Promised!Apart(BlockOf(r), BlockOf(table[j]))
    BY <1>2, <2>2, <2>3 DEF Promised!Apart, Separate
  <2>5. r.addr # table[j].addr
    BY <1>1, <2>1, <2>2 DEF Separate
  <2> QED BY <1>2, <2>3, <2>4, <2>5
<1> QED BY <1>3, <1>10, <1>11

----------------------------------------------------------------------------
(* An allocation that is granted makes one record live and leaves the      *)
(* other live ones alone.                                                  *)
OneMore(table, s) ==
  /\ s \in Slots /\ ~ records[s].active /\ table[s].active
  /\ \A j \in Slots : j # s => /\ table[j].active = records[j].active
                               /\ table[j].active => table[j] = records[j]

LEMMA AllocatedAddsOne ==
  ASSUME GoodTable(records, ptr), NEW bytes \in Nat, NEW caps, Grants(bytes, caps) # None
  PROVE  \E s \in Slots : OneMore(Allocated(Grants(bytes, caps), bytes), s)
<1> DEFINE p == Grants(bytes, caps)
           n == AlignSize(bytes)
<1>1. p \in Pools /\ n \in Nat /\ (Fitting(p, n) # {} \/ Holds(p, n))
  BY GrantedHasRoom, AlignSizeType
<1>2. \A j \in Slots : records[j] \in RecordType
  BY DEF GoodTable
<1> HIDE DEF p, n
<1>3. CASE Fitting(p, n) # {}
  <2> DEFINE i == Best(p, n)
             t == Reused(i, n, bytes)
  <2>1. i \in Slots /\ ~ records[i].active
    BY <1>1, <1>3, BestFits DEF GoodTable, Fitting, Free
  <2>2. TailSlot(i, n) \subseteq {k \in Slots : ~ records[k].active}
    <3>1. Spares \in SUBSET Slots /\ (Spares # {} => First(Spares) \in Spares)
      BY FirstIsMember DEF Spares
    <3> QED BY <3>1 DEF TailSlot, Spares
  <2> HIDE DEF i
  <2>3. t[i].active
    <3>1. t[i] = [records[i] EXCEPT !.requested = bytes, !.active = TRUE,
                      !.size = IF records[i].size > n /\ Spares # {} THEN n ELSE @]
      BY <2>1 DEF Reused
    <3>2. records[i] \in RecordType
      BY <1>2, <2>1
    <3> QED BY <3>1, <3>2 DEF RecordType
  <2>4. \A j \in Slots : j # i => (t[j] = records[j] \/ (~ t[j].active /\ ~ records[j].active))
    BY <2>2 DEF Reused
  <2>5. \A j \in Slots : j # i => t[j].active = records[j].active
    <3>1. \A j \in Slots : ~ t[j].active /\ ~ records[j].active => t[j].active = records[j].active
      <4> TAKE j \in Slots
      <4> HAVE ~ t[j].active /\ ~ records[j].active
      <4>1. CASE t[j] = records[j]
        BY <4>1
      <4>2. CASE t[j] # records[j]
        <5>1. j # i /\ j \in TailSlot(i, n)
          BY <4>2, <2>3 DEF Reused
        <5>2. t[j].active = FALSE
          BY <5>1 DEF Reused
        <5>3. records[j].active = FALSE
          BY <1>2 DEF RecordType
        <5> QED BY <5>2, <5>3
      <4> QED BY <4>1, <4>2
    <3> QED BY <2>4, <3>1
  <2> HIDE DEF t
  <2>6. OneMore(t, i)
    BY <2>1, <2>3, <2>4, <2>5 DEF OneMore
  <2> QED BY <1>3, <2>1, <2>6 DEF Allocated, Reuses, p, n, i, t
<1>4. CASE ~ (Fitting(p, n) # {})
  <2> DEFINE k == First(Spares)
             t == Bumped(p, n, bytes)
  <2>1. k \in Slots /\ ~ records[k].active
    <3>1. Spares \in SUBSET Slots /\ k \in Spares
      BY <1>1, <1>4, FirstIsMember DEF Spares, Holds
    <3> QED BY <3>1 DEF Spares
  <2> HIDE DEF k
  <2>2. t = [records EXCEPT ![k] = [addr |-> ptr[p], requested |-> bytes, size |-> n,
                                    class |-> ClassOf(p), active |-> TRUE]]
    BY DEF Bumped, k
  <2>3. t[k].active /\ \A j \in Slots : j # k => t[j] = records[j]
    BY <2>1, <2>2 DEF GoodTable
  <2> HIDE DEF t
  <2>4. OneMore(t, k)
    BY <2>1, <2>3 DEF OneMore
  <2> QED BY <1>4, <2>1, <2>4 DEF Allocated, Reuses, p, n, t
<1> QED BY <1>3, <1>4

(* What that means for the guest: one more block, a fresh one.             *)
LEMMA OneMoreIsFresh ==
  ASSUME mode \in {"device", "test"}, heapStart \in HeapStarts, PoolsApart,
         NEW table, NEW pointers, GoodTable(table, pointers), NEW s \in Slots, OneMore(table, s)
  PROVE  /\ LiveIn(table) = LiveIn(records) \cup {BlockOf(table[s])}
         /\ BlockOf(table[s]) \notin LiveIn(records)
         /\ Promised!Fresh(BlockOf(table[s]))
<1>1. /\ Promised!Block(BlockOf(table[s])) /\ Promised!Inside(BlockOf(table[s]))
      /\ \A j \in Slots : j # s /\ table[j].active =>
              /\ Promised!Apart(BlockOf(table[s]), BlockOf(table[j]))
              /\ BlockOf(table[s]) # BlockOf(table[j])
  BY LiveRecordIsFresh DEF OneMore
<1>2. \A j \in Slots : records[j].active => j # s /\ table[j].active /\ table[j] = records[j]
  BY DEF OneMore
<1>3. \A j \in Slots : table[j].active /\ j # s => records[j].active /\ table[j] = records[j]
  BY DEF OneMore
<1>4. LiveIn(table) = LiveIn(records) \cup {BlockOf(table[s])}
  BY <1>2, <1>3 DEF LiveIn, OneMore
<1>5. \A b \in LiveIn(records) : Promised!Apart(BlockOf(table[s]), b) /\ BlockOf(table[s]) # b
  BY <1>1, <1>2 DEF LiveIn
<1>6. Promised!Fresh(BlockOf(table[s]))
  BY <1>1, <1>5, LiveIsOfTable DEF Promised!Fresh
<1> QED BY <1>4, <1>5, <1>6

----------------------------------------------------------------------------
(* A free makes one live record free, or nothing.                          *)
LEMMA StartFreeReleases ==
  ASSUME mode \in {"device", "test"}, heapStart \in HeapStarts, PoolsApart,
         NEW table, NEW pointers, GoodTable(table, pointers), NEW addr, StartFree(table, addr)
  PROVE  \/ LiveIn(records') = LiveIn(table)
         \/ \E i \in Slots : /\ table[i].active
                             /\ LiveIn(records') = LiveIn(table) \ {BlockOf(table[i])}
<1>1. CASE addr # Null /\ Found(table, addr) # {}
  <2> DEFINE i == First(Found(table, addr))
  <2>1. i \in Slots /\ table[i].active
    <3>1. Found(table, addr) \in SUBSET Slots /\ i \in Found(table, addr)
      BY <1>1, FirstIsMember DEF Found
    <3> QED BY <3>1 DEF Found
  <2>2. records' = [table EXCEPT ![i].active = FALSE, ![i].requested = table[i].size]
    BY <1>1 DEF StartFree
  <2> HIDE DEF i
  <2>3. table[i] \in RecordType /\ DOMAIN table = Slots
    BY <2>1 DEF GoodTable
  <2>4. ~ records'[i].active /\ \A j \in Slots : j # i => records'[j] = table[j]
    BY <2>1, <2>2, <2>3 DEF RecordType
  <2>5. \A j \in Slots : j # i /\ table[j].active => BlockOf(table[i]) # BlockOf(table[j])
    BY <2>1, LiveRecordIsFresh
  <2>6. LiveIn(records') = LiveIn(table) \ {BlockOf(table[i])}
    BY <2>1, <2>4, <2>5 DEF LiveIn
  <2> QED BY <2>1, <2>6
<1>2. CASE ~ (addr # Null /\ Found(table, addr) # {})
  BY <1>2 DEF StartFree
<1> QED BY <1>1, <1>2

----------------------------------------------------------------------------
(* The steps.                                                              *)

LEMMA MallocKeepsPromise ==
  ASSUME IInv, NEW bytes \in Nat, NEW caps, Malloc(bytes, caps)
  PROVE  [Promised!Next]_Live
<1>1. /\ mode \in {"device", "test"} /\ heapStart \in HeapStarts /\ PoolsApart
      /\ GoodTable(records, ptr)
  BY PoolsLieApart, GoodTableIsInvariant DEF IInv, TypeOK, HeapInv
<1>2. CASE Grants(bytes, caps) = None
  BY <1>2, LiveIsOfTable DEF Malloc
<1>3. CASE Grants(bytes, caps) # None
  <2> DEFINE table == Allocated(Grants(bytes, caps), bytes)
  <2>1. records' = table /\ GoodTable(table, PtrAfter(Grants(bytes, caps), bytes))
    BY <1>1, <1>3, AllocatedStaysGood DEF Malloc
  <2>2. PICK s \in Slots : OneMore(table, s)
    BY <1>1, <1>3, AllocatedAddsOne
  <2> HIDE DEF table
  <2> DEFINE block == BlockOf(table[s])
  <2>3. LiveIn(table) = LiveIn(records) \cup {block} /\ block \notin LiveIn(records)
        /\ Promised!Fresh(block)
    BY <1>1, <2>1, <2>2, OneMoreIsFresh
  <2> HIDE DEF block
  <2>4. Promised!Obtain(block) /\ block \in Live' \ Live
    BY <2>1, <2>3, LiveIsOfTable DEF Promised!Obtain
  <2> QED BY <2>4 DEF Promised!Next
<1> QED BY <1>2, <1>3

LEMMA FreeKeepsPromise ==
  ASSUME IInv, NEW addr, FreeBlock(addr)
  PROVE  [Promised!Next]_Live
<1>1. /\ mode \in {"device", "test"} /\ heapStart \in HeapStarts /\ PoolsApart
      /\ GoodTable(records, ptr)
  BY PoolsLieApart, GoodTableIsInvariant DEF IInv, TypeOK, HeapInv
<1>2. StartFree(records, addr)
  BY DEF FreeBlock
<1>3. CASE LiveIn(records') = LiveIn(records)
  BY <1>3, LiveIsOfTable
<1>4. ASSUME NEW i \in Slots, records[i].active,
             LiveIn(records') = LiveIn(records) \ {BlockOf(records[i])}
      PROVE  Promised!Next
  <2>1. BlockOf(records[i]) \in LiveIn(records)
    BY <1>4 DEF LiveIn
  <2> QED BY <1>4, <2>1, LiveIsOfTable DEF Promised!Next, Promised!Release
<1> QED BY <1>1, <1>2, <1>3, <1>4, StartFreeReleases

(* A reallocation may be asked to free the very block it has just handed   *)
(* out, when its address was that of a free record: then nothing changes.  *)
LEMMA ReallocKeepsPromise ==
  ASSUME IInv, NEW addr, NEW bytes \in Nat, NEW caps, Realloc(addr, bytes, caps)
  PROVE  [Promised!Next]_Live
<1>1. CASE FreeBlock(addr)
  BY <1>1, FreeKeepsPromise
<1>2. CASE Malloc(bytes, caps)
  BY <1>2, MallocKeepsPromise
<1>3. CASE LET p == Grants(bytes, caps) IN
           IF p = None
           THEN UNCHANGED <<ptr, records, freed, trimmed, pc>>
           ELSE StartFree(Allocated(p, bytes), addr) /\ ptr' = PtrAfter(p, bytes)
  <2>1. /\ mode \in {"device", "test"} /\ heapStart \in HeapStarts /\ PoolsApart
        /\ GoodTable(records, ptr)
    BY PoolsLieApart, GoodTableIsInvariant DEF IInv, TypeOK, HeapInv
  <2>2. CASE Grants(bytes, caps) = None
    BY <1>3, <2>2, LiveIsOfTable
  <2>3. CASE Grants(bytes, caps) # None
    <3> DEFINE table == Allocated(Grants(bytes, caps), bytes)
               pointers == PtrAfter(Grants(bytes, caps), bytes)
    <3>1. GoodTable(table, pointers)
      BY <2>1, <2>3, AllocatedStaysGood
    <3>2. StartFree(table, addr)
      BY <1>3, <2>3
    <3>3. PICK s \in Slots : OneMore(table, s)
      BY <2>1, <2>3, AllocatedAddsOne
    <3> HIDE DEF table, pointers
    <3> DEFINE block == BlockOf(table[s])
    <3>4. /\ LiveIn(table) = LiveIn(records) \cup {block} /\ block \notin LiveIn(records)
          /\ Promised!Fresh(block)
      BY <2>1, <3>1, <3>3, OneMoreIsFresh
    <3> HIDE DEF block
    <3>5. CASE LiveIn(records') = LiveIn(table)
      <4>1. Promised!Obtain(block) /\ block \in Live' \ Live
        BY <3>4, <3>5, LiveIsOfTable DEF Promised!Obtain
      <4> QED BY <4>1 DEF Promised!Next
    <3>6. ASSUME NEW i \in Slots, table[i].active,
                 LiveIn(records') = LiveIn(table) \ {BlockOf(table[i])}
          PROVE  [Promised!Next]_Live
      <4>1. BlockOf(table[i]) \in LiveIn(table)
        BY <3>6 DEF LiveIn
      <4>2. CASE BlockOf(table[i]) = block
        BY <3>4, <3>6, <4>2, LiveIsOfTable
      <4>3. CASE BlockOf(table[i]) # block
        <5>1. Promised!Move(block, BlockOf(table[i])) /\ block \in Live' \ Live
              /\ BlockOf(table[i]) \in Live
          BY <3>4, <3>6, <4>1, <4>3, LiveIsOfTable DEF Promised!Move
        <5> QED BY <5>1 DEF Promised!Next
      <4> QED BY <4>2, <4>3
    <3> QED BY <2>1, <3>1, <3>2, <3>5, <3>6, StartFreeReleases
  <2> QED BY <2>2, <2>3
<1> QED BY <1>1, <1>2, <1>3 DEF Realloc

(* Merging and trimming touch free records only.                           *)
LEMMA LoopsUnseen ==
  ASSUME IInv, Merge \/ Trim
  PROVE  UNCHANGED Live
<1>1. \A j \in Slots : records[j] \in RecordType
  BY DEF IInv, TypeOK
<1>2. DOMAIN records = Slots
  BY DEF IInv, TypeOK
<1>3. CASE Merge
  <2> DEFINE i == First(Neighbours)
             kept == IF End(freed) = records[i].addr THEN freed ELSE i
             gone == IF kept = freed THEN i ELSE freed
             size == records[freed].size + records[i].size
  <2>1. freed \in Slots /\ ~ records[freed].active
    BY <1>3 DEF Merge, IInv, HeapInv, LoopsInv, Free
  <2>2. i \in Slots /\ ~ records[i].active
    <3>1. Neighbours \in SUBSET Slots /\ i \in Neighbours
      BY <1>3, FirstIsMember DEF Neighbours, Merge
    <3> QED BY <3>1 DEF Neighbours, Mergeable, Free
  <2>3. records' = [records EXCEPT ![kept].size = size, ![kept].requested = size, ![gone] = Unused]
    BY <1>3 DEF Merge
  <2> HIDE DEF i
  <2>4. kept \in Slots /\ gone \in Slots /\ ~ records[kept].active /\ ~ records[gone].active
    BY <2>1, <2>2
  <2> HIDE DEF kept, gone, size
  <2>5. /\ ~ records'[kept].active /\ ~ records'[gone].active
        /\ \A j \in Slots : j # kept /\ j # gone => records'[j] = records[j]
    BY <1>1, <1>2, <2>3, <2>4 DEF RecordType, Unused
  <2> QED BY <2>4, <2>5, LiveIsOfTable DEF LiveIn
<1>4. CASE Trim
  <2> DEFINE i == First(Tops)
  <2>1. i \in Slots /\ ~ records[i].active
    <3>1. Tops \in SUBSET Slots /\ i \in Tops
      BY <1>4, FirstIsMember DEF Tops, Trim
    <3> QED BY <3>1 DEF Tops, Free
  <2>2. records' = [records EXCEPT ![i] = Unused]
    BY <1>4 DEF Trim
  <2> HIDE DEF i
  <2>3. ~ records'[i].active /\ \A j \in Slots : j # i => records'[j] = records[j]
    BY <1>2, <2>1, <2>2 DEF Unused
  <2> QED BY <2>1, <2>3, LiveIsOfTable DEF LiveIn
<1> QED BY <1>3, <1>4

LEMMA StepKeepsPromise == IInv /\ [Next]_vars => [Promised!Next]_Live
<1> SUFFICES ASSUME IInv, [Next]_vars PROVE [Promised!Next]_Live
  OBVIOUS
<1>1. ASSUME NEW bytes \in Amounts, NEW wish \in Wishes, Malloc(bytes, CapsOf(wish))
      PROVE  [Promised!Next]_Live
  BY <1>1, MallocKeepsPromise, InputAssumption
<1>2. ASSUME NEW a \in Factors, NEW b \in Factors, NEW wish \in Wishes, Calloc(a, b, CapsOf(wish))
      PROVE  [Promised!Next]_Live
  BY <1>2, MallocKeepsPromise, ProductType, InputAssumption DEF Calloc
<1>3. ASSUME NEW addr \in Known, FreeBlock(addr)
      PROVE  [Promised!Next]_Live
  BY <1>3, FreeKeepsPromise
<1>4. ASSUME NEW addr \in Known, NEW bytes \in Amounts, NEW wish \in Wishes,
             Realloc(addr, bytes, CapsOf(wish))
      PROVE  [Promised!Next]_Live
  BY <1>4, ReallocKeepsPromise, InputAssumption
<1>5. CASE Merge \/ Trim
  BY <1>5, LoopsUnseen
<1>6. CASE MergeEnds \/ TrimEnds \/ UNCHANGED vars
  BY <1>6, LiveIsOfTable DEF MergeEnds, TrimEnds, vars
<1> QED
  BY <1>1, <1>2, <1>3, <1>4, <1>5, <1>6 DEF Next

(* The guest sees a heap of blocks that are live from the call that        *)
(* returned them to the call that frees them, and never share a byte.      *)
THEOREM RefinesBlockHeap == Spec => Promise
<1>1. Init => Promised!Init
  BY DEF Init, Promised!Init, Live, Active, Unused
<1>2. IInv /\ [Next]_vars => [Promised!Next]_Live
  BY StepKeepsPromise
<1> QED
  BY <1>1, <1>2, InitEstablishes, StepPreserves, PTL DEF Spec, Promise, Promised!Spec
----------------------------------------------------------------------------
(* Sums.  The sum over a set of slots that the query is defined with walks *)
(* the set in an order nobody knows; Sum walks the table.                  *)
Walk(f) ==
  CHOOSE g : g = [n \in 0..MaxRecords |-> IF n = 0 THEN 0 ELSE g[n - 1] + f[n]]
Sum(f) == Walk(f)[MaxRecords]

(* A property that passes from each number to the next holds of all: the   *)
(* set of those it holds of is given.                                      *)
LEMMA Climb ==
  ASSUME NEW N \in Nat, NEW S \in SUBSET Nat, 0 \in S, \A n \in 0..N : n \in S /\ n < N => n + 1 \in S
  PROVE  0..N \subseteq S
<1> SUFFICES ASSUME NEW n \in 0..N, n \notin S PROVE FALSE
  OBVIOUS
<1> DEFINE Missed == {m \in 0..N : m \notin S}
<1>1. Missed \in SUBSET Nat /\ Missed # {}
  OBVIOUS
<1>2. PICK m \in Missed : \A k \in Missed : m <= k
  <2> HIDE DEF Missed
  <2> QED BY <1>1, LeastMember
<1>3. m \in 0..N /\ m \notin S /\ m # 0
  BY <1>2
<1>4. m - 1 \in 0..N /\ m - 1 < N /\ ~ (m <= m - 1)
  BY <1>3
<1>5. m - 1 \in S
  BY <1>2, <1>4
<1>6. m - 1 + 1 \in S
  BY <1>4, <1>5
<1> QED BY <1>3, <1>6

(* The slots are the numbers up to the size of the table.                  *)
LEMMA TableSize == MaxRecords \in Nat /\ Slots \subseteq Nat /\ Slots = 1..MaxRecords
BY TableAssumption DEF Slots

LEMMA ClimbTable ==
  ASSUME NEW S \in SUBSET Nat, 0 \in S,
         \A n \in 0..MaxRecords : n \in S /\ n < MaxRecords => n + 1 \in S
  PROVE  MaxRecords \in S
<1>1. 0..MaxRecords \subseteq S
  BY TableSize, Climb
<1> QED BY <1>1, TableSize

Weight == [Slots -> Nat]

(* The walk exists.                                                        *)
Begun(f, n) ==
  {g \in [0..n -> Nat] : g[0] = 0 /\ \A k \in 1..n : g[k] = g[k - 1] + f[k]}

LEMMA WalkIs ==
  ASSUME NEW f \in Weight
  PROVE  /\ Walk(f) \in [0..MaxRecords -> Nat] /\ Walk(f)[0] = 0
         /\ \A k \in Slots : Walk(f)[k] = Walk(f)[k - 1] + f[k]
<1> DEFINE S == {n \in 0..MaxRecords : Begun(f, n) # {}}
<1>1. 0 \in S
  <2>1. [k \in 0..0 |-> 0] \in Begun(f, 0)
    BY DEF Begun
  <2> QED BY <2>1, TableSize
<1>2. ASSUME NEW n \in 0..MaxRecords, n \in S, n < MaxRecords PROVE n + 1 \in S
  <2>1. PICK g \in Begun(f, n) : TRUE
    BY <1>2
  <2>2. g \in [0..n -> Nat] /\ g[0] = 0 /\ \A k \in 1..n : g[k] = g[k - 1] + f[k]
    BY <2>1 DEF Begun
  <2>3. n \in Nat /\ n + 1 \in Slots /\ n + 1 \in 0..MaxRecords /\ f[n + 1] \in Nat
    BY <1>2, TableSize DEF Weight
  <2> DEFINE h == [k \in 0..(n + 1) |-> IF k = n + 1 THEN g[n] + f[n + 1] ELSE g[k]]
  <2>4. \A k \in 0..(n + 1) : k # n + 1 => k \in 0..n
    BY <2>3
  <2>5. h \in [0..(n + 1) -> Nat] /\ h[0] = 0 /\ h[n + 1] = h[n] + f[n + 1]
        /\ \A k \in 0..n : h[k] = g[k]
    BY <2>2, <2>3, <2>4
  <2>6. \A k \in 1..(n + 1) : h[k] = h[k - 1] + f[k]
    <3> TAKE k \in 1..(n + 1)
    <3> HIDE DEF h
    <3>1. k = n + 1 \/ (k \in 1..n /\ k \in 0..n /\ k - 1 \in 0..n)
      BY <2>3
    <3>2. k = n + 1 => k - 1 = n
      BY <2>3
    <3> QED BY <2>2, <2>5, <3>1, <3>2
  <2> HIDE DEF h
  <2>7. h \in Begun(f, n + 1)
    BY <2>5, <2>6 DEF Begun
  <2> QED BY <2>3, <2>7
<1>3. MaxRecords \in S
  <2>1. S \in SUBSET Nat
    OBVIOUS
  <2> HIDE DEF S
  <2> QED BY <1>1, <1>2, <2>1, ClimbTable
<1>4. PICK g \in Begun(f, MaxRecords) : TRUE
  BY <1>3
<1> DEFINE next(h) == [n \in 0..MaxRecords |-> IF n = 0 THEN 0 ELSE h[n - 1] + f[n]]
<1>5. g = next(g)
  <2>1. g = [n \in 0..MaxRecords |-> g[n]]
    BY <1>4 DEF Begun
  <2>2. \A n \in 0..MaxRecords : g[n] = IF n = 0 THEN 0 ELSE g[n - 1] + f[n]
    <3> TAKE n \in 0..MaxRecords
    <3>1. n # 0 => n \in 1..MaxRecords
      BY TableSize
    <3> QED BY <1>4, <3>1 DEF Begun
  <2> QED BY <2>1, <2>2
<1>6. Walk(f) = next(Walk(f))
  BY <1>5 DEF Walk
<1> DEFINE w == Walk(f)
<1> HIDE DEF w
<1>7. w = [n \in 0..MaxRecords |-> w[n]] /\ w[0] = 0
      /\ \A k \in Slots : w[k] = w[k - 1] + f[k]
  <2>1. w = next(w)
    BY <1>6 DEF w
  <2>2. \A n \in 0..MaxRecords : w[n] = IF n = 0 THEN 0 ELSE w[n - 1] + f[n]
    BY <2>1
  <2>3. 0 \in 0..MaxRecords /\ \A k \in Slots : k \in 0..MaxRecords /\ k # 0
    BY TableSize
  <2> QED BY <2>1, <2>2, <2>3
<1>8. 0..MaxRecords \subseteq {n \in 0..MaxRecords : w[n] \in Nat}
  <2> DEFINE R == {n \in 0..MaxRecords : w[n] \in Nat}
  <2>1. 0 \in R /\ R \in SUBSET Nat
    BY <1>7, TableSize
  <2>2. ASSUME NEW n \in 0..MaxRecords, n \in R, n < MaxRecords PROVE n + 1 \in R
    <3>1. n + 1 \in Slots /\ n + 1 \in 0..MaxRecords /\ n + 1 - 1 = n /\ f[n + 1] \in Nat
      BY <2>2, TableSize DEF Weight
    <3>2. w[n + 1] = w[n] + f[n + 1]
      <4>1. \A k \in Slots : w[k] = w[k - 1] + f[k]
        BY <1>7
      <4>2. PICK k \in Slots : k = n + 1 /\ k - 1 = n
        BY <3>1
      <4> QED BY <4>1, <4>2
    <3>3. w[n] \in Nat
      BY <2>2
    <3>4. w[n + 1] \in Nat
      BY <3>1, <3>2, <3>3
    <3> QED BY <3>1, <3>4
  <2> HIDE DEF R
  <2> QED BY <2>1, <2>2, TableSize, Climb DEF R
<1> QED BY <1>7, <1>8 DEF w
(* Sums are numbers.                                                       *)
LEMMA SumIsNat ==
  ASSUME NEW f \in Weight PROVE Sum(f) \in Nat
BY WalkIs, TableSize DEF Sum

(* Nothing weighs nothing.                                                 *)
LEMMA SumOfNothing ==
  ASSUME NEW f \in Weight, \A i \in Slots : f[i] = 0 PROVE Sum(f) = 0
<1> DEFINE R == {n \in 0..MaxRecords : Walk(f)[n] = 0}
<1>1. 0 \in R /\ R \in SUBSET Nat
  BY WalkIs, TableSize
<1>2. ASSUME NEW n \in 0..MaxRecords, n \in R, n < MaxRecords PROVE n + 1 \in R
  <2>1. n + 1 \in Slots /\ n + 1 \in 0..MaxRecords /\ n + 1 - 1 = n
    BY <1>2, TableSize
  <2>2. Walk(f)[n + 1] = Walk(f)[n] + f[n + 1]
    BY <2>1, WalkIs
  <2>3. Walk(f)[n] = 0 /\ f[n + 1] = 0
    BY <1>2, <2>1
  <2> QED BY <2>1, <2>2, <2>3
<1> HIDE DEF R
<1>3. MaxRecords \in R
  BY <1>1, <1>2, ClimbTable
<1> QED BY <1>3 DEF R, Sum

(* The sum of two weights is the sum of the sums.                          *)
LEMMA SumOfBoth ==
  ASSUME NEW f \in Weight, NEW g \in Weight, NEW h \in Weight, \A i \in Slots : h[i] = f[i] + g[i]
  PROVE  Sum(h) = Sum(f) + Sum(g)
<1> DEFINE R == {n \in 0..MaxRecords : Walk(h)[n] = Walk(f)[n] + Walk(g)[n]}
<1>1. 0 \in R /\ R \in SUBSET Nat
  BY WalkIs, TableSize
<1>2. ASSUME NEW n \in 0..MaxRecords, n \in R, n < MaxRecords PROVE n + 1 \in R
  <2>1. n + 1 \in Slots /\ n + 1 \in 0..MaxRecords /\ n + 1 - 1 = n
    BY <1>2, TableSize
  <2>2. /\ Walk(h)[n + 1] = Walk(h)[n] + h[n + 1]
        /\ Walk(f)[n + 1] = Walk(f)[n] + f[n + 1]
        /\ Walk(g)[n + 1] = Walk(g)[n] + g[n + 1]
    BY <2>1, WalkIs
  <2>3. Walk(h)[n] = Walk(f)[n] + Walk(g)[n] /\ h[n + 1] = f[n + 1] + g[n + 1]
    BY <1>2, <2>1
  <2>4. /\ Walk(f)[n] \in Nat /\ Walk(g)[n] \in Nat
        /\ f[n + 1] \in Nat /\ g[n + 1] \in Nat
    BY <2>1, WalkIs DEF Weight
  <2>5. Walk(h)[n + 1] = Walk(f)[n + 1] + Walk(g)[n + 1]
    BY <2>2, <2>3, <2>4
  <2> QED BY <2>1, <2>5
<1> HIDE DEF R
<1>3. MaxRecords \in R
  BY <1>1, <1>2, ClimbTable
<1> QED BY <1>3 DEF R, Sum

(* One slot that weighs something.                                         *)
One(j, x) == [i \in Slots |-> IF i = j THEN x ELSE 0]

LEMMA SumOfOne ==
  ASSUME NEW j \in Slots, NEW x \in Nat
  PROVE  One(j, x) \in Weight /\ Sum(One(j, x)) = x
<1> DEFINE f == One(j, x)
           R == {n \in 0..MaxRecords : Walk(f)[n] = IF n < j THEN 0 ELSE x}
<1>1. f \in Weight /\ j \in Nat /\ j > 0 /\ j <= MaxRecords
      /\ \A i \in Slots : f[i] = IF i = j THEN x ELSE 0
  BY TableSize DEF One, Weight
<1> HIDE DEF f
<1>2. 0 \in R /\ R \in SUBSET Nat
  BY <1>1, WalkIs, TableSize
<1>3. ASSUME NEW n \in 0..MaxRecords, n \in R, n < MaxRecords PROVE n + 1 \in R
  <2>1. n \in Nat /\ n + 1 \in Slots /\ n + 1 \in 0..MaxRecords /\ n + 1 - 1 = n
    BY <1>3, TableSize
  <2>2. Walk(f)[n + 1] = Walk(f)[n] + f[n + 1]
    BY <1>1, <2>1, WalkIs
  <2>3. Walk(f)[n] = IF n < j THEN 0 ELSE x
    BY <1>3
  <2>4. f[n + 1] = IF n + 1 = j THEN x ELSE 0
    BY <1>1, <2>1
  <2>5. Walk(f)[n + 1] = IF n + 1 < j THEN 0 ELSE x
    <3>1. CASE n + 1 < j
      BY <1>1, <2>1, <2>2, <2>3, <2>4, <3>1
    <3>2. CASE n + 1 = j
      BY <1>1, <2>1, <2>2, <2>3, <2>4, <3>2
    <3>3. CASE n + 1 > j
      BY <1>1, <2>1, <2>2, <2>3, <2>4, <3>3
    <3> QED BY <1>1, <2>1, <3>1, <3>2, <3>3
  <2> QED BY <2>1, <2>5
<1> HIDE DEF R
<1>4. MaxRecords \in R
  BY <1>2, <1>3, ClimbTable
<1>5. Walk(f)[MaxRecords] = IF MaxRecords < j THEN 0 ELSE x
  BY <1>4 DEF R
<1> QED BY <1>1, <1>5, TableSize DEF Sum, f

(* Another weight at one slot changes the sum by the difference.           *)
LEMMA SumOfOther ==
  ASSUME NEW f \in Weight, NEW g \in Weight, NEW j \in Slots,
         \A i \in Slots : i # j => g[i] = f[i]
  PROVE  Sum(g) + f[j] = Sum(f) + g[j]
<1> DEFINE b == [i \in Slots |-> IF i = j THEN 0 ELSE f[i]]
<1>1. b \in Weight /\ f[j] \in Nat /\ g[j] \in Nat
  BY DEF Weight
<1>2. \A i \in Slots : f[i] = b[i] + One(j, f[j])[i] /\ g[i] = b[i] + One(j, g[j])[i]
  <2> TAKE i \in Slots
  <2>1. f[i] \in Nat /\ g[i] \in Nat
    BY DEF Weight
  <2>2. /\ One(j, f[j])[i] = IF i = j THEN f[j] ELSE 0
        /\ One(j, g[j])[i] = IF i = j THEN g[j] ELSE 0
        /\ b[i] = IF i = j THEN 0 ELSE f[i]
    BY DEF One
  <2> HIDE DEF b
  <2>3. CASE i = j
    BY <2>1, <2>2, <2>3
  <2>4. CASE i # j
    BY <2>1, <2>2, <2>4
  <2> QED BY <2>3, <2>4
<1> HIDE DEF b
<1>3. /\ One(j, f[j]) \in Weight /\ Sum(One(j, f[j])) = f[j]
      /\ One(j, g[j]) \in Weight /\ Sum(One(j, g[j])) = g[j]
  BY <1>1, SumOfOne
<1>4. Sum(f) = Sum(b) + Sum(One(j, f[j]))
  BY <1>1, <1>2, <1>3, SumOfBoth
<1>5. Sum(g) = Sum(b) + Sum(One(j, g[j]))
  BY <1>1, <1>2, <1>3, SumOfBoth
<1>6. Sum(b) \in Nat
  BY <1>1, SumIsNat
<1> QED BY <1>1, <1>3, <1>4, <1>5, <1>6

(* Two slots that weigh as much together as before.                        *)
LEMMA SumOfMoved ==
  ASSUME NEW f \in Weight, NEW g \in Weight, NEW j \in Slots, NEW k \in Slots, j # k,
         \A i \in Slots : i # j /\ i # k => g[i] = f[i], g[j] + g[k] = f[j] + f[k]
  PROVE  Sum(g) = Sum(f)
<1> DEFINE h == [f EXCEPT ![j] = g[j]]
<1>1. /\ h \in Weight /\ h[j] = g[j] /\ h[k] = f[k]
      /\ \A i \in Slots : i # j => h[i] = f[i]
  BY DEF Weight
<1> HIDE DEF h
<1>2. \A i \in Slots : i # k => g[i] = h[i]
  BY <1>1
<1>3. Sum(h) + f[j] = Sum(f) + h[j]
  BY <1>1, SumOfOther
<1>4. Sum(g) + h[k] = Sum(h) + g[k]
  BY <1>1, <1>2, SumOfOther
<1>5. Sum(f) \in Nat /\ Sum(g) \in Nat /\ Sum(h) \in Nat
  BY <1>1, SumIsNat
<1>6. f[j] \in Nat /\ f[k] \in Nat /\ g[j] \in Nat /\ g[k] \in Nat
  BY DEF Weight
<1> QED BY <1>1, <1>3, <1>4, <1>5, <1>6
(* The fold of the query over a set of slots is their sum: a least set     *)
(* where it is not would lose a slot and still be one.                     *)
WeightOf(f, s) == [i \in Slots |-> IF i \in s THEN f[i] ELSE 0]
SizeOf(table, S) == SetsExt!MapThenSumSet(LAMBDA i : table[i].size, S)

(* The weight of some slots, the others weighing nothing.                  *)
LEMMA WeightOfIs ==
  ASSUME NEW f \in Weight, NEW s
  PROVE  WeightOf(f, s) \in Weight /\ \A i \in Slots : WeightOf(f, s)[i] = IF i \in s THEN f[i] ELSE 0
BY DEF WeightOf, Weight

(* A slot can be taken out of a sum.                                       *)
LEMMA SumWithout ==
  ASSUME NEW f \in Weight, NEW s \in SUBSET Slots, NEW x \in s
  PROVE  Sum(WeightOf(f, s)) = f[x] + Sum(WeightOf(f, s \ {x}))
<1> DEFINE g == WeightOf(f, s)
           h == WeightOf(f, s \ {x})
<1>1. /\ g \in Weight /\ \A i \in Slots : g[i] = IF i \in s THEN f[i] ELSE 0
      /\ h \in Weight /\ \A i \in Slots : h[i] = IF i \in s \ {x} THEN f[i] ELSE 0
  BY WeightOfIs
<1> HIDE DEF g, h
<1>2. x \in Slots /\ g[x] = f[x] /\ h[x] = 0 /\ \A i \in Slots : i # x => h[i] = g[i]
  BY <1>1
<1>3. Sum(h) + g[x] = Sum(g) + h[x]
  BY <1>1, <1>2, SumOfOther
<1>4. Sum(g) \in Nat /\ Sum(h) \in Nat /\ f[x] \in Nat
  BY <1>1, <1>2, SumIsNat DEF Weight
<1>5. Sum(g) = f[x] + Sum(h)
  BY <1>2, <1>3, <1>4
<1> QED BY <1>5 DEF g, h

LEMMA FoldIsSum ==
  ASSUME NEW f \in Weight, NEW table, \A i \in Slots : f[i] = table[i].size,
         NEW S \in SUBSET Slots
  PROVE  SizeOf(table, S) = Sum(WeightOf(f, S))
<1> DEFINE some(s) == CHOOSE x \in s : TRUE
           next(h) == [s \in SUBSET S |-> IF s = {} THEN 0 ELSE table[some(s)].size + h[s \ {some(s)}]]
           iter == CHOOSE h : h = next(h)
           total == [s \in SUBSET S |-> Sum(WeightOf(f, s))]
<1>1. SizeOf(table, S) = iter[S]
  BY DEF SizeOf, SetsExt!MapThenSumSet, SetsExt!MapThenFoldSet
<1>2. \A s \in SUBSET S : s # {} => some(s) \in s /\ s \ {some(s)} \in SUBSET S
  OBVIOUS
<1> HIDE DEF some
<1>3. \A s \in SUBSET S : total[s] = IF s = {} THEN 0 ELSE table[some(s)].size + total[s \ {some(s)}]
  <2> TAKE s \in SUBSET S
  <2>1. CASE s = {}
    <3>1. Sum(WeightOf(f, s)) = 0
      BY <2>1, WeightOfIs, SumOfNothing
    <3> QED BY <2>1, <3>1
  <2>2. CASE s # {}
    <3>1. some(s) \in s /\ s \ {some(s)} \in SUBSET S /\ s \in SUBSET Slots
      BY <1>2, <2>2
    <3>2. Sum(WeightOf(f, s)) = f[some(s)] + Sum(WeightOf(f, s \ {some(s)}))
      BY <3>1, SumWithout
    <3>3. f[some(s)] = table[some(s)].size
      BY <3>1
    <3> QED BY <2>2, <3>1, <3>2, <3>3
  <2> QED BY <2>1, <2>2
<1>4. total = next(total)
  <2>1. total = [s \in SUBSET S |-> total[s]]
    OBVIOUS
  <2> HIDE DEF total
  <2> QED BY <1>3, <2>1
<1>5. iter = next(iter)
  <2> HIDE DEF next, total
  <2> QED BY <1>4
<1>6. \A s \in SUBSET S : iter[s] = IF s = {} THEN 0 ELSE table[some(s)].size + iter[s \ {some(s)}]
  <2> HIDE DEF iter
  <2> QED BY <1>5
<1> HIDE DEF iter, total, next
<1> DEFINE ones == [i \in Slots |-> 1]
           size(s) == Sum(WeightOf(ones, s))
<1>7. \A s \in SUBSET S : size(s) \in Nat /\ \A x \in s : size(s) = 1 + size(s \ {x})
  <2> TAKE s \in SUBSET S
  <2>1. ones \in Weight /\ \A i \in Slots : ones[i] = 1
    BY DEF Weight
  <2> HIDE DEF ones
  <2>2. size(s) \in Nat
    BY <2>1, WeightOfIs, SumIsNat
  <2>3. \A x \in s : size(s) = 1 + size(s \ {x})
    BY <2>1, SumWithout
  <2> QED BY <2>2, <2>3
<1> HIDE DEF size
<1> DEFINE wrong == {s \in SUBSET S : iter[s] # total[s]}
           sizes == {size(s) : s \in wrong}
<1>8. wrong = {}
  <2> SUFFICES ASSUME wrong # {} PROVE FALSE
    OBVIOUS
  <2>1. sizes \in SUBSET Nat /\ sizes # {}
    BY <1>7
  <2>2. PICK n \in sizes : \A k \in sizes : n <= k
    <3> HIDE DEF sizes
    <3> QED BY <2>1, LeastMember
  <2>3. PICK s \in wrong : size(s) = n
    BY <2>2
  <2>4. s \in SUBSET S /\ iter[s] # total[s]
    BY <2>3
  <2>5. s # {}
    BY <1>3, <1>6, <2>4
  <2> DEFINE x == some(s)
             r == s \ {x}
  <2>6. x \in s /\ r \in SUBSET S
    BY <1>2, <2>4, <2>5
  <2>7. size(s) = 1 + size(r) /\ size(r) \in Nat
    BY <1>7, <2>4, <2>6
  <2>8. iter[r] = total[r]
    <3>1. ~ (size(s) <= size(r))
      BY <2>7
    <3>2. r \notin wrong
      BY <2>2, <2>3, <3>1
    <3> QED BY <2>6, <3>2
  <2> QED BY <1>3, <1>6, <2>4, <2>5, <2>6, <2>8
<1>9. iter[S] = total[S]
  BY <1>8
<1> QED BY <1>1, <1>9 DEF total
----------------------------------------------------------------------------
(* A table whose blocks tile the pools: a place where one begins, or the   *)
(* free end, is one where another ends, or the base, and their sizes add   *)
(* up to what lies below the pointer.                                      *)
In(r, p) == r.class = ClassOf(p) /\ Base(p) <= r.addr /\ r.addr < Limit(p)
Starts(table, p, a) == \E i \in Slots : table[i].size > 0 /\ In(table[i], p) /\ a = table[i].addr
Stops(table, p, a) ==
  \E i \in Slots : table[i].size > 0 /\ In(table[i], p) /\ a = table[i].addr + table[i].size
Sizes(table, p) == [i \in Slots |-> IF In(table[i], p) THEN table[i].size ELSE 0]

TiledPool(table, pointers, p) ==
  /\ \A a \in Nat : a = pointers[p] \/ Starts(table, p, a) <=> a = Base(p) \/ Stops(table, p, a)
  /\ Sum(Sizes(table, p)) + Base(p) = pointers[p]
Tiled(table, pointers) == \A p \in Pools : TiledPool(table, pointers, p)

(* The sizes of the blocks of a pool are weights.                          *)
LEMMA SizesIs ==
  ASSUME NEW table, NEW pointers, GoodTable(table, pointers), NEW p
  PROVE  /\ Sizes(table, p) \in Weight
         /\ \A i \in Slots : Sizes(table, p)[i] = IF In(table[i], p) THEN table[i].size ELSE 0
BY DEF Sizes, Weight, GoodTable, RecordType

(* A block has one home, and lies below its pointer.                       *)
LEMMA OneHome ==
  ASSUME PoolsApart, NEW table, NEW pointers, GoodTable(table, pointers), NEW i \in Slots,
         NEW p \in Pools, In(table[i], p)
  PROVE  /\ \A q \in Pools : In(table[i], q) => q = p
         /\ table[i].size > 0 => table[i].addr + table[i].size <= pointers[p]
         /\ table[i].addr \in Nat /\ table[i].size \in Nat
         /\ Base(p) \in Nat /\ Limit(p) \in Nat /\ pointers[p] \in Nat /\ pointers[p] <= Limit(p)
         /\ Base(p) <= table[i].addr
<1>1. /\ table[i].addr \in Nat /\ table[i].size \in Nat
      /\ \A q \in Pools : /\ Base(q) \in Nat /\ Limit(q) \in Nat /\ pointers[q] \in Nat
                          /\ Base(q) <= pointers[q] /\ pointers[q] <= Limit(q)
  BY DEF GoodTable, RecordType, PoolsApart
<1>2. Base(p) <= table[i].addr /\ table[i].addr < Limit(p)
  BY DEF In
<1>3. ASSUME NEW q \in Pools, Base(q) <= table[i].addr, table[i].addr < Limit(q) PROVE q = p
  <2>1. q = p \/ Limit(p) <= Base(q) \/ Limit(q) <= Base(p)
    BY DEF PoolsApart
  <2> QED BY <1>1, <1>2, <1>3, <2>1
<1>4. \A q \in Pools : In(table[i], q) => q = p
  BY <1>3 DEF In
<1>5. ASSUME table[i].size > 0 PROVE table[i].addr + table[i].size <= pointers[p]
  <2>1. PICK q \in Pools : /\ Base(q) <= table[i].addr
                           /\ table[i].addr + table[i].size <= pointers[q]
    BY <1>5 DEF GoodTable, Placed
  <2>2. table[i].addr < Limit(q)
    BY <1>1, <1>5, <2>1
  <2>3. q = p
    BY <1>3, <2>1, <2>2
  <2> QED BY <2>1, <2>3
<1> QED BY <1>1, <1>2, <1>4, <1>5

(* Only places, sizes and kinds of the records matter.                     *)
LEMMA TiledAsBefore ==
  ASSUME NEW table, NEW t, NEW pointers, Tiled(table, pointers),
         \A i \in Slots : t[i].addr = table[i].addr /\ t[i].size = table[i].size
                          /\ t[i].class = table[i].class
  PROVE  Tiled(t, pointers)
<1> SUFFICES ASSUME NEW p \in Pools PROVE TiledPool(t, pointers, p)
  BY DEF Tiled
<1>1. \A i \in Slots : In(t[i], p) <=> In(table[i], p)
  BY DEF In
<1>2. Sizes(t, p) = Sizes(table, p)
  BY <1>1 DEF Sizes
<1>3. \A a : (Starts(t, p, a) <=> Starts(table, p, a)) /\ (Stops(t, p, a) <=> Stops(table, p, a))
  BY <1>1 DEF Starts, Stops
<1>4. TiledPool(table, pointers, p)
  BY DEF Tiled
<1> QED BY <1>2, <1>3, <1>4 DEF TiledPool

(* A block more at the pointer.                                            *)
LEMMA BumpedTiles ==
  ASSUME PoolsApart, GoodTable(records, ptr), Tiled(records, ptr), NEW p \in Pools,
         NEW n \in Nat, n > 0, NEW bytes \in Nat, bytes <= n, Holds(p, n)
  PROVE  Tiled(Bumped(p, n, bytes), [ptr EXCEPT ![p] = @ + n])
<1> DEFINE k == First(Spares)
           t == Bumped(p, n, bytes)
           q == [ptr EXCEPT ![p] = @ + n]
<1>1. k \in Slots /\ records[k].size = 0
  <2>1. Spares \in SUBSET Slots /\ k \in Spares
    BY FirstIsMember DEF Spares, Holds
  <2> QED BY <2>1 DEF Spares
<1>2. t = [records EXCEPT ![k] = [addr |-> ptr[p], requested |-> bytes, size |-> n,
                                  class |-> ClassOf(p), active |-> TRUE]]
  BY DEF Bumped
<1> HIDE DEF k
<1>3. /\ t[k].addr = ptr[p] /\ t[k].size = n /\ t[k].class = ClassOf(p)
      /\ \A j \in Slots : j # k => t[j] = records[j]
  BY <1>1, <1>2 DEF GoodTable
<1>4. GoodTable(t, q)
  BY BumpedStaysGood
<1>5. \A s \in Pools : /\ ptr[s] \in Nat /\ Base(s) \in Nat /\ Limit(s) \in Nat
                       /\ Base(s) <= ptr[s] /\ ptr[s] <= Limit(s)
                       /\ q[s] = IF s = p THEN ptr[p] + n ELSE ptr[s]
  BY DEF GoodTable, PoolsApart
<1> HIDE DEF t, q
<1>6. In(t[k], p)
  <2>1. ptr[p] < Limit(p)
    BY <1>5 DEF Holds
  <2> QED BY <1>3, <1>5, <2>1 DEF In
<1> SUFFICES ASSUME NEW s \in Pools PROVE TiledPool(t, q, s)
  BY DEF Tiled, t, q
<1>7. TiledPool(records, ptr, s)
  BY DEF Tiled
<1>8. /\ Sizes(t, s) \in Weight
      /\ \A i \in Slots : Sizes(t, s)[i] = IF In(t[i], s) THEN t[i].size ELSE 0
      /\ Sizes(records, s) \in Weight
      /\ \A i \in Slots : Sizes(records, s)[i] = IF In(records[i], s) THEN records[i].size ELSE 0
  BY <1>4, SizesIs
<1>9. CASE s = p
  <2>1. \A a \in Nat : (Starts(t, s, a) <=> Starts(records, s, a) \/ a = ptr[p])
                       /\ (Stops(t, s, a) <=> Stops(records, s, a) \/ a = ptr[p] + n)
    <3> TAKE a \in Nat
    <3>1. Starts(t, s, a) <=> Starts(records, s, a) \/ a = ptr[p]
      BY <1>1, <1>3, <1>6, <1>9 DEF Starts
    <3>2. Stops(t, s, a) <=> Stops(records, s, a) \/ a = ptr[p] + n
      BY <1>1, <1>3, <1>6, <1>9 DEF Stops
    <3> QED BY <3>1, <3>2
  <2>2. \A a \in Nat : a = q[s] \/ Starts(t, s, a) <=> a = Base(s) \/ Stops(t, s, a)
    BY <1>5, <1>7, <1>9, <2>1 DEF TiledPool
  <2>3. Sizes(t, s)[k] = n /\ Sizes(records, s)[k] = 0
    BY <1>1, <1>3, <1>6, <1>8, <1>9
  <2>4. \A i \in Slots : i # k => Sizes(t, s)[i] = Sizes(records, s)[i]
    BY <1>3, <1>8
  <2>5. Sum(Sizes(t, s)) + 0 = Sum(Sizes(records, s)) + n
    BY <1>1, <1>8, <2>3, <2>4, SumOfOther
  <2>6. Sum(Sizes(t, s)) \in Nat /\ Sum(Sizes(records, s)) \in Nat
    BY <1>8, SumIsNat
  <2>7. Sum(Sizes(records, s)) + Base(s) = ptr[s] /\ q[s] = ptr[s] + n
    BY <1>5, <1>7, <1>9 DEF TiledPool
  <2>8. Sum(Sizes(t, s)) + Base(s) = q[s]
    BY <1>5, <2>5, <2>6, <2>7
  <2> QED BY <2>2, <2>8 DEF TiledPool
<1>10. CASE s # p
  <2>1. ~ In(t[k], s)
    BY <1>1, <1>4, <1>6, <1>10, OneHome
  <2>2. \A a \in Nat : (Starts(t, s, a) <=> Starts(records, s, a))
                       /\ (Stops(t, s, a) <=> Stops(records, s, a))
    <3> TAKE a \in Nat
    <3>1. Starts(t, s, a) <=> Starts(records, s, a)
      BY <1>1, <1>3, <2>1 DEF Starts
    <3>2. Stops(t, s, a) <=> Stops(records, s, a)
      BY <1>1, <1>3, <2>1 DEF Stops
    <3> QED BY <3>1, <3>2
  <2>3. Sizes(t, s) = Sizes(records, s)
    <3>1. \A i \in Slots : Sizes(t, s)[i] = Sizes(records, s)[i]
      BY <1>1, <1>3, <1>8, <2>1
    <3> QED BY <1>8, <3>1 DEF Weight
  <2> QED BY <1>5, <1>7, <1>10, <2>2, <2>3 DEF TiledPool
<1> QED BY <1>9, <1>10
(* A block that is split in two, or two that are merged: one place is both *)
(* where a block begins and where one ends, or neither.                    *)
Cut(one, two, i, k) ==
  /\ i \in Slots /\ k \in Slots /\ i # k /\ one[i].size > 0 /\ one[k].size = 0
  /\ two[i].addr = one[i].addr /\ two[i].class = one[i].class
  /\ two[k].addr = two[i].addr + two[i].size /\ two[k].class = one[i].class
  /\ two[i].size > 0 /\ two[k].size > 0 /\ two[i].size + two[k].size = one[i].size
  /\ \A j \in Slots : j # i /\ j # k => two[j] = one[j]

(* The sizes add up to the same, and one place more is both.               *)
LEMMA CutIs ==
  ASSUME PoolsApart, NEW one, NEW two, NEW pointers,
         GoodTable(one, pointers), GoodTable(two, pointers),
         NEW i, NEW k, Cut(one, two, i, k), NEW p \in Pools
  PROVE  /\ Sum(Sizes(one, p)) = Sum(Sizes(two, p))
         /\ \A a \in Nat :
              /\ Starts(two, p, a) <=> Starts(one, p, a) \/ (In(one[i], p) /\ a = two[k].addr)
              /\ Stops(two, p, a) <=> Stops(one, p, a) \/ (In(one[i], p) /\ a = two[k].addr)
<1>1. /\ i \in Slots /\ k \in Slots /\ i # k /\ one[i].size > 0 /\ one[k].size = 0
      /\ two[i].addr = one[i].addr /\ two[i].class = one[i].class
      /\ two[k].addr = two[i].addr + two[i].size /\ two[k].class = one[i].class
      /\ two[i].size > 0 /\ two[k].size > 0 /\ two[i].size + two[k].size = one[i].size
      /\ \A j \in Slots : j # i /\ j # k => two[j] = one[j]
  BY DEF Cut
<1>2. /\ one[i].addr \in Nat /\ one[i].size \in Nat /\ two[i].size \in Nat /\ two[k].size \in Nat
      /\ two[k].addr \in Nat
  BY <1>1 DEF GoodTable, RecordType
<1>3. In(two[i], p) <=> In(one[i], p)
  BY <1>1 DEF In
<1>4. In(two[k], p) <=> In(one[i], p)
  <2>1. ASSUME In(one[i], p) PROVE In(two[k], p)
    <3>1. /\ one[i].addr + one[i].size <= pointers[p] /\ pointers[p] <= Limit(p)
          /\ Base(p) <= one[i].addr /\ Base(p) \in Nat /\ Limit(p) \in Nat /\ pointers[p] \in Nat
      BY <1>1, <2>1, OneHome
    <3>2. Base(p) <= two[k].addr /\ two[k].addr < Limit(p)
      BY <1>1, <1>2, <3>1
    <3> QED BY <1>1, <2>1, <3>2 DEF In
  <2>2. ASSUME In(two[k], p) PROVE In(one[i], p)
    <3>1. PICK q \in Pools : /\ one[i].class = ClassOf(q) /\ Base(q) <= one[i].addr
                             /\ one[i].addr + one[i].size <= pointers[q]
      BY <1>1 DEF GoodTable, Placed
    <3>2. /\ Base(q) \in Nat /\ Limit(q) \in Nat /\ pointers[q] \in Nat /\ pointers[q] <= Limit(q)
      BY DEF GoodTable, PoolsApart
    <3>3. In(two[k], q)
      <4>1. Base(q) <= two[k].addr /\ two[k].addr < Limit(q)
        BY <1>1, <1>2, <3>1, <3>2
      <4> QED BY <1>1, <3>1, <4>1 DEF In
    <3>4. q = p
      BY <1>1, <2>2, <3>3, OneHome
    <3>5. one[i].addr < Limit(q)
      BY <1>1, <1>2, <3>1, <3>2
    <3> QED BY <3>1, <3>4, <3>5 DEF In
  <2> QED BY <2>1, <2>2
<1>5. /\ Sizes(one, p) \in Weight /\ Sizes(two, p) \in Weight
      /\ \A j \in Slots : /\ Sizes(one, p)[j] = IF In(one[j], p) THEN one[j].size ELSE 0
                          /\ Sizes(two, p)[j] = IF In(two[j], p) THEN two[j].size ELSE 0
  BY SizesIs
<1>6. Sum(Sizes(one, p)) = Sum(Sizes(two, p))
  <2>1. \A j \in Slots : j # i /\ j # k => Sizes(two, p)[j] = Sizes(one, p)[j]
    BY <1>1, <1>5
  <2>2. /\ Sizes(one, p)[i] = IF In(one[i], p) THEN one[i].size ELSE 0
        /\ Sizes(one, p)[k] = 0
        /\ Sizes(two, p)[i] = IF In(one[i], p) THEN two[i].size ELSE 0
        /\ Sizes(two, p)[k] = IF In(one[i], p) THEN two[k].size ELSE 0
    BY <1>1, <1>3, <1>4, <1>5
  <2>3. Sizes(two, p)[i] + Sizes(two, p)[k] = Sizes(one, p)[i] + Sizes(one, p)[k]
    BY <1>1, <1>2, <2>2
  <2> QED BY <1>1, <1>5, <2>1, <2>3, SumOfMoved
<1>7. ASSUME NEW a \in Nat
      PROVE  Starts(two, p, a) <=> Starts(one, p, a) \/ (In(one[i], p) /\ a = two[k].addr)
  <2>1. Starts(two, p, a) <=>
          \/ \E j \in Slots : j # i /\ j # k /\ two[j].size > 0 /\ In(two[j], p) /\ a = two[j].addr
          \/ In(one[i], p) /\ (a = one[i].addr \/ a = two[k].addr)
    BY <1>1, <1>3, <1>4 DEF Starts
  <2>2. Starts(one, p, a) <=>
          \/ \E j \in Slots : j # i /\ j # k /\ one[j].size > 0 /\ In(one[j], p) /\ a = one[j].addr
          \/ In(one[i], p) /\ a = one[i].addr
    BY <1>1 DEF Starts
  <2> QED BY <1>1, <2>1, <2>2
<1>8. ASSUME NEW a \in Nat
      PROVE  Stops(two, p, a) <=> Stops(one, p, a) \/ (In(one[i], p) /\ a = two[k].addr)
  <2>1. two[k].addr + two[k].size = one[i].addr + one[i].size
    BY <1>1, <1>2
  <2>2. Stops(two, p, a) <=>
          \/ \E j \in Slots : j # i /\ j # k /\ two[j].size > 0 /\ In(two[j], p)
                              /\ a = two[j].addr + two[j].size
          \/ In(one[i], p) /\ (a = one[i].addr + one[i].size \/ a = two[k].addr)
    BY <1>1, <1>3, <1>4, <2>1 DEF Stops
  <2>3. Stops(one, p, a) <=>
          \/ \E j \in Slots : j # i /\ j # k /\ one[j].size > 0 /\ In(one[j], p)
                              /\ a = one[j].addr + one[j].size
          \/ In(one[i], p) /\ a = one[i].addr + one[i].size
    BY <1>1 DEF Stops
  <2> QED BY <1>1, <2>2, <2>3
<1> QED BY <1>6, <1>7, <1>8

(* The tail of a split begins where the head ends.                         *)
LEMMA SplitTiles ==
  ASSUME PoolsApart, NEW one, NEW two, NEW pointers,
         GoodTable(one, pointers), GoodTable(two, pointers), Tiled(one, pointers),
         NEW i, NEW k, Cut(one, two, i, k)
  PROVE  Tiled(two, pointers)
<1> SUFFICES ASSUME NEW p \in Pools PROVE TiledPool(two, pointers, p)
  BY DEF Tiled
<1>1. TiledPool(one, pointers, p)
  BY DEF Tiled
<1>2. /\ Sum(Sizes(one, p)) = Sum(Sizes(two, p))
      /\ \A a \in Nat :
           /\ Starts(two, p, a) <=> Starts(one, p, a) \/ (In(one[i], p) /\ a = two[k].addr)
           /\ Stops(two, p, a) <=> Stops(one, p, a) \/ (In(one[i], p) /\ a = two[k].addr)
  BY CutIs
<1> QED BY <1>1, <1>2 DEF TiledPool

(* What two blocks had in common when they are merged was nobody else's.   *)
LEMMA JoinTiles ==
  ASSUME PoolsApart, NEW one, NEW two, NEW pointers,
         GoodTable(one, pointers), GoodTable(two, pointers), Tiled(two, pointers),
         NEW i, NEW k, Cut(one, two, i, k)
  PROVE  Tiled(one, pointers)
<1> SUFFICES ASSUME NEW p \in Pools PROVE TiledPool(one, pointers, p)
  BY DEF Tiled
<1>1. TiledPool(two, pointers, p)
  BY DEF Tiled
<1>2. /\ Sum(Sizes(one, p)) = Sum(Sizes(two, p))
      /\ \A a \in Nat :
           /\ Starts(two, p, a) <=> Starts(one, p, a) \/ (In(one[i], p) /\ a = two[k].addr)
           /\ Stops(two, p, a) <=> Stops(one, p, a) \/ (In(one[i], p) /\ a = two[k].addr)
  BY CutIs
<1>3. /\ i \in Slots /\ k \in Slots /\ i # k /\ one[i].size > 0 /\ one[k].size = 0
      /\ two[i].addr = one[i].addr
      /\ two[k].addr = two[i].addr + two[i].size
      /\ two[i].size > 0 /\ two[k].size > 0 /\ two[i].size + two[k].size = one[i].size
  BY DEF Cut
<1>4. /\ \A j \in Slots : one[j].addr \in Nat /\ one[j].size \in Nat
      /\ two[i].size \in Nat /\ two[k].size \in Nat /\ two[k].addr \in Nat
  BY <1>3 DEF GoodTable, RecordType
<1> DEFINE m == two[k].addr
<1>5. ASSUME In(one[i], p) PROVE m # pointers[p] /\ m # Base(p) /\ ~ Starts(one, p, m) /\ ~ Stops(one, p, m)
  <2>1. /\ one[i].addr + one[i].size <= pointers[p] /\ Base(p) <= one[i].addr
        /\ Base(p) \in Nat /\ pointers[p] \in Nat
    BY <1>3, <1>5, OneHome
  <2>2. one[i].addr < m /\ m < one[i].addr + one[i].size /\ m \in Nat
    BY <1>3, <1>4
  <2>3. ASSUME NEW j \in Slots, one[j].size > 0, m = one[j].addr PROVE FALSE
    <3>1. j # i
      BY <1>3, <1>4, <2>2, <2>3
    <3>2. Separate(one[i], one[j])
      BY <1>3, <2>3, <3>1 DEF GoodTable
    <3> QED BY <1>3, <1>4, <2>2, <2>3, <3>2 DEF Separate
  <2>4. ASSUME NEW j \in Slots, one[j].size > 0, m = one[j].addr + one[j].size PROVE FALSE
    <3>1. j # i
      BY <1>3, <1>4, <2>2, <2>4
    <3>2. Separate(one[i], one[j])
      BY <1>3, <2>4, <3>1 DEF GoodTable
    <3> QED BY <1>3, <1>4, <2>2, <2>4, <3>2 DEF Separate
  <2>5. m # pointers[p] /\ m # Base(p)
    BY <1>3, <1>4, <2>1, <2>2
  <2> HIDE DEF m
  <2> QED BY <2>3, <2>4, <2>5 DEF Starts, Stops
<1> HIDE DEF m
<1>6. \A a \in Nat : a = pointers[p] \/ Starts(one, p, a) <=> a = Base(p) \/ Stops(one, p, a)
  <2> TAKE a \in Nat
  <2>1. /\ Starts(two, p, a) <=> Starts(one, p, a) \/ (In(one[i], p) /\ a = m)
        /\ Stops(two, p, a) <=> Stops(one, p, a) \/ (In(one[i], p) /\ a = m)
        /\ a = pointers[p] \/ Starts(two, p, a) <=> a = Base(p) \/ Stops(two, p, a)
    BY <1>1, <1>2 DEF TiledPool, m
  <2>2. CASE In(one[i], p) /\ a = m
    BY <1>5, <2>2
  <2>3. CASE ~ (In(one[i], p) /\ a = m)
    BY <2>1, <2>3
  <2> QED BY <2>2, <2>3
<1>7. Sum(Sizes(one, p)) + Base(p) = pointers[p]
  BY <1>1, <1>2 DEF TiledPool
<1> QED BY <1>6, <1>7 DEF TiledPool
----------------------------------------------------------------------------
(* Each operation leaves the pools tiled.                                  *)

(* A free block is handed out whole or split.                              *)
LEMMA ReusedTiles ==
  ASSUME PoolsApart, GoodTable(records, ptr), Tiled(records, ptr), NEW p \in Pools,
         NEW n \in Nat, n > 0, NEW bytes \in Nat, bytes <= n, Fitting(p, n) # {}
  PROVE  Tiled(Reused(Best(p, n), n, bytes), ptr)
<1> DEFINE i == Best(p, n)
           t == Reused(i, n, bytes)
           split == Splits(i, n)
           k == First(Spares)
<1>1. GoodTable(t, ptr)
  BY ReusedStaysGood
<1>2. /\ i \in Slots /\ records[i].size >= n
      /\ split => k \in Slots /\ k # i /\ records[k].size = 0
      /\ t[i].addr = records[i].addr /\ t[i].class = records[i].class
      /\ t[i].size = IF split THEN n ELSE records[i].size
      /\ split => /\ t[k].addr = records[i].addr + n /\ t[k].size = records[i].size - n
                  /\ t[k].class = records[i].class
      /\ \A j \in Slots : j # i /\ (split => j # k) => t[j] = records[j]
  BY ReusedIs
<1>3. split => records[i].size > n
  BY DEF Splits
<1>4. records[i].size \in Nat
  BY <1>2 DEF GoodTable, RecordType
<1> HIDE DEF i, t, k, split
<1>5. CASE split
  <2>1. /\ records[i].size > 0 /\ t[i].size > 0 /\ t[k].size > 0
        /\ t[i].size + t[k].size = records[i].size
    BY <1>2, <1>3, <1>4, <1>5
  <2>2. Cut(records, t, i, k)
    BY <1>2, <1>5, <2>1 DEF Cut
  <2>3. Tiled(t, ptr)
    BY <1>1, <2>2, SplitTiles
  <2> QED BY <2>3 DEF t, i
<1>6. CASE ~ split
  <2>1. \A j \in Slots : t[j].addr = records[j].addr /\ t[j].size = records[j].size
                         /\ t[j].class = records[j].class
    BY <1>2, <1>6
  <2>2. Tiled(t, ptr)
    BY <2>1, TiledAsBefore
  <2> QED BY <2>2 DEF t, i
<1> QED BY <1>5, <1>6

LEMMA AllocatedTiles ==
  ASSUME PoolsApart, GoodTable(records, ptr), Tiled(records, ptr), NEW bytes \in Nat, NEW caps,
         Grants(bytes, caps) # None
  PROVE  Tiled(Allocated(Grants(bytes, caps), bytes), PtrAfter(Grants(bytes, caps), bytes))
<1> DEFINE p == Grants(bytes, caps)
           n == AlignSize(bytes)
<1>1. p \in Pools /\ n > 0 /\ (Fitting(p, n) # {} \/ Holds(p, n))
  BY GrantedHasRoom
<1>2. n \in Nat /\ bytes <= n
  BY <1>1, AlignSizeSuffices
<1> HIDE DEF p
<1>3. CASE Reuses(p, bytes)
  <2>1. /\ Allocated(p, bytes) = Reused(Best(p, n), n, bytes)
        /\ PtrAfter(p, bytes) = ptr
        /\ Fitting(p, n) # {}
    BY <1>3 DEF Allocated, PtrAfter, Reuses
  <2> HIDE DEF n
  <2> QED BY <1>1, <1>2, <2>1, ReusedTiles DEF p
<1>4. CASE ~ Reuses(p, bytes)
  <2>1. /\ Allocated(p, bytes) = Bumped(p, n, bytes)
        /\ PtrAfter(p, bytes) = [ptr EXCEPT ![p] = @ + n]
        /\ Holds(p, n)
    BY <1>1, <1>4 DEF Allocated, PtrAfter, Reuses
  <2> HIDE DEF n
  <2> QED BY <1>1, <1>2, <2>1, BumpedTiles DEF p
<1> QED BY <1>3, <1>4

(* A block that is freed stays where it is.                                *)
LEMMA StartFreeTiles ==
  ASSUME NEW table, NEW pointers, GoodTable(table, pointers), Tiled(table, pointers),
         NEW addr, StartFree(table, addr)
  PROVE  Tiled(records', pointers)
<1>1. CASE addr # Null /\ Found(table, addr) # {}
  <2> DEFINE i == First(Found(table, addr))
  <2>1. i \in Slots
    <3>1. Found(table, addr) \in SUBSET Slots /\ i \in Found(table, addr)
      BY <1>1, FirstIsMember DEF Found
    <3> QED BY <3>1
  <2>2. records' = [table EXCEPT ![i].active = FALSE, ![i].requested = table[i].size]
    BY <1>1 DEF StartFree
  <2> HIDE DEF i
  <2>3. table[i] \in RecordType /\ DOMAIN table = Slots
    BY <2>1 DEF GoodTable
  <2>4. \A j \in Slots : /\ records'[j].addr = table[j].addr /\ records'[j].size = table[j].size
                         /\ records'[j].class = table[j].class
    BY <2>1, <2>2, <2>3 DEF RecordType
  <2> QED BY <2>4, TiledAsBefore
<1>2. CASE ~ (addr # Null /\ Found(table, addr) # {})
  BY <1>2 DEF StartFree
<1> QED BY <1>1, <1>2

(* Two neighbours become one block.                                        *)
LEMMA MergeTiles ==
  ASSUME PoolsApart, GoodTable(records, ptr), LoopsInv, Tiled(records, ptr), Merge
  PROVE  Tiled(records', ptr)
<1>1. GoodTable(records', ptr)
  BY MergeStaysGood
<1>2. /\ Kept \in Slots /\ Gone \in Slots /\ Kept # Gone /\ Free(Kept) /\ Free(Gone)
      /\ records[Kept].class = records[Gone].class
      /\ records[Kept].addr + records[Kept].size = records[Gone].addr
      /\ records'[Kept].addr = records[Kept].addr
      /\ records'[Kept].size = records[Kept].size + records[Gone].size
      /\ records'[Kept].class = records[Kept].class
      /\ records'[Gone].size = 0
      /\ \A j \in Slots : j # Kept /\ j # Gone => records'[j] = records[j]
  BY MergedIs
<1>3. records[Kept].size > 0 /\ records[Gone].size > 0
      /\ records[Kept].size \in Nat /\ records[Gone].size \in Nat
  BY <1>2 DEF Free, GoodTable, RecordType
<1>4. Cut(records', records, Kept, Gone)
  BY <1>2, <1>3 DEF Cut
<1> QED BY <1>1, <1>4, JoinTiles

(* The highest block of the pool is gone, and the pointer lies where it    *)
(* began; nobody else began or ended at the old pointer.                   *)
LEMMA TrimTiles ==
  ASSUME PoolsApart, GoodTable(records, ptr), LoopsInv, Tiled(records, ptr), Trim
  PROVE  Tiled(records', ptr')
<1> DEFINE i == First(Tops)
<1>1. trimmed \in Pools
  BY DEF Trim, LoopsInv
<1>2. i \in Slots /\ Free(i) /\ InPool(i, trimmed) /\ End(i) = ptr[trimmed]
  <2>1. Tops \in SUBSET Slots /\ i \in Tops
    BY FirstIsMember DEF Tops, Trim
  <2> HIDE DEF i
  <2> QED BY <2>1 DEF Tops
<1>3. ptr' = [ptr EXCEPT ![trimmed] = records[i].addr] /\ records' = [records EXCEPT ![i] = Unused]
  BY DEF Trim
<1> HIDE DEF i
<1>4. \A j \in Slots : records[j].addr \in Nat /\ records[j].size \in Nat
  BY DEF GoodTable, RecordType
<1>5. \A s \in Pools : ptr[s] \in Nat /\ Base(s) \in Nat /\ Limit(s) \in Nat
  BY DEF GoodTable, PoolsApart
<1>6. /\ records'[i].size = 0
      /\ \A j \in Slots : j # i => records'[j] = records[j]
  BY <1>2, <1>3 DEF GoodTable, Unused
<1>7. /\ ptr'[trimmed] = records[i].addr
      /\ \A s \in Pools : s # trimmed => ptr'[s] = ptr[s]
  BY <1>1, <1>3 DEF GoodTable
<1>8. /\ records[i].size > 0 /\ In(records[i], trimmed)
      /\ records[i].addr + records[i].size = ptr[trimmed]
  BY <1>2 DEF Free, InPool, In, End
<1>9. GoodTable(records', ptr')
  BY TrimStaysGood
<1> SUFFICES ASSUME NEW s \in Pools PROVE TiledPool(records', ptr', s)
  BY DEF Tiled
<1>10. TiledPool(records, ptr, s)
  BY DEF Tiled
<1>11. /\ Sizes(records', s) \in Weight
       /\ \A j \in Slots : Sizes(records', s)[j] = IF In(records'[j], s) THEN records'[j].size ELSE 0
       /\ Sizes(records, s) \in Weight
       /\ \A j \in Slots : Sizes(records, s)[j] = IF In(records[j], s) THEN records[j].size ELSE 0
  BY <1>9, SizesIs
<1>12. CASE s = trimmed
  <2> DEFINE top == ptr[s]
  <2>1. \A j \in Slots : j # i /\ records[j].size > 0 /\ In(records[j], s) =>
          records[j].addr + records[j].size <= records[i].addr
    <3> TAKE j \in Slots
    <3> HAVE j # i /\ records[j].size > 0 /\ In(records[j], s)
    <3>1. Separate(records[i], records[j])
      BY <1>2, <1>8 DEF GoodTable
    <3>2. records[j].addr + records[j].size <= ptr[s]
      BY OneHome
    <3> QED BY <1>2, <1>4, <1>5, <1>8, <1>12, <3>1, <3>2 DEF Separate
  <2>2. \A a \in Nat : /\ Starts(records, s, a) <=> Starts(records', s, a) \/ a = records[i].addr
                       /\ Stops(records, s, a) <=> Stops(records', s, a) \/ a = top
    <3> TAKE a \in Nat
    <3>1. Starts(records, s, a) <=> Starts(records', s, a) \/ a = records[i].addr
      BY <1>2, <1>6, <1>8, <1>12 DEF Starts
    <3>2. Stops(records, s, a) <=> Stops(records', s, a) \/ a = top
      BY <1>2, <1>6, <1>8, <1>12 DEF Stops
    <3> QED BY <3>1, <3>2
  <2>3. records[i].addr < top /\ Base(s) < top
    BY <1>2, <1>4, <1>5, <1>8, <1>12 DEF In
  <2>4. ~ Starts(records', s, top) /\ ~ Stops(records', s, top)
    <3>1. \A j \in Slots : records'[j].size > 0 /\ In(records'[j], s) =>
            /\ records[j].addr + records[j].size <= records[i].addr /\ records[j].size > 0
            /\ records'[j] = records[j]
      BY <1>6, <2>1
    <3>2. \A j \in Slots : records'[j].size > 0 /\ In(records'[j], s) =>
            top # records'[j].addr /\ top # records'[j].addr + records'[j].size
      BY <1>2, <1>4, <1>5, <2>3, <3>1
    <3> HIDE DEF top
    <3> QED BY <3>2 DEF Starts, Stops
  <2>5. \A a \in Nat : a = ptr'[s] \/ Starts(records', s, a) <=> a = Base(s) \/ Stops(records', s, a)
    <3> TAKE a \in Nat
    <3>1. a = top \/ Starts(records, s, a) <=> a = Base(s) \/ Stops(records, s, a)
      BY <1>10 DEF TiledPool
    <3>2. ptr'[s] = records[i].addr /\ top # records[i].addr /\ top # Base(s)
      BY <1>2, <1>4, <1>5, <1>7, <1>12, <2>3
    <3> HIDE DEF top
    <3>3. CASE a = top
      BY <2>4, <3>2, <3>3
    <3>4. CASE a # top
      BY <2>2, <3>1, <3>2, <3>4
    <3> QED BY <3>3, <3>4
  <2>6. Sizes(records, s)[i] = records[i].size /\ Sizes(records', s)[i] = 0
    BY <1>2, <1>6, <1>8, <1>11, <1>12
  <2>7. \A j \in Slots : j # i => Sizes(records', s)[j] = Sizes(records, s)[j]
    BY <1>6, <1>11
  <2>8. Sum(Sizes(records', s)) + records[i].size = Sum(Sizes(records, s)) + 0
    <3> DEFINE f == Sizes(records, s)
               g == Sizes(records', s)
    <3>1. f \in Weight /\ g \in Weight /\ \A j \in Slots : i # j => g[j] = f[j]
      BY <1>11, <2>7
    <3>2. f[i] = records[i].size /\ g[i] = 0
      BY <2>6
    <3> HIDE DEF f, g
    <3>3. Sum(g) + f[i] = Sum(f) + g[i]
      BY <1>2, <3>1, SumOfOther
    <3> QED BY <3>2, <3>3 DEF f, g
  <2>9. Sum(Sizes(records', s)) \in Nat /\ Sum(Sizes(records, s)) \in Nat
    BY <1>11, SumIsNat
  <2>10. Sum(Sizes(records, s)) + Base(s) = ptr[s]
    BY <1>10 DEF TiledPool
  <2>11. Sum(Sizes(records', s)) + Base(s) = ptr'[s]
    BY <1>2, <1>4, <1>5, <1>7, <1>8, <1>12, <2>8, <2>9, <2>10
  <2> QED BY <2>5, <2>11 DEF TiledPool
<1>13. CASE s # trimmed
  <2>1. ~ In(records[i], s)
    BY <1>1, <1>2, <1>8, <1>13, OneHome
  <2>2. \A a \in Nat : /\ Starts(records', s, a) <=> Starts(records, s, a)
                       /\ Stops(records', s, a) <=> Stops(records, s, a)
    <3> TAKE a \in Nat
    <3>1. Starts(records', s, a) <=> Starts(records, s, a)
      BY <1>2, <1>6, <2>1 DEF Starts
    <3>2. Stops(records', s, a) <=> Stops(records, s, a)
      BY <1>2, <1>6, <2>1 DEF Stops
    <3> QED BY <3>1, <3>2
  <2>3. Sizes(records', s) = Sizes(records, s)
    <3>1. \A j \in Slots : Sizes(records', s)[j] = Sizes(records, s)[j]
      BY <1>2, <1>6, <1>11, <2>1
    <3> QED BY <1>11, <3>1 DEF Weight
  <2> QED BY <1>7, <1>10, <1>13, <2>2, <2>3 DEF TiledPool
<1> QED BY <1>12, <1>13
----------------------------------------------------------------------------
(* The pools are tiled throughout.                                         *)
PoolsTiled == Tiled(records, ptr)

(* A step that leaves the pools where they are and tiled.                  *)
LEMMA TiledStep ==
  ASSUME UNCHANGED <<mode, heapStart>>, Tiled(records', ptr')
  PROVE  PoolsTiled'
<1>1. \A p : Base(p)' = Base(p) /\ Limit(p)' = Limit(p)
  BY PoolsStay
<1>2. \A p \in Pools :
        /\ Sizes(records, p)' = Sizes(records', p)
        /\ \A a : Starts(records, p, a)' = Starts(records', p, a)
                  /\ Stops(records, p, a)' = Stops(records', p, a)
  BY <1>1 DEF Sizes, Starts, Stops, In
<1>3. \A p \in Pools : TiledPool(records, ptr, p)'
  <2> TAKE p \in Pools
  <2>1. TiledPool(records', ptr', p)
    BY DEF Tiled
  <2> QED BY <1>1, <1>2, <2>1 DEF TiledPool
<1> QED BY <1>3 DEF PoolsTiled, Tiled

(* Empty pools are tiled: their pointers lie at their bases.               *)
LEMMA InitTiles == Init => PoolsTiled
<1> SUFFICES ASSUME Init, NEW p \in Pools PROVE TiledPool(records, ptr, p)
  BY DEF PoolsTiled, Tiled
<1>1. \A i \in Slots : records[i].size = 0
  BY DEF Init, Unused
<1>2. ptr[p] = Base(p) /\ Base(p) \in Nat
  BY PoolsLieApart DEF Init, PoolsApart
<1>3. Sizes(records, p) \in Weight /\ \A i \in Slots : Sizes(records, p)[i] = 0
  BY <1>1 DEF Sizes, Weight
<1>4. Sum(Sizes(records, p)) = 0
  BY <1>3, SumOfNothing
<1>5. \A a \in Nat : ~ Starts(records, p, a) /\ ~ Stops(records, p, a)
  BY <1>1 DEF Starts, Stops
<1> QED BY <1>2, <1>4, <1>5 DEF TiledPool

LEMMA MallocTiles ==
  ASSUME IInv, PoolsTiled, NEW bytes \in Nat, NEW caps, Malloc(bytes, caps)
  PROVE  PoolsTiled'
<1>1. PoolsApart /\ GoodTable(records, ptr) /\ Tiled(records, ptr)
  BY PoolsLieApart, GoodTableIsInvariant DEF IInv, TypeOK, HeapInv, PoolsTiled
<1>2. Tiled(records', ptr')
  BY <1>1, AllocatedTiles DEF Malloc
<1> QED BY <1>2, TiledStep DEF Malloc

LEMMA FreeTiles ==
  ASSUME IInv, PoolsTiled, NEW addr, FreeBlock(addr)
  PROVE  PoolsTiled'
<1>1. GoodTable(records, ptr) /\ Tiled(records, ptr)
  BY PoolsLieApart, GoodTableIsInvariant DEF IInv, TypeOK, HeapInv, PoolsTiled
<1>2. Tiled(records', ptr')
  BY <1>1, StartFreeTiles DEF FreeBlock
<1> QED BY <1>2, TiledStep DEF FreeBlock

LEMMA ReallocTiles ==
  ASSUME IInv, PoolsTiled, NEW addr, NEW bytes \in Nat, NEW caps, Realloc(addr, bytes, caps)
  PROVE  PoolsTiled'
<1>1. CASE FreeBlock(addr)
  BY <1>1, FreeTiles
<1>2. CASE Malloc(bytes, caps)
  BY <1>2, MallocTiles
<1>3. CASE /\ UNCHANGED <<mode, heapStart>>
           /\ LET p == Grants(bytes, caps) IN
              IF p = None
              THEN UNCHANGED <<ptr, records, freed, trimmed, pc>>
              ELSE StartFree(Allocated(p, bytes), addr) /\ ptr' = PtrAfter(p, bytes)
  <2>1. PoolsApart /\ GoodTable(records, ptr) /\ Tiled(records, ptr)
    BY PoolsLieApart, GoodTableIsInvariant DEF IInv, TypeOK, HeapInv, PoolsTiled
  <2>2. CASE Grants(bytes, caps) = None
    BY <1>3, <2>1, <2>2, TiledStep
  <2>3. CASE Grants(bytes, caps) # None
    <3> DEFINE table == Allocated(Grants(bytes, caps), bytes)
               pointers == PtrAfter(Grants(bytes, caps), bytes)
    <3>1. GoodTable(table, pointers) /\ Tiled(table, pointers)
      BY <2>1, <2>3, AllocatedStaysGood, AllocatedTiles
    <3>2. StartFree(table, addr) /\ ptr' = pointers
      BY <1>3, <2>3
    <3> HIDE DEF table, pointers
    <3>3. Tiled(records', ptr')
      BY <3>1, <3>2, StartFreeTiles
    <3> QED BY <1>3, <3>3, TiledStep
  <2> QED BY <2>2, <2>3
<1> QED BY <1>1, <1>2, <1>3 DEF Realloc

(* Every step of the heap leaves the pools tiled.                          *)
LEMMA StepTiles == IInv /\ PoolsTiled /\ [Next]_vars => PoolsTiled'
<1> SUFFICES ASSUME IInv, PoolsTiled, [Next]_vars PROVE PoolsTiled'
  OBVIOUS
<1>0. PoolsApart /\ GoodTable(records, ptr) /\ LoopsInv /\ Tiled(records, ptr)
  BY PoolsLieApart, GoodTableIsInvariant DEF IInv, TypeOK, HeapInv, PoolsTiled
<1>1. ASSUME NEW bytes \in Amounts, NEW wish \in Wishes, Malloc(bytes, CapsOf(wish))
      PROVE  PoolsTiled'
  BY <1>1, MallocTiles, InputAssumption
<1>2. ASSUME NEW a \in Factors, NEW b \in Factors, NEW wish \in Wishes, Calloc(a, b, CapsOf(wish))
      PROVE  PoolsTiled'
  BY <1>2, MallocTiles, ProductType, InputAssumption DEF Calloc
<1>3. ASSUME NEW addr \in Known, FreeBlock(addr)
      PROVE  PoolsTiled'
  BY <1>3, FreeTiles
<1>4. ASSUME NEW addr \in Known, NEW bytes \in Amounts, NEW wish \in Wishes,
             Realloc(addr, bytes, CapsOf(wish))
      PROVE  PoolsTiled'
  BY <1>4, ReallocTiles, InputAssumption
<1>5. CASE Merge
  <2>1. Tiled(records', ptr)
    BY <1>0, <1>5, MergeTiles
  <2> QED BY <1>5, <2>1, TiledStep DEF Merge
<1>6. CASE Trim
  <2>1. Tiled(records', ptr')
    BY <1>0, <1>6, TrimTiles
  <2> QED BY <1>6, <2>1, TiledStep DEF Trim
<1>7. CASE MergeEnds \/ TrimEnds \/ UNCHANGED vars
  <2>1. UNCHANGED <<mode, heapStart, ptr, records>>
    BY <1>7 DEF MergeEnds, TrimEnds, vars
  <2> QED BY <1>0, <2>1, TiledStep
<1> QED
  BY <1>1, <1>2, <1>3, <1>4, <1>5, <1>6, <1>7 DEF Next

----------------------------------------------------------------------------
(* What lies below the pointer is live or free, and the query adds the     *)
(* free blocks up.                                                         *)
LEMMA TiledIsAccounted ==
  ASSUME IInv, PoolsTiled
  PROVE  Accounted
<1>1. PoolsApart /\ GoodTable(records, ptr) /\ Tiled(records, ptr)
  BY PoolsLieApart, GoodTableIsInvariant DEF IInv, TypeOK, HeapInv, PoolsTiled
<1> SUFFICES ASSUME NEW p \in Pools
             PROVE  LET mine == {i \in Slots : Used(i) /\ InPool(i, p)}
                        starts == {records[i].addr : i \in mine} \cup {ptr[p]}
                        ends == {End(i) : i \in mine} \cup {Base(p)}
                        taken == SizeOf(records, {i \in mine : Active(i)})
                    IN  starts = ends /\ FreeBytes(p) + taken = Total(p)
  BY Zenon DEF Accounted, SizeOf
<1> DEFINE mine == {i \in Slots : Used(i) /\ InPool(i, p)}
           starts == {records[i].addr : i \in mine} \cup {ptr[p]}
           ends == {End(i) : i \in mine} \cup {Base(p)}
           live == {i \in mine : Active(i)}
<1>2. TiledPool(records, ptr, p)
  BY <1>1 DEF Tiled
<1>3. /\ ptr[p] \in Nat /\ Base(p) \in Nat /\ Limit(p) \in Nat
      /\ Base(p) <= ptr[p] /\ ptr[p] <= Limit(p)
      /\ \A i \in Slots : records[i].addr \in Nat /\ records[i].size \in Nat
  BY <1>1 DEF GoodTable, RecordType, PoolsApart
<1>4. \A i \in Slots : InPool(i, p) <=> In(records[i], p)
  BY DEF InPool, In
<1>5. starts = ends
  <2>1. \A a : a \in starts <=> a \in Nat /\ (a = ptr[p] \/ Starts(records, p, a))
    BY <1>3, <1>4 DEF Starts, Used
  <2>2. \A a : a \in ends <=> a \in Nat /\ (a = Base(p) \/ Stops(records, p, a))
    BY <1>3, <1>4 DEF Stops, Used, End
  <2>3. \A a \in Nat : a = ptr[p] \/ Starts(records, p, a) <=> a = Base(p) \/ Stops(records, p, a)
    BY <1>2 DEF TiledPool
  <2> HIDE DEF starts, ends
  <2> QED BY <2>1, <2>2, <2>3
<1> DEFINE f == [i \in Slots |-> records[i].size]
<1>6. f \in Weight /\ \A i \in Slots : f[i] = records[i].size
  BY <1>3 DEF Weight
<1>7. live \in SUBSET Slots /\ FreeBlocks(p) \in SUBSET Slots
  BY DEF FreeBlocks
<1>8. \A i \in Slots : /\ i \in live <=> records[i].size > 0 /\ In(records[i], p) /\ records[i].active
                       /\ i \in FreeBlocks(p)
                            <=> records[i].size > 0 /\ In(records[i], p) /\ ~ records[i].active
  BY <1>4 DEF FreeBlocks, Free, Used, Active
<1> HIDE DEF f, mine, live
<1>9. /\ WeightOf(f, live) \in Weight /\ WeightOf(f, FreeBlocks(p)) \in Weight
      /\ \A i \in Slots : /\ WeightOf(f, live)[i] = IF i \in live THEN f[i] ELSE 0
                          /\ WeightOf(f, FreeBlocks(p))[i] = IF i \in FreeBlocks(p) THEN f[i] ELSE 0
  BY <1>6, WeightOfIs
<1>10. /\ Sizes(records, p) \in Weight
       /\ \A i \in Slots : Sizes(records, p)[i] = IF In(records[i], p) THEN records[i].size ELSE 0
  BY <1>1, SizesIs
<1>11. \A i \in Slots :
         Sizes(records, p)[i] = WeightOf(f, FreeBlocks(p))[i] + WeightOf(f, live)[i]
  BY <1>3, <1>6, <1>8, <1>9, <1>10
<1>12. Sum(Sizes(records, p)) = Sum(WeightOf(f, FreeBlocks(p))) + Sum(WeightOf(f, live))
  BY <1>9, <1>10, <1>11, SumOfBoth
<1>13. /\ SizeOf(records, live) = Sum(WeightOf(f, live))
       /\ SizeOf(records, FreeBlocks(p)) = Sum(WeightOf(f, FreeBlocks(p)))
  BY <1>6, <1>7, FoldIsSum
<1>14. SizeOf(records, FreeBlocks(p)) + SizeOf(records, live) + Base(p) = ptr[p]
       /\ SizeOf(records, FreeBlocks(p)) \in Nat /\ SizeOf(records, live) \in Nat
  BY <1>2, <1>9, <1>12, <1>13, SumIsNat DEF TiledPool
<1>15. FreeBytes(p) = Unallocated(p) + SizeOf(records, FreeBlocks(p))
  BY Zenon DEF FreeBytes, SizeOf
<1>16. Unallocated(p) = Limit(p) - ptr[p]
  BY <1>3 DEF Unallocated
<1>17. FreeBytes(p) + SizeOf(records, live) = Total(p)
  BY <1>3, <1>14, <1>15, <1>16 DEF Total
<1> QED BY <1>5, <1>17 DEF live, mine

(* No byte of a pool is lost, however its blocks are split, merged,        *)
(* trimmed and handed out again: the bytes the firmware is told are free   *)
(* and those of the live blocks add up to the pool, for any layout of the  *)
(* memory, any table and any calls.                                        *)
THEOREM EveryByteAccounted == Spec => []Accounted
<1>1. Init => PoolsTiled
  BY InitTiles
<1>2. IInv /\ PoolsTiled /\ [Next]_vars => PoolsTiled'
  BY StepTiles
<1>3. IInv /\ PoolsTiled => Accounted
  BY TiledIsAccounted
<1> QED
  BY <1>1, <1>2, <1>3, InitEstablishes, StepPreserves, PTL DEF Spec
=============================================================================
