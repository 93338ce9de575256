------------------------------ MODULE SimHeap ------------------------------
(***************************************************************************)
(* The guest heap that the translator substitutes for the firmware's       *)
(* allocators (target_xtensa_exc_helper.c): three pools, each a bump       *)
(* pointer over a range of guest addresses, and one table of records for   *)
(* the blocks below the pointers, active or free for reuse.  The helpers   *)
(* run to completion on the one emulated CPU; the two loops of a free,     *)
(* merging and trimming, are steps of their own with no call between them. *)
(*                                                                         *)
(* The pools lie in RAM of the machine, so that zeroing a block and        *)
(* copying its contents never fail.                                        *)
(***************************************************************************)
EXTENDS Integers, FiniteSets

CONSTANTS
  DramBase, RomStubBase, RomStubLimit, ExternalRamBase, TestLimit, \* internal RAM
  InternalBytes,                                                   \* of the device's heap
  HeapBase, PsramLimit, HeapLimit,                                 \* PSRAM
  MaxRecords,  \* MOFEI_BUMP_ALLOC_RECORD_MAX
  MaxWord,     \* UINT32_MAX
  HeapStarts,  \* values of the firmware's heap start symbol
  Amounts,     \* bytes the guest asks for
  Factors,     \* of the bytes the guest asks for
  CapsUsed     \* capability sets the callers of heap_caps_malloc and its kin pass

SetsExt == INSTANCE FiniteSetsExt

Alignment == 64
Aligned(a) == a % Alignment = 0

ASSUME LayoutAssumption ==
  /\ \A a \in {DramBase, RomStubBase, RomStubLimit, ExternalRamBase, TestLimit, InternalBytes,
               HeapBase, PsramLimit, HeapLimit} : a \in Nat /\ Aligned(a)
  /\ 0 < HeapBase /\ HeapBase < PsramLimit /\ PsramLimit <= HeapLimit /\ HeapLimit <= DramBase
  /\ DramBase < RomStubBase /\ RomStubBase < RomStubLimit
  /\ RomStubLimit < ExternalRamBase /\ ExternalRamBase < TestLimit
  /\ 0 < InternalBytes
ASSUME TableAssumption == MaxRecords \in Nat /\ MaxWord \in Nat
ASSUME InputAssumption == HeapStarts \subseteq Nat /\ Amounts \subseteq Nat /\ Factors \subseteq Nat

VARIABLES mode,      \* mofei_sim_heap_mode
          heapStart, \* mofei_sim_addrs.heap_start_addr
          ptr,       \* of each pool
          records,   \* mofei_bump_alloc_records; a record of size 0 is not in use
          pc,        \* "idle", or the loop of a free that runs: "merge", "trim"
          freed,     \* the record that is merged
          trimmed    \* the pool whose pointer is lowered

vars == <<mode, heapStart, ptr, records, pc, freed, trimmed>>

Null == 0
None == "none"
Pools == {"internal", "ext", "psram"}
Slots == 1..MaxRecords
Lower(a, b) == IF a < b THEN a ELSE b
AlignUp(a) == ((a + (Alignment - 1)) \div Alignment) * Alignment

----------------------------------------------------------------------------
(* The pools: mofei_configure_internal_heap_pool, mofei_sim_heap_init.     *)

InternalHeapStart ==
  IF \/ DramBase <= heapStart /\ heapStart < RomStubBase
     \/ RomStubLimit <= heapStart /\ heapStart < ExternalRamBase
  THEN AlignUp(heapStart) ELSE RomStubLimit

InternalRange ==
  LET base == IF mode = "test" THEN RomStubLimit ELSE InternalHeapStart
      end == IF mode = "test" THEN TestLimit
             ELSE IF base < RomStubBase THEN RomStubBase ELSE ExternalRamBase
      limit == IF mode = "test" THEN end ELSE Lower(end, base + InternalBytes)
  IN  IF limit <= base
      THEN [base |-> RomStubLimit, limit |-> IF mode = "test" THEN TestLimit ELSE ExternalRamBase]
      ELSE [base |-> base, limit |-> limit]

(* What the ROM stub leaves of the budget is served behind it.             *)
ExtRange ==
  LET primary == RomStubBase - InternalHeapStart
      limit == Lower(ExternalRamBase, RomStubLimit + (InternalBytes - primary))
  IN  IF mode = "test" \/ primary <= 0 \/ InternalBytes <= primary
      THEN [base |-> 0, limit |-> 0]
      ELSE [base |-> RomStubLimit, limit |-> limit]

PsramRange == [base |-> HeapBase, limit |-> IF mode = "test" THEN HeapLimit ELSE PsramLimit]

Range == [p \in Pools |-> CASE p = "internal" -> InternalRange
                            [] p = "ext" -> ExtRange
                            [] OTHER -> PsramRange]
Base(p) == Range[p].base
Limit(p) == Range[p].limit
ClassOf(p) == IF p = "psram" THEN "psram" ELSE "internal"

(* The address of a record that is not in use is not read again.           *)
Unused == [addr |-> 0, requested |-> 0, size |-> 0, class |-> "internal", active |-> FALSE]

Init ==
  /\ mode \in {"device", "test"}
  /\ heapStart \in HeapStarts
  /\ ptr = [p \in Pools |-> Base(p)]
  /\ records = [i \in Slots |-> Unused]
  /\ pc = "idle"
  /\ freed = 0
  /\ trimmed = None

----------------------------------------------------------------------------
(* The records.                                                            *)

Active(i) == records[i].active
Free(i) == ~ records[i].active /\ records[i].size > 0
End(i) == records[i].addr + records[i].size
InPool(i, p) ==
  records[i].class = ClassOf(p) /\ Base(p) <= records[i].addr /\ records[i].addr < Limit(p)

Spares == {i \in Slots : ~ records[i].active /\ records[i].size = 0}
First(S) == CHOOSE i \in S : \A j \in S : i <= j
Unallocated(p) == IF ptr[p] < Limit(p) THEN Limit(p) - ptr[p] ELSE 0

(* Seeded fault: a block that is in use serves as well as a free one.      *)
FittingAny(p, n) == {i \in Slots : InPool(i, p) /\ records[i].size >= n}
Fitting(p, n) == {i \in Slots : Free(i) /\ InPool(i, p) /\ records[i].size >= n}
Best(p, n) ==
  CHOOSE i \in Fitting(p, n) : \A j \in Fitting(p, n) :
    \/ records[i].size < records[j].size
    \/ records[i].size = records[j].size /\ i <= j

----------------------------------------------------------------------------
(* Allocation.                                                             *)

(* mofei_bump_align_size; 0 stands for a request that is too large.        *)
AlignSize(bytes) ==
  IF bytes = 0 THEN Alignment
  ELSE IF bytes > HeapLimit - HeapBase THEN 0 ELSE AlignUp(bytes)

PoolForCaps(caps) ==
  IF "spiram" \in caps /\ caps \cap {"internal", "dma"} = {} THEN "psram" ELSE "internal"

(* Seeded faults: the end of the pool is not checked; a split forgets the  *)
(* tail.                                                                   *)
HoldsAnything(p, n) == Spares # {}
TailForgotten(i, n) == {}

HasSpace(p, n) == Fitting(p, n) # {} \/ n <= Unallocated(p)

ResolvePool(p, n) ==
  IF ~ HasSpace(p, n) /\ p = "internal" /\ Limit("ext") > Base("ext") /\ HasSpace("ext", n)
  THEN "ext" ELSE p

Holds(p, n) == n <= Limit(p) - ptr[p] /\ Spares # {}

(* mofei_bump_alloc: the pool it takes the block from, None if it fails.   *)
TakesFrom(bytes, caps) ==
  LET n == AlignSize(bytes)
      p == ResolvePool(PoolForCaps(caps), n)
  IN  IF n > 0 /\ (Fitting(p, n) # {} \/ Holds(p, n)) THEN p ELSE None

(* mofei_bump_heap_caps_alloc, mofei_bump_malloc_default: requests without *)
(* a wish fall back to PSRAM.                                              *)
Indifferent(caps) == "default" \in caps \/ caps = {"8bit"}
Grants(bytes, caps) ==
  IF ~ Indifferent(caps) THEN TakesFrom(bytes, caps)
  ELSE IF TakesFrom(bytes, {"8bit"}) # None THEN TakesFrom(bytes, {"8bit"})
  ELSE TakesFrom(bytes, {"spiram", "8bit"})

(* The slot of the tail of a free record that is larger than needed: none  *)
(* when the table is full, and the whole record is handed out.             *)
TailSlot(i, n) == IF records[i].size > n /\ Spares # {} THEN {First(Spares)} ELSE {}

Reused(i, n, bytes) ==
  LET tail == TailSlot(i, n)
      left == [addr |-> records[i].addr + n, requested |-> records[i].size - n,
               size |-> records[i].size - n, class |-> records[i].class, active |-> FALSE]
  IN  [j \in Slots |->
         IF j = i THEN [records[i] EXCEPT !.requested = bytes, !.active = TRUE,
                                          !.size = IF records[i].size > n /\ Spares # {} THEN n ELSE @]
         ELSE IF j \in tail THEN left ELSE records[j]]

Bumped(p, n, bytes) ==
  [records EXCEPT ![First(Spares)] =
     [addr |-> ptr[p], requested |-> bytes, size |-> n, class |-> ClassOf(p), active |-> TRUE]]

(* The table and the pointers after an allocation from p.                  *)
Reuses(p, bytes) == Fitting(p, AlignSize(bytes)) # {}
Allocated(p, bytes) ==
  LET n == AlignSize(bytes)
  IN  IF Reuses(p, bytes) THEN Reused(Best(p, n), n, bytes) ELSE Bumped(p, n, bytes)
PtrAfter(p, bytes) ==
  IF Reuses(p, bytes) THEN ptr ELSE [ptr EXCEPT ![p] = @ + AlignSize(bytes)]

(* A size of two factors that overflows counts as 0.                       *)
MulSizeOrZero(a, b) == IF a = 0 \/ b = 0 \/ a > MaxWord \div b THEN 0 ELSE a * b

Malloc(bytes, caps) ==
  /\ pc = "idle"
  /\ LET p == Grants(bytes, caps) IN
     IF p = None
     THEN UNCHANGED <<ptr, records>>
     ELSE records' = Allocated(p, bytes) /\ ptr' = PtrAfter(p, bytes)
  /\ UNCHANGED <<mode, heapStart, pc, freed, trimmed>>

Calloc(a, b, caps) == Malloc(MulSizeOrZero(a, b), caps)

----------------------------------------------------------------------------
(* Release.                                                                *)

Found(table, addr) == {i \in Slots : table[i].addr = addr /\ table[i].active}

PoolOfFreed(record, addr) ==
  IF record.class = "psram" THEN "psram"
  ELSE IF Base("ext") <= addr /\ addr < Limit("ext") THEN "ext" ELSE "internal"

(* mofei_bump_free on a table, up to its loops; an address that no active  *)
(* record has is ignored.                                                  *)
StartFree(table, addr) ==
  IF addr # Null /\ Found(table, addr) # {}
  THEN LET i == First(Found(table, addr)) IN
       /\ records' = [table EXCEPT ![i].active = FALSE, ![i].requested = table[i].size]
       /\ freed' = i
       /\ trimmed' = PoolOfFreed(table[i], addr)
       /\ pc' = "merge"
  ELSE /\ records' = table
       /\ UNCHANGED <<freed, trimmed, pc>>

FreeBlock(addr) ==
  /\ pc = "idle"
  /\ StartFree(records, addr)
  /\ UNCHANGED <<mode, heapStart, ptr>>

(* mofei_bump_realloc: the old block is copied and freed when there is a   *)
(* new one, and kept when there is none.                                   *)
Realloc(addr, bytes, caps) ==
  \/ bytes = 0 /\ FreeBlock(addr)
  \/ bytes > 0 /\ addr = Null /\ Malloc(bytes, caps)
  \/ /\ bytes > 0 /\ addr # Null /\ pc = "idle"
     /\ LET p == Grants(bytes, caps) IN
        IF p = None
        THEN UNCHANGED <<ptr, records, freed, trimmed, pc>>
        ELSE StartFree(Allocated(p, bytes), addr) /\ ptr' = PtrAfter(p, bytes)
     /\ UNCHANGED <<mode, heapStart>>

(* mofei_coalesce_free_record: one round of its loop.                      *)
Mergeable(i) ==
  /\ i # freed /\ Free(i) /\ records[i].class = records[freed].class
  /\ End(freed) = records[i].addr \/ End(i) = records[freed].addr
Neighbours == {i \in Slots : Mergeable(i)}

Merge ==
  /\ pc = "merge" /\ Neighbours # {}
  /\ LET i == First(Neighbours)
         kept == IF End(freed) = records[i].addr THEN freed ELSE i
         gone == IF kept = freed THEN i ELSE freed
         size == records[freed].size + records[i].size
     IN  /\ records' = [records EXCEPT ![kept].size = size, ![kept].requested = size,
                                       ![gone] = Unused]
         /\ freed' = kept
  /\ UNCHANGED <<mode, heapStart, ptr, pc, trimmed>>

MergeEnds ==
  /\ pc = "merge" /\ Neighbours = {}
  /\ pc' = "trim"
  /\ UNCHANGED <<mode, heapStart, ptr, records, freed, trimmed>>

(* The last free block of the pool goes back below its pointer.            *)
Tops == {i \in Slots : Free(i) /\ InPool(i, trimmed) /\ End(i) = ptr[trimmed]}

Trim ==
  /\ pc = "trim" /\ Tops # {}
  /\ LET i == First(Tops) IN
     /\ ptr' = [ptr EXCEPT ![trimmed] = records[i].addr]
     /\ records' = [records EXCEPT ![i] = Unused]
  /\ UNCHANGED <<mode, heapStart, pc, freed, trimmed>>

TrimEnds ==
  /\ pc = "trim" /\ Tops = {}
  /\ pc' = "idle" /\ freed' = 0 /\ trimmed' = None
  /\ UNCHANGED <<mode, heapStart, ptr, records>>

----------------------------------------------------------------------------
(* A patched function passes on the capabilities of its caller, or asks    *)
(* for the firmware's default policy (malloc, new), or has no wish         *)
(* (pvPortMalloc, tlsf_malloc).                                            *)
Wishes == CapsUsed \cup {{"default"}, {}}
CapsOf(wish) == IF wish = {} THEN {"8bit"} ELSE wish

(* The addresses a guest may pass: those of records, live or not.          *)
Known == {records[i].addr : i \in Slots} \cup {Null}

Next ==
  \/ \E bytes \in Amounts, wish \in Wishes : Malloc(bytes, CapsOf(wish))
  \/ \E a, b \in Factors, wish \in Wishes : Calloc(a, b, CapsOf(wish))
  \/ \E addr \in Known : FreeBlock(addr)
  \/ \E addr \in Known, bytes \in Amounts, wish \in Wishes : Realloc(addr, bytes, CapsOf(wish))
  \/ Merge \/ MergeEnds
  \/ Trim \/ TrimEnds

Spec == Init /\ [][Next]_vars

----------------------------------------------------------------------------
(* The query: the bytes a pool reports as free, at the pointer and between *)
(* the blocks.                                                             *)
FreeBlocks(p) == {i \in Slots : Free(i) /\ InPool(i, p)}
FreeBytes(p) == Unallocated(p) + SetsExt!MapThenSumSet(LAMBDA i : records[i].size, FreeBlocks(p))
Total(p) == Limit(p) - Base(p)

----------------------------------------------------------------------------
(* Properties.                                                             *)

RecordType == [addr : Nat, requested : Nat, size : Nat, class : {"internal", "psram"},
               active : BOOLEAN]

TypeOK ==
  /\ mode \in {"device", "test"} /\ heapStart \in HeapStarts
  /\ ptr \in [Pools -> Nat] /\ \A p \in Pools : Base(p) <= ptr[p] /\ ptr[p] <= Limit(p)
  /\ records \in [Slots -> RecordType]
  /\ pc \in {"idle", "merge", "trim"}
  /\ freed \in Slots \cup {0} /\ trimmed \in Pools \cup {None}

Used(i) == records[i].size > 0
Below(i, p) == InPool(i, p) /\ End(i) <= ptr[p]
Apart(i, j) == End(i) <= records[j].addr \/ End(j) <= records[i].addr

(* No byte belongs to two records, whatever was split, merged or trimmed,  *)
(* and every record lies below the pointer of a pool.  A free's loops work *)
(* on a record that is free.                                               *)
RecordsBelow == \A i \in Slots : Used(i) => \E p \in Pools : Below(i, p)
RecordsApart == \A i, j \in Slots : i # j /\ Used(i) /\ Used(j) => Apart(i, j)
ActiveUsed == \A i \in Slots : Active(i) => Used(i) /\ records[i].requested <= records[i].size
LoopsInv == /\ pc = "merge" => freed \in Slots /\ Free(freed)
            /\ pc # "idle" => trimmed \in Pools
HeapInv == LoopsInv /\ RecordsBelow /\ RecordsApart /\ ActiveUsed

(* No byte is lost: below its pointer a pool is tiled by its records, so   *)
(* that each record ends where another one or the free end begins, and the *)
(* bytes a query reports free are those that no live block holds.          *)
Accounted ==
  \A p \in Pools :
    LET mine == {i \in Slots : Used(i) /\ InPool(i, p)}
        starts == {records[i].addr : i \in mine} \cup {ptr[p]}
        ends == {End(i) : i \in mine} \cup {Base(p)}
        taken == SetsExt!MapThenSumSet(LAMBDA i : records[i].size, {i \in mine : Active(i)})
    IN  starts = ends /\ FreeBytes(p) + taken = Total(p)

(* The heap keeps its promise: calls of the allocators are the only steps  *)
(* that change which blocks are live, a new block shares no byte with one  *)
(* that is live, and a reallocation that fails keeps the old block.        *)
Live == {[addr |-> records[i].addr, size |-> records[i].size,
          requested |-> records[i].requested] : i \in {j \in Slots : Active(j)}}
Promised == INSTANCE BlockHeap WITH
  live <- Live,
  Regions <- {[base |-> DramBase, limit |-> TestLimit], [base |-> HeapBase, limit |-> HeapLimit]}
Promise == Promised!Spec
=============================================================================
