----------------------------- MODULE BlockHeap -----------------------------
(***************************************************************************)
(* What the simulator's heap promises the guest: a block is live from the  *)
(* call that returned it to the call that frees it, it holds the bytes     *)
(* asked for, and live blocks never share a byte.                          *)
(***************************************************************************)
EXTENDS Naturals

CONSTANT Regions \* the memory the heap may hand out: [base, limit]

VARIABLE live \* live blocks: [addr, size, requested]

Block(b) == {b.addr, b.size, b.requested} \subseteq Nat /\ b.size > 0 /\ b.requested <= b.size
Inside(b) == \E r \in Regions : r.base <= b.addr /\ b.addr + b.size <= r.limit
Apart(b, c) == b.addr + b.size <= c.addr \/ c.addr + c.size <= b.addr

Init == live = {}

Fresh(block) == Block(block) /\ Inside(block) /\ \A other \in live : Apart(block, other)

Obtain(block) == Fresh(block) /\ live' = live \cup {block}

Release(block) == block \in live /\ live' = live \ {block}

(* A reallocation obtains the new block before it releases the old one.    *)
Move(block, old) == Fresh(block) /\ old \in live /\ live' = (live \cup {block}) \ {old}

Next ==
  \/ \E block \in live' \ live : Obtain(block) \/ \E old \in live : Move(block, old)
  \/ \E block \in live : Release(block)

Spec == Init /\ [][Next]_live
=============================================================================
