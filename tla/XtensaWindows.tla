--------------------------- MODULE XtensaWindows ---------------------------
(***************************************************************************)
(* The windowed register file of the emulated Xtensa core and the stack    *)
(* its windows are saved to.  Registers are seen in groups of four (a      *)
(* quad): quad 0 of a window holds the return word a0, the stack pointer   *)
(* a1 and a value; the quads above it hold values only, until a CALL       *)
(* writes the callee's return word there.  Stack addresses count quads.    *)
(*                                                                         *)
(* A register file is a record [quad, wb, ws, mem]: the physical quads,    *)
(* WINDOW_BASE, WINDOW_START as a set of places, and the stack's memory.   *)
(***************************************************************************)
EXTENDS Naturals, FiniteSets, FiniteSetsExt

CONSTANTS Quads,      \* physical quads (nareg / 4)
          AppTop      \* the top of the main stack, in quads

ASSUME WindowsAssumption == Quads \in Nat \ {0, 1, 2, 3} /\ AppTop \in Nat \ {0, 1, 2}

NoPc      == <<"none", 0>>
NoWord    == [inc |-> 0, pc |-> NoPc]
NoValue   == <<0, 0>>
Blank     == [ret |-> NoWord, sp |-> 0, val |-> NoValue]
FrameSize == 3                        \* what an ENTRY of the firmware subtracts from a1
Reach     == 1..3                     \* how far a CALLn or RETW rotates
Addresses == 1..AppTop

Ahead(c, n)  == (c.wb + n) % Quads            \* the place n quads above a0
Behind(c, n) == (c.wb + Quads - n) % Quads
Quad(c, n)   == c.quad[Ahead(c, n)]
Load(c, a)   == IF a \in Addresses THEN c.mem[a] ELSE Blank

\* Touching quad n traps when an older window still owns a quad up to it.
Owned(c, n) == {k \in 1..n : Ahead(c, k) \in c.ws}

\* The oldest window, at base, reaches to the next window's start.
SizeAt(c, base) == LET next == {k \in 1..2 : (base + k) % Quads \in c.ws}
                   IN IF next = {} THEN 3 ELSE Min(next)

\* Quad k of a window of that size is saved so far below its caller's a1.
Extra(size, k) == (size - k) + 1

\* The overflow: quad 0 goes below the next window's a1, the others below the
\* a1 of the caller, which is read from the area the caller was saved in.
Spilled(c, base, size) ==
    LET below == c.quad[(base + size) % Quads].sp - 1
        above == Load(c, c.quad[base].sp - 1).sp
        kOf(a) == {k \in 1..(size - 1) : a = above - Extra(size, k)}
    IN [a \in Addresses |->
            IF kOf(a) # {} THEN c.quad[(base + Min(kOf(a))) % Quads]
            ELSE IF a = below THEN c.quad[base] ELSE c.mem[a]]

Overflowed(c, n) ==
    LET base == Ahead(c, Min(Owned(c, n)))
    IN [c EXCEPT !.mem = Spilled(c, base, SizeAt(c, base)), !.ws = @ \ {base}]

\* The underflow of the window n quads behind: the same areas, read back.
Filled(c, n) ==
    LET base  == Load(c, c.quad[c.wb].sp - 1)
        above == Load(c, base.sp - 1).sp
        kOf(p) == {k \in 0..(n - 1) : p = (Behind(c, n) + k) % Quads}
    IN [p \in 0..(Quads - 1) |->
            IF kOf(p) = {} THEN c.quad[p]
            ELSE IF kOf(p) = {0} THEN base ELSE Load(c, above - Extra(n, Min(kOf(p))))]

Underflowed(c, n) == [c EXCEPT !.quad = Filled(c, n), !.ws = @ \union {Behind(c, n)}]

\* CALLn leaves the return word where the callee's a0 will be; nothing rotates.
Called(c, n, word) == [c EXCEPT !.quad[Ahead(c, n)].ret = word]

\* ENTRY gives the callee its a1, rotates, and marks the window.
Entered(c, n) ==
    [c EXCEPT !.quad[Ahead(c, n)].sp = Quad(c, 0).sp - FrameSize,
              !.wb = Ahead(c, n), !.ws = @ \union {Ahead(c, n)}]

\* RETW is illegal when the nearest live window behind is not the caller's.
Nearest(c)      == {k \in Reach : Behind(c, k) \in c.ws}
LegalReturn(c)  == LET n == Quad(c, 0).ret.inc
                   IN n # 0 /\ (Nearest(c) # {} => Min(Nearest(c)) = n)
CallerSaved(c)  == Behind(c, Quad(c, 0).ret.inc) \notin c.ws

Returned(c) == [c EXCEPT !.wb = Behind(c, Quad(c, 0).ret.inc), !.ws = @ \ {c.wb}]

\* (The mistake: the caller's frame is not reloaded.)
SafelyReturnedBare(c) ==
    LET n == Quad(c, 0).ret.inc
    IN [c EXCEPT !.wb = Behind(c, n), !.ws = (@ \ {c.wb}) \union {Behind(c, n)}]

\* The safe return of patched functions: the rotation and, when the caller was
\* spilled, its reload, in one step and without a trap.
SafelyReturned(c) ==
    LET n == Quad(c, 0).ret.inc
    IN [c EXCEPT !.quad = IF CallerSaved(c) THEN Filled(c, n) ELSE @,
                 !.wb = Behind(c, n), !.ws = (@ \ {c.wb}) \union {Behind(c, n)}]
=============================================================================
