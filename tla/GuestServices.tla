--------------------------- MODULE GuestServices ---------------------------
(***************************************************************************)
(* What the firmware finds when a call of its operating system or of its   *)
(* libraries is answered by the simulator: queues and mutexes, atomic      *)
(* words, keys of thread data, guards of static objects, completion events *)
(* and copies of memory.  The firmware is one task and the interrupt       *)
(* handlers on top of it; `who` is "task" or "isr".                        *)
(***************************************************************************)
EXTENDS Naturals, FiniteSets, Sequences, SequencesExt

CONSTANTS MaxQueues,   \* MAX_QUEUE_ALLOCS
          MaxKeys,     \* MOFEI_PTHREAD_TLS_KEY_MAX
          MaxDepth,    \* bound: takes of one recursive mutex
          Modulus,     \* atomic words wrap there
          Cells, Code, \* guest memory, and the part the instruction cache holds
          Longest      \* characters of a string that are looked at

ASSUME ServicesAssumption ==
    /\ MaxQueues \in Nat /\ MaxKeys \in Nat /\ MaxDepth \in Nat
    /\ Modulus \in Nat \ {0} /\ Longest \in Nat
    /\ Code \subseteq Cells /\ Cells \subseteq Nat

VARIABLES queues,    \* mofei_fake_queues, in the order of their handles: [kind, depth]
          nextKey, keyValue,  \* mofei_pthread_tls_*
          atomic,    \* [word, flag]: a counter and a spin lock of the firmware
          built,     \* guard byte of a static object
          status,    \* RINTSTS and IDSTS bits that are up
          looked,    \* the values a helper has read, <<>> outside
          i2c,       \* [latched, raw]: the completion event, the raw interrupts
          memory,
          seen,      \* what each context last saw of the counter
          \* ghosts
          granted,   \* takes granted and not given back, by handle
          firstMine, \* handles above were made since the last reset
          firstKey,  \* and keys from here on
          written,   \* the keys set since they were created
          holders,   \* who was told the spin lock is theirs
          added,     \* increments that were told they happened
          raised, told   \* completions since the command began, and those reported

services == <<queues, nextKey, keyValue, atomic, built, status, looked, i2c,
              memory, seen, granted, firstMine, firstKey, written, holders,
              added, raised, told>>
locks  == <<queues, granted>>
words  == <<atomic, seen, holders, added>>
keys   == <<nextKey, keyValue, written>>
events == <<status, looked, i2c, raised, told>>
epoch  == <<firstMine, firstKey>>

Callers   == {"task", "isr"}
Nothing   == Modulus
NoFlight  == [w \in Callers |-> Nothing]

InitServices ==
    /\ queues = <<>> /\ granted = <<>> /\ firstMine = 0
    /\ nextKey = 0 /\ firstKey = 0 /\ written = {}
    /\ keyValue = [k \in 0..(MaxKeys - 1) |-> 0]
    /\ atomic = [word |-> 0, flag |-> FALSE]
    /\ seen = NoFlight /\ holders = {} /\ added = 0
    /\ built = FALSE /\ memory = [c \in Cells |-> c]
    /\ status = {} /\ looked = <<>> /\ raised = {} /\ told = {}
    /\ i2c = [latched |-> "none", raw |-> {}]

\* A reset: the simulator's own tables stay as they are, the firmware's start-up
\* clears its words and loads its code again.
ServicesRestart ==
    /\ firstMine' = Len(queues) /\ firstKey' = nextKey /\ written' = {}
    /\ atomic' = [word |-> 0, flag |-> FALSE]
    /\ seen' = NoFlight /\ holders' = {} /\ added' = 0
    /\ built' = FALSE /\ memory' = [c \in Cells |-> c]
    /\ status' = {} /\ raised' = {} /\ told' = {} /\ looked' = <<>>
    /\ i2c' = [latched |-> "none", raw |-> {}]
    /\ UNCHANGED <<queues, granted, nextKey, keyValue>>

-----------------------------------------------------------------------------
(* Queues and mutexes. *)

IsMutex(q) == queues[q].kind \in {"plain", "recursive"}
Mine       == (firstMine + 1)..Len(queues)

\* A full table answers NULL.
CreateQueue(kind) ==
    /\ IF Len(queues) = MaxQueues THEN UNCHANGED locks
       ELSE /\ queues' = Append(queues, [kind |-> kind, depth |-> 0])
            /\ granted' = Append(granted, 0)
    /\ UNCHANGED <<keys, words, events, epoch, built, memory>>

\* (The mistake: whoever asks recursively is granted it.)
TakeableAnyhow(q, recursive) == queues[q].depth = 0 \/ recursive
Takeable(q, recursive) ==
    queues[q].depth = 0 \/ (recursive /\ queues[q].kind = "recursive")
\* Nothing but a mutex is kept account of; a refused take leaves all as it is.
TakeMutex(q, recursive) ==
    /\ queues[q].depth < MaxDepth
    /\ IF IsMutex(q) /\ Takeable(q, recursive)
       THEN /\ queues' = [queues EXCEPT ![q].depth = @ + 1]
            /\ granted' = [granted EXCEPT ![q] = @ + 1]
       ELSE UNCHANGED locks
    /\ UNCHANGED <<keys, words, events, epoch, built, memory>>

Givable(q, recursive) ==
    queues[q].depth > 0 /\ (recursive => queues[q].kind = "recursive")
\* xQueueGenericSend without an item is a give that is not recursive; with one, a
\* mutex goes to the real function, which nothing here describes.
GiveMutex(q, recursive) ==
    /\ IF IsMutex(q) /\ Givable(q, recursive)
       THEN /\ queues' = [queues EXCEPT ![q].depth = @ - 1]
            /\ granted' = [granted EXCEPT ![q] = IF @ = 0 THEN 0 ELSE @ - 1]
       ELSE UNCHANGED locks
    /\ UNCHANGED <<keys, words, events, epoch, built, memory>>

-----------------------------------------------------------------------------
(* Atomic words. *)

FetchAdd ==
    /\ atomic' = [atomic EXCEPT !.word = (@ + 1) % Modulus]
    /\ added' = (added + 1) % Modulus
    /\ UNCHANGED <<seen, holders, locks, keys, events, epoch, built, memory>>

\* The caller loads the word for itself, later offers to replace it by the next;
\* refused, it is left with what is there now.  S32C1I and S32EX answer the old word.
ReadWord(who) ==
    /\ seen[who] = Nothing
    /\ seen' = [seen EXCEPT ![who] = atomic.word]
    /\ UNCHANGED <<atomic, holders, added, locks, keys, events, epoch, built, memory>>

Exchanges(who) == atomic.word = seen[who]
CompareExchange(who) ==
    /\ seen[who] # Nothing
    /\ IF Exchanges(who)
       THEN /\ atomic' = [atomic EXCEPT !.word = (seen[who] + 1) % Modulus]
            /\ added' = (added + 1) % Modulus
            /\ seen' = [seen EXCEPT ![who] = Nothing]
       ELSE /\ seen' = [seen EXCEPT ![who] = atomic.word]
            /\ UNCHANGED <<atomic, added>>
    /\ UNCHANGED <<holders, locks, keys, events, epoch, built, memory>>

\* A spin lock is taken by exchanging in a one and finding a zero.
TestAndSet(who) ==
    /\ who \notin holders
    /\ atomic' = [atomic EXCEPT !.flag = TRUE]
    /\ holders' = IF atomic.flag THEN holders ELSE holders \union {who}
    /\ UNCHANGED <<seen, added, locks, keys, events, epoch, built, memory>>
Clear(who) ==
    /\ who \in holders
    /\ atomic' = [atomic EXCEPT !.flag = FALSE] /\ holders' = holders \ {who}
    /\ UNCHANGED <<seen, added, locks, keys, events, epoch, built, memory>>

-----------------------------------------------------------------------------
(* Keys of thread data and guards. *)

CreateKey ==
    /\ nextKey' = IF nextKey < MaxKeys THEN nextKey + 1 ELSE nextKey
    /\ UNCHANGED <<keyValue, written, locks, words, events, epoch, built, memory>>

MyKeys == firstKey..(nextKey - 1)
SetSpecific(k) ==
    /\ keyValue' = [keyValue EXCEPT ![k] = 1] /\ written' = written \union {k}
    /\ UNCHANGED <<nextKey, locks, words, events, epoch, built, memory>>

\* Acquire answers whether the byte is still zero; release sets it.
GuardRelease ==
    /\ ~built /\ built' = TRUE
    /\ UNCHANGED <<locks, keys, words, events, epoch, memory>>

-----------------------------------------------------------------------------
(* Completion events.  The controllers run beside the core, so every register   *)
(* access of a helper is a step of its own.                                    *)

SdBits  == {"cmdDone", "dataOver", "error"}
DmaDone == {"dma"}
DmaBits == DmaDone \union {"idle"}        \* "idle": outside MOFEI_SDMMC_DMA_EVENT_MASK
Idle    == looked = <<>>

\* The driver issues a command, and the controller raises what happens to it.
StartCommand ==
    /\ raised # {} /\ raised' = {} /\ told' = {}
    /\ UNCHANGED <<status, looked, i2c, locks, keys, words, epoch, built, memory>>
RaiseStatus(bit) ==
    /\ bit \notin raised
    /\ raised' = raised \union {bit} /\ status' = status \union {bit}
    /\ UNCHANGED <<looked, i2c, told, locks, keys, words, epoch, built, memory>>

\* xQueueReceive and sdmmc_host_wait_for_event read one register, then the other.
LookAtStatus ==
    /\ Idle /\ looked' = <<status \intersect SdBits>>
    /\ UNCHANGED <<status, i2c, raised, told, locks, keys, words, epoch, built, memory>>
LookAtDma ==
    /\ Len(looked) = 1 /\ looked' = Append(looked, status \intersect DmaBits)
    /\ UNCHANGED <<status, i2c, raised, told, locks, keys, words, epoch, built, memory>>

\* With nothing up a caller that does not wait is refused, the others are told of a
\* completion all the same.  What was read is written back to clear it.
NothingUp   == looked[1] = {} /\ looked[2] \intersect DmaDone = {}
SdAnswer    == IF NothingUp THEN {"cmdDone", "dataOver"} ELSE looked[1]
DmaAnswer   == IF NothingUp THEN DmaDone ELSE looked[2] \intersect DmaDone
EverythingWrittenBack == SdBits \union DmaBits    \* the mistake: ones everywhere
WrittenBack == SdAnswer \union looked[2]
Answer(waits) ==
    /\ Len(looked) = 2 /\ looked' = <<>>
    /\ IF NothingUp /\ ~waits THEN UNCHANGED <<status, told>>
       ELSE /\ status' = status \ WrittenBack
            /\ told' = told \union SdAnswer \union DmaAnswer
    /\ UNCHANGED <<i2c, raised, locks, keys, words, epoch, built, memory>>

\* On LilyGo xQueueReceive asks the I2C controllers first: the latched event, then
\* the raw interrupts, a fault before a completion.
FinishTransfer(outcome) ==
    /\ i2c' = [latched |-> outcome, raw |-> i2c.raw \union {outcome}]
    /\ UNCHANGED <<status, looked, raised, told, locks, keys, words, epoch, built, memory>>
ReceiveI2c ==
    /\ Idle /\ (i2c.latched # "none" \/ i2c.raw # {})
    /\ i2c' = IF i2c.latched # "none" THEN [i2c EXCEPT !.latched = "none"]
              ELSE [i2c EXCEPT !.raw = {}]
    /\ UNCHANGED <<status, looked, raised, told, locks, keys, words, epoch, built, memory>>

-----------------------------------------------------------------------------
(* memset, memcpy and the copies made through them. *)

Span(start, len) == start..(start + len - 1)
Blocked(dest, len) == Span(dest, len) \intersect Code # {}
SetMemory(dest, len) ==
    /\ memory' = IF Blocked(dest, len) THEN memory
                 ELSE [c \in Cells |-> IF c \in Span(dest, len) THEN 0 ELSE memory[c]]
    /\ UNCHANGED <<locks, keys, words, events, epoch, built>>
CopyMemory(dest, src, len) ==
    /\ memory' = IF Blocked(dest, len) THEN memory
                 ELSE [c \in Cells |-> IF c \in Span(dest, len)
                                       THEN memory[src + (c - dest)] ELSE memory[c]]
    /\ UNCHANGED <<locks, keys, words, events, epoch, built>>

\* A zero ends a string; one that is longer than the helpers look is cut there.
StringLength(src) ==
    LET ends == {n \in 0..Longest : src + n \notin Cells \/ memory[src + n] = 0 \/ n = Longest}
    IN CHOOSE n \in ends : \A m \in ends : n <= m
\* strdup copies it, cell by cell, into a block of the heap.
DuplicateString(dest, src) ==
    LET len == StringLength(src)
    IN memory' = [c \in Cells |->
           IF c \notin Span(dest, len + 1) \/ Blocked(c, 1) THEN memory[c]
           ELSE IF c = dest + len THEN 0 ELSE memory[src + (c - dest)]]
    /\ UNCHANGED <<locks, keys, words, events, epoch, built>>

-----------------------------------------------------------------------------
(* What the answers promise. *)

\* The depth of a mutex is what was granted and not given back, and a plain one is
\* granted to one at a time; a reset leaves the firmware with mutexes of its own.
MutexesHonest ==
    \A q \in Mine : IsMutex(q) => /\ granted[q] = queues[q].depth
                                  /\ queues[q].kind = "plain" => granted[q] <= 1
\* Two contexts are never both told they have the spin lock.
OneHolder == Cardinality(holders) <= 1 /\ (atomic.flag <=> holders # {})
\* No increment that was acknowledged is lost, however the contexts interleave.
CountExact == atomic.word = added
\* A key the firmware has not set reads NULL, whatever the run before left.
FreshKeysNull == \A k \in MyKeys \ written : keyValue[k] = 0
\* Copies never reach the code.
CodeKept == \A c \in Code : memory[c] = c

(* What the firmware may expect of the hooked services: mutexes, words, keys, copies. *)
ServicesHonest == MutexesHonest /\ OneHolder /\ CountExact /\ FreshKeysNull /\ CodeKept

\* What the controller raised for a command is still up or has been reported.
EventsKept == raised \ {"idle"} \subseteq status \union told
=============================================================================
