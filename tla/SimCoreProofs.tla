--------------------------- MODULE SimCoreProofs ---------------------------
(***************************************************************************)
(* What the core and the hooked services promise the firmware, for any     *)
(* sizes of their tables and any mix of activities: every answer of a      *)
(* service is honest, no completion of a controller is lost, nested        *)
(* interrupts keep each other's context, every live function finds its     *)
(* registers whole, and no frame lies over the data of the thread.         *)
(***************************************************************************)
EXTENDS SimCore, FiniteSetTheorems, TLAPS

Kinds == {"plain", "recursive", "other"}

(* Every handle's depth is what was granted, one at most of a plain one;   *)
(* that of the handles made before the last reset, too.                    *)
LocksInv ==
  /\ queues \in Seq([kind : Kinds, depth : Nat]) /\ granted \in Seq(Nat)
  /\ Len(granted) = Len(queues) /\ firstMine \in 0..Len(queues)
  /\ \A q \in 1..Len(queues) : /\ granted[q] = queues[q].depth
                               /\ queues[q].kind = "plain" => queues[q].depth <= 1

(* The flag is up just while one context holds the lock.                   *)
WordsInv ==
  /\ atomic \in [word : 0..(Modulus - 1), flag : BOOLEAN]
  /\ seen \in [Callers -> 0..Modulus] /\ added \in 0..(Modulus - 1)
  /\ atomic.word = added
  /\ IF atomic.flag THEN \E w \in Callers : holders = {w} ELSE holders = {}

(* Only keys that were created have a value; one created since the last    *)
(* reset, only when it was set.                                            *)
KeysInv ==
  /\ nextKey \in 0..MaxKeys /\ firstKey \in 0..nextKey
  /\ keyValue \in [0..(MaxKeys - 1) -> {0, 1}]
  /\ \A k \in 0..(MaxKeys - 1) :
       keyValue[k] # 0 => k < nextKey /\ (firstKey <= k => k \in written)

(* What a helper read of the second register are bits of that register.    *)
EventsInv ==
  /\ looked \in Seq(SUBSET (SdBits \cup DmaBits)) /\ Len(looked) <= 2
  /\ Len(looked) = 2 => looked[2] \subseteq DmaBits
  /\ EventsKept

ServicesInv == LocksInv /\ WordsInv /\ KeysInv /\ EventsInv /\ CodeKept

----------------------------------------------------------------------------
(* Queues and mutexes.                                                     *)
SetDepth(table, q, d) == [table EXCEPT ![q].depth = d]

LEMMA CreateQueueKeeps ==
  ASSUME LocksInv, NEW kind \in Kinds, CreateQueue(kind), firstMine' = firstMine
  PROVE  LocksInv'
<1> DEFINE q == [kind |-> kind, depth |-> 0]
<1>1. CASE UNCHANGED locks
  BY <1>1 DEF LocksInv, locks
<1>2. CASE queues' = Append(queues, q) /\ granted' = Append(granted, 0)
  <2>1. q \in [kind : Kinds, depth : Nat] /\ q.depth = 0
    OBVIOUS
  <2> HIDE DEF q
  <2>2. /\ queues' \in Seq([kind : Kinds, depth : Nat]) /\ granted' \in Seq(Nat)
        /\ Len(queues') = Len(queues) + 1 /\ Len(granted') = Len(queues) + 1
        /\ Len(queues) \in Nat
    BY <1>2, <2>1 DEF LocksInv
  <2>3. /\ queues'[Len(queues) + 1] = q /\ granted'[Len(queues) + 1] = 0
        /\ \A i \in 1..Len(queues) : queues'[i] = queues[i] /\ granted'[i] = granted[i]
    BY <1>2, <2>1 DEF LocksInv
  <2>4. \A i \in 1..Len(queues') : i \in 1..Len(queues) \/ i = Len(queues) + 1
    BY <2>2
  <2>5. \A i \in 1..Len(queues') :
          granted'[i] = queues'[i].depth /\ (queues'[i].kind = "plain" => queues'[i].depth <= 1)
    BY <2>1, <2>3, <2>4 DEF LocksInv
  <2>6. firstMine' \in 0..Len(queues')
    BY <2>2 DEF LocksInv
  <2> QED BY <2>2, <2>5, <2>6 DEF LocksInv
<1> QED BY <1>1, <1>2 DEF CreateQueue

LEMMA MemberOfSeq == ASSUME NEW R, NEW s \in Seq(R), NEW i \in 1..Len(s) PROVE s[i] \in R
OBVIOUS
LEMMA SetMember ==
  ASSUME NEW R, NEW s \in Seq(R), NEW i \in 1..Len(s), NEW e \in R, NEW t, t = [s EXCEPT ![i] = e]
  PROVE  /\ t \in Seq(R) /\ Len(t) = Len(s) /\ t[i] = e
         /\ \A j \in 1..Len(s) : j # i => t[j] = s[j]
OBVIOUS
LEMMA WiderSeq ==
  ASSUME NEW R, NEW T, R \subseteq T, NEW s \in Seq(R) PROVE s \in Seq(T)
OBVIOUS
LEMMA AddMember ==
  ASSUME NEW R, NEW s \in Seq(R), NEW e \in R, NEW t, t = Append(s, e)
  PROVE  /\ t \in Seq(R) /\ Len(t) = Len(s) + 1 /\ Len(s) \in Nat /\ t[Len(s) + 1] = e
         /\ \A j \in 1..Len(s) : t[j] = s[j]
OBVIOUS

(* Both tables take the same new depth.                                    *)
LEMMA DepthChanges ==
  ASSUME LocksInv, NEW q \in 1..Len(queues), NEW d \in Nat,
         queues[q].kind = "plain" => d <= 1,
         queues' = SetDepth(queues, q, d), granted' = [granted EXCEPT ![q] = d],
         firstMine' = firstMine
  PROVE  LocksInv'
<1> DEFINE e == [queues[q] EXCEPT !.depth = d]
           R == [kind : Kinds, depth : Nat]
<1>1. queues \in Seq(R)
  BY DEF LocksInv
<1>2. queues[q] \in R
  BY <1>1, MemberOfSeq
<1>3. e \in R /\ e.depth = d /\ e.kind = queues[q].kind
  BY <1>2
<1>4. queues' = [queues EXCEPT ![q] = e]
  BY DEF SetDepth
<1> HIDE DEF e, R
<1>5. /\ queues' \in Seq(R) /\ Len(queues') = Len(queues) /\ queues'[q] = e
      /\ \A i \in 1..Len(queues) : i # q => queues'[i] = queues[i]
  BY <1>1, <1>3, <1>4, SetMember
<1>6. /\ granted' \in Seq(Nat) /\ Len(granted') = Len(queues)
      /\ granted'[q] = d /\ \A i \in 1..Len(queues) : i # q => granted'[i] = granted[i]
  BY DEF LocksInv
<1>7. \A i \in 1..Len(queues) :
        granted'[i] = queues'[i].depth /\ (queues'[i].kind = "plain" => queues'[i].depth <= 1)
  BY <1>3, <1>5, <1>6 DEF LocksInv
<1> QED BY <1>5, <1>6, <1>7 DEF LocksInv, R

LEMMA MutexKeeps ==
  ASSUME LocksInv, NEW q \in Mine, NEW recursive \in BOOLEAN, firstMine' = firstMine,
         TakeMutex(q, recursive) \/ GiveMutex(q, recursive)
  PROVE  LocksInv'
<1>0. /\ q \in 1..Len(queues) /\ queues[q].depth \in Nat /\ granted[q] = queues[q].depth
      /\ queues \in Seq([kind : Kinds, depth : Nat])
  BY DEF LocksInv, Mine
<1>1. CASE UNCHANGED locks
  BY <1>1 DEF LocksInv, locks
<1>2. CASE /\ Takeable(q, recursive) /\ queues' = [queues EXCEPT ![q].depth = @ + 1]
           /\ granted' = [granted EXCEPT ![q] = @ + 1]
  <2>1. /\ queues' = SetDepth(queues, q, queues[q].depth + 1)
        /\ granted' = [granted EXCEPT ![q] = queues[q].depth + 1]
    BY <1>0, <1>2, Zenon DEF SetDepth
  <2>2. queues[q].kind = "plain" => queues[q].depth + 1 <= 1
    BY <1>0, <1>2 DEF Takeable
  <2>3. queues[q].depth + 1 \in Nat
    BY <1>0
  <2> QED BY <1>0, <2>1, <2>2, <2>3, DepthChanges
<1>3. CASE /\ Givable(q, recursive) /\ queues' = [queues EXCEPT ![q].depth = @ - 1]
           /\ granted' = [granted EXCEPT ![q] = IF @ = 0 THEN 0 ELSE @ - 1]
  <2>0. queues[q].depth > 0
    BY <1>3 DEF Givable
  <2>1. /\ queues' = SetDepth(queues, q, queues[q].depth - 1)
        /\ granted' = [granted EXCEPT ![q] = queues[q].depth - 1]
    <3>1. granted[q] # 0
      BY <1>0, <2>0
    <3> QED BY <1>0, <1>3, <3>1, Zenon DEF SetDepth
  <2>2. queues[q].kind = "plain" => queues[q].depth - 1 <= 1
    BY <1>0 DEF LocksInv
  <2>3. queues[q].depth - 1 \in Nat
    BY <1>0, <2>0
  <2> QED BY <1>0, <2>1, <2>2, <2>3, DepthChanges
<1> QED BY <1>1, <1>2, <1>3 DEF TakeMutex, GiveMutex

----------------------------------------------------------------------------
(* Words.                                                                  *)

LEMMA NextWord ==
  ASSUME NEW w \in 0..(Modulus - 1) PROVE (w + 1) % Modulus \in 0..(Modulus - 1)
BY ServicesAssumption

LEMMA WordsKeep ==
  ASSUME WordsInv, NEW who \in Callers,
         FetchAdd \/ ReadWord(who) \/ CompareExchange(who) \/ TestAndSet(who) \/ Clear(who)
  PROVE  WordsInv'
<1>0. /\ atomic \in [word : 0..(Modulus - 1), flag : BOOLEAN] /\ added \in 0..(Modulus - 1)
      /\ seen \in [Callers -> 0..Modulus] /\ atomic.word = added /\ Modulus \in Nat
      /\ seen[who] \in 0..Modulus
  BY ServicesAssumption DEF WordsInv
<1> DEFINE next == (added + 1) % Modulus
<1>1. next \in 0..(Modulus - 1)
  BY <1>0, NextWord
<1>2. CASE FetchAdd
  <2>1. atomic' = [atomic EXCEPT !.word = next] /\ added' = next /\ UNCHANGED <<seen, holders>>
    BY <1>0, <1>2 DEF FetchAdd
  <2> HIDE DEF next
  <2> QED BY <1>0, <1>1, <2>1 DEF WordsInv
<1>3. CASE ReadWord(who)
  <2>1. seen' = [seen EXCEPT ![who] = atomic.word] /\ UNCHANGED <<atomic, holders, added>>
    BY <1>3 DEF ReadWord
  <2>2. seen' \in [Callers -> 0..Modulus]
    BY <1>0, <2>1
  <2> QED BY <2>1, <2>2 DEF WordsInv
<1>4. CASE CompareExchange(who)
  <2>1. CASE Exchanges(who)
    <3>1. /\ atomic' = [atomic EXCEPT !.word = next] /\ added' = next /\ holders' = holders
          /\ seen' = [seen EXCEPT ![who] = Nothing]
      BY <1>0, <1>4, <2>1 DEF CompareExchange, Exchanges
    <3> HIDE DEF next
    <3>2. seen' \in [Callers -> 0..Modulus]
      BY <1>0, <3>1 DEF Nothing
    <3> QED BY <1>0, <1>1, <3>1, <3>2 DEF WordsInv
  <2>2. CASE ~ Exchanges(who)
    <3>1. seen' = [seen EXCEPT ![who] = atomic.word] /\ UNCHANGED <<atomic, holders, added>>
      BY <1>4, <2>2 DEF CompareExchange
    <3>2. seen' \in [Callers -> 0..Modulus]
      BY <1>0, <3>1
    <3> QED BY <3>1, <3>2 DEF WordsInv
  <2> QED BY <2>1, <2>2
<1>5. CASE TestAndSet(who)
  <2>1. /\ atomic' = [atomic EXCEPT !.flag = TRUE] /\ UNCHANGED <<seen, added>>
        /\ holders' = IF atomic.flag THEN holders ELSE holders \union {who}
    BY <1>5 DEF TestAndSet
  <2>2. \E w \in Callers : holders' = {w}
    BY <2>1 DEF WordsInv
  <2> QED BY <1>0, <2>1, <2>2 DEF WordsInv
<1>6. CASE Clear(who)
  <2>1. /\ atomic' = [atomic EXCEPT !.flag = FALSE] /\ UNCHANGED <<seen, added>>
        /\ who \in holders /\ holders' = holders \ {who}
    BY <1>6 DEF Clear
  <2>2. holders' = {}
    BY <2>1 DEF WordsInv
  <2> QED BY <1>0, <2>1, <2>2 DEF WordsInv
<1> QED BY <1>2, <1>3, <1>4, <1>5, <1>6

----------------------------------------------------------------------------
(* Keys, events and copies.                                                *)

LEMMA KeysKeep ==
  ASSUME KeysInv, CreateKey \/ (\E k \in MyKeys : SetSpecific(k)), firstKey' = firstKey
  PROVE  KeysInv'
<1>0. MaxKeys \in Nat
  BY ServicesAssumption
<1>1. CASE CreateKey
  <2>1. UNCHANGED <<keyValue, written>> /\ nextKey' \in 0..MaxKeys /\ nextKey <= nextKey'
    BY <1>0, <1>1 DEF CreateKey, KeysInv
  <2>2. firstKey' \in 0..nextKey'
    BY <1>0, <2>1 DEF KeysInv
  <2>3. \A k \in 0..(MaxKeys - 1) : k < nextKey => k < nextKey'
    BY <1>0, <2>1 DEF KeysInv
  <2> QED BY <2>1, <2>2, <2>3 DEF KeysInv
<1>2. ASSUME NEW k \in MyKeys, SetSpecific(k) PROVE KeysInv'
  <2>1. /\ keyValue' = [keyValue EXCEPT ![k] = 1] /\ written' = written \union {k}
        /\ nextKey' = nextKey
    BY <1>2 DEF SetSpecific
  <2>2. k \in 0..(MaxKeys - 1) /\ k < nextKey
    BY <1>0 DEF MyKeys, KeysInv
  <2>3. /\ keyValue' \in [0..(MaxKeys - 1) -> {0, 1}]
        /\ \A j \in 0..(MaxKeys - 1) : j # k => keyValue'[j] = keyValue[j]
    BY <2>1, <2>2 DEF KeysInv
  <2> QED BY <2>1, <2>2, <2>3 DEF KeysInv
<1> QED BY <1>1, <1>2

LEMMA RaisedKeeps ==
  ASSUME EventsInv,
         \/ StartCommand \/ (\E bit \in SdBits \cup DmaBits : RaiseStatus(bit))
         \/ LookAtStatus \/ LookAtDma \/ ReceiveI2c
         \/ (\E outcome \in {"done", "fault"} : FinishTransfer(outcome))
  PROVE  EventsInv'
<1>1. CASE StartCommand
  BY <1>1 DEF StartCommand, EventsInv, EventsKept
<1>2. ASSUME NEW bit \in SdBits \cup DmaBits, RaiseStatus(bit) PROVE EventsInv'
  <2>1. UNCHANGED <<looked, told>> /\ raised' = raised \cup {bit} /\ status' = status \cup {bit}
    BY <1>2 DEF RaiseStatus
  <2>2. EventsKept'
    BY <2>1 DEF EventsInv, EventsKept
  <2> QED BY <2>1, <2>2 DEF EventsInv
<1>3. CASE LookAtStatus
  BY <1>3 DEF LookAtStatus, EventsInv, EventsKept
<1>4. CASE LookAtDma
  <2> DEFINE bits == status \intersect DmaBits
  <2>1. /\ looked \in Seq(SUBSET (SdBits \cup DmaBits)) /\ Len(looked) = 1
        /\ looked' = Append(looked, bits) /\ UNCHANGED <<status, raised, told>>
        /\ bits \in SUBSET (SdBits \cup DmaBits) /\ bits \subseteq DmaBits
    BY <1>4 DEF LookAtDma, EventsInv
  <2> HIDE DEF bits
  <2> DEFINE all == SUBSET (SdBits \cup DmaBits)
  <2>2. looked \in Seq(all) /\ bits \in all
    BY <2>1
  <2> HIDE DEF all
  <2>3. looked' \in Seq(all) /\ Len(looked') = 2 /\ looked'[2] = bits
    <3>1. looked' \in Seq(all) /\ Len(looked') = Len(looked) + 1 /\ looked'[Len(looked) + 1] = bits
      BY <2>1, <2>2, AddMember
    <3> QED BY <2>1, <3>1
  <2>4. EventsKept'
    BY <2>1 DEF EventsInv, EventsKept
  <2> QED BY <2>1, <2>3, <2>4 DEF EventsInv, all
<1>5. CASE ReceiveI2c \/ (\E outcome \in {"done", "fault"} : FinishTransfer(outcome))
  BY <1>5 DEF ReceiveI2c, FinishTransfer, EventsInv, EventsKept
<1> QED BY <1>1, <1>2, <1>3, <1>4, <1>5

(* An answer clears what it tells, and bits nobody waits for.              *)
LEMMA AnswerKeeps ==
  ASSUME EventsInv, NEW waits \in BOOLEAN, Answer(waits) PROVE EventsInv'
<1>0. looked' = <<>> /\ raised' = raised /\ looked[2] \subseteq DmaBits
  BY DEF Answer, EventsInv
<1>1. WrittenBack \ {"idle"} \subseteq SdAnswer \cup DmaAnswer
  BY <1>0 DEF WrittenBack, DmaAnswer, DmaBits, DmaDone, NothingUp
<1>2. EventsKept'
  BY <1>0, <1>1 DEF Answer, EventsInv, EventsKept
<1> QED BY <1>0, <1>2 DEF EventsInv

LEMMA CopiesKeep ==
  ASSUME CodeKept, MemorySet \/ MemoryCopied \/ StringDuplicated
  PROVE  CodeKept'
<1>0. Code \subseteq Cells /\ Cells \subseteq Nat
  BY ServicesAssumption
<1>1. ASSUME NEW dest \in Cells, NEW len \in 1..2, SetMemory(dest, len) PROVE CodeKept'
  BY <1>0, <1>1 DEF SetMemory, Blocked, CodeKept
<1>2. ASSUME NEW dest \in Cells, NEW src \in Cells, NEW len \in 1..2, CopyMemory(dest, src, len)
      PROVE CodeKept'
  BY <1>0, <1>2 DEF CopyMemory, Blocked, CodeKept
<1>3. ASSUME NEW dest \in Cells, NEW src \in Cells, DuplicateString(dest, src) PROVE CodeKept'
  <2>1. ASSUME NEW c \in Code PROVE Blocked(c, 1)
    BY <1>0 DEF Blocked, Span
  <2> DEFINE len == StringLength(src)
  <2>2. memory' = [c \in Cells |->
           IF c \notin Span(dest, len + 1) \/ Blocked(c, 1) THEN memory[c]
           ELSE IF c = dest + len THEN 0 ELSE memory[src + (c - dest)]]
    BY <1>3 DEF DuplicateString
  <2> HIDE DEF len
  <2> QED BY <1>0, <2>1, <2>2 DEF CodeKept
<1> QED BY <1>1, <1>2, <1>3 DEF MemorySet, MemoryCopied, StringDuplicated

----------------------------------------------------------------------------
LEMMA RestartKeeps ==
  ASSUME ServicesInv, ServicesRestart PROVE ServicesInv'
<1>0. MaxKeys \in Nat /\ Modulus \in Nat \ {0}
  BY ServicesAssumption
<1>1. LocksInv'
  BY DEF ServicesInv, LocksInv, ServicesRestart
<1>2. WordsInv'
  BY <1>0 DEF ServicesInv, WordsInv, ServicesRestart, NoFlight, Nothing
<1>3. KeysInv'
  BY <1>0 DEF ServicesInv, KeysInv, ServicesRestart
<1>4. EventsInv'
  BY DEF EventsInv, EventsKept, ServicesRestart
<1>5. CodeKept'
  BY ServicesAssumption DEF CodeKept, ServicesRestart
<1> QED BY <1>1, <1>2, <1>3, <1>4, <1>5 DEF ServicesInv

LEMMA ServicesStart == InitServices => ServicesInv
<1> SUFFICES ASSUME InitServices PROVE ServicesInv
  OBVIOUS
<1>0. MaxKeys \in Nat /\ Modulus \in Nat \ {0}
  BY ServicesAssumption
<1>1. LocksInv
  BY DEF LocksInv, InitServices
<1>2. WordsInv
  BY <1>0 DEF WordsInv, InitServices, NoFlight, Nothing
<1>3. KeysInv
  BY <1>0 DEF KeysInv, InitServices
<1>4. EventsInv
  BY DEF EventsInv, EventsKept, InitServices
<1>5. CodeKept
  BY ServicesAssumption DEF CodeKept, InitServices
<1> QED BY <1>1, <1>2, <1>3, <1>4, <1>5 DEF ServicesInv

LEMMA LocksStay == LocksInv /\ UNCHANGED <<locks, epoch>> => LocksInv'
BY DEF LocksInv, locks, epoch
LEMMA WordsStay == WordsInv /\ UNCHANGED words => WordsInv'
BY DEF WordsInv, words
LEMMA KeysStay == KeysInv /\ UNCHANGED <<keys, epoch>> => KeysInv'
BY DEF KeysInv, keys, epoch
LEMMA EventsStay == EventsInv /\ UNCHANGED events => EventsInv'
BY DEF EventsInv, EventsKept, events
LEMMA CodeStays == CodeKept /\ UNCHANGED memory => CodeKept'
BY DEF CodeKept

LEMMA ServicesStep == ServicesInv /\ [Next]_vars => ServicesInv'
<1> SUFFICES ASSUME ServicesInv, [Next]_vars PROVE ServicesInv'
  OBVIOUS
<1> USE DEF ServicesInv
<1>1. CASE UNCHANGED services
  BY <1>1, LocksStay, WordsStay, KeysStay, EventsStay, CodeStays
     DEF services, locks, words, keys, events, epoch
<1>2. CASE Restart
  BY <1>2, RestartKeeps DEF Restart
<1>3. CASE Locks
  <2>1. UNCHANGED <<keys, words, events, epoch, memory>> /\ firstMine' = firstMine
    BY <1>3 DEF Locks, CreateQueue, TakeMutex, GiveMutex, epoch
  <2>2. LocksInv'
    BY <1>3, <2>1, CreateQueueKeeps, MutexKeeps DEF Locks, Kinds
  <2> QED BY <2>1, <2>2, WordsStay, KeysStay, EventsStay, CodeStays
<1>4. ASSUME NEW who \in Callers, Words(who) PROVE ServicesInv'
  <2>1. UNCHANGED <<locks, keys, events, epoch, memory>>
    BY <1>4 DEF Words, FetchAdd, ReadWord, CompareExchange, TestAndSet, Clear
  <2>2. WordsInv'
    BY <1>4, WordsKeep DEF Words
  <2> QED BY <2>1, <2>2, LocksStay, KeysStay, EventsStay, CodeStays
<1>5. CASE Setup
  <2>1. UNCHANGED <<locks, words, events, epoch, memory>> /\ firstKey' = firstKey
    BY <1>5 DEF Setup, CreateKey, SetSpecific, GuardRelease, epoch
  <2>2. KeysInv'
    BY <1>5, <2>1, KeysKeep, KeysStay DEF Setup, GuardRelease
  <2> QED BY <2>1, <2>2, LocksStay, WordsStay, EventsStay, CodeStays
<1>6. CASE Copies
  <2>1. UNCHANGED <<locks, keys, words, events, epoch>>
    BY <1>6 DEF Copies, MemorySet, MemoryCopied, StringDuplicated, SetMemory, CopyMemory,
                DuplicateString
  <2>2. CodeKept'
    BY <1>6, CopiesKeep DEF Copies
  <2> QED BY <2>1, <2>2, LocksStay, WordsStay, KeysStay, EventsStay
<1>7. CASE Events
  <2>1. UNCHANGED <<locks, keys, words, epoch, memory>>
    BY <1>7 DEF Events, StartCommand, LookAtStatus, LookAtDma, RaiseStatus, Answer,
                FinishTransfer, ReceiveI2c
  <2>2. EventsInv'
    BY <1>7, RaisedKeeps, AnswerKeeps DEF Events
  <2> QED BY <2>1, <2>2, LocksStay, WordsStay, KeysStay, CodeStays
<1> QED BY <1>1, <1>2, <1>3, <1>4, <1>5, <1>6, <1>7 DEF Next, CoreSteps, vars

LEMMA ServicesInductive == Spec => []ServicesInv
<1>1. Init => ServicesInv
  BY ServicesStart DEF Init
<1> QED BY <1>1, ServicesStep, PTL DEF Spec

(* Mutexes, words, keys and copies do what they told the firmware they do, *)
(* however task, interrupt handlers and resets take turns.                 *)
THEOREM AnswersAreHonest == Spec => []ServicesHonest
<1>1. ServicesInv => ServicesHonest
  <2> SUFFICES ASSUME ServicesInv PROVE ServicesHonest
    OBVIOUS
  <2>1. MutexesHonest
    BY DEF ServicesInv, LocksInv, MutexesHonest, Mine
  <2>2. OneHolder
    <3>1. CASE holders = {}
      <4>1. Cardinality(holders) = 0
        BY <3>1, FS_EmptySet
      <4> QED BY <3>1, <4>1 DEF ServicesInv, WordsInv, OneHolder
    <3>2. ASSUME NEW w \in Callers, holders = {w}, atomic.flag PROVE OneHolder
      <4>1. Cardinality(holders) = 1
        BY <3>2, FS_Singleton
      <4> QED BY <3>2, <4>1 DEF OneHolder
    <3> QED BY <3>1, <3>2 DEF ServicesInv, WordsInv
  <2>3. CountExact
    BY DEF ServicesInv, WordsInv, CountExact
  <2>4. FreshKeysNull
    <3>1. \A k \in MyKeys : k \in 0..(MaxKeys - 1) /\ firstKey <= k
      BY ServicesAssumption DEF ServicesInv, KeysInv, MyKeys
    <3> QED BY <3>1 DEF ServicesInv, KeysInv, FreshKeysNull
  <2> QED BY <2>1, <2>2, <2>3, <2>4 DEF ServicesInv, ServicesHonest
<1> QED BY <1>1, ServicesInductive, PTL

(* What a controller raised for a command is up or was told.               *)
THEOREM EventsAreKept == Spec => []EventsKept
<1>1. ServicesInv => EventsKept
  BY DEF ServicesInv, EventsInv
<1> QED BY <1>1, ServicesInductive, PTL

----------------------------------------------------------------------------
(* Interrupts.  Under which PS the i-th interrupt in progress runs, or was *)
(* interrupted by the next, and which levels that masks.                   *)
PsAt(i)   == IF i = Len(nest) THEN ps ELSE nest[i + 1].ps
Covers(p) == IF p.excm /\ p.level < ExcmLevel THEN ExcmLevel ELSE p.level

PsType == [callinc : Nat, level : Nat, excm : BOOLEAN, um : BOOLEAN]
Phases == {"raw", "saved", "restored"}
Interrupt(pcs) == [level : Levels, phase : Phases, pc : pcs, ps : PsType]

NestTypes ==
  /\ epc = [l \in Levels |-> epc[l]] /\ eps = [l \in Levels |-> eps[l]]
  /\ pending \subseteq Levels /\ ps \in PsType
  /\ \E pcs : nest \in Seq(Interrupt(pcs))

(* An interrupt masks its own level and, while it has not put its context  *)
(* aside, all that open the window traps.                                  *)
Masked(h, p) ==
  /\ h.level <= Covers(p)
  /\ IF h.phase = "saved" THEN h.level <= ExcmLevel ELSE ExcmLevel <= Covers(p)
(* So the ones on top are of higher levels.                                *)
Above(h, g) == h.level < g.level /\ (h.phase # "saved" => ExcmLevel < g.level)

NestOrder ==
  \A i \in 1..Len(nest) :
    Masked(nest[i], PsAt(i)) /\ \A j \in 1..Len(nest) : i < j => Above(nest[i], nest[j])

(* Nothing but a handler is interrupted on top of another interrupt.       *)
NestPcs ==
  /\ nest # <<>> => pc[1] = "handler"
  /\ \A i \in 1..Len(nest) : 1 < i => nest[i].pc[1] = "handler"

NestInv == NestTypes /\ NestOrder /\ NestPcs /\ ContextKept

LEMMA LevelsAre == Levels \subseteq Nat \ {0} /\ 1 \in Levels /\ ExcmLevel \in Nat \ {0}
BY CpuAssumption

LEMMA CoversIs ==
  ASSUME NEW p \in PsType
  PROVE  Covers(p) \in Nat /\ p.level <= Covers(p) /\ (p.excm => ExcmLevel <= Covers(p))
BY LevelsAre DEF Covers, PsType

(* The highest level that is pending.                                      *)
LEMMA MaxPending ==
  ASSUME NEW S \in SUBSET Levels, S # {} PROVE Max(S) \in S
<1>1. S \subseteq 1..7
  BY CpuAssumption
<1>2. \A k \in 1..7 : k \in {1, 2, 3, 4, 5, 6, 7}
  OBVIOUS
<1>3. \E m \in S : \A n \in S : m >= n
  <2>1. CASE 7 \in S
    BY <1>1, <2>1
  <2>2. CASE 7 \notin S /\ 6 \in S
    BY <1>1, <1>2, <2>2
  <2>3. CASE 7 \notin S /\ 6 \notin S /\ 5 \in S
    BY <1>1, <1>2, <2>3
  <2>4. CASE S \subseteq {1, 2, 3, 4} /\ 4 \in S
    BY <2>4
  <2>5. CASE S \subseteq {1, 2, 3} /\ 3 \in S
    BY <2>5
  <2>6. CASE S \subseteq {1, 2} /\ 2 \in S
    BY <2>6
  <2>7. CASE S = {1}
    BY <2>7
  <2> QED BY <1>1, <1>2, <2>1, <2>2, <2>3, <2>4, <2>5, <2>6, <2>7
<1> QED BY <1>3 DEF Max

(* A step of a firmware that is not interrupted.                           *)
LEMMA RestKeeps ==
  ASSUME NestTypes, nest' = <<>>, ps' \in PsType, pending' \subseteq Levels,
         epc' = epc \/ epc' = [epc EXCEPT ![1] = pc], eps' = eps
  PROVE  NestInv'
<1>1. epc' = [l \in Levels |-> epc'[l]] /\ eps' = [l \in Levels |-> eps'[l]]
  BY DEF NestTypes
<1>2. \E pcs : nest' \in Seq(Interrupt(pcs))
  OBVIOUS
<1> QED BY <1>1, <1>2 DEF NestInv, NestTypes, NestOrder, NestPcs, ContextKept

(* A step that touches none of it.                                         *)
LEMMA SameNest ==
  ASSUME NestInv, UNCHANGED <<pc, ps, epc, eps, nest>>, pending' \subseteq Levels
  PROVE  NestInv'
BY DEF NestInv, NestTypes, NestOrder, NestPcs, ContextKept, PsAt

(* The trap of a level that was not masked.                                *)
LEMMA TrapKeeps ==
  ASSUME NestInv, NEW l \in Levels, Trap(l), pending' \subseteq Levels,
         nest # <<>> => Covers(ps) < l
  PROVE  NestInv'
<1> DEFINE h == [level |-> l, phase |-> "raw", pc |-> pc, ps |-> ps]
           n == Len(nest)
<1>0. /\ epc' = [epc EXCEPT ![l] = pc] /\ eps' = (IF l > 1 THEN [eps EXCEPT ![l] = ps] ELSE eps)
      /\ ps' = [ps EXCEPT !.excm = TRUE, !.level = IF l > 1 THEN l ELSE @]
      /\ pc' = <<"handler", l>> /\ nest' = Append(nest, h)
  BY DEF Trap
<1>1. /\ epc = [j \in Levels |-> epc[j]] /\ eps = [j \in Levels |-> eps[j]]
      /\ l \in Nat \ {0} /\ ps \in PsType
  BY LevelsAre DEF NestInv, NestTypes
<1>2. /\ epc' = [j \in Levels |-> epc'[j]] /\ eps' = [j \in Levels |-> eps'[j]]
      /\ epc'[l] = pc /\ (l > 1 => eps'[l] = ps)
      /\ \A j \in Levels : j # l => epc'[j] = epc[j] /\ eps'[j] = eps[j]
  BY <1>0, <1>1
<1>3. ps' \in PsType /\ ps'.excm /\ l <= Covers(ps') /\ ExcmLevel <= Covers(ps')
  <2>1. ps' \in PsType /\ ps'.excm /\ (l > 1 => ps'.level = l)
    BY <1>0, <1>1 DEF PsType
  <2> QED BY <1>1, <2>1, CoversIs, LevelsAre
<1>4. PICK pcs : nest \in Seq(Interrupt(pcs))
  BY DEF NestInv, NestTypes
<1>5. /\ nest \in Seq(Interrupt(pcs \cup {pc})) /\ h \in Interrupt(pcs \cup {pc})
      /\ h.level = l /\ h.phase = "raw" /\ h.pc = pc /\ h.ps = ps
  <2>1. Interrupt(pcs) \subseteq Interrupt(pcs \cup {pc})
    BY DEF Interrupt
  <2>2. nest \in Seq(Interrupt(pcs \cup {pc}))
    BY <1>4, <2>1, WiderSeq
  <2> QED BY <1>1, <2>2 DEF Interrupt, Phases
<1> HIDE DEF h
<1>6. /\ nest' \in Seq(Interrupt(pcs \cup {pc})) /\ Len(nest') = n + 1 /\ n \in Nat
      /\ nest'[n + 1] = h /\ \A i \in 1..n : nest'[i] = nest[i]
  BY <1>0, <1>5, AddMember
<1>7. \A i \in 1..(n + 1) : i \in 1..n \/ i = n + 1
  BY <1>6
<1>8. \A i \in 1..n : /\ nest[i].level \in Levels /\ nest[i].level \in Nat
                      /\ nest[i].ps \in PsType
  <2>1. \A i \in 1..n : nest[i] \in Interrupt(pcs)
    BY <1>4, MemberOfSeq
  <2> QED BY <2>1, LevelsAre DEF Interrupt
<1>9. ASSUME NEW i \in 1..n PROVE PsAt(i)' = PsAt(i)
  <2>1. i # n + 1 /\ (i # n => i + 1 \in 1..n)
    BY <1>6
  <2>2. PsAt(i)' = nest'[i + 1].ps
    BY <1>6, <2>1 DEF PsAt
  <2>3. CASE i = n
    BY <1>5, <1>6, <2>2, <2>3 DEF PsAt
  <2>4. CASE i # n
    BY <1>6, <2>1, <2>2, <2>4 DEF PsAt
  <2> QED BY <2>3, <2>4
<1>10. ASSUME NEW i, i = n + 1 PROVE PsAt(i)' = ps'
  BY <1>6, <1>10 DEF PsAt
<1>11. \A i \in 1..n : Above(nest[i], h)
  <2> SUFFICES ASSUME NEW i \in 1..n PROVE Above(nest[i], h)
    OBVIOUS
  <2>1. nest # <<>> /\ n \in 1..n
    BY <1>6
  <2>2. Covers(ps) < l /\ Covers(ps) \in Nat
    BY <1>1, <2>1, CoversIs
  <2>3. PsAt(n) = ps
    BY DEF PsAt
  <2>4. Masked(nest[n], ps)
    BY <2>1, <2>3 DEF NestInv, NestOrder
  <2>5. nest[n].level < l
    BY <1>1, <1>8, <2>1, <2>2, <2>4 DEF Masked
  <2>6. CASE i = n
    BY <1>1, <1>5, <2>2, <2>4, <2>5, <2>6, LevelsAre DEF Masked, Above
  <2>7. CASE i # n
    <3>1. i < n
      BY <1>6, <2>7
    <3>2. Above(nest[i], nest[n])
      BY <2>1, <3>1 DEF NestInv, NestOrder
    <3> QED BY <1>1, <1>5, <1>8, <2>1, <2>5, <3>2, LevelsAre DEF Above
  <2> QED BY <2>6, <2>7
<1>12. Masked(h, ps')
  BY <1>3, <1>5 DEF Masked
<1>13. NestOrder'
  <2>1. ASSUME NEW i \in 1..(n + 1) PROVE Masked(nest'[i], PsAt(i)')
    <3>1. CASE i = n + 1
      BY <1>6, <1>10, <1>12, <3>1
    <3>2. CASE i \in 1..n
      <4>1. Masked(nest[i], PsAt(i))
        BY <3>2 DEF NestInv, NestOrder
      <4> QED BY <1>6, <1>9, <3>2, <4>1
    <3> QED BY <1>7, <3>1, <3>2
  <2>2. ASSUME NEW i \in 1..(n + 1), NEW j \in 1..(n + 1), i < j PROVE Above(nest'[i], nest'[j])
    <3>1. i \in 1..n
      BY <1>6, <2>2
    <3>2. CASE j = n + 1
      BY <1>6, <1>11, <3>1, <3>2
    <3>3. CASE j \in 1..n
      BY <1>6, <2>2, <3>1, <3>3 DEF NestInv, NestOrder
    <3> QED BY <1>7, <3>2, <3>3
  <2> QED BY <1>6, <2>1, <2>2 DEF NestOrder, Masked, Above, Covers
<1>14. NestPcs'
  <2>1. ASSUME NEW i \in 1..(n + 1), 1 < i PROVE nest'[i].pc[1] = "handler"
    <3>1. CASE i = n + 1
      <4>1. nest # <<>>
        BY <1>6, <2>1, <3>1
      <4> QED BY <1>5, <1>6, <3>1, <4>1 DEF NestInv, NestPcs
    <3>2. CASE i \in 1..n
      BY <1>6, <2>1, <3>2 DEF NestInv, NestPcs
    <3> QED BY <1>7, <3>1, <3>2
  <2> QED BY <1>0, <1>6, <2>1 DEF NestPcs
<1>15. ContextKept'
  <2> SUFFICES ASSUME NEW i \in DOMAIN nest', nest'[i].phase # "saved"
               PROVE  /\ epc'[nest'[i].level] = nest'[i].pc
                      /\ nest'[i].level > 1 => eps'[nest'[i].level] = nest'[i].ps
    BY DEF ContextKept
  <2>0. i \in 1..(n + 1)
    BY <1>6
  <2>1. CASE i = n + 1
    BY <1>2, <1>5, <1>6, <2>1
  <2>2. CASE i \in 1..n
    <3>1. nest[i].level # l
      BY <1>1, <1>5, <1>8, <1>11, <2>2 DEF Above
    <3>2. i \in DOMAIN nest
      BY <1>5, <2>2
    <3>3. /\ epc[nest[i].level] = nest[i].pc
          /\ nest[i].level > 1 => eps[nest[i].level] = nest[i].ps
      BY <1>6, <2>2, <3>2 DEF NestInv, ContextKept
    <3> QED BY <1>2, <1>6, <1>8, <2>2, <3>1, <3>3
  <2> QED BY <1>7, <2>0, <2>1, <2>2
<1>16. NestTypes'
  BY <1>2, <1>3, <1>6 DEF NestTypes
<1> QED BY <1>13, <1>14, <1>15, <1>16 DEF NestInv

LEMMA FrontIs ==
  ASSUME NEW R, NEW s \in Seq(R), s # <<>>
  PROVE  /\ Front(s) \in Seq(R) /\ Len(s) \in Nat \ {0} /\ Len(Front(s)) = Len(s) - 1
         /\ \A i \in 1..(Len(s) - 1) : Front(s)[i] = s[i]
         /\ Last(s) = s[Len(s)]
<1>1. Len(s) \in Nat \ {0}
  OBVIOUS
<1>2. Last(s) = s[Len(s)]
  BY DEF Last
<1> DEFINE m == Len(s) - 1
<1>3. Front(s) = SubSeq(s, 1, m)
  BY DEF Front
<1>4. \A i \in 1..m : s[i] \in R
  BY <1>1
<1>5. m \in Nat
  BY <1>1
<1> HIDE DEF m
<1>6. Len(SubSeq(s, 1, m)) = m
  BY <1>5
<1>7. \A i \in 1..m : SubSeq(s, 1, m)[i] = s[i]
  BY <1>5
<1>8. SubSeq(s, 1, m) \in Seq(R)
  BY <1>4, <1>5
<1> QED BY <1>1, <1>2, <1>3, <1>6, <1>7, <1>8 DEF m

(* The interrupts in progress, as the proofs need them.                    *)
LEMMA NestIs ==
  ASSUME NestInv, nest # <<>>
  PROVE  /\ Len(nest) \in Nat \ {0} /\ Handler = nest[Len(nest)]
         /\ Handler.level \in Levels /\ Handler.level \in Nat \ {0}
         /\ Handler.ps \in PsType /\ Handler.phase \in Phases
         /\ ps \in PsType /\ Masked(Handler, ps)
         /\ \A i \in 1..Len(nest) : nest[i].level \in Levels /\ nest[i].level \in Nat \ {0}
<1>1. PICK pcs : nest \in Seq(Interrupt(pcs))
  BY DEF NestInv, NestTypes
<1>2. Len(nest) \in Nat \ {0} /\ Handler = nest[Len(nest)]
  BY <1>1, FrontIs DEF Handler
<1>3. \A i \in 1..Len(nest) : nest[i] \in Interrupt(pcs)
  BY <1>1, MemberOfSeq
<1>4. Len(nest) \in 1..Len(nest) /\ PsAt(Len(nest)) = ps
  BY <1>2 DEF PsAt
<1>5. Masked(Handler, ps) /\ ps \in PsType
  BY <1>2, <1>4 DEF NestInv, NestOrder, NestTypes
<1> QED BY <1>2, <1>3, <1>4, <1>5, LevelsAre DEF Interrupt

InPhase(table, i, phase) == [table EXCEPT ![i].phase = phase]

(* The handler on top changes its phase; what it does not need any more of *)
(* its context may change.                                                 *)
LEMMA TopKeeps ==
  ASSUME NestInv, nest # <<>>, NEW phase \in Phases,
         nest' = InPhase(nest, Len(nest), phase),
         pc' = pc, ps' \in PsType, pending' = pending,
         phase = "saved" => Handler.level <= ExcmLevel /\ Handler.level <= Covers(ps'),
         phase # "saved" => /\ Handler.level <= Covers(ps') /\ ExcmLevel <= Covers(ps')
                            /\ epc'[Handler.level] = Handler.pc
                            /\ Handler.level > 1 => eps'[Handler.level] = Handler.ps,
         epc' = [l \in Levels |-> epc'[l]], eps' = [l \in Levels |-> eps'[l]],
         \A l \in Levels : l # Handler.level => epc'[l] = epc[l] /\ eps'[l] = eps[l]
  PROVE  NestInv'
<1> DEFINE h == Handler
           g == [h EXCEPT !.phase = phase]
<1>1. /\ Len(nest) \in Nat \ {0} /\ h = nest[Len(nest)] /\ h.level \in Levels
      /\ \A i \in 1..Len(nest) : nest[i].level \in Levels /\ nest[i].level \in Nat \ {0}
  BY NestIs
<1>2. PICK n : n = Len(nest)
  OBVIOUS
<1>3. PICK pcs : nest \in Seq(Interrupt(pcs))
  BY DEF NestInv, NestTypes
<1>4. h \in Interrupt(pcs)
  BY <1>1, <1>3, MemberOfSeq
<1>5. /\ g \in Interrupt(pcs) /\ g.level = h.level /\ g.pc = h.pc /\ g.ps = h.ps
      /\ g.phase = phase
  BY <1>4 DEF Interrupt
<1>6. nest' = [nest EXCEPT ![n] = g]
  BY <1>1, <1>2, Zenon DEF InPhase
<1> HIDE DEF h, g
<1>7. /\ nest' \in Seq(Interrupt(pcs)) /\ Len(nest') = n /\ nest'[n] = g
      /\ n \in 1..n /\ n \in Nat /\ h = nest[n]
      /\ \A i \in 1..n : i # n => nest'[i] = nest[i]
  <2>1. n \in Nat \ {0} /\ n \in 1..Len(nest) /\ n \in 1..n /\ h = nest[n]
    BY <1>1, <1>2
  <2> QED BY <1>2, <1>3, <1>5, <1>6, <2>1, SetMember
<1>8. \A i \in 1..n : /\ nest'[i].level = nest[i].level /\ nest'[i].pc = nest[i].pc
                      /\ nest'[i].ps = nest[i].ps
  BY <1>5, <1>7
<1>9. Masked(g, ps')
  BY <1>5 DEF Masked, Phases, h
<1>10. NestOrder'
  <2>1. ASSUME NEW i \in 1..n PROVE Masked(nest'[i], PsAt(i)')
    <3>1. CASE i = n
      <4>1. PsAt(i)' = ps'
        BY <1>7, <3>1 DEF PsAt
      <4> QED BY <1>7, <1>9, <3>1, <4>1
    <3>2. CASE i # n
      <4>1. i + 1 \in 1..n
        BY <1>7, <3>2
      <4>2. PsAt(i)' = PsAt(i)
        BY <1>2, <1>7, <1>8, <3>2, <4>1 DEF PsAt
      <4>3. Masked(nest[i], PsAt(i))
        BY <1>2 DEF NestInv, NestOrder
      <4> QED BY <1>7, <3>2, <4>2, <4>3
    <3> QED BY <3>1, <3>2
  <2>2. ASSUME NEW i \in 1..n, NEW j \in 1..n, i < j PROVE Above(nest'[i], nest'[j])
    <3>1. nest'[i] = nest[i] /\ Above(nest[i], nest[j])
      BY <1>2, <1>7, <2>2 DEF NestInv, NestOrder
    <3> QED BY <1>8, <3>1 DEF Above
  <2> QED BY <1>7, <2>1, <2>2 DEF NestOrder, Masked, Above, Covers
<1>11. NestPcs'
  BY <1>2, <1>7, <1>8 DEF NestInv, NestPcs
<1>12. ContextKept'
  <2> SUFFICES ASSUME NEW i \in DOMAIN nest', nest'[i].phase # "saved"
               PROVE  /\ epc'[nest'[i].level] = nest'[i].pc
                      /\ nest'[i].level > 1 => eps'[nest'[i].level] = nest'[i].ps
    BY DEF ContextKept
  <2>1. i \in 1..n /\ i \in DOMAIN nest
    BY <1>2, <1>3, <1>7
  <2>2. CASE i = n
    BY <1>5, <1>7, <2>2 DEF h
  <2>3. CASE i # n
    <3>1. nest'[i] = nest[i] /\ nest[i].level # h.level /\ nest[i].level \in Levels
      <4>1. i < n
        BY <1>7, <2>1, <2>3
      <4>2. Above(nest[i], nest[n])
        BY <1>2, <1>7, <2>1, <4>1 DEF NestInv, NestOrder
      <4> QED BY <1>1, <1>2, <1>7, <2>1, <2>3, <4>2 DEF Above
    <3>2. /\ epc[nest[i].level] = nest[i].pc
          /\ nest[i].level > 1 => eps[nest[i].level] = nest[i].ps
      BY <2>1, <3>1 DEF NestInv, ContextKept
    <3> QED BY <3>1, <3>2 DEF h
  <2> QED BY <2>2, <2>3
<1>13. NestTypes'
  BY <1>7 DEF NestInv, NestTypes
<1> QED BY <1>10, <1>11, <1>12, <1>13 DEF NestInv

LEMMA SavesKeeps ==
  ASSUME NestInv, HandlerSaves PROVE NestInv'
<1>1. /\ nest # <<>> /\ Handler.level <= ExcmLevel /\ UNCHANGED <<pc, epc, eps, pending>>
      /\ nest' = InPhase(nest, Len(nest), "saved")
      /\ ps' = [ps EXCEPT !.excm = FALSE, !.callinc = 1,
                          !.level = IF @ < Handler.level THEN Handler.level ELSE @]
  BY DEF HandlerSaves, InPhase
<1>2. ps \in PsType /\ Handler.level \in Nat
  BY <1>1, NestIs
<1>3. ps' \in PsType /\ Handler.level <= ps'.level
  <2> DEFINE level == IF ps.level < Handler.level THEN Handler.level ELSE ps.level
             opened == [ps EXCEPT !.excm = FALSE]
             calling == [opened EXCEPT !.callinc = 1]
  <2>1. level \in Nat /\ Handler.level <= level
    BY <1>2 DEF PsType
  <2>2. opened \in PsType /\ opened.level = ps.level
    BY <1>2 DEF PsType
  <2>3. ps' = [calling EXCEPT !.level = level]
    BY <1>1, <1>2 DEF PsType
  <2> HIDE DEF level, opened
  <2>4. calling \in PsType
    BY <2>2 DEF PsType
  <2> HIDE DEF calling
  <2> QED BY <2>1, <2>3, <2>4 DEF PsType
<1>4. Handler.level <= Covers(ps')
  <2>1. Covers(ps') \in Nat /\ ps'.level <= Covers(ps') /\ ps'.level \in Nat
    BY <1>3, CoversIs DEF PsType
  <2> QED BY <1>2, <1>3, <2>1
<1>5. epc' = [l \in Levels |-> epc'[l]] /\ eps' = [l \in Levels |-> eps'[l]]
  BY <1>1 DEF NestInv, NestTypes
<1> QED BY <1>1, <1>3, <1>4, <1>5, TopKeeps DEF Phases

LEMMA RestoresKeeps ==
  ASSUME NestInv, HandlerRestores PROVE NestInv'
<1>1. /\ nest # <<>> /\ Handler.phase = "saved" /\ UNCHANGED <<pc, pending>>
      /\ nest' = InPhase(nest, Len(nest), "restored")
      /\ ps' = IF Handler.level = 1 THEN [Handler.ps EXCEPT !.excm = TRUE]
               ELSE [ps EXCEPT !.excm = TRUE]
      /\ epc' = [epc EXCEPT ![Handler.level] = Handler.pc]
      /\ eps' = [eps EXCEPT ![Handler.level] = IF Handler.level = 1 THEN @ ELSE Handler.ps]
  BY DEF HandlerRestores, SavedHandler, Handler, InPhase
<1>2. /\ ps \in PsType /\ Handler.level \in Nat \ {0} /\ Handler.ps \in PsType
      /\ Handler.level \in Levels /\ Handler.level <= ExcmLevel
  BY <1>1, NestIs DEF Masked
<1>3. ps' \in PsType /\ ps'.excm
  BY <1>1, <1>2 DEF PsType
<1>4. ExcmLevel <= Covers(ps') /\ Handler.level <= Covers(ps')
  BY <1>2, <1>3, CoversIs, LevelsAre
<1>5. /\ epc' = [l \in Levels |-> epc'[l]] /\ eps' = [l \in Levels |-> eps'[l]]
      /\ epc'[Handler.level] = Handler.pc /\ (Handler.level > 1 => eps'[Handler.level] = Handler.ps)
      /\ \A l \in Levels : l # Handler.level => epc'[l] = epc[l] /\ eps'[l] = eps[l]
  <2>1. epc = [l \in Levels |-> epc[l]] /\ eps = [l \in Levels |-> eps[l]]
    BY DEF NestInv, NestTypes
  <2> DEFINE h == Handler
             kept == IF h.level = 1 THEN eps[h.level] ELSE h.ps
  <2>2. h.level \in Levels /\ (h.level > 1 => kept = h.ps)
    BY <1>2
  <2>3. epc' = [epc EXCEPT ![h.level] = h.pc] /\ eps' = [eps EXCEPT ![h.level] = kept]
    BY <1>1
  <2> HIDE DEF h, kept
  <2>4. /\ epc' = [l \in Levels |-> epc'[l]] /\ eps' = [l \in Levels |-> eps'[l]]
        /\ epc'[h.level] = h.pc /\ (h.level > 1 => eps'[h.level] = h.ps)
        /\ \A l \in Levels : l # h.level => epc'[l] = epc[l] /\ eps'[l] = eps[l]
    BY <2>1, <2>2, <2>3
  <2> QED BY <2>4 DEF h
<1> QED BY <1>1, <1>3, <1>4, <1>5, TopKeeps DEF Phases

(* RFE and RFI go back to the context that was stopped.                    *)
LEMMA ReturnKeeps ==
  ASSUME NestInv, ReturnFromInterrupt PROVE NestInv'
<1>1. /\ nest # <<>> /\ Handler.phase # "saved" /\ nest' = Front(nest)
      /\ pc' = epc[Handler.level] /\ UNCHANGED <<epc, eps, pending>>
      /\ ps' = IF Handler.level = 1 THEN [ps EXCEPT !.excm = FALSE] ELSE eps[Handler.level]
  BY DEF ReturnFromInterrupt, Handler
<1>2. PICK n : n = Len(nest)
  OBVIOUS
<1>3. PICK pcs : nest \in Seq(Interrupt(pcs))
  BY DEF NestInv, NestTypes
<1>4. /\ n \in Nat \ {0} /\ Handler = nest[n] /\ Handler.level \in Nat \ {0}
      /\ Handler.ps \in PsType /\ ps \in PsType
      /\ \A i \in 1..n : nest[i].level \in Nat \ {0}
  BY <1>1, <1>2, NestIs
<1>5. /\ nest' \in Seq(Interrupt(pcs)) /\ Len(nest') = n - 1
      /\ \A i \in 1..(n - 1) : nest'[i] = nest[i]
  BY <1>1, <1>2, <1>3, FrontIs
<1>6. /\ epc[Handler.level] = Handler.pc
      /\ Handler.level > 1 => eps[Handler.level] = Handler.ps
  <2>1. n \in DOMAIN nest
    BY <1>2, <1>3, <1>4
  <2> QED BY <1>1, <1>4, <2>1 DEF NestInv, ContextKept
<1>7. ps' \in PsType
  <2>1. [ps EXCEPT !.excm = FALSE] \in PsType
    BY <1>4 DEF PsType
  <2> QED BY <1>1, <1>4, <1>6, <2>1
<1>8. CASE n = 1
  <2>1. nest' = <<>>
    BY <1>5, <1>8
  <2> QED BY <1>1, <1>7, <2>1, RestKeeps DEF NestInv, NestTypes
<1>9. CASE n # 1
  <2>1. n - 1 \in 1..n /\ n \in 1..n /\ n - 1 < n /\ n > 1
    BY <1>4, <1>9
  <2>2. Above(nest[n - 1], nest[n])
    BY <1>2, <2>1 DEF NestInv, NestOrder
  <2>3. ps' = Handler.ps
    BY <1>1, <1>4, <1>6, <2>1, <2>2 DEF Above
  <2>4. ASSUME NEW i \in 1..(n - 1) PROVE PsAt(i)' = PsAt(i)
    <3>1. CASE i = n - 1
      BY <1>2, <1>4, <1>5, <2>1, <2>3, <3>1 DEF PsAt
    <3>2. CASE i # n - 1
      <4>1. i + 1 \in 1..(n - 1) /\ i # n
        BY <1>4, <3>2
      <4> QED BY <1>2, <1>5, <3>2, <4>1 DEF PsAt
    <3> QED BY <3>1, <3>2
  <2>5. \A i \in 1..(n - 1) : i \in 1..n
    BY <1>4
  <2>6. NestOrder'
    <3>1. ASSUME NEW i \in 1..(n - 1) PROVE Masked(nest'[i], PsAt(i)')
      <4>1. Masked(nest[i], PsAt(i))
        BY <1>2, <2>5 DEF NestInv, NestOrder
      <4> QED BY <1>5, <2>4, <4>1
    <3>2. ASSUME NEW i \in 1..(n - 1), NEW j \in 1..(n - 1), i < j PROVE Above(nest'[i], nest'[j])
      BY <1>2, <1>5, <2>5, <3>2 DEF NestInv, NestOrder
    <3> QED BY <1>5, <3>1, <3>2 DEF NestOrder, Masked, Above, Covers
  <2>7. NestPcs'
    <3>1. pc'[1] = "handler"
      BY <1>1, <1>2, <1>4, <1>6, <2>1 DEF NestInv, NestPcs
    <3> QED BY <1>2, <1>5, <2>5, <3>1 DEF NestInv, NestPcs
  <2>8. ContextKept'
    <3>1. \A i \in DOMAIN nest' : i \in DOMAIN nest /\ nest'[i] = nest[i]
      BY <1>2, <1>3, <1>5, <2>5
    <3> QED BY <1>1, <3>1 DEF NestInv, ContextKept
  <2>9. NestTypes'
    BY <1>1, <1>5, <1>7 DEF NestInv, NestTypes
  <2> QED BY <2>6, <2>7, <2>8, <2>9 DEF NestInv
<1> QED BY <1>8, <1>9

----------------------------------------------------------------------------
(* The core.                                                               *)
LEMMA AnsweredKeeps ==
  ASSUME NestInv, NEW n \in Nat, NEW kind, Answered(n, kind) PROVE NestInv'
<1>1. /\ nest' = <<>> /\ UNCHANGED <<epc, eps, pending>> /\ ps \in PsType
      /\ pending \subseteq Levels /\ (ps' = ps \/ ps' = [ps EXCEPT !.callinc = n])
  BY DEF Answered, AtRest, NestInv, NestTypes
<1>2. ps' \in PsType
  BY <1>1 DEF PsType
<1> QED BY <1>1, <1>2, RestKeeps DEF NestInv

(* A patched function is not run by a handler.                             *)
LEMMA NoStubOnTop == NestInv /\ pc[1] # "handler" => nest = <<>>
BY DEF NestInv, NestPcs

LEMMA BootKeeps ==
  ASSUME NestInv, AtStub, BootFrame, UNCHANGED <<epc, eps, pending, nest>> PROVE NestInv'
<1>1. nest = <<>>
  BY NoStubOnTop DEF AtStub
<1>2. ps' = [ps EXCEPT !.callinc = 2, !.excm = FALSE, !.um = TRUE] /\ ps \in PsType
      /\ pending \subseteq Levels
  BY DEF BootFrame, NestInv, NestTypes
<1> DEFINE called == [ps EXCEPT !.callinc = 2]
           opened == [called EXCEPT !.excm = FALSE]
<1>3. called \in PsType
  BY <1>2 DEF PsType
<1>4. ps' = [opened EXCEPT !.um = TRUE]
  BY <1>2
<1> HIDE DEF called
<1>5. opened \in PsType
  BY <1>3 DEF PsType
<1> HIDE DEF opened
<1>6. ps' \in PsType
  BY <1>4, <1>5 DEF PsType
<1> QED BY <1>1, <1>2, <1>6, RestKeeps DEF NestInv

(* A window trap of a handler that has saved its context goes through the  *)
(* first EPC, which by then nobody needs.                                  *)
LEMMA OverflowKeeps ==
  ASSUME NestInv, Overflow PROVE NestInv'
<1>0. /\ UNCHANGED <<pc, ps, eps, pending, nest>> /\ epc' = [epc EXCEPT ![1] = pc]
      /\ ps \in PsType /\ pending \subseteq Levels
  BY DEF Overflow, NestInv, NestTypes
<1>1. CASE nest = <<>>
  BY <1>0, <1>1, RestKeeps DEF NestInv
<1>2. CASE nest # <<>>
  <2>1. SavedHandler
    BY <1>2 DEF Overflow, AtRest
  <2>2. Handler.phase = "saved" /\ Handler = nest[Len(nest)] /\ Handler.level <= ExcmLevel
        /\ Len(nest) \in Nat \ {0} /\ Handler.level \in Nat
    BY <1>2, <2>1, NestIs DEF SavedHandler, Handler, Masked
  <2>3. ASSUME NEW i \in 1..Len(nest) PROVE nest[i].phase = "saved"
    <3>1. CASE i = Len(nest)
      BY <2>2, <3>1
    <3>2. CASE i # Len(nest)
      <4>1. i < Len(nest) /\ Len(nest) \in 1..Len(nest)
        BY <2>2, <3>2
      <4>2. Above(nest[i], Handler)
        BY <2>2, <4>1 DEF NestInv, NestOrder
      <4> QED BY <2>2, <4>2, LevelsAre DEF Above
    <3> QED BY <3>1, <3>2
  <2>4. ContextKept'
    <3>1. DOMAIN nest = 1..Len(nest)
      BY DEF NestInv, NestTypes
    <3> QED BY <1>0, <2>3, <3>1 DEF ContextKept
  <2>5. NestTypes'
    BY <1>0 DEF NestInv, NestTypes
  <2>6. NestOrder' /\ NestPcs'
    BY <1>0 DEF NestInv, NestOrder, NestPcs, PsAt
  <2> QED BY <2>4, <2>5, <2>6 DEF NestInv
<1> QED BY <1>1, <1>2

LEMMA CpuKeeps ==
  ASSUME NestInv, CpuNext PROVE NestInv'
<1>0. pending \subseteq Levels /\ ps \in PsType
  BY DEF NestInv, NestTypes
<1>1. CASE Enter \/ Underflow \/ Return \/ StopForGood \/ Waiti
  <2>1. /\ nest' = <<>> /\ UNCHANGED <<ps, eps, pending>>
        /\ epc' = epc \/ epc' = [epc EXCEPT ![1] = pc]
    BY <1>1 DEF Enter, Underflow, Return, StopForGood, Faulty, Waiti, AtRest
  <2> QED BY <1>0, <2>1, RestKeeps DEF NestInv
<1>2. ASSUME NEW n \in Reach, NEW kind, Call(n, kind) PROVE NestInv'
  <2>1. /\ nest' = <<>> /\ UNCHANGED <<epc, eps, pending>> /\ ps' = [ps EXCEPT !.callinc = n]
    BY <1>2 DEF Call, AtRest
  <2>2. ps' \in PsType
    BY <1>0, <2>1 DEF PsType, Reach
  <2> QED BY <1>0, <2>1, <2>2, RestKeeps DEF NestInv
<1>3. ASSUME NEW n \in Reach, NEW kind, Hook(n, kind) PROVE NestInv'
  BY <1>3, AnsweredKeeps DEF Hook, Reach
<1>4. CASE SafeReturn \/ SchedulerAgain
  <2>1. nest' = <<>> /\ UNCHANGED <<ps, epc, eps, pending>>
    BY <1>4, NoStubOnTop DEF SafeReturn, SchedulerAgain, AtStub
  <2> QED BY <1>0, <2>1, RestKeeps DEF NestInv
<1>5. CASE SchedulerReturns \/ AssertRedirect
  BY <1>5, BootKeeps DEF SchedulerReturns, AssertRedirect
<1>6. CASE ResumeInCaller \/ ResumeFromEpc
  <2>1. /\ nest' = <<>> /\ UNCHANGED <<epc, eps, pending>> /\ ps' = [ps EXCEPT !.excm = FALSE]
    BY <1>6 DEF ResumeInCaller, ResumeFromEpc, Faulty
  <2>2. ps' \in PsType
    BY <1>0, <2>1 DEF PsType
  <2> QED BY <1>0, <2>1, <2>2, RestKeeps DEF NestInv
<1>7. ASSUME NEW l \in Levels, Raise(l) PROVE NestInv'
  BY <1>0, <1>7, SameNest DEF Raise
<1>8. CASE Take
  <2> DEFINE l == Max(pending)
  <2>1. l \in Levels
    BY <1>0, <1>8, MaxPending DEF Take
  <2>2. Covers(ps) < l /\ Trap(l) /\ pending' \subseteq Levels
    BY <1>0, <1>8 DEF Take, Deliverable, Cintlevel, Covers
  <2> HIDE DEF l
  <2> QED BY <2>1, <2>2, TrapKeeps
<1>9. CASE Exception
  <2>1. nest = <<>> /\ Trap(1) /\ pending' = pending
    BY <1>9 DEF Exception, AtRest
  <2> QED BY <1>0, <2>1, LevelsAre, TrapKeeps
<1>10. CASE Tick
  BY <1>0, <1>10, SameNest DEF Tick
<1> QED BY <1>1, <1>2, <1>3, <1>4, <1>5, <1>6, <1>7, <1>8, <1>9, <1>10, OverflowKeeps,
           SavesKeeps, RestoresKeeps, ReturnKeeps DEF CpuNext

LEMMA NestStarts == CpuInit => NestInv
<1> SUFFICES ASSUME CpuInit PROVE NestInv
  OBVIOUS
<1>1. nest = <<>> /\ pending = {} /\ ps \in PsType
  BY DEF CpuInit, PsType
<1>2. epc = [l \in Levels |-> epc[l]] /\ eps = [l \in Levels |-> eps[l]]
  BY DEF CpuInit
<1>3. \E pcs : nest \in Seq(Interrupt(pcs))
  BY <1>1
<1> QED BY <1>1, <1>2, <1>3 DEF NestInv, NestTypes, NestOrder, NestPcs, ContextKept

LEMMA NestStep == NestInv /\ [Next]_vars => NestInv'
<1> SUFFICES ASSUME NestInv, [Next]_vars PROVE NestInv'
  OBVIOUS
<1>0. pending \subseteq Levels
  BY DEF NestInv, NestTypes
<1>1. CASE UNCHANGED cpuVars
  BY <1>0, <1>1, SameNest DEF cpuVars
<1>2. CASE CoreSteps
  BY <1>2, CpuKeeps DEF CoreSteps
<1>3. CASE Restart
  <2>1. /\ nest' = <<>> /\ UNCHANGED <<epc, eps, pending>>
        /\ ps' = [callinc |-> 2, level |-> 0, excm |-> FALSE, um |-> FALSE]
    BY <1>3 DEF Restart, Reset
  <2>2. ps' \in PsType
    BY <2>1 DEF PsType
  <2> QED BY <1>0, <2>1, <2>2, RestKeeps DEF NestInv
<1>4. ASSUME NEW who, Asks(who) PROVE NestInv'
  BY <1>1, <1>4, AnsweredKeeps DEF Asks
<1> QED BY <1>1, <1>2, <1>3, <1>4 DEF Next, vars, Locks, Words, Setup, Copies, Events

(* An interrupt's context stays in the registers of its level until its    *)
(* handler has put it aside, however interrupts nest.                      *)
THEOREM ContextsAreKept == Spec => []ContextKept
<1>1. Init => NestInv
  BY NestStarts DEF Init
<1>2. NestInv => ContextKept
  BY DEF NestInv
<1> QED BY <1>1, <1>2, NestStep, PTL DEF Spec

(* The register file.  Windows are counted from the newest one, downwards; *)
(* the oldest ones are in memory.  Before the outermost function stands a  *)
(* frame 0, the one the simulator made up.                                 *)
Places == 0..(Quads - 1)
IsMap(f, S) == f = [x \in S |-> f[x]]
IsQuad(q) == q = [ret |-> q.ret, sp |-> q.sp, val |-> q.val]
IsQuads(f) == f = [p \in Places |-> f[p]] /\ \A p \in Places : IsQuad(f[p])
IsFile(c) ==
  /\ c = [quad |-> c.quad, wb |-> c.wb, ws |-> c.ws, mem |-> c.mem]
  /\ c.quad = [p \in Places |-> c.quad[p]] /\ \A p \in Places : IsQuad(c.quad[p])
  /\ c.wb \in Places
  /\ c.mem = [a \in Addresses |-> c.mem[a]] /\ \A a \in Addresses : IsQuad(c.mem[a])

Up(b, k)     == (b + k) % Quads
Down(b, p)   == IF p <= b THEN b - p ELSE (b + Quads) - p
BaseOf(F, i) == IF i = 0 THEN 0 ELSE F[i].base
IncOf(F, i)  == IF i = 0 THEN 2 ELSE F[i].inc

(* Each frame starts where its caller's call rotated to, one frame lower   *)
(* on the stack, and goes back to its caller.                              *)
Frame == [serial : Nat, base : Places, inc : 0..3, sp : Nat,
          ret : [inc : Reach, pc : ({"body"} \X Nat) \cup {Kernel, Halt}]]
Chain(F, T) ==
  /\ F \in Seq(Frame)
  /\ \A i \in 1..Len(F) : F[i].sp = T - 3 * i /\ (i < Len(F) => F[i].inc \in Reach)
  /\ \A i \in 0..(Len(F) - 1) :
       /\ F[i + 1].base = Up(BaseOf(F, i), IncOf(F, i)) /\ F[i + 1].ret.inc = IncOf(F, i)
       /\ i > 0 => F[i + 1].ret.pc = Body(F[i].serial)

(* The frames from number o on are in the file, none reaches into the      *)
(* next, and the newest one, with the call it makes, not into the oldest.  *)
Ring(c, F, o) ==
  /\ o \in 0..Len(F) /\ c.wb = BaseOf(F, Len(F))
  /\ c.ws = {BaseOf(F, j) : j \in o..Len(F)}
  /\ \A i, j \in o..Len(F) :
       i < j => Down(c.wb, BaseOf(F, j)) + IncOf(F, i) <= Down(c.wb, BaseOf(F, i))
  /\ Down(c.wb, BaseOf(F, o)) + IncOf(F, Len(F)) < Quads

(* The host's answer to xTaskCreatePinnedToCore writes the caller's own a2. *)
Unmarred == "task" \notin HookKinds
HasBase(q, F, T, i) ==
  /\ q.sp = T - 3 * i
  /\ i > 0 => q.ret = F[i].ret /\ (Unmarred => q.val = Own(F[i].serial, 0))
HasExtra(q, F, i, k) == i > 0 => q.val = Own(F[i].serial, k)

InWindows(c, F, T, o) ==
  \A j \in o..Len(F) :
    /\ HasBase(c.quad[BaseOf(F, j)], F, T, j)
    /\ \A k \in 1..(IncOf(F, j) - 1) : HasExtra(c.quad[Up(BaseOf(F, j), k)], F, j, k)

BaseArea(T, i)     == T - 3 * i - 4
ExtraArea(F, T, i, k) == T - 3 * (i - 1) - Extra(IncOf(F, i), k)
InMemory(c, F, T, o) ==
  /\ Load(c, T - 1).sp = T
  /\ \A i \in 0..(o - 1) :
       /\ HasBase(Load(c, BaseArea(T, i)), F, T, i)
       /\ \A k \in 1..(IncOf(F, i) - 1) : HasExtra(Load(c, ExtraArea(F, T, i, k)), F, i, k)

Held(c, F, T, o) ==
  Chain(F, T) /\ Ring(c, F, o) /\ InWindows(c, F, T, o) /\ InMemory(c, F, T, o)

Whole(c, F, T) == \E o \in 0..Len(F) : Held(c, F, T, o)

(* Where the firmware is, and what a call in progress has left for it.     *)
PointPs == IF nest = <<>> THEN ps ELSE nest[1].ps
Calling == Point[1] \in {"entry", "patched"}
NewWord == LET n == IncOf(frames, Len(frames))
           IN /\ n \in Reach /\ PointPs.callinc = n
              /\ Quad(win, n).ret \in [inc : {n}, pc : IF frames = <<>> THEN {Kernel, Halt}
                                                      ELSE {Body(Top.serial)}]
Control ==
  /\ Point[2] = IF frames = <<>> THEN 0 ELSE Top.serial
  /\ Point[1] \in {"entry", "patched", "hole", "body", "stub"}
  /\ Point[1] \in {"body", "stub"} => Top.inc = 0
  /\ Point[1] \in {"body", "stub", "hole"} => frames # <<>>
  /\ Calling => NewWord

(* No deeper than the calls there were.                                    *)
Deep ==
  /\ activity \in Activities /\ spent \in 0..Allowance /\ tls = redirected
  /\ serial \in Nat
  /\ ~strayed => Len(frames) <= spent + 1 /\ (Calling => Len(frames) <= spent)

(* The registers of an interrupted call stay with a handler that has not   *)
(* saved them.                                                             *)
CallincKept ==
  \A i \in DOMAIN nest :
    nest[i].level = 1 /\ nest[i].phase # "saved" => PsAt(i).callinc = nest[i].ps.callinc

WindowsInv ==
  /\ IsFile(win) /\ ThreadDataKept /\ Deep /\ CallincKept
  /\ strayed => nest = <<>>
  /\ ~strayed => Control /\ Whole(win, frames, StackTop)

(* Places.                                                                 *)
LEMMA ModIs ==
  ASSUME NEW q \in Nat \ {0}, NEW x \in Nat, x < q + q
  PROVE  x % q = IF x < q THEN x ELSE x - q
<1>1. CASE x < q
  BY <1>1
<1>2. CASE x >= q
  BY <1>2
<1> QED BY <1>1, <1>2

LEMMA SizesAre == Quads \in Nat /\ Quads > 3 /\ AppTop \in Nat /\ AppTop > 2
BY WindowsAssumption

LEMMA UpIs ==
  ASSUME NEW b \in Places, NEW k \in 0..3
  PROVE  /\ Up(b, k) \in Places
         /\ Up(b, k) = IF b + k < Quads THEN b + k ELSE (b + k) - Quads
<1>1. b + k \in Nat /\ b + k < Quads + Quads /\ Quads \in Nat \ {0}
  BY SizesAre DEF Places
<1>2. (b + k) % Quads = IF b + k < Quads THEN b + k ELSE (b + k) - Quads
  BY <1>1, ModIs
<1> QED BY <1>1, <1>2 DEF Up, Places

LEMMA DownIs ==
  ASSUME NEW b \in Places, NEW p \in Places
  PROVE  /\ Down(b, p) \in 0..(Quads - 1) /\ (Down(b, p) = 0 <=> p = b)
         /\ \A r \in Places : Down(b, r) = Down(b, p) => r = p
BY SizesAre DEF Down, Places

(* Going up from a place comes closer to the newest window, whose own      *)
(* places are the farthest.                                                *)
LEMMA UpCloser ==
  ASSUME NEW b \in Places, NEW p \in Places, NEW k \in 0..3
  PROVE  /\ k <= Down(b, p) => Down(b, Up(p, k)) = Down(b, p) - k
         /\ k > 0 => Down(b, Up(b, k)) = Quads - k
<1>0. Quads \in Nat /\ Quads > 3 /\ b \in 0..(Quads - 1) /\ p \in 0..(Quads - 1)
  BY SizesAre DEF Places
<1>1. ASSUME k <= Down(b, p) PROVE Down(b, Up(p, k)) = Down(b, p) - k
  <2>1. Up(p, k) = IF p + k < Quads THEN p + k ELSE (p + k) - Quads
    BY UpIs
  <2>2. CASE p <= b
    <3>1. Up(p, k) = p + k /\ p + k <= b
      BY <1>0, <1>1, <2>1, <2>2 DEF Down
    <3> QED BY <1>0, <2>2, <3>1 DEF Down
  <2>3. CASE p > b /\ p + k < Quads
    BY <1>0, <2>1, <2>3 DEF Down
  <2>4. CASE p > b /\ p + k >= Quads
    <3>1. Up(p, k) = (p + k) - Quads /\ (p + k) - Quads <= b
      BY <1>0, <1>1, <2>1, <2>4 DEF Down
    <3> QED BY <1>0, <2>4, <3>1 DEF Down
  <2> QED BY <1>0, <2>2, <2>3, <2>4
<1>2. ASSUME k > 0 PROVE Down(b, Up(b, k)) = Quads - k
  <2>1. Up(b, k) = IF b + k < Quads THEN b + k ELSE (b + k) - Quads
    BY UpIs
  <2>2. Up(b, k) # b /\ (Up(b, k) <= b <=> b + k >= Quads)
    BY <1>0, <1>2, <2>1
  <2> QED BY <1>0, <2>1, <2>2 DEF Down
<1> QED BY <1>1, <1>2

(* A window rotates forth and back.                                        *)
LEMMA Forth ==
  ASSUME NEW b \in Places, NEW n \in 0..3, NEW p \in Places, Down(b, p) + n < Quads
  PROVE  Down(Up(b, n), p) = Down(b, p) + n
<1>0. Quads \in Nat /\ Quads > 3 /\ b \in 0..(Quads - 1) /\ p \in 0..(Quads - 1)
  BY SizesAre DEF Places
<1>1. Up(b, n) = IF b + n < Quads THEN b + n ELSE (b + n) - Quads
  BY UpIs
<1>2. CASE p <= b
  BY <1>0, <1>1, <1>2 DEF Down
<1>3. CASE p > b
  BY <1>0, <1>1, <1>3 DEF Down
<1> QED BY <1>0, <1>2, <1>3

LEMMA AheadIs ==
  ASSUME NEW c, c.wb \in Places, NEW n \in 0..3
  PROVE  Ahead(c, n) = Up(c.wb, n) /\ Ahead(c, n) \in Places
BY UpIs DEF Ahead, Up

LEMMA BehindIs ==
  ASSUME NEW c, c.wb \in Places, NEW n \in Reach
  PROVE  /\ Behind(c, n) \in Places /\ Down(c.wb, Behind(c, n)) = n
         /\ Up(Behind(c, n), n) = c.wb
         /\ \A p \in Places : Down(c.wb, p) = n => Behind(c, n) = p
         /\ \A p \in Places : n <= Down(c.wb, p)
                               => Down(Behind(c, n), p) = Down(c.wb, p) - n
<1> DEFINE b == c.wb
           x == b + Quads - n
<1>0. Quads \in Nat /\ Quads > 3 /\ b \in 0..(Quads - 1) /\ n \in 1..3
  BY SizesAre DEF Places, Reach
<1> HIDE DEF b
<1>1. x \in Nat /\ x < Quads + Quads /\ Quads \in Nat \ {0}
  BY <1>0
<1> HIDE DEF x
<1>a. Behind(c, n) = IF x < Quads THEN x ELSE x - Quads
  BY <1>1, ModIs DEF Behind, x, b
<1>2. Behind(c, n) = IF n <= b THEN b - n ELSE (b + Quads) - n
  BY <1>0, <1>a DEF x
<1>3. Behind(c, n) \in Places /\ Down(b, Behind(c, n)) = n
  <2>1. Behind(c, n) \in Places
    BY <1>0, <1>2 DEF Places
  <2> QED BY <1>0, <1>2, <2>1 DEF Down
<1>4. Up(Behind(c, n), n) = b
  <2>1. Up(Behind(c, n), n) = IF Behind(c, n) + n < Quads THEN Behind(c, n) + n
                              ELSE (Behind(c, n) + n) - Quads
    BY <1>0, <1>3, UpIs
  <2> QED BY <1>0, <1>2, <2>1
<1>5. \A p \in Places : Down(b, p) = n => Behind(c, n) = p
  BY <1>3, DownIs DEF b
<1>6. ASSUME NEW p \in Places, n <= Down(b, p) PROVE Down(Behind(c, n), p) = Down(b, p) - n
  <2>1. p \in 0..(Quads - 1)
    BY DEF Places
  <2>2. CASE n <= b
    BY <1>0, <1>2, <1>6, <2>1, <2>2 DEF Down
  <2>3. CASE n > b
    <3>1. p > b
      BY <1>0, <1>6, <2>1, <2>3 DEF Down
    <3>2. p <= (b + Quads) - n
      BY <1>0, <1>6, <2>1, <2>3, <3>1 DEF Down
    <3> QED BY <1>0, <1>2, <1>6, <2>1, <2>3, <3>1, <3>2 DEF Down
  <2> QED BY <1>0, <2>2, <2>3
<1> QED BY <1>3, <1>4, <1>5, <1>6 DEF b

(* What a chain says of its frames.                                        *)
LEMMA ChainIs ==
  ASSUME NEW F, NEW T, Chain(F, T)
  PROVE  /\ Len(F) \in Nat /\ F \in Seq(Frame)
         /\ \A i \in 1..Len(F) : F[i] \in Frame
         /\ \A i \in 0..Len(F) :
              /\ BaseOf(F, i) \in Places /\ IncOf(F, i) \in 0..3
              /\ i < Len(F) => /\ IncOf(F, i) \in Reach
                               /\ BaseOf(F, i + 1) = Up(BaseOf(F, i), IncOf(F, i))
<1>1. Len(F) \in Nat /\ F \in Seq(Frame)
  BY DEF Chain
<1>2. \A i \in 1..Len(F) : F[i] \in Frame
  BY <1>1, MemberOfSeq
<1>3. ASSUME NEW i \in 0..Len(F)
      PROVE  BaseOf(F, i) \in Places /\ IncOf(F, i) \in 0..3
  <2>1. CASE i = 0
    BY <2>1, SizesAre DEF BaseOf, IncOf, Places
  <2>2. CASE i # 0
    <3>1. F[i] \in Frame
      BY <1>1, <1>2, <2>2
    <3> QED BY <2>2, <3>1 DEF BaseOf, IncOf, Frame
  <2> QED BY <2>1, <2>2
<1>4. ASSUME NEW i \in 0..Len(F), i < Len(F)
      PROVE  IncOf(F, i) \in Reach /\ BaseOf(F, i + 1) = Up(BaseOf(F, i), IncOf(F, i))
  <2>1. IncOf(F, i) \in Reach
    <3>1. CASE i = 0
      BY <3>1 DEF IncOf, Reach
    <3>2. CASE i # 0
      <4>1. i \in 1..Len(F)
        BY <1>1, <3>2
      <4> QED BY <1>4, <3>2, <4>1 DEF IncOf, Chain
    <3> QED BY <3>1, <3>2
  <2>2. i \in 0..(Len(F) - 1) /\ i + 1 # 0
    BY <1>1, <1>4
  <2> QED BY <2>1, <2>2 DEF BaseOf, Chain
<1> QED BY <1>1, <1>2, <1>3, <1>4

(* How far the windows of a ring are behind the newest one.                *)
LEMMA RingIs ==
  ASSUME NEW c, NEW F, NEW T, NEW o, Chain(F, T), Ring(c, F, o)
  PROVE  /\ o \in 0..Len(F) /\ Len(F) \in Nat /\ c.wb \in Places
         /\ Down(c.wb, BaseOf(F, Len(F))) = 0
         /\ \A j \in o..Len(F) : j \in 0..Len(F) /\ BaseOf(F, j) \in Places /\ BaseOf(F, j) \in c.ws
         /\ \A j \in o..Len(F) :
              /\ Down(c.wb, BaseOf(F, j)) \in 0..Down(c.wb, BaseOf(F, o))
              /\ j < Len(F) =>
                   /\ IncOf(F, j) \in Reach /\ j + 1 \in o..Len(F)
                   /\ IncOf(F, j) <= Down(c.wb, BaseOf(F, j))
                   /\ Down(c.wb, BaseOf(F, j + 1)) = Down(c.wb, BaseOf(F, j)) - IncOf(F, j)
<1>1. /\ o \in 0..Len(F) /\ Len(F) \in Nat /\ c.wb \in Places
      /\ \A j \in o..Len(F) : j \in 0..Len(F) /\ BaseOf(F, j) \in Places /\ BaseOf(F, j) \in c.ws
      /\ Len(F) \in o..Len(F) /\ o \in o..Len(F) /\ c.wb = BaseOf(F, Len(F))
  BY ChainIs DEF Ring
<1>2. Down(c.wb, BaseOf(F, Len(F))) = 0
  BY <1>1, DownIs
<1>3. ASSUME NEW j \in o..Len(F)
      PROVE  Down(c.wb, BaseOf(F, j)) \in 0..Down(c.wb, BaseOf(F, o))
  <2>1. /\ Down(c.wb, BaseOf(F, j)) \in 0..(Quads - 1)
        /\ Down(c.wb, BaseOf(F, o)) \in 0..(Quads - 1) /\ IncOf(F, o) \in Nat
    <3>1. IncOf(F, o) \in 0..3
      BY <1>1, ChainIs
    <3> QED BY <1>1, <3>1, DownIs
  <2>2. CASE j = o
    BY <2>1, <2>2
  <2>3. CASE j # o
    <3>1. o < j
      BY <1>1, <2>3
    <3>2. Down(c.wb, BaseOf(F, j)) + IncOf(F, o) <= Down(c.wb, BaseOf(F, o))
      BY <1>1, <3>1 DEF Ring
    <3> QED BY <2>1, <3>2
  <2> QED BY <2>2, <2>3
<1>4. ASSUME NEW j \in o..Len(F), j < Len(F)
      PROVE  /\ IncOf(F, j) \in Reach /\ j + 1 \in o..Len(F)
             /\ IncOf(F, j) <= Down(c.wb, BaseOf(F, j))
             /\ Down(c.wb, BaseOf(F, j + 1)) = Down(c.wb, BaseOf(F, j)) - IncOf(F, j)
  <2>1. /\ IncOf(F, j) \in Reach /\ j + 1 \in o..Len(F) /\ j < j + 1
        /\ BaseOf(F, j + 1) = Up(BaseOf(F, j), IncOf(F, j))
    BY <1>1, <1>4, ChainIs
  <2>2. /\ Down(c.wb, BaseOf(F, j)) \in 0..(Quads - 1)
        /\ Down(c.wb, BaseOf(F, j + 1)) \in 0..(Quads - 1)
    BY <1>1, <2>1, DownIs
  <2>3. Down(c.wb, BaseOf(F, j + 1)) + IncOf(F, j) <= Down(c.wb, BaseOf(F, j))
    BY <2>1 DEF Ring
  <2>4. IncOf(F, j) <= Down(c.wb, BaseOf(F, j)) /\ IncOf(F, j) \in 0..3
    BY <2>1, <2>2, <2>3 DEF Reach
  <2> QED BY <1>1, <2>1, <2>4, UpCloser
<1> QED BY <1>1, <1>2, <1>3, <1>4

(* The quads of a window in the file, but for those of a call in progress, *)
(* lie between the oldest window and the newest.                           *)
LEMMA Near ==
  ASSUME NEW c, NEW F, NEW T, NEW o, Chain(F, T), Ring(c, F, o),
         NEW j \in o..Len(F), NEW k \in 0..3, k = 0 \/ (k < IncOf(F, j) /\ j < Len(F))
  PROVE  /\ Up(BaseOf(F, j), k) \in Places
         /\ Down(c.wb, Up(BaseOf(F, j), k)) = Down(c.wb, BaseOf(F, j)) - k
         /\ Down(c.wb, Up(BaseOf(F, j), k)) <= Down(c.wb, BaseOf(F, o))
<1>1. /\ BaseOf(F, j) \in Places /\ c.wb \in Places
      /\ Down(c.wb, BaseOf(F, j)) \in 0..Down(c.wb, BaseOf(F, o))
      /\ o \in o..Len(F)
  <2>1. o \in 0..Len(F) /\ Len(F) \in Nat /\ c.wb \in Places
    BY RingIs
  <2>2. BaseOf(F, j) \in Places
    BY RingIs
  <2>3. Down(c.wb, BaseOf(F, j)) \in 0..Down(c.wb, BaseOf(F, o))
    BY RingIs
  <2>4. o \in o..Len(F)
    BY <2>1
  <2> QED BY <2>1, <2>2, <2>3, <2>4
<1>2. Down(c.wb, BaseOf(F, o)) \in Nat
  <2>1. BaseOf(F, o) \in Places
    BY <1>1, RingIs
  <2> QED BY <1>1, <2>1, DownIs
<1>3. k <= Down(c.wb, BaseOf(F, j))
  <2>1. CASE k = 0
    BY <1>1, <1>2, <2>1
  <2>2. CASE k < IncOf(F, j) /\ j < Len(F)
    <3>1. IncOf(F, j) \in Reach /\ IncOf(F, j) <= Down(c.wb, BaseOf(F, j))
      BY <2>2, RingIs
    <3> QED BY <1>1, <1>2, <2>2, <3>1 DEF Reach
  <2> QED BY <2>1, <2>2
<1>4. Up(BaseOf(F, j), k) \in Places
  BY <1>1, UpIs
<1>5. Down(c.wb, Up(BaseOf(F, j), k)) = Down(c.wb, BaseOf(F, j)) - k
  BY <1>1, <1>3, UpCloser
<1> QED BY <1>1, <1>2, <1>4, <1>5

(* Room for n quads is room up to the oldest window; where there is none,  *)
(* that one is the first in the way.                                       *)
LEMMA RoomIs ==
  ASSUME NEW c, NEW F, NEW T, NEW o, Chain(F, T), Ring(c, F, o), NEW n \in Reach
  PROVE  /\ Owned(c, n) = {} => Down(c.wb, BaseOf(F, o)) + n < Quads
         /\ Owned(c, n) # {} => o < Len(F) /\ Ahead(c, Min(Owned(c, n))) = BaseOf(F, o)
<1> DEFINE b == c.wb
           d == Down(b, BaseOf(F, o))
           far == Quads - d
<1>0. /\ Quads \in Nat /\ Quads > 3 /\ b \in Places /\ o \in 0..Len(F) /\ Len(F) \in Nat
      /\ BaseOf(F, o) \in Places /\ d \in 0..(Quads - 1) /\ far \in 1..Quads /\ n \in 1..3
      /\ BaseOf(F, o) \in c.ws
  <2>1. BaseOf(F, o) \in Places /\ b \in Places /\ o \in 0..Len(F) /\ Len(F) \in Nat
        /\ BaseOf(F, o) \in c.ws
    BY RingIs
  <2>2. d \in 0..(Quads - 1)
    BY <2>1, DownIs
  <2> HIDE DEF d
  <2> QED BY <2>1, <2>2, SizesAre DEF Reach
<1>1. ASSUME NEW k \in 1..3 PROVE Ahead(c, k) = Up(b, k) /\ Up(b, k) \in Places
                                  /\ Down(b, Up(b, k)) = Quads - k
  BY <1>0, AheadIs, UpIs, UpCloser
<1>2. far <= n => far \in Owned(c, n) /\ Ahead(c, far) = BaseOf(F, o)
  <2> SUFFICES ASSUME far <= n PROVE far \in Owned(c, n) /\ Ahead(c, far) = BaseOf(F, o)
    OBVIOUS
  <2>1. far \in 1..n /\ far \in 1..3
    BY <1>0
  <2>2. Down(b, Up(b, far)) = d /\ Up(b, far) \in Places
    <3>1. Down(b, Up(b, far)) = Quads - far /\ Up(b, far) \in Places
      BY <1>1, <2>1
    <3> QED BY <1>0, <3>1
  <2>3. Up(b, far) = BaseOf(F, o)
    <3> HIDE DEF b, far
    <3> QED BY <1>0, <2>2, DownIs
  <2> QED BY <1>0, <1>1, <2>1, <2>3 DEF Owned
<1>3. ASSUME NEW k \in Owned(c, n) PROVE k \in 1..n /\ far <= k
  <2>1. k \in 1..n /\ k \in 1..3 /\ Ahead(c, k) \in c.ws
    BY <1>0 DEF Owned
  <2>2. PICK j \in o..Len(F) : Up(b, k) = BaseOf(F, j)
    BY <1>1, <2>1 DEF Ring
  <2>3. Down(b, BaseOf(F, j)) \in 0..d
    BY RingIs
  <2>4. Down(b, BaseOf(F, j)) = Quads - k
    BY <1>1, <2>1, <2>2
  <2> QED BY <1>0, <2>1, <2>3, <2>4
<1>4. CASE Owned(c, n) = {}
  BY <1>0, <1>2, <1>4
<1>5. CASE Owned(c, n) # {}
  <2>1. far \in Owned(c, n) /\ Ahead(c, far) = BaseOf(F, o)
    <3>1. PICK k \in Owned(c, n) : TRUE
      BY <1>5
    <3>2. far <= n
      BY <1>0, <1>3, <3>1
    <3> QED BY <1>2, <3>2
  <2>2. Min(Owned(c, n)) = far
    <3>1. \E x \in Owned(c, n) : \A y \in Owned(c, n) : x <= y
      BY <1>3, <2>1
    <3>2. Min(Owned(c, n)) \in Owned(c, n) /\ Min(Owned(c, n)) <= far
      BY <2>1, <3>1 DEF Min
    <3> QED BY <1>0, <1>3, <3>2
  <2>3. o # Len(F)
    <3>1. far <= n
      BY <1>0, <1>3, <2>1
    <3>2. d # 0
      BY <1>0, <3>1
    <3> QED BY <3>2, RingIs
  <2> QED BY <1>0, <2>1, <2>2, <2>3
<1> QED BY <1>4, <1>5

(* The oldest window is as large as its call says.                         *)
LEMMA SizeIs ==
  ASSUME NEW c, NEW F, NEW T, NEW o, Chain(F, T), Ring(c, F, o), o < Len(F)
  PROVE  SizeAt(c, BaseOf(F, o)) = IncOf(F, o)
<1> DEFINE b == c.wb
           i == IncOf(F, o)
           next == {k \in 1..2 : (BaseOf(F, o) + k) % Quads \in c.ws}
<1>0. /\ o \in o..Len(F) /\ o + 1 \in o..Len(F) /\ i \in Reach /\ b \in Places
      /\ BaseOf(F, o) \in Places /\ BaseOf(F, o + 1) \in c.ws
      /\ i <= Down(b, BaseOf(F, o)) /\ Down(b, BaseOf(F, o)) \in Nat
  <2>1. o \in o..Len(F)
    BY RingIs
  <2> QED BY <2>1, RingIs, DownIs
<1>1. Up(BaseOf(F, o), i) = BaseOf(F, o + 1)
  BY ChainIs, RingIs
<1>2. ASSUME NEW k \in 1..2, k < i PROVE Up(BaseOf(F, o), k) \notin c.ws
  <2>1. /\ Down(b, Up(BaseOf(F, o), k)) = Down(b, BaseOf(F, o)) - k
    BY <1>0, <1>2, Near
  <2>2. SUFFICES ASSUME NEW j \in o..Len(F), Up(BaseOf(F, o), k) = BaseOf(F, j) PROVE FALSE
    BY DEF Ring
  <2>3. CASE j = o
    BY <1>0, <2>1, <2>2, <2>3
  <2>4. CASE j # o
    <3>1. o < j
      BY <1>0, <2>4
    <3>2. Down(b, BaseOf(F, j)) + i <= Down(b, BaseOf(F, o))
      BY <1>0, <3>1 DEF Ring
    <3>3. Down(b, BaseOf(F, j)) = Down(b, BaseOf(F, o)) - k
      BY <2>1, <2>2
    <3> HIDE DEF b, i
    <3> QED BY <1>0, <1>2, <3>2, <3>3 DEF Reach
  <2> QED BY <2>3, <2>4
<1>3. next = IF i = 3 THEN {} ELSE {k \in 1..2 : Up(BaseOf(F, o), k) \in c.ws}
  <2>1. next = {k \in 1..2 : Up(BaseOf(F, o), k) \in c.ws}
    BY DEF Up
  <2>2. i = 3 => \A k \in 1..2 : Up(BaseOf(F, o), k) \notin c.ws
    BY <1>2
  <2> QED BY <2>1, <2>2
<1>4. CASE i = 3
  BY <1>3, <1>4 DEF SizeAt
<1>5. CASE i # 3
  <2>1. i \in next /\ \A k \in next : i <= k /\ k \in 1..2
    BY <1>0, <1>1, <1>2, <1>3, <1>5 DEF Reach
  <2> HIDE DEF next
  <2>2. Min(next) \in next /\ Min(next) <= i
    BY <2>1 DEF Min
  <2>3. Min(next) = i
    BY <1>0, <2>1, <2>2 DEF Reach
  <2>4. next # {}
    BY <2>1
  <2>5. SizeAt(c, BaseOf(F, o)) = IF next = {} THEN 3 ELSE Min(next)
    BY DEF SizeAt, next
  <2> QED BY <2>3, <2>4, <2>5
<1> QED BY <1>4, <1>5

(* Two stacks of frames that agree up to frame l, but for the call it is   *)
(* making.                                                                 *)
Alike(F, G, l) ==
  /\ \A i \in 1..l : /\ G[i].serial = F[i].serial /\ G[i].ret = F[i].ret
                     /\ G[i].base = F[i].base /\ G[i].sp = F[i].sp
  /\ \A i \in 1..(l - 1) : G[i].inc = F[i].inc

LEMMA AlikeIs ==
  ASSUME NEW F, NEW G, NEW l \in Nat, Alike(F, G, l)
  PROVE  \A i \in 0..l :
           /\ BaseOf(G, i) = BaseOf(F, i) /\ (i < l => IncOf(G, i) = IncOf(F, i))
           /\ \A q, T : HasBase(q, F, T, i) <=> HasBase(q, G, T, i)
           /\ \A q, k : HasExtra(q, F, i, k) <=> HasExtra(q, G, i, k)
<1> SUFFICES ASSUME NEW i \in 0..l
             PROVE  /\ BaseOf(G, i) = BaseOf(F, i) /\ (i < l => IncOf(G, i) = IncOf(F, i))
                    /\ \A q, T : HasBase(q, F, T, i) <=> HasBase(q, G, T, i)
                    /\ \A q, k : HasExtra(q, F, i, k) <=> HasExtra(q, G, i, k)
  OBVIOUS
<1>1. CASE i = 0
  BY <1>1 DEF BaseOf, IncOf, HasBase, HasExtra
<1>2. CASE i # 0
  <2>1. i \in 1..l /\ (i < l => i \in 1..(l - 1))
    BY <1>2
  <2>2. /\ G[i].serial = F[i].serial /\ G[i].ret = F[i].ret /\ G[i].base = F[i].base
        /\ i < l => G[i].inc = F[i].inc
    BY <2>1 DEF Alike
  <2> QED BY <1>2, <2>2 DEF BaseOf, IncOf, HasBase, HasExtra
<1> QED BY <1>1, <1>2

LEMMA MemoryCarries ==
  ASSUME NEW c, NEW e, NEW F, NEW G, NEW T, NEW o \in Nat, NEW l \in Nat, Alike(F, G, l),
         o <= l, InMemory(c, F, T, o), e.mem = c.mem
  PROVE  InMemory(e, G, T, o)
<1>1. \A a : Load(e, a) = Load(c, a)
  BY DEF Load
<1>2. \A i \in 0..(o - 1) : i \in 0..l /\ i < l
  OBVIOUS
<1>3. \A i \in 0..(o - 1) : IncOf(G, i) = IncOf(F, i)
  BY <1>2, AlikeIs
<1>4. ASSUME NEW i \in 0..(o - 1) PROVE HasBase(Load(e, BaseArea(T, i)), G, T, i)
  <2>1. HasBase(Load(c, BaseArea(T, i)), F, T, i)
    BY DEF InMemory
  <2> QED BY <1>1, <1>2, <2>1, AlikeIs
<1>5. ASSUME NEW i \in 0..(o - 1), NEW k \in 1..(IncOf(G, i) - 1)
      PROVE  HasExtra(Load(e, ExtraArea(G, T, i, k)), G, i, k)
  <2>1. HasExtra(Load(c, ExtraArea(F, T, i, k)), F, i, k)
    BY <1>3 DEF InMemory
  <2>2. ExtraArea(G, T, i, k) = ExtraArea(F, T, i, k)
    BY <1>3 DEF ExtraArea
  <2> QED BY <1>1, <1>2, <2>1, <2>2, AlikeIs
<1>6. Load(e, T - 1).sp = T
  BY <1>1 DEF InMemory
<1> QED BY <1>4, <1>5, <1>6 DEF InMemory

(* Contents of the windows up to l, where nothing between the oldest and   *)
(* the newest one was written.                                             *)
LEMMA WindowCarries ==
  ASSUME NEW c, NEW e, NEW F, NEW G, NEW T, NEW o, NEW l \in 0..Len(F),
         Chain(F, T), Ring(c, F, o), InWindows(c, F, T, o), Alike(F, G, l),
         \A p \in Places : Down(c.wb, p) <= Down(c.wb, BaseOf(F, o)) => e.quad[p] = c.quad[p],
         NEW j \in o..l
  PROVE  /\ HasBase(e.quad[BaseOf(G, j)], G, T, j)
         /\ j < l => \A k \in 1..(IncOf(G, j) - 1) :
                       HasExtra(e.quad[Up(BaseOf(G, j), k)], G, j, k)
<1>1. /\ l \in Nat /\ j \in o..Len(F) /\ o \in 0..Len(F) /\ Len(F) \in Nat
      /\ BaseOf(F, j) \in Places /\ j \in 0..l
      /\ Down(c.wb, BaseOf(F, j)) \in 0..Down(c.wb, BaseOf(F, o))
  <2>1. o \in 0..Len(F) /\ Len(F) \in Nat
    BY RingIs
  <2>2. j \in o..Len(F) /\ l \in Nat /\ j \in 0..l
    BY <2>1
  <2> QED BY <2>1, <2>2, RingIs
<1>2. BaseOf(G, j) = BaseOf(F, j) /\ (j < l => IncOf(G, j) = IncOf(F, j))
  BY <1>1, AlikeIs
<1>3. Down(c.wb, BaseOf(F, j)) <= Down(c.wb, BaseOf(F, o))
  <2>1. Down(c.wb, BaseOf(F, o)) \in Nat
    <3>1. o \in o..Len(F)
      BY <1>1
    <3> QED BY <3>1, RingIs, DownIs
  <2> QED BY <1>1, <2>1
<1>4. HasBase(e.quad[BaseOf(G, j)], G, T, j)
  <2>1. e.quad[BaseOf(G, j)] = c.quad[BaseOf(F, j)]
    BY <1>1, <1>2, <1>3
  <2>2. HasBase(c.quad[BaseOf(F, j)], F, T, j)
    BY <1>1 DEF InWindows
  <2> QED BY <1>1, <2>1, <2>2, AlikeIs
<1>5. ASSUME j < l, NEW k \in 1..(IncOf(G, j) - 1)
      PROVE  HasExtra(e.quad[Up(BaseOf(G, j), k)], G, j, k)
  <2>1. IncOf(F, j) \in Reach /\ k \in 1..(IncOf(F, j) - 1) /\ j < Len(F)
    BY <1>1, <1>2, <1>5, RingIs
  <2>2. k \in 0..3 /\ k < IncOf(F, j)
    BY <2>1 DEF Reach
  <2>3. e.quad[Up(BaseOf(F, j), k)] = c.quad[Up(BaseOf(F, j), k)]
    BY <1>1, <2>1, <2>2, Near
  <2>4. HasExtra(c.quad[Up(BaseOf(F, j), k)], F, j, k)
    BY <1>1, <2>1 DEF InWindows
  <2> QED BY <1>1, <1>2, <2>3, <2>4, AlikeIs
<1> QED BY <1>4, <1>5

WithInc(F, n) == [F EXCEPT ![Len(F)].inc = n]

LEMMA WithIncIs ==
  ASSUME NEW F, NEW T, Chain(F, T), F # <<>>, NEW n \in 0..3
  PROVE  /\ Chain(WithInc(F, n), T) /\ Len(WithInc(F, n)) = Len(F) /\ Alike(F, WithInc(F, n), Len(F))
         /\ IncOf(WithInc(F, n), Len(F)) = n
<1> DEFINE m == Len(F)
           f == [F[m] EXCEPT !.inc = n]
           G == WithInc(F, n)
<1>1. m \in Nat /\ F \in Seq(Frame) /\ m \in 1..m /\ m # 0
  BY ChainIs
<1>2. F[m] \in Frame
  BY <1>1, ChainIs
<1>3. /\ f \in Frame /\ f.inc = n /\ f.serial = F[m].serial /\ f.ret = F[m].ret
      /\ f.base = F[m].base /\ f.sp = F[m].sp
  BY <1>2 DEF Frame
<1>4. G = [F EXCEPT ![m] = f]
  BY <1>1, Zenon DEF WithInc
<1> HIDE DEF f, G
<1>5. /\ G \in Seq(Frame) /\ Len(G) = m /\ G[m] = f
      /\ \A j \in 1..m : j # m => G[j] = F[j]
  BY <1>1, <1>3, <1>4, SetMember
<1>6. Alike(F, G, m)
  <2>1. \A i \in 1..m : /\ G[i].serial = F[i].serial /\ G[i].ret = F[i].ret
                        /\ G[i].base = F[i].base /\ G[i].sp = F[i].sp
    BY <1>3, <1>5
  <2>2. \A i \in 1..(m - 1) : G[i].inc = F[i].inc
    BY <1>1, <1>5
  <2> QED BY <2>1, <2>2 DEF Alike
<1>7. Chain(G, T)
  <2>1. \A i \in 1..m : G[i].sp = T - 3 * i /\ (i < m => G[i].inc \in Reach)
    BY <1>1, <1>3, <1>5 DEF Chain
  <2>2. ASSUME NEW i \in 0..(m - 1)
        PROVE  /\ G[i + 1].base = Up(BaseOf(G, i), IncOf(G, i)) /\ G[i + 1].ret.inc = IncOf(G, i)
               /\ i > 0 => G[i + 1].ret.pc = Body(G[i].serial)
    <3>1. i \in 0..m /\ i < m /\ i + 1 \in 1..m
      BY <1>1
    <3>2. BaseOf(G, i) = BaseOf(F, i) /\ IncOf(G, i) = IncOf(F, i)
      BY <1>1, <1>6, <3>1, AlikeIs
    <3>3. G[i + 1].base = F[i + 1].base /\ G[i + 1].ret = F[i + 1].ret
      BY <1>6, <3>1 DEF Alike
    <3>4. i > 0 => G[i].serial = F[i].serial
      BY <1>6, <3>1 DEF Alike
    <3> QED BY <3>2, <3>3, <3>4 DEF Chain
  <2> QED BY <1>5, <2>1, <2>2 DEF Chain
<1>8. IncOf(G, m) = n
  BY <1>1, <1>3, <1>5 DEF IncOf
<1> QED BY <1>5, <1>6, <1>7, <1>8 DEF G

(* Writes ahead of the newest window disturb none, and may begin a call.   *)
LEMMA Retouch ==
  ASSUME NEW c, NEW e, NEW F, NEW T, NEW o, Held(c, F, T, o), F # <<>>, NEW n \in 0..3,
         Down(c.wb, BaseOf(F, o)) + n < Quads,
         e.wb = c.wb, e.ws = c.ws, e.mem = c.mem,
         \A p \in Places : Down(c.wb, p) <= Down(c.wb, BaseOf(F, o)) => e.quad[p] = c.quad[p],
         \A k \in 1..(n - 1) : e.quad[Up(c.wb, k)].val = Own(F[Len(F)].serial, k)
  PROVE  Held(e, WithInc(F, n), T, o)
<1> DEFINE G == WithInc(F, n)
           m == Len(F)
<1>0. Chain(F, T) /\ Ring(c, F, o) /\ InWindows(c, F, T, o) /\ InMemory(c, F, T, o)
  BY DEF Held
<1>1. /\ Chain(G, T) /\ Len(G) = m /\ Alike(F, G, m) /\ IncOf(G, m) = n
      /\ m \in Nat /\ o \in 0..m /\ m # 0 /\ c.wb = BaseOf(F, m)
  <2>1. m \in Nat /\ o \in 0..m /\ c.wb = BaseOf(F, m)
    BY <1>0, RingIs DEF Ring
  <2>2. m # 0
    <3>1. F \in Seq(Frame)
      BY <1>0, ChainIs
    <3> QED BY <3>1
  <2> QED BY <1>0, <2>1, <2>2, WithIncIs
<1> HIDE DEF G
<1>2. /\ \A j \in o..m : BaseOf(G, j) = BaseOf(F, j) /\ (j < m => IncOf(G, j) = IncOf(F, j))
      /\ o \in o..m /\ m \in o..m /\ m \in 0..m
  <2>1. \A j \in o..m : j \in 0..m
    BY <1>1
  <2> QED BY <1>1, <2>1, AlikeIs
<1>3. Ring(e, G, o)
  <2>1. e.wb = BaseOf(G, m) /\ o \in 0..Len(G)
    BY <1>1, <1>2
  <2>2. e.ws = {BaseOf(G, j) : j \in o..Len(G)}
    BY <1>0, <1>1, <1>2 DEF Ring
  <2>3. ASSUME NEW i \in o..m, NEW j \in o..m, i < j
        PROVE  Down(e.wb, BaseOf(G, j)) + IncOf(G, i) <= Down(e.wb, BaseOf(G, i))
    <3>1. i < m
      BY <1>1, <2>3
    <3>2. Down(c.wb, BaseOf(F, j)) + IncOf(F, i) <= Down(c.wb, BaseOf(F, i))
      BY <1>0, <2>3 DEF Ring
    <3> QED BY <1>2, <3>1, <3>2
  <2>4. Down(e.wb, BaseOf(G, o)) + IncOf(G, Len(G)) < Quads
    BY <1>1, <1>2
  <2> QED BY <1>1, <2>1, <2>2, <2>3, <2>4 DEF Ring
<1>4. ASSUME NEW j \in o..m
      PROVE  /\ HasBase(e.quad[BaseOf(G, j)], G, T, j)
             /\ \A k \in 1..(IncOf(G, j) - 1) : HasExtra(e.quad[Up(BaseOf(G, j), k)], G, j, k)
  <2>1. /\ HasBase(e.quad[BaseOf(G, j)], G, T, j)
        /\ j < m => \A k \in 1..(IncOf(G, j) - 1) :
                      HasExtra(e.quad[Up(BaseOf(G, j), k)], G, j, k)
    BY <1>0, <1>1, <1>2, WindowCarries
  <2>2. CASE j = m
    <3>1. BaseOf(G, m) = c.wb /\ m \in 1..m /\ G[m].serial = F[m].serial
      BY <1>1, <1>2 DEF Alike
    <3> QED BY <1>1, <2>1, <2>2, <3>1 DEF HasExtra
  <2>3. CASE j # m
    BY <1>1, <2>1, <2>3
  <2> QED BY <2>2, <2>3
<1>5. InMemory(e, G, T, o)
  <2>1. o \in Nat /\ o <= m
    BY <1>1
  <2> QED BY <1>0, <1>1, <2>1, MemoryCarries
<1> QED BY <1>1, <1>3, <1>4, <1>5 DEF Held, InWindows, G

AddFrame(F, s, b, w, T) ==
  Append(F, [serial |-> s, base |-> b, inc |-> 0, ret |-> w, sp |-> T - 3 * (Len(F) + 1)])

LEMMA AddFrameIs ==
  ASSUME NEW F, NEW T, Chain(F, T), NEW s \in Nat, NEW n \in Reach, n = IncOf(F, Len(F)),
         T - 3 * (Len(F) + 1) \in Nat, NEW w, w.inc = n,
         w \in [inc : Reach, pc : ({"body"} \X Nat) \cup {Kernel, Halt}],
         F # <<>> => w.pc = Body(F[Len(F)].serial),
         NEW b, b = Up(BaseOf(F, Len(F)), n), NEW G, G = AddFrame(F, s, b, w, T)
  PROVE  /\ Chain(G, T) /\ Len(G) = Len(F) + 1 /\ Alike(F, G, Len(F))
         /\ \A i \in 0..Len(F) : BaseOf(G, i) = BaseOf(F, i) /\ IncOf(G, i) = IncOf(F, i)
         /\ BaseOf(G, Len(F) + 1) = b /\ IncOf(G, Len(F) + 1) = 0
         /\ G[Len(F) + 1].serial = s /\ G[Len(F) + 1].ret = w
<1> DEFINE m == Len(F)
           f == [serial |-> s, base |-> b, inc |-> 0, ret |-> w, sp |-> T - 3 * (m + 1)]
<1>1. m \in Nat /\ F \in Seq(Frame) /\ m \in 0..m
  BY ChainIs
<1>2. b \in Places
  <2>1. BaseOf(F, m) \in Places /\ n \in 0..3
    BY <1>1, ChainIs DEF Reach
  <2> QED BY <2>1, UpIs
<1>3. /\ f \in Frame /\ f.serial = s /\ f.base = b /\ f.inc = 0 /\ f.ret = w
      /\ f.sp = T - 3 * (m + 1)
  BY <1>2 DEF Frame
<1>4. G = Append(F, f)
  BY DEF AddFrame
<1> HIDE DEF f
<1>5. /\ G \in Seq(Frame) /\ Len(G) = m + 1 /\ G[m + 1] = f
      /\ \A i \in 1..m : G[i] = F[i]
  BY <1>1, <1>3, <1>4, AddMember
<1>6. \A i \in 0..m : BaseOf(G, i) = BaseOf(F, i) /\ IncOf(G, i) = IncOf(F, i)
  <2> SUFFICES ASSUME NEW i \in 0..m PROVE BaseOf(G, i) = BaseOf(F, i) /\ IncOf(G, i) = IncOf(F, i)
    OBVIOUS
  <2>1. i # 0 => i \in 1..m
    BY <1>1
  <2> QED BY <1>5, <2>1 DEF BaseOf, IncOf
<1>7. Alike(F, G, m)
  BY <1>1, <1>5 DEF Alike
<1>8. BaseOf(G, m + 1) = b /\ IncOf(G, m + 1) = 0
  BY <1>1, <1>3, <1>5 DEF BaseOf, IncOf
<1>9. Chain(G, T)
  <2>1. ASSUME NEW i \in 1..(m + 1) PROVE G[i].sp = T - 3 * i /\ (i < m + 1 => G[i].inc \in Reach)
    <3>1. CASE i = m + 1
      BY <1>1, <1>3, <1>5, <3>1
    <3>2. CASE i # m + 1
      <4>1. i \in 1..m /\ i # 0 /\ m # 0
        BY <1>1, <3>2
      <4>2. G[i].sp = T - 3 * i /\ (i < m => G[i].inc \in Reach)
        BY <1>5, <4>1 DEF Chain
      <4>3. i = m => G[i].inc = n
        BY <1>5, <4>1 DEF IncOf
      <4> QED BY <1>1, <4>1, <4>2, <4>3
    <3> QED BY <3>1, <3>2
  <2>2. ASSUME NEW i \in 0..m
        PROVE  /\ G[i + 1].base = Up(BaseOf(G, i), IncOf(G, i)) /\ G[i + 1].ret.inc = IncOf(G, i)
               /\ i > 0 => G[i + 1].ret.pc = Body(G[i].serial)
    <3>1. CASE i = m
      <4>1. m > 0 => F # <<>> /\ m \in 1..m
        BY <1>1
      <4> QED BY <1>3, <1>5, <1>6, <3>1, <4>1
    <3>2. CASE i # m
      <4>1. i \in 0..(m - 1) /\ i + 1 \in 1..m /\ (i > 0 => i \in 1..m)
        BY <1>1, <3>2
      <4>2. /\ F[i + 1].base = Up(BaseOf(F, i), IncOf(F, i)) /\ F[i + 1].ret.inc = IncOf(F, i)
            /\ i > 0 => F[i + 1].ret.pc = Body(F[i].serial)
        BY <4>1 DEF Chain
      <4> QED BY <1>5, <1>6, <4>1, <4>2
    <3> QED BY <3>1, <3>2
  <2>3. 0..(Len(G) - 1) = 0..m
    BY <1>1, <1>5
  <2> QED BY <1>5, <2>1, <2>2, <2>3 DEF Chain
<1> QED BY <1>3, <1>5, <1>6, <1>7, <1>8, <1>9

(* ENTRY: the window of the new frame is the newest.                       *)
(* What ENTRY does to the file. *)
Begun(c, e, F, s, n, b, w) ==
  /\ b = Up(c.wb, n) /\ w = c.quad[b].ret /\ w.inc = n
  /\ w \in [inc : Reach, pc : ({"body"} \X Nat) \cup {Kernel, Halt}]
  /\ F # <<>> => w.pc = Body(F[Len(F)].serial)
  /\ e.wb = b /\ e.ws = c.ws \cup {b} /\ e.mem = c.mem
  /\ \A p \in Places : p # b => e.quad[p] = c.quad[p]
  /\ e.quad[b].ret = w /\ e.quad[b].sp = c.quad[c.wb].sp - 3 /\ e.quad[b].val = Own(s, 0)

LEMMA EnterHolds ==
  ASSUME NEW c, NEW F, NEW T \in Nat, NEW o, Held(c, F, T, o),
         NEW s \in Nat, NEW n \in Reach, n = IncOf(F, Len(F)), T - 3 * (Len(F) + 1) \in Nat,
         NEW e, NEW b, NEW w, Begun(c, e, F, s, n, b, w)
  PROVE  Held(e, AddFrame(F, s, b, w, T), T, o)
<1> USE DEF Begun
<1> DEFINE G == AddFrame(F, s, b, w, T)
           m == Len(F)
           far == Down(c.wb, BaseOf(F, o))
<1>0. Chain(F, T) /\ Ring(c, F, o) /\ InWindows(c, F, T, o) /\ InMemory(c, F, T, o)
  BY DEF Held
<1>1. /\ m \in Nat /\ o \in 0..m /\ m \in o..m /\ o \in o..m /\ c.wb = BaseOf(F, m) /\ c.wb \in Places
      /\ Down(c.wb, BaseOf(F, m)) = 0 /\ far \in Nat /\ far + n < Quads /\ n \in 1..3
  <2>1. /\ m \in Nat /\ o \in 0..m /\ c.wb = BaseOf(F, m) /\ c.wb \in Places
        /\ Down(c.wb, BaseOf(F, m)) = 0 /\ far + n < Quads
    BY <1>0, RingIs DEF Ring
  <2>2. m \in o..m /\ o \in o..m
    BY <2>1
  <2> QED BY <1>0, <2>1, <2>2, RingIs, DownIs DEF Reach
<1>2. b = Up(BaseOf(F, m), n)
  BY <1>1
<1>3. /\ Chain(G, T) /\ Len(G) = m + 1 /\ Alike(F, G, m)
      /\ \A i \in 0..m : BaseOf(G, i) = BaseOf(F, i) /\ IncOf(G, i) = IncOf(F, i)
      /\ BaseOf(G, m + 1) = b /\ IncOf(G, m + 1) = 0
      /\ G[m + 1].serial = s /\ G[m + 1].ret = w
  BY <1>0, <1>2, AddFrameIs
<1> HIDE DEF G
<1>4. b \in Places /\ Down(b, b) = 0 /\ Down(c.wb, b) = Quads - n
  <2>1. b \in Places
    BY <1>1, UpIs
  <2> QED BY <1>1, <2>1, DownIs, UpCloser
<1>5. ASSUME NEW j \in o..m
      PROVE  /\ j \in 0..m /\ BaseOf(F, j) \in Places
             /\ Down(c.wb, BaseOf(F, j)) \in 0..far
             /\ Down(b, BaseOf(F, j)) = Down(c.wb, BaseOf(F, j)) + n
  <2>1. j \in 0..m /\ BaseOf(F, j) \in Places /\ Down(c.wb, BaseOf(F, j)) \in 0..far
    BY <1>0, RingIs
  <2>2. Down(c.wb, BaseOf(F, j)) + n < Quads
    BY <1>1, <2>1, SizesAre
  <2> QED BY <1>1, <2>1, <2>2, Forth
<1> HIDE DEF far
<1>6. Ring(e, G, o)
  <2>1. e.wb = BaseOf(G, Len(G)) /\ o \in 0..Len(G)
    BY <1>1, <1>3
  <2>2. e.ws = {BaseOf(G, j) : j \in o..Len(G)}
    <3>1. c.ws = {BaseOf(F, j) : j \in o..m}
      BY <1>0 DEF Ring
    <3>2. c.ws = {BaseOf(G, j) : j \in o..m}
      BY <1>3, <1>5, <3>1
    <3>3. o..Len(G) = (o..m) \cup {m + 1}
      BY <1>1, <1>3
    <3> QED BY <1>3, <3>2, <3>3
  <2>3. ASSUME NEW i \in o..(m + 1), NEW j \in o..(m + 1), i < j
        PROVE  Down(b, BaseOf(G, j)) + IncOf(G, i) <= Down(b, BaseOf(G, i))
    <3>0. i \in o..m /\ IncOf(G, i) = IncOf(F, i) /\ BaseOf(G, i) = BaseOf(F, i)
      <4>1. i \in o..m
        BY <1>1, <2>3
      <4> QED BY <1>3, <1>5, <4>1
    <3>1. CASE j = m + 1
      <4>1. Down(b, BaseOf(G, j)) = 0
        BY <1>3, <1>4, <3>1
      <4>2. CASE i = m
        BY <1>1, <1>5, <3>0, <4>1, <4>2
      <4>3. CASE i # m
        <5>1. i < m
          BY <1>1, <3>0, <4>3
        <5>2. IncOf(F, i) <= Down(c.wb, BaseOf(F, i)) /\ IncOf(F, i) \in Reach
          BY <1>0, <3>0, <5>1, RingIs
        <5>3. /\ Down(b, BaseOf(G, i)) = Down(c.wb, BaseOf(F, i)) + n
              /\ Down(c.wb, BaseOf(F, i)) \in 0..far
          BY <1>5, <3>0
        <5>4. IncOf(F, i) \in Nat /\ Down(c.wb, BaseOf(F, i)) \in Nat /\ n \in Nat
          <6>1. IncOf(F, i) \in Nat
            BY <5>2 DEF Reach
          <6>2. Down(c.wb, BaseOf(F, i)) \in Nat
            BY <5>3
          <6>3. n \in Nat
            BY <1>1
          <6> QED BY <6>1, <6>2, <6>3
        <5>5. IncOf(F, i) <= Down(c.wb, BaseOf(F, i)) + n /\ 0 + IncOf(F, i) = IncOf(F, i)
          BY <5>2, <5>4
        <5> QED BY <3>0, <4>1, <5>3, <5>5
      <4> QED BY <4>2, <4>3
    <3>2. CASE j # m + 1
      <4>1. j \in o..m
        BY <1>1, <3>2
      <4>2. Down(c.wb, BaseOf(F, j)) + IncOf(F, i) <= Down(c.wb, BaseOf(F, i))
        BY <1>0, <2>3, <3>0, <4>1 DEF Ring
      <4>3. IncOf(F, i) \in 0..3 /\ BaseOf(G, j) = BaseOf(F, j)
        BY <1>0, <1>3, <1>5, <3>0, <4>1, ChainIs
      <4>4. /\ Down(b, BaseOf(G, i)) = Down(c.wb, BaseOf(F, i)) + n
            /\ Down(b, BaseOf(G, j)) = Down(c.wb, BaseOf(F, j)) + n
            /\ Down(c.wb, BaseOf(F, i)) \in 0..far /\ Down(c.wb, BaseOf(F, j)) \in 0..far
        BY <1>5, <3>0, <4>1, <4>3
      <4>5. (Down(c.wb, BaseOf(F, j)) + n) + IncOf(F, i) <= Down(c.wb, BaseOf(F, i)) + n
        <5> DEFINE x == Down(c.wb, BaseOf(F, i))
                   y == Down(c.wb, BaseOf(F, j))
                   z == IncOf(F, i)
        <5>1. x \in Nat /\ y \in Nat
          BY <1>1, <4>4
        <5>3. z \in Nat
          BY <4>3
        <5>4. n \in Nat
          BY <1>1
        <5>5. y + z <= x
          BY <4>2
        <5> HIDE DEF x, y, z
        <5>2. (y + n) + z <= x + n
          BY <5>1, <5>3, <5>4, <5>5
        <5> QED BY <5>2 DEF x, y, z
      <4> QED BY <3>0, <4>4, <4>5
    <3> QED BY <3>1, <3>2
  <2>4. Down(b, BaseOf(G, o)) + IncOf(G, m + 1) < Quads
    <3>1. BaseOf(G, o) = BaseOf(F, o) /\ Down(b, BaseOf(F, o)) = far + n
      BY <1>1, <1>3, <1>5 DEF far
    <3> QED BY <1>1, <1>3, <3>1
  <2> QED BY <1>3, <2>1, <2>2, <2>3, <2>4 DEF Ring
<1>7. \A p \in Places : Down(c.wb, p) <= far => e.quad[p] = c.quad[p]
  BY <1>1, <1>4, SizesAre
<1>8. ASSUME NEW j \in o..(m + 1)
      PROVE  /\ HasBase(e.quad[BaseOf(G, j)], G, T, j)
             /\ \A k \in 1..(IncOf(G, j) - 1) : HasExtra(e.quad[Up(BaseOf(G, j), k)], G, j, k)
  <2>1. CASE j = m + 1
    <3>1. HasBase(c.quad[c.wb], F, T, m)
      BY <1>0, <1>1 DEF InWindows
    <3>2. e.quad[b].sp = T - 3 * (m + 1)
      BY <1>1, <3>1 DEF HasBase
    <3> QED BY <1>3, <2>1, <3>2 DEF HasBase
  <2>2. CASE j # m + 1
    <3>0. j \in o..m /\ m \in 0..Len(F)
      BY <1>1, <2>2
    <3>1. /\ HasBase(e.quad[BaseOf(G, j)], G, T, j)
          /\ j < m => \A k \in 1..(IncOf(G, j) - 1) :
                        HasExtra(e.quad[Up(BaseOf(G, j), k)], G, j, k)
      BY <1>0, <1>3, <1>7, <3>0, WindowCarries DEF far
    <3>2. ASSUME j = m, NEW k \in 1..(IncOf(G, j) - 1)
          PROVE  HasExtra(e.quad[Up(BaseOf(G, j), k)], G, j, k)
      <4>1. k \in 1..3 /\ k < n /\ BaseOf(G, j) = c.wb /\ k \in 1..(IncOf(F, m) - 1)
        BY <1>1, <1>3, <3>0, <3>2
      <4>2. Up(c.wb, k) \in Places /\ Down(c.wb, Up(c.wb, k)) = Quads - k
        BY <1>1, <4>1, UpIs, UpCloser
      <4>3. Up(c.wb, k) # b
        BY <1>1, <1>4, <4>1, <4>2, SizesAre
      <4>4. HasExtra(c.quad[Up(c.wb, k)], F, m, k)
        BY <1>0, <1>1, <4>1 DEF InWindows
      <4>5. m \in 0..m
        BY <1>1
      <4> QED BY <1>1, <1>3, <3>2, <4>1, <4>2, <4>3, <4>4, <4>5, AlikeIs
    <3>3. j < m \/ j = m
      BY <1>1, <3>0
    <3> QED BY <3>1, <3>2, <3>3
  <2> QED BY <2>1, <2>2
<1>9. InMemory(e, G, T, o)
  <2>1. o \in Nat /\ o <= m
    BY <1>1
  <2> QED BY <1>0, <1>1, <1>3, <2>1, MemoryCarries
<1> QED BY <1>3, <1>6, <1>8, <1>9 DEF Held, InWindows, G

LEMMA FrontChain ==
  ASSUME NEW F, NEW T, Chain(F, T), Len(F) > 1
  PROVE  /\ Chain(Front(F), T) /\ Len(Front(F)) = Len(F) - 1 /\ Front(F) # <<>>
         /\ \A i \in 1..(Len(F) - 1) : Front(F)[i] = F[i]
<1> DEFINE m == Len(F) - 1
           G == Front(F)
<1>1. F \in Seq(Frame) /\ F # <<>> /\ m \in Nat \ {0} /\ Len(F) = m + 1
  BY ChainIs
<1>2. G \in Seq(Frame) /\ Len(G) = m /\ \A i \in 1..m : G[i] = F[i]
  BY <1>1, FrontIs
<1> HIDE DEF G
<1>3. \A i \in 0..m : BaseOf(G, i) = BaseOf(F, i) /\ IncOf(G, i) = IncOf(F, i)
  <2> SUFFICES ASSUME NEW i \in 0..m PROVE BaseOf(G, i) = BaseOf(F, i) /\ IncOf(G, i) = IncOf(F, i)
    OBVIOUS
  <2>1. i # 0 => i \in 1..m
    BY <1>1
  <2> QED BY <1>2, <2>1 DEF BaseOf, IncOf
<1>4. Chain(G, T)
  <2>1. ASSUME NEW i \in 1..m PROVE G[i].sp = T - 3 * i /\ (i < m => G[i].inc \in Reach)
    <3>1. i \in 1..Len(F) /\ i < Len(F)
      BY <1>1
    <3> QED BY <1>2, <3>1 DEF Chain
  <2>2. ASSUME NEW i \in 0..(m - 1)
        PROVE  /\ G[i + 1].base = Up(BaseOf(G, i), IncOf(G, i)) /\ G[i + 1].ret.inc = IncOf(G, i)
               /\ i > 0 => G[i + 1].ret.pc = Body(G[i].serial)
    <3>1. i \in 0..(Len(F) - 1) /\ i \in 0..m /\ i + 1 \in 1..m /\ (i > 0 => i \in 1..m)
      BY <1>1
    <3>2. /\ F[i + 1].base = Up(BaseOf(F, i), IncOf(F, i)) /\ F[i + 1].ret.inc = IncOf(F, i)
          /\ i > 0 => F[i + 1].ret.pc = Body(F[i].serial)
      BY <3>1 DEF Chain
    <3> QED BY <1>2, <1>3, <3>1, <3>2
  <2> QED BY <1>2, <2>1, <2>2 DEF Chain
<1> QED BY <1>1, <1>2, <1>4 DEF G

(* The caller's place, and how much of the file a return gives back.       *)
LEMMA CallerIs ==
  ASSUME NEW c, NEW F, NEW T, NEW o, Chain(F, T), Ring(c, F, o), Len(F) > 1,
         NEW n, n = IncOf(F, Len(F) - 1)
  PROVE  n \in Reach /\ Behind(c, n) = BaseOf(F, Len(F) - 1)
<1> DEFINE m == Len(F) - 1
           p == BaseOf(F, m)
<1>1. /\ Len(F) \in Nat /\ m \in 0..Len(F) /\ m < Len(F) /\ m + 1 = Len(F)
      /\ c.wb \in Places /\ c.wb = BaseOf(F, Len(F))
  <2>1. Len(F) \in Nat /\ c.wb \in Places /\ c.wb = BaseOf(F, Len(F))
    BY RingIs DEF Ring
  <2> QED BY <2>1
<1>2. p \in Places /\ n \in Reach /\ c.wb = Up(p, n)
  <2>1. p \in Places /\ IncOf(F, m) \in Reach /\ BaseOf(F, m + 1) = Up(p, IncOf(F, m))
    BY <1>1, ChainIs
  <2> QED BY <1>1, <2>1
<1> HIDE DEF p
<1>3. Down(p, p) + n < Quads /\ Down(p, p) + n = n
  <2>1. Down(p, p) = 0
    BY <1>2, DownIs
  <2> QED BY <1>2, <2>1, SizesAre DEF Reach
<1>4. Down(Up(p, n), p) = n
  <2>1. n \in 0..3
    BY <1>2 DEF Reach
  <2> QED BY <1>2, <1>3, <2>1, Forth
<1> QED BY <1>1, <1>2, <1>4, BehindIs DEF p

(* RETW: the caller's window is the newest again.                          *)
LEMMA PopHolds ==
  ASSUME NEW c, NEW e, NEW F, NEW T, NEW o, Held(c, F, T, o), Len(F) > 1, o < Len(F),
         NEW n, n = IncOf(F, Len(F) - 1),
         e.wb = Behind(c, n), e.ws = c.ws \ {c.wb}, e.mem = c.mem, e.quad = c.quad
  PROVE  Held(e, WithInc(Front(F), 0), T, o)
<1> DEFINE G == WithInc(Front(F), 0)
           l == Len(F) - 1
           b == e.wb
<1>0. Chain(F, T) /\ Ring(c, F, o) /\ InWindows(c, F, T, o) /\ InMemory(c, F, T, o)
  BY DEF Held
<1>1. /\ Len(F) \in Nat /\ l \in 1..Len(F) /\ l \in 0..Len(F) /\ l + 1 = Len(F) /\ l < Len(F)
      /\ o \in 0..l /\ l \in o..Len(F) /\ o \in o..Len(F) /\ c.wb = BaseOf(F, Len(F))
      /\ Down(c.wb, BaseOf(F, Len(F))) = 0 /\ o \in Nat /\ l \in Nat
  <2>1. /\ Len(F) \in Nat /\ o \in 0..Len(F) /\ c.wb = BaseOf(F, Len(F))
        /\ Down(c.wb, BaseOf(F, Len(F))) = 0
    BY <1>0, RingIs DEF Ring
  <2> QED BY <2>1
<1>2. n \in Reach /\ b = BaseOf(F, l)
  BY <1>0, CallerIs
<1>a. l = Len(F) - 1
  OBVIOUS
<1> HIDE DEF l
<1>3. /\ Chain(G, T) /\ Len(G) = l /\ Alike(F, G, l) /\ IncOf(G, l) = 0
  <2>1. /\ Chain(Front(F), T) /\ Len(Front(F)) = l /\ Front(F) # <<>>
        /\ \A i \in 1..l : Front(F)[i] = F[i]
    BY <1>0, <1>a, FrontChain
  <2>2. Chain(G, T) /\ Len(G) = l /\ Alike(Front(F), G, l) /\ IncOf(G, l) = 0
    <3>1. 0 \in 0..3
      OBVIOUS
    <3> QED BY <2>1, <3>1, WithIncIs
  <2> HIDE DEF G
  <2>3. Alike(F, G, l)
    <3>1. \A i \in 1..(l - 1) : i \in 1..l
      BY <1>1
    <3> QED BY <2>1, <2>2, <3>1 DEF Alike
  <2> QED BY <2>2, <2>3
<1> HIDE DEF G
<1>4. \A j \in o..l : /\ j \in 0..l /\ j \in o..Len(F)
                      /\ BaseOf(G, j) = BaseOf(F, j) /\ (j < l => IncOf(G, j) = IncOf(F, j))
  <2>1. \A j \in o..l : j \in 0..l /\ j \in o..Len(F)
    BY <1>1
  <2> QED BY <1>1, <1>3, <2>1, AlikeIs
<1>5. ASSUME NEW j \in o..l
      PROVE  /\ n <= Down(c.wb, BaseOf(F, j)) /\ Down(c.wb, BaseOf(F, j)) \in 0..(Quads - 1)
             /\ Down(b, BaseOf(F, j)) = Down(c.wb, BaseOf(F, j)) - n
             /\ BaseOf(F, j) # c.wb
  <2>1. j \in o..Len(F) /\ Len(F) \in o..Len(F) /\ j < Len(F)
    BY <1>1, <1>4
  <2>2. BaseOf(F, j) \in Places /\ c.wb \in Places
    BY <1>0, <2>1, RingIs
  <2>3. Down(c.wb, BaseOf(F, j)) \in 0..(Quads - 1)
    BY <2>2, DownIs
  <2>4. Down(c.wb, BaseOf(F, l)) = n
    BY <1>2, <2>2, BehindIs
  <2>5. n <= Down(c.wb, BaseOf(F, j))
    <3>1. CASE j = l
      BY <1>2, <2>4, <3>1 DEF Reach
    <3>2. CASE j # l
      <4>1. j < l
        BY <1>1, <3>2
      <4>2. Down(c.wb, BaseOf(F, l)) + IncOf(F, j) <= Down(c.wb, BaseOf(F, j))
        BY <1>0, <1>1, <2>1, <4>1 DEF Ring
      <4>3. IncOf(F, j) \in Reach
        BY <1>0, <2>1, RingIs
      <4> QED BY <1>2, <2>3, <2>4, <4>2, <4>3 DEF Reach
    <3> QED BY <3>1, <3>2
  <2>6. Down(b, BaseOf(F, j)) = Down(c.wb, BaseOf(F, j)) - n
    BY <1>2, <2>2, <2>5, BehindIs
  <2>7. BaseOf(F, j) # c.wb
    BY <1>1, <1>2, <2>3, <2>5 DEF Reach
  <2> QED BY <2>3, <2>5, <2>6, <2>7
<1>6. Ring(e, G, o)
  <2>1. b = BaseOf(G, Len(G)) /\ o \in 0..Len(G)
    <3>1. l \in o..l
      BY <1>1
    <3> QED BY <1>1, <1>2, <1>3, <1>4, <3>1
  <2>2. e.ws = {BaseOf(G, j) : j \in o..Len(G)}
    <3>1. c.ws = {BaseOf(F, j) : j \in o..Len(F)}
      BY <1>0 DEF Ring
    <3>2. \A j \in o..Len(F) : j \in o..l \/ j = Len(F)
      BY <1>1
    <3>3. c.ws \ {c.wb} = {BaseOf(F, j) : j \in o..l}
      <4>1. \A j \in o..l : j \in o..Len(F) /\ BaseOf(F, j) # c.wb
        BY <1>4, <1>5
      <4>2. BaseOf(F, Len(F)) = c.wb
        BY <1>1
      <4> QED BY <3>1, <3>2, <4>1, <4>2
    <3> QED BY <1>3, <1>4, <3>3
  <2>3. ASSUME NEW i \in o..l, NEW j \in o..l, i < j
        PROVE  Down(b, BaseOf(G, j)) + IncOf(G, i) <= Down(b, BaseOf(G, i))
    <3> DEFINE x == Down(c.wb, BaseOf(F, i))
               y == Down(c.wb, BaseOf(F, j))
               z == IncOf(F, i)
    <3>1. i < l
      BY <1>1, <2>3
    <3>2. y + z <= x
      BY <1>0, <1>4, <2>3 DEF Ring
    <3>3. x \in Nat /\ y \in Nat
      BY <1>5
    <3>4. z \in Nat
      <4>1. z \in 0..3
        BY <1>0, <1>1, <1>4, ChainIs
      <4> QED BY <4>1
    <3>5. n \in Nat
      BY <1>2 DEF Reach
    <3>6. Down(b, BaseOf(G, j)) = y - n /\ Down(b, BaseOf(G, i)) = x - n /\ IncOf(G, i) = z
      BY <1>4, <1>5, <3>1
    <3> HIDE DEF x, y, z
    <3>7. (y - n) + z <= x - n
      BY <3>2, <3>3, <3>4, <3>5
    <3> QED BY <3>6, <3>7
  <2>4. Down(b, BaseOf(G, o)) + IncOf(G, l) < Quads
    <3>1. o \in o..l
      BY <1>1
    <3>2. Down(b, BaseOf(G, o)) = Down(c.wb, BaseOf(F, o)) - n
      BY <1>4, <1>5, <3>1
    <3>3. Down(c.wb, BaseOf(F, o)) \in 0..(Quads - 1)
      BY <1>5, <3>1
    <3> QED BY <1>2, <1>3, <3>2, <3>3, SizesAre DEF Reach
  <2> QED BY <1>3, <2>1, <2>2, <2>3, <2>4 DEF Ring
<1>7. ASSUME NEW j \in o..l
      PROVE  /\ HasBase(e.quad[BaseOf(G, j)], G, T, j)
             /\ \A k \in 1..(IncOf(G, j) - 1) : HasExtra(e.quad[Up(BaseOf(G, j), k)], G, j, k)
  <2>1. /\ HasBase(e.quad[BaseOf(G, j)], G, T, j)
        /\ j < l => \A k \in 1..(IncOf(G, j) - 1) :
                      HasExtra(e.quad[Up(BaseOf(G, j), k)], G, j, k)
    BY <1>0, <1>1, <1>3, WindowCarries
  <2>2. CASE j = l
    BY <1>3, <2>1, <2>2
  <2>3. CASE j # l
    <3>1. j < l
      BY <1>1, <2>3
    <3> QED BY <2>1, <3>1
  <2> QED BY <2>2, <2>3
<1>8. InMemory(e, G, T, o)
  <2>1. o \in Nat /\ o <= l /\ l \in Nat
    BY <1>1
  <2> QED BY <1>0, <1>3, <2>1, MemoryCarries
<1> QED BY <1>3, <1>6, <1>7, <1>8 DEF Held, InWindows, G

(* What the newest window says of its caller, wherever that one is.        *)
LEMMA NewestIs ==
  ASSUME NEW c, NEW F, NEW T \in Nat, NEW o, Held(c, F, T, o), F # <<>>
  PROVE  /\ c.quad[c.wb].ret = F[Len(F)].ret /\ c.quad[c.wb].sp = T - 3 * Len(F)
         /\ c.quad[c.wb].ret.inc = IncOf(F, Len(F) - 1)
         /\ Len(F) > 1 => c.quad[c.wb].ret.pc = Body(F[Len(F) - 1].serial)
<1>0. Chain(F, T) /\ Ring(c, F, o) /\ InWindows(c, F, T, o)
  BY DEF Held
<1>1. Len(F) \in Nat \ {0} /\ Len(F) \in o..Len(F) /\ c.wb = BaseOf(F, Len(F))
  <2>1. F \in Seq(Frame) /\ o \in 0..Len(F) /\ c.wb = BaseOf(F, Len(F))
    BY <1>0, ChainIs DEF Ring
  <2>2. Len(F) \in Nat \ {0}
    BY <2>1
  <2> QED BY <2>1, <2>2
<1>2. HasBase(c.quad[c.wb], F, T, Len(F))
  BY <1>0, <1>1 DEF InWindows
<1>3. Len(F) - 1 \in 0..(Len(F) - 1) /\ (Len(F) - 1) + 1 = Len(F)
  BY <1>1
<1>4. F[Len(F)].ret.inc = IncOf(F, Len(F) - 1)
      /\ (Len(F) - 1 > 0 => F[Len(F)].ret.pc = Body(F[Len(F) - 1].serial))
  BY <1>0, <1>3 DEF Chain
<1> QED BY <1>1, <1>2, <1>4 DEF HasBase

(* What an underflow reads back, and where it puts it.                     *)
LEMMA FilledIs ==
  ASSUME NEW c, c.wb \in Places, NEW n \in Reach,
         NEW q, q = Load(c, c.quad[c.wb].sp - 1), NEW above, above = Load(c, q.sp - 1).sp
  PROVE  /\ Filled(c, n) = [p \in Places |-> Filled(c, n)[p]]
         /\ Filled(c, n)[Behind(c, n)] = q
         /\ \A k \in 1..(n - 1) : Filled(c, n)[Up(Behind(c, n), k)] = Load(c, above - Extra(n, k))
         /\ \A p \in Places : p = c.wb => Filled(c, n)[p] = c.quad[p]
         /\ \A p \in Places : \/ Filled(c, n)[p] = c.quad[p]
                              \/ \E a : Filled(c, n)[p] = Load(c, a)
<1> DEFINE b == Behind(c, n)
           kOf(p) == {k \in 0..(n - 1) : p = Up(b, k)}
           new(p) == IF kOf(p) = {} THEN c.quad[p]
                     ELSE IF kOf(p) = {0} THEN q ELSE Load(c, above - Extra(n, Min(kOf(p))))
<1>1. Filled(c, n) = [p \in Places |-> new(p)]
  BY DEF Filled, Places, Up
<1>2. b \in Places /\ n \in 1..3 /\ Up(b, n) = c.wb /\ Down(c.wb, b) = n
  BY BehindIs DEF Reach
<1> HIDE DEF b
<1>3. ASSUME NEW k \in 0..(n - 1) PROVE Up(b, k) \in Places /\ Down(c.wb, Up(b, k)) = n - k
  <2>1. k \in 0..3 /\ k <= n
    BY <1>2
  <2> QED BY <1>2, <2>1, UpIs, UpCloser
<1>4. ASSUME NEW k \in 0..(n - 1) PROVE kOf(Up(b, k)) = {k} /\ Up(b, k) # c.wb
  <2>1. ASSUME NEW j \in 0..(n - 1), Up(b, k) = Up(b, j) PROVE j = k
    <3>1. n - k = n - j
      BY <1>3, <2>1
    <3> QED BY <1>2, <3>1
  <2>2. Down(c.wb, c.wb) = 0 /\ n - k # 0
    BY <1>2, DownIs
  <2> QED BY <1>3, <2>1, <2>2
<1>5. b = Up(b, 0)
  <2>1. 0 \in 0..3 /\ b + 0 < Quads /\ b + 0 = b
    BY <1>2, SizesAre DEF Places
  <2> QED BY <1>2, <2>1, UpIs
<1>6. new(b) = q
  <2>1. 0 \in 0..(n - 1)
    BY <1>2
  <2>2. kOf(b) = {0}
    BY <1>4, <1>5, <2>1
  <2> HIDE DEF kOf
  <2> QED BY <2>2
<1>7. ASSUME NEW k \in 1..(n - 1) PROVE new(Up(b, k)) = Load(c, above - Extra(n, k))
  <2>1. k \in 0..(n - 1) /\ k # 0
    BY <1>2
  <2>2. kOf(Up(b, k)) = {k}
    BY <1>4, <2>1
  <2> HIDE DEF kOf
  <2>3. Min({k}) = k
    BY <2>1 DEF Min
  <2> QED BY <2>1, <2>2, <2>3
<1>8. new(c.wb) = c.quad[c.wb]
  <2>1. kOf(c.wb) = {}
    BY <1>4
  <2> HIDE DEF kOf
  <2> QED BY <2>1
<1>9. \A p \in Places : new(p) = c.quad[p] \/ \E a : new(p) = Load(c, a)
  <2> HIDE DEF kOf
  <2> QED OBVIOUS
<1>10. \A k \in 1..(n - 1) : k \in 0..(n - 1)
  BY <1>2
<1> HIDE DEF new
<1> QED BY <1>1, <1>2, <1>3, <1>6, <1>7, <1>8, <1>9, <1>10 DEF b

(* The underflow: the caller of the only frame in the file comes back.     *)
LEMMA FillHolds ==
  ASSUME NEW c, NEW e, NEW F, NEW T \in Nat, Held(c, F, T, Len(F)), Len(F) > 1,
         IncOf(F, Len(F)) = 0, NEW n, n = IncOf(F, Len(F) - 1),
         e.wb = c.wb, e.ws = c.ws \cup {Behind(c, n)}, e.mem = c.mem, e.quad = Filled(c, n)
  PROVE  Held(e, F, T, Len(F) - 1)
<1> DEFINE m == Len(F)
           l == m - 1
           q == Load(c, c.quad[c.wb].sp - 1)
           above == Load(c, q.sp - 1).sp
<1>0. Chain(F, T) /\ Ring(c, F, m) /\ InWindows(c, F, T, m) /\ InMemory(c, F, T, m)
  BY DEF Held
<1>1. /\ m \in Nat /\ m > 1 /\ F # <<>> /\ l \in Nat /\ l \in 1..(m - 1) /\ l + 1 = m
      /\ c.wb \in Places /\ c.wb = BaseOf(F, m) /\ Down(c.wb, BaseOf(F, m)) = 0 /\ m \in m..m
  <2>1. /\ m \in Nat /\ c.wb \in Places /\ c.wb = BaseOf(F, m) /\ Down(c.wb, BaseOf(F, m)) = 0
    BY <1>0, RingIs DEF Ring
  <2>2. F # <<>>
    BY <2>1
  <2> QED BY <2>1, <2>2
<1>2. n \in Reach /\ n \in 1..3 /\ Behind(c, n) = BaseOf(F, l) /\ BaseOf(F, l) \in Places
  <2>1. l \in 0..m
    BY <1>1
  <2> QED BY <1>0, <2>1, CallerIs, ChainIs DEF Reach
<1>3. Down(c.wb, BaseOf(F, l)) = n
  BY <1>1, <1>2, BehindIs
<1>4. c.quad[c.wb].sp - 1 = BaseArea(T, l)
  <2>1. c.quad[c.wb].sp = T - 3 * m
    BY <1>1, NewestIs
  <2> QED BY <1>1, <2>1 DEF BaseArea
<1>5. HasBase(q, F, T, l)
  <2>1. l \in 0..(m - 1)
    BY <1>1
  <2> QED BY <1>0, <1>4, <2>1 DEF InMemory
<1>6. above = T - 3 * (l - 1)
  <2>1. l - 1 \in 0..(m - 1)
    BY <1>1
  <2>2. q.sp - 1 = BaseArea(T, l - 1)
    <3>1. q.sp = T - 3 * l
      BY <1>5 DEF HasBase
    <3> HIDE DEF q, l
    <3> QED BY <1>1, <3>1 DEF BaseArea
  <2>3. HasBase(Load(c, q.sp - 1), F, T, l - 1)
    BY <1>0, <2>1, <2>2 DEF InMemory
  <2> QED BY <2>3 DEF HasBase
<1>7. /\ e.quad[BaseOf(F, l)] = q /\ e.quad[c.wb] = c.quad[c.wb]
      /\ \A k \in 1..(n - 1) : e.quad[Up(BaseOf(F, l), k)] = Load(c, above - Extra(n, k))
  BY <1>1, <1>2, FilledIs
<1> HIDE DEF q, above, l, m
<1>8. l..m = {l, m}
  BY <1>1
<1>9. IncOf(F, l) = n /\ IncOf(F, m) = 0
  BY DEF l, m
<1>10. Ring(e, F, l)
  <2>1. l \in 0..m /\ e.wb = BaseOf(F, m)
    BY <1>1
  <2>2. e.ws = {BaseOf(F, j) : j \in l..m}
    <3>1. c.ws = {BaseOf(F, j) : j \in m..m} /\ m..m = {m}
      BY <1>0, <1>1 DEF Ring, m
    <3> QED BY <1>2, <1>8, <3>1
  <2>3. \A i, j \in l..m : i < j => Down(e.wb, BaseOf(F, j)) + IncOf(F, i) <= Down(e.wb, BaseOf(F, i))
    BY <1>1, <1>2, <1>3, <1>8, <1>9
  <2>4. Down(e.wb, BaseOf(F, l)) + IncOf(F, m) < Quads
    BY <1>1, <1>2, <1>3, <1>9, SizesAre
  <2> QED BY <2>1, <2>2, <2>3, <2>4 DEF Ring, m
<1>11. InWindows(e, F, T, l)
  <2>1. HasBase(e.quad[BaseOf(F, l)], F, T, l)
    BY <1>5, <1>7
  <2>2. ASSUME NEW k \in 1..(n - 1) PROVE HasExtra(e.quad[Up(BaseOf(F, l), k)], F, l, k)
    <3>1. l \in 0..(m - 1)
      BY <1>1
    <3>2. HasExtra(Load(c, ExtraArea(F, T, l, k)), F, l, k)
      BY <1>0, <1>9, <3>1 DEF InMemory
    <3>3. ExtraArea(F, T, l, k) = above - Extra(n, k)
      BY <1>6, <1>9 DEF ExtraArea
    <3> QED BY <1>7, <3>2, <3>3
  <2>3. HasBase(e.quad[BaseOf(F, m)], F, T, m)
    BY <1>0, <1>1, <1>7 DEF InWindows, m
  <2>4. 1..(0 - 1) = {}
    OBVIOUS
  <2>5. \A j \in l..Len(F) : j = l \/ j = m
    BY <1>8 DEF m
  <2> QED BY <1>9, <2>1, <2>2, <2>3, <2>4, <2>5 DEF InWindows
<1>12. InMemory(e, F, T, l)
  <2>1. \A a : Load(e, a) = Load(c, a)
    BY DEF Load
  <2>2. \A i \in 0..(l - 1) : i \in 0..(m - 1)
    BY <1>1
  <2> QED BY <1>0, <2>1, <2>2 DEF InMemory
<1> QED BY <1>0, <1>10, <1>11, <1>12 DEF Held, l, m

(* What an overflow writes of a window at b, and where.                    *)
LEMMA SpilledIs ==
  ASSUME NEW c, NEW b \in Places, NEW size \in Reach, NEW below \in Nat, NEW above \in Nat,
         below = c.quad[Up(b, size)].sp - 1, above = Load(c, c.quad[b].sp - 1).sp,
         below < above - 3
  PROVE  /\ Spilled(c, b, size) = [a \in Addresses |-> Spilled(c, b, size)[a]]
         /\ below \in Addresses => Spilled(c, b, size)[below] = c.quad[b]
         /\ \A k \in 1..(size - 1) : above - Extra(size, k) \in Addresses
              => Spilled(c, b, size)[above - Extra(size, k)] = c.quad[Up(b, k)]
         /\ \A a \in Addresses : \/ a > above - 2 \/ (a < above - 3 /\ a # below)
                                 => Spilled(c, b, size)[a] = c.mem[a]
         /\ \A a \in Addresses : \/ Spilled(c, b, size)[a] = c.mem[a]
                                 \/ Spilled(c, b, size)[a] = c.quad[b]
                                 \/ \E k \in 1..(size - 1) : Spilled(c, b, size)[a] = c.quad[Up(b, k)]
<1> DEFINE kOf(a) == {k \in 1..(size - 1) : a = above - Extra(size, k)}
           new(a) == IF kOf(a) # {} THEN c.quad[Up(b, Min(kOf(a)))]
                     ELSE IF a = below THEN c.quad[b] ELSE c.mem[a]
<1>1. Spilled(c, b, size) = [a \in Addresses |-> new(a)]
  BY DEF Spilled, Up
<1>2. size \in 1..3
  BY DEF Reach
<1>3. ASSUME NEW k \in 1..(size - 1)
      PROVE  /\ Extra(size, k) \in 2..3 /\ k \in Nat /\ k \in 1..2
             /\ \A j \in 1..(size - 1) : Extra(size, k) = Extra(size, j) => j = k
  BY <1>2 DEF Extra
<1>4. ASSUME NEW k \in 1..(size - 1) PROVE new(above - Extra(size, k)) = c.quad[Up(b, k)]
  <2>1. ASSUME NEW j \in 1..(size - 1), above - Extra(size, k) = above - Extra(size, j) PROVE j = k
    <3>1. Extra(size, k) \in 2..3 /\ Extra(size, j) \in 2..3
      BY <1>3
    <3>2. Extra(size, k) = Extra(size, j)
      BY <2>1, <3>1
    <3> QED BY <1>3, <3>2
  <2>2. kOf(above - Extra(size, k)) = {k}
    BY <2>1
  <2> HIDE DEF kOf
  <2>3. Min({k}) = k
    BY <1>3 DEF Min
  <2> QED BY <2>2, <2>3
<1>5. ASSUME NEW a \in Nat, a > above - 2 \/ a < above - 3 PROVE kOf(a) = {}
  <2> SUFFICES ASSUME NEW k \in 1..(size - 1), a = above - Extra(size, k) PROVE FALSE
    OBVIOUS
  <2>1. Extra(size, k) \in 2..3
    BY <1>3
  <2> QED BY <1>5, <2>1
<1>6. \A a \in Addresses : a \in Nat
  BY DEF Addresses
<1>7. ASSUME NEW a \in Addresses
      PROVE  \/ new(a) = c.mem[a] \/ new(a) = c.quad[b]
             \/ \E k \in 1..(size - 1) : new(a) = c.quad[Up(b, k)]
  <2>1. CASE kOf(a) = {}
    BY <2>1
  <2>2. CASE kOf(a) # {}
    <3>1. PICK k \in 1..(size - 1) : a = above - Extra(size, k)
      BY <2>2
    <3>2. new(a) = c.quad[Up(b, k)]
      BY <1>4, <3>1
    <3> QED BY <3>2
  <2> QED BY <2>1, <2>2
<1> HIDE DEF kOf
<1>8. new(below) = c.quad[b]
  <2>1. kOf(below) = {}
    BY <1>5
  <2> QED BY <2>1
<1>9. ASSUME NEW a \in Addresses, a > above - 2 \/ (a < above - 3 /\ a # below)
      PROVE  new(a) = c.mem[a]
  <2>1. kOf(a) = {} /\ a # below
    BY <1>5, <1>6, <1>9
  <2> QED BY <2>1
<1> HIDE DEF new
<1> QED BY <1>1, <1>4, <1>7, <1>8, <1>9

(* The overflow: the oldest window is in memory, and nothing it overwrites *)
(* there was of use; the top of the stack is not touched.                  *)
(* What a spill leaves alone, and what it writes.                          *)
SameAbove(e, c, x) == \A a \in Addresses : a > x => e.mem[a] = c.mem[a]
OldOrQuad(e, c) ==
  \A a \in Addresses : e.mem[a] = c.mem[a] \/ \E p \in Places : e.mem[a] = c.quad[p]

LEMMA SpillHolds ==
  ASSUME NEW c, NEW e, NEW F, NEW T \in Nat, NEW o, Held(c, F, T, o), o < Len(F),
         3 * Len(F) + 2 <= T, T <= AppTop,
         e.wb = c.wb, e.ws = c.ws \ {BaseOf(F, o)}, e.quad = c.quad,
         e.mem = Spilled(c, BaseOf(F, o), IncOf(F, o))
  PROVE  /\ Held(e, F, T, o + 1)
         /\ SameAbove(e, c, T - 2)
         /\ IsMap(e.mem, Addresses)
         /\ OldOrQuad(e, c)
<1> DEFINE m == Len(F)
           b == BaseOf(F, o)
           size == IncOf(F, o)
           below == BaseArea(T, o)
           above == IF o = 0 THEN T ELSE T - 3 * (o - 1)
<1>0. Chain(F, T) /\ Ring(c, F, o) /\ InWindows(c, F, T, o) /\ InMemory(c, F, T, o)
  BY DEF Held
<1>1. /\ m \in Nat /\ o \in Nat /\ o \in 0..m /\ o \in o..m /\ o + 1 \in o..m /\ o + 1 \in 0..m
      /\ c.wb = BaseOf(F, m) /\ b \in Places /\ size \in Reach /\ BaseOf(F, o + 1) = Up(b, size)
  <2>1. m \in Nat /\ o \in 0..m /\ c.wb = BaseOf(F, m)
    BY <1>0, RingIs DEF Ring
  <2>2. o \in Nat /\ o \in o..m /\ o + 1 \in o..m /\ o + 1 \in 0..m
    BY <2>1
  <2> QED BY <1>0, <2>1, <2>2, ChainIs
<1>2. below = T - 3 * o - 4 /\ 1 <= below /\ below \in Nat /\ below \in Addresses
  <2>1. 3 * o + 3 <= 3 * m
    BY <1>1
  <2>2. below = T - 3 * o - 4
    BY DEF BaseArea
  <2> HIDE DEF below, m
  <2>3. 1 <= below /\ below \in Nat /\ below <= AppTop
    BY <1>1, <2>1, <2>2, SizesAre DEF m
  <2> QED BY <2>2, <2>3, SizesAre DEF Addresses
<1>3. above \in Nat /\ below < above - 3 /\ above <= T /\ (o > 0 => above = T - 3 * (o - 1))
      /\ (o = 0 => above = T)
  BY <1>1, <1>2
<1>4. c.quad[Up(b, size)].sp - 1 = below
  <2>1. HasBase(c.quad[BaseOf(F, o + 1)], F, T, o + 1)
    BY <1>0, <1>1 DEF InWindows
  <2>2. c.quad[Up(b, size)].sp = T - 3 * (o + 1)
    BY <1>1, <2>1 DEF HasBase
  <2> QED BY <1>1, <1>2, <2>2
<1>5. HasBase(c.quad[b], F, T, o)
  BY <1>0, <1>1 DEF InWindows
<1>6. Load(c, c.quad[b].sp - 1).sp = above
  <2>1. c.quad[b].sp = T - 3 * o
    BY <1>5 DEF HasBase
  <2>2. CASE o = 0
    BY <1>0, <2>1, <2>2 DEF InMemory
  <2>3. CASE o # 0
    <3>1. o - 1 \in 0..(o - 1)
      BY <1>1, <2>3
    <3>2. HasBase(Load(c, BaseArea(T, o - 1)), F, T, o - 1)
      BY <1>0, <3>1 DEF InMemory
    <3>3. c.quad[b].sp - 1 = BaseArea(T, o - 1)
      BY <1>1, <2>1 DEF BaseArea
    <3> QED BY <1>1, <1>3, <2>3, <3>2, <3>3 DEF HasBase
  <2> QED BY <2>2, <2>3
<1> HIDE DEF b, size, below, above
<1>7. e.mem = Spilled(c, b, size)
  BY DEF b, size
<1>8. /\ e.mem = [a \in Addresses |-> e.mem[a]] /\ e.mem[below] = c.quad[b]
      /\ \A k \in 1..(size - 1) : above - Extra(size, k) \in Addresses
              => e.mem[above - Extra(size, k)] = c.quad[Up(b, k)]
      /\ \A a \in Addresses : \/ a > above - 2 \/ (a < above - 3 /\ a # below) => e.mem[a] = c.mem[a]
      /\ \A a \in Addresses : \/ e.mem[a] = c.mem[a] \/ e.mem[a] = c.quad[b]
                              \/ \E k \in 1..(size - 1) : e.mem[a] = c.quad[Up(b, k)]
  <2>1. b \in Places /\ size \in Reach /\ below \in Nat /\ above \in Nat /\ below < above - 3
        /\ below = c.quad[Up(b, size)].sp - 1 /\ above = Load(c, c.quad[b].sp - 1).sp
    BY <1>1, <1>2, <1>3, <1>4, <1>6
  <2>2. /\ Spilled(c, b, size) = [a \in Addresses |-> Spilled(c, b, size)[a]]
        /\ below \in Addresses => Spilled(c, b, size)[below] = c.quad[b]
        /\ \A k \in 1..(size - 1) : above - Extra(size, k) \in Addresses
              => Spilled(c, b, size)[above - Extra(size, k)] = c.quad[Up(b, k)]
        /\ \A a \in Addresses : \/ a > above - 2 \/ (a < above - 3 /\ a # below)
                                => Spilled(c, b, size)[a] = c.mem[a]
        /\ \A a \in Addresses : \/ Spilled(c, b, size)[a] = c.mem[a]
                                \/ Spilled(c, b, size)[a] = c.quad[b]
                                \/ \E k \in 1..(size - 1) : Spilled(c, b, size)[a] = c.quad[Up(b, k)]
    BY <2>1, SpilledIs
  <2> QED BY <1>2, <1>7, <2>2
<1>9. \A a \in Addresses : e.mem[a] = c.mem[a] \/ \E p \in Places : e.mem[a] = c.quad[p]
  <2>1. \A k \in 1..(size - 1) : Up(b, k) \in Places
    <3>1. \A k \in 1..(size - 1) : k \in 0..3
      BY <1>1 DEF Reach
    <3> QED BY <1>1, <3>1, UpIs
  <2> QED BY <1>1, <1>8, <2>1
<1>10. \A a \in Addresses : a > T - 2 => e.mem[a] = c.mem[a]
  <2>1. \A a \in Addresses : a \in Nat /\ (a > T - 2 => a > above - 2)
    BY <1>3 DEF Addresses
  <2> QED BY <1>8, <2>1
<1>11. \A a : a \in Int /\ (a > above - 2 \/ (a < above - 3 /\ a # below)) => Load(e, a) = Load(c, a)
  BY <1>8 DEF Load
<1>12. Ring(e, F, o + 1)
  <2>1. \A j \in (o + 1)..m : j \in o..m /\ o < j
    BY <1>1
  <2>2. o..m = {o} \cup ((o + 1)..m)
    BY <1>1
  <2>3. \A j \in (o + 1)..m : BaseOf(F, j) # b
    <3> SUFFICES ASSUME NEW j \in (o + 1)..m, BaseOf(F, j) = b PROVE FALSE
      OBVIOUS
    <3>1. Down(c.wb, b) + size <= Down(c.wb, b)
      <4>1. Down(c.wb, BaseOf(F, j)) + IncOf(F, o) <= Down(c.wb, BaseOf(F, o))
        BY <1>0, <1>1, <2>1 DEF Ring
      <4> QED BY <4>1 DEF b, size
    <3>2. Down(c.wb, b) \in 0..(Quads - 1)
      BY <1>0, <1>1, RingIs, DownIs
    <3> QED BY <1>1, <3>1, <3>2 DEF Reach
  <2>4. e.ws = {BaseOf(F, j) : j \in (o + 1)..m}
    <3>1. c.ws = {BaseOf(F, j) : j \in o..m} /\ e.ws = c.ws \ {b} /\ BaseOf(F, o) = b
      BY <1>0 DEF Ring, b
    <3> QED BY <2>2, <2>3, <3>1
  <2>5. Down(e.wb, BaseOf(F, o + 1)) + IncOf(F, m) < Quads
    <3>1. /\ Down(c.wb, BaseOf(F, o + 1)) \in 0..Down(c.wb, BaseOf(F, o))
          /\ Down(c.wb, BaseOf(F, o)) \in 0..(Quads - 1)
      BY <1>0, <1>1, RingIs, DownIs
    <3>2. IncOf(F, m) \in 0..3
      <4>1. m \in 0..m
        BY <1>1
      <4> QED BY <1>0, <4>1, ChainIs
    <3>3. Down(c.wb, BaseOf(F, o)) + IncOf(F, m) < Quads
      BY <1>0 DEF Ring
    <3> HIDE DEF m
    <3> QED BY <3>1, <3>2, <3>3, SizesAre
  <2> QED BY <1>0, <1>1, <2>1, <2>4, <2>5 DEF Ring
<1>13. InWindows(e, F, T, o + 1)
  <2>1. \A j \in (o + 1)..m : j \in o..m
    BY <1>1
  <2> QED BY <1>0, <2>1 DEF InWindows
<1>14. ASSUME NEW i \in 0..o
       PROVE  /\ HasBase(Load(e, BaseArea(T, i)), F, T, i)
              /\ \A k \in 1..(IncOf(F, i) - 1) : HasExtra(Load(e, ExtraArea(F, T, i, k)), F, i, k)
  <2>1. CASE i = o
    <3>1. Load(e, BaseArea(T, o)) = c.quad[b]
      BY <1>2, <1>8 DEF Load, below
    <3>2. ASSUME NEW k \in 1..(size - 1), o > 0
          PROVE  HasExtra(Load(e, ExtraArea(F, T, o, k)), F, o, k)
      <4>1. ExtraArea(F, T, o, k) = above - Extra(size, k) /\ Extra(size, k) \in 2..3
        <5>1. Extra(size, k) \in 2..3
          BY <1>1, <3>2 DEF Extra, Reach
        <5>2. ExtraArea(F, T, o, k) = T - 3 * (o - 1) - Extra(size, k)
          BY DEF ExtraArea, size
        <5> QED BY <1>3, <3>2, <5>1, <5>2
      <4>2. above - Extra(size, k) \in Addresses
        <5> DEFINE x == Extra(size, k)
        <5>1. x \in 2..3
          BY <4>1
        <5> HIDE DEF x
        <5>2. above - x \in Nat /\ above - x >= 1 /\ above - x <= AppTop
          BY <1>2, <1>3, <5>1, SizesAre
        <5> QED BY <5>2, SizesAre DEF Addresses, x
      <4>3. HasExtra(c.quad[Up(b, k)], F, o, k)
        BY <1>0, <1>1 DEF InWindows, b, size
      <4> QED BY <1>8, <4>1, <4>2, <4>3 DEF Load
    <3>3. ~ (o > 0) => \A q, k : HasExtra(q, F, o, k)
      BY DEF HasExtra
    <3>4. IncOf(F, o) = size
      BY DEF size
    <3> QED BY <1>5, <2>1, <3>1, <3>2, <3>3, <3>4
  <2>2. CASE i # o
    <3>1. i \in 0..(o - 1) /\ i < o /\ i \in Nat
      BY <1>1, <2>2
    <3>2. /\ HasBase(Load(c, BaseArea(T, i)), F, T, i)
          /\ \A k \in 1..(IncOf(F, i) - 1) : HasExtra(Load(c, ExtraArea(F, T, i, k)), F, i, k)
      BY <1>0, <3>1 DEF InMemory
    <3>3. Load(e, BaseArea(T, i)) = Load(c, BaseArea(T, i))
      <4>1. BaseArea(T, i) = T - 3 * i - 4 /\ BaseArea(T, i) \in Int
        <5>1. BaseArea(T, i) = T - 3 * i - 4
          BY DEF BaseArea
        <5>2. T - 3 * i - 4 \in Int
          BY <3>1
        <5> QED BY <5>1, <5>2
      <4>2. above = T - 3 * (o - 1)
        <5>1. o > 0
          BY <1>1, <3>1
        <5> QED BY <1>3, <5>1
      <4>3. CASE i = o - 1
        <5>1. BaseArea(T, i) = above - 4 /\ BaseArea(T, i) = below + 3
          BY <1>1, <1>2, <4>1, <4>2, <4>3
        <5>2. BaseArea(T, i) < above - 3 /\ BaseArea(T, i) # below
          BY <1>2, <1>3, <5>1
        <5> QED BY <1>11, <4>1, <5>2
      <4>4. CASE i # o - 1
        <5>1. 3 * i <= 3 * o - 6
          BY <1>1, <3>1, <4>4
        <5>2. BaseArea(T, i) > above - 2
          BY <1>1, <3>1, <4>1, <4>2, <5>1
        <5> QED BY <1>11, <4>1, <5>2
      <4> QED BY <4>3, <4>4
    <3>4. ASSUME NEW k \in 1..(IncOf(F, i) - 1), i > 0
          PROVE  Load(e, ExtraArea(F, T, i, k)) = Load(c, ExtraArea(F, T, i, k))
      <4>1. IncOf(F, i) \in 0..3
        <5>1. i \in 0..m
          BY <1>1, <3>1
        <5> QED BY <1>0, <5>1, ChainIs
      <4>2. Extra(IncOf(F, i), k) \in 2..3
        BY <4>1 DEF Extra
      <4>3. above = T - 3 * (o - 1) /\ 3 * i <= 3 * o - 3
        BY <1>1, <1>3, <3>1
      <4>4. ExtraArea(F, T, i, k) = T - 3 * (i - 1) - Extra(IncOf(F, i), k)
        BY DEF ExtraArea
      <4>5. ExtraArea(F, T, i, k) \in Int /\ ExtraArea(F, T, i, k) > above - 2
        <5> DEFINE x == Extra(IncOf(F, i), k)
        <5>1. x \in 2..3 /\ ExtraArea(F, T, i, k) = T - 3 * (i - 1) - x
          BY <4>2, <4>4
        <5> HIDE DEF x
        <5> QED BY <1>1, <3>1, <4>3, <5>1
      <4> QED BY <1>11, <4>5
    <3>5. ~ (i > 0) => \A q, k : HasExtra(q, F, i, k)
      BY DEF HasExtra
    <3> QED BY <3>2, <3>3, <3>4, <3>5
  <2> QED BY <2>1, <2>2
<1>15. Load(e, T - 1).sp = T
  <2>1. T - 1 \in Int /\ T - 1 > above - 2
    BY <1>3
  <2> QED BY <1>0, <1>11, <2>1 DEF InMemory
<1>16. InMemory(e, F, T, o + 1)
  <2>1. (o + 1) - 1 = o
    BY <1>1
  <2> QED BY <1>14, <1>15, <2>1 DEF InMemory
<1> QED BY <1>0, <1>8, <1>9, <1>10, <1>12, <1>13, <1>16 DEF Held, IsMap, SameAbove, OldOrQuad

(* One quad is written.                                                    *)
Put(c, p, q) == [c EXCEPT !.quad[p] = q]

LEMMA PutIs ==
  ASSUME NEW c, IsFile(c), NEW p \in Places, NEW q, IsQuad(q)
  PROVE  /\ IsFile(Put(c, p, q)) /\ Put(c, p, q).quad[p] = q
         /\ \A r \in Places : r # p => Put(c, p, q).quad[r] = c.quad[r]
         /\ Put(c, p, q).wb = c.wb /\ Put(c, p, q).ws = c.ws /\ Put(c, p, q).mem = c.mem
<1> DEFINE f == [c.quad EXCEPT ![p] = q]
           e == Put(c, p, q)
<1>1. /\ c = [quad |-> c.quad, wb |-> c.wb, ws |-> c.ws, mem |-> c.mem]
      /\ c.quad = [r \in Places |-> c.quad[r]] /\ \A r \in Places : IsQuad(c.quad[r])
      /\ c.wb \in Places
      /\ c.mem = [a \in Addresses |-> c.mem[a]] /\ \A a \in Addresses : IsQuad(c.mem[a])
  BY DEF IsFile
<1>2. /\ f = [r \in Places |-> f[r]] /\ f[p] = q
      /\ \A r \in Places : r # p => f[r] = c.quad[r]
  BY <1>1
<1>3. e = [c EXCEPT !.quad = f]
  BY DEF Put
<1> HIDE DEF f, e
<1>4. /\ e = [quad |-> e.quad, wb |-> e.wb, ws |-> e.ws, mem |-> e.mem]
      /\ e.quad = f /\ e.wb = c.wb /\ e.ws = c.ws /\ e.mem = c.mem
  BY <1>1, <1>3
<1>5. \A r \in Places : IsQuad(f[r])
  BY <1>1, <1>2
<1> QED BY <1>1, <1>2, <1>4, <1>5 DEF IsFile, e

LEMMA QuadIs ==
  ASSUME NEW q, IsQuad(q), NEW x
  PROVE  /\ IsQuad([q EXCEPT !.ret = x]) /\ [q EXCEPT !.ret = x].ret = x
         /\ [q EXCEPT !.ret = x].sp = q.sp /\ [q EXCEPT !.ret = x].val = q.val
         /\ IsQuad([q EXCEPT !.val = x]) /\ [q EXCEPT !.val = x].val = x
         /\ [q EXCEPT !.val = x].sp = q.sp /\ [q EXCEPT !.val = x].ret = q.ret
         /\ IsQuad([q EXCEPT !.sp = x]) /\ [q EXCEPT !.sp = x].sp = x
         /\ [q EXCEPT !.sp = x].ret = q.ret /\ [q EXCEPT !.sp = x].val = q.val
BY DEF IsQuad

LEMMA CalledIs ==
  ASSUME NEW c, IsFile(c), NEW n \in Reach, NEW w, NEW e, e = Called(c, n, w)
  PROVE  /\ IsFile(e) /\ e.wb = c.wb /\ e.ws = c.ws /\ e.mem = c.mem
         /\ \A p \in Places : p # Up(c.wb, n) => e.quad[p] = c.quad[p]
         /\ e.quad[Up(c.wb, n)].ret = w /\ e.quad[Up(c.wb, n)].val = c.quad[Up(c.wb, n)].val
<1> DEFINE p == Up(c.wb, n)
<1>1. p \in Places /\ Ahead(c, n) = p /\ IsQuad(c.quad[p])
  BY AheadIs DEF IsFile, Reach
<1> HIDE DEF p
<1> DEFINE q == [c.quad[p] EXCEPT !.ret = w]
<1>2. e = Put(c, p, q)
  BY <1>1, Zenon DEF Called, Put
<1>3. IsQuad(q) /\ q.ret = w /\ q.val = c.quad[p].val
  BY <1>1 DEF IsQuad
<1> HIDE DEF q
<1>4. /\ IsFile(e) /\ e.wb = c.wb /\ e.ws = c.ws /\ e.mem = c.mem /\ e.quad[p] = q
      /\ \A r \in Places : r # p => e.quad[r] = c.quad[r]
  BY <1>1, <1>2, <1>3, PutIs
<1> QED BY <1>3, <1>4 DEF p

LEMMA ResultIs ==
  ASSUME NEW c, IsFile(c), NEW n \in Reach, NEW e, e = ResultAt(c, n)
  PROVE  /\ IsFile(e) /\ e.wb = c.wb /\ e.ws = c.ws /\ e.mem = c.mem
         /\ \A p \in Places : p # Up(c.wb, n) => e.quad[p] = c.quad[p]
<1> DEFINE p == Up(c.wb, n)
<1>1. p \in Places /\ Ahead(c, n) = p /\ IsQuad(c.quad[p])
  BY AheadIs DEF IsFile, Reach
<1> HIDE DEF p
<1> DEFINE q == [c.quad[p] EXCEPT !.val = Result]
<1>2. e = Put(c, p, q)
  BY <1>1, Zenon DEF ResultAt, Put
<1>3. IsQuad(q) /\ q.val = Result
  BY <1>1 DEF IsQuad
<1> HIDE DEF q
<1>4. /\ IsFile(e) /\ e.wb = c.wb /\ e.ws = c.ws /\ e.mem = c.mem /\ e.quad[p] = q
      /\ \A r \in Places : r # p => e.quad[r] = c.quad[r]
  BY <1>1, <1>2, <1>3, PutIs
<1> QED BY <1>3, <1>4 DEF p

(* Other quads, by one function.                                           *)
LEMMA QuadsAre ==
  ASSUME NEW c, IsFile(c), NEW f, f = [p \in Places |-> f[p]], \A p \in Places : IsQuad(f[p]),
         NEW e, e = [c EXCEPT !.quad = f]
  PROVE  IsFile(e) /\ e.quad = f /\ e.wb = c.wb /\ e.ws = c.ws /\ e.mem = c.mem
<1>1. /\ e = [quad |-> e.quad, wb |-> e.wb, ws |-> e.ws, mem |-> e.mem]
      /\ e.quad = f /\ e.wb = c.wb /\ e.ws = c.ws /\ e.mem = c.mem
  BY DEF IsFile
<1> QED BY <1>1 DEF IsFile

LEMMA KeptIs ==
  ASSUME NEW c, IsFile(c), NEW n \in Reach, NEW s, NEW e, e = Keep(c, s, n)
  PROVE  /\ IsFile(e) /\ e.wb = c.wb /\ e.ws = c.ws /\ e.mem = c.mem
         /\ \A p \in Places : (\A k \in 1..(n - 1) : p # Up(c.wb, k)) => e.quad[p] = c.quad[p]
         /\ \A k \in 1..(n - 1) : e.quad[Up(c.wb, k)].val = Own(s, k)
<1> DEFINE ks(p) == {k \in 1..(n - 1) : p = Up(c.wb, k)}
           new(p) == IF ks(p) = {} THEN c.quad[p] ELSE [c.quad[p] EXCEPT !.val = Own(s, Min(ks(p)))]
           f == [p \in Places |-> new(p)]
<1>1. n \in 1..3 /\ c.wb \in Places /\ c.quad = [p \in Places |-> c.quad[p]]
      /\ \A p \in Places : IsQuad(c.quad[p])
  BY DEF IsFile, Reach
<1>2. DOMAIN c.quad = Places
  BY <1>1
<1>3. ASSUME NEW k \in 1..(n - 1)
      PROVE  /\ Ahead(c, k) = Up(c.wb, k) /\ Up(c.wb, k) \in Places /\ k \in Nat
             /\ Down(c.wb, Up(c.wb, k)) = Quads - k
  <2>1. k \in 1..3 /\ k \in 0..3
    BY <1>1
  <2>2. Up(c.wb, k) \in Places /\ Down(c.wb, Up(c.wb, k)) = Quads - k
    BY <1>1, <2>1, UpIs, UpCloser
  <2> QED BY <1>1, <2>1, <2>2, AheadIs
<1>4. \A p \in Places : ks(p) = {k \in 1..(n - 1) : p = Ahead(c, k)}
  BY <1>3
<1>5. e = [c EXCEPT !.quad = f]
  BY <1>2, <1>4, Zenon DEF Keep
<1>6. ASSUME NEW k \in 1..(n - 1) PROVE ks(Up(c.wb, k)) = {k}
  <2>1. ASSUME NEW j \in 1..(n - 1), Up(c.wb, j) = Up(c.wb, k) PROVE j = k
    <3>1. Quads - j = Quads - k
      BY <1>3, <2>1
    <3> QED BY <1>3, <3>1, SizesAre
  <2> QED BY <2>1
<1>7. ASSUME NEW k \in 1..(n - 1)
      PROVE  new(Up(c.wb, k)) = [c.quad[Up(c.wb, k)] EXCEPT !.val = Own(s, k)]
  <2>1. ks(Up(c.wb, k)) = {k}
    BY <1>6
  <2> HIDE DEF ks
  <2>2. Min({k}) = k
    BY <1>3 DEF Min
  <2> QED BY <2>1, <2>2
<1>8. \A p \in Places : (\A k \in 1..(n - 1) : p # Up(c.wb, k)) => new(p) = c.quad[p]
  OBVIOUS
<1>9. \A p \in Places : IsQuad(new(p))
  <2> HIDE DEF ks
  <2> QED BY <1>1, QuadIs
<1> HIDE DEF new
<1>10. f = [p \in Places |-> f[p]] /\ \A p \in Places : f[p] = new(p) /\ IsQuad(f[p])
  BY <1>9
<1> HIDE DEF f
<1>11. IsFile(e) /\ e.quad = f /\ e.wb = c.wb /\ e.ws = c.ws /\ e.mem = c.mem
  BY <1>5, <1>10, QuadsAre
<1>12. \A k \in 1..(n - 1) : e.quad[Up(c.wb, k)].val = Own(s, k)
  <2> SUFFICES ASSUME NEW k \in 1..(n - 1) PROVE e.quad[Up(c.wb, k)].val = Own(s, k)
    OBVIOUS
  <2>1. Up(c.wb, k) \in Places /\ IsQuad(c.quad[Up(c.wb, k)])
    BY <1>1, <1>3
  <2>2. e.quad[Up(c.wb, k)] = [c.quad[Up(c.wb, k)] EXCEPT !.val = Own(s, k)]
    BY <1>7, <1>10, <1>11, <2>1
  <2> QED BY <2>1, <2>2, QuadIs
<1> QED BY <1>8, <1>10, <1>11, <1>12

Remade(c, f, x, y) == [c EXCEPT !.quad = f, !.wb = x, !.ws = y]

LEMMA FieldsAre ==
  ASSUME NEW c, IsFile(c), NEW f, IsQuads(f), NEW x \in Places, NEW y
  PROVE  /\ IsFile(Remade(c, f, x, y)) /\ Remade(c, f, x, y).quad = f
         /\ Remade(c, f, x, y).wb = x /\ Remade(c, f, x, y).ws = y
         /\ Remade(c, f, x, y).mem = c.mem
<1> SUFFICES ASSUME NEW e, e = [c EXCEPT !.quad = f, !.wb = x, !.ws = y]
             PROVE  IsFile(e) /\ e.quad = f /\ e.wb = x /\ e.ws = y /\ e.mem = c.mem
  BY Zenon DEF Remade
<1>1. /\ e = [quad |-> e.quad, wb |-> e.wb, ws |-> e.ws, mem |-> e.mem]
      /\ e.quad = f /\ e.wb = x /\ e.ws = y /\ e.mem = c.mem
  BY DEF IsFile
<1> QED BY <1>1 DEF IsFile, IsQuads

LEMMA FirstQuad ==
  ASSUME NEW c, c.wb \in Places
  PROVE  Quad(c, 0) = c.quad[c.wb]
<1>1. Ahead(c, 0) = Up(c.wb, 0) /\ Up(c.wb, 0) = c.wb
  <2>1. 0 \in 0..3 /\ c.wb + 0 < Quads /\ c.wb + 0 = c.wb
    BY SizesAre DEF Places
  <2> QED BY <2>1, AheadIs, UpIs
<1> QED BY <1>1 DEF Quad

EnteredAs(c, n, s) == LET e == Entered(c, n) IN [e EXCEPT !.quad[e.wb].val = Own(s, 0)]

LEMMA EnteredIs ==
  ASSUME NEW c, IsFile(c), NEW n \in Reach, NEW s, NEW e, e = EnteredAs(c, n, s)
  PROVE  /\ IsFile(e) /\ e.wb = Up(c.wb, n) /\ e.ws = c.ws \cup {Up(c.wb, n)} /\ e.mem = c.mem
         /\ \A p \in Places : p # Up(c.wb, n) => e.quad[p] = c.quad[p]
         /\ e.quad[Up(c.wb, n)].ret = c.quad[Up(c.wb, n)].ret
         /\ e.quad[Up(c.wb, n)].sp = c.quad[c.wb].sp - 3
         /\ e.quad[Up(c.wb, n)].val = Own(s, 0)
         /\ Entered(c, n).wb = Up(c.wb, n)
         /\ Quad(Entered(c, n), 0).ret = c.quad[Up(c.wb, n)].ret
         /\ Quad(Entered(c, n), 0).sp = c.quad[c.wb].sp - 3
<1> DEFINE p == Up(c.wb, n)
           sp == c.quad[c.wb].sp - FrameSize
           q == [c.quad[p] EXCEPT !.sp = sp]
           f == [c.quad EXCEPT ![p] = q]
           d == Entered(c, n)
           r == [d.quad[p] EXCEPT !.val = Own(s, 0)]
<1>1. p \in Places /\ Ahead(c, n) = p /\ IsQuad(c.quad[p]) /\ c.wb \in Places
  BY AheadIs DEF IsFile, Reach
<1>2. Quad(c, 0) = c.quad[c.wb]
  BY <1>1, FirstQuad
<1>3. sp = c.quad[c.wb].sp - 3
  BY DEF FrameSize
<1> HIDE DEF p, sp
<1>4. d = Remade(c, f, p, c.ws \cup {p})
  BY <1>1, <1>2, Zenon DEF Entered, sp, Remade
<1>5. IsQuad(q) /\ q.sp = sp /\ q.ret = c.quad[p].ret
  BY <1>1 DEF IsQuad
<1>6. /\ IsQuads(f)
      /\ f[p] = q /\ \A x \in Places : x # p => f[x] = c.quad[x]
  <2>1. c.quad = [x \in Places |-> c.quad[x]] /\ \A x \in Places : IsQuad(c.quad[x])
    BY DEF IsFile
  <2> HIDE DEF q
  <2>2. f[p] = q /\ \A x \in Places : x # p => f[x] = c.quad[x]
    BY <1>1, <2>1
  <2>3. \A x \in Places : IsQuad(f[x])
    BY <1>5, <2>1, <2>2
  <2>4. f = [x \in Places |-> f[x]]
    BY <2>1
  <2> QED BY <2>2, <2>3, <2>4 DEF IsQuads
<1> HIDE DEF q, f, d
<1>7. IsFile(d) /\ d.quad = f /\ d.wb = p /\ d.ws = c.ws \cup {p} /\ d.mem = c.mem
  BY <1>1, <1>4, <1>6, FieldsAre
<1>8. d.quad[p] = q /\ Quad(d, 0) = q
  BY <1>1, <1>6, <1>7, FirstQuad
<1>9. e = Put(d, p, r)
  BY <1>7, Zenon DEF EnteredAs, Put, d
<1>10. IsQuad(r) /\ r.ret = q.ret /\ r.sp = q.sp /\ r.val = Own(s, 0)
  BY <1>5, <1>8 DEF IsQuad
<1> HIDE DEF r
<1>11. /\ IsFile(e) /\ e.wb = p /\ e.ws = c.ws \cup {p} /\ e.mem = c.mem /\ e.quad[p] = r
       /\ \A x \in Places : x # p => e.quad[x] = d.quad[x]
  <2>1. IsFile(d) /\ IsQuad(r) /\ p \in Places
    BY <1>1, <1>7, <1>10
  <2>2. IsFile(e) /\ e.quad[p] = r
    BY <1>9, <2>1, PutIs
  <2>3. e.wb = d.wb /\ e.ws = d.ws /\ e.mem = d.mem
    BY <1>9, <2>1, PutIs
  <2>4. \A x \in Places : x # p => e.quad[x] = d.quad[x]
    BY <1>9, <2>1, PutIs
  <2> QED BY <1>7, <2>2, <2>3, <2>4
<1>12. \A x \in Places : x # p => e.quad[x] = c.quad[x]
  BY <1>6, <1>7, <1>11
<1>13. Entered(c, n).wb = p /\ Quad(Entered(c, n), 0).ret = c.quad[p].ret
       /\ Quad(Entered(c, n), 0).sp = sp
  BY <1>5, <1>7, <1>8 DEF d
<1>14. e.quad[p].ret = c.quad[p].ret /\ e.quad[p].sp = sp /\ e.quad[p].val = Own(s, 0)
  BY <1>5, <1>10, <1>11
<1> QED BY <1>3, <1>11, <1>12, <1>13, <1>14 DEF p

LEMMA OverflowedHolds ==
  ASSUME NEW c, IsFile(c), NEW F, NEW T \in Nat, NEW o, Held(c, F, T, o),
         NEW n \in Reach, Owned(c, n) # {}, 3 * Len(F) + 2 <= T, T <= AppTop,
         NEW e, e = Overflowed(c, n)
  PROVE  /\ IsFile(e) /\ Held(e, F, T, o + 1) /\ o + 1 \in 0..Len(F)
         /\ e.wb = c.wb /\ e.quad = c.quad
         /\ SameAbove(e, c, T - 2)
<1>0. Chain(F, T) /\ Ring(c, F, o)
  BY DEF Held
<1>1. o < Len(F) /\ Ahead(c, Min(Owned(c, n))) = BaseOf(F, o)
  BY <1>0, RoomIs
<1>2. SizeAt(c, BaseOf(F, o)) = IncOf(F, o)
  BY <1>0, <1>1, SizeIs
<1> DEFINE M == Spilled(c, BaseOf(F, o), IncOf(F, o))
<1>3. e = [c EXCEPT !.mem = M, !.ws = c.ws \ {BaseOf(F, o)}]
  BY <1>1, <1>2 DEF Overflowed
<1> HIDE DEF M
<1>4. /\ e = [quad |-> e.quad, wb |-> e.wb, ws |-> e.ws, mem |-> e.mem]
      /\ e.mem = M /\ e.wb = c.wb /\ e.ws = c.ws \ {BaseOf(F, o)} /\ e.quad = c.quad
  BY <1>3 DEF IsFile
<1>5. /\ Held(e, F, T, o + 1)
      /\ SameAbove(e, c, T - 2)
      /\ IsMap(e.mem, Addresses)
      /\ OldOrQuad(e, c)
  <2>1. e.mem = Spilled(c, BaseOf(F, o), IncOf(F, o))
    BY <1>4 DEF M
  <2>2. Held(e, F, T, o + 1)
    BY <1>1, <1>4, <2>1, SpillHolds
  <2>3. SameAbove(e, c, T - 2)
    BY <1>1, <1>4, <2>1, SpillHolds
  <2>4. IsMap(e.mem, Addresses)
    BY <1>1, <1>4, <2>1, SpillHolds
  <2>5. OldOrQuad(e, c)
    BY <1>1, <1>4, <2>1, SpillHolds
  <2> QED BY <2>2, <2>3, <2>4, <2>5
<1>6. \A a \in Addresses : IsQuad(e.mem[a])
  BY <1>5 DEF IsFile, OldOrQuad
<1>7. IsFile(e)
  BY <1>4, <1>5, <1>6 DEF IsFile, IsMap
<1>8. o + 1 \in 0..Len(F)
  BY <1>0, <1>1, RingIs
<1> QED BY <1>4, <1>5, <1>7, <1>8

LEMMA LoadIs == ASSUME NEW c, IsFile(c) PROVE \A a : IsQuad(Load(c, a))
BY DEF IsFile, Load, IsQuad, Blank

LEMMA FilledFile ==
  ASSUME NEW c, IsFile(c), NEW n \in Reach
  PROVE  IsQuads(Filled(c, n))
<1>1. c.wb \in Places /\ \A p \in Places : IsQuad(c.quad[p])
  BY DEF IsFile
<1>2. /\ Filled(c, n) = [p \in Places |-> Filled(c, n)[p]]
      /\ \A p \in Places : \/ Filled(c, n)[p] = c.quad[p]
                           \/ \E a : Filled(c, n)[p] = Load(c, a)
  BY <1>1, FilledIs
<1> QED BY <1>1, <1>2, LoadIs DEF IsQuads

(* The caller is saved just when its window is not the oldest.             *)
LEMMA CallerSavedIs ==
  ASSUME NEW c, NEW F, NEW T \in Nat, NEW o, Held(c, F, T, o), Len(F) > 1,
         NEW n, n = Quad(c, 0).ret.inc
  PROVE  /\ n = IncOf(F, Len(F) - 1) /\ n \in Reach /\ Behind(c, n) # c.wb
         /\ Quad(c, 0).ret.pc = Body(F[Len(F) - 1].serial)
         /\ CallerSaved(c) => o = Len(F)
         /\ ~ CallerSaved(c) => o < Len(F) /\ Behind(c, n) \in c.ws
<1>0. Chain(F, T) /\ Ring(c, F, o)
  BY DEF Held
<1>1. /\ Len(F) \in Nat /\ o \in 0..Len(F) /\ c.wb \in Places /\ c.wb = BaseOf(F, Len(F))
      /\ c.ws = {BaseOf(F, j) : j \in o..Len(F)} /\ F # <<>>
  <2>1. Len(F) \in Nat /\ o \in 0..Len(F) /\ c.wb \in Places
    BY <1>0, RingIs
  <2>2. F # <<>>
    BY <2>1
  <2> QED BY <1>0, <2>1, <2>2 DEF Ring
<1>2. /\ n = IncOf(F, Len(F) - 1) /\ Quad(c, 0) = c.quad[c.wb]
      /\ Quad(c, 0).ret.pc = Body(F[Len(F) - 1].serial)
  BY <1>1, FirstQuad, NewestIs
<1>3. n \in Reach /\ Behind(c, n) = BaseOf(F, Len(F) - 1)
  BY <1>0, <1>2, CallerIs
<1>4. Behind(c, n) # c.wb
  <2>1. Down(c.wb, Behind(c, n)) = n /\ Down(c.wb, c.wb) = 0
    BY <1>1, <1>3, BehindIs, DownIs
  <2> QED BY <1>3, <2>1 DEF Reach
<1>5. CallerSaved(c) <=> Behind(c, n) \notin c.ws
  BY DEF CallerSaved
<1>6. o < Len(F) => Behind(c, n) \in c.ws
  <2>1. o < Len(F) => Len(F) - 1 \in o..Len(F)
    BY <1>1
  <2> QED BY <1>1, <1>3, <2>1
<1>7. o = Len(F) => Behind(c, n) \notin c.ws
  <2>1. Len(F)..Len(F) = {Len(F)}
    BY <1>1
  <2> QED BY <1>1, <1>4, <2>1
<1>8. o < Len(F) \/ o = Len(F)
  BY <1>1
<1> QED BY <1>2, <1>3, <1>4, <1>5, <1>6, <1>7, <1>8

LEMMA UnderflowedHolds ==
  ASSUME NEW c, IsFile(c), NEW F, NEW T \in Nat, NEW o, Held(c, F, T, o), Len(F) > 1,
         IncOf(F, Len(F)) = 0, CallerSaved(c), NEW n, n = Quad(c, 0).ret.inc,
         NEW e, e = Underflowed(c, n)
  PROVE  /\ IsFile(e) /\ Held(e, F, T, Len(F) - 1) /\ Len(F) - 1 \in 0..Len(F)
         /\ e.wb = c.wb /\ e.mem = c.mem
<1>1. n = IncOf(F, Len(F) - 1) /\ n \in Reach /\ Held(c, F, T, Len(F)) /\ c.wb \in Places
  BY CallerSavedIs DEF IsFile
<1>2. e = Remade(c, Filled(c, n), c.wb, c.ws \cup {Behind(c, n)})
  BY DEF Underflowed, IsFile, Remade
<1>3. /\ IsFile(e) /\ e.quad = Filled(c, n) /\ e.wb = c.wb
      /\ e.ws = c.ws \cup {Behind(c, n)} /\ e.mem = c.mem
  BY <1>1, <1>2, FilledFile, FieldsAre
<1>4. Held(e, F, T, Len(F) - 1)
  BY <1>1, <1>3, FillHolds
<1>5. Len(F) - 1 \in 0..Len(F)
  <2>1. Len(F) \in Nat
    BY ChainIs DEF Held
  <2> QED BY <2>1
<1> QED BY <1>3, <1>4, <1>5

LEMMA ReturnedHolds ==
  ASSUME NEW c, IsFile(c), NEW F, NEW T \in Nat, NEW o, Held(c, F, T, o), Len(F) > 1,
         ~ CallerSaved(c), NEW e, e = Returned(c)
  PROVE  /\ IsFile(e) /\ Held(e, WithInc(Front(F), 0), T, o) /\ o \in 0..(Len(F) - 1)
         /\ e.mem = c.mem
<1> DEFINE n == Quad(c, 0).ret.inc
<1>1. n = IncOf(F, Len(F) - 1) /\ n \in Reach /\ o < Len(F) /\ c.wb \in Places
  BY CallerSavedIs DEF IsFile
<1> HIDE DEF n
<1>2. e = Remade(c, c.quad, Behind(c, n), c.ws \ {c.wb})
  BY DEF Returned, IsFile, Remade, n
<1>3. Behind(c, n) \in Places
  BY <1>1, BehindIs
<1>4. /\ IsFile(e) /\ e.quad = c.quad /\ e.wb = Behind(c, n)
      /\ e.ws = c.ws \ {c.wb} /\ e.mem = c.mem
  <2>1. IsQuads(c.quad)
    BY DEF IsFile, IsQuads
  <2> QED BY <1>2, <1>3, <2>1, FieldsAre
<1>5. Held(e, WithInc(Front(F), 0), T, o)
  BY <1>1, <1>4, PopHolds
<1>6. o \in 0..(Len(F) - 1)
  <2>1. Len(F) \in Nat /\ o \in 0..Len(F)
    BY RingIs DEF Held
  <2> QED BY <1>1, <2>1
<1> QED BY <1>4, <1>5, <1>6

(* The safe return does what the underflow and RETW do.                    *)
LEMMA SafelyReturnedFile ==
  ASSUME NEW c, IsFile(c), NEW n \in Reach, n = Quad(c, 0).ret.inc, NEW e, e = SafelyReturned(c)
  PROVE  /\ IsFile(e) /\ e.wb = Behind(c, n) /\ e.mem = c.mem
         /\ e.quad = IF CallerSaved(c) THEN Filled(c, n) ELSE c.quad
         /\ e.ws = (c.ws \ {c.wb}) \cup {Behind(c, n)}
<1> DEFINE f == IF CallerSaved(c) THEN Filled(c, n) ELSE c.quad
<1>1. e = Remade(c, f, Behind(c, n), (c.ws \ {c.wb}) \cup {Behind(c, n)})
  BY DEF SafelyReturned, Remade
<1>2. IsQuads(f)
  BY FilledFile DEF IsFile, IsQuads
<1>3. Behind(c, n) \in Places
  BY BehindIs DEF IsFile
<1> HIDE DEF f
<1> QED BY <1>1, <1>2, <1>3, FieldsAre DEF f

LEMMA SafelyReturnedHolds ==
  ASSUME NEW c, IsFile(c), NEW F, NEW T \in Nat, NEW o, Held(c, F, T, o), Len(F) > 1,
         IncOf(F, Len(F)) = 0, NEW e, e = SafelyReturned(c), NEW n, n = Quad(c, 0).ret.inc
  PROVE  /\ IsFile(e) /\ e.mem = c.mem /\ e.wb = Behind(c, n)
         /\ n \in Reach /\ Quad(c, 0).ret.pc = Body(F[Len(F) - 1].serial)
         /\ \E l \in 0..(Len(F) - 1) : /\ Held(e, WithInc(Front(F), 0), T, l)
                                       /\ Down(e.wb, BaseOf(F, l)) + n < Quads
<1>1. /\ n = IncOf(F, Len(F) - 1) /\ n \in Reach /\ Behind(c, n) # c.wb
      /\ ~ CallerSaved(c) => o < Len(F) /\ Behind(c, n) \in c.ws
      /\ Quad(c, 0).ret.pc = Body(F[Len(F) - 1].serial)
  BY CallerSavedIs
<1>2. /\ IsFile(e) /\ e.wb = Behind(c, n) /\ e.mem = c.mem
      /\ e.quad = IF CallerSaved(c) THEN Filled(c, n) ELSE c.quad
      /\ e.ws = (c.ws \ {c.wb}) \cup {Behind(c, n)}
  BY <1>1, SafelyReturnedFile
<1>3. ASSUME NEW l \in 0..(Len(F) - 1), l >= o \/ l = Len(F) - 1
      PROVE  Down(e.wb, BaseOf(F, l)) + n < Quads
  <2> DEFINE m == Len(F) - 1
  <2>1. /\ Chain(F, T) /\ Ring(c, F, o) /\ Len(F) \in Nat /\ o \in 0..Len(F) /\ c.wb \in Places
        /\ m \in Nat /\ l \in Nat
    BY RingIs DEF Held
  <2>2. CASE l = m
    <3>1. e.wb = BaseOf(F, m) /\ e.wb \in Places
      BY <1>1, <1>2, <2>1, CallerIs, BehindIs
    <3>2. Down(e.wb, BaseOf(F, l)) = 0
      BY <2>2, <3>1, DownIs
    <3> QED BY <1>1, <3>2, SizesAre DEF Reach
  <2>3. CASE l # m
    <3>1. l \in o..Len(F) /\ m \in o..Len(F) /\ l < m /\ m < Len(F)
      BY <1>3, <2>1, <2>3
    <3>2. BaseOf(F, l) \in Places /\ Down(c.wb, BaseOf(F, m)) \in Nat
          /\ Down(c.wb, BaseOf(F, l)) \in Nat /\ n <= Down(c.wb, BaseOf(F, m))
      <4>1. BaseOf(F, l) \in Places /\ BaseOf(F, m) \in Places
        BY <2>1, <3>1, RingIs
      <4>2. Down(c.wb, BaseOf(F, m)) \in Nat /\ Down(c.wb, BaseOf(F, l)) \in Nat
        BY <2>1, <4>1, DownIs
      <4>3. n <= Down(c.wb, BaseOf(F, m))
        <5>1. IncOf(F, m) <= Down(c.wb, BaseOf(F, m))
          BY <2>1, <3>1, RingIs
        <5> QED BY <1>1, <5>1
      <4> QED BY <4>1, <4>2, <4>3
    <3>3. Down(c.wb, BaseOf(F, m)) + IncOf(F, l) <= Down(c.wb, BaseOf(F, l))
      BY <2>1, <3>1 DEF Ring
    <3>4. IncOf(F, l) \in Reach
      BY <2>1, <3>1, RingIs
    <3>5. n <= Down(c.wb, BaseOf(F, l)) /\ Down(c.wb, BaseOf(F, l)) < Quads
      <4>1. Down(c.wb, BaseOf(F, l)) \in 0..(Quads - 1)
        BY <2>1, <3>2, DownIs
      <4> QED BY <1>1, <3>2, <3>3, <3>4, <4>1, SizesAre DEF Reach
    <3>6. Down(e.wb, BaseOf(F, l)) = Down(c.wb, BaseOf(F, l)) - n
      BY <1>1, <1>2, <2>1, <3>2, <3>5, BehindIs
    <3> QED BY <1>1, <3>2, <3>5, <3>6, SizesAre DEF Reach
  <2> QED BY <2>2, <2>3
<1>4. CASE CallerSaved(c)
  <2> DEFINE d == Underflowed(c, n)
             l == Len(F) - 1
  <2>1. IsFile(d) /\ Held(d, F, T, l) /\ l \in 0..Len(F) /\ d.wb = c.wb /\ d.mem = c.mem
    BY <1>1, <1>4, UnderflowedHolds
  <2>2. d.quad = Filled(c, n) /\ d.ws = c.ws \cup {Behind(c, n)}
    BY DEF Underflowed, IsFile
  <2> HIDE DEF d
  <2>3. e.wb = Behind(d, n) /\ e.quad = d.quad /\ e.mem = d.mem /\ e.ws = d.ws \ {d.wb}
    BY <1>1, <1>2, <1>4, <2>1, <2>2 DEF Behind
  <2>4. l < Len(F) /\ l \in 0..l
    BY <2>1
  <2>5. Held(e, WithInc(Front(F), 0), T, l)
    BY <1>1, <2>1, <2>3, <2>4, PopHolds
  <2>6. Down(e.wb, BaseOf(F, l)) + n < Quads
    BY <1>3, <2>4
  <2> QED BY <1>1, <1>2, <2>4, <2>5, <2>6
<1>5. CASE ~ CallerSaved(c)
  <2>1. e.quad = c.quad /\ e.ws = c.ws \ {c.wb}
    BY <1>1, <1>2, <1>5
  <2>2. Held(e, WithInc(Front(F), 0), T, o)
    BY <1>1, <1>2, <1>5, <2>1, PopHolds
  <2>3. o \in 0..(Len(F) - 1) /\ o >= o
    <3>1. Len(F) \in Nat /\ o \in 0..Len(F)
      BY RingIs DEF Held
    <3> QED BY <1>1, <1>5, <3>1
  <2>4. Down(e.wb, BaseOf(F, o)) + n < Quads
    BY <1>3, <2>3
  <2> QED BY <1>1, <1>2, <2>2, <2>3, <2>4
<1> QED BY <1>4, <1>5

LEMMA FirstHolds ==
  ASSUME NEW c, c.mem = [a \in Addresses |-> c.mem[a]], \A a \in Addresses : IsQuad(c.mem[a]),
         NEW T \in Nat, T - 1 \in Addresses, NEW w, NEW e, e = FirstWindow(c, T, w)
  PROVE  /\ IsFile(e) /\ Held(e, <<>>, T, 0) /\ Quad(e, 2).ret = w
         /\ \A a \in Addresses : a # T - 1 => e.mem[a] = c.mem[a]
<1> DEFINE f == [p \in Places |-> IF p = 0 THEN [Blank EXCEPT !.sp = T]
                                  ELSE IF p = 2 THEN [Blank EXCEPT !.ret = w] ELSE Blank]
           M == [c.mem EXCEPT ![T - 1] = Seed(T, w)]
<1>0. 2 % Quads = 2 /\ 0 \in Places /\ 2 \in Places /\ 2 \in 0..3 /\ 0 + 2 < Quads
  <2>1. 2 < Quads /\ Quads \in Nat \ {0} /\ 2 \in Nat /\ 2 < Quads + Quads
    BY SizesAre
  <2>2. 2 % Quads = 2
    BY <2>1, ModIs
  <2> QED BY <2>1, <2>2 DEF Places
<1>1. e = [quad |-> f, wb |-> 0, ws |-> {0}, mem |-> M]
  BY <1>0 DEF FirstWindow, Places
<1>2. /\ f = [p \in Places |-> f[p]] /\ \A p \in Places : IsQuad(f[p])
      /\ f[0].sp = T /\ f[2].ret = w
  BY <1>0 DEF IsQuad, Blank
<1>3. /\ M = [a \in Addresses |-> M[a]] /\ M[T - 1] = Seed(T, w)
      /\ \A a \in Addresses : a # T - 1 => M[a] = c.mem[a]
  OBVIOUS
<1>4. \A a \in Addresses : IsQuad(M[a])
  <2>1. IsQuad(Seed(T, w))
    BY DEF IsQuad, Seed
  <2> QED BY <1>3, <2>1
<1> HIDE DEF f, M
<1>5. e = [quad |-> e.quad, wb |-> e.wb, ws |-> e.ws, mem |-> e.mem]
      /\ e.quad = f /\ e.wb = 0 /\ e.ws = {0} /\ e.mem = M
  BY <1>1
<1>6. IsFile(e)
  BY <1>0, <1>2, <1>3, <1>4, <1>5 DEF IsFile
<1>7. Quad(e, 2) = f[2]
  <2>1. Ahead(e, 2) = 2
    BY <1>0, <1>5 DEF Ahead
  <2> QED BY <1>5, <2>1 DEF Quad
<1>8. Chain(<<>>, T)
  BY DEF Chain
<1>9. Len(<<>>) = 0 /\ 0..0 = {0} /\ BaseOf(<<>>, 0) = 0 /\ IncOf(<<>>, 0) = 2 /\ Down(0, 0) = 0
  BY DEF BaseOf, IncOf, Down
<1>10. Ring(e, <<>>, 0)
  BY <1>0, <1>5, <1>9, SizesAre DEF Ring
<1>11. InWindows(e, <<>>, T, 0)
  BY <1>2, <1>5, <1>9 DEF InWindows, HasBase, HasExtra
<1>12. InMemory(e, <<>>, T, 0)
  BY <1>3, <1>5 DEF InMemory, Load, Seed
<1> QED BY <1>2, <1>3, <1>5, <1>6, <1>7, <1>8, <1>10, <1>11, <1>12 DEF Held

----------------------------------------------------------------------------
(* The operations of the core on a file that holds the frames.             *)
LEMMA WholeIs ==
  ASSUME NEW c, NEW F, NEW T, Whole(c, F, T)
  PROVE  Chain(F, T) /\ Len(F) \in Nat /\ F \in Seq(Frame) /\ c.wb \in Places
         /\ c.wb = BaseOf(F, Len(F)) /\ IncOf(F, Len(F)) \in 0..3
<1>1. PICK o \in 0..Len(F) : Held(c, F, T, o)
  BY DEF Whole
<1>2. Chain(F, T) /\ Ring(c, F, o)
  BY <1>1 DEF Held
<1>3. Len(F) \in Nat /\ F \in Seq(Frame) /\ c.wb \in Places
  BY <1>2, ChainIs, RingIs
<1>4. Len(F) \in 0..Len(F)
  BY <1>3
<1> QED BY <1>2, <1>3, <1>4, ChainIs DEF Ring

LEMMA NoInc ==
  ASSUME NEW F \in Seq(Frame), F # <<>>, IncOf(F, Len(F)) = 0
  PROVE  WithInc(F, 0) = F
<1> DEFINE m == Len(F)
           f == [F[m] EXCEPT !.inc = 0]
<1>1. m \in 1..Len(F) /\ m # 0 /\ F[m] \in Frame
  BY MemberOfSeq
<1>2. F[m].inc = 0
  BY <1>1 DEF IncOf
<1>3. f = F[m]
  BY <1>1, <1>2 DEF Frame
<1>4. WithInc(F, 0) = [F EXCEPT ![m] = f]
  BY <1>1 DEF WithInc
<1>5. [F EXCEPT ![m] = F[m]] = F
  OBVIOUS
<1> QED BY <1>3, <1>4, <1>5

(* Nothing that belongs to a frame is in the quads an instruction has made *)
(* sure of.                                                                *)
LEMMA TouchWhole ==
  ASSUME NEW c, NEW e, NEW F, NEW T, Whole(c, F, T), F # <<>>, NEW n \in Reach,
         Owned(c, n) = {}, NEW m \in 0..n,
         e.wb = c.wb, e.ws = c.ws, e.mem = c.mem,
         \A p \in Places : (\A k \in 1..n : p # Up(c.wb, k)) => e.quad[p] = c.quad[p],
         \A k \in 1..(m - 1) : e.quad[Up(c.wb, k)].val = Own(F[Len(F)].serial, k)
  PROVE  Whole(e, WithInc(F, m), T)
<1>1. PICK o \in 0..Len(F) : Held(c, F, T, o)
  BY DEF Whole
<1>2. Chain(F, T) /\ Ring(c, F, o) /\ c.wb \in Places /\ n \in 1..3 /\ m \in 0..3
  BY <1>1, RingIs DEF Held, Reach
<1>3. Down(c.wb, BaseOf(F, o)) + n < Quads /\ Down(c.wb, BaseOf(F, o)) \in Nat
  <2>1. o \in o..Len(F)
    BY <1>1
  <2> QED BY <1>2, <2>1, RoomIs, RingIs
<1>4. ASSUME NEW p \in Places, Down(c.wb, p) <= Down(c.wb, BaseOf(F, o)) PROVE e.quad[p] = c.quad[p]
  <2>1. ASSUME NEW k \in 1..n, p = Up(c.wb, k) PROVE FALSE
    <3>1. k \in 0..3 /\ k > 0 /\ k <= n
      BY <1>2
    <3>2. Down(c.wb, p) = Quads - k
      BY <1>2, <2>1, <3>1, UpCloser
    <3> QED BY <1>2, <1>3, <1>4, <3>1, <3>2, SizesAre
  <2> QED BY <2>1
<1>5. Down(c.wb, BaseOf(F, o)) + m < Quads
  BY <1>2, <1>3, SizesAre
<1>6. Held(e, WithInc(F, m), T, o)
  BY <1>1, <1>2, <1>4, <1>5, Retouch
<1>7. Len(WithInc(F, m)) = Len(F)
  BY <1>2, WithIncIs
<1> QED BY <1>6, <1>7 DEF Whole

LEMMA PlacesApart ==
  ASSUME NEW b \in Places, NEW n \in Reach, NEW k \in 1..(n - 1)
  PROVE  Up(b, k) # Up(b, n) /\ Up(b, k) \in Places
<1>1. k \in 0..3 /\ n \in 0..3 /\ k > 0 /\ n > 0 /\ k # n
  BY DEF Reach
<1>2. Down(b, Up(b, k)) = Quads - k /\ Down(b, Up(b, n)) = Quads - n
  BY <1>1, UpCloser
<1> QED BY <1>1, <1>2, UpIs, SizesAre

LEMMA CallWhole ==
  ASSUME NEW c, IsFile(c), NEW F, NEW T, Whole(c, F, T), F # <<>>, NEW n \in Reach,
         Owned(c, n) = {}, NEW w, NEW s, s = F[Len(F)].serial,
         NEW e, e = Called(Keep(c, s, n), n, w)
  PROVE  /\ IsFile(e) /\ Whole(e, WithInc(F, n), T) /\ e.mem = c.mem /\ e.wb = c.wb
         /\ e.quad[Up(c.wb, n)].ret = w
<1> DEFINE d == Keep(c, s, n)
<1>1. /\ IsFile(d) /\ d.wb = c.wb /\ d.ws = c.ws /\ d.mem = c.mem
      /\ \A p \in Places : (\A k \in 1..(n - 1) : p # Up(c.wb, k)) => d.quad[p] = c.quad[p]
      /\ \A k \in 1..(n - 1) : d.quad[Up(c.wb, k)].val = Own(s, k)
  BY KeptIs
<1> HIDE DEF d
<1>2. /\ IsFile(e) /\ e.wb = c.wb /\ e.ws = c.ws /\ e.mem = c.mem
      /\ \A p \in Places : p # Up(c.wb, n) => e.quad[p] = d.quad[p]
      /\ e.quad[Up(c.wb, n)].ret = w
  BY <1>1, CalledIs DEF d
<1>3. n \in 1..n /\ n \in 0..n /\ \A k \in 1..(n - 1) : k \in 1..n
  BY DEF Reach
<1>4. \A p \in Places : (\A k \in 1..n : p # Up(c.wb, k)) => e.quad[p] = c.quad[p]
  BY <1>1, <1>2, <1>3
<1>5. c.wb \in Places
  BY WholeIs
<1>6. \A k \in 1..(n - 1) : e.quad[Up(c.wb, k)].val = Own(F[Len(F)].serial, k)
  BY <1>1, <1>2, <1>5, PlacesApart
<1>7. Whole(e, WithInc(F, n), T)
  BY <1>2, <1>3, <1>4, <1>6, TouchWhole
<1> QED BY <1>2, <1>7

(* A call that is answered leaves the frames as they are.                  *)
LEMMA AnswerWhole ==
  ASSUME NEW c, IsFile(c), NEW F, NEW T, Whole(c, F, T), F # <<>>, IncOf(F, Len(F)) = 0,
         NEW n \in Reach, Owned(c, n) = {}, NEW w,
         NEW e, e = ResultAt(c, n) \/ e = ResultAt(Called(c, n, w), n)
  PROVE  IsFile(e) /\ Whole(e, F, T) /\ e.mem = c.mem
<1> DEFINE d == Called(c, n, w)
<1>1. /\ IsFile(d) /\ d.wb = c.wb /\ d.ws = c.ws /\ d.mem = c.mem
      /\ \A p \in Places : p # Up(c.wb, n) => d.quad[p] = c.quad[p]
  BY CalledIs
<1> HIDE DEF d
<1>2. /\ IsFile(e) /\ e.wb = c.wb /\ e.ws = c.ws /\ e.mem = c.mem
      /\ \A p \in Places : p # Up(c.wb, n) => e.quad[p] = c.quad[p]
  <2>1. CASE e = ResultAt(c, n)
    BY <2>1, ResultIs
  <2>2. CASE e = ResultAt(d, n)
    <3>1. /\ IsFile(e) /\ e.wb = d.wb /\ e.ws = d.ws /\ e.mem = d.mem
          /\ \A p \in Places : p # Up(d.wb, n) => e.quad[p] = d.quad[p]
      BY <1>1, <2>2, ResultIs
    <3> QED BY <1>1, <3>1
  <2> QED BY <2>1, <2>2 DEF d
<1>3. n \in 1..n /\ 0 \in 0..n /\ 1..(0 - 1) = {}
  BY DEF Reach
<1>4. \A p \in Places : (\A k \in 1..n : p # Up(c.wb, k)) => e.quad[p] = c.quad[p]
  BY <1>2, <1>3
<1>5. Whole(e, WithInc(F, 0), T)
  BY <1>2, <1>3, <1>4, TouchWhole
<1>6. WithInc(F, 0) = F
  BY WholeIs, NoInc
<1> QED BY <1>2, <1>5, <1>6

Marred(c, x) == Put(c, c.wb, [c.quad[c.wb] EXCEPT !.val = x])

(* The answer that writes the caller's own a2 spares the rest of it.       *)
LEMMA MarWhole ==
  ASSUME ~Unmarred, NEW c, IsFile(c), NEW F, NEW T, Whole(c, F, T), IncOf(F, Len(F)) = 0,
         NEW x
  PROVE  IsFile(Marred(c, x)) /\ Whole(Marred(c, x), F, T) /\ Marred(c, x).mem = c.mem
<1> DEFINE q == [c.quad[c.wb] EXCEPT !.val = x]
           e == Marred(c, x)
<1>1. PICK o \in 0..Len(F) : Held(c, F, T, o)
  BY DEF Whole
<1>2. /\ Chain(F, T) /\ Ring(c, F, o) /\ InWindows(c, F, T, o) /\ InMemory(c, F, T, o)
      /\ c.wb \in Places /\ Len(F) \in Nat
  BY <1>1, RingIs DEF Held
<1>3. IsQuad(c.quad[c.wb]) /\ IsQuad(q) /\ q.ret = c.quad[c.wb].ret /\ q.sp = c.quad[c.wb].sp
  <2>1. IsQuad(c.quad[c.wb])
    BY <1>2 DEF IsFile
  <2> QED BY <2>1 DEF IsQuad
<1>4. /\ IsFile(e) /\ e.wb = c.wb /\ e.ws = c.ws /\ e.mem = c.mem /\ e.quad[c.wb] = q
      /\ \A p \in Places : p # c.wb => e.quad[p] = c.quad[p]
  <2>1. c.wb \in Places /\ IsQuad(q)
    BY <1>2, <1>3
  <2>2. /\ IsFile(Put(c, c.wb, q)) /\ Put(c, c.wb, q).quad[c.wb] = q
        /\ \A p \in Places : p # c.wb => Put(c, c.wb, q).quad[p] = c.quad[p]
        /\ Put(c, c.wb, q).wb = c.wb /\ Put(c, c.wb, q).ws = c.ws /\ Put(c, c.wb, q).mem = c.mem
    BY <2>1, PutIs
  <2> QED BY <2>2 DEF Marred
<1> HIDE DEF q, e
<1>5. Ring(e, F, o)
  BY <1>2, <1>4 DEF Ring
<1>6. InMemory(e, F, T, o)
  <2>1. \A a : Load(e, a) = Load(c, a)
    BY <1>4 DEF Load
  <2> QED BY <1>2, <2>1 DEF InMemory
<1>7. InWindows(e, F, T, o)
  <2> SUFFICES ASSUME NEW j \in o..Len(F)
               PROVE  /\ HasBase(e.quad[BaseOf(F, j)], F, T, j)
                      /\ \A k \in 1..(IncOf(F, j) - 1) : HasExtra(e.quad[Up(BaseOf(F, j), k)], F, j, k)
    BY DEF InWindows
  <2>0. /\ HasBase(c.quad[BaseOf(F, j)], F, T, j) /\ BaseOf(F, j) \in Places
        /\ \A k \in 1..(IncOf(F, j) - 1) : HasExtra(c.quad[Up(BaseOf(F, j), k)], F, j, k)
    BY <1>2, RingIs DEF InWindows
  <2>1. HasBase(e.quad[BaseOf(F, j)], F, T, j)
    <3>1. CASE BaseOf(F, j) = c.wb
      <4>1. e.quad[BaseOf(F, j)] = q /\ HasBase(c.quad[c.wb], F, T, j)
        BY <1>4, <2>0, <3>1
      <4> QED BY <1>3, <4>1 DEF HasBase
    <3>2. CASE BaseOf(F, j) # c.wb
      BY <1>4, <2>0, <3>2
    <3> QED BY <3>1, <3>2
  <2>2. ASSUME NEW k \in 1..(IncOf(F, j) - 1) PROVE HasExtra(e.quad[Up(BaseOf(F, j), k)], F, j, k)
    <3>1. j < Len(F)
      <4>1. j # Len(F)
        BY <2>2
      <4> QED BY <1>2, <4>1
    <3>2. IncOf(F, j) \in 1..3 /\ k \in 0..3 /\ k < IncOf(F, j)
      <4>1. IncOf(F, j) \in 1..3
        BY <1>2, <3>1, RingIs DEF Reach
      <4> QED BY <2>2, <4>1
    <3>3. /\ Up(BaseOf(F, j), k) \in Places
          /\ Down(c.wb, Up(BaseOf(F, j), k)) = Down(c.wb, BaseOf(F, j)) - k
      BY <1>2, <3>1, <3>2, Near
    <3>4. IncOf(F, j) <= Down(c.wb, BaseOf(F, j)) /\ Down(c.wb, BaseOf(F, j)) \in 0..(Quads - 1)
      <4>1. IncOf(F, j) <= Down(c.wb, BaseOf(F, j))
        BY <1>2, <3>1, RingIs
      <4> QED BY <1>2, <2>0, <4>1, DownIs
    <3>5. Down(c.wb, Up(BaseOf(F, j), k)) # 0
      BY <3>2, <3>3, <3>4, SizesAre
    <3>6. Up(BaseOf(F, j), k) # c.wb
      BY <1>2, <3>3, <3>5, DownIs
    <3> QED BY <1>4, <2>0, <2>2, <3>3, <3>6
  <2> QED BY <2>1, <2>2
<1>8. Held(e, F, T, o)
  BY <1>2, <1>5, <1>6, <1>7 DEF Held
<1> QED BY <1>4, <1>8 DEF Whole, e

Word0 == [inc : Reach, pc : ({"body"} \X Nat) \cup {Kernel, Halt}]

LEMMA NewestSp ==
  ASSUME NEW c, NEW F, NEW T \in Nat, Whole(c, F, T)
  PROVE  c.quad[c.wb].sp = T - 3 * Len(F) /\ Quad(c, 0) = c.quad[c.wb]
<1>1. PICK o \in 0..Len(F) : Held(c, F, T, o)
  BY DEF Whole
<1>2. Len(F) \in o..Len(F) /\ c.wb = BaseOf(F, Len(F)) /\ c.wb \in Places
  <2>1. Len(F) \in Nat /\ c.wb = BaseOf(F, Len(F)) /\ c.wb \in Places
    BY WholeIs
  <2> QED BY <2>1
<1>3. HasBase(c.quad[BaseOf(F, Len(F))], F, T, Len(F))
  BY <1>1, <1>2 DEF Held, InWindows
<1> QED BY <1>2, <1>3, FirstQuad DEF HasBase

LEMMA EnterWhole ==
  ASSUME NEW c, IsFile(c), NEW F, NEW T \in Nat, Whole(c, F, T), NEW s \in Nat,
         NEW n \in Reach, n = IncOf(F, Len(F)), T - 3 * (Len(F) + 1) \in Nat,
         NEW w, w = c.quad[Up(c.wb, n)].ret, w.inc = n, w \in Word0,
         F # <<>> => w.pc = Body(F[Len(F)].serial), NEW e, e = EnteredAs(c, n, s)
  PROVE  IsFile(e) /\ Whole(e, AddFrame(F, s, Up(c.wb, n), w, T), T) /\ e.mem = c.mem
<1> DEFINE b == Up(c.wb, n)
           G == AddFrame(F, s, b, w, T)
<1>1. PICK o \in 0..Len(F) : Held(c, F, T, o)
  BY DEF Whole
<1>2. /\ IsFile(e) /\ e.wb = b /\ e.ws = c.ws \cup {b} /\ e.mem = c.mem
      /\ \A p \in Places : p # b => e.quad[p] = c.quad[p]
      /\ e.quad[b].ret = w /\ e.quad[b].sp = c.quad[c.wb].sp - 3 /\ e.quad[b].val = Own(s, 0)
  BY EnteredIs
<1>3. b = Up(BaseOf(F, Len(F)), n) /\ Chain(F, T) /\ Len(F) \in Nat
  BY WholeIs
<1> HIDE DEF b
<1>4. w \in [inc : Reach, pc : ({"body"} \X Nat) \cup {Kernel, Halt}]
  BY DEF Word0
<1>5. Held(e, G, T, o)
  <2>1. b = Up(c.wb, n) /\ w = c.quad[b].ret
    BY DEF b
  <2>2. Begun(c, e, F, s, n, b, w)
    BY <1>2, <1>4, <2>1 DEF Begun
  <2> QED BY <1>1, <2>2, EnterHolds
<1>6. Len(G) = Len(F) + 1
  BY <1>3, <1>4, AddFrameIs
<1>7. o \in 0..Len(G)
  BY <1>3, <1>6
<1> HIDE DEF G
<1>8. Whole(e, G, T)
  BY <1>5, <1>7 DEF Whole
<1> QED BY <1>2, <1>8 DEF G, b

LEMMA OverflowWhole ==
  ASSUME NEW c, IsFile(c), NEW F, NEW T \in Nat, Whole(c, F, T),
         NEW n \in Reach, Owned(c, n) # {}, 3 * Len(F) + 2 <= T, T <= AppTop,
         NEW e, e = Overflowed(c, n)
  PROVE  /\ IsFile(e) /\ Whole(e, F, T) /\ e.wb = c.wb /\ e.quad = c.quad
         /\ SameAbove(e, c, T - 2)
<1>1. PICK o \in 0..Len(F) : Held(c, F, T, o)
  BY DEF Whole
<1>2. /\ IsFile(e) /\ Held(e, F, T, o + 1) /\ o + 1 \in 0..Len(F)
      /\ e.wb = c.wb /\ e.quad = c.quad /\ SameAbove(e, c, T - 2)
  BY <1>1, OverflowedHolds
<1> QED BY <1>2 DEF Whole

LEMMA UnderflowWhole ==
  ASSUME NEW c, IsFile(c), NEW F, NEW T \in Nat, Whole(c, F, T), Len(F) > 1,
         IncOf(F, Len(F)) = 0, CallerSaved(c), NEW e, e = Underflowed(c, Quad(c, 0).ret.inc)
  PROVE  IsFile(e) /\ Whole(e, F, T) /\ e.mem = c.mem
<1>1. PICK o \in 0..Len(F) : Held(c, F, T, o)
  BY DEF Whole
<1>2. IsFile(e) /\ Held(e, F, T, Len(F) - 1) /\ Len(F) - 1 \in 0..Len(F) /\ e.mem = c.mem
  BY <1>1, UnderflowedHolds
<1> QED BY <1>2 DEF Whole

(* The frames that are left when the newest one returns.                   *)
LEMMA LeftIs ==
  ASSUME NEW F, NEW T, Chain(F, T), Len(F) > 1, NEW G, G = WithInc(Front(F), 0)
  PROVE  /\ Len(G) = Len(F) - 1 /\ G # <<>> /\ Chain(G, T) /\ IncOf(G, Len(G)) = 0
         /\ G[Len(G)].serial = F[Len(F) - 1].serial /\ Last(G) = G[Len(G)]
         /\ \A i \in 0..(Len(F) - 1) : BaseOf(G, i) = BaseOf(F, i)
<1> DEFINE H == Front(F)
           m == Len(F) - 1
<1>1. Chain(H, T) /\ Len(H) = m /\ H # <<>> /\ \A i \in 1..m : H[i] = F[i]
  BY FrontChain
<1>2. m \in Nat \ {0} /\ m \in 1..m
  <2>1. Len(F) \in Nat
    BY ChainIs
  <2>2. \A n \in Nat : n > 1 => n - 1 \in Nat \ {0} /\ n - 1 \in 1..(n - 1)
    OBVIOUS
  <2> QED BY <2>1, <2>2
<1> HIDE DEF H
<1>3. Chain(G, T) /\ Len(G) = m /\ Alike(H, G, m) /\ IncOf(G, m) = 0
  BY <1>1, WithIncIs DEF H
<1>4. G # <<>>
  BY <1>2, <1>3
<1>5. G[m].serial = F[m].serial
  BY <1>1, <1>2, <1>3 DEF Alike
<1>6. Last(G) = G[m]
  BY <1>3 DEF Last
<1>7. ASSUME NEW i \in 0..m PROVE BaseOf(G, i) = BaseOf(F, i)
  <2>1. i # 0 => i \in 1..m
    BY <1>2
  <2>2. BaseOf(G, i) = BaseOf(H, i)
    BY <1>2, <1>3, AlikeIs
  <2>3. BaseOf(H, i) = BaseOf(F, i)
    BY <1>1, <2>1 DEF BaseOf
  <2> QED BY <2>2, <2>3
<1> QED BY <1>3, <1>4, <1>5, <1>6, <1>7

LEMMA ReturnWhole ==
  ASSUME NEW c, IsFile(c), NEW F, NEW T \in Nat, Whole(c, F, T), Len(F) > 1,
         ~ CallerSaved(c), NEW e, e = Returned(c)
  PROVE  /\ IsFile(e) /\ Whole(e, WithInc(Front(F), 0), T) /\ e.mem = c.mem
         /\ Quad(c, 0).ret.pc = Body(F[Len(F) - 1].serial)
<1>1. PICK o \in 0..Len(F) : Held(c, F, T, o)
  BY DEF Whole
<1>2. /\ IsFile(e) /\ Held(e, WithInc(Front(F), 0), T, o) /\ o \in 0..(Len(F) - 1)
      /\ e.mem = c.mem
  BY <1>1, ReturnedHolds
<1>3. Len(WithInc(Front(F), 0)) = Len(F) - 1
  BY WholeIs, LeftIs
<1>4. Quad(c, 0).ret.pc = Body(F[Len(F) - 1].serial)
  BY <1>1, CallerSavedIs
<1> QED BY <1>2, <1>3, <1>4 DEF Whole

(* A call that is given up is no call.                                     *)
LEMMA DropInc ==
  ASSUME NEW c, NEW F, NEW T, NEW o, Held(c, F, T, o), F # <<>>
  PROVE  Held(c, WithInc(F, 0), T, o)
<1>1. Chain(F, T) /\ Ring(c, F, o)
  BY DEF Held
<1>2. c.wb \in Places /\ BaseOf(F, o) \in Places /\ o \in o..Len(F)
  <2>1. o \in o..Len(F)
    BY <1>1, RingIs
  <2> QED BY <1>1, <2>1, RingIs
<1>3. 0 \in 0..3 /\ 1..(0 - 1) = {} /\ Down(c.wb, BaseOf(F, o)) + 0 < Quads
  BY <1>2, DownIs, SizesAre
<1> QED BY <1>3, Retouch

LEMMA SameFront ==
  ASSUME NEW F, NEW T, Chain(F, T), Len(F) > 1
  PROVE  Front(WithInc(F, 0)) = Front(F) /\ Len(WithInc(F, 0)) = Len(F)
         /\ WithInc(F, 0)[Len(F) - 1] = F[Len(F) - 1]
<1> DEFINE f == [F[Len(F)] EXCEPT !.inc = 0]
           G == WithInc(F, 0)
           m == Len(F) - 1
<1>1. F \in Seq(Frame) /\ Len(F) \in Nat \ {0} /\ F # <<>> /\ m \in Nat \ {0} /\ m \in 1..m
  BY ChainIs
<1>2. G = [F EXCEPT ![Len(F)] = f]
  BY <1>1 DEF WithInc
<1>3. f \in Frame
  <2>1. F[Len(F)] \in Frame
    BY <1>1, MemberOfSeq
  <2> QED BY <2>1 DEF Frame
<1> HIDE DEF f, G
<1>4. G \in Seq(Frame) /\ Len(G) = Len(F) /\ \A j \in 1..Len(F) : j # Len(F) => G[j] = F[j]
  BY <1>1, <1>2, <1>3, SetMember
<1>5. \A j \in 1..m : j \in 1..Len(F) /\ j # Len(F)
  BY <1>1
<1>6. \A j \in 1..m : G[j] = F[j]
  BY <1>4, <1>5
<1> DEFINE s == Front(G)
           t == Front(F)
<1>7. s \in Seq(Frame) /\ t \in Seq(Frame) /\ Len(s) = m /\ Len(t) = m
      /\ \A i \in 1..m : s[i] = t[i]
  <2>1. G # <<>>
    BY <1>1, <1>4
  <2> QED BY <1>1, <1>4, <1>6, <2>1, FrontIs
<1> HIDE DEF s, t
<1>8. s = t
  BY <1>7
<1> QED BY <1>1, <1>4, <1>6, <1>8 DEF s, t, G

LEMMA SafeReturnWhole ==
  ASSUME NEW c, IsFile(c), NEW F, NEW T \in Nat, Whole(c, F, T), Len(F) > 1,
         NEW n, n = Quad(c, 0).ret.inc, NEW e, e = SafelyReturned(c),
         NEW G, G = WithInc(Front(F), 0)
  PROVE  /\ IsFile(e) /\ Whole(e, G, T) /\ e.mem = c.mem
         /\ IsFile(ResultAt(e, n)) /\ Whole(ResultAt(e, n), G, T) /\ ResultAt(e, n).mem = c.mem
         /\ Quad(c, 0).ret.pc = Body(F[Len(F) - 1].serial)
<1> DEFINE H == WithInc(F, 0)
           r == ResultAt(e, n)
<1>1. PICK o \in 0..Len(F) : Held(c, F, T, o)
  BY DEF Whole
<1>2. Chain(F, T) /\ Len(F) \in Nat /\ F # <<>>
  BY WholeIs
<1>3. Held(c, H, T, o) /\ Len(H) = Len(F) /\ Front(H) = Front(F) /\ H[Len(F) - 1] = F[Len(F) - 1]
      /\ IncOf(H, Len(F)) = 0
  <2>1. IncOf(H, Len(F)) = 0
    <3>1. 0 \in 0..3
      OBVIOUS
    <3> QED BY <1>2, <3>1, WithIncIs, Zenon
  <2>2. Held(c, H, T, o)
    BY <1>1, <1>2, DropInc
  <2>3. Len(H) = Len(F) /\ Front(H) = Front(F) /\ H[Len(F) - 1] = F[Len(F) - 1]
    BY <1>2, SameFront
  <2> QED BY <2>1, <2>2, <2>3
<1> HIDE DEF H
<1>4. PICK l \in 0..(Len(F) - 1) : Held(e, G, T, l) /\ Down(e.wb, BaseOf(H, l)) + n < Quads
  BY <1>3, SafelyReturnedHolds
<1>5. /\ IsFile(e) /\ e.mem = c.mem /\ n \in Reach /\ Quad(c, 0).ret.pc = Body(F[Len(F) - 1].serial)
  BY <1>3, SafelyReturnedHolds
<1>6. /\ Len(G) = Len(F) - 1 /\ G # <<>> /\ Chain(G, T) /\ IncOf(G, Len(G)) = 0
      /\ BaseOf(G, l) = BaseOf(H, l)
  <2>1. Chain(H, T)
    BY <1>3 DEF Held
  <2> QED BY <1>3, <2>1, LeftIs
<1>7. IsFile(r) /\ r.wb = e.wb /\ r.ws = e.ws /\ r.mem = e.mem
      /\ \A p \in Places : p # Up(e.wb, n) => r.quad[p] = e.quad[p]
  BY <1>5, ResultIs
<1> HIDE DEF r
<1>8. ASSUME NEW p \in Places, Down(e.wb, p) <= Down(e.wb, BaseOf(G, l)) PROVE r.quad[p] = e.quad[p]
  <2>1. e.wb \in Places /\ n \in 0..3 /\ n > 0 /\ BaseOf(G, l) \in Places
    <3>1. l \in l..Len(G)
      BY <1>4, <1>6
    <3>2. e.wb \in Places /\ BaseOf(G, l) \in Places
      BY <1>4, <1>6, <3>1, RingIs DEF Held
    <3> QED BY <1>5, <3>2 DEF Reach
  <2>2. Down(e.wb, Up(e.wb, n)) = Quads - n
    BY <2>1, UpCloser
  <2>3. Down(e.wb, BaseOf(G, l)) \in Nat /\ Down(e.wb, p) \in Nat
    BY <2>1, DownIs
  <2>4. Down(e.wb, BaseOf(G, l)) + n < Quads /\ Down(e.wb, p) <= Down(e.wb, BaseOf(G, l))
    BY <1>4, <1>6, <1>8
  <2>5. Down(e.wb, p) # Quads - n
    BY <2>1, <2>3, <2>4, SizesAre
  <2>6. p # Up(e.wb, n)
    BY <2>2, <2>5
  <2> QED BY <1>7, <2>6
<1>9. Held(r, WithInc(G, 0), T, l)
  <2>1. Down(e.wb, BaseOf(G, l)) + 0 < Quads
    <3>1. Down(e.wb, BaseOf(G, l)) \in Int
      <4>1. l \in l..Len(G)
        BY <1>4, <1>6
      <4>2. e.wb \in Places /\ BaseOf(G, l) \in Places
        BY <1>4, <1>6, <4>1, RingIs DEF Held
      <4> QED BY <4>2, DownIs
    <3> QED BY <1>4, <1>5, <1>6, <3>1, SizesAre DEF Reach
  <2>2. 0 \in 0..3 /\ 1..(0 - 1) = {}
    OBVIOUS
  <2> QED BY <1>4, <1>6, <1>7, <1>8, <2>1, <2>2, Retouch
<1>10. WithInc(G, 0) = G
  BY <1>6, ChainIs, NoInc
<1>11. Whole(e, G, T) /\ Whole(r, G, T)
  BY <1>4, <1>6, <1>9, <1>10 DEF Whole
<1> QED BY <1>5, <1>7, <1>11 DEF r

LEMMA FirstWhole ==
  ASSUME NEW c, c.mem = [a \in Addresses |-> c.mem[a]], \A a \in Addresses : IsQuad(c.mem[a]),
         NEW T \in Nat, T - 1 \in Addresses, NEW w, NEW e, e = FirstWindow(c, T, w)
  PROVE  /\ IsFile(e) /\ Whole(e, <<>>, T) /\ Quad(e, 2).ret = w
         /\ \A a \in Addresses : a # T - 1 => e.mem[a] = c.mem[a]
<1>1. Held(e, <<>>, T, 0) /\ IsFile(e) /\ Quad(e, 2).ret = w
  BY FirstHolds
<1>2. \A a \in Addresses : a # T - 1 => e.mem[a] = c.mem[a]
  BY FirstHolds
<1>3. 0 \in 0..Len(<<>>)
  OBVIOUS
<1> QED BY <1>1, <1>2, <1>3 DEF Whole

----------------------------------------------------------------------------
(* The steps of the core keep the registers of the live functions.         *)
LEMMA DepthIs ==
  ASSUME Deep
  PROVE  /\ StackTop \in Nat /\ StackTop <= AppTop /\ Allowance \in Nat /\ spent \in Nat
         /\ ~strayed /\ Len(frames) \in Nat => 3 * Len(frames) + 2 <= StackTop
         /\ ~strayed /\ Len(frames) \in Nat /\ Calling => StackTop - 3 * (Len(frames) + 1) \in Nat
<1>1. /\ activity.boot \in Nat /\ activity.app \in Nat /\ AppTop \in Nat
      /\ AppTop >= 3 * activity.boot + 5 /\ AppTop >= 3 * activity.app + 6
  BY CpuAssumption, WindowsAssumption, StackAssumption DEF Deep, FrameSize
<1>2. /\ Allowance \in Nat /\ StackTop \in Nat /\ StackTop <= AppTop
      /\ 3 * Allowance + 5 <= StackTop
  <2>1. CASE tls
    <3>1. Allowance = activity.app /\ StackTop = AppTop - 1
      BY <2>1 DEF Deep, Allowance, StackTop, BootTop
    <3> QED BY <1>1, <3>1
  <2>2. CASE ~ tls
    <3>1. Allowance = activity.boot /\ StackTop = AppTop
      BY <2>2 DEF Deep, Allowance, StackTop
    <3> QED BY <1>1, <3>1
  <2> QED BY <2>1, <2>2
<1>3. spent \in Nat /\ spent <= Allowance
  BY <1>2 DEF Deep
<1>4. ASSUME ~strayed, Len(frames) \in Nat PROVE 3 * Len(frames) + 2 <= StackTop
  <2>1. Len(frames) <= spent + 1
    BY <1>4 DEF Deep
  <2> QED BY <1>2, <1>3, <1>4, <2>1
<1>5. ASSUME ~strayed, Len(frames) \in Nat, Calling
      PROVE  StackTop - 3 * (Len(frames) + 1) \in Nat
  <2>1. Len(frames) <= spent
    BY <1>5 DEF Deep
  <2> QED BY <1>2, <1>3, <1>5, <2>1
<1> QED BY <1>2, <1>3, <1>4, <1>5

LEMMA RestWindows ==
  ASSUME IsFile(win)', ThreadDataKept', Deep', nest' = <<>>,
         ~strayed' => Control' /\ Whole(win, frames, StackTop)'
  PROVE  WindowsInv'
<1>1. CallincKept'
  BY DEF CallincKept
<1> QED BY <1>1 DEF WindowsInv

(* What a function that runs undisturbed relies on.                        *)
LEMMA RestIs ==
  ASSUME NestInv, WindowsInv, nest = <<>>, ~strayed
  PROVE  /\ IsFile(win) /\ Whole(win, frames, StackTop) /\ Control /\ Deep /\ ThreadDataKept
         /\ Point = pc /\ PointPs = ps /\ ps \in PsType
         /\ StackTop \in Nat /\ StackTop <= AppTop /\ win.wb \in Places
         /\ Len(frames) \in Nat /\ frames \in Seq(Frame) /\ Chain(frames, StackTop)
         /\ frames # <<>> => Len(frames) \in 1..Len(frames) /\ Top = frames[Len(frames)]
<1>1. /\ IsFile(win) /\ Whole(win, frames, StackTop) /\ Control /\ Deep /\ ThreadDataKept
  BY DEF WindowsInv
<1>2. Point = pc /\ PointPs = ps /\ ps \in PsType
  BY DEF Point, PointPs, NestInv, NestTypes
<1>3. /\ win.wb \in Places /\ Len(frames) \in Nat /\ frames \in Seq(Frame)
      /\ Chain(frames, StackTop)
  BY <1>1, WholeIs
<1>4. frames # <<>> => Len(frames) \in 1..Len(frames)
  BY <1>3
<1>5. Top = frames[Len(frames)]
  BY DEF Top, Last
<1>6. StackTop \in Nat /\ StackTop <= AppTop
  BY <1>1, DepthIs
<1> QED BY <1>1, <1>2, <1>3, <1>4, <1>5, <1>6

LEMMA WithCallinc ==
  ASSUME NEW p \in PsType, NEW n PROVE [p EXCEPT !.callinc = n].callinc = n
BY DEF PsType

LEMMA CallKeepsWindows ==
  ASSUME NestInv, WindowsInv, NEW n \in Reach, NEW kind \in {"entry", "patched", "hole"},
         Call(n, kind)
  PROVE  WindowsInv'
<1>0. /\ nest = <<>> /\ ~strayed /\ frames # <<>> /\ pc = Body(Top.serial) /\ Owned(win, n) = {}
      /\ win' = Called(Keep(win, Top.serial, n), n, [inc |-> n, pc |-> pc])
      /\ ps' = [ps EXCEPT !.callinc = n] /\ pc' = <<kind, Top.serial>>
      /\ frames' = [frames EXCEPT ![Len(frames)].inc = n] /\ Spends
      /\ UNCHANGED <<redirected, tls, nest, strayed, serial, activity>>
  BY DEF Call, AtRest
<1>1. /\ IsFile(win) /\ Whole(win, frames, StackTop) /\ Deep /\ ThreadDataKept /\ ps \in PsType
      /\ Chain(frames, StackTop) /\ win.wb \in Places /\ Len(frames) \in Nat
      /\ Len(frames) \in 1..Len(frames) /\ Top = frames[Len(frames)]
  BY <1>0, RestIs
<1>2. frames' = WithInc(frames, n) /\ n \in 0..3
  BY <1>0 DEF WithInc, Reach
<1>3. StackTop' = StackTop
  BY <1>0 DEF StackTop
<1> DEFINE w == [inc |-> n, pc |-> pc]
<1>4. /\ IsFile(win') /\ Whole(win', frames', StackTop) /\ win'.mem = win.mem
      /\ win'.wb = win.wb /\ win'.quad[Up(win.wb, n)].ret = w
  <2> HIDE DEF w
  <2>1. win' = Called(Keep(win, frames[Len(frames)].serial, n), n, w)
    BY <1>0, <1>1 DEF w
  <2>2. /\ IsFile(win) /\ Whole(win, frames, StackTop) /\ frames # <<>> /\ Owned(win, n) = {}
    BY <1>0, <1>1
  <2>3. /\ IsFile(win') /\ Whole(win', WithInc(frames, n), StackTop)
        /\ win'.mem = win.mem /\ win'.wb = win.wb /\ win'.quad[Up(win.wb, n)].ret = w
    BY <2>1, <2>2, CallWhole
  <2> QED BY <1>2, <2>3
<1>5. /\ Len(frames') = Len(frames) /\ Alike(frames, frames', Len(frames))
      /\ IncOf(frames', Len(frames')) = n
  <2>1. /\ Len(WithInc(frames, n)) = Len(frames) /\ Alike(frames, WithInc(frames, n), Len(frames))
        /\ IncOf(WithInc(frames, n), Len(frames)) = n
    BY <1>0, <1>1, <1>2, WithIncIs
  <2> QED BY <1>2, <2>1
<1>6. Top'.serial = Top.serial /\ frames' # <<>>
  <2>1. frames'[Len(frames)].serial = frames[Len(frames)].serial
    BY <1>1, <1>5 DEF Alike
  <2>2. Top' = frames'[Len(frames)]
    BY <1>5 DEF Top, Last
  <2>3. frames' # <<>>
    BY <1>1, <1>5
  <2> QED BY <1>1, <2>1, <2>2, <2>3
<1>7. Deep'
  <2>1. /\ spent \in Nat /\ Allowance \in Nat /\ Allowance' = Allowance /\ spent' = spent + 1
        /\ spent < Allowance
    BY <1>0, <1>1, DepthIs DEF Spends, Allowance
  <2>2. spent' \in 0..Allowance' /\ Len(frames') <= spent'
    <3>1. Len(frames) <= spent + 1
      BY <1>0, <1>1 DEF Deep
    <3> QED BY <1>1, <1>5, <2>1, <3>1
  <2>3. Len(frames') <= spent' + 1
    BY <1>1, <1>5, <2>1, <2>2
  <2>4. /\ activity' \in Activities /\ tls' = redirected' /\ serial' \in Nat
    BY <1>0, <1>1 DEF Deep
  <2> QED BY <2>2, <2>3, <2>4 DEF Deep
<1>8. ThreadDataKept'
  BY <1>0, <1>1, <1>4 DEF ThreadDataKept
<1>9. Point' = <<kind, Top'.serial>> /\ PointPs'.callinc = n
  BY <1>0, <1>1, <1>6, WithCallinc DEF Point, PointPs
<1>10. Quad(win, n)'.ret = w
  <2>1. Ahead(win', n) = Up(win'.wb, n)
    BY <1>1, <1>2, <1>4, AheadIs
  <2> QED BY <1>4, <2>1 DEF Quad
<1>11. NewWord'
  <2>1. w \in [inc : {n}, pc : {Body(Top'.serial)}]
    BY <1>0, <1>6
  <2> HIDE DEF w
  <2> QED BY <1>5, <1>6, <1>9, <1>10, <2>1 DEF NewWord
<1>12. Control'
  <2>1. Point[1]' \in {"entry", "patched", "hole"} /\ Point[2]' = Top'.serial
    BY <1>9
  <2> QED BY <1>6, <1>11, <2>1 DEF Control
<1>13. IsFile(win)' /\ Whole(win, frames, StackTop)' /\ nest' = <<>>
  BY <1>0, <1>3, <1>4 DEF IsFile, Whole, Held
<1> QED BY <1>7, <1>8, <1>12, <1>13, RestWindows

LEMMA AnswerKeepsWindows ==
  ASSUME NestInv, WindowsInv, NEW n \in Reach, NEW kind \in {"return", "helper", "task"},
         kind = "task" => ~Unmarred, Answered(n, kind)
  PROVE  WindowsInv'
<1> DEFINE w == [inc |-> n, pc |-> pc]
<1>0. /\ nest = <<>> /\ ~strayed /\ frames # <<>> /\ pc = Body(Top.serial) /\ Owned(win, n) = {}
      /\ win' = Skipped(n, kind) /\ Spends
      /\ UNCHANGED <<pc, redirected, tls, frames, nest, strayed, serial, activity>>
  BY DEF Answered, AtRest
<1>1. /\ IsFile(win) /\ Whole(win, frames, StackTop) /\ Deep /\ ThreadDataKept /\ Control
      /\ Point = pc /\ Len(frames) \in Nat /\ Len(frames) \in 1..Len(frames)
      /\ Top = frames[Len(frames)]
  BY <1>0, RestIs
<1> DEFINE d == ResultAt(win, n)
<1>2. \/ win' = ResultAt(win, n) \/ win' = ResultAt(Called(win, n, w), n)
      \/ ~Unmarred /\ win' = [d EXCEPT !.quad[win.wb].val = Result]
  BY <1>0 DEF Skipped, SkippedByHelper, SkippedTask
<1> HIDE DEF w
<1>3. Point[1] = "body" /\ Top.inc = 0 /\ Point' = Point
  <2>1. Point[1] = "body" /\ Point' = Point
    BY <1>0, <1>1 DEF Body, Point
  <2> QED BY <1>1, <2>1 DEF Control
<1>4. IncOf(frames, Len(frames)) = 0
  BY <1>1, <1>3 DEF IncOf
<1>5. IsFile(win') /\ Whole(win', frames, StackTop) /\ win'.mem = win.mem
  <2>1. frames # <<>> /\ Owned(win, n) = {} /\ IsFile(win) /\ Whole(win, frames, StackTop)
    BY <1>0, <1>1
  <2>2. CASE win' = ResultAt(win, n) \/ win' = ResultAt(Called(win, n, w), n)
    BY <1>4, <2>1, <2>2, AnswerWhole
  <2>3. CASE ~Unmarred /\ win' = [d EXCEPT !.quad[win.wb].val = Result]
    <3>1. IsFile(d) /\ Whole(d, frames, StackTop) /\ d.mem = win.mem /\ d.wb = win.wb
      BY <1>4, <2>1, AnswerWhole, ResultIs
    <3> HIDE DEF d
    <3>2. win' = Marred(d, Result) /\ ~Unmarred
      BY <2>3, <3>1, Zenon DEF Put, Marred
    <3>3. IsFile(win') /\ Whole(win', frames, StackTop) /\ win'.mem = d.mem
      BY <1>4, <3>1, <3>2, MarWhole
    <3> QED BY <3>1, <3>3
  <2> QED BY <1>2, <2>2, <2>3
<1>6. Deep'
  <2>1. /\ spent \in Nat /\ Allowance \in Nat /\ Allowance' = Allowance /\ spent' = spent + 1
        /\ spent < Allowance
    BY <1>0, <1>1, DepthIs DEF Spends, Allowance
  <2>2. ~ Calling'
    BY <1>3 DEF Calling
  <2>3. spent' \in 0..Allowance' /\ Len(frames') <= spent' + 1
    <3>1. Len(frames) <= spent + 1
      BY <1>0, <1>1 DEF Deep
    <3> QED BY <1>0, <1>1, <2>1, <3>1
  <2>4. /\ activity' \in Activities /\ tls' = redirected' /\ serial' \in Nat
    BY <1>0, <1>1 DEF Deep
  <2> QED BY <2>2, <2>3, <2>4 DEF Deep
<1>7. ThreadDataKept'
  BY <1>0, <1>1, <1>5 DEF ThreadDataKept
<1>8. Control'
  <2>1. Top' = Top /\ ~ Calling'
    BY <1>0, <1>3 DEF Top, Calling
  <2> QED BY <1>0, <1>1, <1>3, <2>1 DEF Control
<1>9. IsFile(win)' /\ Whole(win, frames, StackTop)' /\ nest' = <<>>
  <2>1. StackTop' = StackTop
    BY <1>0 DEF StackTop
  <2> QED BY <1>0, <1>5, <2>1
<1> QED BY <1>6, <1>7, <1>8, <1>9, RestWindows

LEMMA EnterKeepsWindows ==
  ASSUME NestInv, WindowsInv, Enter PROVE WindowsInv'
<1> DEFINE n == ps.callinc
           s == serial + 1
           b == Up(win.wb, n)
           w == win.quad[b].ret
           c == Entered(win, n)
<1>0. /\ nest = <<>> /\ ~strayed /\ pc[1] \in {"entry", "patched"}
      /\ win' = [c EXCEPT !.quad[c.wb].val = Own(s, 0)]
      /\ frames' = Append(frames, [serial |-> s, base |-> c.wb, inc |-> 0,
                                   ret |-> Quad(c, 0).ret, sp |-> Quad(c, 0).sp])
      /\ serial' = s /\ pc' = <<IF pc[1] = "entry" THEN "body" ELSE "stub", s>>
      /\ UNCHANGED <<ps, redirected, tls, nest, strayed, spent, activity>>
  BY DEF Enter
<1>1. /\ IsFile(win) /\ Whole(win, frames, StackTop) /\ Deep /\ ThreadDataKept /\ Control
      /\ Point = pc /\ PointPs = ps /\ Len(frames) \in Nat /\ win.wb \in Places
      /\ StackTop \in Nat /\ Chain(frames, StackTop) /\ frames \in Seq(Frame)
      /\ (frames # <<>> => Len(frames) \in 1..Len(frames) /\ Top = frames[Len(frames)])
  BY <1>0, RestIs
<1>2. Calling /\ NewWord /\ s \in Nat
  BY <1>0, <1>1 DEF Calling, Control, Deep
<1>3. n \in Reach /\ n = IncOf(frames, Len(frames))
  BY <1>1, <1>2 DEF NewWord
<1> HIDE DEF n, s
<1>4. Quad(win, n).ret = w
  <2>1. Ahead(win, n) = b
    BY <1>1, <1>3, AheadIs DEF Reach
  <2> QED BY <2>1 DEF Quad
<1>5. /\ w \in Word0 /\ w.inc = n
      /\ frames # <<>> => w.pc = Body(frames[Len(frames)].serial)
  <2> DEFINE pcs == IF frames = <<>> THEN {Kernel, Halt} ELSE {Body(Top.serial)}
  <2>1. w \in [inc : {n}, pc : pcs]
    BY <1>2, <1>3, <1>4 DEF NewWord
  <2>2. pcs \subseteq ({"body"} \X Nat) \cup {Kernel, Halt}
    <3>1. frames # <<>> => Top \in Frame
      BY <1>1, MemberOfSeq
    <3>2. frames # <<>> => Top.serial \in Nat
      BY <3>1 DEF Frame
    <3> QED BY <3>2 DEF Body
  <2>3. frames # <<>> => pcs = {Body(frames[Len(frames)].serial)}
    BY <1>1
  <2> HIDE DEF pcs, w
  <2> QED BY <1>3, <2>1, <2>2, <2>3 DEF Word0
<1>6. StackTop - 3 * (Len(frames) + 1) \in Nat
  BY <1>0, <1>1, <1>2, DepthIs
<1>7. win' = EnteredAs(win, n, s)
  BY <1>0, Zenon DEF EnteredAs
<1> DEFINE G == AddFrame(frames, s, b, w, StackTop)
<1>8. IsFile(win') /\ Whole(win', G, StackTop) /\ win'.mem = win.mem
  BY <1>1, <1>2, <1>3, <1>5, <1>6, <1>7, EnterWhole
<1>9. c.wb = b /\ Quad(c, 0).ret = w /\ Quad(c, 0).sp = StackTop - 3 * (Len(frames) + 1)
  <2>1. /\ c.wb = b /\ Quad(c, 0).ret = w /\ Quad(c, 0).sp = win.quad[win.wb].sp - 3
    BY <1>1, <1>3, EnteredIs
  <2>2. win.quad[win.wb].sp = StackTop - 3 * Len(frames)
    BY <1>1, NewestSp
  <2> QED BY <1>1, <2>1, <2>2
<1> HIDE DEF b, w, c
<1>10. frames' = G
  BY <1>0, <1>9 DEF AddFrame
<1>11. Len(G) = Len(frames) + 1 /\ IncOf(G, Len(frames) + 1) = 0 /\ G[Len(frames) + 1].serial = s
  <2>1. Chain(frames, StackTop) /\ s \in Nat /\ b = Up(BaseOf(frames, Len(frames)), n)
    BY <1>1, <1>2, WholeIs DEF b
  <2>2. w \in [inc : Reach, pc : ({"body"} \X Nat) \cup {Kernel, Halt}] /\ w.inc = n
    BY <1>5 DEF Word0
  <2> QED BY <1>3, <1>5, <1>6, <2>1, <2>2, AddFrameIs
<1> HIDE DEF G
<1>12. Len(frames') = Len(frames) + 1 /\ frames' # <<>> /\ Top'.inc = 0 /\ Top'.serial = s
  <2>1. Len(frames') = Len(frames) + 1 /\ Top' = frames'[Len(frames) + 1]
    BY <1>10, <1>11 DEF Top, Last
  <2>2. Len(frames) + 1 # 0
    BY <1>1
  <2> QED BY <1>10, <1>11, <2>1, <2>2 DEF IncOf
<1>13. Point' = pc' /\ pc'[1] \in {"body", "stub"} /\ pc'[2] = s
  BY <1>0 DEF Point
<1>14. ~ Calling'
  BY <1>13 DEF Calling
<1>15. Deep'
  <2>1. Len(frames) <= spent /\ spent \in Nat
    BY <1>0, <1>1, <1>2, DepthIs DEF Deep
  <2>2. Len(frames') <= spent' + 1
    BY <1>0, <1>1, <1>12, <2>1
  <2>3. Allowance' = Allowance
    BY <1>0 DEF Allowance
  <2> QED BY <1>0, <1>1, <1>2, <1>14, <2>2, <2>3 DEF Deep
<1>16. ThreadDataKept'
  BY <1>0, <1>1, <1>8 DEF ThreadDataKept
<1>17. Control'
  BY <1>12, <1>13, <1>14 DEF Control
<1>18. IsFile(win)' /\ Whole(win, frames, StackTop)' /\ nest' = <<>>
  <2>1. StackTop' = StackTop
    BY <1>0 DEF StackTop
  <2> QED BY <1>0, <1>8, <1>10, <2>1
<1> QED BY <1>15, <1>16, <1>17, <1>18, RestWindows

LEMMA OverflowKeepsWindows ==
  ASSUME NestInv, WindowsInv, Overflow PROVE WindowsInv'
<1>0. /\ UNCHANGED <<pc, ps, redirected, tls, frames, nest, strayed, serial, spent, activity>>
      /\ AtRest \/ SavedHandler
  BY DEF Overflow
<1>1. PICK n \in Reach : Owned(win, n) # {} /\ win' = Overflowed(win, n)
  BY DEF Overflow
<1>2. ~strayed
  BY <1>0 DEF WindowsInv, AtRest, SavedHandler
<1>3. /\ IsFile(win) /\ Whole(win, frames, StackTop) /\ Deep /\ ThreadDataKept /\ Control
      /\ CallincKept
  BY <1>2 DEF WindowsInv
<1>4. /\ StackTop \in Nat /\ StackTop <= AppTop /\ 3 * Len(frames) + 2 <= StackTop
      /\ win.wb \in Places /\ Len(frames) \in Nat
  <2>1. Len(frames) \in Nat /\ win.wb \in Places
    BY <1>3, WholeIs
  <2> QED BY <1>2, <1>3, <2>1, DepthIs
<1>5. /\ IsFile(win') /\ Whole(win', frames, StackTop) /\ win'.wb = win.wb
      /\ win'.quad = win.quad /\ SameAbove(win', win, StackTop - 2)
  BY <1>1, <1>3, <1>4, OverflowWhole
<1>6. ThreadDataKept'
  <2>1. AppTop - 1 \in Addresses /\ (tls => StackTop = AppTop - 1) /\ AppTop \in Nat
    BY WindowsAssumption DEF StackTop, BootTop, Addresses
  <2>2. tls => win'.mem[AppTop - 1] = win.mem[AppTop - 1]
    BY <1>5, <2>1 DEF SameAbove
  <2> QED BY <1>0, <1>3, <2>2 DEF ThreadDataKept
<1>7. Point' = Point /\ PointPs' = PointPs /\ Top' = Top
  BY <1>0 DEF Point, PointPs, Top
<1>8. Calling' = Calling
  BY <1>7 DEF Calling
<1>9. Deep'
  BY <1>0, <1>3, <1>8 DEF Deep, Allowance
<1>10. \A k : Quad(win', k) = Quad(win, k)
  BY <1>5 DEF Quad, Ahead
<1>11. NewWord => NewWord'
  BY <1>0, <1>7, <1>10 DEF NewWord
<1>12. Control'
  BY <1>0, <1>3, <1>7, <1>8, <1>11 DEF Control
<1>13. CallincKept'
  BY <1>0, <1>3 DEF CallincKept, PsAt
<1>14. IsFile(win)' /\ Whole(win, frames, StackTop)'
  <2>1. StackTop' = StackTop
    BY <1>0 DEF StackTop
  <2> QED BY <1>0, <1>5, <2>1
<1> QED BY <1>0, <1>2, <1>6, <1>9, <1>12, <1>13, <1>14 DEF WindowsInv

LEMMA UnderflowKeepsWindows ==
  ASSUME NestInv, WindowsInv, Underflow PROVE WindowsInv'
<1>0. /\ nest = <<>> /\ ~strayed /\ frames # <<>> /\ pc = Body(Top.serial) /\ Leaves
      /\ CallerSaved(win) /\ win' = Underflowed(win, Quad(win, 0).ret.inc)
      /\ UNCHANGED <<pc, ps, redirected, tls, frames, nest, strayed, serial, spent, activity>>
  BY DEF Underflow, AtRest
<1>1. /\ IsFile(win) /\ Whole(win, frames, StackTop) /\ Deep /\ ThreadDataKept /\ Control
      /\ Point = pc /\ Len(frames) \in 1..Len(frames) /\ Top = frames[Len(frames)]
      /\ StackTop \in Nat
  BY <1>0, RestIs
<1>2. Point[1] = "body" /\ Top.inc = 0 /\ Point' = Point /\ Top' = Top
  <2>1. Point[1] = "body" /\ Point' = Point /\ Top' = Top
    BY <1>0, <1>1 DEF Body, Point, Top
  <2> QED BY <1>1, <2>1 DEF Control
<1>3. IncOf(frames, Len(frames)) = 0 /\ Len(frames) > 1
  BY <1>0, <1>1, <1>2 DEF IncOf, Leaves
<1>4. IsFile(win') /\ Whole(win', frames, StackTop) /\ win'.mem = win.mem
  BY <1>0, <1>1, <1>3, UnderflowWhole
<1>5. ~ Calling'
  BY <1>2 DEF Calling
<1>6. Deep'
  BY <1>0, <1>1, <1>5 DEF Deep, Allowance
<1>7. ThreadDataKept'
  BY <1>0, <1>1, <1>4 DEF ThreadDataKept
<1>8. Control'
  BY <1>0, <1>1, <1>2, <1>5 DEF Control
<1>9. IsFile(win)' /\ Whole(win, frames, StackTop)' /\ nest' = <<>>
  <2>1. StackTop' = StackTop
    BY <1>0 DEF StackTop
  <2> QED BY <1>0, <1>4, <2>1
<1> QED BY <1>6, <1>7, <1>8, <1>9, RestWindows

(* A function goes back to its caller, whichever way.                      *)
LEMMA LeavingKeepsWindows ==
  ASSUME NestInv, WindowsInv, nest = <<>>, ~strayed, Leaves,
         IsFile(win'), Whole(win', WithInc(Front(frames), 0), StackTop), win'.mem = win.mem,
         pc' = Body(frames[Len(frames) - 1].serial), frames' = Left,
         UNCHANGED <<redirected, tls, nest, strayed, serial, spent, activity>>
  PROVE  WindowsInv'
<1> DEFINE G == WithInc(Front(frames), 0)
<1>1. /\ Deep /\ ThreadDataKept /\ Len(frames) \in Nat /\ frames \in Seq(Frame)
      /\ Chain(frames, StackTop) /\ Len(frames) > 1
  BY RestIs DEF Leaves
<1>2. Len(Front(frames)) = Len(frames) - 1
  BY <1>1, FrontChain
<1>3. frames' = G
  BY <1>2, Zenon DEF Left, WithInc
<1>4. /\ Len(G) = Len(frames) - 1 /\ G # <<>> /\ IncOf(G, Len(G)) = 0
      /\ G[Len(G)].serial = frames[Len(frames) - 1].serial /\ Last(G) = G[Len(G)]
  BY <1>1, LeftIs
<1> HIDE DEF G
<1>5. Top' = G[Len(G)] /\ Len(G) # 0
  <2>1. Len(G) # 0
    BY <1>1, <1>4
  <2> QED BY <1>3, <1>4, <2>1 DEF Top
<1>6. Top'.inc = 0 /\ Top'.serial = frames[Len(frames) - 1].serial /\ frames' # <<>>
  BY <1>3, <1>4, <1>5 DEF IncOf
<1>7. Point' = Body(Top'.serial)
  BY <1>6 DEF Point
<1>8. ~ Calling'
  BY <1>7 DEF Calling, Body
<1>9. Deep'
  <2>1. Len(frames') <= spent' + 1
    <3>1. Len(frames) <= spent + 1 /\ spent \in Nat
      BY <1>1, DepthIs DEF Deep
    <3> QED BY <1>1, <1>3, <1>4, <3>1
  <2> QED BY <1>1, <1>8, <2>1 DEF Deep, Allowance
<1>10. ThreadDataKept'
  BY <1>1 DEF ThreadDataKept
<1>11. Control'
  BY <1>6, <1>7, <1>8 DEF Control, Body
<1>12. IsFile(win)' /\ Whole(win, frames, StackTop)' /\ nest' = <<>>
  <2>1. StackTop' = StackTop
    BY DEF StackTop
  <2> QED BY <1>3, <2>1 DEF G
<1> QED BY <1>9, <1>10, <1>11, <1>12, RestWindows

LEMMA ReturnKeepsWindows ==
  ASSUME NestInv, WindowsInv, Return PROVE WindowsInv'
<1>0. /\ nest = <<>> /\ ~strayed /\ frames # <<>> /\ Leaves /\ ~CallerSaved(win)
      /\ win' = Returned(win) /\ pc' = Quad(win, 0).ret.pc /\ frames' = Left
      /\ UNCHANGED <<redirected, tls, nest, strayed, serial, spent, activity>>
  BY DEF Return, AtRest
<1>1. IsFile(win) /\ Whole(win, frames, StackTop) /\ StackTop \in Nat /\ Len(frames) > 1
  BY <1>0, RestIs DEF Leaves
<1>2. /\ IsFile(win') /\ Whole(win', WithInc(Front(frames), 0), StackTop) /\ win'.mem = win.mem
      /\ Quad(win, 0).ret.pc = Body(frames[Len(frames) - 1].serial)
  BY <1>0, <1>1, ReturnWhole
<1> QED BY <1>0, <1>2, LeavingKeepsWindows

LEMMA SafeReturnKeepsWindows ==
  ASSUME NestInv, WindowsInv, SafeReturn PROVE WindowsInv'
<1> DEFINE n == Quad(win, 0).ret.inc
           c == SafelyReturned(win)
<1>0. /\ pc[1] = "stub" /\ ~strayed /\ Leaves
      /\ win' = [c EXCEPT !.quad[Ahead(c, n)].val = Result]
      /\ pc' = Quad(win, 0).ret.pc /\ frames' = Left
      /\ UNCHANGED <<redirected, tls, nest, strayed, serial, spent, activity>>
  BY DEF SafeReturn, AtStub
<1>1. nest = <<>>
  BY <1>0, NoStubOnTop
<1>2. IsFile(win) /\ Whole(win, frames, StackTop) /\ StackTop \in Nat /\ Len(frames) > 1
  BY <1>0, <1>1, RestIs DEF Leaves
<1>3. win' = ResultAt(c, n)
  BY <1>0, Zenon DEF ResultAt
<1>4. /\ IsFile(win') /\ Whole(win', WithInc(Front(frames), 0), StackTop) /\ win'.mem = win.mem
      /\ Quad(win, 0).ret.pc = Body(frames[Len(frames) - 1].serial)
  BY <1>2, <1>3, SafeReturnWhole
<1> QED BY <1>0, <1>1, <1>4, LeavingKeepsWindows

(* Once it has resumed where no live function is, nothing more is promised *)
(* of its registers, but that they are registers.                          *)
LEMMA StrayedWindows ==
  ASSUME IsFile(win)', win'.mem = win.mem, WindowsInv, strayed', nest' = <<>>,
         UNCHANGED <<redirected, tls, serial, spent, activity>>
  PROVE  WindowsInv'
<1>1. Deep' /\ ThreadDataKept'
  BY DEF WindowsInv, Deep, ThreadDataKept, Allowance
<1> QED BY <1>1, RestWindows

LEMMA ResumeInCallerKeepsWindows ==
  ASSUME NestInv, WindowsInv, ResumeInCaller PROVE WindowsInv'
<1>0. /\ nest = <<>> /\ ~strayed /\ frames # <<>> /\ Word.inc # 0
      /\ win' = SafelyReturned(win) /\ pc' = Word.pc
      /\ UNCHANGED <<redirected, tls, nest, serial, spent, activity>>
  BY DEF ResumeInCaller, Faulty, A0Serves
<1>1. IsFile(win) /\ Whole(win, frames, StackTop) /\ StackTop \in Nat /\ Len(frames) \in Nat
  BY <1>0, RestIs
<1>2. CASE Leaves
  <2>1. frames' = Left /\ strayed' = strayed /\ Len(frames) > 1
    BY <1>2 DEF ResumeInCaller, Leaves
  <2>2. /\ IsFile(win') /\ Whole(win', WithInc(Front(frames), 0), StackTop)
        /\ win'.mem = win.mem /\ Word.pc = Body(frames[Len(frames) - 1].serial)
    BY <1>0, <1>1, <2>1, SafeReturnWhole DEF Word
  <2> QED BY <1>0, <1>2, <2>1, <2>2, LeavingKeepsWindows
<1>3. CASE ~ Leaves
  <2>1. strayed' /\ Len(frames) = 1
    <3>0. strayed'
      BY <1>3 DEF ResumeInCaller
    <3>1. ~ (Len(frames) > 1)
      BY <1>3 DEF Leaves
    <3>2. Len(frames) \in 1..Len(frames)
      BY <1>0, RestIs
    <3>3. Len(frames) = 1
      <4>1. \A l \in Nat : l \in 1..l /\ ~ (l > 1) => l = 1
        OBVIOUS
      <4> QED BY <1>1, <3>1, <3>2, <4>1
    <3> QED BY <3>0, <3>3
  <2>2. PICK o \in 0..Len(frames) : Held(win, frames, StackTop, o)
    BY <1>1 DEF Whole
  <2>3. Word.inc \in Reach
    <3>1. Quad(win, 0) = win.quad[win.wb]
      BY <1>0, RestIs, FirstQuad
    <3>2. win.quad[win.wb].ret.inc = IncOf(frames, 0)
      <4>1. Len(frames) - 1 = 0
        BY <2>1
      <4>2. win.quad[win.wb].ret.inc = IncOf(frames, Len(frames) - 1)
        BY <1>0, <1>1, <2>2, NewestIs
      <4> QED BY <4>1, <4>2
    <3> QED BY <3>1, <3>2 DEF IncOf, Reach, Word
  <2>4. IsFile(win') /\ win'.mem = win.mem
    BY <1>0, <1>1, <2>3, SafelyReturnedFile DEF Word
  <2> QED BY <1>0, <2>1, <2>4, StrayedWindows
<1> QED BY <1>2, <1>3

LEMMA ResumeFromEpcKeepsWindows ==
  ASSUME NestInv, WindowsInv, ResumeFromEpc PROVE WindowsInv'
<1>0. /\ nest = <<>> /\ ~strayed /\ frames # <<>> /\ pc' = epc[1]
      /\ strayed' = (epc[1] # Body(Top.serial))
      /\ frames' = [frames EXCEPT ![Len(frames)].inc = 0]
      /\ UNCHANGED <<win, redirected, tls, nest, serial, spent, activity>>
  BY DEF ResumeFromEpc, Faulty
<1>1. CASE strayed'
  <2>1. IsFile(win)' /\ win'.mem = win.mem
    BY <1>0 DEF WindowsInv
  <2> QED BY <1>0, <1>1, <2>1, StrayedWindows
<1>2. CASE ~ strayed'
  <2>1. /\ IsFile(win) /\ Whole(win, frames, StackTop) /\ Deep /\ ThreadDataKept
        /\ Chain(frames, StackTop) /\ Len(frames) \in Nat /\ Len(frames) \in 1..Len(frames)
        /\ Top = frames[Len(frames)]
    BY <1>0, RestIs
  <2> DEFINE G == WithInc(frames, 0)
  <2>2. frames' = G
    BY <1>0, Zenon DEF WithInc
  <2>3. Len(G) = Len(frames) /\ Alike(frames, G, Len(frames)) /\ IncOf(G, Len(frames)) = 0
    <3>1. 0 \in 0..3
      OBVIOUS
    <3>2. frames # <<>> /\ Chain(frames, StackTop)
      BY <1>0, <2>1
    <3> QED BY <3>1, <3>2, WithIncIs
  <2>4. Whole(win, G, StackTop)
    <3>1. PICK o \in 0..Len(frames) : Held(win, frames, StackTop, o)
      BY <2>1 DEF Whole
    <3>2. Held(win, G, StackTop, o)
      BY <1>0, <3>1, DropInc
    <3> QED BY <2>3, <3>1, <3>2 DEF Whole
  <2> HIDE DEF G
  <2>5. Top' = G[Len(frames)] /\ Top'.serial = Top.serial /\ Top'.inc = 0 /\ frames' # <<>>
    <3>1. Top' = G[Len(frames)]
      BY <2>2, <2>3 DEF Top, Last
    <3>2. G[Len(frames)].serial = frames[Len(frames)].serial
      BY <2>1, <2>3 DEF Alike
    <3>3. Len(frames) # 0
      BY <2>1
    <3> QED BY <2>1, <2>2, <2>3, <3>1, <3>2, <3>3 DEF IncOf
  <2>6. Point' = Body(Top'.serial)
    BY <1>0, <1>2, <2>5 DEF Point
  <2>7. ~ Calling'
    BY <2>6 DEF Calling, Body
  <2>8. Deep'
    BY <1>0, <2>1, <2>2, <2>3, <2>7 DEF Deep, Allowance
  <2>9. ThreadDataKept'
    BY <1>0, <2>1 DEF ThreadDataKept
  <2>10. Control'
    BY <2>5, <2>6, <2>7 DEF Control, Body
  <2>11. IsFile(win)' /\ Whole(win, frames, StackTop)' /\ nest' = <<>>
    <3>1. StackTop' = StackTop
      BY <1>0 DEF StackTop
    <3> QED BY <1>0, <2>1, <2>2, <2>4, <3>1
  <2> QED BY <2>8, <2>9, <2>10, <2>11, RestWindows
<1> QED BY <1>1, <1>2

(* The application starts on a stack of its own, below its thread's data.  *)
LEMMA BootKeepsWindows ==
  ASSUME NestInv, WindowsInv, AtStub, ~redirected, BootFrame,
         UNCHANGED <<nest, strayed, activity>>
  PROVE  WindowsInv'
<1> DEFINE c == WithTls(win)
<1>0. /\ nest = <<>> /\ ~strayed /\ win' = FirstWindow(c, AppTop - 1, BootWord)
      /\ tls' /\ tls' = redirected' /\ pc' = <<"entry", 0>>
      /\ frames' = <<>> /\ serial' = 0 /\ spent' = 0
      /\ ps' = [ps EXCEPT !.callinc = 2, !.excm = FALSE, !.um = TRUE]
  BY NoStubOnTop DEF AtStub, BootFrame, BootTop
<1>1. IsFile(win) /\ Deep /\ ps \in PsType
  BY <1>0, RestIs
<1>2. c = [win EXCEPT !.mem[AppTop - 1] = Template]
  BY <1>1 DEF WithTls, Deep
<1>3. /\ AppTop - 1 \in Nat /\ (AppTop - 1) - 1 \in Addresses /\ AppTop - 1 \in Addresses
      /\ AppTop - 1 # (AppTop - 1) - 1
  BY WindowsAssumption DEF Addresses
<1>4. /\ c.mem = [a \in Addresses |-> c.mem[a]] /\ \A a \in Addresses : IsQuad(c.mem[a])
      /\ c.mem[AppTop - 1] = Template
  <2> DEFINE M == [win.mem EXCEPT ![AppTop - 1] = Template]
  <2>1. c.mem = M
    BY <1>1, <1>2 DEF IsFile
  <2>2. /\ M = [a \in Addresses |-> M[a]] /\ M[AppTop - 1] = Template
        /\ \A a \in Addresses : a # AppTop - 1 => M[a] = win.mem[a]
    BY <1>1, <1>3 DEF IsFile
  <2>3. IsQuad(Template)
    BY DEF IsQuad, Template, Blank
  <2>4. \A a \in Addresses : IsQuad(M[a])
    BY <1>1, <2>2, <2>3 DEF IsFile
  <2> QED BY <2>1, <2>2, <2>4
<1> HIDE DEF c
<1>5. /\ IsFile(win') /\ Whole(win', <<>>, AppTop - 1) /\ Quad(win', 2).ret = BootWord
      /\ \A a \in Addresses : a # (AppTop - 1) - 1 => win'.mem[a] = c.mem[a]
  BY <1>0, <1>3, <1>4, FirstWhole
<1>6. ThreadDataKept'
  BY <1>3, <1>4, <1>5 DEF ThreadDataKept
<1>7. ps'.callinc = 2
  <2> DEFINE called == [ps EXCEPT !.callinc = 2]
  <2>1. called \in PsType /\ called.callinc = 2
    BY <1>1 DEF PsType
  <2>2. ps' = [called EXCEPT !.excm = FALSE, !.um = TRUE]
    BY <1>0
  <2> HIDE DEF called
  <2> QED BY <2>1, <2>2 DEF PsType
<1>8. Deep'
  <2>1. Allowance' \in Nat
    BY <1>0, <1>1, CpuAssumption DEF Deep, Allowance
  <2>2. activity' \in Activities /\ tls' = redirected'
    BY <1>0, <1>1 DEF Deep
  <2>3. /\ spent' \in 0..Allowance' /\ serial' \in Nat
        /\ Len(frames') <= spent' + 1 /\ Len(frames') <= spent'
    <3>1. spent' = 0 /\ serial' = 0 /\ Len(frames') = 0
      BY <1>0
    <3> QED BY <2>1, <3>1
  <2> QED BY <2>2, <2>3, Zenon DEF Deep
<1>9. Point' = <<"entry", 0>> /\ PointPs' = ps' /\ Len(frames') = 0 /\ IncOf(frames', 0) = 2
  BY <1>0 DEF Point, PointPs, IncOf
<1>10. NewWord'
  <2>1. BootWord \in [inc : {2}, pc : {Kernel, Halt}]
    BY DEF BootWord
  <2> QED BY <1>0, <1>5, <1>7, <1>9, <2>1 DEF NewWord, Reach
<1>11. Control'
  BY <1>0, <1>9, <1>10 DEF Control
<1>12. IsFile(win)' /\ Whole(win, frames, StackTop)' /\ nest' = <<>>
  <2>1. StackTop' = AppTop - 1
    BY <1>0 DEF StackTop, BootTop
  <2> QED BY <1>0, <1>5, <2>1
<1> QED BY <1>6, <1>8, <1>11, <1>12, RestWindows

(* The windows that the simulator makes up after a reset.                  *)
LEMMA FirstWindows ==
  ASSUME NEW c, c.mem = [a \in Addresses |-> c.mem[a]], \A a \in Addresses : IsQuad(c.mem[a]),
         win = FirstWindow(c, AppTop, KernelWord), pc = <<"entry", 0>>, ps.callinc = 2,
         ~redirected, tls = redirected, frames = <<>>, nest = <<>>, ~strayed, serial = 0, spent = 0,
         activity \in Activities
  PROVE  WindowsInv
<1>1. AppTop \in Nat /\ AppTop - 1 \in Addresses
  BY WindowsAssumption DEF Addresses
<1>2. IsFile(win) /\ Whole(win, <<>>, AppTop) /\ Quad(win, 2).ret = KernelWord
  BY <1>1, FirstWhole
<1>3. ThreadDataKept
  BY DEF ThreadDataKept
<1>4. Deep
  <2>1. Allowance \in Nat
    BY CpuAssumption DEF Allowance
  <2> QED BY <2>1 DEF Deep
<1>5. Point = <<"entry", 0>> /\ PointPs = ps /\ Len(frames) = 0 /\ IncOf(frames, 0) = 2
  BY DEF Point, PointPs, IncOf
<1>6. NewWord
  <2>1. KernelWord \in [inc : {2}, pc : {Kernel, Halt}]
    BY DEF KernelWord
  <2> QED BY <1>2, <1>5, <2>1 DEF NewWord, Reach
<1>7. Control
  BY <1>5, <1>6 DEF Control
<1>8. Whole(win, frames, StackTop)
  <2>1. StackTop = AppTop
    BY DEF StackTop
  <2> QED BY <1>2, <2>1
<1> QED BY <1>2, <1>3, <1>4, <1>7, <1>8 DEF WindowsInv, CallincKept

LEMMA WindowsStart == CpuInit => WindowsInv
<1> SUFFICES ASSUME CpuInit PROVE WindowsInv
  OBVIOUS
<1>1. /\ win = FirstWindow(NoFile, AppTop, KernelWord) /\ pc = <<"entry", 0>> /\ ps.callinc = 2
      /\ ~redirected /\ tls = redirected /\ frames = <<>> /\ nest = <<>> /\ ~strayed /\ serial = 0
      /\ spent = 0 /\ activity \in Activities
  BY DEF CpuInit
<1>2. /\ NoFile.mem = [a \in Addresses |-> NoFile.mem[a]]
      /\ \A a \in Addresses : IsQuad(NoFile.mem[a])
  BY DEF NoFile, IsQuad, Blank
<1> QED BY <1>1, <1>2, FirstWindows

LEMMA ResetWindows == ASSUME WindowsInv, Reset PROVE WindowsInv'
<1>1. /\ win' = FirstWindow(win, AppTop, KernelWord) /\ pc' = <<"entry", 0>> /\ ps'.callinc = 2
      /\ ~redirected' /\ tls' = redirected' /\ frames' = <<>> /\ nest' = <<>> /\ ~strayed'
      /\ serial' = 0 /\ spent' = 0 /\ activity' \in Activities
  BY DEF Reset, WindowsInv, Deep
<1>2. /\ win.mem = [a \in Addresses |-> win.mem[a]]
      /\ \A a \in Addresses : IsQuad(win.mem[a])
  BY DEF WindowsInv, IsFile
<1>3. AppTop \in Nat /\ AppTop - 1 \in Addresses
  BY WindowsAssumption DEF Addresses
<1>4. IsFile(win') /\ Whole(win', <<>>, AppTop) /\ Quad(win', 2).ret = KernelWord
  BY <1>1, <1>2, <1>3, FirstWhole
<1>5. ThreadDataKept'
  BY <1>1 DEF ThreadDataKept
<1>6. Deep'
  <2>1. Allowance' \in Nat
    BY <1>1, CpuAssumption DEF Allowance
  <2> QED BY <1>1, <2>1 DEF Deep
<1>7. Point' = <<"entry", 0>> /\ PointPs' = ps' /\ Len(frames') = 0 /\ IncOf(frames', 0) = 2
  BY <1>1 DEF Point, PointPs, IncOf
<1>8. NewWord'
  <2>1. KernelWord \in [inc : {2}, pc : {Kernel, Halt}]
    BY DEF KernelWord
  <2> QED BY <1>1, <1>4, <1>7, <2>1 DEF NewWord, Reach
<1>9. Control'
  BY <1>1, <1>7, <1>8 DEF Control
<1>10. IsFile(win)' /\ Whole(win, frames, StackTop)' /\ nest' = <<>>
  <2>1. StackTop' = AppTop
    BY <1>1 DEF StackTop
  <2> QED BY <1>1, <1>4, <2>1
<1> QED BY <1>5, <1>6, <1>9, <1>10, RestWindows

(* Interrupts leave the windows and the frames alone.                      *)
LEMMA AsideKeepsWindows ==
  ASSUME WindowsInv, UNCHANGED <<win, redirected, tls, frames, strayed, serial, activity>>,
         spent' \in spent..Allowance, Point' = Point, PointPs'.callinc = PointPs.callinc,
         CallincKept', strayed => nest' = <<>>
  PROVE  WindowsInv'
<1>1. IsFile(win)' /\ ThreadDataKept' /\ Whole(win, frames, StackTop)' = Whole(win, frames, StackTop)
  BY DEF WindowsInv, ThreadDataKept, StackTop, BootTop
<1>2. Calling' = Calling /\ Top' = Top /\ Allowance' = Allowance
  BY DEF Calling, Top, Allowance
<1>3. Deep'
  <2>1. Deep
    BY DEF WindowsInv
  <2>2. spent \in Nat /\ Allowance \in Nat
    BY <2>1, DepthIs
  <2>3. spent' \in 0..Allowance' /\ spent' \in Nat /\ spent <= spent'
    BY <1>2, <2>2
  <2>4. ~strayed => Len(frames) \in Nat
    BY WholeIs DEF WindowsInv
  <2>5. /\ ~strayed => Len(frames') <= spent' + 1
        /\ ~strayed /\ Calling => Len(frames') <= spent'
    <3>1. /\ ~strayed => Len(frames) <= spent + 1
          /\ ~strayed /\ Calling => Len(frames) <= spent
      BY <2>1 DEF Deep
    <3> QED BY <2>2, <2>3, <2>4, <3>1
  <2>6. activity' \in Activities /\ tls' = redirected' /\ serial' \in Nat
    BY <2>1 DEF Deep
  <2> QED BY <1>2, <2>3, <2>5, <2>6 DEF Deep
<1>4. Control => Control'
  <2>1. NewWord => NewWord'
    BY <1>2 DEF NewWord
  <2> QED BY <1>2, <2>1 DEF Control
<1> QED BY <1>1, <1>3, <1>4 DEF WindowsInv

LEMMA TrapKeepsWindows ==
  ASSUME NestInv, WindowsInv, ~strayed, NEW l \in Levels, Trap(l),
         UNCHANGED <<win, redirected, tls, frames, strayed, serial, spent, activity>>
  PROVE  WindowsInv'
<1> DEFINE h == [level |-> l, phase |-> "raw", pc |-> pc, ps |-> ps]
           n == Len(nest)
<1>0. /\ ps' = [ps EXCEPT !.excm = TRUE, !.level = IF l > 1 THEN l ELSE @]
      /\ nest' = Append(nest, h) /\ ps \in PsType
  BY DEF Trap, NestInv, NestTypes
<1>1. h.pc = pc /\ h.ps = ps
  OBVIOUS
<1> HIDE DEF h
<1>2. PICK pcs : nest \in Seq(Interrupt(pcs))
  BY DEF NestInv, NestTypes
<1>3. /\ n \in Nat /\ nest' # <<>> /\ Len(nest') = n + 1 /\ nest'[n + 1] = h
      /\ \A i \in 1..n : nest'[i] = nest[i]
  <2>1. n \in Nat /\ nest \in Seq({nest[i] : i \in 1..n} \cup {h})
    BY <1>2
  <2>2. /\ Len(nest') = n + 1 /\ nest'[n + 1] = h /\ \A i \in 1..n : nest'[i] = nest[i]
        /\ nest' \in Seq({nest[i] : i \in 1..n} \cup {h})
    BY <1>0, <2>1, AddMember
  <2>3. n + 1 # 0
    BY <2>1
  <2> QED BY <2>1, <2>2, <2>3
<1>4. ps'.callinc = ps.callinc
  BY <1>0 DEF PsType
<1>5. Point' = Point /\ PointPs' = PointPs
  <2>1. CASE nest = <<>>
    <3>1. nest'[1] = h
      BY <1>3, <2>1
    <3> QED BY <1>1, <1>3, <2>1, <3>1 DEF Point, PointPs
  <2>2. CASE nest # <<>>
    <3>1. 1 \in 1..n
      BY <1>2, <1>3, <2>2
    <3>2. nest'[1] = nest[1]
      BY <1>3, <3>1
    <3> QED BY <1>3, <2>2, <3>2 DEF Point, PointPs
  <2> QED BY <2>1, <2>2
<1>6. CallincKept'
  <2> SUFFICES ASSUME NEW i \in DOMAIN nest', nest'[i].level = 1 /\ nest'[i].phase # "saved"
               PROVE  PsAt(i)'.callinc = nest'[i].ps.callinc
    BY DEF CallincKept
  <2>1. i \in 1..n \/ i = n + 1
    <3>1. DOMAIN nest' = 1..(n + 1)
      BY <1>0, <1>2, <1>3
    <3> QED BY <1>3, <3>1
  <2>2. CASE i = n + 1
    <3>1. PsAt(i)' = ps'
      BY <1>3, <2>2 DEF PsAt
    <3> QED BY <1>1, <1>3, <1>4, <2>2, <3>1
  <2>3. CASE i \in 1..n
    <3>1. PsAt(i)' = PsAt(i)
      <4>1. i # n + 1
        BY <1>3, <2>3
      <4>2. PsAt(i)' = nest'[i + 1].ps
        BY <1>3, <4>1 DEF PsAt
      <4>3. CASE i = n
        BY <1>1, <1>3, <4>2, <4>3 DEF PsAt
      <4>4. CASE i # n
        <5>1. i + 1 \in 1..n
          BY <1>3, <2>3, <4>4
        <5> QED BY <1>3, <4>2, <4>4, <5>1 DEF PsAt
      <4> QED BY <4>3, <4>4
    <3>2. i \in DOMAIN nest
      BY <1>2, <2>3
    <3>3. nest'[i] = nest[i] /\ PsAt(i).callinc = nest[i].ps.callinc
      BY <1>3, <2>3, <3>2 DEF WindowsInv, CallincKept
    <3> QED BY <3>1, <3>3
  <2> QED BY <2>1, <2>2, <2>3
<1>7. spent' \in spent..Allowance
  <2>1. Deep
    BY DEF WindowsInv
  <2>2. spent \in 0..Allowance /\ spent \in Nat /\ Allowance \in Nat
    BY <2>1, DepthIs DEF Deep
  <2> QED BY <2>2
<1> QED BY <1>5, <1>6, <1>7, AsideKeepsWindows

(* The handler on top changes its phase.                                   *)
LEMMA PhaseKeepsWindows ==
  ASSUME NestInv, WindowsInv, ~strayed, nest # <<>>, NEW phase,
         nest' = InPhase(nest, Len(nest), phase),
         phase = "saved" \/ (Handler.level = 1 => ps'.callinc = Handler.ps.callinc),
         UNCHANGED <<win, redirected, tls, frames, strayed, serial, spent, activity>>
  PROVE  WindowsInv'
<1> DEFINE n == Len(nest)
           g == [nest[n] EXCEPT !.phase = phase]
<1>1. PICK pcs : nest \in Seq(Interrupt(pcs))
  BY DEF NestInv, NestTypes
<1>2. n \in Nat \ {0} /\ n \in 1..n /\ Handler = nest[n]
  <2>1. n \in Nat \ {0} /\ Handler = nest[n]
    BY NestIs
  <2> QED BY <2>1
<1>3. nest[n] \in Interrupt(pcs)
  BY <1>1, <1>2, MemberOfSeq
<1>4. g.phase = phase /\ g.level = nest[n].level /\ g.pc = nest[n].pc /\ g.ps = nest[n].ps
  BY <1>3 DEF Interrupt
<1>5. nest' = [nest EXCEPT ![n] = g]
  BY <1>2, Zenon DEF InPhase
<1> HIDE DEF g
<1>6. /\ Len(nest') = n /\ nest'[n] = g /\ nest' # <<>> /\ DOMAIN nest' = 1..n
      /\ \A i \in 1..n : i # n => nest'[i] = nest[i]
  <2>1. DOMAIN nest = 1..n
    BY <1>1
  <2>2. DOMAIN nest' = 1..n
    BY <1>5, <2>1
  <2>3. nest'[n] = g /\ \A i \in 1..n : i # n => nest'[i] = nest[i]
    BY <1>2, <1>5, <2>1
  <2>4. Len(nest') = n
    BY <1>1, <1>2, <1>5
  <2>5. nest' # <<>>
    BY <1>2, <2>4
  <2> QED BY <2>2, <2>3, <2>4, <2>5
<1>7. \A i \in 1..n : /\ nest'[i].level = nest[i].level /\ nest'[i].pc = nest[i].pc
                      /\ nest'[i].ps = nest[i].ps
  BY <1>2, <1>4, <1>6
<1>8. Point' = Point /\ PointPs' = PointPs
  <2>1. 1 \in 1..n
    BY <1>2
  <2> QED BY <1>6, <1>7, <2>1 DEF Point, PointPs
<1>9. CallincKept'
  <2> SUFFICES ASSUME NEW i \in 1..n, nest'[i].level = 1 /\ nest'[i].phase # "saved"
               PROVE  PsAt(i)'.callinc = nest'[i].ps.callinc
    BY <1>6 DEF CallincKept
  <2>1. CASE i = n
    <3>1. PsAt(i)' = ps'
      BY <1>6, <2>1 DEF PsAt
    <3>2. phase # "saved" /\ Handler.level = 1
      BY <1>2, <1>4, <1>6, <2>1
    <3> QED BY <1>2, <1>7, <2>1, <3>1, <3>2
  <2>2. CASE i # n
    <3>1. i + 1 \in 1..n /\ i \in DOMAIN nest
      BY <1>1, <1>2, <2>2
    <3>2. PsAt(i)' = PsAt(i)
      BY <1>6, <1>7, <2>2, <3>1 DEF PsAt
    <3>3. nest'[i] = nest[i]
      BY <1>6, <2>2
    <3>4. PsAt(i).callinc = nest[i].ps.callinc
      BY <3>1, <3>3 DEF WindowsInv, CallincKept
    <3> QED BY <3>2, <3>3, <3>4
  <2> QED BY <2>1, <2>2
<1>10. spent' \in spent..Allowance
  <2>1. Deep
    BY DEF WindowsInv
  <2>2. spent \in 0..Allowance /\ spent \in Nat /\ Allowance \in Nat
    BY <2>1, DepthIs DEF Deep
  <2> QED BY <2>2
<1> QED BY <1>8, <1>9, <1>10, AsideKeepsWindows

LEMMA SavesKeepsWindows ==
  ASSUME NestInv, WindowsInv, HandlerSaves PROVE WindowsInv'
<1>1. /\ ~strayed /\ nest # <<>> /\ nest' = InPhase(nest, Len(nest), "saved")
      /\ UNCHANGED <<win, redirected, tls, frames, strayed, serial, spent, activity>>
  BY DEF HandlerSaves, InPhase, Interrupts
<1> QED BY <1>1, PhaseKeepsWindows

LEMMA RestoresKeepsWindows ==
  ASSUME NestInv, WindowsInv, HandlerRestores PROVE WindowsInv'
<1>1. /\ ~strayed /\ nest # <<>> /\ nest' = InPhase(nest, Len(nest), "restored")
      /\ Handler.level = 1 => ps' = [Handler.ps EXCEPT !.excm = TRUE]
      /\ UNCHANGED <<win, redirected, tls, frames, strayed, serial, spent, activity>>
  BY DEF HandlerRestores, InPhase, Interrupts, SavedHandler
<1>2. Handler.ps \in PsType
  BY <1>1, NestIs
<1>3. Handler.level = 1 => ps'.callinc = Handler.ps.callinc
  BY <1>1, <1>2 DEF PsType
<1> QED BY <1>1, <1>3, PhaseKeepsWindows

LEMMA ReturnFromKeepsWindows ==
  ASSUME NestInv, WindowsInv, ReturnFromInterrupt PROVE WindowsInv'
<1> DEFINE n == Len(nest)
<1>0. /\ ~strayed /\ nest # <<>> /\ Handler.phase # "saved" /\ nest' = Front(nest)
      /\ pc' = epc[Handler.level]
      /\ ps' = (IF Handler.level = 1 THEN [ps EXCEPT !.excm = FALSE] ELSE eps[Handler.level])
      /\ UNCHANGED <<win, redirected, tls, frames, strayed, serial, spent, activity>>
  BY DEF ReturnFromInterrupt, Interrupts
<1>1. PICK pcs : nest \in Seq(Interrupt(pcs))
  BY DEF NestInv, NestTypes
<1>2. /\ n \in Nat \ {0} /\ Handler = nest[n] /\ Handler.level \in Nat \ {0} /\ n \in DOMAIN nest
      /\ ps \in PsType
  <2>1. n \in Nat \ {0} /\ Handler = nest[n] /\ Handler.level \in Nat \ {0} /\ ps \in PsType
    BY <1>0, NestIs
  <2>2. DOMAIN nest = 1..n
    BY <1>1
  <2> QED BY <2>1, <2>2
<1>3. /\ nest' \in Seq(Interrupt(pcs)) /\ Len(nest') = n - 1
      /\ \A i \in 1..(n - 1) : nest'[i] = nest[i]
  BY <1>0, <1>1, FrontIs
<1>4. pc' = nest[n].pc /\ ps'.callinc = nest[n].ps.callinc
  <2>1. pc' = nest[n].pc /\ (Handler.level > 1 => eps[Handler.level] = nest[n].ps)
    BY <1>0, <1>2 DEF NestInv, ContextKept
  <2>2. CASE Handler.level = 1
    <3>1. PsAt(n).callinc = nest[n].ps.callinc /\ PsAt(n) = ps
      BY <1>0, <1>2, <2>2 DEF WindowsInv, CallincKept, PsAt
    <3>2. ps'.callinc = ps.callinc
      BY <1>0, <1>2, <2>2 DEF PsType
    <3> QED BY <2>1, <3>1, <3>2
  <2>3. CASE Handler.level # 1
    <3>1. Handler.level > 1
      BY <1>2, <2>3
    <3> QED BY <1>0, <2>1, <2>3, <3>1
  <2> QED BY <2>2, <2>3
<1>5. Point' = Point /\ PointPs'.callinc = PointPs.callinc
  <2>1. CASE n = 1
    <3>1. nest' = <<>>
      BY <1>3, <2>1
    <3> QED BY <1>0, <1>4, <2>1, <3>1 DEF Point, PointPs
  <2>2. CASE n # 1
    <3>1. 1 \in 1..(n - 1) /\ n - 1 # 0
      <4>1. \A m \in Nat \ {0} : m # 1 => 1 \in 1..(m - 1) /\ m - 1 # 0
        OBVIOUS
      <4> QED BY <1>2, <2>2, <4>1
    <3>2. nest' # <<>> /\ nest'[1] = nest[1]
      BY <1>3, <3>1
    <3> QED BY <1>0, <3>2 DEF Point, PointPs
  <2> QED BY <2>1, <2>2
<1>6. CallincKept'
  <2> SUFFICES ASSUME NEW i \in DOMAIN nest', nest'[i].level = 1 /\ nest'[i].phase # "saved"
               PROVE  PsAt(i)'.callinc = nest'[i].ps.callinc
    BY DEF CallincKept
  <2>1. i \in 1..(n - 1) /\ i \in DOMAIN nest /\ i # n /\ nest'[i] = nest[i]
    <3>1. DOMAIN nest' = 1..(n - 1) /\ DOMAIN nest = 1..n
      BY <1>1, <1>3
    <3>2. i \in 1..(n - 1) /\ i \in 1..n /\ i # n
      BY <1>2, <3>1
    <3> QED BY <1>3, <3>1, <3>2
  <2>2. PsAt(i).callinc = nest[i].ps.callinc /\ PsAt(i) = nest[i + 1].ps
    BY <2>1 DEF WindowsInv, CallincKept, PsAt
  <2>3. CASE i = n - 1
    <3>1. PsAt(i)' = ps' /\ i + 1 = n
      BY <1>2, <1>3, <2>3 DEF PsAt
    <3> QED BY <1>4, <2>1, <2>2, <3>1
  <2>4. CASE i # n - 1
    <3>1. i + 1 \in 1..(n - 1)
      BY <1>2, <2>1, <2>4
    <3>2. PsAt(i)' = nest[i + 1].ps
      BY <1>3, <2>4, <3>1 DEF PsAt
    <3> QED BY <2>1, <2>2, <3>2
  <2> QED BY <2>3, <2>4
<1>7. spent' \in spent..Allowance
  <2>1. Deep
    BY DEF WindowsInv
  <2>2. spent \in 0..Allowance /\ spent \in Nat /\ Allowance \in Nat
    BY <2>1, DepthIs DEF Deep
  <2> QED BY <1>0, <2>2
<1> QED BY <1>0, <1>5, <1>6, <1>7, AsideKeepsWindows

LEMMA CpuKeepsWindows ==
  ASSUME NestInv, WindowsInv, CpuNext PROVE WindowsInv'
<1>1. CASE Overflow \/ Enter \/ Underflow \/ Return \/ SafeReturn
  BY <1>1, OverflowKeepsWindows, EnterKeepsWindows, UnderflowKeepsWindows, ReturnKeepsWindows,
     SafeReturnKeepsWindows
<1>2. ASSUME NEW n \in Reach, NEW kind \in {"entry", "patched", "hole"}, Call(n, kind)
      PROVE  WindowsInv'
  BY <1>2, CallKeepsWindows
<1>3. ASSUME NEW n \in Reach, NEW kind \in HookKinds, Hook(n, kind) PROVE WindowsInv'
  <2>1. kind \in {"return", "helper", "task"} /\ (kind = "task" => ~Unmarred)
    BY CpuAssumption DEF Unmarred
  <2> QED BY <1>3, <2>1, AnswerKeepsWindows DEF Hook
<1>4. CASE SchedulerReturns \/ AssertRedirect
  BY <1>4, BootKeepsWindows DEF SchedulerReturns, AssertRedirect
<1>5. CASE SchedulerAgain
  <2>1. /\ nest' = <<>> /\ strayed' /\ win' = win
        /\ UNCHANGED <<redirected, tls, serial, spent, activity>>
    BY <1>5, NoStubOnTop DEF SchedulerAgain, AtStub
  <2>2. IsFile(win)' /\ win'.mem = win.mem
    BY <2>1 DEF WindowsInv
  <2> QED BY <2>1, <2>2, StrayedWindows
<1>6. CASE ResumeInCaller \/ ResumeFromEpc
  BY <1>6, ResumeInCallerKeepsWindows, ResumeFromEpcKeepsWindows
<1>7. ASSUME UNCHANGED <<win, pc, ps, redirected, tls, frames, nest, strayed, serial, activity>>,
             spent' \in spent..Allowance
      PROVE  WindowsInv'
  <2>1. Point' = Point /\ PointPs' = PointPs
    BY <1>7 DEF Point, PointPs
  <2>2. CallincKept' /\ (strayed => nest' = <<>>)
    BY <1>7 DEF WindowsInv, CallincKept, PsAt
  <2> QED BY <1>7, <2>1, <2>2, AsideKeepsWindows
<1>8. spent \in Nat /\ Allowance \in Nat /\ spent \in spent..Allowance
  <2>1. Deep
    BY DEF WindowsInv
  <2>2. spent \in Nat /\ Allowance \in Nat /\ spent \in 0..Allowance
    BY <2>1, DepthIs DEF Deep
  <2> QED BY <2>2
<1>9. CASE StopForGood \/ Waiti \/ Tick
  <2>1. /\ UNCHANGED <<win, pc, ps, redirected, tls, frames, nest, strayed, serial, activity>>
        /\ spent' = spent
    BY <1>9 DEF StopForGood, Waiti, Tick
  <2> QED BY <1>7, <1>8, <2>1
<1>10. ASSUME NEW l \in Levels, Raise(l) PROVE WindowsInv'
  <2>1. /\ UNCHANGED <<win, pc, ps, redirected, tls, frames, nest, strayed, serial, activity>>
        /\ spent < Allowance /\ spent' = spent + 1
    BY <1>10 DEF Raise, Spends
  <2>2. spent' \in spent..Allowance
    BY <1>8, <2>1
  <2> QED BY <1>7, <2>1, <2>2
<1>11. CASE Take
  <2> DEFINE l == Max(pending)
  <2>1. l \in Levels
    BY <1>11, MaxPending DEF Take, NestInv, NestTypes
  <2>2. /\ Trap(l) /\ ~strayed
        /\ UNCHANGED <<win, redirected, tls, frames, strayed, serial, spent, activity>>
    BY <1>11 DEF Take, Interrupts
  <2> HIDE DEF l
  <2> QED BY <2>1, <2>2, TrapKeepsWindows
<1>12. CASE Exception
  <2>1. /\ Trap(1) /\ ~strayed /\ 1 \in Levels
        /\ UNCHANGED <<win, redirected, tls, frames, strayed, serial, spent, activity>>
    BY <1>12, LevelsAre DEF Exception, Interrupts
  <2> QED BY <2>1, TrapKeepsWindows
<1>13. CASE HandlerSaves \/ HandlerRestores \/ ReturnFromInterrupt
  BY <1>13, SavesKeepsWindows, RestoresKeepsWindows, ReturnFromKeepsWindows
<1> QED BY <1>1, <1>2, <1>3, <1>4, <1>5, <1>6, <1>9, <1>10, <1>11, <1>12, <1>13 DEF CpuNext

LEMMA WindowsStep ==
  ASSUME NestInv, WindowsInv, [Next]_vars PROVE WindowsInv'
<1>1. CASE UNCHANGED cpuVars
  <2>1. /\ UNCHANGED <<win, pc, ps, redirected, tls, frames, nest, strayed, serial, spent, activity>>
    BY <1>1 DEF cpuVars
  <2>2. Point' = Point /\ PointPs' = PointPs
    BY <2>1 DEF Point, PointPs
  <2>3. CallincKept' /\ (strayed => nest' = <<>>)
    BY <2>1 DEF WindowsInv, CallincKept, PsAt
  <2>4. spent' \in spent..Allowance
    <3>1. Deep
      BY DEF WindowsInv
    <3>2. spent \in Nat /\ Allowance \in Nat /\ spent \in 0..Allowance
      BY <3>1, DepthIs DEF Deep
    <3> QED BY <2>1, <3>2
  <2> QED BY <2>1, <2>2, <2>3, <2>4, AsideKeepsWindows
<1>2. CASE CoreSteps
  BY <1>2, CpuKeepsWindows DEF CoreSteps
<1>3. CASE Restart
  BY <1>3, ResetWindows DEF Restart
<1>4. ASSUME NEW who, Asks(who) PROVE WindowsInv'
  <2>1. CASE who = "task"
    <3>1. Answered(2, "helper") /\ 2 \in Reach
      BY <1>4, <2>1 DEF Asks, Reach
    <3> QED BY <3>1, AnswerKeepsWindows
  <2>2. CASE who # "task"
    BY <1>1, <1>4, <2>2 DEF Asks
  <2> QED BY <2>1, <2>2
<1> QED BY <1>1, <1>2, <1>3, <1>4 DEF Next, vars, Locks, Words, Setup, Copies, Events

(* What the invariant says of the frames, in the words of the firmware.    *)
LEMMA FrameFound ==
  ASSUME NEW T \in Nat, NEW o \in 0..Len(frames), Held(win, frames, T, o), T = StackTop,
         NEW i \in DOMAIN frames
  PROVE  InFile(i) <=> o <= i
<1>1. /\ Chain(frames, T) /\ Ring(win, frames, o) /\ Len(frames) \in Nat
      /\ DOMAIN frames = 1..Len(frames)
  <2>1. Chain(frames, T) /\ Ring(win, frames, o) /\ Len(frames) \in Nat /\ frames \in Seq(Frame)
    BY ChainIs DEF Held
  <2> QED BY <2>1
<1>2. win.ws = {BaseOf(frames, j) : j \in o..Len(frames)}
  BY <1>1 DEF Ring
<1>3. \A j \in 1..Len(frames) : frames[j].base = BaseOf(frames, j)
  BY DEF BaseOf
<1>4. ASSUME NEW j \in o..Len(frames), NEW k \in o..Len(frames), j < k
      PROVE  BaseOf(frames, j) # BaseOf(frames, k)
  <2>1. Down(win.wb, BaseOf(frames, k)) + IncOf(frames, j) <= Down(win.wb, BaseOf(frames, j))
    BY <1>1, <1>4 DEF Ring
  <2>2. IncOf(frames, j) \in Reach
    <3>1. j < Len(frames)
      BY <1>1, <1>4
    <3> QED BY <1>1, <3>1, RingIs
  <2>3. Down(win.wb, BaseOf(frames, k)) \in Int
    <3>1. win.wb \in Places /\ BaseOf(frames, k) \in Places
      BY <1>1, RingIs
    <3> QED BY <3>1, DownIs, SizesAre
  <2> QED BY <2>1, <2>2, <2>3 DEF Reach
<1>5. CASE o <= i
  <2>1. i \in o..Len(frames) /\ i \in 1..Len(frames)
    BY <1>1, <1>5
  <2>2. frames[i].base \in win.ws
    BY <1>2, <1>3, <2>1
  <2>3. ASSUME NEW j \in DOMAIN frames, j > i PROVE frames[j].base # frames[i].base
    <3>1. j \in o..Len(frames) /\ j \in 1..Len(frames) /\ i < j
      BY <1>1, <2>1, <2>3
    <3> QED BY <1>3, <1>4, <2>1, <3>1
  <2> QED BY <1>5, <2>2, <2>3 DEF InFile
<1>6. CASE ~ (o <= i)
  <2>1. i \in 1..Len(frames)
    BY <1>1
  <2>2. ASSUME NEW j \in o..Len(frames), frames[i].base = BaseOf(frames, j) PROVE ~ InFile(i)
    <3>1. j \in DOMAIN frames /\ j > i /\ j \in 1..Len(frames)
      BY <1>1, <1>6, <2>1
    <3>2. frames[j].base = frames[i].base
      BY <1>3, <2>2, <3>1
    <3> QED BY <3>1, <3>2 DEF InFile
  <2>3. ~ InFile(i)
    BY <1>2, <2>2 DEF InFile
  <2> QED BY <1>6, <2>3
<1> QED BY <1>5, <1>6

LEMMA FramesFound == Unmarred /\ WindowsInv => FramesKept
<1> SUFFICES ASSUME Unmarred, WindowsInv, ~strayed
             PROVE  /\ \A i \in DOMAIN frames : WholeFrame(i)
                    /\ Point[2] = IF frames = <<>> THEN 0 ELSE Top.serial
  BY DEF FramesKept
<1> DEFINE T == StackTop
<1>0. /\ IsFile(win) /\ Control /\ Whole(win, frames, T) /\ T \in Nat
  BY DepthIs DEF WindowsInv
<1> HIDE DEF T
<1>1. PICK o \in 0..Len(frames) : Held(win, frames, T, o)
  BY <1>0 DEF Whole
<1>2. /\ Chain(frames, T) /\ Ring(win, frames, o) /\ InWindows(win, frames, T, o)
      /\ InMemory(win, frames, T, o) /\ Len(frames) \in Nat /\ frames \in Seq(Frame)
      /\ DOMAIN frames = 1..Len(frames) /\ win.wb \in Places /\ win.wb = BaseOf(frames, Len(frames))
  <2>1. /\ Chain(frames, T) /\ Ring(win, frames, o) /\ InWindows(win, frames, T, o)
        /\ InMemory(win, frames, T, o)
    BY <1>1 DEF Held
  <2>2. Len(frames) \in Nat /\ frames \in Seq(Frame) /\ win.wb \in Places
    BY <2>1, ChainIs, RingIs
  <2> QED BY <2>1, <2>2 DEF Ring
<1>3. ASSUME NEW i \in DOMAIN frames PROVE WholeFrame(i)
  <2> DEFINE f == frames[i]
             b == SavedBase(i)
  <2>1. /\ i \in 1..Len(frames) /\ i \in 0..Len(frames) /\ i > 0 /\ i \in Nat /\ f.sp = T - 3 * i
        /\ BaseOf(frames, i) = f.base /\ IncOf(frames, i) = f.inc /\ f.inc \in 0..3
    <3>1. i \in 1..Len(frames) /\ i \in 0..Len(frames) /\ i > 0 /\ i \in Nat /\ i # 0
      BY <1>2
    <3>2. f.sp = T - 3 * i
      BY <1>2, <3>1 DEF Chain
    <3>3. BaseOf(frames, i) = f.base /\ IncOf(frames, i) = f.inc
      BY <3>1 DEF BaseOf, IncOf
    <3>4. f.inc \in 0..3
      BY <1>2, <3>1, <3>3, ChainIs
    <3> QED BY <3>1, <3>2, <3>3, <3>4
  <2>2. InFile(i) <=> o <= i
    BY <1>0, <1>1, FrameFound DEF T
  <2>3. IsQuad(b) /\ HasBase(b, frames, T, i)
    <3>1. CASE o <= i
      <4>1. i \in o..Len(frames) /\ f.base \in Places
        <5>1. i \in o..Len(frames)
          BY <1>1, <1>2, <2>1, <3>1
        <5> QED BY <1>2, <2>1, <5>1, RingIs
      <4>2. b = win.quad[f.base]
        BY <2>2, <3>1 DEF SavedBase
      <4>3. IsQuad(win.quad[f.base])
        BY <1>0, <4>1 DEF IsFile
      <4>4. HasBase(win.quad[f.base], frames, T, i)
        BY <1>2, <2>1, <4>1 DEF InWindows
      <4> QED BY <4>2, <4>3, <4>4
    <3>2. CASE ~ (o <= i)
      <4>1. i # Len(frames) /\ i + 1 \in 1..Len(frames) /\ i \in 0..(o - 1)
        BY <1>1, <1>2, <2>1, <3>2
      <4>2. frames[i + 1].sp - 1 = BaseArea(T, i)
        <5>1. frames[i + 1].sp = T - 3 * (i + 1)
          BY <1>2, <4>1 DEF Chain
        <5> QED BY <1>0, <2>1, <5>1 DEF BaseArea
      <4>3. b = Load(win, BaseArea(T, i))
        BY <2>2, <3>2, <4>1, <4>2 DEF SavedBase
      <4>4. IsQuad(Load(win, BaseArea(T, i)))
        BY <1>0, LoadIs
      <4>5. HasBase(Load(win, BaseArea(T, i)), frames, T, i)
        BY <1>2, <4>1 DEF InMemory
      <4> QED BY <4>3, <4>4, <4>5
    <3> QED BY <3>1, <3>2
  <2>4. ASSUME NEW k \in 1..(f.inc - 1) PROVE SavedExtra(i, k).val = Own(f.serial, k)
    <3>0. k \in 1..(IncOf(frames, i) - 1)
      BY <2>1
    <3>1. CASE o <= i
      <4>1. i \in o..Len(frames)
        BY <1>1, <1>2, <2>1, <3>1
      <4>2. HasExtra(win.quad[Up(BaseOf(frames, i), k)], frames, i, k)
        BY <1>2, <3>0, <4>1 DEF InWindows
      <4>3. SavedExtra(i, k) = win.quad[Up(f.base, k)]
        BY <2>2, <3>1 DEF SavedExtra, Up
      <4> QED BY <2>1, <4>2, <4>3 DEF HasExtra
    <3>2. CASE ~ (o <= i)
      <4>1. i \in 0..(o - 1)
        BY <1>1, <1>2, <2>1, <3>2
      <4>2. HasExtra(Load(win, ExtraArea(frames, T, i, k)), frames, i, k)
        BY <1>2, <3>0, <4>1 DEF InMemory
      <4>3. (IF i = 1 THEN T ELSE frames[i - 1].sp) = T - 3 * (i - 1)
        <5>1. i # 1 => i - 1 \in 1..Len(frames)
          BY <1>2, <2>1
        <5>2. i # 1 => frames[i - 1].sp = T - 3 * (i - 1)
          BY <1>2, <5>1 DEF Chain
        <5>3. i = 1 => T = T - 3 * (i - 1)
          BY <1>0
        <5> QED BY <5>2, <5>3
      <4>4. SavedExtra(i, k) = Load(win, (IF i = 1 THEN T ELSE frames[i - 1].sp) - Extra(f.inc, k))
        BY <2>2, <3>2 DEF SavedExtra, T
      <4>5. SavedExtra(i, k) = Load(win, ExtraArea(frames, T, i, k))
        BY <2>1, <4>3, <4>4 DEF ExtraArea
      <4> QED BY <2>1, <4>2, <4>5 DEF HasExtra
    <3> QED BY <3>1, <3>2
  <2>5. b = [ret |-> f.ret, sp |-> f.sp, val |-> Own(f.serial, 0)]
    <3>1. b.sp = f.sp /\ b.ret = f.ret /\ b.val = Own(f.serial, 0)
      BY <2>1, <2>3 DEF HasBase
    <3>2. b = [ret |-> b.ret, sp |-> b.sp, val |-> b.val]
      BY <2>3 DEF IsQuad
    <3> QED BY <3>1, <3>2
  <2> QED BY <2>4, <2>5 DEF WholeFrame
<1>4. Point[2] = IF frames = <<>> THEN 0 ELSE Top.serial
  BY <1>0 DEF Control
<1> QED BY <1>3, <1>4

LEMMA CoreInductive == Spec => [](NestInv /\ WindowsInv)
<1>1. Init => NestInv /\ WindowsInv
  BY NestStarts, WindowsStart DEF Init
<1>2. NestInv /\ WindowsInv /\ [Next]_vars => (NestInv /\ WindowsInv)'
  BY NestStep, WindowsStep
<1> QED BY <1>1, <1>2, PTL DEF Spec

(* Every live function finds its registers whole when control comes back   *)
(* to it, through overflows, answered calls, safe returns, interrupts,     *)
(* recovered faults and resets, and control is at its newest one: for any  *)
(* register file, any depth of calls and any mix of activities, as long as *)
(* no call is answered the way that writes the caller's own a2.            *)
THEOREM FramesAreKept ==
  ASSUME "task" \notin HookKinds PROVE Spec => []FramesKept
<1>1. WindowsInv => FramesKept
  BY FramesFound DEF Unmarred
<1> QED BY <1>1, CoreInductive, PTL

(* No frame of the application, and none of its save areas, lies over the  *)
(* data of its thread, however its calls are answered.                     *)
THEOREM ThreadDataIsKept == Spec => []ThreadDataKept
<1>1. WindowsInv => ThreadDataKept
  BY DEF WindowsInv
<1> QED BY <1>1, CoreInductive, PTL
=============================================================================
