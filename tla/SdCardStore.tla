---------------------------- MODULE SdCardStore ----------------------------
(***************************************************************************)
(* The chunked SD-card image store of the browser runtime                  *)
(* (public/simulator-runtime/sd-card-store.js), for one storage key.       *)
(*                                                                         *)
(* writeSdImage is a chain of separate IndexedDB transactions: read the    *)
(* metadata, put every changed chunk under a fresh generation, put the     *)
(* metadata, delete the chunks the prior metadata named.  Each transaction *)
(* is one action; between two of them the worker may die, another call may *)
(* run, and every transaction may abort.                                   *)
(*                                                                         *)
(* A chunk's bytes are a member of Content, and stand for their SHA-256    *)
(* digest as well (distinct contents have distinct digests).  Of a chunk's *)
(* length only the last chunk's matters: with chunkCount it determines     *)
(* byteLength.                                                             *)
(***************************************************************************)
EXTENDS Naturals, FiniteSets

CONSTANTS Writers,       \* calls of writeSdImage that may overlap
          Content,       \* chunk contents
          ByteSize,      \* length of each content, in bytes
          ChunkBytes,    \* CHUNK_BYTES
          MaxChunks,     \* MAX_BYTES / CHUNK_BYTES
          Fingerprints,  \* template fingerprints
          Generations,   \* the UUIDs crypto.randomUUID can still return
          Times,         \* values of Date.now()
          NoChunk, NoMeta, NoLegacy, NoImage, NoGeneration, ReadError

ASSUME StoreAssumption ==
  /\ ByteSize \in [Content -> Nat]
  /\ MaxChunks \in Nat \ {0}
  /\ Times \subseteq Nat
  /\ NoChunk \notin Content
  /\ ChunkBytes \in Nat

VARIABLES meta,        \* record at ["panda-sd-meta-v2", key]
          chunk,       \* chunk[g][i]: value at ["panda-sd-chunk-v2", key, g, i]
          legacy,      \* single-record image of an older runtime, at key
          pc,          \* where each writeSdImage call stands
          job,         \* the value each call was given
          prior,       \* the metadata each call read first
          generation,  \* each call's own UUID
          plan,        \* each call's chunkGenerations
          todo,        \* chunk indexes left to put, or to delete
          outcome,     \* how each writer's last call settled
          used         \* UUIDs already drawn

vars == <<meta, chunk, legacy, pc, job, prior, generation, plan, todo, outcome, used>>

----------------------------------------------------------------------------
(* Images, metadata records and the reader.                                *)

ChunkIndex == 1..MaxChunks

(* Every chunk but the last is full.                                       *)
ImagesOf(n) ==
  {img \in [chunkCount : {n}, chunks : [1..n -> Content], templateFingerprint : Fingerprints] :
     \A i \in 1..n-1 : ByteSize[img.chunks[i]] = ChunkBytes}

Images == UNION {ImagesOf(n) : n \in ChunkIndex}

TailBytes(img) == ByteSize[img.chunks[img.chunkCount]]

Records == [image : Images, savedAt : Times]

(* A v2 record has one generation for all chunks and no digests; a v3      *)
(* record names a generation and a digest per chunk.                       *)
V2Meta(n) == [format : {"chunks-v2"}, chunkCount : {n}, tailBytes : Nat,
              generation : Generations,
              templateFingerprint : Fingerprints, savedAt : Times]

V3Meta(n) == [format : {"chunks-v3"}, chunkCount : {n}, tailBytes : Nat,
              chunkGenerations : [1..n -> Generations],
              chunkDigests : [1..n -> Content],
              templateFingerprint : Fingerprints, savedAt : Times]

(* validMeta, for the formats a runtime of this repository writes.         *)
ValidMeta(m) == \E n \in ChunkIndex : m \in V2Meta(n) \/ m \in V3Meta(n)

ChunkGeneration(m, i) ==
  IF m.format = "chunks-v3" THEN m.chunkGenerations[i] ELSE m.generation

UseLegacy == \/ meta = NoMeta
             \/ legacy # NoLegacy /\ legacy.savedAt > meta.savedAt

StoredAt(m, i) == chunk[ChunkGeneration(m, i)][i]

ASSUME SentinelAssumption ==
  /\ ~ ValidMeta(NoMeta)
  /\ NoImage \notin Images \cup Records
  /\ ReadError \notin Images \cup {NoImage}
  /\ NoLegacy \notin Records
  /\ NoGeneration \notin Generations

(* The part a reader expects at index i is there, with the right length.   *)
Readable(m, i) ==
  /\ StoredAt(m, i) # NoChunk
  /\ ByteSize[StoredAt(m, i)] = IF i = m.chunkCount THEN m.tailBytes ELSE ChunkBytes

StoredImage == [chunkCount |-> meta.chunkCount,
                chunks |-> [i \in 1..meta.chunkCount |-> StoredAt(meta, i)],
                templateFingerprint |-> meta.templateFingerprint]

AllReadable == \A i \in 1..meta.chunkCount : Readable(meta, i)

LegacyImage == IF legacy = NoLegacy THEN NoImage ELSE legacy.image

(* readSdImage: one read-only transaction, hence one state's value.        *)
ReadSdImage ==
  IF UseLegacy THEN LegacyImage
  ELSE IF AllReadable THEN StoredImage ELSE ReadError

----------------------------------------------------------------------------
(* Seeded faults: the mutants of the runs replace the definition of the    *)
(* same name, less the last word, by one of these.                         *)
KeepsGenerationUnchecked(p, img, i) ==
  /\ p # NoMeta
  /\ p.format = "chunks-v3"
  /\ p.chunkCount = img.chunkCount

SupersededWhole(w) == 1..prior[w].chunkCount

AllPutUnchecked(w) == TRUE

V3RecordBare(gens, img, t) ==
  [format |-> "chunks-v3", chunkCount |-> img.chunkCount, tailBytes |-> TailBytes(img),
   chunkGenerations |-> gens, chunkDigests |-> <<>>,
   templateFingerprint |-> img.templateFingerprint, savedAt |-> t]

----------------------------------------------------------------------------
(* Only a v3 record of the same geometry carries digests to compare with.  *)
Reusable(p, img) ==
  /\ p # NoMeta
  /\ p.format = "chunks-v3"
  /\ p.chunkCount = img.chunkCount
  /\ p.tailBytes = TailBytes(img)

KeepsGeneration(p, img, i) == Reusable(p, img) /\ p.chunkDigests[i] = img.chunks[i]

ChunkGenerations(p, img, g) ==
  [i \in 1..img.chunkCount |->
     IF KeepsGeneration(p, img, i) THEN ChunkGeneration(p, i) ELSE g]

Plans == UNION {[1..n -> Generations] : n \in 0..MaxChunks}

(* Indexes of the prior metadata whose chunk the new one does not name.    *)
Superseded(w) ==
  {i \in 1..prior[w].chunkCount :
     ~ (i \in DOMAIN plan[w] /\ plan[w][i] = ChunkGeneration(prior[w], i))}

(* The wall clock does not run behind the legacy record's time stamp.      *)
Now == {t \in Times : legacy # NoLegacy => t >= legacy.savedAt}

(* Every changed chunk has been committed.                                 *)
AllPut(w) == todo[w] = {}

IsNext(w, i) == i \in todo[w] /\ \A j \in todo[w] : i <= j

----------------------------------------------------------------------------
(* The initial slot: empty, or a snapshot of an earlier session in either  *)
(* format, next to a legacy record or not.                                 *)

NoChunks == [g \in Generations |-> [i \in ChunkIndex |-> NoChunk]]

StoredUnder(g, img) ==
  [NoChunks EXCEPT ![g] =
     [i \in ChunkIndex |-> IF i <= img.chunkCount THEN img.chunks[i] ELSE NoChunk]]

V2Record(g, img, t) ==
  [format |-> "chunks-v2", chunkCount |-> img.chunkCount, tailBytes |-> TailBytes(img),
   generation |-> g, templateFingerprint |-> img.templateFingerprint, savedAt |-> t]

V3Record(gens, img, t) ==
  [format |-> "chunks-v3", chunkCount |-> img.chunkCount, tailBytes |-> TailBytes(img),
   chunkGenerations |-> gens, chunkDigests |-> img.chunks,
   templateFingerprint |-> img.templateFingerprint, savedAt |-> t]

EmptySlot == meta = NoMeta /\ chunk = NoChunks /\ used = {}

StoredSlot(g, img, t) ==
  /\ meta \in {V2Record(g, img, t), V3Record([i \in 1..img.chunkCount |-> g], img, t)}
  /\ chunk = StoredUnder(g, img)
  /\ used = {g}

Init == /\ EmptySlot \/ \E g \in Generations, img \in Images, t \in Times : StoredSlot(g, img, t)
        /\ legacy \in Records \cup {NoLegacy}
        /\ pc = [w \in Writers |-> "idle"]
        /\ job = [w \in Writers |-> NoImage]
        /\ prior = [w \in Writers |-> NoMeta]
        /\ generation = [w \in Writers |-> NoGeneration]
        /\ plan = [w \in Writers |-> <<>>]
        /\ todo = [w \in Writers |-> {}]
        /\ outcome = [w \in Writers |-> "none"]

----------------------------------------------------------------------------
(* One call of writeSdImage.                                               *)

(* The bytes are sliced into chunks, and the UUID drawn, before the first  *)
(* await: later changes of the caller's buffer do not reach the store.     *)
Call(w) ==
  /\ pc[w] = "idle"
  /\ \E img \in Images, t \in Now : job' = [job EXCEPT ![w] = [image |-> img, savedAt |-> t]]
  /\ \E g \in Generations \ used : /\ generation' = [generation EXCEPT ![w] = g]
                                   /\ used' = used \cup {g}
  /\ pc' = [pc EXCEPT ![w] = "readMeta"]
  /\ outcome' = [outcome EXCEPT ![w] = "none"]
  /\ UNCHANGED <<meta, chunk, legacy, prior, plan, todo>>

ReadMeta(w) ==
  /\ pc[w] = "readMeta"
  /\ prior' = [prior EXCEPT ![w] = meta]
  /\ LET gens == ChunkGenerations(meta, job[w].image, generation[w]) IN
     /\ plan' = [plan EXCEPT ![w] = gens]
     /\ todo' = [todo EXCEPT ![w] = {i \in DOMAIN gens : gens[i] = generation[w]}]
  /\ pc' = [pc EXCEPT ![w] = "put"]
  /\ UNCHANGED <<meta, chunk, legacy, job, generation, outcome, used>>

PutChunk(w) ==
  /\ pc[w] = "put"
  /\ \E i \in todo[w] :
       /\ IsNext(w, i)
       /\ chunk' = [chunk EXCEPT ![generation[w]][i] = job[w].image.chunks[i]]
       /\ todo' = [todo EXCEPT ![w] = @ \ {i}]
  /\ UNCHANGED <<meta, legacy, pc, job, prior, generation, plan, outcome, used>>

PutMeta(w) ==
  /\ pc[w] = "put"
  /\ AllPut(w)
  /\ meta' = V3Record(plan[w], job[w].image, job[w].savedAt)
  /\ todo' = [todo EXCEPT ![w] = IF prior[w] = NoMeta THEN {} ELSE Superseded(w)]
  /\ pc' = [pc EXCEPT ![w] = "cleanup"]
  /\ UNCHANGED <<chunk, legacy, job, prior, generation, plan, outcome, used>>

(* The cleanup loop: a delete that fails is swallowed and passed over.     *)
DeleteChunk(w) ==
  /\ pc[w] = "cleanup"
  /\ \E i \in todo[w] :
       /\ IsNext(w, i)
       /\ todo' = [todo EXCEPT ![w] = @ \ {i}]
       /\ \/ chunk' = [chunk EXCEPT ![ChunkGeneration(prior[w], i)][i] = NoChunk]
          \/ UNCHANGED chunk
  /\ UNCHANGED <<meta, legacy, pc, job, prior, generation, plan, outcome, used>>

(* The call is over: its locals are gone.                                  *)
Settle(w, how) ==
  /\ pc' = [pc EXCEPT ![w] = "idle"]
  /\ job' = [job EXCEPT ![w] = NoImage]
  /\ prior' = [prior EXCEPT ![w] = NoMeta]
  /\ generation' = [generation EXCEPT ![w] = NoGeneration]
  /\ plan' = [plan EXCEPT ![w] = <<>>]
  /\ todo' = [todo EXCEPT ![w] = {}]
  /\ outcome' = [outcome EXCEPT ![w] = how]
  /\ UNCHANGED <<meta, chunk, legacy, used>>

Resolve(w) == pc[w] = "cleanup" /\ todo[w] = {} /\ Settle(w, "resolved")

(* The metadata read, a chunk put or the metadata put aborts (a quota      *)
(* error, a failed open): the call rejects and cleans nothing up.          *)
Reject(w) == pc[w] \in {"readMeta", "put"} /\ Settle(w, "rejected")

(* The worker or its page is gone between two transactions.                *)
Crash(w) == pc[w] # "idle" /\ Settle(w, "none")

Next == \E w \in Writers : \/ Call(w)
                           \/ ReadMeta(w)
                           \/ PutChunk(w)
                           \/ PutMeta(w)
                           \/ DeleteChunk(w)
                           \/ Resolve(w)
                           \/ Reject(w)
                           \/ Crash(w)

Spec == Init /\ [][Next]_vars

----------------------------------------------------------------------------
(* Every variable keeps its shape; in particular every metadata record the *)
(* code writes passes validMeta, so a later save is never refused for it.  *)
TypeOK ==
  /\ meta = NoMeta \/ ValidMeta(meta)
  /\ chunk \in [Generations -> [ChunkIndex -> Content \cup {NoChunk}]]
  /\ legacy \in Records \cup {NoLegacy}
  /\ pc \in [Writers -> {"idle", "readMeta", "put", "cleanup"}]
  /\ job \in [Writers -> Records \cup {NoImage}]
  /\ DOMAIN prior = Writers
  /\ \A w \in Writers : prior[w] = NoMeta \/ ValidMeta(prior[w])
  /\ generation \in [Writers -> Generations \cup {NoGeneration}]
  /\ plan \in [Writers -> Plans]
  /\ todo \in [Writers -> SUBSET ChunkIndex]
  /\ outcome \in [Writers -> {"none", "resolved", "rejected"}]
  /\ used \subseteq Generations

(* Line 157: the stored snapshot is always readable, before, between and   *)
(* after the transactions of a save, and whatever the cleanup deleted.     *)
SnapshotReadable == ReadSdImage # ReadError

(* The reader never compares digests, so nothing but the write protocol    *)
(* keeps a snapshot from mixing chunks of two images: every chunk present  *)
(* under a generation that the v3 metadata names is the chunk that the     *)
(* metadata was written for.                                               *)
ReadMatchesDigests ==
  meta # NoMeta /\ meta.format = "chunks-v3" =>
    \A i \in 1..meta.chunkCount : StoredAt(meta, i) \in {NoChunk, meta.chunkDigests[i]}

----------------------------------------------------------------------------
(* The inductive invariant.  Its first four parts hold for any number of   *)
(* overlapping calls, the last two for one call at a time.                 *)

Names(m, g) == m # NoMeta /\ \E i \in 1..m.chunkCount : ChunkGeneration(m, i) = g
Planned(w, g) == \E i \in DOMAIN plan[w] : plan[w][i] = g

(* A call in progress holds an image, a UUID and, past its first           *)
(* transaction, a plan for each chunk of the image.                        *)
CallShape ==
  \A w \in Writers :
    /\ pc[w] # "idle" => job[w] \in Records /\ generation[w] \in used
    /\ pc[w] \in {"put", "cleanup"} =>
         /\ plan[w] \in [1..job[w].image.chunkCount -> used]
         /\ pc[w] = "put" => todo[w] \subseteq DOMAIN plan[w]
    /\ pc[w] \in {"idle", "readMeta"} => plan[w] = <<>>
    /\ pc[w] = "cleanup" /\ todo[w] # {} =>
         prior[w] # NoMeta /\ todo[w] \subseteq Superseded(w)

(* Every generation that metadata or a stored chunk names has been drawn.  *)
Drawn ==
  /\ \A g \in Generations : Names(meta, g) => g \in used
  /\ \A g \in Generations, i \in ChunkIndex : chunk[g][i] # NoChunk => g \in used

(* Until its metadata is committed, a call's generation is its own.        *)
OwnGeneration ==
  \A w \in Writers : pc[w] \in {"readMeta", "put"} =>
    /\ ~ Names(meta, generation[w])
    /\ \A v \in Writers \ {w} : /\ pc[v] # "idle" => generation[v] # generation[w]
                                /\ ~ Planned(v, generation[w])
    /\ pc[w] = "readMeta" => \A i \in ChunkIndex : chunk[generation[w]][i] = NoChunk

(* A chunk that is present where a plan looks for it is the right one.     *)
PlanMatches ==
  \A w \in Writers : \A i \in DOMAIN plan[w] :
    chunk[plan[w][i]][i] \in {NoChunk, job[w].image.chunks[i]}

SharedInv == TypeOK /\ CallShape /\ Drawn /\ OwnGeneration /\ PlanMatches /\ ReadMatchesDigests

(* The committed metadata names only chunks that are there.                *)
Complete == meta # NoMeta => AllReadable

(* The only call in progress has read the current metadata, has put every  *)
(* chunk it is past, and is cleaning up after its own commit; the legacy   *)
(* record is not newer than its image.                                     *)
Alone ==
  \A w \in Writers :
    /\ pc[w] # "idle" /\ legacy # NoLegacy => job[w].savedAt >= legacy.savedAt
    /\ pc[w] = "put" =>
         /\ prior[w] = meta
         /\ \A i \in todo[w] : plan[w][i] = generation[w]
         /\ \A i \in DOMAIN plan[w] \ todo[w] : chunk[plan[w][i]][i] # NoChunk
    /\ pc[w] = "cleanup" => meta = V3Record(plan[w], job[w].image, job[w].savedAt)

SerialInv == SharedInv /\ Complete /\ Alone

----------------------------------------------------------------------------
(* With one call at a time the chain of transactions is one atomic save.   *)
Snapshot == INSTANCE SdSnapshot WITH
  image <- ReadSdImage,
  phase <- [w \in Writers |-> IF pc[w] = "idle" THEN "idle"
                           ELSE IF pc[w] = "cleanup" THEN "committed" ELSE "pending"],
  want <- [w \in Writers |-> IF job[w] = NoImage THEN NoImage ELSE job[w].image]

AtomicSave == Snapshot!Spec
=============================================================================
