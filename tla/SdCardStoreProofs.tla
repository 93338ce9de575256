------------------------- MODULE SdCardStoreProofs -------------------------
(* Proofs about SdCardStore, for every number of writers and every set of   *)
(* images, generations and time stamps.                                     *)
EXTENDS SdCardStore, TLAPS

(* What a save plans for an image is one generation per chunk, each its own *)
(* or one that the prior metadata names.                                    *)
LEMMA PlanShape ==
  ASSUME NEW p, p = NoMeta \/ ValidMeta(p),
         NEW img \in Images, NEW g \in Generations
  PROVE  ChunkGenerations(p, img, g) \in [1..img.chunkCount -> Generations]
<1>1. ASSUME NEW i \in 1..img.chunkCount, KeepsGeneration(p, img, i)
      PROVE  ChunkGeneration(p, i) \in Generations
  BY <1>1 DEF KeepsGeneration, Reusable, ChunkGeneration, ValidMeta, V2Meta, V3Meta
<1>2. QED
  BY <1>1 DEF ChunkGenerations

(* An image of the store has between one and MaxChunks chunks.              *)
LEMMA ImageShape ==
  ASSUME NEW img \in Images
  PROVE  /\ img.chunkCount \in ChunkIndex
         /\ img.chunks \in [1..img.chunkCount -> Content]
         /\ 1..img.chunkCount \subseteq ChunkIndex
         /\ TailBytes(img) \in Nat
  BY StoreAssumption DEF Images, ImagesOf, ChunkIndex, TailBytes

LEMMA MetaShape ==
  ASSUME NEW m, ValidMeta(m)
  PROVE  /\ m.chunkCount \in ChunkIndex
         /\ \A i \in 1..m.chunkCount : i \in ChunkIndex /\ ChunkGeneration(m, i) \in Generations
<1>1. PICK n \in ChunkIndex : m \in V2Meta(n) \/ m \in V3Meta(n)
  BY DEF ValidMeta
<1>2. CASE m \in V2Meta(n)
  BY <1>2, StoreAssumption DEF V2Meta, ChunkGeneration, ChunkIndex
<1>3. CASE m \in V3Meta(n)
  BY <1>3, StoreAssumption DEF V3Meta, ChunkGeneration, ChunkIndex
<1>4. QED
  BY <1>1, <1>2, <1>3

LEMMA EmptyPlan == <<>> \in Plans
<1>1. <<>> \in [1..0 -> Generations]
  OBVIOUS
<1>2. QED
  BY <1>1, StoreAssumption DEF Plans

(* The metadata a save commits passes validMeta.                            *)
LEMMA V3RecordValid ==
  ASSUME NEW img \in Images, NEW gens \in [1..img.chunkCount -> Generations],
         NEW t \in Times
  PROVE  ValidMeta(V3Record(gens, img, t))
<1>1. img.templateFingerprint \in Fingerprints
  BY DEF Images, ImagesOf
<1>2. V3Record(gens, img, t) \in V3Meta(img.chunkCount)
  BY <1>1, ImageShape DEF V3Record, V3Meta
<1>3. QED
  BY <1>2, ImageShape DEF ValidMeta

LEMMA V2RecordValid ==
  ASSUME NEW img \in Images, NEW g \in Generations, NEW t \in Times
  PROVE  ValidMeta(V2Record(g, img, t))
<1>1. img.templateFingerprint \in Fingerprints
  BY DEF Images, ImagesOf
<1>2. V2Record(g, img, t) \in V2Meta(img.chunkCount)
  BY <1>1, ImageShape DEF V2Record, V2Meta
<1>3. QED
  BY <1>2, ImageShape DEF ValidMeta
----------------------------------------------------------------------------
(* SharedInv holds in the initial slot and is kept by every transaction of  *)
(* every overlapping call.                                                  *)
LEMMA InitShared == Init => SharedInv
<1> SUFFICES ASSUME Init PROVE SharedInv
  OBVIOUS
<1>1. CASE EmptySlot
  <2>1. TypeOK
    BY <1>1, EmptyPlan DEF TypeOK, Init, EmptySlot, NoChunks
  <2>2. Drawn /\ ReadMatchesDigests
    BY <1>1 DEF Init, EmptySlot, NoChunks, Drawn, Names, ReadMatchesDigests
  <2>3. CallShape /\ OwnGeneration /\ PlanMatches
    BY DEF Init, CallShape, OwnGeneration, PlanMatches
  <2>4. QED
    BY <2>1, <2>2, <2>3 DEF SharedInv
<1>2. ASSUME NEW g \in Generations, NEW img \in Images, NEW t \in Times, StoredSlot(g, img, t)
      PROVE  SharedInv
  <2> DEFINE gens == [i \in 1..img.chunkCount |-> g]
  <2>1. gens \in [1..img.chunkCount -> Generations]
    OBVIOUS
  <2>2. ValidMeta(meta)
    BY <1>2, <2>1, V2RecordValid, V3RecordValid DEF StoredSlot
  <2>3. chunk \in [Generations -> [ChunkIndex -> Content \cup {NoChunk}]]
    BY <1>2, ImageShape DEF StoredSlot, StoredUnder, NoChunks, ChunkIndex
  <2>4. TypeOK
    BY <1>2, <2>2, <2>3, EmptyPlan DEF TypeOK, Init, StoredSlot
  <2>5. \A i \in 1..meta.chunkCount : ChunkGeneration(meta, i) = g
    <3>1. CASE meta = V2Record(g, img, t)
      BY <3>1 DEF V2Record, ChunkGeneration
    <3>2. CASE meta = V3Record(gens, img, t)
      BY <3>2 DEF V3Record, ChunkGeneration
    <3>3. QED
      BY <1>2, <3>1, <3>2 DEF StoredSlot
  <2>6. \A h \in Generations, i \in ChunkIndex : chunk[h][i] # NoChunk => h = g
    BY <1>2 DEF StoredSlot, StoredUnder, NoChunks
  <2>7. Drawn
    BY <1>2, <2>5, <2>6 DEF Drawn, Names, StoredSlot
  <2>8. ReadMatchesDigests
    <3>1. CASE meta = V2Record(g, img, t)
      BY <3>1 DEF V2Record, ReadMatchesDigests
    <3>2. CASE meta = V3Record(gens, img, t)
      <4>1. meta.chunkCount = img.chunkCount /\ meta.chunkDigests = img.chunks
        BY <3>2 DEF V3Record
      <4>2. \A i \in 1..img.chunkCount : chunk[g][i] = img.chunks[i]
        BY <1>2, ImageShape DEF StoredSlot, StoredUnder, NoChunks, ChunkIndex
      <4>3. QED
        BY <4>1, <4>2, <2>5 DEF ReadMatchesDigests, StoredAt
    <3>3. QED
      BY <1>2, <3>1, <3>2 DEF StoredSlot
  <2>9. CallShape /\ OwnGeneration /\ PlanMatches
    BY DEF Init, CallShape, OwnGeneration, PlanMatches
  <2>10. QED
    BY <2>4, <2>7, <2>8, <2>9 DEF SharedInv
<1>3. QED
  BY <1>1, <1>2 DEF Init

LEMMA CallShared ==
  ASSUME SharedInv, NEW w \in Writers, Call(w)
  PROVE  SharedInv'
<1> USE DEF SharedInv
<1>1. PICK img \in Images, t \in Now :
        job' = [job EXCEPT ![w] = [image |-> img, savedAt |-> t]]
  BY DEF Call
<1>2. PICK g \in Generations \ used :
        generation' = [generation EXCEPT ![w] = g] /\ used' = used \cup {g}
  BY DEF Call
<1>3. [image |-> img, savedAt |-> t] \in Records
  BY DEF Records, Now
<1>4. TypeOK'
  BY <1>1, <1>2, <1>3 DEF TypeOK, Call
<1>5. CallShape'
  BY <1>1, <1>2, <1>3 DEF CallShape, TypeOK, Call, Superseded, ChunkGeneration
<1>6. Drawn'
  BY <1>2 DEF Drawn, Names, ChunkGeneration, Call
<1>7. \A v \in Writers \ {w} : ~ Planned(v, g)
  <2> TAKE v \in Writers \ {w}
  <2>2. CASE pc[v] \in {"put", "cleanup"}
    <3>1. plan[v] \in [1..job[v].image.chunkCount -> used]
      BY <2>2 DEF CallShape
    <3>2. QED
      BY <1>2, <3>1 DEF Planned
  <2>3. CASE pc[v] \in {"idle", "readMeta"}
    BY <2>3 DEF CallShape, Planned
  <2>4. QED
    BY <2>2, <2>3 DEF TypeOK
<1>8. OwnGeneration'
  BY <1>2, <1>7 DEF OwnGeneration, Drawn, CallShape, Names, Planned, ChunkGeneration, Call, TypeOK
<1>9. PlanMatches'
  BY <1>1 DEF PlanMatches, CallShape, Call, TypeOK
<1>10. ReadMatchesDigests'
  BY DEF ReadMatchesDigests, StoredAt, ChunkGeneration, Call
<1>11. QED
  BY <1>4, <1>5, <1>6, <1>8, <1>9, <1>10
LEMMA ReadMetaShared ==
  ASSUME SharedInv, NEW w \in Writers, ReadMeta(w)
  PROVE  SharedInv'
<1> USE DEF SharedInv
<1> DEFINE img == job[w].image
           g == generation[w]
           gens == ChunkGenerations(meta, img, g)
<1>1. job[w] \in Records /\ img \in Images /\ g \in used /\ g \in Generations
  BY DEF ReadMeta, CallShape, Records, TypeOK
<1>2. gens \in [1..img.chunkCount -> Generations]
  BY <1>1, PlanShape DEF TypeOK
<1>3. \A i \in 1..img.chunkCount :
         \/ gens[i] = g
         \/ /\ meta # NoMeta /\ meta.format = "chunks-v3"
            /\ meta.chunkCount = img.chunkCount
            /\ gens[i] = ChunkGeneration(meta, i)
            /\ meta.chunkDigests[i] = img.chunks[i]
  BY DEF ChunkGenerations, KeepsGeneration, Reusable
<1>4. gens \in [1..img.chunkCount -> used]
  BY <1>1, <1>2, <1>3 DEF Drawn, Names
<1>5. /\ plan' = [plan EXCEPT ![w] = gens]
      /\ todo' = [todo EXCEPT ![w] = {i \in 1..img.chunkCount : gens[i] = g}]
      /\ pc' = [pc EXCEPT ![w] = "put"]
      /\ prior' = [prior EXCEPT ![w] = meta]
      /\ UNCHANGED <<meta, chunk, legacy, job, generation, outcome, used>>
      /\ pc[w] = "readMeta"
  BY <1>2 DEF ReadMeta
<1> HIDE DEF gens
<1>6. TypeOK'
  <2>1. gens \in Plans
    BY <1>1, <1>2, ImageShape, StoreAssumption DEF Plans, ChunkIndex
  <2>2. {i \in 1..img.chunkCount : gens[i] = g} \in SUBSET ChunkIndex
    BY <1>1, ImageShape
  <2>3. QED
    BY <1>5, <2>1, <2>2 DEF TypeOK, ValidMeta, V2Meta, V3Meta
<1>7. CallShape'
  BY <1>1, <1>4, <1>5 DEF CallShape, TypeOK, Superseded, ChunkGeneration
<1>8. Drawn' /\ ReadMatchesDigests'
  BY <1>5 DEF Drawn, Names, ChunkGeneration, ReadMatchesDigests, StoredAt
<1>9. \A v \in Writers \ {w} : pc[v] \in {"readMeta", "put"} =>
         \A i \in 1..img.chunkCount : gens[i] # generation[v]
  BY <1>3, <1>5 DEF OwnGeneration, Names
<1>10. OwnGeneration'
  BY <1>2, <1>5, <1>9 DEF OwnGeneration, Names, Planned, ChunkGeneration, TypeOK
<1>11. PlanMatches'
  <2>1. \A i \in 1..img.chunkCount : chunk[gens[i]][i] \in {NoChunk, img.chunks[i]}
    BY <1>1, <1>3, <1>5, ImageShape DEF OwnGeneration, ReadMatchesDigests, StoredAt, TypeOK
  <2>2. QED
    BY <1>2, <1>5, <2>1 DEF PlanMatches, TypeOK
<1>12. QED
  BY <1>6, <1>7, <1>8, <1>10, <1>11
LEMMA PutChunkShared ==
  ASSUME SharedInv, NEW w \in Writers, PutChunk(w)
  PROVE  SharedInv'
<1> USE DEF SharedInv
<1>1. PICK i \in todo[w] :
        /\ chunk' = [chunk EXCEPT ![generation[w]][i] = job[w].image.chunks[i]]
        /\ todo' = [todo EXCEPT ![w] = @ \ {i}]
  BY DEF PutChunk
<1>2. /\ pc[w] = "put"
      /\ UNCHANGED <<meta, legacy, pc, job, prior, generation, plan, outcome, used>>
  BY DEF PutChunk
<1> DEFINE img == job[w].image
           g == generation[w]
<1>3. img \in Images /\ g \in used /\ g \in Generations /\ i \in ChunkIndex
  BY <1>2 DEF CallShape, Records, TypeOK
<1>4. plan[w] \in [1..img.chunkCount -> used] /\ i \in 1..img.chunkCount
  BY <1>2 DEF CallShape
<1>5. img.chunks[i] \in Content
  BY <1>3, <1>4, ImageShape
<1>6. /\ \A h \in Generations, j \in ChunkIndex :
            chunk'[h][j] = IF h = g /\ j = i THEN img.chunks[i] ELSE chunk[h][j]
      /\ chunk' \in [Generations -> [ChunkIndex -> Content \cup {NoChunk}]]
  BY <1>1, <1>3, <1>5 DEF TypeOK
<1>7. TypeOK'
  BY <1>1, <1>2, <1>6 DEF TypeOK, ValidMeta, V2Meta, V3Meta
<1>8. CallShape'
  BY <1>1, <1>2 DEF CallShape, TypeOK, Superseded, ChunkGeneration
<1>9. Drawn'
  BY <1>2, <1>3, <1>6 DEF Drawn, Names, ChunkGeneration
<1>10. OwnGeneration'
  <2>1. ASSUME NEW v \in Writers, pc[v] = "readMeta", NEW j \in ChunkIndex
        PROVE  chunk'[generation[v]][j] = NoChunk
    <3>1. generation[v] # g /\ generation[v] \in Generations
      BY <1>2, <2>1 DEF OwnGeneration, CallShape, TypeOK
    <3>2. QED
      BY <1>6, <2>1, <3>1 DEF OwnGeneration
  <2>2. QED
    BY <1>2, <2>1 DEF OwnGeneration, Names, Planned, ChunkGeneration
<1>11. PlanMatches'
  <2> SUFFICES ASSUME NEW v \in Writers, NEW j \in DOMAIN plan[v]
               PROVE  chunk'[plan[v][j]][j] \in {NoChunk, job[v].image.chunks[j]}
    BY <1>2 DEF PlanMatches
  <2>1. plan[v][j] \in Generations /\ j \in ChunkIndex
    BY StoreAssumption DEF TypeOK, Plans, ChunkIndex
  <2>2. CASE v = w
    BY <1>6, <2>1, <2>2 DEF PlanMatches
  <2>3. CASE v # w
    <3>1. plan[v][j] # g
      BY <1>2, <2>3 DEF OwnGeneration, Planned
    <3>2. QED
      BY <1>6, <2>1, <3>1 DEF PlanMatches
  <2>4. QED
    BY <2>2, <2>3
<1>12. ReadMatchesDigests'
  <2> SUFFICES ASSUME meta # NoMeta, meta.format = "chunks-v3", NEW j \in 1..meta.chunkCount
               PROVE  chunk'[ChunkGeneration(meta, j)][j] \in {NoChunk, meta.chunkDigests[j]}
    BY <1>2 DEF ReadMatchesDigests, StoredAt, ChunkGeneration
  <2>1. ChunkGeneration(meta, j) \in Generations /\ j \in ChunkIndex
    BY MetaShape DEF TypeOK
  <2>2. ChunkGeneration(meta, j) # g
    BY <1>2 DEF OwnGeneration, Names
  <2>3. QED
    BY <1>6, <2>1, <2>2 DEF ReadMatchesDigests, StoredAt
<1>13. QED
  BY <1>7, <1>8, <1>9, <1>10, <1>11, <1>12

LEMMA PutMetaShared ==
  ASSUME SharedInv, NEW w \in Writers, PutMeta(w)
  PROVE  SharedInv'
<1> USE DEF SharedInv
<1> DEFINE img == job[w].image
<1>1. /\ pc[w] = "put"
      /\ meta' = V3Record(plan[w], img, job[w].savedAt)
      /\ pc' = [pc EXCEPT ![w] = "cleanup"]
      /\ todo' = [todo EXCEPT ![w] = IF prior[w] = NoMeta THEN {} ELSE Superseded(w)]
      /\ UNCHANGED <<chunk, legacy, job, prior, generation, plan, outcome, used>>
  BY DEF PutMeta
<1>2. img \in Images /\ job[w].savedAt \in Times /\ plan[w] \in [1..img.chunkCount -> used]
  BY <1>1 DEF CallShape, Records
<1>3. plan[w] \in [1..img.chunkCount -> Generations]
  BY <1>2 DEF TypeOK
<1>4. ValidMeta(meta')
  BY <1>1, <1>2, <1>3, V3RecordValid
<1>5. prior[w] # NoMeta => Superseded(w) \in SUBSET ChunkIndex
  BY MetaShape DEF Superseded, TypeOK
<1>6. TypeOK'
  BY <1>1, <1>4, <1>5 DEF TypeOK
<1>7. CallShape'
  BY <1>1 DEF CallShape, TypeOK, Superseded, ChunkGeneration
<1>8. /\ meta'.chunkCount = img.chunkCount
      /\ meta'.chunkDigests = img.chunks
      /\ \A i \in 1..img.chunkCount : ChunkGeneration(meta', i) = plan[w][i]
  BY <1>1 DEF V3Record, ChunkGeneration
<1>9. \A g \in Generations : Names(meta', g) => Planned(w, g)
  BY <1>2, <1>8 DEF Names, Planned
<1>10. Drawn'
  BY <1>1, <1>2, <1>9 DEF Drawn, Planned
<1>11. OwnGeneration'
  <2> SUFFICES ASSUME NEW v \in Writers, pc'[v] \in {"readMeta", "put"}
               PROVE  /\ ~ Names(meta', generation[v])
                      /\ \A u \in Writers \ {v} : /\ pc'[u] # "idle" => generation[u] # generation[v]
                                                  /\ ~ Planned(u, generation[v])
                      /\ pc'[v] = "readMeta" => \A i \in ChunkIndex : chunk[generation[v]][i] = NoChunk
    BY <1>1 DEF OwnGeneration, Planned
  <2>1. v # w /\ pc'[v] = pc[v]
    BY <1>1 DEF TypeOK
  <2>2. ~ Planned(w, generation[v]) /\ generation[v] \in Generations
    BY <2>1 DEF OwnGeneration, CallShape, TypeOK
  <2>3. ~ Names(meta', generation[v])
    BY <1>9, <2>2
  <2>4. \A u \in Writers : pc'[u] # "idle" => pc[u] # "idle"
    BY <1>1 DEF TypeOK
  <2>5. QED
    BY <2>1, <2>3, <2>4 DEF OwnGeneration
<1>12. PlanMatches'
  BY <1>1 DEF PlanMatches
<1>13. ReadMatchesDigests'
  BY <1>1, <1>2, <1>8 DEF ReadMatchesDigests, StoredAt, PlanMatches
<1>14. QED
  BY <1>6, <1>7, <1>10, <1>11, <1>12, <1>13

LEMMA DeleteChunkShared ==
  ASSUME SharedInv, NEW w \in Writers, DeleteChunk(w)
  PROVE  SharedInv'
<1> USE DEF SharedInv
<1>1. PICK i \in todo[w] :
        /\ todo' = [todo EXCEPT ![w] = @ \ {i}]
        /\ \/ chunk' = [chunk EXCEPT ![ChunkGeneration(prior[w], i)][i] = NoChunk]
           \/ UNCHANGED chunk
  BY DEF DeleteChunk
<1>2. /\ pc[w] = "cleanup"
      /\ UNCHANGED <<meta, legacy, pc, job, prior, generation, plan, outcome, used>>
  BY DEF DeleteChunk
<1>3. /\ \A h \in Generations, j \in ChunkIndex : chunk'[h][j] \in {chunk[h][j], NoChunk}
      /\ chunk' \in [Generations -> [ChunkIndex -> Content \cup {NoChunk}]]
  <2>1. chunk \in [Generations -> [ChunkIndex -> Content \cup {NoChunk}]]
    BY DEF TypeOK
  <2>2. QED
    BY <1>1, <2>1
<1>4. TypeOK'
  BY <1>1, <1>2, <1>3 DEF TypeOK, ValidMeta, V2Meta, V3Meta
<1>5. CallShape'
  BY <1>1, <1>2 DEF CallShape, TypeOK, Superseded, ChunkGeneration
<1>6. Drawn'
  BY <1>2, <1>3 DEF Drawn, Names, ChunkGeneration
<1>7. OwnGeneration'
  <2>1. ASSUME NEW v \in Writers, pc[v] = "readMeta", NEW j \in ChunkIndex
        PROVE  chunk'[generation[v]][j] = NoChunk
    <3>1. generation[v] \in Generations
      BY <2>1 DEF CallShape, TypeOK
    <3>2. QED
      BY <1>3, <2>1, <3>1 DEF OwnGeneration
  <2>2. QED
    BY <1>2, <2>1 DEF OwnGeneration, Names, Planned, ChunkGeneration
<1>8. PlanMatches'
  <2> SUFFICES ASSUME NEW v \in Writers, NEW j \in DOMAIN plan[v]
               PROVE  chunk'[plan[v][j]][j] \in {NoChunk, job[v].image.chunks[j]}
    BY <1>2 DEF PlanMatches
  <2>1. plan[v][j] \in Generations /\ j \in ChunkIndex
    BY StoreAssumption DEF TypeOK, Plans, ChunkIndex
  <2>2. QED
    BY <1>3, <2>1 DEF PlanMatches
<1>9. ReadMatchesDigests'
  <2> SUFFICES ASSUME meta # NoMeta, meta.format = "chunks-v3", NEW j \in 1..meta.chunkCount
               PROVE  chunk'[ChunkGeneration(meta, j)][j] \in {NoChunk, meta.chunkDigests[j]}
    BY <1>2 DEF ReadMatchesDigests, StoredAt, ChunkGeneration
  <2>1. ChunkGeneration(meta, j) \in Generations /\ j \in ChunkIndex
    BY MetaShape DEF TypeOK
  <2>2. QED
    BY <1>3, <2>1 DEF ReadMatchesDigests, StoredAt
<1>10. QED
  BY <1>4, <1>5, <1>6, <1>7, <1>8, <1>9

LEMMA SettleShared ==
  ASSUME SharedInv, NEW w \in Writers, NEW how \in {"none", "resolved", "rejected"},
         Settle(w, how)
  PROVE  SharedInv'
<1> USE DEF SharedInv
<1>1. TypeOK'
  BY EmptyPlan DEF TypeOK, Settle
<1>2. CallShape'
  BY DEF CallShape, TypeOK, Superseded, ChunkGeneration, Settle
<1>3. Drawn' /\ ReadMatchesDigests'
  BY DEF Drawn, Names, ChunkGeneration, ReadMatchesDigests, StoredAt, Settle
<1>4. OwnGeneration'
  BY DEF OwnGeneration, Names, Planned, ChunkGeneration, TypeOK, Settle
<1>5. PlanMatches'
  BY DEF PlanMatches, TypeOK, Settle
<1>6. QED
  BY <1>1, <1>2, <1>3, <1>4, <1>5

LEMMA StepShared == SharedInv /\ [Next]_vars => SharedInv'
<1> SUFFICES ASSUME SharedInv, [Next]_vars PROVE SharedInv'
  OBVIOUS
<1>1. CASE UNCHANGED vars
  BY <1>1 DEF vars, SharedInv, TypeOK, CallShape, Drawn, OwnGeneration, PlanMatches,
              ReadMatchesDigests, Names, Planned, Superseded, ChunkGeneration, StoredAt,
              ValidMeta, V2Meta, V3Meta
<1>2. ASSUME NEW w \in Writers, Call(w) PROVE SharedInv'
  BY <1>2, CallShared
<1>3. ASSUME NEW w \in Writers, ReadMeta(w) PROVE SharedInv'
  BY <1>3, ReadMetaShared
<1>4. ASSUME NEW w \in Writers, PutChunk(w) PROVE SharedInv'
  BY <1>4, PutChunkShared
<1>5. ASSUME NEW w \in Writers, PutMeta(w) PROVE SharedInv'
  BY <1>5, PutMetaShared
<1>6. ASSUME NEW w \in Writers, DeleteChunk(w) PROVE SharedInv'
  BY <1>6, DeleteChunkShared
<1>7. ASSUME NEW w \in Writers, Resolve(w) \/ Reject(w) \/ Crash(w) PROVE SharedInv'
  BY <1>7, SettleShared DEF Resolve, Reject, Crash
<1>8. QED
  BY <1>1, <1>2, <1>3, <1>4, <1>5, <1>6, <1>7 DEF Next

(* The strengthened invariant, for any number of overlapping calls.         *)
THEOREM SharedInvariant == Spec => []SharedInv
  BY InitShared, StepShared, PTL DEF Spec

(* Every variable keeps its type; the stored metadata always passes         *)
(* validMeta, so writeSdImage never refuses a slot it wrote itself.         *)
THEOREM TypeCorrect == Spec => []TypeOK
<1>1. SharedInv => TypeOK
  BY DEF SharedInv
<1>2. QED
  BY <1>1, SharedInvariant, PTL

(* However many calls overlap, crash or abort, a snapshot that can be read  *)
(* back is never a mix of two images.                                       *)
THEOREM NeverTorn == Spec => []ReadMatchesDigests
<1>1. SharedInv => ReadMatchesDigests
  BY DEF SharedInv
<1>2. QED
  BY <1>1, SharedInvariant, PTL
----------------------------------------------------------------------------
(* One call at a time.  Complete and Alone are kept, so the slot is always  *)
(* readable, and the chain of transactions is one atomic save.              *)

(* What a reader gets depends only on the metadata, the legacy record and   *)
(* the chunks that the metadata names.                                      *)
LEMMA ReadUnchanged ==
  ASSUME UNCHANGED <<meta, legacy>>,
         meta # NoMeta => \A i \in 1..meta.chunkCount : StoredAt(meta, i)' = StoredAt(meta, i)
  PROVE  /\ ReadSdImage' = ReadSdImage
         /\ Complete => Complete'
<1>1. UseLegacy' <=> UseLegacy
  BY DEF UseLegacy
<1>2. LegacyImage' = LegacyImage
  BY DEF LegacyImage
<1>3. meta # NoMeta => (AllReadable' <=> AllReadable)
  BY DEF AllReadable, Readable
<1>4. meta # NoMeta => StoredImage' = StoredImage
  BY DEF StoredImage
<1>5. ReadSdImage' = ReadSdImage
  BY <1>1, <1>2, <1>3, <1>4 DEF ReadSdImage, UseLegacy
<1>6. Complete => Complete'
  BY <1>3 DEF Complete
<1>7. QED
  BY <1>5, <1>6

(* A complete slot reads as an image or as never written.                   *)
LEMMA CompleteReads ==
  ASSUME TypeOK, Complete
  PROVE  ReadSdImage \in Images \cup {NoImage}
<1>1. CASE UseLegacy
  BY <1>1 DEF ReadSdImage, LegacyImage, TypeOK, Records
<1>2. CASE ~ UseLegacy
  <2> DEFINE n == meta.chunkCount
             img == [chunkCount |-> n, chunks |-> [i \in 1..n |-> StoredAt(meta, i)],
                     templateFingerprint |-> meta.templateFingerprint]
  <2>1. meta # NoMeta /\ ValidMeta(meta)
    BY <1>2 DEF UseLegacy, TypeOK
  <2>2. n \in ChunkIndex /\ meta.templateFingerprint \in Fingerprints
    BY <2>1 DEF ValidMeta, V2Meta, V3Meta
  <2>3. \A i \in 1..n : StoredAt(meta, i) \in Content
    BY <2>1, MetaShape DEF Complete, AllReadable, Readable, StoredAt, TypeOK
  <2>4. \A i \in 1..n-1 : ByteSize[StoredAt(meta, i)] = ChunkBytes
    <3> SUFFICES ASSUME NEW i \in 1..n-1 PROVE ByteSize[StoredAt(meta, i)] = ChunkBytes
      OBVIOUS
    <3>1. i \in 1..n /\ i # n
      BY <2>2 DEF ChunkIndex
    <3>2. QED
      BY <2>1, <3>1 DEF Complete, AllReadable, Readable
  <2>5. img \in ImagesOf(n)
    <3>1. \A i \in 1..n-1 : img.chunks[i] = StoredAt(meta, i)
      BY <2>2 DEF ChunkIndex
    <3>2. img \in [chunkCount : {n}, chunks : [1..n -> Content], templateFingerprint : Fingerprints]
      BY <2>2, <2>3
    <3>3. QED
      BY <2>4, <3>1, <3>2 DEF ImagesOf
  <2>6. ReadSdImage = img
    BY <1>2, <2>1 DEF ReadSdImage, StoredImage, Complete
  <2>7. QED
    BY <2>2, <2>5, <2>6 DEF Images
<1>3. QED
  BY <1>1, <1>2

LEMMA InitSerial == Init => SerialInv
<1> SUFFICES ASSUME Init PROVE SerialInv
  OBVIOUS
<1>1. SharedInv
  BY InitShared
<1>2. Alone
  BY DEF Init, Alone
<1>3. Complete
  <2>1. CASE EmptySlot
    BY <2>1 DEF EmptySlot, Complete
  <2>2. ASSUME NEW g \in Generations, NEW img \in Images, NEW t \in Times, StoredSlot(g, img, t)
        PROVE  Complete
    <3> DEFINE n == img.chunkCount
               gens == [i \in 1..n |-> g]
    <3>1. n \in ChunkIndex /\ \A i \in 1..n : i \in ChunkIndex
      BY ImageShape
    <3>2. /\ meta.chunkCount = n
          /\ meta.tailBytes = TailBytes(img)
          /\ \A i \in 1..n : ChunkGeneration(meta, i) = g
      <4>1. CASE meta = V2Record(g, img, t)
        BY <4>1 DEF V2Record, ChunkGeneration
      <4>2. CASE meta = V3Record(gens, img, t)
        BY <4>2 DEF V3Record, ChunkGeneration
      <4>3. QED
        BY <2>2, <4>1, <4>2 DEF StoredSlot
    <3>3. \A i \in 1..n : chunk[g][i] = img.chunks[i]
      BY <2>2, <3>1 DEF StoredSlot, StoredUnder, NoChunks, ChunkIndex
    <3>4. \A i \in 1..n : img.chunks[i] # NoChunk
      BY ImageShape, StoreAssumption
    <3>5. \A i \in 1..n : i # n => ByteSize[img.chunks[i]] = ChunkBytes
      BY <3>1 DEF Images, ImagesOf, ChunkIndex
    <3>6. QED
      BY <3>2, <3>3, <3>4, <3>5 DEF Complete, AllReadable, Readable, StoredAt, TailBytes
  <2>3. QED
    BY <2>1, <2>2 DEF Init
<1>4. QED
  BY <1>1, <1>2, <1>3 DEF SerialInv
OneWriter == \A v, w \in Writers : v = w

(* Every step but the metadata put leaves what a reader gets alone.         *)
LEMMA ChunkStepsInvisible ==
  ASSUME OneWriter, SerialInv, NEW w \in Writers,
         PutChunk(w) \/ DeleteChunk(w)
  PROVE  /\ ReadSdImage' = ReadSdImage
         /\ Complete'
         /\ UNCHANGED <<meta, legacy>>
<1>1. UNCHANGED <<meta, legacy>>
  BY DEF PutChunk, DeleteChunk
<1>2. meta # NoMeta => \A j \in 1..meta.chunkCount :
         j \in ChunkIndex /\ ChunkGeneration(meta, j) \in Generations
  BY MetaShape DEF SerialInv, SharedInv, TypeOK
<1>3. ASSUME meta # NoMeta, NEW j \in 1..meta.chunkCount
      PROVE  StoredAt(meta, j)' = StoredAt(meta, j)
  <2> DEFINE h == ChunkGeneration(meta, j)
  <2>1. ChunkGeneration(meta, j)' = h
    BY <1>1 DEF ChunkGeneration
  <2>2. CASE PutChunk(w)
    <3>1. h # generation[w]
      BY <2>2, <1>3 DEF PutChunk, SerialInv, SharedInv, OwnGeneration, Names
    <3>2. PICK i \in todo[w] : chunk' = [chunk EXCEPT ![generation[w]][i] = job[w].image.chunks[i]]
      BY <2>2 DEF PutChunk
    <3>3. chunk'[h] = chunk[h]
      BY <3>1, <3>2, <1>2, <1>3 DEF SerialInv, SharedInv, TypeOK
    <3>4. QED
      BY <2>1, <3>3 DEF StoredAt
  <2>3. CASE DeleteChunk(w)
    <3>1. PICK i \in todo[w] :
            \/ chunk' = [chunk EXCEPT ![ChunkGeneration(prior[w], i)][i] = NoChunk]
            \/ UNCHANGED chunk
      BY <2>3 DEF DeleteChunk
    <3>2. i \in Superseded(w) /\ pc[w] = "cleanup"
      BY <2>3, <3>1 DEF DeleteChunk, SerialInv, SharedInv, CallShape
    <3>3. meta = V3Record(plan[w], job[w].image, job[w].savedAt)
      BY <3>2 DEF SerialInv, Alone
    <3>4. h = plan[w][j] /\ meta.chunkCount = job[w].image.chunkCount
      BY <3>3 DEF V3Record, ChunkGeneration
    <3>5. j \in DOMAIN plan[w]
      BY <1>3, <3>2, <3>4 DEF SerialInv, SharedInv, CallShape
    <3>6. i = j => h # ChunkGeneration(prior[w], i)
      BY <3>2, <3>4, <3>5 DEF Superseded
    <3>7. chunk'[h][j] = chunk[h][j]
      BY <3>1, <3>6, <1>2, <1>3 DEF SerialInv, SharedInv, TypeOK
    <3>8. QED
      BY <2>1, <3>7 DEF StoredAt
  <2>4. QED
    BY <2>2, <2>3
<1>4. QED
  BY <1>1, <1>3, ReadUnchanged DEF SerialInv

(* The metadata put makes the job's image the one a reader gets.            *)
LEMMA PutMetaReads ==
  ASSUME SerialInv, NEW w \in Writers, PutMeta(w)
  PROVE  /\ ReadSdImage' = job[w].image
         /\ Complete'
<1> DEFINE img == job[w].image
           n == img.chunkCount
<1>1. /\ pc[w] = "put" /\ todo[w] = {}
      /\ meta' = V3Record(plan[w], img, job[w].savedAt)
      /\ UNCHANGED <<chunk, legacy>>
  BY DEF PutMeta, AllPut
<1>2. /\ img \in Images /\ job[w] \in Records
      /\ plan[w] \in [1..n -> used]
  BY <1>1 DEF SerialInv, SharedInv, CallShape, Records
<1>3. /\ meta'.chunkCount = n
      /\ meta'.tailBytes = TailBytes(img)
      /\ meta'.savedAt = job[w].savedAt
      /\ meta'.templateFingerprint = img.templateFingerprint
      /\ \A i \in 1..n : ChunkGeneration(meta', i) = plan[w][i]
  BY <1>1 DEF V3Record, ChunkGeneration
<1>4. \A i \in 1..n : StoredAt(meta, i)' = img.chunks[i] /\ StoredAt(meta, i)' # NoChunk
  <2> SUFFICES ASSUME NEW i \in 1..n
               PROVE  StoredAt(meta, i)' = img.chunks[i] /\ StoredAt(meta, i)' # NoChunk
    OBVIOUS
  <2>1. i \in DOMAIN plan[w]
    BY <1>2
  <2>2. chunk[plan[w][i]][i] # NoChunk
    BY <1>1, <2>1 DEF SerialInv, Alone
  <2>3. chunk[plan[w][i]][i] = img.chunks[i]
    BY <2>1, <2>2 DEF SerialInv, SharedInv, PlanMatches
  <2>4. StoredAt(meta, i)' = chunk[plan[w][i]][i]
    BY <1>1, <1>3 DEF StoredAt
  <2>5. QED
    BY <2>2, <2>3, <2>4
<1>5. n \in ChunkIndex /\ \A i \in 1..n : i # n => ByteSize[img.chunks[i]] = ChunkBytes
  BY <1>2, ImageShape DEF Images, ImagesOf, ChunkIndex
<1>6. \A i \in 1..n : Readable(meta, i)'
  BY <1>3, <1>4, <1>5 DEF Readable, TailBytes
<1>7. AllReadable'
  BY <1>3, <1>6 DEF AllReadable
<1>8. StoredImage' = img
  <2>1. [i \in 1..n |-> StoredAt(meta, i)'] = img.chunks
    BY <1>2, <1>4, ImageShape
  <2>2. img = [chunkCount |-> n, chunks |-> img.chunks,
               templateFingerprint |-> img.templateFingerprint]
    BY <1>2 DEF Images, ImagesOf
  <2>3. QED
    BY <1>3, <2>1, <2>2 DEF StoredImage
<1>9. ~ UseLegacy'
  <2>1. ValidMeta(meta')
    <3>1. plan[w] \in [1..n -> Generations] /\ job[w].savedAt \in Times
      BY <1>2 DEF SerialInv, SharedInv, TypeOK, Records
    <3>2. QED
      BY <1>1, <1>2, <3>1, V3RecordValid
  <2>2. meta' # NoMeta
    BY <2>1, SentinelAssumption
  <2>3. legacy' # NoLegacy => ~ (legacy'.savedAt > meta'.savedAt)
    <3>1. legacy # NoLegacy => legacy.savedAt \in Nat /\ job[w].savedAt \in Nat
      BY <1>2, StoreAssumption DEF SerialInv, SharedInv, TypeOK, Records
    <3>2. QED
      BY <1>1, <1>3, <3>1 DEF SerialInv, Alone
  <2>4. QED
    BY <2>2, <2>3 DEF UseLegacy
<1>10. QED
  BY <1>7, <1>8, <1>9 DEF ReadSdImage, Complete
LEMMA StepSerial == OneWriter /\ SerialInv /\ [Next]_vars => SerialInv'
<1> SUFFICES ASSUME OneWriter, SerialInv, [Next]_vars PROVE SerialInv'
  OBVIOUS
<1>1. SharedInv'
  BY StepShared DEF SerialInv
<1>2. CASE UNCHANGED vars
  <2>1. Alone'
    BY <1>2 DEF vars, SerialInv, Alone
  <2>2. Complete'
    BY <1>2 DEF vars, SerialInv, Complete, AllReadable, Readable, StoredAt, ChunkGeneration
  <2>3. QED
    BY <1>1, <2>1, <2>2 DEF SerialInv
<1>3. ASSUME NEW w \in Writers, Call(w) PROVE SerialInv'
  <2>1. Complete'
    BY <1>3 DEF Call, SerialInv, Complete, AllReadable, Readable, StoredAt, ChunkGeneration
  <2>2. PICK img \in Images, t \in Now : job' = [job EXCEPT ![w] = [image |-> img, savedAt |-> t]]
    BY <1>3 DEF Call
  <2>3. legacy # NoLegacy => t >= legacy.savedAt
    BY DEF Now
  <2>4. Alone'
    BY <1>3, <2>2, <2>3 DEF OneWriter, Call, SerialInv, SharedInv, TypeOK, Alone
  <2>5. QED
    BY <1>1, <2>1, <2>4 DEF SerialInv
<1>4. ASSUME NEW w \in Writers, ReadMeta(w) PROVE SerialInv'
  <2>1. Complete'
    BY <1>4 DEF ReadMeta, SerialInv, Complete, AllReadable, Readable, StoredAt, ChunkGeneration
  <2> DEFINE img == job[w].image
             gens == ChunkGenerations(meta, img, generation[w])
  <2>2. /\ DOMAIN gens = 1..img.chunkCount
        /\ \A i \in 1..img.chunkCount :
             \/ gens[i] = generation[w]
             \/ /\ meta # NoMeta /\ meta.chunkCount = img.chunkCount
                /\ gens[i] = ChunkGeneration(meta, i)
    BY DEF ChunkGenerations, KeepsGeneration, Reusable
  <2>3. /\ plan' = [plan EXCEPT ![w] = gens]
        /\ todo' = [todo EXCEPT ![w] = {i \in 1..img.chunkCount : gens[i] = generation[w]}]
        /\ prior' = [prior EXCEPT ![w] = meta]
        /\ pc' = [pc EXCEPT ![w] = "put"]
        /\ UNCHANGED <<meta, chunk, legacy, job, generation>>
    BY <1>4, <2>2 DEF ReadMeta
  <2> HIDE DEF gens
  <2>4. \A i \in 1..img.chunkCount : gens[i] # generation[w] => chunk[gens[i]][i] # NoChunk
    BY <2>2 DEF SerialInv, Complete, AllReadable, Readable, StoredAt
  <2>5. Alone'
    <3>1. /\ plan'[w] = gens
          /\ todo'[w] = {i \in 1..img.chunkCount : gens[i] = generation[w]}
          /\ prior'[w] = meta
          /\ pc'[w] = "put"
      BY <2>3 DEF SerialInv, SharedInv, TypeOK
    <3>2. pc[w] # "idle"
      BY <1>4 DEF ReadMeta
    <3>3. \A i \in DOMAIN plan'[w] \ todo'[w] : chunk[plan'[w][i]][i] # NoChunk
      BY <2>2, <2>4, <3>1
    <3>4. \A i \in todo'[w] : plan'[w][i] = generation[w]
      BY <3>1
    <3>5. \A v \in Writers : v = w
      BY DEF OneWriter
    <3>6. QED
      BY <2>3, <3>1, <3>2, <3>3, <3>4, <3>5 DEF SerialInv, Alone
  <2>6. QED
    BY <1>1, <2>1, <2>5 DEF SerialInv
<1>5. ASSUME NEW w \in Writers, PutChunk(w) PROVE SerialInv'
  <2>1. Complete'
    BY <1>5, ChunkStepsInvisible
  <2>2. PICK i \in todo[w] :
          /\ chunk' = [chunk EXCEPT ![generation[w]][i] = job[w].image.chunks[i]]
          /\ todo' = [todo EXCEPT ![w] = @ \ {i}]
    BY <1>5 DEF PutChunk
  <2>3. /\ pc[w] = "put"
        /\ UNCHANGED <<meta, legacy, pc, job, prior, generation, plan>>
    BY <1>5 DEF PutChunk
  <2>4. /\ plan[w] \in [1..job[w].image.chunkCount -> used]
        /\ i \in DOMAIN plan[w]
        /\ job[w].image \in Images
    BY <2>3 DEF SerialInv, SharedInv, CallShape, Records
  <2>5. job[w].image.chunks[i] # NoChunk
    BY <2>4, ImageShape, StoreAssumption
  <2>6. plan[w][i] = generation[w]
    BY <2>3 DEF SerialInv, Alone
  <2>7. ASSUME NEW j \in DOMAIN plan[w] \ (todo[w] \ {i})
        PROVE  chunk'[plan[w][j]][j] # NoChunk
    <3>1. plan[w][j] \in Generations /\ j \in ChunkIndex
      BY StoreAssumption DEF SerialInv, SharedInv, TypeOK, Plans, ChunkIndex
    <3>2. j # i => chunk[plan[w][j]][j] # NoChunk
      BY <2>3 DEF SerialInv, Alone
    <3>3. QED
      BY <2>2, <2>5, <2>6, <3>1, <3>2 DEF SerialInv, SharedInv, TypeOK
  <2>8. Alone'
    BY <2>2, <2>3, <2>7 DEF OneWriter, SerialInv, SharedInv, TypeOK, Alone
  <2>9. QED
    BY <1>1, <2>1, <2>8 DEF SerialInv
<1>6. ASSUME NEW w \in Writers, PutMeta(w) PROVE SerialInv'
  <2>1. Complete'
    BY <1>6, PutMetaReads
  <2>2. Alone'
    BY <1>6 DEF OneWriter, PutMeta, SerialInv, SharedInv, TypeOK, Alone
  <2>3. QED
    BY <1>1, <2>1, <2>2 DEF SerialInv
<1>7. ASSUME NEW w \in Writers, DeleteChunk(w) PROVE SerialInv'
  <2>1. Complete'
    BY <1>7, ChunkStepsInvisible
  <2>2. Alone'
    BY <1>7 DEF OneWriter, DeleteChunk, SerialInv, Alone
  <2>3. QED
    BY <1>1, <2>1, <2>2 DEF SerialInv
<1>8. ASSUME NEW w \in Writers, NEW how, Settle(w, how) PROVE SerialInv'
  <2>1. Complete'
    BY <1>8 DEF Settle, SerialInv, Complete, AllReadable, Readable, StoredAt, ChunkGeneration
  <2>2. Alone'
    BY <1>8 DEF OneWriter, Settle, SerialInv, SharedInv, TypeOK, Alone
  <2>3. QED
    BY <1>1, <2>1, <2>2 DEF SerialInv
<1>9. QED
  BY <1>2, <1>3, <1>4, <1>5, <1>6, <1>7, <1>8 DEF Next, Resolve, Reject, Crash

(* The strengthened invariant, with one call at a time.                     *)
THEOREM SerialInvariant == ASSUME OneWriter PROVE Spec => []SerialInv
<1>1. Init => SerialInv
  BY InitSerial
<1>2. SerialInv /\ [Next]_vars => SerialInv'
  BY StepSerial
<1>3. QED
  BY <1>1, <1>2, PTL DEF Spec

(* With one call at a time, every state of a save, of an aborted save and   *)
(* of a crash leaves a snapshot that can be read.                           *)
THEOREM AlwaysReadable == ASSUME OneWriter PROVE Spec => []SnapshotReadable
<1>1. SerialInv => SnapshotReadable
  BY CompleteReads, SentinelAssumption DEF SerialInv, SharedInv, SnapshotReadable
<1>2. QED
  BY <1>1, SerialInvariant, PTL
----------------------------------------------------------------------------
(* Refinement of SdSnapshot.                                                *)
Phase == [w \in Writers |-> IF pc[w] = "idle" THEN "idle"
                            ELSE IF pc[w] = "cleanup" THEN "committed" ELSE "pending"]
Want == [w \in Writers |-> IF job[w] = NoImage THEN NoImage ELSE job[w].image]

LEMMA InitAbstract == Init => Snapshot!Init
<1> SUFFICES ASSUME Init PROVE Snapshot!Init
  OBVIOUS
<1>1. ReadSdImage \in Images \cup {NoImage}
  BY InitSerial, CompleteReads DEF SerialInv, SharedInv
<1>2. \A w \in Writers : pc[w] = "idle" /\ job[w] = NoImage
  BY DEF Init
<1>3. outcome = [w \in Writers |-> "none"]
  BY DEF Init
<1>4. QED
  BY <1>1, <1>2, <1>3 DEF Snapshot!Init

LEMMA StepAbstract ==
  OneWriter /\ SerialInv /\ [Next]_vars => [Snapshot!Next]_(Snapshot!vars)
<1> SUFFICES ASSUME OneWriter, SerialInv, [Next]_vars PROVE [Snapshot!Next]_(Snapshot!vars)
  OBVIOUS
<1> DEFINE Stays == /\ ReadSdImage' = ReadSdImage
                    /\ UNCHANGED <<Phase, Want, outcome>>
<1>0. Stays => UNCHANGED Snapshot!vars
  BY DEF Snapshot!vars, Phase, Want
<1>1. CASE UNCHANGED vars
  <2>1. ReadSdImage' = ReadSdImage
    BY <1>1, ReadUnchanged DEF vars, StoredAt, ChunkGeneration
  <2>2. QED
    BY <1>0, <1>1, <2>1 DEF vars, Phase, Want
<1>2. ASSUME NEW w \in Writers, Call(w) PROVE Snapshot!Next
  <2>1. ReadSdImage' = ReadSdImage
    BY <1>2, ReadUnchanged DEF Call, StoredAt, ChunkGeneration
  <2>2. PICK img \in Images, t \in Now : job' = [job EXCEPT ![w] = [image |-> img, savedAt |-> t]]
    BY <1>2 DEF Call
  <2>3. [image |-> img, savedAt |-> t] # NoImage
    BY SentinelAssumption DEF Records, Now
  <2>4. Phase[w] = "idle" /\ Phase' = [Phase EXCEPT ![w] = "pending"]
    BY <1>2 DEF Call, Phase, SerialInv, SharedInv, TypeOK
  <2>5. Want' = [Want EXCEPT ![w] = img]
    BY <2>2, <2>3 DEF Want, SerialInv, SharedInv, TypeOK
  <2>6. outcome' = [outcome EXCEPT ![w] = "none"]
    BY <1>2 DEF Call
  <2>7. Snapshot!Request(w, img)
    BY <2>1, <2>4, <2>5, <2>6 DEF Snapshot!Request, Phase, Want
  <2>8. QED
    BY <2>7 DEF Snapshot!Next
<1>3. ASSUME NEW w \in Writers, ReadMeta(w) PROVE UNCHANGED Snapshot!vars
  <2>1. ReadSdImage' = ReadSdImage
    BY <1>3, ReadUnchanged DEF ReadMeta, StoredAt, ChunkGeneration
  <2>2. UNCHANGED <<Phase, Want, outcome>>
    BY <1>3 DEF ReadMeta, Phase, Want, SerialInv, SharedInv, TypeOK
  <2>3. QED
    BY <1>0, <2>1, <2>2
<1>4. ASSUME NEW w \in Writers, PutChunk(w) \/ DeleteChunk(w) PROVE UNCHANGED Snapshot!vars
  <2>1. ReadSdImage' = ReadSdImage
    BY <1>4, ChunkStepsInvisible
  <2>2. UNCHANGED <<Phase, Want, outcome>>
    BY <1>4 DEF PutChunk, DeleteChunk, Phase, Want
  <2>3. QED
    BY <1>0, <2>1, <2>2
<1>5. ASSUME NEW w \in Writers, PutMeta(w) PROVE Snapshot!Next
  <2>1. ReadSdImage' = job[w].image
    BY <1>5, PutMetaReads
  <2>2. job[w] \in Records
    BY <1>5 DEF PutMeta, SerialInv, SharedInv, CallShape
  <2>3. ReadSdImage' = Want[w]
    BY <2>1, <2>2, SentinelAssumption DEF Want
  <2>4. Phase[w] = "pending" /\ Phase' = [Phase EXCEPT ![w] = "committed"]
    BY <1>5 DEF PutMeta, Phase, SerialInv, SharedInv, TypeOK
  <2>5. UNCHANGED <<Want, outcome>>
    BY <1>5 DEF PutMeta, Want
  <2>6. Snapshot!Commit(w)
    BY <2>3, <2>4, <2>5 DEF Snapshot!Commit, Phase, Want
  <2>7. QED
    BY <2>6 DEF Snapshot!Next
<1>6. ASSUME NEW w \in Writers, NEW how, NEW from, Settle(w, how), Phase[w] = from
      PROVE  Snapshot!Settle(w, from, how)
  <2>1. ReadSdImage' = ReadSdImage
    BY <1>6, ReadUnchanged DEF Settle, StoredAt, ChunkGeneration
  <2>2. Phase' = [Phase EXCEPT ![w] = "idle"]
    BY <1>6 DEF Settle, Phase, SerialInv, SharedInv, TypeOK
  <2>3. Want' = [Want EXCEPT ![w] = NoImage]
    BY <1>6 DEF Settle, Want, SerialInv, SharedInv, TypeOK
  <2>4. outcome' = [outcome EXCEPT ![w] = how]
    BY <1>6 DEF Settle
  <2>5. QED
    BY <1>6, <2>1, <2>2, <2>3, <2>4 DEF Snapshot!Settle, Phase, Want
<1>7. ASSUME NEW w \in Writers, Resolve(w) \/ Reject(w) \/ Crash(w) PROVE Snapshot!Next
  <2>1. CASE Resolve(w)
    BY <1>6, <2>1 DEF Resolve, Phase, Snapshot!Resolve, Snapshot!Next
  <2>2. CASE Reject(w)
    BY <1>6, <2>2 DEF Reject, Phase, Snapshot!Reject, Snapshot!Next
  <2>3. CASE Crash(w)
    BY <1>6, <2>3 DEF Crash, Phase, Snapshot!Crash, Snapshot!Next
  <2>4. QED
    BY <1>7, <2>1, <2>2, <2>3
<1>8. QED
  BY <1>1, <1>2, <1>3, <1>4, <1>5, <1>7 DEF Next

(* With one call at a time, writeSdImage and readSdImage implement the      *)
(* atomic snapshot slot: a save takes effect at the metadata put or never.  *)
THEOREM RefinesSnapshot == ASSUME OneWriter PROVE Spec => AtomicSave
<1>1. Spec => []SerialInv
  BY SerialInvariant
<1>2. SerialInv /\ [Next]_vars => [Snapshot!Next]_(Snapshot!vars)
  BY StepAbstract
<1>3. QED
  BY <1>1, <1>2, InitAbstract, PTL DEF Spec, AtomicSave, Snapshot!Spec
============================================================================
