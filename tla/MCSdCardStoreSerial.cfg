SPECIFICATION Spec
CONSTANTS
  Writers = {w1}
  a = a
  b = b
  c = c
  Content <- MCContent
  ByteSize <- MCByteSize
  ChunkBytes = 2
  MaxChunks = 2
  Fingerprints = {f1}
  Generations = {g1, g2, g3}
  Times = {1, 2}
  NoChunk = NoChunk
  NoMeta = NoMeta
  NoLegacy = NoLegacy
  NoImage = NoImage
  NoGeneration = NoGeneration
  ReadError = ReadError
INVARIANTS SnapshotReadable SerialInv
PROPERTIES AtomicSave
SYMMETRY GenSymmetry
CHECK_DEADLOCK FALSE
