CONSTANTS
  Boards = {mofei, x4}
  Files = {seed, book}
  Ids = {r1, r2, r3}
  Timers = {t1}
  MaxQueue = 2
  Template = seed
  None = None
  First = mofei
  Single = r1
  Stopper = r3
SPECIFICATION Run
INVARIANTS AckedStored
PROPERTIES ConflictKept EveryRequestSettles
