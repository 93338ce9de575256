CONSTANTS
  MaxRuns = 2
  MaxFrames = 2
  None = None
  MaxClients = 2
  MaxSeq = 2
  MaxPayloads = 3
  Capacity = 2
  NoRequest = NoRequest
  MaxIds = 2
  MaxLines = 2
  MaxAnswers = 2
  Lossy = TRUE
  Restarts = TRUE
  NoAnswer = NoAnswer
SPECIFICATION DesktopSpec
INVARIANTS HostInv OneQemu AnsweredInTurn NothingSkipped CompletionIsReal AdmittedOnceUnlessLost
PROPERTIES FrameReachesItsRun GoneThreadsEnd EveryLineAnswered
CHECK_DEADLOCK FALSE
