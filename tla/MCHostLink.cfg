SPECIFICATION LinkSpec
CONSTANTS
  Rows = 2
  Cols = 2
  QueueCap = 2
  Positions = {p1}
  p1 = p1
  b1 = b1
  b2 = b2
  Buffers = {b1, b2}
  Cap <- MCCap
  Firmwares <- MCFirmwares
  Pictures <- MCPictures
  MaxFrames <- MCMaxFrames
  MaxConnections = 2
INVARIANTS InOrder ExchangeWhole InputsKept
PROPERTY PanelSound
CHECK_DEADLOCK FALSE
