CONSTANTS
  G = G  A1 = A1  A2 = A2  B1 = B1  B2 = B2  p = p  q = q
  None = None
  Genesis = G
  Block = {G, A1, A2}
  Tx = {}
  Prev <- MCPrev
  Height <- MCHeight
  Work <- MCWork
  Vtx <- MCVtx
  Vin <- MCVin
  BadBlock = {}
  BadConnect = {}
  Maturity = 2
  Pool = {}
  HeaderOf = {}
  MaxCrash = 0
  Peer = {p}
  FirstTip <- MCLastTip
  LastTip <- MCLastTip
  MaxHeaders = 2
  MaxAnnounce = 8
  MaxBatch = 2
  MaxBreak = 1
SPECIFICATION SyncSpec
CHECK_DEADLOCK FALSE
PROPERTY Downloads
