CONSTANTS
  G = G  A1 = A1  A2 = A2  A3 = A3  B1 = B1  B2 = B2
  g = g  h = h  k = k  x = x  c = c  y = y  w = w
  None = None
  Genesis = G
  Block = {G, B1, B2}
  Tx = {g, h, k, x, c, y, w}
  Prev <- MCPrev
  Height <- MCHeight
  Work <- MCWork
  Vtx <- MCVtx
  Vin <- MCVinNoK
  BadBlock = {}
  BadConnect = {}
  Maturity = 2
  Pool = {}
  HeaderOf = {}
  MaxCrash = 0
  PoolTx = {x, c, y, w}
  Own = {w}
  Weight <- MCWeight
  MaxWeight = 2
  MaxQueueMem = 2
  FeePriority <- MCFeePriority
  LockTime <- MCLockTime
  OverLimit = {}
  NonStandard = {}
  LowFee = {c}
  BadSig = {}
  Newer = {}
  MaxInval = 2
  MaxTick = 0
SPECIFICATION PoolSpec
CHECK_DEADLOCK FALSE
INVARIANT SpendsRecorded
