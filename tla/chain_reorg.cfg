CONSTANTS
  G = G  A1 = A1  A2 = A2  A3 = A3  B1 = B1  B2 = B2  B3 = B3  C1 = C1
  g = g  h = h  a1 = a1  a2 = a2  b1 = b1  b2 = b2
  x = x  u = u  y = y  w = w  z = z
  None = None
  Genesis = G
  Block = {G, A1, A2, A3, B1, B2, B3, C1}
  Tx = {g, h, a1, a2, b1, b2, x, u, y, w, z}
  Prev <- MCPrev
  Height <- MCHeight
  Work <- MCWork
  Vtx <- MCVtx
  Vin <- MCVin
  BadBlock = {A3}
  BadConnect = {}
  Maturity = 2
  Pool = {x}
  HeaderOf = {A1}
  MaxCrash = 1
SPECIFICATION Spec
CHECK_DEADLOCK FALSE
INVARIANT TypeOK
INVARIANT BestValid
INVARIANT ChainStored
INVARIANT ChainTxFound
INVARIANT SpendsRecorded
INVARIANT TipDurable
INVARIANT OrphanOutside
PROPERTY ImplementsLedger
