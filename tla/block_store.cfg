CONSTANTS
  h1 = h1  h2 = h2  d1 = d1  d2 = d2  o1 = o1  o2 = o2  t1 = t1  t2 = t2
  Blank = Blank  NoThread = NoThread  Unknown = Unknown
  bc_table_hash <- MCTableHash
  Data = {d1, d2}
  Size <- MCBlockSize
  BlockData <- MCBlockData
  Hash = {h1, h2}
  Bucket = {1}
  Out = {o1, o2}
  Thread = {t1}
  MaxPos = 2
  BlocksPerJournal = 2
  MaxOf = 3
  MaxArch = 2
  PosWrap = 8
  PurgePos = {}
  IOErrors = TRUE
  MaxCrash = 1
  Dbs = {"block"}
  Kinds = {}
SPECIFICATION ClientSpec
INVARIANT AckedReadable
INVARIANT AckedFindable
INVARIANT BlockRetrievable
INVARIANT HashMatchesData
