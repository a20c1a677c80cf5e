CONSTANTS
  h1 = h1  h2 = h2  d1 = d1  d2 = d2  o1 = o1  o2 = o2  t1 = t1  t2 = t2
  Blank = Blank  NoThread = NoThread  Unknown = Unknown
  bc_table_hash <- MCTableHash
  Data <- MCRecordData
  Size <- MCRecordSize
  BlockData <- MCNoBlock
  Hash = {h1, h2}
  Bucket = {1}
  Out = {o1, o2}
  Thread = {t1}
  MaxPos = 3
  BlocksPerJournal = 2
  MaxOf = 3
  MaxArch = 1
  PosWrap = 8
  PurgePos = {}
  IOErrors = FALSE
  MaxCrash = 0
  Dbs = {"coin", "tx", "peer"}
  Kinds = {"all", "mark", "unmark", "erase"}
SPECIFICATION ClientSpec
INVARIANT OneRecordPerHash
INVARIANT LastWriteRead
INVARIANT MarksKept
