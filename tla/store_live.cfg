CONSTANTS
  h1 = h1  h2 = h2  h3 = h3  d1 = d1  d2 = d2  t1 = t1  t2 = t2
  Blank = Blank  NoThread = NoThread
  bc_table_hash <- MCTableHash
  Size <- MCSize
  Hash = {h1, h3}
  Bucket = {1, 2}
  Data = {d1}
  Thread = {t1}
  MaxPos = 2
  BlocksPerJournal = 2
  MaxOf = 2
  MaxArch = 1
  PosWrap = 8
  PurgePos = {1}
  IOErrors = FALSE
  MaxCrash = 1
SPECIFICATION FairSpec
INVARIANT TypeOK
PROPERTY ClearArchives
 
PROPERTY LockReleased
