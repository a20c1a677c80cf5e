------------------------------- MODULE BcStore -------------------------------
(***************************************************************************)
(* The block-chain record database of shioncoin/blockchain: an index file  *)
(* of fixed-size entries addressed by position, a hash table that          *)
(* remembers for each bucket the highest position in use, an archive of    *)
(* index entries, and data journals that hold the serialized records.      *)
(*                                                                         *)
(* Threads call the operations of bc_block.c.  A call holds the recursive  *)
(* mutex of the database (lock) where the code does, and is split into the *)
(* single stores it makes into the memory-mapped files, because the        *)
(* process may be killed between any two of them: the files keep every     *)
(* store made before, the locals and the mutex are lost.                   *)
(***************************************************************************)
EXTENDS Integers, Sequences, FiniteSets, FiniteSetsExt

CONSTANTS
  Hash,             \* record hashes (bc_hash_t)
  Bucket,           \* entries of the hash table
  bc_table_hash,    \* the bucket of each hash
  Data,             \* serialized records; a record's crc identifies it
  Size,             \* the length of each serialized record
  Thread,           \* threads using the database
  MaxPos,           \* index entries that fit in the index file
  BlocksPerJournal, \* BC_BLOCKS_PER_JOURNAL
  MaxOf,            \* bytes that fit in a journal
  MaxArch,          \* entries that fit in the archive file
  PosWrap,          \* 2^32: positions are unsigned and wrap
  PurgePos,         \* positions the database is purged from
  IOErrors,         \* whether enlarging a file map may fail
  MaxCrash,         \* times the process is killed
  Blank,            \* an index entry with size 0
  NoThread

ASSUME HashAssumption == bc_table_hash \in [Hash -> Bucket]
ASSUME SizeAssumption == Size \in [Data -> Nat \ {0}]
ASSUME BoundAssumption ==
  /\ MaxPos \in Nat \ {0}
  /\ BlocksPerJournal \in Nat \ {0}
  /\ MaxOf \in Nat
  /\ MaxArch \in Nat
  /\ MaxCrash \in Nat
  /\ PosWrap \in Nat /\ PosWrap > MaxPos + 1
  /\ PurgePos \subseteq 0 .. MaxPos - 1
  /\ IOErrors \in BOOLEAN
ASSUME NoThreadAssumption == NoThread \notin Thread

VARIABLES
  idx,   \* index file: position -> entry
  cnt,   \* idx_map.hdr->of / sizeof(bc_idx_t)
  tab,   \* hash table: bucket -> position or special value
  arch,  \* archive file: entries in the order they were added
  cell,  \* contents of the journals
  of,    \* hdr->of of each journal
  lock,  \* holder of the database mutex
  pc,    \* where each thread is
  loc,   \* the locals of the call each thread is in
  ret,   \* what the last call of each thread returned
  crashes,
  acked  \* history: positions whose last write returned success

files == <<idx, cnt, tab, arch, cell, of>>
vars == <<files, lock, pc, loc, ret, crashes, acked>>

-----------------------------------------------------------------------------
(* Positions, entries and special values of the hash table.                *)

Pos == 0 .. MaxPos - 1

BC_TABLE_SEARCH_POS == 0
BC_TABLE_POS_MASK == MaxPos
BC_TABLE_NULL_POS == MaxPos + 1

bc_journal(pos) == (pos \div BlocksPerJournal) + 1

Journal == 1 .. bc_journal(MaxPos)

(* bc_idx_t; the crc is modelled by the record it was computed from.       *)
IdxRec == [jrnl : Journal, of : Nat, size : Nat \ {0}, crc : Data, hash : Hash]

ASSUME BlankAssumption == Blank \notin Hash /\ Blank \notin IdxRec

NoLoc == [op |-> "none", pos |-> 0, hash |-> Blank, rec |-> Blank,
          npos |-> 0, top |-> 0]

Loc == [op : {"none", "write", "clear", "purge", "arch_write"},
        pos : Nat, hash : Hash \cup {Blank}, rec : IdxRec \cup {Blank},
        npos : Nat, top : Nat]

Label == {"idle",
          "idx_set", "table_reset", "append", "append_of",
          "rw_idx", "undo_idx", "undo_tab",
          "clear_next", "clear_set", "clear_idx", "purge_next",
          "aw_data", "aw_of", "aw_arch"}

Result == {"ok", "ERR_NOENT", "ERR_EXIST", "ERR_IO", "ERR_ILSEQ"}

-----------------------------------------------------------------------------
(* Reading the files.                                                      *)

(* bc_idx_get: an entry exists below the count and with a size.            *)
Live(pos) == pos \in Pos /\ pos < cnt /\ idx[pos] # Blank

(* The bytes of record d, seen as numbered units of d, stored at offset o. *)
Stored(bytes, o, d) ==
  [k \in 0 .. MaxOf - 1 |->
     IF o <= k /\ k < o + Size[d] THEN <<d, k - o>> ELSE bytes[k]]

(* The checksum test of bc_read, bc_arch and bc_purge: the journal holds   *)
(* the record that the entry's crc was computed from.                      *)
CrcOk(rec) ==
  /\ rec.of + rec.size <= MaxOf
  /\ rec.size = Size[rec.crc]
  /\ \A k \in 0 .. rec.size - 1 : cell[rec.jrnl][rec.of + k] = <<rec.crc, k>>

(* bc_get *)
bc_get(pos) ==
  IF ~Live(pos) THEN [err |-> "ERR_NOENT"]
  ELSE IF ~CrcOk(idx[pos]) THEN [err |-> "ERR_ILSEQ"]
  ELSE [err |-> "ok", data |-> idx[pos].crc]

(* bc_table_set keeps the highest position of a bucket.                    *)
TableSet(b, pos) ==
  IF pos < BC_TABLE_POS_MASK /\ (tab[b] < pos \/ tab[b] >= BC_TABLE_POS_MASK)
  THEN [tab EXCEPT ![b] = pos] ELSE tab

(* bc_table_reset: the next search of the bucket scans the whole index.    *)
TableReset_Skipped(h) == tab
TableReset(h) == [tab EXCEPT ![bc_table_hash[h]] = BC_TABLE_SEARCH_POS]

(* The entries of bucket b that a scan from start down to found passes.    *)
Seen_MatchOnly(b, found, start) ==
  {i \in {found} : i # -1 /\ bc_table_hash[idx[i].hash] = b}
Seen(b, found, start) ==
  {i \in Max({found, 0}) .. start :
     idx[i] # Blank /\ bc_table_hash[idx[i].hash] = b}

(* bc_idx_find: the position of hash h, or -1, and the table afterwards.   *)
bc_idx_find(h) ==
  LET b == bc_table_hash[h]
      known == tab[b] # BC_TABLE_SEARCH_POS /\ tab[b] <= cnt - 1
      start == IF known THEN tab[b] ELSE cnt - 1
      match == {i \in 0 .. start : idx[i] # Blank /\ idx[i].hash = h}
      found == IF match = {} THEN -1 ELSE Max(match)
      seen == Seen(b, found, start)
      high == IF known THEN tab[b]
              ELSE IF seen = {} THEN -1 ELSE Max(seen)
  IN IF tab[b] = BC_TABLE_NULL_POS THEN [pos |-> -1, tab |-> tab]
     ELSE [pos |-> found,
           tab |-> IF high # -1 THEN TableSet(b, high)
                   ELSE IF found = -1
                        THEN [tab EXCEPT ![b] = BC_TABLE_NULL_POS]
                        ELSE tab]

-----------------------------------------------------------------------------
(* Threads, the mutex and returning from a call.                           *)

CanLock(t) == lock \in {NoThread, t}

Goto(t, label) == pc' = [pc EXCEPT ![t] = label]

Unlocked(t) == IF lock = t THEN NoThread ELSE lock

Return(t, err) ==
  /\ Goto(t, "idle")
  /\ lock' = Unlocked(t)
  /\ loc' = [loc EXCEPT ![t] = NoLoc]
  /\ ret' = [ret EXCEPT ![t] = err]

(* Begin a call that keeps the mutex until it returns.                     *)
Enter(t, label, l) ==
  /\ Goto(t, label)
  /\ lock' = t
  /\ loc' = [loc EXCEPT ![t] = l]
  /\ ret' = [ret EXCEPT ![t] = "ok"]

-----------------------------------------------------------------------------
(* bc_write, bc_append and bc_rewrite.                                     *)

NewRec_Overlap(pos, h, d) ==
  [jrnl |-> bc_journal(pos), of |-> Max({0, of[bc_journal(pos)] - 1}),
   size |-> Size[d], crc |-> d, hash |-> h]
NewRec(pos, h, d) ==
  [jrnl |-> bc_journal(pos), of |-> of[bc_journal(pos)], size |-> Size[d],
   crc |-> d, hash |-> h]

(* bc_rewrite reuses the room of the record it replaces.                   *)
RewriteFits_Unchecked(pos, d) == TRUE
RewriteFits(pos, d) == idx[pos].size >= Size[d]

(* bc_write up to its first store: allocate the journal, build the entry,  *)
(* and choose between a new entry and rewriting the one that is there.     *)
bc_write(t, pos, h, d) ==
  LET new == [NoLoc EXCEPT !.op = "write", !.pos = pos, !.hash = h] IN
  /\ pc[t] = "idle"
  /\ CanLock(t)
  /\ UNCHANGED <<files, crashes, acked>>
  /\ \/ IOErrors /\ Return(t, "ERR_IO")
     \/ ~Live(pos) /\ Enter(t, "idx_set", [new EXCEPT !.rec = NewRec(pos, h, d)])
     \/ /\ Live(pos)
        /\ ~RewriteFits(pos, d)
        /\ Return(t, "ERR_EXIST")
     \/ /\ Live(pos)
        /\ RewriteFits(pos, d)
        /\ Enter(t, "rw_idx",
             [new EXCEPT !.rec = [idx[pos] EXCEPT !.size = Size[d], !.crc = d]])

(* bc_append is bc_write at the next position, under the same mutex.       *)
bc_append(t, h, d) == bc_write(t, cnt, h, d)

(* bc_idx_set: the store of the entry; fails when the file is at its limit *)
bc_idx_set(t) ==
  LET pos == loc[t].pos IN
  /\ pc[t] = "idx_set"
  /\ \/ /\ pos \in Pos
        /\ idx' = [idx EXCEPT ![pos] = loc[t].rec]
        /\ cnt' = Max({cnt, pos + 1})
        /\ acked' = acked \ {pos}
        /\ Goto(t, "table_reset")
        /\ UNCHANGED <<tab, arch, cell, of, lock, loc, ret, crashes>>
     \/ /\ pos \notin Pos \/ IOErrors
        /\ Return(t, "ERR_IO")
        /\ UNCHANGED <<files, crashes, acked>>

(* ... and its trailing bc_table_reset.                                    *)
bc_idx_set_table(t) ==
  /\ pc[t] = "table_reset"
  /\ tab' = TableReset(loc[t].hash)
  /\ Goto(t, "append")
  /\ UNCHANGED <<idx, cnt, arch, cell, of, lock, loc, ret, crashes, acked>>

(* bc_map_alloc refuses to grow a journal beyond its limit.                *)
Fits_Unchecked(rec) == TRUE
Fits(rec) == rec.of + rec.size <= MaxOf

(* bc_map_append / bc_map_write: the copy of the record into the journal.  *)
bc_write_data(t) ==
  LET rec == loc[t].rec IN
  /\ pc[t] = "append"
  /\ \/ /\ Fits(rec)
        /\ cell' = [cell EXCEPT ![rec.jrnl] = Stored(@, rec.of, rec.crc)]
        /\ Goto(t, "append_of")
     \/ /\ ~Fits(rec) \/ IOErrors
        /\ Goto(t, "undo_idx")
        /\ UNCHANGED cell
  /\ UNCHANGED <<idx, cnt, tab, arch, of, lock, loc, ret, crashes, acked>>

(* ... then the header's offset.                                           *)
bc_write_of(t) ==
  LET rec == loc[t].rec IN
  /\ pc[t] = "append_of"
  /\ of' = [of EXCEPT ![rec.jrnl] = Max({@, rec.of + rec.size})]
  /\ acked' = acked \cup {loc[t].pos}
  /\ Return(t, "ok")
  /\ UNCHANGED <<idx, cnt, tab, arch, cell, crashes>>

(* bc_rewrite: the entry first (bc_idx_reset) ...                          *)
bc_rewrite(t) ==
  /\ pc[t] = "rw_idx"
  /\ \/ /\ idx' = [idx EXCEPT ![loc[t].pos] = loc[t].rec]
        /\ acked' = acked \ {loc[t].pos}
        /\ Goto(t, "append")
        /\ UNCHANGED <<lock, loc, ret>>
     \/ /\ IOErrors
        /\ Return(t, "ERR_IO")
        /\ UNCHANGED <<idx, acked>>
  /\ UNCHANGED <<cnt, tab, arch, cell, of, crashes>>

(* The data could not be stored: bc_idx_clear, then bc_table_reset.        *)
bc_write_undo_Skipped(t) ==
  /\ pc[t] = "undo_idx"
  /\ Goto(t, "undo_tab")
  /\ UNCHANGED <<files, lock, loc, ret, crashes, acked>>
bc_write_undo(t) ==
  /\ pc[t] = "undo_idx"
  /\ idx' = [idx EXCEPT ![loc[t].pos] = Blank]
  /\ Goto(t, "undo_tab")
  /\ UNCHANGED <<cnt, tab, arch, cell, of, lock, loc, ret, crashes, acked>>

bc_write_undo_table(t) ==
  /\ pc[t] = "undo_tab"
  /\ tab' = TableReset(loc[t].hash)
  /\ Return(t, "ERR_IO")
  /\ UNCHANGED <<idx, cnt, arch, cell, of, crashes, acked>>

-----------------------------------------------------------------------------
(* bc_clear archives an entry and blanks it.  It takes the mutex three     *)
(* times: to read the entry, to add it to the archive, to blank it.        *)

bc_clear(t, pos) ==
  /\ pc[t] = "idle"
  /\ CanLock(t)
  /\ \/ /\ Live(pos)
        /\ Goto(t, "clear_next")
        /\ loc' = [loc EXCEPT ![t] = [NoLoc EXCEPT !.op = "clear",
                                       !.pos = pos, !.rec = idx[pos]]]
        /\ ret' = [ret EXCEPT ![t] = "ok"]
        /\ UNCHANGED lock
     \/ ~Live(pos) /\ Return(t, "ERR_NOENT")
  /\ UNCHANGED <<files, crashes, acked>>

(* An error of bc_clear.  bc_purge finds the entry still there, resets its *)
(* bucket and goes on with the next position.                              *)
ClearFails(t, err) ==
  IF loc[t].op = "purge"
  THEN /\ Goto(t, "purge_next")
       /\ tab' = TableReset(loc[t].rec.hash)
       /\ UNCHANGED <<lock, loc, ret>>
  ELSE Return(t, err) /\ UNCHANGED tab

(* bc_arch_next reads the length of the archive without the mutex.         *)
bc_arch_next(t) ==
  /\ pc[t] = "clear_next"
  /\ loc' = [loc EXCEPT ![t].npos = Len(arch)]
  /\ Goto(t, "clear_set")
  /\ UNCHANGED <<files, lock, ret, crashes, acked>>

(* bc_arch_set refuses a position that is in use.                          *)
ArchTaken_Unchecked(npos) == FALSE
ArchTaken(npos) == npos < Len(arch)

ArchSet_Lost(npos, rec) == arch
ArchSet(npos, rec) ==
  IF npos < Len(arch) THEN [arch EXCEPT ![npos + 1] = rec]
                      ELSE Append(arch, rec)

bc_arch_set(t) ==
  LET npos == loc[t].npos IN
  /\ pc[t] = "clear_set"
  /\ CanLock(t)
  /\ \/ /\ ~ArchTaken(npos)
        /\ npos < MaxArch
        /\ arch' = ArchSet(npos, loc[t].rec)
        /\ Goto(t, "clear_idx")
        /\ UNCHANGED <<tab, lock, loc, ret>>
     \/ /\ ArchTaken(npos)
        /\ ClearFails(t, "ERR_EXIST")
        /\ UNCHANGED arch
     \/ /\ ~ArchTaken(npos)
        /\ npos >= MaxArch \/ IOErrors
        /\ ClearFails(t, "ERR_IO")
        /\ UNCHANGED arch
  /\ UNCHANGED <<idx, cnt, cell, of, crashes, acked>>

(* The position has been read before and is below the count.               *)
bc_clear_idx(t) ==
  /\ pc[t] = "clear_idx"
  /\ CanLock(t)
  /\ \/ /\ idx' = [idx EXCEPT ![loc[t].pos] = Blank]
        /\ acked' = acked \ {loc[t].pos}
        /\ UNCHANGED tab
        /\ IF loc[t].op = "purge"
           THEN Goto(t, "purge_next") /\ UNCHANGED <<lock, loc, ret>>
           ELSE Return(t, "ok")
     \/ /\ IOErrors
        /\ ClearFails(t, "ERR_IO")
        /\ UNCHANGED <<idx, acked>>
  /\ UNCHANGED <<cnt, arch, cell, of, crashes>>

-----------------------------------------------------------------------------
(* bc_purge clears every position from the last one down to pos, with the  *)
(* mutex held.  The loop variable is unsigned: below 0 it wraps.           *)

bc_purge(t, pos) ==
  /\ pc[t] = "idle"
  /\ CanLock(t)
  /\ \/ ~Live(pos) /\ Return(t, "ERR_NOENT")
     \/ Live(pos) /\ IOErrors /\ Return(t, "ERR_IO")
     \/ Live(pos) /\ ~CrcOk(idx[pos]) /\ Return(t, "ERR_ILSEQ")
     \/ /\ Live(pos)
        /\ CrcOk(idx[pos])
        /\ Enter(t, "purge_next",
                 [NoLoc EXCEPT !.op = "purge", !.pos = cnt, !.top = pos])
  /\ UNCHANGED <<files, crashes, acked>>

PurgeGoesOn_Always(tpos, top) == TRUE
PurgeGoesOn_TooShort(tpos, top) == tpos > top
PurgeGoesOn(tpos, top) == tpos >= top

(* One turn of the loop; loc[t].pos is the position handled before.        *)
bc_purge_next(t) ==
  LET tpos == (loc[t].pos - 1) % PosWrap IN
  /\ pc[t] = "purge_next"
  /\ \/ /\ PurgeGoesOn(tpos, loc[t].top)
        /\ Live(tpos)
        /\ loc' = [loc EXCEPT ![t].pos = tpos, ![t].rec = idx[tpos]]
        /\ Goto(t, "clear_next")
        /\ UNCHANGED <<lock, ret>>
     \/ /\ PurgeGoesOn(tpos, loc[t].top)
        /\ ~Live(tpos)
        /\ loc' = [loc EXCEPT ![t].pos = tpos]
        /\ UNCHANGED <<pc, lock, ret>>
     \/ ~PurgeGoesOn(tpos, loc[t].top) /\ Return(t, "ok")
  /\ UNCHANGED <<files, crashes, acked>>

-----------------------------------------------------------------------------
(* bc_arch_write stores a record straight into the archive: the data goes  *)
(* to the journal of the next position, then the entry to the archive.     *)

bc_arch_write(t, h, d) ==
  /\ pc[t] = "idle"
  /\ CanLock(t)
  /\ \/ Enter(t, "aw_data", [NoLoc EXCEPT !.op = "arch_write",
                                          !.rec = NewRec(cnt, h, d)])
     \/ IOErrors /\ Return(t, "ERR_IO")
  /\ UNCHANGED <<files, crashes, acked>>

bc_arch_write_data(t) ==
  LET rec == loc[t].rec IN
  /\ pc[t] = "aw_data"
  /\ \/ /\ Fits(rec)
        /\ cell' = [cell EXCEPT ![rec.jrnl] = Stored(@, rec.of, rec.crc)]
        /\ Goto(t, "aw_of")
        /\ UNCHANGED <<lock, loc, ret>>
     \/ /\ ~Fits(rec) \/ IOErrors
        /\ Return(t, "ERR_IO")
        /\ UNCHANGED cell
  /\ UNCHANGED <<idx, cnt, tab, arch, of, crashes, acked>>

bc_arch_write_of(t) ==
  LET rec == loc[t].rec IN
  /\ pc[t] = "aw_of"
  /\ of' = [of EXCEPT ![rec.jrnl] = Max({@, rec.of + rec.size})]
  /\ Goto(t, "aw_arch")
  /\ UNCHANGED <<idx, cnt, tab, arch, cell, lock, loc, ret, crashes, acked>>

bc_arch_write_add(t) ==
  /\ pc[t] = "aw_arch"
  /\ \/ /\ Len(arch) < MaxArch
        /\ arch' = ArchSet(Len(arch), loc[t].rec)
        /\ Return(t, "ok")
     \/ /\ Len(arch) >= MaxArch \/ IOErrors
        /\ Return(t, "ERR_IO")
        /\ UNCHANGED arch
  /\ UNCHANGED <<idx, cnt, tab, cell, of, crashes, acked>>

-----------------------------------------------------------------------------
(* Calls of a single locked store.                                         *)

(* bc_find: its only store is the bucket of the hash.                      *)
bc_find(t, h) ==
  /\ pc[t] = "idle"
  /\ CanLock(t)
  /\ tab' = bc_idx_find(h).tab
  /\ ret' = [ret EXCEPT ![t] = IF bc_idx_find(h).pos = -1
                                THEN "ERR_NOENT" ELSE "ok"]
  /\ UNCHANGED <<idx, cnt, arch, cell, of, lock, pc, loc, crashes, acked>>

(* bc_idx_clear blanks an entry and never lowers the count.                *)
bc_idx_clear(t, pos) ==
  /\ pc[t] = "idle"
  /\ CanLock(t)
  /\ idx' = [idx EXCEPT ![pos] = Blank]
  /\ cnt' = Max({cnt, pos + 1})
  /\ acked' = acked \ {pos}
  /\ ret' = [ret EXCEPT ![t] = "ok"]
  /\ UNCHANGED <<tab, arch, cell, of, lock, pc, loc, crashes>>

bc_table_reset(t, h) ==
  /\ pc[t] = "idle"
  /\ CanLock(t)
  /\ tab' = TableReset(h)
  /\ ret' = [ret EXCEPT ![t] = "ok"]
  /\ UNCHANGED <<idx, cnt, arch, cell, of, lock, pc, loc, crashes, acked>>

bc_table_clear(t) ==
  /\ pc[t] = "idle"
  /\ CanLock(t)
  /\ tab' = [b \in Bucket |-> BC_TABLE_SEARCH_POS]
  /\ ret' = [ret EXCEPT ![t] = "ok"]
  /\ UNCHANGED <<idx, cnt, arch, cell, of, lock, pc, loc, crashes, acked>>

(* The process is killed and started again.                                *)
Crash ==
  /\ crashes < MaxCrash
  /\ crashes' = crashes + 1
  /\ lock' = NoThread
  /\ pc' = [t \in Thread |-> "idle"]
  /\ loc' = [t \in Thread |-> NoLoc]
  /\ ret' = [t \in Thread |-> "ok"]
  /\ UNCHANGED <<files, acked>>

-----------------------------------------------------------------------------
(* New files are zero-filled: every entry is blank and every bucket of the *)
(* hash table has to be searched.                                          *)
Init ==
  /\ idx = [p \in Pos |-> Blank]
  /\ cnt = 0
  /\ tab = [b \in Bucket |-> BC_TABLE_SEARCH_POS]
  /\ arch = << >>
  /\ cell = [j \in Journal |-> [k \in 0 .. MaxOf - 1 |-> Blank]]
  /\ of = [j \in Journal |-> 0]
  /\ lock = NoThread
  /\ pc = [t \in Thread |-> "idle"]
  /\ loc = [t \in Thread |-> NoLoc]
  /\ ret = [t \in Thread |-> "ok"]
  /\ crashes = 0
  /\ acked = {}

(* The next store of the call thread t is in.                              *)
Step(t) ==
  \/ bc_idx_set(t) \/ bc_idx_set_table(t) \/ bc_write_data(t) \/ bc_write_of(t)
  \/ bc_rewrite(t) \/ bc_write_undo(t) \/ bc_write_undo_table(t)
  \/ bc_arch_next(t) \/ bc_arch_set(t) \/ bc_clear_idx(t) \/ bc_purge_next(t)
  \/ bc_arch_write_data(t) \/ bc_arch_write_of(t) \/ bc_arch_write_add(t)

(* A client may call any operation with any arguments; a position written  *)
(* directly is at most the next one.                                       *)
Call(t) ==
  \/ \E h \in Hash : bc_find(t, h) \/ bc_table_reset(t, h)
  \/ \E h \in Hash, d \in Data : bc_append(t, h, d) \/ bc_arch_write(t, h, d)
  \/ \E h \in Hash, d \in Data, p \in Pos : p < cnt /\ bc_write(t, p, h, d)
  \/ \E p \in Pos : p < cnt /\ (bc_clear(t, p) \/ bc_idx_clear(t, p))
  \/ \E p \in PurgePos : bc_purge(t, p)
  \/ bc_table_clear(t)

Next == Crash \/ \E t \in Thread : Step(t) \/ Call(t)

Spec == Init /\ [][Next]_vars

-----------------------------------------------------------------------------
TypeOK ==
  /\ idx \in [Pos -> IdxRec \cup {Blank}]
  /\ cnt \in 0 .. MaxPos
  /\ tab \in [Bucket -> Pos \cup {BC_TABLE_NULL_POS}]
  /\ arch \in Seq(IdxRec)
  /\ cell \in [Journal -> [0 .. MaxOf - 1 -> (Data \X Nat) \cup {Blank}]]
  /\ of \in [Journal -> 0 .. MaxOf]
  /\ lock \in Thread \cup {NoThread}
  /\ pc \in [Thread -> Label]
  /\ loc \in [Thread -> Loc]
  /\ ret \in [Thread -> Result]
  /\ crashes \in 0 .. MaxCrash
  /\ acked \subseteq Pos
-----------------------------------------------------------------------------
(* Properties.                                                             *)

(* The hash table is an accelerator: whatever it remembers, a search by    *)
(* bc_idx_find returns the highest position whose live entry has the hash, *)
(* which is what a scan of the whole index would return.                   *)
HighestOf(h) ==
  LET S == {p \in Pos : Live(p) /\ idx[p].hash = h}
  IN IF S = {} THEN -1 ELSE Max(S)

FindComplete ==
  lock = NoThread => \A h \in Hash : bc_idx_find(h).pos = HighestOf(h)

(* The reason for FindComplete, as bc_idx_find relies on it: a bucket that *)
(* need not be searched from the end is at or above each of its live       *)
(* entries, except for an entry whose bc_table_reset is still to come.     *)
SlotCovers(p) ==
  LET s == tab[bc_table_hash[idx[p].hash]]
  IN s = BC_TABLE_SEARCH_POS \/ (s # BC_TABLE_NULL_POS /\ s >= p)

ResetPending(p) ==
  \E t \in Thread : pc[t] = "table_reset" /\ loc[t].pos = p /\ lock = t

TableSound == \A p \in Pos : Live(p) => SlotCovers(p) \/ ResetPending(p)

(* A record whose bc_write or bc_append returned 0 is read back by bc_get  *)
(* until it is written again or cleared: no later append, rewrite, archive *)
(* write or failed write of any thread touches its bytes.                  *)
AckedReadable == \A p \in acked : Live(p) /\ CrcOk(idx[p])

(* With no call in progress every live entry can be read: a write that     *)
(* failed half-way leaves no entry without its data.                       *)
LiveReadable == lock = NoThread => \A p \in Pos : Live(p) => CrcOk(idx[p])

(* A crash hides at most the record being written: a search for a record   *)
(* whose write had returned still stops at it or at a later one.           *)
AckedFindable ==
  lock = NoThread => \A p \in acked : bc_idx_find(idx[p].hash).pos >= p

(* The archive only grows: bc_arch_set never replaces an entry, although   *)
(* the position it stores at was read before the mutex was taken.          *)
ArchiveGrows ==
  [][Len(arch) <= Len(arch') /\ SubSeq(arch', 1, Len(arch)) = arch]_vars

(* bc_clear and bc_purge never lose a record: what they blank is in the    *)
(* archive.                                                                *)
ClearArchives ==
  [][\A t \in Thread :
       LET p == loc[t].pos IN
       pc[t] = "clear_idx" /\ Live(p) /\ idx'[p] = Blank
         => \E i \in DOMAIN arch : arch[i] = idx[p]]_vars

(* bc_purge(pos) returns with no live entry at pos or above, unless the    *)
(* archive was full (an error of bc_clear is ignored by the loop).         *)
PurgeComplete ==
  [][\A t \in Thread :
       pc[t] = "purge_next" /\ pc'[t] = "idle" /\ crashes' = crashes
         => \/ Len(arch) = MaxArch
            \/ \A p \in Pos : p >= loc[t].top => ~Live(p)]_vars

(* A thread that is running keeps running; waiting for the mutex is the    *)
(* only thing that can hold it up.                                         *)
FairSpec == Spec /\ \A t \in Thread : WF_vars(Step(t))

(* Nobody keeps the mutex for ever, in particular not the loop of bc_purge *)
(* which runs with it held.                                                *)
LockReleased == \A t \in Thread : (lock = t) ~> (lock # t)
=============================================================================
