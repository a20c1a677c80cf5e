------------------------------ MODULE BcClients ------------------------------
(***************************************************************************)
(* The procedures of the coin service that use the record database, each a *)
(* sequence of separately locked calls of BcStore:                         *)
(*   coin   CTransaction::WriteCoins, WriteTxCoins, EraseTxCoins           *)
(*   block  CBlock::WriteBlock, CBlock::WriteArchBlock                     *)
(*   tx     CTransaction::WriteTx, CTransaction::EraseTx                   *)
(*   peer   peerdb_write, peerdb_del                                       *)
(* db names the database and with it the procedures that run on it.        *)
(***************************************************************************)
EXTENDS BcStore

CONSTANTS
  Dbs,       \* the databases considered: "coin", "block", "tx", "peer"
  BlockData, \* the serialized block of each block hash
  Out,       \* outputs of a transaction; coin data is the set that is spent
  Kinds,     \* what clients do to a record, of those that the database has
  Unknown    \* see want

ASSUME ClientAssumption ==
  /\ Dbs \subseteq {"coin", "block", "tx", "peer"}
  /\ BlockData \in [Hash -> Data]
  /\ "coin" \in Dbs => Data = SUBSET Out
  /\ Kinds \subseteq {"all", "mark", "unmark", "erase"}
  /\ Blank # Unknown
  /\ \A d \in Data : d # Blank /\ d # Unknown

VARIABLES
  db,    \* which database this is
  cpc,   \* where each thread is in its procedure
  job,   \* the locals of the procedure
  want,  \* history: what the last procedure for a hash that returned true
         \* stored (Blank: erased); Unknown after an error or a crash
  marked \* history: the outputs of each transaction that WriteCoins marked
         \* as spent and that no procedure has tried to unmark since

clientVars == <<db, cpc, job, want, marked>>
allVars == <<vars, clientVars>>

(* A change of the data of a record: all of it, or one output marked or    *)
(* unmarked.                                                               *)
SetAll(d) == [kind |-> "all", d |-> d]
Mark(out) == [kind |-> "mark", d |-> {out}]
Unmark(out) == [kind |-> "unmark", d |-> {out}]
NoChange == [kind |-> "none", d |-> {}]

Apply_Replace(change, old) == change.d
Apply(change, old) ==
  CASE change.kind = "mark" -> old \cup change.d
    [] change.kind = "unmark" -> old \ change.d
    [] OTHER -> change.d

NoJob == [h |-> Blank, change |-> NoChange, d |-> Blank, pos |-> 0, old |-> Blank]

Idle(t) == cpc[t] = "none" /\ pc[t] = "idle"

Begin(t, label, j) ==
  /\ cpc' = [cpc EXCEPT ![t] = label]
  /\ job' = [job EXCEPT ![t] = j]
  /\ marked' = [marked EXCEPT ![j.h] =
                   IF j.change.kind = "mark" THEN @
                   ELSE IF j.change.kind = "unmark" THEN @ \ j.change.d ELSE {}]
  /\ UNCHANGED <<db, want>>

Continue(t, label) ==
  /\ cpc' = [cpc EXCEPT ![t] = label]
  /\ UNCHANGED <<db, job, want, marked>>

(* The procedure of thread t for hash h returns; w is what it stored.      *)
Done(t, h, w) ==
  /\ cpc' = [cpc EXCEPT ![t] = "none"]
  /\ job' = [job EXCEPT ![t] = NoJob]
  /\ want' = [want EXCEPT ![h] = w]
  /\ marked' = IF job[t].change.kind = "mark" /\ w # Unknown
               THEN [marked EXCEPT ![h] = @ \cup job[t].change.d] ELSE marked
  /\ UNCHANGED db

Found(h) == bc_idx_find(h).pos

(* A call of the database that thread t has made has returned.             *)
Returned(t, label) ==
  /\ cpc[t] = label
  /\ pc[t] = "idle"

-----------------------------------------------------------------------------
(* Writing by hash: WriteTxCoins, WriteTx and peerdb_write look the hash   *)
(* up first.  The coin and tx databases read what is there; the peer       *)
(* database writes over it.                                                *)

(* The data of a transaction without a record: nothing is spent.           *)
Fresh == IF db = "coin" THEN {} ELSE Blank

WriteFind(t, h, change) ==
  LET d == Apply(change, Fresh)
      j == [NoJob EXCEPT !.h = h, !.change = change, !.d = d, !.pos = Found(h)] IN
  /\ db \in {"coin", "tx", "peer"}
  /\ Idle(t)
  /\ bc_find(t, h)
  /\ \/ Found(h) # -1 /\ db # "peer" /\ Begin(t, "get", j)
     \/ Found(h) # -1 /\ db = "peer" /\ Begin(t, "write", j)
     \/ Found(h) = -1 /\ d # Fresh /\ Begin(t, "append", j)
     \/ Found(h) = -1 /\ d = Fresh /\ Done(t, h, Blank)

(* bc_get fails: the procedure fails.  The data is the same: nothing to    *)
(* do.  Otherwise coins are written over, a transaction reference is       *)
(* appended once more.                                                     *)
WriteGet(t) ==
  LET j == job[t]
      r == bc_get(j.pos)
      d == Apply(j.change, r.data) IN
  /\ Returned(t, "get")
  /\ CanLock(t)
  /\ \/ r.err # "ok" /\ Done(t, j.h, Unknown)
     \/ r.err = "ok" /\ r.data = d /\ Done(t, j.h, d)
     \/ /\ r.err = "ok"
        /\ r.data # d
        /\ cpc' = [cpc EXCEPT ![t] = IF db = "coin" THEN "write" ELSE "append"]
        /\ job' = [job EXCEPT ![t].d = d]
        /\ UNCHANGED <<db, want, marked>>
  /\ UNCHANGED vars

WriteAppend(t) ==
  /\ Returned(t, "append")
  /\ bc_append(t, job[t].h, job[t].d)
  /\ Continue(t, "written")

WriteAt(t) ==
  /\ Returned(t, "write")
  /\ bc_write(t, job[t].pos, job[t].h, job[t].d)
  /\ Continue(t, "written")

Written(t) ==
  /\ Returned(t, "written")
  /\ Done(t, job[t].h, IF ret[t] = "ok" THEN job[t].d ELSE Unknown)
  /\ UNCHANGED vars

-----------------------------------------------------------------------------
(* Erasing by hash: EraseTxCoins and peerdb_del archive the record,        *)
(* EraseTx blanks its entry; EraseTxCoins and EraseTx then reset the table.*)

EraseFind(t, h) ==
  LET j == [NoJob EXCEPT !.h = h, !.pos = Found(h)] IN
  /\ db \in {"coin", "tx", "peer"}
  /\ Idle(t)
  /\ bc_find(t, h)
  /\ \/ Found(h) # -1 /\ Begin(t, "erase", j)
     \/ Found(h) = -1 /\ Done(t, h, Blank)

EraseClear(t) ==
  /\ Returned(t, "erase")
  /\ \/ db = "tx" /\ bc_idx_clear(t, job[t].pos)
     \/ db # "tx" /\ bc_clear(t, job[t].pos)
  /\ Continue(t, "erased")

Erased(t) ==
  /\ Returned(t, "erased")
  /\ \/ /\ ret[t] # "ok"
        /\ Done(t, job[t].h, Unknown)
        /\ UNCHANGED vars
     \/ /\ ret[t] = "ok"
        /\ db = "peer"
        /\ Done(t, job[t].h, Blank)
        /\ UNCHANGED vars
     \/ /\ ret[t] = "ok"
        /\ db # "peer"
        /\ bc_table_reset(t, job[t].h)
        /\ Done(t, job[t].h, Blank)

-----------------------------------------------------------------------------
(* CBlock::WriteBlock stores block h at its height.                        *)

SameBlock(pos, h) == Live(pos) /\ idx[pos].hash = h

OtherBlock_Ignored(pos, h) == FALSE
OtherBlock(pos, h) == Live(pos) /\ idx[pos].hash # h

WriteBlock(t, pos, h) ==
  LET j == [NoJob EXCEPT !.h = h, !.d = BlockData[h], !.pos = pos] IN
  /\ db = "block"
  /\ Idle(t)
  /\ CanLock(t)
  /\ \/ SameBlock(pos, h) /\ Done(t, h, BlockData[h])
     \/ /\ OtherBlock(pos, h)
        /\ Begin(t, "block_clear", [j EXCEPT !.old = idx[pos].hash])
     \/ /\ ~SameBlock(pos, h)
        /\ ~OtherBlock(pos, h)
        /\ Begin(t, "block_write", j)
  /\ UNCHANGED vars

WriteBlockClear(t) ==
  /\ Returned(t, "block_clear")
  /\ bc_clear(t, job[t].pos)
  /\ Continue(t, "block_cleared")

WriteBlockCleared(t) ==
  /\ Returned(t, "block_cleared")
  /\ \/ /\ ret[t] = "ok"
        /\ bc_table_reset(t, job[t].old)
        /\ Continue(t, "block_write")
     \/ /\ ret[t] # "ok"
        /\ Done(t, job[t].h, want[job[t].h])
        /\ UNCHANGED vars

WriteBlockData(t) ==
  /\ Returned(t, "block_write")
  /\ bc_write(t, job[t].pos, job[t].h, job[t].d)
  /\ Continue(t, "block_written")

(* A failure changes nothing about blocks stored before.                   *)
WriteBlockWritten(t) ==
  /\ Returned(t, "block_written")
  /\ Done(t, job[t].h, IF ret[t] = "ok" THEN job[t].d ELSE want[job[t].h])
  /\ UNCHANGED vars

(* CBlock::WriteArchBlock stores a block that is not in the main chain.    *)
WriteArchBlock(t, h) ==
  /\ db = "block"
  /\ Idle(t)
  /\ bc_find(t, h)
  /\ \/ Found(h) # -1 /\ Done(t, h, BlockData[h])
     \/ /\ Found(h) = -1
        /\ Begin(t, "block_arch", [NoJob EXCEPT !.h = h, !.d = BlockData[h]])

WriteArchBlockData(t) ==
  /\ Returned(t, "block_arch")
  /\ bc_arch_write(t, job[t].h, job[t].d)
  /\ Continue(t, "block_written")

-----------------------------------------------------------------------------
ClientInit ==
  /\ Init
  /\ db \in Dbs
  /\ cpc = [t \in Thread |-> "none"]
  /\ job = [t \in Thread |-> NoJob]
  /\ want = [h \in Hash |-> Blank]
  /\ marked = [h \in Hash |-> {}]

ClientCrash ==
  /\ Crash
  /\ cpc' = [t \in Thread |-> "none"]
  /\ job' = [t \in Thread |-> NoJob]
  /\ want' = [h \in Hash |-> IF \E t \in Thread : job[t].h = h
                             THEN Unknown ELSE want[h]]
  /\ UNCHANGED <<db, marked>>

(* A transaction is connected at one height at a time: DisconnectInputs    *)
(* erases its reference before another block connects it.                  *)
MayWrite(h, d) == db = "tx" => want[h] \in {Blank, Unknown, d}

Changes(h) ==
  {c \in {SetAll(d) : d \in {x \in Data : MayWrite(h, x)}}
           \cup {Mark(o) : o \in Out} \cup {Unmark(o) : o \in Out} :
     c.kind \in Kinds /\ (db = "coin" \/ c.kind = "all")}

ClientStep(t) ==
  \/ Step(t) /\ UNCHANGED clientVars
  \/ WriteGet(t) \/ WriteAppend(t) \/ WriteAt(t) \/ Written(t)
  \/ EraseClear(t) \/ Erased(t)
  \/ WriteBlockClear(t) \/ WriteBlockCleared(t)
  \/ WriteBlockData(t) \/ WriteBlockWritten(t) \/ WriteArchBlockData(t)

ClientCall(t) ==
  \/ \E h \in Hash : \E change \in Changes(h) : WriteFind(t, h, change)
  \/ \E h \in Hash : "erase" \in Kinds /\ EraseFind(t, h)
  \/ \E h \in Hash : WriteArchBlock(t, h)
  \/ \E h \in Hash, p \in Pos : p <= cnt /\ WriteBlock(t, p, h)

ClientNext ==
  \/ ClientCrash
  \/ \E t \in Thread : ClientStep(t) \/ ClientCall(t)

ClientSpec == ClientInit /\ [][ClientNext]_allVars

-----------------------------------------------------------------------------
(* What a reader of hash h gets: bc_idx_find followed by bc_get.           *)
View(h) ==
  IF Found(h) = -1 THEN Blank
  ELSE IF bc_get(Found(h)).err = "ok" THEN bc_get(Found(h)).data
  ELSE Unknown

Busy(h) == \E t \in Thread : job[t].h = h

(* A reader gets for each hash what the last successful procedure for that *)
(* hash stored, whatever happened to other hashes in between, failed       *)
(* writes included (ReadCoins, ReadTx, peerdb_read).                       *)
LastWriteRead == \A h \in Hash : want[h] # Unknown /\ ~Busy(h) => View(h) = want[h]

(* An output that WriteCoins marked as spent stays marked until it is      *)
(* unmarked or the record is erased: ReadCoins reports it as spent.        *)
MarksKept ==
  \A h \in Hash : ~Busy(h) /\ marked[h] # {} =>
    \E p \in Pos : /\ Found(h) = p
                    /\ bc_get(p).err = "ok"
                    /\ marked[h] \subseteq bc_get(p).data

(* At most one live record per hash: what EraseTxCoins leaves behind would *)
(* otherwise bring back spends of an earlier record.                       *)
OneRecordPerHash ==
  db \in {"coin", "peer"} =>
    \A p, q \in Pos : Live(p) /\ Live(q) /\ idx[p].hash = idx[q].hash => p = q

(* A block that WriteBlock or WriteArchBlock reports as stored can be read *)
(* later, from its height or from the archive ("same hash as already       *)
(* written block", "already stored").                                      *)
BlockStored ==
  \A h \in Hash : want[h] = BlockData[h] =>
    \/ \E p \in Pos : Live(p) /\ idx[p].hash = h /\ CrcOk(idx[p])
    \/ \E i \in DOMAIN arch : arch[i].hash = h /\ CrcOk(arch[i])

(* Without a crash a block that another one replaced at its height stays   *)
(* readable, so a reorganisation can go back to it, also when files could  *)
(* not be enlarged in between (bc_clear archives before it blanks).        *)
BlockRetrievable == crashes = 0 => BlockStored

(* The entry of a block names the block whose bytes it points to.          *)
HashMatchesData ==
  \A p \in Pos : Live(p) => idx[p].crc = BlockData[idx[p].hash]
=============================================================================
