-------------------------------- MODULE Chain --------------------------------
(***************************************************************************)
(* The block chain of one coin service: the block index in memory, the     *)
(* block, transaction and coin databases, and how a block that arrives     *)
(* extends the best chain or reorganises it (shc_ProcessBlock,             *)
(* core_AcceptBlock, core_CommitBlock, core_ConnectBlock,                  *)
(* core_DisconnectBlock) and how the index is loaded at startup            *)
(* (shc_LoadBlockIndex).  Reading and writing single records is the        *)
(* subject of BcStore and BcClients; here a record is there or not.        *)
(*                                                                         *)
(* A transaction has one output.  Scripts, amounts, proof of work and the  *)
(* other checks of a block's own content are the sets BadBlock and         *)
(* BadConnect.  The wallet, the extended transactions and the best known   *)
(* header are other components; of the transaction pool only what          *)
(* connecting a block reads is here.                                       *)
(***************************************************************************)
EXTENDS Naturals, Sequences, FiniteSets, SequencesExt

CONSTANTS
  Block,      \* the blocks that exist
  Genesis,
  Prev,       \* hashPrevBlock of each other block
  Height,     \* nHeight
  Work,       \* GetBlockWork()
  Tx,
  Vtx,        \* the transactions of each block, in order
  Vin,        \* the transactions whose output a transaction spends, in order
  BadBlock,   \* blocks that fail CheckBlock or ContextualCheckBlock
  BadConnect, \* blocks that fail a check of ConnectBlock on their own content
  Maturity,   \* GetCoinbaseMaturity()
  Pool,       \* transactions that the pool may hold when a block is connected
  HeaderOf,   \* blocks whose header peers announce before the block
  MaxCrash,
  None

MaxHeight == Max({Height[b] : b \in Block})
Txs(b) == ToSet(Vtx[b])
Coinbase(t) == Vin[t] = <<>>

ASSUME ChainAssumption ==
  /\ IsFiniteSet(Block)
  /\ Genesis \in Block
  /\ Height \in [Block -> Nat]
  /\ Height[Genesis] = 0
  /\ Prev \in [Block \ {Genesis} -> Block]
  /\ \A b \in Block \ {Genesis} : Height[b] = Height[Prev[b]] + 1
  /\ Work \in [Block -> Nat \ {0}]
  /\ Vtx \in [Block -> Seq(Tx)]
  /\ Vin \in [Tx -> Seq(Tx)]
  /\ BadBlock \cup BadConnect \cup HeaderOf \subseteq Block \ {Genesis}
  /\ \A t \in Txs(Genesis) : Coinbase(t)
  /\ Maturity \in Nat \ {0}
  /\ Pool \subseteq Tx
  /\ MaxCrash \in Nat
  /\ None \notin Block \cup Tx \cup Nat

VARIABLES
  index,    \* memory: the blocks of mapBlockIndex
  pprev,    \*   CBlockIndex::pprev
  pnext,    \*   CBlockIndex::pnext
  cwork,    \*   CBlockIndex::bnChainWork
  status,   \*   CBlockIndex::nStatus, the flags "data", "undo" and "failed"
  best,     \*   iface->block_besthash
  bestWork, \*   wallet->bnBestChainWork
  orphan,   \*   SHC_mapOrphanBlocksByPrev
  scan,     \*   wallet->nValidateHeight; None when the scan is over
  job,      \*   the locals of core_CommitBlock
  blkdb,    \* disk: the block at each height
  arch,     \*   the archived blocks
  txdb,     \*   the height that the transaction database has for each tx
  coin,     \*   the transaction that spends each tx's output
  tip,      \*   the preference shcoind.shc.chain
  crashes,
  torn      \* history: a crash has interrupted a commit

memory == <<index, pprev, pnext, cwork, status, best, bestWork, orphan, scan, job>>
disk == <<blkdb, arch, txdb, coin, tip>>
vars == <<memory, disk, crashes, torn>>

NoJob == [new |-> None, con |-> {}, discon |-> {}, conLeft |-> {},
          disconLeft |-> {}, spent |-> FALSE, last |-> None, fail |-> None]
Rest == job = NoJob

-----------------------------------------------------------------------------
(* The block and all its ancestors that the index leads to.                *)
Branch(b) ==
  LET f[x \in Block] == IF pprev[x] = None THEN {x} ELSE {x} \cup f[pprev[x]]
  IN f[b]
MainChain == Branch(best)

Lowest(S) == CHOOSE b \in S : \A c \in S : Height[b] <= Height[c]
Highest(S) == CHOOSE b \in S : \A c \in S : Height[b] >= Height[c]
(* The blocks of a part of one branch, lowest first.                       *)
Ascending(S) ==
  CHOOSE s \in [1 .. Cardinality(S) -> S] :
    /\ ToSet(s) = S
    /\ \A i, j \in DOMAIN s : i < j => Height[s[i]] <= Height[s[j]]

(* CBlock::ReadFromDisk finds a block by its hash.                         *)
InMain(b) == \E h \in 0..MaxHeight : blkdb[h] = b
Readable_MainOnly(b) == InMain(b)
Readable(b) == InMain(b) \/ b \in arch

(* GetTransaction: the block at the height that refs has for t holds t.    *)
ReadTx(refs, t) ==
  /\ refs[t] # None
  /\ blkdb[refs[t]] # None
  /\ t \in Txs(blkdb[refs[t]])
VerifyTxHash(t) == ReadTx(txdb, t)

(* CBlock::CheckTransactionInputs: a transaction that spends one of its    *)
(* own block is not looked at any further.                                 *)
CheckTransactionInputs(b) ==
  \A t \in Txs(b) :
    \/ ToSet(Vin[t]) \cap (Txs(b) \ {t}) # {}
    \/ \A p \in ToSet(Vin[t]) : VerifyTxHash(p)

(* WriteArchBlock, which stores nothing that the main chain holds.         *)
Archived(b) == IF InMain(b) THEN arch ELSE arch \cup {b}

-----------------------------------------------------------------------------
(* Connecting and disconnecting the transactions of a block.               *)

(* core_ConnectCoinInputs for input p of tx t in block b.  A coinbase must *)
(* be in the chain and mature; an output counts as spent only when the     *)
(* transaction that spends it is in the chain.                             *)
Spendable_Twice(b, t, p, outs, pool) ==
  /\ VerifyTxHash(p) \/ p \in pool \/ p \in Txs(b)
  /\ Coinbase(p) => VerifyTxHash(p) /\ Height[b] >= txdb[p] + Maturity
Spendable(b, t, p, outs, pool) ==
  /\ VerifyTxHash(p) \/ p \in pool \/ p \in Txs(b)
  /\ Coinbase(p) =>
       /\ VerifyTxHash(p)
       /\ blkdb[txdb[p]] \in index
       /\ Height[b] >= Height[blkdb[txdb[p]]] + Maturity
  /\ outs[p] = None \/ outs[p] = t \/ ~VerifyTxHash(outs[p])

SpendInputs(b, pool, s, t) ==
  FoldLeft(LAMBDA r, p : [ok |-> r.ok /\ Spendable(b, t, p, r.outs, pool),
                          outs |-> [r.outs EXCEPT ![p] = t]], s, Vin[t])
ConnectInputs(b, pool) ==
  FoldLeft(LAMBDA s, t : SpendInputs(b, pool, s, t), [ok |-> TRUE, outs |-> coin], Vtx[b])

(* CWallet::FillInputs gives up at the first input that is neither in the  *)
(* chain nor in the pool.                                                  *)
FillInputs(t, refs, pool) ==
  {Vin[t][i] : i \in {k \in DOMAIN Vin[t] :
     \A m \in 1..k : ReadTx(refs, Vin[t][m]) \/ Vin[t][m] \in pool}}

(* core_DisconnectInputs takes the marks of the inputs it finds back, and  *)
(* erases the coins and the reference of the transaction.                  *)
DisconnectInputs_KeepMarks(t, s, pool) ==
  [coin |-> [s.coin EXCEPT ![t] = None], refs |-> [s.refs EXCEPT ![t] = None]]
DisconnectInputs(t, s, pool) ==
  LET found == FillInputs(t, s.refs, pool)
  IN [coin |-> [p \in Tx |-> IF p = t \/ p \in found THEN None ELSE s.coin[p]],
      refs |-> [s.refs EXCEPT ![t] = None]]

-----------------------------------------------------------------------------
(* The first half of core_CommitBlock: the branches, and the checks that   *)
(* come before anything is changed.                                        *)

GetCommitBranches(b) ==
  LET up == IF b \in index THEN Branch(b) ELSE {b} \cup Branch(Prev[b])
  IN [con |-> up \ MainChain, discon |-> MainChain \ up]

(* The states of blocks that end the commit.                               *)
OnInvalid(b, con) == Prev[b] # best /\ \E c \in con : "failed" \in status[c]
OnMissing(b, con) == \E c \in con \ {b} : status[c] \cap {"data", "undo"} = {}
Unreadable(b, S) == \E c \in S \ {b} : ~Readable(c)

CommitBlock(b) ==
  LET r == GetCommitBranches(b)
      side == Prev[b] # best IN
  /\ status' = [status EXCEPT ![b] = @ \cup {"data"} \cup
                  IF side /\ ~OnInvalid(b, r.con) THEN {"undo"} ELSE {}]
  /\ arch' = IF side /\ ~OnInvalid(b, r.con) THEN Archived(b) ELSE arch
  /\ IF OnInvalid(b, r.con) \/ OnMissing(b, r.con)
     THEN UNCHANGED <<job, tip, bestWork>>
     ELSE IF Unreadable(b, r.discon \cup r.con)
     THEN /\ tip' = best
          /\ bestWork' = cwork[best]
          /\ UNCHANGED job
     ELSE /\ job' = [NoJob EXCEPT !.new = b, !.con = r.con, !.discon = r.discon,
                       !.conLeft = r.con, !.disconLeft = r.discon, !.last = best]
          /\ UNCHANGED <<tip, bestWork>>

-----------------------------------------------------------------------------
(* A block or a header arrives.                                            *)

(* CreateBlockIndex.                                                       *)
ChainWork(b) == IF b \in index THEN cwork[b] ELSE cwork[Prev[b]] + Work[b]
CreateBlockIndex_NotInserted(b) ==
  /\ pprev' = IF b \in index THEN pprev ELSE [pprev EXCEPT ![b] = Prev[b]]
  /\ cwork' = [cwork EXCEPT ![b] = ChainWork(b)]
  /\ UNCHANGED index
CreateBlockIndex(b) ==
  /\ index' = index \cup {b}
  /\ pprev' = IF b \in index THEN pprev ELSE [pprev EXCEPT ![b] = Prev[b]]
  /\ cwork' = [cwork EXCEPT ![b] = ChainWork(b)]

(* core_AcceptBlockHeader.                                                 *)
HeaderOk(b) ==
  IF b \in index THEN "failed" \notin status[b] ELSE "failed" \notin status[Prev[b]]

AcceptBlockHeader(b) ==
  /\ Rest
  /\ b \in HeaderOf \ index
  /\ Prev[b] \in index
  /\ HeaderOk(b)
  /\ CreateBlockIndex(b)
  /\ UNCHANGED <<pnext, status, best, bestWork, orphan, scan, job, disk, crashes, torn>>

(* shc_ProcessBlock of a block whose predecessor is unknown.               *)
AddOrphanBlock(b) ==
  /\ Rest
  /\ Prev[b] \notin index
  /\ orphan' = [orphan EXCEPT ![Prev[b]] = IF @ = None THEN b ELSE @]
  /\ arch' = Archived(b)
  /\ UNCHANGED <<index, pprev, pnext, cwork, status, best, bestWork, scan, job,
                 blkdb, txdb, coin, tip, crashes, torn>>

(* core_AcceptBlock goes on with a block that is not rejected and not      *)
(* already processed.                                                      *)
Accepting(b) ==
  /\ Rest
  /\ Prev[b] \in index
  /\ CheckTransactionInputs(b)
  /\ HeaderOk(b)
  /\ "data" \notin status[b]
  /\ CreateBlockIndex(b)

(* "ensure chain work is higher than previous block."                      *)
MoreWork_OrEqual(b) == ChainWork(b) >= bestWork
MoreWork(b) == ChainWork(b) > bestWork

AcceptInvalid(b) ==
  /\ Accepting(b)
  /\ b \in BadBlock
  /\ status' = [status EXCEPT ![b] = @ \cup {"failed"}]
  /\ UNCHANGED <<pnext, best, bestWork, orphan, scan, job, disk, crashes, torn>>

AcceptSide(b) ==
  /\ Accepting(b)
  /\ b \notin BadBlock
  /\ ~MoreWork(b)
  /\ status' = [status EXCEPT ![b] = @ \cup {"data", "undo"}]
  /\ arch' = Archived(b)
  /\ UNCHANGED <<pnext, best, bestWork, orphan, scan, job, blkdb, txdb, coin, tip,
                 crashes, torn>>

AcceptBest(b) ==
  /\ Accepting(b)
  /\ b \notin BadBlock
  /\ MoreWork(b)
  /\ CommitBlock(b)
  /\ UNCHANGED <<pnext, best, orphan, scan, blkdb, txdb, coin, crashes, torn>>

ProcessBlock(b) ==
  AddOrphanBlock(b) \/ AcceptInvalid(b) \/ AcceptSide(b) \/ AcceptBest(b)

-----------------------------------------------------------------------------
(* The second half of core_CommitBlock.                                    *)

(* The transactions of a block are disconnected in reverse order.          *)
DisconnectTxs(b, pool) ==
  FoldRight(LAMBDA t, r : DisconnectInputs(t, r, pool), Vtx[b],
            [coin |-> coin, refs |-> txdb])

DisconnectBlock(pool) ==
  LET b == Highest(job.disconLeft)
      s == DisconnectTxs(b, pool) IN
  /\ job.disconLeft # {}
  /\ coin' = s.coin
  /\ txdb' = s.refs
  /\ status' = [status EXCEPT ![b] = (@ \ {"data"}) \cup {"undo"}]
  /\ arch' = Archived(job.new)
  /\ job' = [job EXCEPT !.disconLeft = @ \ {b}, !.last = pprev[b]]
  /\ UNCHANGED <<index, pprev, pnext, cwork, best, bestWork, orphan, scan, blkdb,
                 tip, crashes, torn>>

Connecting ==
  /\ job.disconLeft = {}
  /\ job.conLeft # {}
  /\ job.fail = None

(* core_ConnectBlock up to the writing of the coins.  No transaction of    *)
(* the block may be in another block of the chain.                         *)
ConnectCoins(pool) ==
  LET b == Lowest(job.conLeft)
      r == ConnectInputs(b, pool)
      ok == /\ r.ok
            /\ b \notin BadConnect
            /\ \A t \in Txs(b) : VerifyTxHash(t) => blkdb[txdb[t]] = b IN
  /\ Connecting
  /\ ~job.spent
  /\ coin' = IF ok THEN r.outs ELSE coin
  /\ job' = IF ok THEN [job EXCEPT !.spent = TRUE] ELSE [job EXCEPT !.fail = b]
  /\ UNCHANGED <<index, pprev, pnext, cwork, status, best, bestWork, orphan, scan,
                 blkdb, arch, txdb, tip, crashes, torn>>

(* CBlock::WriteBlock of a block that is at its height already writes no   *)
(* transaction reference either.                                           *)
Written_AnyBlock(b) == blkdb[Height[b]] # None
Written(b) == blkdb[Height[b]] = b
TxRefsOf(b) ==
  IF Written(b) THEN txdb
  ELSE [t \in Tx |-> IF t \in Txs(b) THEN Height[b] ELSE txdb[t]]
OrphansWithout_Kept(b) == orphan
OrphansWithout(b) ==
  [p \in Block |-> IF orphan[p] = b THEN None ELSE orphan[p]]

(* The rest of core_ConnectBlock.                                          *)
ConnectBlock ==
  LET b == Lowest(job.conLeft)
      old == blkdb[Height[b]] IN
  /\ Connecting
  /\ job.spent
  /\ blkdb' = [blkdb EXCEPT ![Height[b]] = b]
  /\ arch' = IF old \in {b, None} THEN arch ELSE arch \cup {old}
  /\ txdb' = TxRefsOf(b)
  /\ orphan' = OrphansWithout(b)
  /\ status' = [status EXCEPT ![b] = @ \cup {"data"}]
  /\ job' = [job EXCEPT !.conLeft = @ \ {b}, !.last = b, !.spent = FALSE]
  /\ UNCHANGED <<index, pprev, pnext, cwork, best, bestWork, scan, coin, tip, crashes, torn>>

(* pnext follows the new branch, unless a block of it failed.              *)
Relinked ==
  [x \in Block |->
     IF \E c \in job.con : pprev[c] = x THEN CHOOSE c \in job.con : pprev[c] = x
     ELSE IF \E c \in job.discon : pprev[c] = x THEN None ELSE pnext[x]]

(* The end of core_CommitBlock and of SetBestChain.                        *)
Reestablish_Never == FALSE
Reestablish == best # pprev[job.last]
WorkAfter_New(ok) == cwork[job.new]
WorkAfter(ok) ==
  IF ok THEN cwork[job.new] ELSE IF Reestablish THEN cwork[job.last] ELSE bestWork
EndCommit ==
  LET ok == job.fail = None
      end == IF Reestablish THEN job.last ELSE job.new IN
  /\ job.new # None
  /\ job.disconLeft = {}
  /\ job.conLeft = {} \/ ~ok
  /\ pnext' = IF ok THEN Relinked ELSE pnext
  /\ tip' = end
  /\ best' = end
  /\ bestWork' = WorkAfter(ok)
  /\ status' = IF ok \/ ~Reestablish THEN status
               ELSE [status EXCEPT ![job.fail] = @ \cup {"failed"}]
  /\ job' = NoJob
  /\ UNCHANGED <<index, pprev, cwork, orphan, scan, blkdb, arch, crashes, torn>>
FinishCommit == EndCommit /\ UNCHANGED <<coin, txdb>>

-----------------------------------------------------------------------------
(* A crash and the restart.  shc_FillBlockIndex reads the heights in order *)
(* up to the stored tip and links each block to the one below it.          *)
FillTop ==
  LET there == {h \in 0..MaxHeight : \A g \in 0..h : blkdb[g] # None}
      tips == {h \in there : blkdb[h] = tip}
  IN Max(IF tips = {} THEN there ELSE tips)

(* shc_LoadBlockIndex: a block with unknown inputs moves the stored tip    *)
(* below it, and the validation scan starts.                               *)
Restart ==
  LET top == FillTop
      loaded == {blkdb[h] : h \in 0..top}
      work[h \in 0..top] == Work[blkdb[h]] + IF h = 0 THEN 0 ELSE work[h - 1]
      bad == {h \in 1..top : ~CheckTransactionInputs(blkdb[h])} IN
  /\ crashes < MaxCrash
  /\ crashes' = crashes + 1
  /\ torn' = (torn \/ ~Rest)
  /\ index' = loaded
  /\ pprev' = [b \in Block |->
       IF b \in loaded \ {Genesis} THEN blkdb[Height[b] - 1] ELSE None]
  /\ pnext' = [b \in Block |->
       IF b \in loaded /\ Height[b] < top THEN blkdb[Height[b] + 1] ELSE None]
  /\ cwork' = [b \in Block |-> IF b \in loaded THEN work[Height[b]] ELSE 0]
  /\ status' = [b \in Block |-> IF b \in loaded THEN {"data"} ELSE {}]
  /\ best' = blkdb[top]
  /\ bestWork' = work[top]
  /\ orphan' = [b \in Block |-> None]
  /\ scan' = 1
  /\ job' = NoJob
  /\ tip' = IF bad = {} THEN tip ELSE blkdb[Min(bad) - 1]
  /\ UNCHANGED <<blkdb, arch, txdb, coin>>

(* The coins as UpdateBlockCoins leaves them, which gives up when an input *)
(* of the block is not found.                                              *)
MarkInputs(c, t) == FoldLeft(LAMBDA d, p : [d EXCEPT ![p] = t], c, Vin[t])
UpdateBlockCoins(b, pool) ==
  IF \A t \in Txs(b) : FillInputs(t, txdb, pool) = ToSet(Vin[t])
  THEN FoldLeft(MarkInputs, coin, Vtx[b])
  ELSE coin

(* ServiceValidateEvent for one height.                                    *)
ValidateEvent(pool) ==
  /\ Rest
  /\ scan # None
  /\ IF scan > Height[best]
     THEN /\ scan' = None
          /\ UNCHANGED coin
     ELSE /\ scan' = scan + 1
          /\ coin' = IF blkdb[scan] = None THEN coin ELSE UpdateBlockCoins(blkdb[scan], pool)
  /\ UNCHANGED <<index, pprev, pnext, cwork, status, best, bestWork, orphan, job,
                 blkdb, arch, txdb, tip, crashes, torn>>

-----------------------------------------------------------------------------
(* shc_CreateGenesisBlock on empty databases.                              *)
Init ==
  /\ index = {Genesis}
  /\ pprev = [b \in Block |-> None]
  /\ pnext = [b \in Block |-> None]
  /\ cwork = [b \in Block |-> IF b = Genesis THEN Work[Genesis] ELSE 0]
  /\ status = [b \in Block |-> IF b = Genesis THEN {"data"} ELSE {}]
  /\ best = Genesis
  /\ bestWork = Work[Genesis]
  /\ orphan = [b \in Block |-> None]
  /\ scan = None
  /\ job = NoJob
  /\ blkdb = [h \in 0..MaxHeight |-> IF h = 0 THEN Genesis ELSE None]
  /\ arch = {}
  /\ txdb = [t \in Tx |-> IF t \in Txs(Genesis) THEN 0 ELSE None]
  /\ coin = [t \in Tx |-> None]
  /\ tip = Genesis
  /\ crashes = 0
  /\ torn = FALSE

CommitStep ==
  \/ \E pool \in SUBSET Pool : DisconnectBlock(pool) \/ ConnectCoins(pool)
  \/ ConnectBlock
  \/ FinishCommit

Next ==
  \/ \E b \in Block \ {Genesis} : ProcessBlock(b) \/ AcceptBlockHeader(b)
  \/ CommitStep
  \/ \E pool \in SUBSET Pool : ValidateEvent(pool)
  \/ Restart

Spec == Init /\ [][Next]_vars

-----------------------------------------------------------------------------
(* What a valid chain is, from the blocks alone.                           *)

Ancestors(b) ==
  LET f[x \in Block] == IF x = Genesis THEN {x} ELSE {x} \cup f[Prev[x]]
  IN f[b]
TotalWork(b) ==
  LET f[x \in Block] == Work[x] + IF x = Genesis THEN 0 ELSE f[Prev[x]]
  IN f[b]
Spenders(S, p) == {s \in S \X Tx : s[2] \in Txs(s[1]) /\ p \in ToSet(Vin[s[2]])}

(* Every block of the chain passes its own checks, no transaction is in    *)
(* two of them, every input is an output of the chain, mature and not      *)
(* created later, and no output is spent twice.                            *)
ValidChain(b) ==
  LET S == Ancestors(b) IN
  /\ S \cap (BadBlock \cup BadConnect) = {}
  /\ \A c, d \in S : c # d => Txs(c) \cap Txs(d) = {}
  /\ \A c \in S : \A t \in Txs(c) : \A p \in ToSet(Vin[t]) :
       \E d \in S : /\ p \in Txs(d)
                    /\ Height[c] >= Height[d] + IF Coinbase(p) THEN Maturity ELSE 0
  /\ \A p \in Tx : \A r, s \in Spenders(S, p) : r = s

-----------------------------------------------------------------------------
TypeOK ==
  /\ index \subseteq Block
  /\ pprev \in [Block -> Block \cup {None}]
  /\ pnext \in [Block -> Block \cup {None}]
  /\ cwork \in [Block -> Nat]
  /\ status \in [Block -> SUBSET {"data", "undo", "failed"}]
  /\ best \in index
  /\ bestWork \in Nat
  /\ orphan \in [Block -> Block \cup {None}]
  /\ scan \in Nat \cup {None}
  /\ blkdb \in [0..MaxHeight -> Block \cup {None}]
  /\ arch \subseteq Block
  /\ txdb \in [Tx -> 0..MaxHeight \cup {None}]
  /\ coin \in [Tx -> Tx \cup {None}]
  /\ tip \in Block
  /\ torn \in BOOLEAN

(* Between two commits the best chain is a valid one: whatever branches    *)
(* arrive, in whatever order, and however a reorganisation fails,          *)
(* core_CommitBlock settles on a block all of whose ancestors connect      *)
(* (block.cpp:2584, "re-establish chain at our failure/success point").    *)
BestValid == Rest /\ ~torn => ValidChain(best)

(* Every block of the best chain is in the block database at its height,   *)
(* so that the chain can be served and loaded again at startup.            *)
ChainStored ==
  Rest /\ ~torn =>
    \A b \in Ancestors(best) : blkdb[Height[b]] = b /\ "data" \in status[b]

(* Every transaction of the best chain is found by its hash, as            *)
(* CheckTransactionInputs and core_ConnectCoinInputs require of the inputs *)
(* of later blocks (block.cpp:963, "write tx ref's").                      *)
ChainTxFound ==
  Rest /\ ~torn =>
    \A b \in Ancestors(best) : \A t \in Txs(b) : txdb[t] = Height[b]

(* The coin database says of each output of the best chain which           *)
(* transaction of that chain spends it: spends of a branch that has been   *)
(* disconnected are taken back, those of a reconnected one are there.      *)
SpendsRecorded ==
  Rest /\ ~torn =>
    LET S == Ancestors(best) IN
    \A b \in S : \A p \in Txs(b) :
      {s[2] : s \in Spenders(S, p)} = {coin[p]} \ {None}

(* Restarting loses nothing of what was committed: the stored tip, the     *)
(* work to beat and the links of the index always describe the best chain, *)
(* so a restart between two commits finds the same one.                    *)
TipDurable ==
  Rest /\ ~torn =>
    /\ tip = best
    /\ bestWork = TotalWork(best)
    /\ MainChain = Ancestors(best)

(* A block that arrives before its predecessor is kept until it is part of *)
(* the chain, and not longer (shc_AddOrphanBlock, shc_RemoveOrphanBlock).  *)
OrphanOutside ==
  Rest /\ ~torn =>
    \A p \in Block : orphan[p] # None => Readable(orphan[p]) /\ orphan[p] \notin Ancestors(best)

(* The chain that each block ends, its work, whether it is valid, and what *)
(* it spends.                                                              *)
ChainOf == [b \in Block |-> Ancestors(b)]
Total == [b \in Block |-> TotalWork(b)]
Valid == {b \in Block : ValidChain(b)}
SpentBy ==
  [b \in Block |->
     LET S == Ancestors(b) IN
     [p \in UNION {Txs(c) : c \in S} |->
        IF Spenders(S, p) = {} THEN None ELSE (CHOOSE s \in Spenders(S, p) : TRUE)[2]]]

(* The best block and the marks of its chain, as they are between two      *)
(* commits, implement the ledger: connecting and disconnecting blocks one  *)
(* by one, with all the stores this takes, amounts to one step from a      *)
(* valid chain to a better one, or to the valid part of a bad one, and a   *)
(* restart changes nothing.                                                *)
L == INSTANCE Ledger WITH
  Chain <- ChainOf,
  Valid <- Valid,
  Total <- Total,
  head <- best,
  ledger <- IF Rest THEN [p \in DOMAIN SpentBy[best] |-> coin[p]] ELSE SpentBy[best],
  lost <- torn
ImplementsLedger == L!Spec
=============================================================================
