-------------------------------- MODULE TxPool --------------------------------
(***************************************************************************)
(* The memory pool of one coin service (CPool, SHC_CTxMemPool) on top of   *)
(* its block chain: the queues a transaction moves between, what a commit  *)
(* of the chain does to them, and what leaving the active queue does to    *)
(* the coin database.                                                      *)
(*                                                                         *)
(* A handler of the pool calls itself through FillInputs and AddActiveTx;  *)
(* the operators below take the state of pool and databases as a record    *)
(* and return the state they leave.  Fees, scripts, sizes and locks are    *)
(* the sets and functions of the constants; relaying and the wallet are    *)
(* other components.                                                       *)
(***************************************************************************)
EXTENDS Chain

CONSTANTS
  PoolTx,      \* the transactions that peers and the wallet submit
  Own,         \* those of them that come from the wallet
  Weight,      \* GetWeight() of each, its size as well
  MaxWeight,   \* GetMaxWeight()
  MaxQueueMem, \* GetMaxQueueMem()
  FeePriority, \* dFeePriority
  LockTime,    \* nLockTime as a height, 0 for none
  OverLimit,   \* transactions that fail VerifyLimits
  NonStandard, \* those that fail VerifyStandards or the minimum fee
  LowFee,      \* those below the soft fee
  BadSig,      \* those whose second or later input is not signed
  Newer,       \* IsNewerThan, a set of pairs
  MaxInval,    \* how many hashes the invalid queue keeps
  MaxTick      \* bound on the steps in which time passes

(* A transaction names the hashes of its inputs, so none is its own        *)
(* ancestor: in every set there is one that spends no other of the set.    *)
ASSUME PoolAssumption ==
  /\ IsFiniteSet(Tx)
  /\ \A S \in SUBSET Tx : S # {} => \E t \in S : ToSet(Vin[t]) \cap S = {}
  /\ PoolTx \subseteq {t \in Tx : ~Coinbase(t)}
  /\ Own \subseteq PoolTx
  /\ Weight \in [Tx -> Nat]
  /\ FeePriority \in [Tx -> Nat]
  /\ LockTime \in [Tx -> Nat]
  /\ OverLimit \cup NonStandard \cup LowFee \cup BadSig \subseteq Tx
  /\ Newer \subseteq {p \in Tx \X Tx : Vin[p[1]] = Vin[p[2]]}
  /\ {MaxWeight, MaxQueueMem, MaxInval, MaxTick} \subseteq Nat

VARIABLES
  active, pending, overflow, stale, \* the queues of CPool
  inval,    \* the hashes of rejected transactions
  inputs,   \* CPoolTx::mapInputs: the inputs found when a tx was looked at
  local,    \* the transactions of this node (CPoolTx::fLocal)
  age,      \* time since CPoolTx::stamp, in steps of six hours
  ticks

queues == <<active, pending, overflow, stale, inval, inputs, local, age>>
poolVars == <<vars, queues, ticks>>

(* MAX_MEMPOOL_ACTIVE_SPAN, _OVERFLOW_SPAN and _PENDING_SPAN.              *)
ActiveSpan == 1
OverflowSpan == 2
PendingSpan == 4

Pooled(s) == s.active \cup s.pending \cup s.overflow \cup s.stale
TotalWeight(S) == SumFunctionOnSet(Weight, S)
Conflict(t, u) == t # u /\ ToSet(Vin[t]) \cap ToSet(Vin[u]) # {}

(* What the operators below work on, and what they leave.                  *)
PoolState ==
  [active : SUBSET Tx, pending : SUBSET Tx, overflow : SUBSET Tx,
   stale : SUBSET Tx, inval : SUBSET Tx, inputs : [Tx -> SUBSET Tx],
   local : SUBSET Tx, age : [Tx -> 0..PendingSpan],
   coin : [Tx -> Tx \cup {None}], refs : [Tx -> 0..MaxHeight \cup {None}]]
Now == [active |-> active, pending |-> pending, overflow |-> overflow,
        stale |-> stale, inval |-> inval, inputs |-> inputs, local |-> local,
        age |-> age, coin |-> coin, refs |-> txdb]
Becomes(s) ==
  /\ active' = s.active
  /\ pending' = s.pending
  /\ overflow' = s.overflow
  /\ stale' = s.stale
  /\ inval' = s.inval
  /\ inputs' = [t \in Tx |-> IF t \in Pooled(s) THEN s.inputs[t] ELSE {}]
  /\ local' = s.local \cap Pooled(s)
  /\ age' = [t \in Tx |-> IF t \in Pooled(s) THEN s.age[t] ELSE 0]
  /\ coin' = s.coin
  /\ txdb' = s.refs
Yes(s) == [ok |-> TRUE, s |-> s]
No(s) == [ok |-> FALSE, s |-> s]
Result == [ok : BOOLEAN, s : PoolState]

(* The loops: f[x] for each x of a list, one after the other.              *)
InTurn(f, list, s) == FoldLeft(LAMBDA r, x : f[x][r], s, list)

-----------------------------------------------------------------------------
(* The order of CPoolTx::operator<.  A transaction that spends another     *)
(* comes after it even when it pays more, but the two are then each before *)
(* the other and sort() may leave them either way.                         *)
Precedes(a, b) == a \in ToSet(Vin[b]) \/ FeePriority[a] > FeePriority[b]
SortOrders ==
  {o \in SetToSeqs(PoolTx) : \A i, j \in DOMAIN o :
     i < j => Precedes(o[i], o[j]) \/ ~Precedes(o[j], o[i])}

CheckFinal(t) == LockTime[t] < Height[best] + 1
HasRoom(t, s) == TotalWeight(s.active) + Weight[t] < MaxWeight
Fits_BeforeOnly(t, s) == TotalWeight(s.active) <= MaxWeight
Fits(t, s) == TotalWeight(s.active) + Weight[t] <= MaxWeight
AddInput(t, p, s) == [s EXCEPT !.inputs[t] = @ \cup {p}]

AddInvalTx_Unbounded(t, s) == [s EXCEPT !.inval = @ \cup {t}]
AddInvalTx(t, s) ==
  LET S == s.inval \cup {t}
  IN [s EXCEPT !.inval =
        IF Cardinality(S) > MaxInval THEN S \ {CHOOSE u \in S : TRUE} ELSE S]
AddOverflowTx(t, s) ==
  IF t \in s.overflow THEN Yes(s)
  ELSE IF TotalWeight(s.overflow) + Weight[t] > MaxQueueMem THEN No(s)
  ELSE Yes([s EXCEPT !.overflow = @ \cup {t}])
AddStaleTx(t, s) ==
  IF TotalWeight(s.stale) + Weight[t] > MaxQueueMem THEN s
  ELSE [s EXCEPT !.stale = @ \cup {t}]
PurgePendingTx(s) ==
  [s EXCEPT !.pending = {t \in @ : s.age[t] < PendingSpan}]
AddPendingTx(t, s) ==
  IF t \in s.pending THEN s
  ELSE [PurgePendingTx(s) EXCEPT !.pending = @ \cup {t}]

(* revert: core_DisconnectInputs of a transaction of the active queue.     *)
Revert(t, s) ==
  LET d == DisconnectInputs(t, [coin |-> s.coin, refs |-> s.refs], s.active)
  IN [s EXCEPT !.coin = d.coin, !.refs = d.refs]

(* RemoveTx takes a transaction out of one queue, the first that has it.   *)
RemoveTx(t, s) ==
  IF t \in s.active THEN [Revert(t, s) EXCEPT !.active = @ \ {t}]
  ELSE IF t \in s.pending THEN [s EXCEPT !.pending = @ \ {t}]
  ELSE IF t \in s.overflow THEN [s EXCEPT !.overflow = @ \ {t}]
  ELSE IF t \in s.stale THEN [s EXCEPT !.stale = @ \ {t}]
  ELSE [s EXCEPT !.inval = @ \ {t}]

AreInputsSpent(t, s) == \E p \in s.inputs[t] : s.coin[p] # None

(* A coinbase that the first input spends is not looked at.                *)
Immature(t, s) ==
  \E i \in 2..Len(Vin[t]) :
    LET p == Vin[t][i] IN
    /\ p \in s.inputs[t]
    /\ Coinbase(p)
    /\ ReadTx(s.refs, p)
    /\ Height[best] + 1 < Height[blkdb[s.refs[p]]] + Maturity

(* A transaction replaces the active ones that spend the same outputs,     *)
(* unless one of them is newer.                                            *)
ResolveConflicts_Keep(t, s) == Yes(s)
ResolveConflicts(t, s) ==
  LET conflicts == {a \in s.active : Conflict(a, t)} IN
  IF \E a \in conflicts : <<a, t>> \in Newer THEN No(s)
  ELSE Yes(InTurn([a \in Tx |-> [r \in PoolState |-> RemoveTx(a, r)]],
                  SetToSeq(conflicts), s))

(* AddActiveTx of a transaction whose inputs fill looks for: when they     *)
(* have been looked for, and when conflicts have been resolved.            *)
Resolved(t, s, clear) ==
  IF clear.ok THEN Yes([clear.s EXCEPT !.active = @ \cup {t}]) ELSE No(AddInvalTx(t, s))
Filled(t, found) ==
  IF ~found.ok THEN No(AddPendingTx(t, found.s))
  ELSE IF AreInputsSpent(t, found.s) \/ t \in BadSig THEN No(AddInvalTx(t, found.s))
  ELSE IF Immature(t, found.s) THEN No(AddOverflowTx(t, found.s).s)
  ELSE Resolved(t, found.s, ResolveConflicts(t, found.s))
AddActive(t, s, fill) ==
  IF t \in s.active THEN Yes(s)
  ELSE IF ~Fits(t, s) THEN AddOverflowTx(t, s)
  ELSE Filled(t, fill[[s EXCEPT !.overflow = @ \ {t}, !.stale = @ \ {t}]])

(* CPool::FillInputs for one input p, whose own inputs fill looks for.  A  *)
(* parent in the overflow queue is taken when there is no room for it, and *)
(* one that waits for inputs when they have come; a is what making it      *)
(* active has left.                                                        *)
FilledBy(t, p, a) == IF a.ok THEN Yes(AddInput(t, p, a.s)) ELSE a
FilledByPending(t, p, a) ==
  IF a.ok THEN Yes(AddInput(t, p, [a.s EXCEPT !.pending = @ \ {p}])) ELSE a
FillFromPending(t, p, f, fill) ==
  IF ~f.ok \/ p \in NonStandard THEN No(f.s)
  ELSE FilledByPending(t, p, AddActive(p, f.s, fill))
FillFrom(t, p, s, fill) ==
  IF p \in s.inputs[t] THEN Yes(s)
  ELSE IF p \in s.active \/ ReadTx(s.refs, p) THEN Yes(AddInput(t, p, s))
  ELSE IF p \in s.overflow THEN
    IF ~CheckFinal(p) \/ HasRoom(p, s) THEN No(s)
    ELSE FilledBy(t, p, AddActive(p, RemoveTx(p, s), fill))
  ELSE IF p \in s.pending THEN
    FillFromPending(t, p, fill[[s EXCEPT !.inputs[p] = {}]], fill)
  ELSE No(s)

(* The loop over the inputs, up to the first that is not found.            *)
FillStep(t, fills) ==
  [p \in ToSet(Vin[t]) |->
     [r \in Result |-> IF r.ok THEN FillFrom(t, p, r.s, fills[p]) ELSE r]]
FillAll(t, fills) == [s \in PoolState |-> InTurn(FillStep(t, fills), Vin[t], Yes(s))]
Fill[t \in Tx] == FillAll(t, [p \in ToSet(Vin[t]) |-> Fill[p]])

PoolFillInputs(t, s) == Fill[t][s]
AddActiveTx(t, s) == AddActive(t, s, Fill[t])

(* One transaction comes back from the overflow queue, and one that has    *)
(* been active for too long goes to the stale queue.                       *)
TakeBack(s, order) ==
  LET fit == {i \in DOMAIN order : /\ order[i] \in s.overflow
                                   /\ CheckFinal(order[i])
                                   /\ HasRoom(order[i], s)}
      back == order[Min(fit)]
  IN IF fit = {} THEN s ELSE AddActiveTx(back, RemoveTx(back, s)).s
Expire(s) ==
  LET expired == {t \in s.active : s.age[t] >= ActiveSpan}
      out == CHOOSE t \in expired : TRUE
  IN IF expired = {} THEN s ELSE AddStaleTx(out, RemoveTx(out, s))
PurgeActiveTx(s, order) == Expire(TakeBack(s, order))

(* The overflow queue forgets old transactions of others and fills the     *)
(* room that a block has left.                                             *)
Weighed(r, t, a) ==
  [s |-> a, weight |-> r.weight + IF t \in a.active THEN Weight[t] ELSE 0]
TryActive(S, t, r) ==
  IF t \notin S \cap r.s.overflow \/ r.weight + Weight[t] > MaxWeight THEN r
  ELSE Weighed(r, t, AddActiveTx(t, r.s).s)
PurgeOverflowTx(s, order) ==
  LET keep == {t \in s.overflow : t \in s.local \/ s.age[t] < OverflowSpan}
      due == {t \in keep : CheckFinal(t)}
  IN InTurn([t \in Tx |-> [r \in [s : PoolState, weight : Nat] |-> TryActive(due, t, r)]],
            order, [s |-> [s EXCEPT !.overflow = keep], weight |-> TotalWeight(s.active)]).s

(* PopTx, for a transaction of a block; the stale queue keeps it.          *)
PopTx(t, s) ==
  IF t \notin Pooled(s) THEN s
  ELSE [s EXCEPT !.inval = @ \ {t}, !.pending = @ \ {t},
                 !.overflow = @ \ {t}, !.active = @ \ {t}]

Spending(p) == {t \in Tx : p \in ToSet(Vin[t])}
RemoveTxWithInput(p, s) ==
  LET r == InTurn([t \in Tx |-> [q \in PoolState |-> Revert(t, q)]],
                  SetToSeq(Spending(p) \cap s.active), s)
  IN [r EXCEPT !.active = @ \ Spending(p), !.overflow = @ \ Spending(p),
               !.pending = @ \ Spending(p)]
RemoveConflicts(t, s) ==
  InTurn([p \in Tx |-> [r \in PoolState |-> RemoveTxWithInput(p, r)]], Vin[t], s)
RemoveInputsOf_None(b, s) == s
RemoveInputsOf(b, s) ==
  InTurn([t \in Tx |-> [r \in PoolState |-> RemoveConflicts(t, r)]], Vtx[b], s)

PopTxsOf(b, s) == InTurn([t \in Tx |-> [r \in PoolState |-> PopTx(t, r)]], Vtx[b], s)
Commit(b, s, order) == PurgeOverflowTx(RemoveInputsOf(b, PopTxsOf(b, s)), order)

(* AddTx puts a new transaction into the first queue that it is fit for;   *)
(* f is what looking for its inputs has left.                              *)
Enqueue(t, f, order) ==
  IF t \in OverLimit THEN AddInvalTx(t, f.s)
  ELSE IF ~f.ok THEN AddPendingTx(t, f.s)
  ELSE IF t \in NonStandard THEN AddInvalTx(t, f.s)
  ELSE IF t \in LowFee \/ ~CheckFinal(t) THEN AddOverflowTx(t, f.s).s
  ELSE AddActiveTx(t, PurgeActiveTx(f.s, order)).s
AddTx(t, isLocal, s, order) ==
  IF t \in s.inval \cup Pooled(s) \/ ReadTx(s.refs, t) THEN s
  ELSE Enqueue(t, PoolFillInputs(t, [s EXCEPT !.inputs[t] = {}, !.age[t] = 0,
                 !.local = IF isLocal THEN @ \cup {t} ELSE @ \ {t}]), order)

-----------------------------------------------------------------------------
(* A transaction arrives from a peer (message "tx") or from the wallet.    *)
SubmitTx(t, order) ==
  /\ Rest
  /\ t \notin inval \cup Pooled(Now)
  /\ Becomes(AddTx(t, t \in Own, Now, order))
  /\ UNCHANGED <<memory, blkdb, arch, tip, crashes, torn, ticks>>

(* core_UnacceptWalletTransaction (rpc commands tx.prune and tx.purge).     *)
UnacceptTx(t) ==
  /\ Rest
  /\ t \in Pooled(Now)
  /\ ~VerifyTxHash(t)
  /\ Becomes([RemoveTx(t, Now) EXCEPT !.coin[t] = None])
  /\ UNCHANGED <<memory, blkdb, arch, tip, crashes, torn, ticks>>

(* The end of a commit.  When every block connected, the transactions of   *)
(* the blocks left are submitted again, highest block first, and those of  *)
(* the new ones leave the pool; core_AcceptBlock then removes once more    *)
(* what conflicts with the block.                                          *)
Readd_None(s, order) == s
ReaddTxs(b, s, order) ==
  InTurn([t \in Tx |-> [r \in PoolState |-> IF Coinbase(t) THEN r ELSE AddTx(t, TRUE, r, order)]],
         Vtx[b], s)
Readd(s, order) ==
  InTurn([b \in Block |-> [r \in PoolState |-> ReaddTxs(b, r, order)]],
         Reverse(Ascending(job.discon)), s)
CommitPool(s, order) ==
  RemoveInputsOf(job.new,
    InTurn([b \in Block |-> [r \in PoolState |-> Commit(b, r, order)]],
           Ascending(job.con), Readd(s, order)))
FinishPool(order) ==
  /\ EndCommit
  /\ Becomes(IF job.fail = None THEN CommitPool(Now, order) ELSE Now)
  /\ UNCHANGED ticks

(* Six, twelve or twenty-four hours pass.                                  *)
Tick(n) ==
  /\ Rest
  /\ ticks < MaxTick
  /\ ticks' = ticks + 1
  /\ age' = [t \in Tx |-> IF t \in Pooled(Now) THEN Min({age[t] + n, PendingSpan}) ELSE 0]
  /\ UNCHANGED <<vars, active, pending, overflow, stale, inval, inputs, local>>

PoolInit ==
  /\ Init
  /\ active = {} /\ pending = {} /\ overflow = {} /\ stale = {} /\ inval = {}
  /\ inputs = [t \in Tx |-> {}]
  /\ local = {}
  /\ age = [t \in Tx |-> 0]
  /\ ticks = 0

(* The steps of the chain that read the pool, or leave it alone.           *)
ChainStep ==
  /\ \/ \E b \in Block \ {Genesis} : ProcessBlock(b)
     \/ DisconnectBlock(active) \/ ConnectCoins(active) \/ ConnectBlock
  /\ UNCHANGED <<queues, ticks>>

PoolNext ==
  \/ ChainStep
  \/ \E order \in SortOrders :
       \/ FinishPool(order)
       \/ \E t \in PoolTx : SubmitTx(t, order)
  \/ \E t \in PoolTx : UnacceptTx(t)
  \/ \E n \in {ActiveSpan, OverflowSpan, PendingSpan} : Tick(n)

PoolSpec == PoolInit /\ [][PoolNext]_poolVars
-----------------------------------------------------------------------------
(* The variables have their types, and the invalid queue keeps to its      *)
(* bound ("while (inval.size() > 1000)").                                  *)
PoolTypeOK ==
  /\ active \cup pending \cup overflow \cup stale \cup inval \cup local \subseteq Tx
  /\ Cardinality(inval) <= MaxInval
  /\ inputs \in [Tx -> SUBSET Tx]
  /\ age \in [Tx -> 0..PendingSpan]
  /\ ticks \in 0..MaxTick

(* The active queue, which a miner puts into a block, never holds two      *)
(* transactions that spend the same output, whichever way they became      *)
(* active: submitted, back from the overflow queue, as the parent of       *)
(* another or from a block that was left (CPool::ResolveConflicts).        *)
NoActiveConflict == \A t, u \in active : ~Conflict(t, u)

(* The active queue always fits into one block, also when submitting a     *)
(* transaction makes others active (AddActiveTx, "check if their is room").*)
ActiveFits == TotalWeight(active) <= MaxWeight

(* While no reorganisation has failed, no active transaction spends what   *)
(* the coin database has as spent, so none is in the chain or excluded by  *)
(* it: every commit removes both kinds (core_CommitBlock, "remove          *)
(* connected block tx's from pool").                                       *)
ActiveUnspent ==
  Rest /\ (\A b \in Block : "failed" \notin status[b]) =>
    \A t \in active : \A p \in ToSet(Vin[t]) : coin[p] = None

(* A reorganisation loses no transaction: one of a block that is left      *)
(* behind, and that the pool has not refused before, is in the new chain,  *)
(* waits in the pool, is known there as invalid, or spends what a          *)
(* transaction of the chain or of the pool spends (core_CommitBlock, "add  *)
(* discon block tx's into pending pool").                                  *)
Accounted(t) ==
  \/ t \in active \cup pending \cup overflow \cup stale \cup inval
  \/ \E b \in Ancestors(best) : \E u \in Txs(b) : u = t \/ Conflict(t, u)
  \/ \E u \in active : Conflict(t, u)
ReorgKeepsTx ==
  [][job.new # None /\ job.fail = None /\ job' = NoJob /\ crashes' = crashes =>
       \A b \in job.discon : \A t \in Txs(b) \ inval :
         ~Coinbase(t) => Accounted(t)']_poolVars
=============================================================================
