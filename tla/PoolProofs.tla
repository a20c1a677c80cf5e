------------------------------ MODULE PoolProofs ------------------------------
(***************************************************************************)
(* Proofs about the transaction pool (TxPool), for any set of transactions *)
(* and blocks and any limits: the active queue never holds a conflict or   *)
(* more than a block, and, as long as failed commits settle (Settles),     *)
(* nothing that the chain has spent.                                       *)
(***************************************************************************)
EXTENDS TxPool, ChainProofs

-----------------------------------------------------------------------------
(* What every handler keeps.                                               *)

(* All inputs of a transaction have been found.                            *)
Full(t, s) == ToSet(Vin[t]) \subseteq s.inputs[t]
NoConflicts(S) == \A t, u \in S : ~Conflict(t, u)
(* The active transactions spend nothing that is marked as spent, but in D.*)
Clean(s, D) ==
  \A t \in s.active : \A p \in ToSet(Vin[t]) : s.coin[p] = None \/ p \in D

Sound(s, D) ==
  /\ s \in PoolState
  /\ Cardinality(s.inval) <= MaxInval
  /\ NoConflicts(s.active)
  /\ TotalWeight(s.active) <= MaxWeight
  /\ \A t \in s.overflow : Full(t, s)
  /\ Clean(s, D)

InputsOf(b) == UNION {ToSet(Vin[t]) : t \in Txs(b)}
NoneFailed == \A b \in Block : "failed" \notin status[b]
(* What the running commit may have marked.                                *)
Due == IF NoneFailed /\ job.fail = None THEN UNION {InputsOf(b) : b \in job.con} ELSE Tx

PoolInv ==
  /\ TypeInv
  /\ Sound(Now, Tx)
  /\ ticks \in 0 .. MaxTick
UnspentInv == Clean(Now, Due) /\ job.conLeft \subseteq job.con

-----------------------------------------------------------------------------
(* Loops.                                                                  *)

(* The states that a loop passes.                                          *)
IsRun(run, f, list, A, base) ==
  /\ run \in [0 .. Len(list) -> A]
  /\ run[0] = base
  /\ \A k \in 1 .. Len(list) : run[k] = f[list[k]][run[k - 1]]
  /\ InTurn(f, list, base) = run[Len(list)]
LEMMA InTurnRuns ==
  ASSUME NEW X, NEW list \in Seq(X), NEW f, NEW A, NEW base \in A,
         \A x \in ToSet(list) : \A a \in A : f[x][a] \in A
  PROVE  \E run : IsRun(run, f, list, A, base)
<1> DEFINE n == Len(list)
           Fold(h) == h = [x \in SUBSET DOMAIN list |-> IF x = {} THEN base
                             ELSE f[list[Max(x)]][h[x \ {Max(x)}]]]
           I == CHOOSE h : Fold(h)
           F == [i \in 1 .. n |-> [a \in A |-> f[list[i]][a]]]
<1>1. InTurn(f, list, base) = I[DOMAIN list]
  BY DEF InTurn, FoldLeft, MapThenFoldSet
<1>2. n \in Nat /\ DOMAIN list = 1 .. n /\ \A i \in 1 .. n : list[i] \in ToSet(list)
  BY DEF ToSet
<1>n. n \in Nat  BY <1>2
<1> HIDE DEF n
<1>c. ASSUME NEW i \in 1 .. n, NEW a \in A PROVE f[list[i]][a] \in A
  BY <1>2
<1>4. F \in [1 .. n -> [A -> A]]  BY <1>c
<1>5. \A i \in 1 .. n : \A a \in A : F[i][a] = f[list[i]][a]
  OBVIOUS
<1> HIDE DEF F, Fold, I
<1>6. PICK g \in [SUBSET (1 .. n) -> A] : IsLeftFold(g, n, base, F)
  BY <1>n, <1>4, FoldsLeft
<1>7. ASSUME NEW x \in SUBSET (1 .. n), x # {}
      PROVE  Max(x) \in 1 .. n /\ x \ {Max(x)} \in SUBSET (1 .. n)
  BY <1>n, <1>7, MaxIn
<1>8. Fold(g)
  <2>1. \A x \in SUBSET (1 .. n) : x # {} => g[x] = f[list[Max(x)]][g[x \ {Max(x)}]]
    BY <1>5, <1>6, <1>7 DEF IsLeftFold
  <2>2. g[{}] = base  BY <1>6 DEF IsLeftFold
  <2> QED  BY <1>2, <1>6, <2>1, <2>2 DEF Fold
<1>9. Fold(I)  BY <1>8 DEF I
<1>10. I[{}] = base /\ \A x \in SUBSET (1 .. n) : x # {} =>
         I[x] = f[list[Max(x)]][I[x \ {Max(x)}]]
  BY <1>2, <1>9 DEF Fold
<1>11. ASSUME NEW k \in 1 .. n PROVE I[1 .. k] = f[list[k]][I[1 .. (k - 1)]]
  <2>1. /\ 1 .. k \in SUBSET (1 .. n) /\ 1 .. k # {}
        /\ Max(1 .. k) = k /\ (1 .. k) \ {k} = 1 .. (k - 1)
    BY <1>n, Prefix
  <2> QED  BY <1>10, <2>1
<1>12. ASSUME NEW k \in 1 .. n, I[1 .. (k - 1)] \in A PROVE I[1 .. k] \in A
  BY <1>c, <1>11, <1>12
<1>13. \A k \in 0 .. n : I[1 .. k] \in A
  BY <1>n, <1>10, <1>12, RunLeft
<1> DEFINE run == [k \in 0 .. n |-> I[1 .. k]]
<1>14. run \in [0 .. n -> A] /\ run[0] = base /\ run[n] = I[DOMAIN list]
  <2>1. 1 .. 0 = {} /\ 0 \in 0 .. n /\ n \in 0 .. n  BY <1>n
  <2> QED  BY <1>2, <1>10, <1>13, <2>1
<1>15. ASSUME NEW k \in 1 .. n PROVE run[k] = f[list[k]][run[k - 1]]
  <2>1. k \in 0 .. n /\ k - 1 \in 0 .. n  BY <1>n
  <2> QED  BY <1>11, <2>1
<1> HIDE DEF run
<1>16. Len(list) = n  BY DEF n
<1>17. IsRun(run, f, list, A, base)  BY <1>1, <1>14, <1>15, <1>16 DEF IsRun
<1> QED  BY <1>17

(* What holds at the start and is kept by each turn holds at the end, and  *)
(* so does what the turn of an element brings about and others keep.       *)
LEMMA InTurnDoes ==
  ASSUME NEW X, NEW list \in Seq(X), NEW f, NEW A, NEW base \in A, NEW Done,
         \A x \in ToSet(list) : \A a \in A :
           /\ f[x][a] \in A
           /\ f[x][a] \in Done[x]
           /\ \A y \in ToSet(list) : a \in Done[y] => f[x][a] \in Done[y]
  PROVE  /\ InTurn(f, list, base) \in A
         /\ \A x \in ToSet(list) : InTurn(f, list, base) \in Done[x]
<1> DEFINE n == Len(list)
<1>0. \A x \in ToSet(list) : \A a \in A : f[x][a] \in A  OBVIOUS
<1>r. PICK run : IsRun(run, f, list, A, base)  BY <1>0, InTurnRuns
<1>1. /\ run \in [0 .. n -> A] /\ run[0] = base
      /\ \A k \in 1 .. n : run[k] = f[list[k]][run[k - 1]]
      /\ InTurn(f, list, base) = run[n]
  BY <1>r DEF IsRun
<1>2. /\ n \in Nat /\ \A i \in 1 .. n : list[i] \in ToSet(list)
      /\ \A x \in ToSet(list) : \E i \in 1 .. n : list[i] = x
  BY DEF ToSet
<1> HIDE DEF n
<1> DEFINE P == {k \in 0 .. n : \A i \in 1 .. k : run[k] \in Done[list[i]]}
<1>3. 0 \in P
  <2>1. 1 .. 0 = {} /\ 0 \in 0 .. n  BY <1>2
  <2> QED  BY <2>1
<1>4. ASSUME NEW k \in 1 .. n, k - 1 \in P PROVE k \in P
  <2>1. k \in 0 .. n /\ k - 1 \in 0 .. n /\ 1 .. k = (1 .. (k - 1)) \cup {k}  BY <1>2
  <2>2. run[k - 1] \in A /\ run[k] = f[list[k]][run[k - 1]]  BY <1>1, <2>1
  <2>3. run[k] \in Done[list[k]]  BY <1>2, <2>2
  <2>4. \A i \in 1 .. (k - 1) : run[k] \in Done[list[i]]  BY <1>2, <1>4, <2>1, <2>2
  <2> QED  BY <2>1, <2>3, <2>4
<1> HIDE DEF P
<1>5. n \in P
  <2>1. \A k \in 0 .. n : k \in P  BY <1>2, <1>3, <1>4, UpTo
  <2> QED  BY <1>2, <2>1
<1>6. \A i \in 1 .. n : run[n] \in Done[list[i]]  BY <1>5 DEF P
<1>7. run[n] \in A  BY <1>1, <1>2
<1> QED  BY <1>1, <1>2, <1>6, <1>7

(* The simple form.                                                        *)
LEMMA InTurnKeeps ==
  ASSUME NEW X, NEW list \in Seq(X), NEW f, NEW A, NEW base \in A,
         \A x \in ToSet(list) : \A a \in A : f[x][a] \in A
  PROVE  InTurn(f, list, base) \in A
<1>1. Len(list) \in Nat  OBVIOUS
<1>2. Len(list) \in 0 .. Len(list)  BY <1>1
<1> QED  BY <1>2, InTurnRuns DEF IsRun

(* A list of a set.                                                        *)
LEMMA SetLists ==
  ASSUME NEW S \in SUBSET Tx
  PROVE  SetToSeq(S) \in Seq(S) /\ ToSet(SetToSeq(S)) = S
<1>1. IsFiniteSet(S) /\ Cardinality(S) \in Nat
  BY PoolAssumption, FS_Subset, FS_CardinalityType
<1> DEFINE n == Cardinality(S)
<1>2. ExistsBijection(1 .. n, S)  BY <1>1, FS_CardinalityType
<1>3. PICK g \in Bijection(1 .. n, S) : TRUE  BY <1>2 DEF ExistsBijection
<1>4. g \in [1 .. n -> S] /\ IsInjective(g)
  BY <1>3 DEF Bijection, Injection, IsInjective
<1> DEFINE q == SetToSeq(S)
<1>5. q \in [1 .. n -> S] /\ IsInjective(q)  BY <1>4 DEF SetToSeq
<1> HIDE DEF q
<1>6. q \in Seq(S)  BY <1>1, <1>5
<1>7. q \in Injection(1 .. n, S)  BY <1>5 DEF Injection, IsInjective
<1>8. q \in Surjection(1 .. n, S)
  <2>1. IsFiniteSet(1 .. n) /\ Cardinality(1 .. n) = n  BY <1>1, FS_Interval
  <2> QED  BY <1>1, <1>7, <2>1, FS_Injection
<1>9. ToSet(q) = S  BY <1>5, <1>8 DEF ToSet, Surjection
<1> QED  BY <1>6, <1>9 DEF q

-----------------------------------------------------------------------------
(* Handlers that only take transactions and marks away.                    *)

(* The fields of a state.                                                  *)
LEMMA Fields ==
  ASSUME NEW s \in PoolState
  PROVE  /\ s.active \in SUBSET Tx /\ s.pending \in SUBSET Tx
         /\ s.overflow \in SUBSET Tx /\ s.stale \in SUBSET Tx
         /\ s.inval \in SUBSET Tx /\ s.local \in SUBSET Tx
         /\ s.inputs \in [Tx -> SUBSET Tx] /\ s.age \in [Tx -> 0 .. PendingSpan]
         /\ s.coin \in CoinMap /\ s.refs \in RefMap
  BY DEF PoolState, CoinMap, RefMap

(* The constants of the pool.                                              *)
LEMMA Limits ==
  /\ IsFiniteSet(Tx)
  /\ \A t \in Tx : Weight[t] \in Nat /\ ToSet(Vin[t]) \subseteq Tx /\ Vin[t] \in Seq(Tx)
  /\ \A b \in Block : Txs(b) \subseteq Tx /\ Vtx[b] \in Seq(Tx)
  /\ MaxWeight \in Nat /\ MaxInval \in Nat /\ MaxTick \in Nat /\ PoolTx \subseteq Tx
<1>1. ASSUME NEW t \in Tx PROVE Vin[t] \in Seq(Tx) /\ ToSet(Vin[t]) \subseteq Tx
  <2>1. Vin[t] \in Seq(Tx)  BY ChainAssumption
  <2> QED  BY <2>1, InList
<1>2. ASSUME NEW b \in Block PROVE Txs(b) \subseteq Tx /\ Vtx[b] \in Seq(Tx)
  <2>1. Vtx[b] \in Seq(Tx)  BY ChainAssumption
  <2> QED  BY <2>1, InList DEF Txs
<1> QED  BY <1>1, <1>2, PoolAssumption

(* The weight of a part of a queue, and of a queue with a transaction more.*)
LEMMA Weights ==
  ASSUME NEW S \in SUBSET Tx
  PROVE  /\ IsFiniteSet(S) /\ TotalWeight(S) \in Nat
         /\ \A T \in SUBSET S : TotalWeight(T) <= TotalWeight(S) /\ TotalWeight(T) \in Nat
         /\ \A t \in Tx : TotalWeight(S \cup {t}) <= TotalWeight(S) + Weight[t]
<1>1. IsFiniteSet(S)  BY Limits, FS_Subset
<1>2. \A x \in Tx : Weight[x] \in Nat  BY Limits
<1>3. ASSUME NEW T \in SUBSET S PROVE TotalWeight(T) <= TotalWeight(S) /\ TotalWeight(T) \in Nat
  <2>1. IsFiniteSet(T) /\ \A x \in T : Weight[x] \in Nat  BY <1>1, <1>2, FS_Subset
  <2>2. \A x \in S : Weight[x] \in Nat  BY <1>2
  <2>3. TotalWeight(T) <= TotalWeight(S)  BY <1>1, <2>2, SumSub DEF TotalWeight
  <2>4. TotalWeight(T) \in Nat  BY <2>1, SumType DEF TotalWeight
  <2> QED  BY <2>3, <2>4
<1>4. TotalWeight(S) \in Nat  BY <1>3
<1>5. ASSUME NEW t \in Tx PROVE TotalWeight(S \cup {t}) <= TotalWeight(S) + Weight[t]
  <2>1. CASE t \in S
    <3>1. TotalWeight(S \cup {t}) = TotalWeight(S)
      <4>1. S \cup {t} = S  BY <2>1
      <4> QED  BY <4>1
    <3>2. Weight[t] \in Nat  BY <1>2
    <3> QED  BY <1>4, <3>1, <3>2
  <2>2. CASE t \notin S
    <3>1. \A x \in S \cup {t} : Weight[x] \in Nat  BY <1>2
    <3>2. TotalWeight(S \cup {t}) = Weight[t] + TotalWeight(S)
      BY <1>1, <2>2, <3>1, SumMore DEF TotalWeight
    <3> QED  BY <1>2, <1>4, <3>2
  <2> QED  BY <2>1, <2>2
<1> QED  BY <1>1, <1>3, <1>4, <1>5

Eases(s, r) ==
  /\ r \in PoolState
  /\ r.active \subseteq s.active
  /\ r.overflow \subseteq s.overflow
  /\ r.inval \subseteq s.inval
  /\ r.inputs = s.inputs
  /\ \A p \in Tx : r.coin[p] = s.coin[p] \/ r.coin[p] = None

(* It is reflexive and transitive, and keeps the pool sound.               *)
LEMMA EasesOrder ==
  /\ \A s \in PoolState : Eases(s, s)
  /\ \A s, q, r \in PoolState : Eases(s, q) /\ Eases(q, r) => Eases(s, r)
<1>1. ASSUME NEW s, NEW q, NEW r, Eases(s, q), Eases(q, r) PROVE Eases(s, r)
  BY <1>1 DEF Eases
<1> QED  BY <1>1 DEF Eases

LEMMA EasesSound ==
  ASSUME NEW s, NEW r, NEW D, Sound(s, D), Eases(s, r)
  PROVE  Sound(r, D)
<1>1. s \in PoolState /\ r \in PoolState  BY DEF Sound, Eases
<1>2. /\ r.active \subseteq s.active /\ s.active \in SUBSET Tx
      /\ s.inval \in SUBSET Tx /\ r.inval \subseteq s.inval
      /\ r.inputs = s.inputs /\ r.overflow \subseteq s.overflow
  BY <1>1, Fields DEF Eases
<1>3. Cardinality(r.inval) <= MaxInval
  <2>1. /\ IsFiniteSet(s.inval) /\ IsFiniteSet(r.inval)
        /\ Cardinality(r.inval) <= Cardinality(s.inval)
    BY <1>2, Limits, FS_Subset
  <2>2. Cardinality(r.inval) \in Nat /\ Cardinality(s.inval) \in Nat
    BY <2>1, FS_CardinalityType
  <2>3. Cardinality(s.inval) <= MaxInval  BY DEF Sound
  <2> QED  BY <2>1, <2>2, <2>3, Limits
<1>4. NoConflicts(r.active)  BY <1>2 DEF Sound, NoConflicts
<1>5. TotalWeight(r.active) <= MaxWeight
  <2>1. /\ TotalWeight(r.active) <= TotalWeight(s.active)
        /\ TotalWeight(r.active) \in Nat /\ TotalWeight(s.active) \in Nat
    BY <1>2, Weights
  <2>2. TotalWeight(s.active) <= MaxWeight  BY DEF Sound
  <2> QED  BY <2>1, <2>2, Limits
<1>6. \A t \in r.overflow : Full(t, r)  BY <1>2 DEF Sound, Full
<1>7. Clean(r, D)
  <2> SUFFICES ASSUME NEW t \in r.active, NEW p \in ToSet(Vin[t])
               PROVE  r.coin[p] = None \/ p \in D
    BY DEF Clean
  <2>1. t \in s.active /\ p \in Tx  BY <1>2, Limits
  <2>2. s.coin[p] = None \/ p \in D  BY <2>1 DEF Sound, Clean
  <2>3. r.coin[p] = s.coin[p] \/ r.coin[p] = None  BY <2>1 DEF Eases
  <2> QED  BY <2>2, <2>3
<1> QED  BY <1>1, <1>3, <1>4, <1>5, <1>6, <1>7 DEF Sound

(* revert.                                                                 *)
LEMMA RevertEases ==
  ASSUME NEW s \in PoolState, NEW t \in Tx
  PROVE  /\ Eases(s, Revert(t, s)) /\ Revert(t, s) \in PoolState
         /\ Revert(t, s).active = s.active
<1> DEFINE d == DisconnectInputs(t, [coin |-> s.coin, refs |-> s.refs], s.active)
<1>1. [coin |-> s.coin, refs |-> s.refs] \in UndoState  BY Fields DEF UndoState
<1>2. d \in UndoState  BY <1>1, DisconnectInputsTyped
<1>3. \A p \in Tx : d.coin[p] = s.coin[p] \/ d.coin[p] = None  BY DEF DisconnectInputs
<1> HIDE DEF d
<1>4. Revert(t, s) = [s EXCEPT !.coin = d.coin, !.refs = d.refs]  BY DEF Revert, d
<1> DEFINE r == Revert(t, s)
<1>5. d.coin \in CoinMap /\ d.refs \in RefMap  BY <1>2 DEF UndoState
<1>6. r \in PoolState  BY <1>4, <1>5 DEF PoolState, CoinMap, RefMap
<1>7. r.active = s.active /\ r.overflow = s.overflow /\ r.inval = s.inval
      /\ r.inputs = s.inputs /\ r.coin = d.coin
  BY <1>4 DEF PoolState
<1> HIDE DEF r
<1>8. Eases(s, r)  BY <1>3, <1>6, <1>7 DEF Eases
<1> QED  BY <1>6, <1>7, <1>8 DEF r

(* RemoveTx takes a transaction off the active queue if it is there.       *)
LEMMA RemoveEases ==
  ASSUME NEW s \in PoolState, NEW t \in Tx
  PROVE  /\ Eases(s, RemoveTx(t, s)) /\ RemoveTx(t, s) \in PoolState
         /\ RemoveTx(t, s).active = s.active \ {t}
<1> DEFINE r == RemoveTx(t, s)
<1>1. CASE t \in s.active
  <2> DEFINE q == Revert(t, s)
  <2>1. Eases(s, q) /\ q \in PoolState /\ q.active = s.active  BY RevertEases
  <2>2. r = [q EXCEPT !.active = @ \ {t}]
    <3> HIDE DEF q
    <3>1. Revert(t, s) = q  BY DEF q
    <3> QED  BY <1>1, <3>1 DEF RemoveTx
  <2> HIDE DEF q, r
  <2>3. r \in PoolState  BY <2>1, <2>2 DEF PoolState
  <2>4. r.active = s.active \ {t} /\ r.overflow = q.overflow /\ r.inval = q.inval
        /\ r.inputs = q.inputs /\ r.coin = q.coin
    BY <2>1, <2>2 DEF PoolState
  <2>5. Eases(s, r)  BY <2>1, <2>3, <2>4 DEF Eases
  <2> QED  BY <2>3, <2>4, <2>5 DEF r
<1>2. CASE t \notin s.active
  <2>1. \/ r = [s EXCEPT !.pending = @ \ {t}] \/ r = [s EXCEPT !.overflow = @ \ {t}]
        \/ r = [s EXCEPT !.stale = @ \ {t}] \/ r = [s EXCEPT !.inval = @ \ {t}]
    BY <1>2 DEF RemoveTx
  <2> HIDE DEF r
  <2>2. /\ r \in PoolState /\ r.active = s.active /\ r.overflow \subseteq s.overflow
        /\ r.inval \subseteq s.inval /\ r.inputs = s.inputs /\ r.coin = s.coin
    BY <2>1 DEF PoolState
  <2>3. Eases(s, r)  BY <2>2 DEF Eases
  <2>4. s.active \ {t} = s.active  BY <1>2
  <2> QED  BY <2>2, <2>3, <2>4 DEF r
<1> QED  BY <1>1, <1>2

(* The loops of removals.                                                  *)
LEMMA RemoveLoop ==
  ASSUME NEW s \in PoolState, NEW S \in SUBSET Tx
  PROVE  LET r == InTurn([a \in Tx |-> [q \in PoolState |-> RemoveTx(a, q)]], SetToSeq(S), s)
         IN Eases(s, r) /\ r \in PoolState /\ \A a \in S : a \notin r.active
<1> DEFINE f == [a \in Tx |-> [q \in PoolState |-> RemoveTx(a, q)]]
           list == SetToSeq(S)
           A == {q \in PoolState : Eases(s, q)}
           Done == [a \in Tx |-> {q \in PoolState : a \notin q.active}]
<1>1. list \in Seq(S) /\ ToSet(list) = S  BY SetLists
<1>2. ASSUME NEW a \in S, NEW q \in A
      PROVE  /\ f[a][q] \in A /\ f[a][q] \in Done[a]
             /\ \A y \in S : q \in Done[y] => f[a][q] \in Done[y]
  <2>1. f[a][q] = RemoveTx(a, q)  OBVIOUS
  <2>2. /\ Eases(q, RemoveTx(a, q)) /\ RemoveTx(a, q) \in PoolState
        /\ RemoveTx(a, q).active = q.active \ {a}
    BY RemoveEases
  <2> HIDE DEF f
  <2>3. Eases(s, f[a][q])  BY <2>1, <2>2, EasesOrder
  <2>4. f[a][q] \in PoolState /\ f[a][q].active = q.active \ {a}  BY <2>1, <2>2
  <2> QED  BY <2>3, <2>4
<1>3. s \in A  BY EasesOrder
<1> DEFINE r == InTurn(f, list, s)
<1> HIDE DEF f, list, A, Done
<1>4. \A x \in ToSet(list) : \A a \in A :
           /\ f[x][a] \in A
           /\ f[x][a] \in Done[x]
           /\ \A y \in ToSet(list) : a \in Done[y] => f[x][a] \in Done[y]
  BY <1>1, <1>2
<1>5. r \in A /\ \A x \in ToSet(list) : r \in Done[x]  BY <1>1, <1>3, <1>4, InTurnDoes
<1> HIDE DEF r
<1>6. Eases(s, r) /\ r \in PoolState /\ \A a \in S : a \notin r.active
  BY <1>1, <1>5 DEF A, Done
<1> QED  BY <1>6 DEF r, f, list

(* RemoveTxWithInput leaves none that spends the output.                   *)
LEMMA RevertLoop ==
  ASSUME NEW s \in PoolState, NEW S \in SUBSET Tx
  PROVE  LET r == InTurn([t \in Tx |-> [q \in PoolState |-> Revert(t, q)]], SetToSeq(S), s)
         IN Eases(s, r) /\ r \in PoolState
<1> DEFINE f == [t \in Tx |-> [q \in PoolState |-> Revert(t, q)]]
           list == SetToSeq(S)
           A == {q \in PoolState : Eases(s, q)}
<1>1. list \in Seq(S) /\ ToSet(list) = S  BY SetLists
<1>2. ASSUME NEW a \in S, NEW q \in A PROVE f[a][q] \in A
  <2>1. f[a][q] = Revert(a, q)  OBVIOUS
  <2>2. Eases(q, Revert(a, q)) /\ Revert(a, q) \in PoolState  BY RevertEases
  <2> HIDE DEF f
  <2>3. Eases(s, f[a][q]) /\ f[a][q] \in PoolState  BY <2>1, <2>2, EasesOrder
  <2> QED  BY <2>3
<1>3. s \in A  BY EasesOrder
<1> DEFINE r == InTurn(f, list, s)
<1> HIDE DEF f, list, A
<1>4. \A x \in ToSet(list) : \A a \in A : f[x][a] \in A  BY <1>1, <1>2
<1>5. r \in A  BY <1>1, <1>3, <1>4, InTurnKeeps
<1> HIDE DEF r
<1>6. Eases(s, r) /\ r \in PoolState  BY <1>5 DEF A
<1> QED  BY <1>6 DEF r, f, list

LEMMA InputEases ==
  ASSUME NEW s \in PoolState, NEW p \in Tx
  PROVE  LET r == RemoveTxWithInput(p, s)
         IN Eases(s, r) /\ r \in PoolState /\ Spending(p) \cap r.active = {}
<1> DEFINE S == Spending(p) \cap s.active
           q == InTurn([t \in Tx |-> [o \in PoolState |-> Revert(t, o)]], SetToSeq(S), s)
           r == RemoveTxWithInput(p, s)
<1>1. S \in SUBSET Tx  BY DEF Spending
<1> HIDE DEF S
<1>2. Eases(s, q) /\ q \in PoolState  BY <1>1, RevertLoop
<1>3. r = [q EXCEPT !.active = @ \ Spending(p), !.overflow = @ \ Spending(p),
                    !.pending = @ \ Spending(p)]
  BY DEF RemoveTxWithInput, S
<1> HIDE DEF q, r
<1>4. /\ r \in PoolState /\ r.active = q.active \ Spending(p) /\ r.inval = q.inval
      /\ r.overflow = q.overflow \ Spending(p) /\ r.inputs = q.inputs /\ r.coin = q.coin
  BY <1>2, <1>3 DEF PoolState
<1>5. Eases(s, r)  BY <1>2, <1>4 DEF Eases
<1> QED  BY <1>4, <1>5 DEF r

(* Nothing active spends any of a set of outputs.                          *)
NoneSpends(s, P) == \A p \in P : Spending(p) \cap s.active = {}

LEMMA FreeStays ==
  ASSUME NEW s, NEW r, NEW P, NoneSpends(s, P), Eases(s, r)
  PROVE  NoneSpends(r, P)
  BY DEF NoneSpends, Eases

(* What conflicts with a transaction, and with the transactions of a block.*)
LEMMA ConflictsEase ==
  ASSUME NEW s \in PoolState, NEW t \in Tx
  PROVE  LET r == RemoveConflicts(t, s)
         IN Eases(s, r) /\ r \in PoolState /\ NoneSpends(r, ToSet(Vin[t]))
<1> DEFINE f == [p \in Tx |-> [q \in PoolState |-> RemoveTxWithInput(p, q)]]
           list == Vin[t]
           A == {q \in PoolState : Eases(s, q)}
           Done == [p \in Tx |-> {q \in PoolState : NoneSpends(q, {p})}]
<1>1. list \in Seq(Tx) /\ ToSet(list) \subseteq Tx  BY Limits
<1>2. ASSUME NEW a \in Tx, NEW q \in A
      PROVE  /\ f[a][q] \in A /\ f[a][q] \in Done[a]
             /\ \A y \in Tx : q \in Done[y] => f[a][q] \in Done[y]
  <2>1. f[a][q] = RemoveTxWithInput(a, q)  OBVIOUS
  <2>2. /\ Eases(q, RemoveTxWithInput(a, q)) /\ RemoveTxWithInput(a, q) \in PoolState
        /\ Spending(a) \cap RemoveTxWithInput(a, q).active = {}
    BY InputEases
  <2> HIDE DEF f
  <2>3. Eases(s, f[a][q])  BY <2>1, <2>2, EasesOrder
  <2>4. f[a][q] \in PoolState /\ NoneSpends(f[a][q], {a})  BY <2>1, <2>2 DEF NoneSpends
  <2>5. \A y \in Tx : NoneSpends(q, {y}) => NoneSpends(f[a][q], {y})  BY <2>1, <2>2, FreeStays
  <2> QED  BY <2>3, <2>4, <2>5
<1>3. s \in A  BY EasesOrder
<1> DEFINE r == InTurn(f, list, s)
<1> HIDE DEF f, list, A, Done
<1>4. \A x \in ToSet(list) : \A a \in A :
           /\ f[x][a] \in A
           /\ f[x][a] \in Done[x]
           /\ \A y \in ToSet(list) : a \in Done[y] => f[x][a] \in Done[y]
  BY <1>1, <1>2
<1>5. r \in A /\ \A x \in ToSet(list) : r \in Done[x]  BY <1>1, <1>3, <1>4, InTurnDoes
<1>7. r = RemoveConflicts(t, s)  BY DEF RemoveConflicts, r, f, list
<1> HIDE DEF r
<1>6. Eases(s, r) /\ r \in PoolState /\ \A p \in ToSet(list) : NoneSpends(r, {p})
  BY <1>1, <1>5 DEF A, Done
<1>8. NoneSpends(r, ToSet(Vin[t]))  BY <1>6 DEF NoneSpends, list
<1> QED  BY <1>6, <1>7, <1>8

LEMMA BlockEases ==
  ASSUME NEW s \in PoolState, NEW b \in Block
  PROVE  LET r == RemoveInputsOf(b, s)
         IN Eases(s, r) /\ r \in PoolState /\ NoneSpends(r, InputsOf(b))
<1> DEFINE f == [t \in Tx |-> [q \in PoolState |-> RemoveConflicts(t, q)]]
           list == Vtx[b]
           A == {q \in PoolState : Eases(s, q)}
           Done == [t \in Tx |-> {q \in PoolState : NoneSpends(q, ToSet(Vin[t]))}]
<1>1. list \in Seq(Tx) /\ ToSet(list) \subseteq Tx /\ ToSet(list) = Txs(b)
  BY Limits DEF Txs
<1>2. ASSUME NEW a \in Tx, NEW q \in A
      PROVE  /\ f[a][q] \in A /\ f[a][q] \in Done[a]
             /\ \A y \in Tx : q \in Done[y] => f[a][q] \in Done[y]
  <2>1. f[a][q] = RemoveConflicts(a, q)  OBVIOUS
  <2>2. /\ Eases(q, RemoveConflicts(a, q)) /\ RemoveConflicts(a, q) \in PoolState
        /\ NoneSpends(RemoveConflicts(a, q), ToSet(Vin[a]))
    BY ConflictsEase
  <2> HIDE DEF f
  <2>3. Eases(s, f[a][q])  BY <2>1, <2>2, EasesOrder
  <2>4. f[a][q] \in PoolState /\ NoneSpends(f[a][q], ToSet(Vin[a]))  BY <2>1, <2>2
  <2>5. \A y \in Tx : NoneSpends(q, ToSet(Vin[y])) => NoneSpends(f[a][q], ToSet(Vin[y]))
    BY <2>1, <2>2, FreeStays
  <2> QED  BY <2>3, <2>4, <2>5
<1>3. s \in A  BY EasesOrder
<1> DEFINE r == InTurn(f, list, s)
<1> HIDE DEF f, list, A, Done
<1>4. \A x \in ToSet(list) : \A a \in A :
           /\ f[x][a] \in A
           /\ f[x][a] \in Done[x]
           /\ \A y \in ToSet(list) : a \in Done[y] => f[x][a] \in Done[y]
  BY <1>1, <1>2
<1>5. r \in A /\ \A x \in ToSet(list) : r \in Done[x]  BY <1>1, <1>3, <1>4, InTurnDoes
<1>7. r = RemoveInputsOf(b, s)  BY DEF RemoveInputsOf, r, f, list
<1> HIDE DEF r
<1>6. Eases(s, r) /\ r \in PoolState /\ \A t \in ToSet(list) : NoneSpends(r, ToSet(Vin[t]))
  BY <1>1, <1>5 DEF A, Done
<1>8. NoneSpends(r, InputsOf(b))  BY <1>1, <1>6 DEF NoneSpends, InputsOf
<1> QED  BY <1>6, <1>7, <1>8

(* What no active transaction spends need not be unspent.                  *)
LEMMA FreeSound ==
  ASSUME NEW s, NEW D, NEW P, Sound(s, D), NoneSpends(s, P)
  PROVE  Sound(s, D \ P)
<1>1. s \in PoolState /\ s.active \in SUBSET Tx  BY Fields DEF Sound
<1>2. Clean(s, D \ P)
  <2> SUFFICES ASSUME NEW t \in s.active, NEW p \in ToSet(Vin[t])
               PROVE  s.coin[p] = None \/ p \in D \ P
    BY DEF Clean
  <2>1. s.coin[p] = None \/ p \in D  BY DEF Sound, Clean
  <2>2. t \in Spending(p)  BY <1>1 DEF Spending
  <2>3. p \notin P  BY <2>2 DEF NoneSpends
  <2> QED  BY <2>1, <2>3
<1> QED  BY <1>2 DEF Sound

(* PopTx, and the queues that only hold what waits.                        *)
LEMMA PopEases ==
  ASSUME NEW s \in PoolState, NEW t \in Tx
  PROVE  Eases(s, PopTx(t, s)) /\ PopTx(t, s) \in PoolState
<1> DEFINE r == PopTx(t, s)
<1>1. \/ r = s
      \/ r = [s EXCEPT !.inval = @ \ {t}, !.pending = @ \ {t},
                       !.overflow = @ \ {t}, !.active = @ \ {t}]
  BY DEF PopTx
<1> HIDE DEF r
<1>2. /\ r \in PoolState /\ r.active \subseteq s.active /\ r.overflow \subseteq s.overflow
      /\ r.inval \subseteq s.inval /\ r.inputs = s.inputs /\ r.coin = s.coin
  <2>1. CASE r = s  BY <2>1
  <2>2. CASE r = [s EXCEPT !.inval = @ \ {t}, !.pending = @ \ {t},
                           !.overflow = @ \ {t}, !.active = @ \ {t}]
    BY <2>2 DEF PoolState
  <2> QED  BY <1>1, <2>1, <2>2
<1> QED  BY <1>2 DEF Eases, r

LEMMA PopsEase ==
  ASSUME NEW s \in PoolState, NEW b \in Block
  PROVE  Eases(s, PopTxsOf(b, s)) /\ PopTxsOf(b, s) \in PoolState
<1> DEFINE f == [t \in Tx |-> [q \in PoolState |-> PopTx(t, q)]]
           list == Vtx[b]
           A == {q \in PoolState : Eases(s, q)}
<1>1. list \in Seq(Tx) /\ ToSet(list) \subseteq Tx  BY Limits DEF Txs
<1>2. ASSUME NEW a \in Tx, NEW q \in A PROVE f[a][q] \in A
  <2>1. f[a][q] = PopTx(a, q)  OBVIOUS
  <2>2. Eases(q, PopTx(a, q)) /\ PopTx(a, q) \in PoolState  BY PopEases
  <2> HIDE DEF f
  <2>3. Eases(s, f[a][q]) /\ f[a][q] \in PoolState  BY <2>1, <2>2, EasesOrder
  <2> QED  BY <2>3
<1>3. s \in A  BY EasesOrder
<1> DEFINE r == InTurn(f, list, s)
<1>5. r = PopTxsOf(b, s)  BY DEF PopTxsOf
<1> HIDE DEF f, list, A
<1>4. \A x \in ToSet(list) : \A a \in A : f[x][a] \in A  BY <1>1, <1>2
<1>6. r \in A  BY <1>1, <1>3, <1>4, InTurnKeeps
<1> QED  BY <1>5, <1>6 DEF A

LEMMA PendingEases ==
  ASSUME NEW s \in PoolState, NEW t \in Tx
  PROVE  Eases(s, AddPendingTx(t, s)) /\ AddPendingTx(t, s) \in PoolState
<1> DEFINE r == AddPendingTx(t, s)
           q == PurgePendingTx(s)
<1>1. /\ q \in PoolState /\ q.active = s.active /\ q.overflow = s.overflow
      /\ q.inval = s.inval /\ q.inputs = s.inputs /\ q.coin = s.coin
  BY DEF PurgePendingTx, PoolState
<1>2. r = s \/ r = [q EXCEPT !.pending = @ \cup {t}]  BY DEF AddPendingTx
<1> HIDE DEF q, r
<1>3. /\ r \in PoolState /\ r.active = s.active /\ r.overflow = s.overflow
      /\ r.inval = s.inval /\ r.inputs = s.inputs /\ r.coin = s.coin
  <2>1. CASE r = s  BY <2>1
  <2>2. CASE r = [q EXCEPT !.pending = @ \cup {t}]  BY <1>1, <2>2 DEF PoolState
  <2> QED  BY <1>2, <2>1, <2>2
<1> QED  BY <1>3 DEF Eases, r

LEMMA StaleEases ==
  ASSUME NEW s \in PoolState, NEW t \in Tx
  PROVE  Eases(s, AddStaleTx(t, s)) /\ AddStaleTx(t, s) \in PoolState
<1> DEFINE r == AddStaleTx(t, s)
<1>1. r = s \/ r = [s EXCEPT !.stale = @ \cup {t}]  BY DEF AddStaleTx
<1> HIDE DEF r
<1>2. /\ r \in PoolState /\ r.active = s.active /\ r.overflow = s.overflow
      /\ r.inval = s.inval /\ r.inputs = s.inputs /\ r.coin = s.coin
  BY <1>1 DEF PoolState
<1> QED  BY <1>2 DEF Eases, r

LEMMA ExpireEases ==
  ASSUME NEW s \in PoolState
  PROVE  Eases(s, Expire(s)) /\ Expire(s) \in PoolState
<1> DEFINE expired == {t \in s.active : s.age[t] >= ActiveSpan}
           out == CHOOSE t \in expired : TRUE
<1>1. CASE expired = {}
  <2>1. Expire(s) = s  BY <1>1 DEF Expire
  <2> QED  BY <2>1, EasesOrder
<1>2. CASE expired # {}
  <2>1. out \in Tx  BY <1>2, Fields
  <2>2. Expire(s) = AddStaleTx(out, RemoveTx(out, s))  BY <1>2 DEF Expire
  <2> HIDE DEF out
  <2> DEFINE q == RemoveTx(out, s)
  <2>3. Eases(s, q) /\ q \in PoolState  BY <2>1, RemoveEases
  <2> HIDE DEF q
  <2>4. Eases(q, AddStaleTx(out, q)) /\ AddStaleTx(out, q) \in PoolState
    BY <2>1, <2>3, StaleEases
  <2>5. Expire(s) = AddStaleTx(out, q)  BY <2>2 DEF q
  <2> QED  BY <2>3, <2>4, <2>5, EasesOrder
<1> QED  BY <1>1, <1>2

-----------------------------------------------------------------------------
(* What a transaction spends, directly or not.                             *)

Rooted(C) == \A x \in C : ToSet(Vin[x]) \subseteq C
Below(t) ==
  {u \in Tx : \A C \in SUBSET Tx : Rooted(C) /\ ToSet(Vin[t]) \subseteq C => u \in C}

LEMMA BelowIs ==
  ASSUME NEW t \in Tx
  PROVE  /\ Below(t) \in SUBSET Tx /\ Rooted(Below(t))
         /\ ToSet(Vin[t]) \subseteq Below(t)
         /\ \A p \in ToSet(Vin[t]) : Below(p) \subseteq Below(t)
<1>1. Below(t) \in SUBSET Tx  BY DEF Below
<1>2. \A x \in Tx : ToSet(Vin[x]) \subseteq Tx  BY Limits
<1>3. ToSet(Vin[t]) \subseteq Below(t)  BY <1>2 DEF Below
<1>4. Rooted(Below(t))
  <2> SUFFICES ASSUME NEW x \in Below(t), NEW y \in ToSet(Vin[x]) PROVE y \in Below(t)
    BY DEF Rooted
  <2>1. y \in Tx  BY <1>1, <1>2
  <2> SUFFICES ASSUME NEW C \in SUBSET Tx, Rooted(C), ToSet(Vin[t]) \subseteq C
               PROVE  y \in C
    BY <2>1 DEF Below
  <2>2. x \in C  BY DEF Below
  <2> QED  BY <2>2 DEF Rooted
<1>5. ASSUME NEW p \in ToSet(Vin[t]) PROVE Below(p) \subseteq Below(t)
  <2> SUFFICES ASSUME NEW u \in Below(p), NEW C \in SUBSET Tx, Rooted(C),
                      ToSet(Vin[t]) \subseteq C
               PROVE  u \in C
    BY DEF Below
  <2>1. ToSet(Vin[p]) \subseteq C  BY DEF Rooted
  <2> QED  BY <2>1 DEF Below
<1> QED  BY <1>1, <1>3, <1>4, <1>5

(* No transaction spends itself.                                           *)
LEMMA NotBelow ==
  ASSUME NEW t \in Tx
  PROVE  t \notin Below(t)
<1> SUFFICES ASSUME t \in Below(t) PROVE FALSE  OBVIOUS
<1> DEFINE S == {u \in Tx : t \in Below(u)}
<1>1. PICK u \in S : ToSet(Vin[u]) \cap S = {}
  <2>1. S \in SUBSET Tx /\ S # {}  OBVIOUS
  <2> HIDE DEF S
  <2> QED  BY <2>1, PoolAssumption
<1> DEFINE C == ToSet(Vin[u]) \cup UNION {Below(p) : p \in ToSet(Vin[u])}
<1>2. ToSet(Vin[u]) \subseteq Tx  BY Limits
<1>3. \A p \in ToSet(Vin[u]) : /\ Below(p) \in SUBSET Tx /\ Rooted(Below(p))
                               /\ ToSet(Vin[p]) \subseteq Below(p)
  BY <1>2, BelowIs
<1>4. C \in SUBSET Tx  BY <1>2, <1>3
<1>5. Rooted(C)
  <2> SUFFICES ASSUME NEW x \in C PROVE ToSet(Vin[x]) \subseteq C  BY DEF Rooted
  <2>1. CASE x \in ToSet(Vin[u])  BY <1>3, <2>1
  <2>2. CASE \E p \in ToSet(Vin[u]) : x \in Below(p)  BY <1>3, <2>2 DEF Rooted
  <2> QED  BY <2>1, <2>2
<1>6. ToSet(Vin[u]) \subseteq C  OBVIOUS
<1>7. t \in C
  <2> HIDE DEF C
  <2> QED  BY <1>1, <1>4, <1>5, <1>6 DEF Below
<1>8. PICK p \in ToSet(Vin[u]) : t = p \/ t \in Below(p)  BY <1>7
<1>9. p \in S  BY <1>2, <1>8
<1> QED  BY <1>1, <1>9

(* FillInputs of a transaction is FillInputs of those it spends.           *)
FillsOn(g, C) == g = [t \in C |-> FillAll(t, [p \in ToSet(Vin[t]) |-> g[p]])]
LEMMA FillsMore ==
  ASSUME NEW C \in SUBSET Tx, Rooted(C), NEW t \in Tx, t \notin C, ToSet(Vin[t]) \subseteq C,
         NEW g, FillsOn(g, C)
  PROVE  Rooted(C \cup {t}) /\ \E h : FillsOn(h, C \cup {t})
<1> DEFINE v == FillAll(t, [p \in ToSet(Vin[t]) |-> g[p]])
           h == [x \in C \cup {t} |-> IF x = t THEN v ELSE g[x]]
<1>1. Rooted(C \cup {t})  BY DEF Rooted
<1>2. h[t] = v /\ \A x \in C : h[x] = g[x]  OBVIOUS
<1>3. ASSUME NEW x \in C \cup {t}
      PROVE  [p \in ToSet(Vin[x]) |-> h[p]] = [p \in ToSet(Vin[x]) |-> g[p]]
  <2>1. ToSet(Vin[x]) \subseteq C  BY DEF Rooted
  <2> HIDE DEF h
  <2> QED  BY <1>2, <2>1
<1>4. \A x \in C : g[x] = FillAll(x, [p \in ToSet(Vin[x]) |-> g[p]])  BY DEF FillsOn
<1>5. DOMAIN h = C \cup {t} /\ h = [x \in DOMAIN h |-> h[x]]  OBVIOUS
<1> HIDE DEF h
<1>6. ASSUME NEW x \in C \cup {t} PROVE h[x] = FillAll(x, [p \in ToSet(Vin[x]) |-> h[p]])
  <2>1. CASE x = t  BY <1>2, <1>3, <2>1
  <2>2. CASE x \in C  BY <1>2, <1>3, <1>4, <2>2
  <2> QED  BY <2>1, <2>2
<1>7. FillsOn(h, C \cup {t})  BY <1>5, <1>6 DEF FillsOn
<1> QED  BY <1>1, <1>7

LEMMA FillIs ==
  \A t \in Tx : Fill[t] = FillAll(t, [p \in ToSet(Vin[t]) |-> Fill[p]])
<1> DEFINE n == Cardinality(Tx)
           Reached(C) == C \in SUBSET Tx /\ Rooted(C) /\ \E g : FillsOn(g, C)
           P == {k \in 0 .. n : \E C : Reached(C) /\ Cardinality(C) = k}
<1>1. IsFiniteSet(Tx) /\ n \in Nat  BY Limits, FS_CardinalityType
<1>2. 0 \in P
  <2>1. FillsOn([t \in {} |-> t], {})  BY DEF FillsOn
  <2>2. Reached({}) /\ Cardinality({}) = 0  BY <2>1, FS_EmptySet DEF Rooted
  <2> QED  BY <1>1, <2>2
<1>3. ASSUME NEW k \in 1 .. n, k - 1 \in P PROVE k \in P
  <2>1. PICK C : Reached(C) /\ Cardinality(C) = k - 1  BY <1>3
  <2>2. IsFiniteSet(C) /\ C # Tx  BY <1>1, <2>1, FS_Subset
  <2>3. Tx \ C \in SUBSET Tx /\ Tx \ C # {}  BY <2>1, <2>2
  <2>4. PICK t \in Tx \ C : ToSet(Vin[t]) \cap (Tx \ C) = {}  BY <2>3, PoolAssumption
  <2>5. ToSet(Vin[t]) \subseteq C  BY <2>4, Limits
  <2>6. PICK g : FillsOn(g, C)  BY <2>1
  <2>7. Reached(C \cup {t})  BY <2>1, <2>5, <2>6, FillsMore
  <2>8. Cardinality(C \cup {t}) = k
    <3> HIDE DEF Reached, P
    <3>1. Cardinality(C \cup {t}) = Cardinality(C) + 1  BY <2>2, <2>4, FS_AddElement
    <3> HIDE DEF n
    <3> QED  BY <1>1, <2>1, <3>1
  <2> HIDE DEF Reached
  <2> QED  BY <1>1, <2>7, <2>8
<1>4. \A k \in 0 .. n : k \in P
  <2> HIDE DEF P, n
  <2> QED  BY <1>1, <1>2, <1>3, UpTo
<1>5. PICK C : Reached(C) /\ Cardinality(C) = n
  <2>1. n \in 0 .. n  BY <1>1
  <2> QED  BY <1>4, <2>1
<1>6. C = Tx  BY <1>1, <1>5, FS_Subset
<1>7. PICK g : FillsOn(g, Tx)  BY <1>5, <1>6
<1>8. Fill = CHOOSE h : FillsOn(h, Tx)  BY DEF Fill, FillsOn
<1>9. FillsOn(Fill, Tx)  BY <1>7, <1>8
<1> QED  BY <1>9 DEF FillsOn

-----------------------------------------------------------------------------
(* Handlers that add to a queue.                                           *)

(* Results.                                                                *)
LEMMA Results ==
  ASSUME NEW s \in PoolState
  PROVE  /\ Yes(s) \in Result /\ Yes(s).s = s /\ Yes(s).ok
         /\ No(s) \in Result /\ No(s).s = s /\ ~No(s).ok
  BY DEF Yes, No, Result

LEMMA ResultFields ==
  ASSUME NEW a \in Result
  PROVE  a.s \in PoolState
  BY DEF Result

(* What a handler leaves, when it has looked for no inputs.                *)
Acts(a, s, D) == a \in Result /\ Sound(a.s, D) /\ a.s.inputs = s.inputs

LEMMA ActsPlain ==
  ASSUME NEW s, NEW r, NEW D, Sound(r, D), r.inputs = s.inputs
  PROVE  Acts(Yes(r), s, D) /\ Acts(No(r), s, D)
<1>1. r \in PoolState  BY DEF Sound
<1> QED  BY <1>1, Results DEF Acts

LEMMA InvalSound ==
  ASSUME NEW s, NEW D, Sound(s, D), NEW t \in Tx
  PROVE  Sound(AddInvalTx(t, s), D) /\ AddInvalTx(t, s).inputs = s.inputs
<1> DEFINE S == s.inval \cup {t}
           T == IF Cardinality(S) > MaxInval THEN S \ {CHOOSE u \in S : TRUE} ELSE S
           r == AddInvalTx(t, s)
<1>1. s \in PoolState  BY DEF Sound
<1>2. s.inval \in SUBSET Tx /\ IsFiniteSet(s.inval)
  BY <1>1, Fields, Limits, FS_Subset
<1>3. Cardinality(s.inval) \in Nat /\ Cardinality(s.inval) <= MaxInval /\ MaxInval \in Nat
  BY <1>2, FS_CardinalityType, Limits DEF Sound
<1>4. /\ IsFiniteSet(S) /\ Cardinality(S) \in Nat
      /\ Cardinality(S) <= Cardinality(s.inval) + 1
  <2>1. /\ IsFiniteSet(S)
        /\ Cardinality(S) = IF t \in s.inval THEN Cardinality(s.inval) ELSE Cardinality(s.inval) + 1
    BY <1>2, FS_AddElement
  <2>2. Cardinality(S) \in Nat  BY <2>1, FS_CardinalityType
  <2> QED  BY <1>3, <2>1, <2>2
<1>5. T \in SUBSET Tx /\ Cardinality(T) <= MaxInval
  <2> DEFINE c == CHOOSE u \in S : TRUE
  <2>1. c \in S  OBVIOUS
  <2>2. S \in SUBSET Tx  BY <1>2
  <2> HIDE DEF c, S
  <2>3. IsFiniteSet(S \ {c}) /\ Cardinality(S \ {c}) = Cardinality(S) - 1
    BY <1>4, <2>1, FS_RemoveElement
  <2>4. CASE Cardinality(S) > MaxInval
    <3>1. T = S \ {c}  BY <2>4 DEF c
    <3>2. Cardinality(S \ {c}) <= MaxInval  BY <1>3, <1>4, <2>3
    <3> QED  BY <2>2, <3>1, <3>2
  <2>5. CASE ~(Cardinality(S) > MaxInval)  BY <1>3, <1>4, <2>2, <2>5
  <2> QED  BY <2>4, <2>5
<1>6. r = [s EXCEPT !.inval = T]  BY DEF AddInvalTx
<1> HIDE DEF T, r
<1>7. /\ r \in PoolState /\ r.active = s.active /\ r.overflow = s.overflow
      /\ r.inval = T /\ r.inputs = s.inputs /\ r.coin = s.coin
  BY <1>1, <1>5, <1>6 DEF PoolState
<1>8. Sound(r, D)  BY <1>5, <1>7 DEF Sound, Full, Clean
<1> QED  BY <1>7, <1>8 DEF r

LEMMA OverflowSound ==
  ASSUME NEW s, NEW D, Sound(s, D), NEW t \in Tx, Full(t, s)
  PROVE  Acts(AddOverflowTx(t, s), s, D)
<1> DEFINE r == [s EXCEPT !.overflow = @ \cup {t}]
<1>1. s \in PoolState  BY DEF Sound
<1>2. /\ r \in PoolState /\ r.active = s.active /\ r.overflow = s.overflow \cup {t}
      /\ r.inval = s.inval /\ r.inputs = s.inputs /\ r.coin = s.coin
  BY <1>1 DEF PoolState
<1>3. AddOverflowTx(t, s) \in {Yes(s), No(s), Yes(r)}  BY DEF AddOverflowTx
<1> HIDE DEF r
<1>4. Sound(r, D)  BY <1>2 DEF Sound, Full, Clean
<1> QED  BY <1>2, <1>3, <1>4, ActsPlain

LEMMA Eased ==
  ASSUME NEW s, NEW r, NEW D, Sound(s, D), Eases(s, r)
  PROVE  Sound(r, D) /\ r.inputs = s.inputs
  BY EasesSound DEF Eases

(* Conflicts are removed or the transaction is refused.                    *)
LEMMA Resolves ==
  ASSUME NEW s \in PoolState, NEW t \in Tx
  PROVE  \/ ResolveConflicts(t, s) = No(s)
         \/ \E r \in PoolState :
              /\ ResolveConflicts(t, s) = Yes(r) /\ Eases(s, r)
              /\ \A a \in r.active : ~Conflict(a, t)
<1> DEFINE S == {a \in s.active : Conflict(a, t)}
           r == InTurn([a \in Tx |-> [q \in PoolState |-> RemoveTx(a, q)]], SetToSeq(S), s)
<1>1. S \in SUBSET Tx  BY Fields
<1>2. ResolveConflicts(t, s) \in {No(s), Yes(r)}  BY DEF ResolveConflicts
<1>3. Eases(s, r) /\ r \in PoolState /\ \A a \in S : a \notin r.active
  <2> HIDE DEF S
  <2> QED  BY <1>1, RemoveLoop
<1> HIDE DEF r
<1>4. \A a \in r.active : ~Conflict(a, t)  BY <1>3 DEF Eases
<1> QED  BY <1>2, <1>3, <1>4

(* FillInputs of a transaction: what is found is kept, and only the inputs *)
(* of what it spends are looked for again.                                 *)
Widens(s, r, B) == \A u \in Tx \ B : s.inputs[u] \subseteq r.inputs[u]
Fills(t, f, D) ==
  \A s \in PoolState : Sound(s, D) =>
    /\ f[s] \in Result /\ Sound(f[s].s, D)
    /\ f[s].ok => Full(t, f[s].s)
    /\ Full(t, s) => f[s] = Yes(s)
    /\ Widens(s, f[s].s, Below(t))

(* AddActiveTx of a transaction whose inputs have been found.              *)
LEMMA ResolvedSound ==
  ASSUME NEW s, NEW D, Sound(s, D), NEW t \in Tx, Fits(t, s),
         \A p \in ToSet(Vin[t]) : s.coin[p] = None
  PROVE  Acts(Resolved(t, s, ResolveConflicts(t, s)), s, D)
<1>1. s \in PoolState  BY DEF Sound
<1>2. CASE ResolveConflicts(t, s) = No(s)
  <2>1. ~ResolveConflicts(t, s).ok  BY <1>1, <1>2, Results
  <2>2. Resolved(t, s, ResolveConflicts(t, s)) = No(AddInvalTx(t, s))  BY <2>1 DEF Resolved
  <2> QED  BY <2>2, InvalSound, ActsPlain
<1>3. ASSUME NEW r \in PoolState, ResolveConflicts(t, s) = Yes(r), Eases(s, r),
             \A a \in r.active : ~Conflict(a, t)
      PROVE  Acts(Resolved(t, s, ResolveConflicts(t, s)), s, D)
  <2> DEFINE q == [r EXCEPT !.active = @ \cup {t}]
  <2>1. ResolveConflicts(t, s).ok /\ ResolveConflicts(t, s).s = r  BY <1>3, Results
  <2>2. Resolved(t, s, ResolveConflicts(t, s)) = Yes(q)  BY <2>1 DEF Resolved
  <2>3. Sound(r, D) /\ r.inputs = s.inputs  BY <1>3, Eased
  <2>4. /\ q \in PoolState /\ q.active = r.active \cup {t} /\ q.overflow = r.overflow
        /\ q.inval = r.inval /\ q.inputs = r.inputs /\ q.coin = r.coin
    BY DEF PoolState
  <2> HIDE DEF q
  <2>5. NoConflicts(q.active)  BY <1>3, <2>3, <2>4 DEF NoConflicts, Conflict, Sound
  <2>6. TotalWeight(q.active) <= MaxWeight
    <3>1. r.active \subseteq s.active /\ s.active \in SUBSET Tx /\ r.active \in SUBSET Tx
      BY <1>1, <1>3, Fields DEF Eases
    <3>2. /\ TotalWeight(r.active) <= TotalWeight(s.active)
          /\ TotalWeight(r.active) \in Nat /\ TotalWeight(s.active) \in Nat
      BY <3>1, Weights
    <3>3. TotalWeight(q.active) <= TotalWeight(r.active) + Weight[t]  BY <2>4, <3>1, Weights
    <3>4. q.active \in SUBSET Tx  BY <2>4, Fields
    <3>5. TotalWeight(q.active) \in Nat  BY <3>4, Weights
    <3>6. Weight[t] \in Nat /\ MaxWeight \in Nat  BY Limits
    <3>7. TotalWeight(s.active) + Weight[t] <= MaxWeight  BY DEF Fits
    <3> QED  BY <3>2, <3>3, <3>5, <3>6, <3>7
  <2>7. Clean(q, D)
    <3> SUFFICES ASSUME NEW x \in q.active, NEW p \in ToSet(Vin[x])
                 PROVE  q.coin[p] = None \/ p \in D
      BY DEF Clean
    <3>1. CASE x \in r.active  BY <2>3, <2>4, <3>1 DEF Sound, Clean
    <3>2. CASE x = t
      <4>1. p \in Tx /\ s.coin[p] = None  BY <3>2, Limits
      <4>2. r.coin[p] = s.coin[p] \/ r.coin[p] = None  BY <1>3, <4>1 DEF Eases
      <4> QED  BY <2>4, <4>1, <4>2
    <3> QED  BY <2>4, <3>1, <3>2
  <2>8. Sound(q, D)  BY <2>3, <2>4, <2>5, <2>6, <2>7 DEF Sound, Full
  <2> QED  BY <2>2, <2>3, <2>4, <2>8, ActsPlain
<1> QED  BY <1>1, <1>2, <1>3, Resolves

LEMMA FilledSound ==
  ASSUME NEW s, NEW D, Sound(s, D), NEW t \in Tx, Full(t, s), Fits(t, s)
  PROVE  Acts(Filled(t, Yes(s)), s, D)
<1>1. s \in PoolState  BY DEF Sound
<1>2. Yes(s).ok /\ Yes(s).s = s  BY <1>1, Results
<1>3. Filled(t, Yes(s)) =
        IF AreInputsSpent(t, s) \/ t \in BadSig THEN No(AddInvalTx(t, s))
        ELSE IF Immature(t, s) THEN No(AddOverflowTx(t, s).s)
        ELSE Resolved(t, s, ResolveConflicts(t, s))
  BY <1>2 DEF Filled
<1>4. Acts(No(AddInvalTx(t, s)), s, D)  BY InvalSound, ActsPlain
<1>5. Acts(No(AddOverflowTx(t, s).s), s, D)
  <2>1. Acts(AddOverflowTx(t, s), s, D)  BY OverflowSound
  <2> QED  BY <2>1, ActsPlain DEF Acts
<1>6. ASSUME ~AreInputsSpent(t, s) PROVE Acts(Resolved(t, s, ResolveConflicts(t, s)), s, D)
  <2>1. \A p \in ToSet(Vin[t]) : s.coin[p] = None  BY <1>6 DEF AreInputsSpent, Full
  <2> QED  BY <2>1, ResolvedSound
<1> QED  BY <1>3, <1>4, <1>5, <1>6

LEMMA ActiveSound ==
  ASSUME NEW t \in Tx, NEW D, NEW f, Fills(t, f, D), NEW s, Sound(s, D), Full(t, s)
  PROVE  Acts(AddActive(t, s, f), s, D)
<1> DEFINE q == [s EXCEPT !.overflow = @ \ {t}, !.stale = @ \ {t}]
<1>1. s \in PoolState  BY DEF Sound
<1>2. /\ q \in PoolState /\ q.active = s.active /\ q.overflow = s.overflow \ {t}
      /\ q.inval = s.inval /\ q.inputs = s.inputs /\ q.coin = s.coin
  BY <1>1 DEF PoolState
<1>3. AddActive(t, s, f) = IF t \in s.active THEN Yes(s)
        ELSE IF ~Fits(t, s) THEN AddOverflowTx(t, s) ELSE Filled(t, f[q])
  BY DEF AddActive
<1> HIDE DEF q
<1>4. Sound(q, D)  BY <1>2 DEF Sound, Full, Clean
<1>5. Full(t, q)  BY <1>2 DEF Full
<1>6. f[q] = Yes(q)  BY <1>2, <1>4, <1>5 DEF Fills
<1>7. Fits(t, s) => Fits(t, q)  BY <1>2 DEF Fits
<1>8. Fits(t, s) => Acts(Filled(t, f[q]), s, D)
  <2>1. Fits(t, q) => Acts(Filled(t, Yes(q)), q, D)  BY <1>4, <1>5, FilledSound
  <2> QED  BY <1>2, <1>6, <1>7, <2>1 DEF Acts
<1>9. Acts(Yes(s), s, D)  BY ActsPlain
<1>10. Acts(AddOverflowTx(t, s), s, D)  BY OverflowSound
<1> QED  BY <1>3, <1>8, <1>9, <1>10

-----------------------------------------------------------------------------
(* FillInputs.                                                             *)

LEMMA InputSound ==
  ASSUME NEW s, NEW D, Sound(s, D), NEW t \in Tx, NEW p \in Tx
  PROVE  /\ Sound(AddInput(t, p, s), D) /\ p \in AddInput(t, p, s).inputs[t]
         /\ \A B : Widens(s, AddInput(t, p, s), B)
<1> DEFINE r == AddInput(t, p, s)
<1>1. s \in PoolState  BY DEF Sound
<1>2. s.inputs \in [Tx -> SUBSET Tx]  BY <1>1, Fields
<1>3. r = [s EXCEPT !.inputs = [s.inputs EXCEPT ![t] = @ \cup {p}]]  BY DEF AddInput
<1> DEFINE i == [s.inputs EXCEPT ![t] = @ \cup {p}]
<1>4. i \in [Tx -> SUBSET Tx] /\ p \in i[t] /\ \A u \in Tx : s.inputs[u] \subseteq i[u]
  BY <1>2
<1> HIDE DEF r, i
<1>5. /\ r \in PoolState /\ r.active = s.active /\ r.overflow = s.overflow
      /\ r.inval = s.inval /\ r.inputs = i /\ r.coin = s.coin
  BY <1>1, <1>3, <1>4 DEF PoolState, i
<1>6. \A u \in r.overflow : Full(u, r)
  <2>1. s.overflow \in SUBSET Tx  BY <1>1, Fields
  <2> QED  BY <1>4, <1>5, <2>1 DEF Sound, Full
<1>7. Sound(r, D)  BY <1>5, <1>6 DEF Sound, Clean
<1>8. \A B : Widens(s, r, B)  BY <1>4, <1>5 DEF Widens
<1> QED  BY <1>4, <1>5, <1>7, <1>8 DEF r

(* Looking for one input.                                                  *)
FindsOne(t, p, s, a, D) ==
  /\ a \in Result /\ Sound(a.s, D)
  /\ a.ok => p \in a.s.inputs[t]
  /\ Widens(s, a.s, Below(t))

LEMMA WidensMore ==
  ASSUME NEW s, NEW q, NEW r, NEW B, Widens(s, q, B), Widens(q, r, B)
  PROVE  Widens(s, r, B)
  BY DEF Widens

LEMMA FindsPlain ==
  ASSUME NEW t \in Tx, NEW p, NEW s, NEW r, NEW D, Sound(r, D), Widens(s, r, Below(t))
  PROVE  /\ FindsOne(t, p, s, No(r), D)
         /\ p \in r.inputs[t] => FindsOne(t, p, s, Yes(r), D)
<1>1. r \in PoolState  BY DEF Sound
<1> QED  BY <1>1, Results DEF FindsOne

LEMMA FindsInput ==
  ASSUME NEW t \in Tx, NEW p \in Tx, NEW s, NEW r, NEW D, Sound(r, D),
         Widens(s, r, Below(t))
  PROVE  FindsOne(t, p, s, Yes(AddInput(t, p, r)), D)
<1>1. /\ Sound(AddInput(t, p, r), D) /\ p \in AddInput(t, p, r).inputs[t]
      /\ Widens(r, AddInput(t, p, r), Below(t))
  BY InputSound
<1>2. Widens(s, AddInput(t, p, r), Below(t))  BY <1>1, WidensMore
<1> QED  BY <1>1, <1>2, FindsPlain

LEMMA OverflowFinds ==
  ASSUME NEW t \in Tx, NEW p \in ToSet(Vin[t]), NEW D, NEW f, Fills(p, f, D),
         NEW s, Sound(s, D), p \in s.overflow
  PROVE  FindsOne(t, p, s, FilledBy(t, p, AddActive(p, RemoveTx(p, s), f)), D)
<1> DEFINE q == RemoveTx(p, s)
           a == AddActive(p, q, f)
<1>1. p \in Tx /\ s \in PoolState  BY Limits DEF Sound
<1>2. Eases(s, q)  BY <1>1, RemoveEases
<1>3. Sound(q, D) /\ q.inputs = s.inputs  BY <1>2, Eased
<1>4. Full(p, q)  BY <1>3 DEF Sound, Full
<1> HIDE DEF q
<1>5. Acts(a, q, D)  BY <1>1, <1>3, <1>4, ActiveSound
<1> HIDE DEF a
<1>6. a \in Result /\ Sound(a.s, D) /\ a.s.inputs = s.inputs  BY <1>3, <1>5 DEF Acts
<1>7. Widens(s, a.s, Below(t))  BY <1>6 DEF Widens
<1>8. CASE a.ok
  <2>1. FilledBy(t, p, a) = Yes(AddInput(t, p, a.s))  BY <1>8 DEF FilledBy
  <2> QED  BY <1>1, <1>6, <1>7, <2>1, FindsInput DEF a, q
<1>9. CASE ~a.ok
  <2>1. FilledBy(t, p, a) = a  BY <1>9 DEF FilledBy
  <2>2. FindsOne(t, p, s, a, D)  BY <1>6, <1>7, <1>9 DEF FindsOne
  <2> QED  BY <2>1, <2>2 DEF a, q
<1> QED  BY <1>8, <1>9

LEMMA PendingFinds ==
  ASSUME NEW t \in Tx, NEW p \in ToSet(Vin[t]), NEW D, NEW f, Fills(p, f, D),
         NEW s, Sound(s, D), p \notin s.overflow
  PROVE  FindsOne(t, p, s, FillFromPending(t, p, f[[s EXCEPT !.inputs[p] = {}]], f), D)
<1> DEFINE q == [s EXCEPT !.inputs[p] = {}]
           i == [s.inputs EXCEPT ![p] = {}]
           g == f[q]
           a == AddActive(p, g.s, f)
           e == [a.s EXCEPT !.pending = @ \ {p}]
<1>1. p \in Tx /\ s \in PoolState  BY Limits DEF Sound
<1>2. s.inputs \in [Tx -> SUBSET Tx] /\ s.overflow \in SUBSET Tx  BY <1>1, Fields
<1>3. i \in [Tx -> SUBSET Tx] /\ \A u \in Tx \ {p} : i[u] = s.inputs[u]  BY <1>1, <1>2
<1>4. q = [s EXCEPT !.inputs = i]  OBVIOUS
<1> HIDE DEF q, i
<1>5. /\ q \in PoolState /\ q.active = s.active /\ q.overflow = s.overflow
      /\ q.inval = s.inval /\ q.inputs = i /\ q.coin = s.coin
  BY <1>1, <1>3, <1>4 DEF PoolState
<1>6. \A u \in q.overflow : Full(u, q)  BY <1>2, <1>3, <1>5 DEF Sound, Full
<1>7. Sound(q, D)  BY <1>5, <1>6 DEF Sound, Clean
<1>8. /\ g \in Result /\ Sound(g.s, D)
      /\ g.ok => Full(p, g.s)
      /\ Widens(q, g.s, Below(p))
  BY <1>5, <1>7 DEF Fills
<1>9. p \in Below(t) /\ Below(p) \subseteq Below(t)  BY BelowIs
<1>10. Widens(s, g.s, Below(t))
  <2>1. Widens(s, q, Below(t))  BY <1>3, <1>5, <1>9 DEF Widens
  <2>2. Widens(q, g.s, Below(t))  BY <1>8, <1>9 DEF Widens
  <2> QED  BY <2>1, <2>2, WidensMore
<1>g. g = f[q]  OBVIOUS
<1> HIDE DEF g
<1>11. CASE ~g.ok \/ p \in NonStandard
  <2>1. FillFromPending(t, p, g, f) = No(g.s)  BY <1>11 DEF FillFromPending
  <2>2. FindsOne(t, p, s, No(g.s), D)  BY <1>8, <1>10, FindsPlain
  <2> QED  BY <1>g, <2>1, <2>2 DEF q
<1>12. CASE g.ok /\ p \notin NonStandard
  <2>1. FillFromPending(t, p, g, f) = FilledByPending(t, p, a)
    BY <1>12 DEF FillFromPending
  <2>2. Acts(a, g.s, D)  BY <1>1, <1>8, <1>12, ActiveSound
  <2> HIDE DEF a
  <2>3. a \in Result /\ Sound(a.s, D) /\ a.s.inputs = g.s.inputs  BY <2>2 DEF Acts
  <2>4. Widens(s, a.s, Below(t))  BY <1>10, <2>3 DEF Widens
  <2>5. CASE a.ok
    <3>1. FilledByPending(t, p, a) = Yes(AddInput(t, p, e))  BY <2>5 DEF FilledByPending
    <3>2. a.s \in PoolState  BY <2>3 DEF Sound
    <3>3. /\ e \in PoolState /\ e.active = a.s.active /\ e.overflow = a.s.overflow
          /\ e.inval = a.s.inval /\ e.inputs = a.s.inputs /\ e.coin = a.s.coin
      BY <3>2 DEF PoolState
    <3> HIDE DEF e
    <3>4. Sound(e, D)  BY <2>3, <3>3 DEF Sound, Full, Clean
    <3>5. Widens(s, e, Below(t))  BY <2>4, <3>3 DEF Widens
    <3>6. FindsOne(t, p, s, Yes(AddInput(t, p, e)), D)  BY <1>1, <3>4, <3>5, FindsInput
    <3> QED  BY <1>g, <2>1, <3>1, <3>6 DEF q
  <2>6. CASE ~a.ok
    <3>1. FilledByPending(t, p, a) = a  BY <2>6 DEF FilledByPending
    <3>2. FindsOne(t, p, s, a, D)  BY <2>3, <2>4, <2>6 DEF FindsOne
    <3> QED  BY <1>g, <2>1, <3>1, <3>2 DEF q
  <2> QED  BY <2>5, <2>6
<1> QED  BY <1>11, <1>12

LEMMA FromFinds ==
  ASSUME NEW t \in Tx, NEW p \in ToSet(Vin[t]), NEW D, NEW f, Fills(p, f, D),
         NEW s, Sound(s, D)
  PROVE  FindsOne(t, p, s, FillFrom(t, p, s, f), D)
<1>1. p \in Tx /\ s \in PoolState  BY Limits DEF Sound
<1>2. Widens(s, s, Below(t))  BY DEF Widens
<1>3. p \in s.inputs[t] => FindsOne(t, p, s, Yes(s), D)  BY <1>2, FindsPlain
<1>4. FindsOne(t, p, s, No(s), D)  BY <1>2, FindsPlain
<1>5. FindsOne(t, p, s, Yes(AddInput(t, p, s)), D)  BY <1>1, <1>2, FindsInput
<1>6. p \in s.overflow =>
        FindsOne(t, p, s, FilledBy(t, p, AddActive(p, RemoveTx(p, s), f)), D)
  BY OverflowFinds
<1>7. p \notin s.overflow =>
        FindsOne(t, p, s, FillFromPending(t, p, f[[s EXCEPT !.inputs[p] = {}]], f), D)
  BY PendingFinds
<1>8. FillFrom(t, p, s, f) =
        IF p \in s.inputs[t] THEN Yes(s)
        ELSE IF p \in s.active \/ ReadTx(s.refs, p) THEN Yes(AddInput(t, p, s))
        ELSE IF p \in s.overflow THEN
          IF ~CheckFinal(p) \/ HasRoom(p, s) THEN No(s)
          ELSE FilledBy(t, p, AddActive(p, RemoveTx(p, s), f))
        ELSE IF p \in s.pending THEN
          FillFromPending(t, p, f[[s EXCEPT !.inputs[p] = {}]], f)
        ELSE No(s)
  BY DEF FillFrom
<1> QED  BY <1>3, <1>4, <1>5, <1>6, <1>7, <1>8

(* The loop.                                                               *)
LEMMA AllFills ==
  ASSUME NEW t \in Tx, NEW D, NEW fills, \A p \in ToSet(Vin[t]) : Fills(p, fills[p], D)
  PROVE  Fills(t, FillAll(t, fills), D)
<1> SUFFICES ASSUME NEW s \in PoolState, Sound(s, D)
             PROVE  /\ FillAll(t, fills)[s] \in Result /\ Sound(FillAll(t, fills)[s].s, D)
                    /\ FillAll(t, fills)[s].ok => Full(t, FillAll(t, fills)[s].s)
                    /\ Full(t, s) => FillAll(t, fills)[s] = Yes(s)
                    /\ Widens(s, FillAll(t, fills)[s].s, Below(t))
  BY DEF Fills
<1> DEFINE f == FillStep(t, fills)
           list == Vin[t]
           base == Yes(s)
           A == {r \in Result : Sound(r.s, D) /\ Widens(s, r.s, Below(t))}
           Done == [p \in ToSet(list) |-> {r \in Result : r.ok => p \in r.s.inputs[t]}]
           a == InTurn(f, list, base)
<1>1. FillAll(t, fills)[s] = a  BY DEF FillAll
<1>2. list \in Seq(Tx) /\ ToSet(list) \subseteq Tx  BY Limits
<1>3. ASSUME NEW p \in ToSet(list), NEW r \in Result
      PROVE  f[p][r] = IF r.ok THEN FillFrom(t, p, r.s, fills[p]) ELSE r
  BY DEF FillStep
<1>4. base \in A
  <2>1. Widens(s, s, Below(t))  BY DEF Widens
  <2> HIDE DEF base
  <2>2. base \in Result /\ base.s = s  BY Results DEF base
  <2> QED  BY <2>1, <2>2
<1>t. t \in Tx \ Below(t)  BY NotBelow
<1> HIDE DEF f
<1>5. ASSUME NEW p \in ToSet(list), NEW r \in A
      PROVE  /\ f[p][r] \in A /\ f[p][r] \in Done[p]
             /\ \A y \in ToSet(list) : r \in Done[y] => f[p][r] \in Done[y]
  <2>1. r \in Result /\ Sound(r.s, D) /\ Widens(s, r.s, Below(t))  OBVIOUS
  <2>2. CASE r.ok
    <3> DEFINE q == FillFrom(t, p, r.s, fills[p])
    <3>1. f[p][r] = q  BY <1>3, <2>1, <2>2
    <3>2. FindsOne(t, p, r.s, q, D)  BY <2>1, FromFinds
    <3> HIDE DEF q
    <3>3. /\ q \in Result /\ Sound(q.s, D)
          /\ q.ok => p \in q.s.inputs[t]
          /\ Widens(r.s, q.s, Below(t))
      BY <3>2 DEF FindsOne
    <3>4. Widens(s, q.s, Below(t))  BY <2>1, <3>3, WidensMore
    <3>5. r.s.inputs[t] \subseteq q.s.inputs[t]  BY <1>t, <3>3 DEF Widens
    <3>6. q \in A /\ q \in Done[p]  BY <3>3, <3>4
    <3>7. \A y \in ToSet(list) : r \in Done[y] => q \in Done[y]  BY <2>2, <3>3, <3>5
    <3> QED  BY <3>1, <3>6, <3>7
  <2>3. CASE ~r.ok
    <3>1. f[p][r] = r  BY <1>3, <2>1, <2>3
    <3>2. r \in Done[p]  BY <2>1, <2>3
    <3> QED  BY <3>1, <3>2
  <2> QED  BY <2>2, <2>3
<1>6. \A x \in ToSet(list) : \A r \in A :
           /\ f[x][r] \in A
           /\ f[x][r] \in Done[x]
           /\ \A y \in ToSet(list) : r \in Done[y] => f[x][r] \in Done[y]
  BY <1>5
<1>7. a \in A /\ \A p \in ToSet(list) : a \in Done[p]
  <2> HIDE DEF A, Done, base, list
  <2> QED  BY <1>2, <1>4, <1>6, InTurnDoes
<1>8. ASSUME Full(t, s) PROVE a = base
  <2>1. ASSUME NEW p \in ToSet(list), NEW r \in {base} PROVE f[p][r] \in {base}
    <3>1. r = base /\ base \in Result /\ base.s = s /\ base.ok  BY Results
    <3> HIDE DEF base
    <3>2. f[p][r] = FillFrom(t, p, s, fills[p])  BY <1>3, <3>1
    <3>3. FillFrom(t, p, s, fills[p]) = Yes(s)  BY <1>8 DEF FillFrom, Full
    <3> QED  BY <3>2, <3>3 DEF base
  <2>2. \A x \in ToSet(list) : \A r \in {base} : f[x][r] \in {base}  BY <2>1
  <2>3. base \in {base}  OBVIOUS
  <2>4. a \in {base}
    <3> HIDE DEF base, list
    <3> QED  BY <1>2, <2>2, <2>3, InTurnKeeps
  <2> QED  BY <2>4
<1> HIDE DEF a
<1>9. a \in Result /\ Sound(a.s, D) /\ Widens(s, a.s, Below(t))  BY <1>7
<1>10. a.ok => Full(t, a.s)
  <2>1. \A p \in ToSet(Vin[t]) : a.ok => p \in a.s.inputs[t]  BY <1>7
  <2> QED  BY <2>1 DEF Full
<1> QED  BY <1>1, <1>8, <1>9, <1>10

LEMMA FillGood ==
  ASSUME NEW D
  PROVE  \A t \in Tx : Fills(t, Fill[t], D)
<1> DEFINE S == {t \in Tx : ~Fills(t, Fill[t], D)}
<1> SUFFICES ASSUME S # {} PROVE FALSE  OBVIOUS
<1>1. S \in SUBSET Tx  OBVIOUS
<1> HIDE DEF S
<1>2. PICK t \in S : ToSet(Vin[t]) \cap S = {}  BY <1>1, PoolAssumption
<1> DEFINE fills == [p \in ToSet(Vin[t]) |-> Fill[p]]
<1>3. t \in Tx /\ ToSet(Vin[t]) \subseteq Tx  BY <1>1, <1>2, Limits
<1>4. \A p \in ToSet(Vin[t]) : Fills(p, Fill[p], D)  BY <1>2, <1>3 DEF S
<1>5. \A p \in ToSet(Vin[t]) : Fills(p, fills[p], D)  BY <1>4
<1>6. Fill[t] = FillAll(t, fills)  BY <1>3, FillIs
<1> HIDE DEF fills
<1>7. Fills(t, FillAll(t, fills), D)  BY <1>3, <1>5, AllFills
<1>8. Fills(t, Fill[t], D)  BY <1>6, <1>7
<1> QED  BY <1>2, <1>8 DEF S

-----------------------------------------------------------------------------
(* The handlers that use them.                                             *)

(* A handler that keeps the pool sound, and one that looks for no inputs.  *)
Safe(s, r, D) == Sound(r, D) /\ r.inputs = s.inputs

LEMMA AddActiveSafe ==
  ASSUME NEW t \in Tx, NEW D, NEW s, Sound(s, D), Full(t, s)
  PROVE  Safe(s, AddActiveTx(t, s).s, D)
<1>1. Fills(t, Fill[t], D)  BY FillGood
<1>2. Acts(AddActive(t, s, Fill[t]), s, D)  BY <1>1, ActiveSound
<1> QED  BY <1>2 DEF Acts, Safe, AddActiveTx

LEMMA Orders ==
  ASSUME NEW order \in SortOrders
  PROVE  order \in Seq(Tx) /\ ToSet(order) \subseteq Tx
<1>1. PoolTx \in SUBSET Tx /\ IsFiniteSet(PoolTx)  BY Limits, FS_Subset
<1>2. Cardinality(PoolTx) \in Nat  BY <1>1, FS_CardinalityType
<1>3. order \in [1 .. Cardinality(PoolTx) -> PoolTx]  BY DEF SortOrders, SetToSeqs
<1>4. order \in Seq(Tx)  BY <1>1, <1>2, <1>3
<1> QED  BY <1>4, Elements

(* PurgeActiveTx.                                                          *)
LEMMA TakeBackSafe ==
  ASSUME NEW order \in SortOrders, NEW D, NEW s, Sound(s, D)
  PROVE  Safe(s, TakeBack(s, order), D)
<1> DEFINE fit == {i \in DOMAIN order : /\ order[i] \in s.overflow
                                        /\ CheckFinal(order[i])
                                        /\ HasRoom(order[i], s)}
           back == order[Min(fit)]
<1>1. CASE fit = {}
  <2>1. TakeBack(s, order) = s  BY <1>1 DEF TakeBack
  <2> QED  BY <2>1 DEF Safe
<1>2. CASE fit # {}
  <2>1. TakeBack(s, order) = AddActiveTx(back, RemoveTx(back, s)).s  BY <1>2 DEF TakeBack
  <2>2. order \in Seq(Tx)  BY Orders
  <2>3. DOMAIN order \subseteq Nat  BY <2>2, Elements
  <2>4. Min(fit) \in fit
    <3>1. fit \in SUBSET Nat  BY <2>3
    <3> HIDE DEF fit
    <3> QED  BY <1>2, <3>1, MinIn
  <2>5. back \in s.overflow  BY <2>4
  <2>6. s \in PoolState /\ s.overflow \in SUBSET Tx  BY Fields DEF Sound
  <2> HIDE DEF back
  <2>7. Eases(s, RemoveTx(back, s))  BY <2>5, <2>6, RemoveEases
  <2> DEFINE q == RemoveTx(back, s)
  <2>8. Sound(q, D) /\ q.inputs = s.inputs  BY <2>7, Eased
  <2>9. Full(back, q)  BY <2>5, <2>8 DEF Sound, Full
  <2> HIDE DEF q
  <2>10. Safe(q, AddActiveTx(back, q).s, D)  BY <2>5, <2>6, <2>8, <2>9, AddActiveSafe
  <2> QED  BY <2>1, <2>8, <2>10 DEF Safe, q
<1> QED  BY <1>1, <1>2

LEMMA PurgeActiveSafe ==
  ASSUME NEW order \in SortOrders, NEW D, NEW s, Sound(s, D)
  PROVE  Safe(s, PurgeActiveTx(s, order), D)
<1> DEFINE q == TakeBack(s, order)
<1>1. Safe(s, q, D)  BY TakeBackSafe
<1> HIDE DEF q
<1>2. Sound(q, D) /\ q \in PoolState /\ q.inputs = s.inputs  BY <1>1 DEF Safe, Sound
<1>3. Eases(q, Expire(q))  BY <1>2, ExpireEases
<1>4. Sound(Expire(q), D) /\ Expire(q).inputs = q.inputs  BY <1>2, <1>3, Eased
<1> QED  BY <1>2, <1>4 DEF Safe, PurgeActiveTx, q

(* PurgeOverflowTx.                                                        *)
WeighedState == [s : PoolState, weight : Nat]

LEMMA TryActiveSound ==
  ASSUME NEW S, NEW t \in Tx, NEW D, NEW r \in WeighedState, Sound(r.s, D)
  PROVE  TryActive(S, t, r) \in WeighedState /\ Sound(TryActive(S, t, r).s, D)
<1>1. CASE t \notin S \cap r.s.overflow \/ r.weight + Weight[t] > MaxWeight
  <2>1. TryActive(S, t, r) = r  BY <1>1 DEF TryActive
  <2> QED  BY <2>1
<1>2. CASE ~(t \notin S \cap r.s.overflow \/ r.weight + Weight[t] > MaxWeight)
  <2> DEFINE a == AddActiveTx(t, r.s).s
             w == r.weight + IF t \in a.active THEN Weight[t] ELSE 0
  <2>1. TryActive(S, t, r) = [s |-> a, weight |-> w]  BY <1>2 DEF TryActive, Weighed
  <2>2. Full(t, r.s)  BY <1>2 DEF Sound
  <2>3. Safe(r.s, a, D)  BY <2>2, AddActiveSafe
  <2> HIDE DEF a
  <2>4. Sound(a, D) /\ a \in PoolState  BY <2>3 DEF Safe, Sound
  <2>5. w \in Nat
    <3>1. r.weight \in Nat /\ Weight[t] \in Nat  BY Limits DEF WeighedState
    <3> QED  BY <3>1
  <2> HIDE DEF w
  <2> QED  BY <2>1, <2>4, <2>5 DEF WeighedState
<1> QED  BY <1>1, <1>2

LEMMA PurgeOverflowSound ==
  ASSUME NEW order \in SortOrders, NEW D, NEW s, Sound(s, D)
  PROVE  Sound(PurgeOverflowTx(s, order), D)
<1> DEFINE keep == {t \in s.overflow : t \in s.local \/ s.age[t] < OverflowSpan}
           due == {t \in keep : CheckFinal(t)}
           f == [t \in Tx |-> [r \in WeighedState |-> TryActive(due, t, r)]]
           q == [s EXCEPT !.overflow = keep]
           base == [s |-> q, weight |-> TotalWeight(s.active)]
           A == {r \in WeighedState : Sound(r.s, D)}
<1>1. PurgeOverflowTx(s, order) = InTurn(f, order, base).s
  BY DEF PurgeOverflowTx, WeighedState
<1>2. s \in PoolState /\ s.active \in SUBSET Tx /\ s.overflow \in SUBSET Tx
  BY Fields DEF Sound
<1>3. keep \subseteq s.overflow  OBVIOUS
<1> HIDE DEF keep
<1>4. /\ q \in PoolState /\ q.active = s.active /\ q.overflow = keep
      /\ q.inval = s.inval /\ q.inputs = s.inputs /\ q.coin = s.coin
  BY <1>2, <1>3 DEF PoolState
<1> HIDE DEF q, due
<1>5. Sound(q, D)  BY <1>3, <1>4 DEF Sound, Full, Clean
<1>6. TotalWeight(s.active) \in Nat  BY <1>2, Weights
<1>7. base \in A  BY <1>4, <1>5, <1>6 DEF WeighedState
<1>8. order \in Seq(Tx) /\ ToSet(order) \subseteq Tx  BY Orders
<1>9. ASSUME NEW t \in Tx, NEW r \in A PROVE f[t][r] \in A
  <2>1. f[t][r] = TryActive(due, t, r)  OBVIOUS
  <2>2. TryActive(due, t, r) \in WeighedState /\ Sound(TryActive(due, t, r).s, D)
    BY TryActiveSound
  <2> QED  BY <2>1, <2>2
<1>10. \A x \in ToSet(order) : \A r \in A : f[x][r] \in A  BY <1>8, <1>9
<1>11. InTurn(f, order, base) \in A
  <2> HIDE DEF A, f, base
  <2> QED  BY <1>7, <1>8, <1>10, InTurnKeeps
<1> QED  BY <1>1, <1>11

(* AddTx.                                                                  *)
LEMMA EnqueueSound ==
  ASSUME NEW order \in SortOrders, NEW D, NEW t \in Tx, NEW f, Sound(f.s, D),
         f.ok => Full(t, f.s)
  PROVE  Sound(Enqueue(t, f, order), D)
<1> DEFINE s == f.s
           q == PurgeActiveTx(s, order)
<1>1. Sound(AddInvalTx(t, s), D)  BY InvalSound
<1>2. Sound(AddPendingTx(t, s), D)
  <2>1. Eases(s, AddPendingTx(t, s))  BY PendingEases DEF Sound
  <2> QED  BY <2>1, Eased
<1>3. f.ok => Sound(AddOverflowTx(t, s).s, D)  BY OverflowSound DEF Acts
<1>4. ASSUME f.ok PROVE Sound(AddActiveTx(t, q).s, D)
  <2>1. Sound(q, D) /\ q.inputs = s.inputs  BY PurgeActiveSafe DEF Safe
  <2>2. Full(t, q)  BY <1>4, <2>1 DEF Full
  <2> HIDE DEF q
  <2> QED  BY <2>1, <2>2, AddActiveSafe DEF Safe
<1>5. Enqueue(t, f, order) =
        IF t \in OverLimit THEN AddInvalTx(t, s)
        ELSE IF ~f.ok THEN AddPendingTx(t, s)
        ELSE IF t \in NonStandard THEN AddInvalTx(t, s)
        ELSE IF t \in LowFee \/ ~CheckFinal(t) THEN AddOverflowTx(t, s).s
        ELSE AddActiveTx(t, q).s
  BY DEF Enqueue
<1> HIDE DEF q, s
<1> QED  BY <1>1, <1>2, <1>3, <1>4, <1>5

LEMMA AddTxSound ==
  ASSUME NEW order \in SortOrders, NEW D, NEW t \in Tx, NEW isLocal, NEW s, Sound(s, D)
  PROVE  Sound(AddTx(t, isLocal, s, order), D)
<1> DEFINE l == IF isLocal THEN s.local \cup {t} ELSE s.local \ {t}
           i == [s.inputs EXCEPT ![t] = {}]
           g == [s.age EXCEPT ![t] = 0]
           q == [s EXCEPT !.inputs = i, !.age = g, !.local = l]
           f == PoolFillInputs(t, q)
<1>1. CASE t \in s.inval \cup Pooled(s) \/ ReadTx(s.refs, t)
  <2>1. AddTx(t, isLocal, s, order) = s  BY <1>1 DEF AddTx
  <2> QED  BY <2>1
<1>2. CASE ~(t \in s.inval \cup Pooled(s) \/ ReadTx(s.refs, t))
  <2>1. AddTx(t, isLocal, s, order) = Enqueue(t, f, order)  BY <1>2 DEF AddTx
  <2>2. s \in PoolState  BY DEF Sound
  <2>3. /\ s.local \in SUBSET Tx /\ s.inputs \in [Tx -> SUBSET Tx] /\ s.overflow \in SUBSET Tx
        /\ s.age \in [Tx -> 0 .. PendingSpan]
    BY <2>2, Fields
  <2>4. l \in SUBSET Tx  BY <2>3
  <2>5. i \in [Tx -> SUBSET Tx] /\ \A u \in Tx \ {t} : i[u] = s.inputs[u]  BY <2>3
  <2>6. g \in [Tx -> 0 .. PendingSpan]  BY <2>3 DEF PendingSpan
  <2> HIDE DEF l, i, g
  <2>7. /\ q \in PoolState /\ q.active = s.active /\ q.overflow = s.overflow
        /\ q.inval = s.inval /\ q.inputs = i /\ q.coin = s.coin
    BY <2>2, <2>4, <2>5, <2>6 DEF PoolState
  <2>8. t \notin s.overflow  BY <1>2 DEF Pooled
  <2> HIDE DEF q
  <2>9. \A u \in q.overflow : Full(u, q)  BY <2>3, <2>5, <2>7, <2>8 DEF Sound, Full
  <2>10. Sound(q, D)  BY <2>7, <2>9 DEF Sound, Clean
  <2>11. Fills(t, Fill[t], D)  BY FillGood
  <2>12. Sound(f.s, D) /\ (f.ok => Full(t, f.s))
    BY <2>7, <2>10, <2>11 DEF Fills, PoolFillInputs
  <2> HIDE DEF f
  <2> QED  BY <2>1, <2>12, EnqueueSound
<1> QED  BY <1>1, <1>2

(* The pool through a commit.                                              *)
LEMMA CommitSound ==
  ASSUME NEW order \in SortOrders, NEW D, NEW b \in Block, NEW s, Sound(s, D)
  PROVE  Sound(Commit(b, s, order), D) /\ Sound(Commit(b, s, order), D \ InputsOf(b))
<1> DEFINE q == PopTxsOf(b, s)
           r == RemoveInputsOf(b, q)
<1>1. s \in PoolState  BY DEF Sound
<1>2. Eases(s, q) /\ q \in PoolState  BY <1>1, PopsEase
<1>3. Sound(q, D)  BY <1>2, Eased
<1> HIDE DEF q
<1>4. Eases(q, r) /\ NoneSpends(r, InputsOf(b))  BY <1>2, BlockEases
<1>5. Sound(r, D)  BY <1>3, <1>4, Eased
<1>6. Sound(r, D \ InputsOf(b))  BY <1>4, <1>5, FreeSound
<1>7. Commit(b, s, order) = PurgeOverflowTx(r, order)  BY DEF Commit, q
<1> HIDE DEF r
<1> QED  BY <1>5, <1>6, <1>7, PurgeOverflowSound

LEMMA ReaddTxsSound ==
  ASSUME NEW order \in SortOrders, NEW D, NEW b \in Block, NEW s, Sound(s, D)
  PROVE  Sound(ReaddTxs(b, s, order), D)
<1> DEFINE f == [t \in Tx |-> [r \in PoolState |->
                   IF Coinbase(t) THEN r ELSE AddTx(t, TRUE, r, order)]]
           A == {r \in PoolState : Sound(r, D)}
<1>1. ReaddTxs(b, s, order) = InTurn(f, Vtx[b], s)  BY DEF ReaddTxs
<1>2. Vtx[b] \in Seq(Tx) /\ ToSet(Vtx[b]) \subseteq Tx  BY Limits DEF Txs
<1>3. s \in A  BY DEF Sound
<1>4. ASSUME NEW t \in Tx, NEW r \in A PROVE f[t][r] \in A
  <2>1. f[t][r] = r \/ f[t][r] = AddTx(t, TRUE, r, order)  OBVIOUS
  <2>2. Sound(AddTx(t, TRUE, r, order), D)  BY AddTxSound
  <2>3. AddTx(t, TRUE, r, order) \in PoolState  BY <2>2 DEF Sound
  <2> HIDE DEF f
  <2> QED  BY <2>1, <2>2, <2>3
<1>5. \A t \in ToSet(Vtx[b]) : \A r \in A : f[t][r] \in A  BY <1>2, <1>4
<1>6. InTurn(f, Vtx[b], s) \in A
  <2> HIDE DEF f, A
  <2> QED  BY <1>2, <1>3, <1>5, InTurnKeeps
<1> QED  BY <1>1, <1>6

LEMMA ReaddSound ==
  ASSUME NEW order \in SortOrders, NEW D, NEW s, Sound(s, D), job.discon \in SUBSET Block
  PROVE  Sound(Readd(s, order), D)
<1> DEFINE f == [b \in Block |-> [r \in PoolState |-> ReaddTxs(b, r, order)]]
           up == Ascending(job.discon)
           list == Reverse(up)
           A == {r \in PoolState : Sound(r, D)}
<1>1. Readd(s, order) = InTurn(f, list, s)  BY DEF Readd
<1>2. up \in Seq(Block)
  <2>1. up \in Seq(job.discon)  BY AscendingLists
  <2> HIDE DEF up
  <2> QED  BY <2>1
<1>3. list \in Seq(Block)
  <2> HIDE DEF up
  <2>1. Len(up) \in Nat /\ \A i \in 1 .. Len(up) : up[i] \in Block  BY <1>2, Elements
  <2>2. \A i \in 1 .. Len(up) : (Len(up) - i) + 1 \in 1 .. Len(up)  BY <2>1
  <2>3. list \in [1 .. Len(up) -> Block]  BY <2>1, <2>2 DEF Reverse
  <2> HIDE DEF list
  <2> QED  BY <2>1, <2>3
<1> HIDE DEF up, list
<1>4. ToSet(list) \subseteq Block  BY <1>3, Elements
<1>5. s \in A  BY DEF Sound
<1>6. ASSUME NEW b \in Block, NEW r \in A PROVE f[b][r] \in A
  <2>1. f[b][r] = ReaddTxs(b, r, order)  OBVIOUS
  <2>2. Sound(ReaddTxs(b, r, order), D)  BY ReaddTxsSound
  <2>3. ReaddTxs(b, r, order) \in PoolState  BY <2>2 DEF Sound
  <2> QED  BY <2>1, <2>2, <2>3
<1>7. \A b \in ToSet(list) : \A r \in A : f[b][r] \in A  BY <1>4, <1>6
<1>8. InTurn(f, list, s) \in A
  <2> HIDE DEF f, A
  <2> QED  BY <1>3, <1>5, <1>7, InTurnKeeps
<1> QED  BY <1>1, <1>8

(* A commit leaves nothing in the pool that spends what it has marked.     *)
LEMMA CommitPoolSound ==
  ASSUME NEW order \in SortOrders, NEW D, NEW s, Sound(s, D), job.discon \in SUBSET Block,
         job.con \in SUBSET Block, job.new \in Block
  PROVE  /\ Sound(CommitPool(s, order), D)
         /\ \A b \in job.con : Sound(CommitPool(s, order), D \ InputsOf(b))
<1> DEFINE f == [b \in Block |-> [r \in PoolState |-> Commit(b, r, order)]]
           list == Ascending(job.con)
           base == Readd(s, order)
           A == {r \in PoolState : Sound(r, D)}
           Done == [b \in Block |-> {r \in PoolState : Sound(r, D \ InputsOf(b))}]
           q == InTurn(f, list, base)
           r == RemoveInputsOf(job.new, q)
<1>1. CommitPool(s, order) = r  BY DEF CommitPool
<1>2. list \in Seq(job.con) /\ ToSet(list) = job.con  BY AscendingLists
<1>3. base \in A
  <2>1. Sound(base, D)  BY ReaddSound
  <2> QED  BY <2>1 DEF Sound
<1>4. ASSUME NEW b \in Block, NEW x \in A
      PROVE  /\ f[b][x] \in A /\ f[b][x] \in Done[b]
             /\ \A y \in Block : x \in Done[y] => f[b][x] \in Done[y]
  <2> DEFINE z == Commit(b, x, order)
  <2>1. f[b][x] = z  OBVIOUS
  <2>2. Sound(z, D) /\ Sound(z, D \ InputsOf(b))  BY CommitSound
  <2>3. ASSUME NEW y \in Block, Sound(x, D \ InputsOf(y)) PROVE Sound(z, D \ InputsOf(y))
    BY <2>3, CommitSound
  <2>4. z \in PoolState  BY <2>2 DEF Sound
  <2> HIDE DEF z, f
  <2> QED  BY <2>1, <2>2, <2>3, <2>4
<1>5. \A b \in ToSet(list) : \A x \in A :
           /\ f[b][x] \in A
           /\ f[b][x] \in Done[b]
           /\ \A y \in ToSet(list) : x \in Done[y] => f[b][x] \in Done[y]
  BY <1>2, <1>4
<1>6. q \in A /\ \A b \in ToSet(list) : q \in Done[b]
  <2> HIDE DEF f, list, base, A, Done
  <2> QED  BY <1>2, <1>3, <1>5, InTurnDoes
<1> HIDE DEF q
<1>7. q \in PoolState /\ Sound(q, D) /\ \A b \in job.con : Sound(q, D \ InputsOf(b))
  <2> HIDE DEF list
  <2> QED  BY <1>2, <1>6
<1>8. Eases(q, r)  BY <1>7, BlockEases
<1> HIDE DEF r
<1> QED  BY <1>1, <1>7, <1>8, Eased

-----------------------------------------------------------------------------
(* Steps.                                                                  *)

(* The pool as variables.                                                  *)
LEMMA NowIs ==
  /\ Now.active = active /\ Now.overflow = overflow /\ Now.inval = inval
  /\ Now.pending = pending /\ Now.stale = stale /\ Now.local = local
  /\ Now.inputs = inputs /\ Now.age = age /\ Now.coin = coin /\ Now.refs = txdb
  BY DEF Now

LEMMA NextIs ==
  /\ Now'.active = active' /\ Now'.overflow = overflow' /\ Now'.inval = inval'
  /\ Now'.pending = pending' /\ Now'.stale = stale' /\ Now'.local = local'
  /\ Now'.inputs = inputs' /\ Now'.age = age' /\ Now'.coin = coin' /\ Now'.refs = txdb'
  BY DEF Now

(* Sound says of the marks what Clean says.                                *)
LEMMA SoundParts ==
  ASSUME NEW s
  PROVE  /\ \A D, E : Sound(s, D) /\ Clean(s, E) => Sound(s, E)
         /\ \A D : Sound(s, D) => Clean(s, D) /\ Sound(s, Tx)
<1>1. ASSUME NEW D, NEW E, Sound(s, D), Clean(s, E) PROVE Sound(s, E)  BY <1>1 DEF Sound
<1>2. ASSUME NEW D, Sound(s, D) PROVE Clean(s, D) /\ Sound(s, Tx)
  <2>1. s \in PoolState /\ s.active \in SUBSET Tx  BY <1>2, Fields DEF Sound
  <2>2. Clean(s, Tx)  BY <2>1, Limits DEF Clean
  <2>3. Sound(s, Tx)  BY <1>1, <1>2, <2>2
  <2> QED  BY <1>2, <2>3 DEF Sound
<1> QED  BY <1>1, <1>2

(* The state that a handler leaves becomes the state of the pool.          *)
LEMMA BecomesSound ==
  ASSUME NEW r, NEW D, Sound(r, D), Becomes(r)
  PROVE  Sound(Now', D) /\ coin' \in CoinMap /\ txdb' \in RefMap
<1> DEFINE q == Now'
           i == [t \in Tx |-> IF t \in Pooled(r) THEN r.inputs[t] ELSE {}]
           g == [t \in Tx |-> IF t \in Pooled(r) THEN r.age[t] ELSE 0]
<1>1. r \in PoolState  BY DEF Sound
<1>2. /\ r.active \in SUBSET Tx /\ r.pending \in SUBSET Tx
      /\ r.overflow \in SUBSET Tx /\ r.stale \in SUBSET Tx
      /\ r.inval \in SUBSET Tx /\ r.local \in SUBSET Tx
      /\ r.inputs \in [Tx -> SUBSET Tx] /\ r.age \in [Tx -> 0 .. PendingSpan]
      /\ r.coin \in CoinMap /\ r.refs \in RefMap
  BY <1>1, Fields
<1>3. i \in [Tx -> SUBSET Tx] /\ \A t \in r.overflow : i[t] = r.inputs[t]
  BY <1>2 DEF Pooled
<1>4. g \in [Tx -> 0 .. PendingSpan]  BY <1>2 DEF PendingSpan
<1>5. /\ active' = r.active /\ pending' = r.pending /\ overflow' = r.overflow
      /\ stale' = r.stale /\ inval' = r.inval /\ inputs' = i
      /\ local' = r.local \cap Pooled(r) /\ age' = g /\ coin' = r.coin /\ txdb' = r.refs
  BY DEF Becomes
<1> HIDE DEF i, g
<1>6. local' \in SUBSET Tx  BY <1>2, <1>5
<1>7. q = [active |-> active', pending |-> pending', overflow |-> overflow',
           stale |-> stale', inval |-> inval', inputs |-> inputs', local |-> local',
           age |-> age', coin |-> coin', refs |-> txdb']
  BY DEF Now
<1> HIDE DEF q
<1>8. q \in PoolState
  BY <1>2, <1>3, <1>4, <1>5, <1>6, <1>7 DEF PoolState, CoinMap, RefMap
<1>9. /\ q.active = r.active /\ q.overflow = r.overflow /\ q.inval = r.inval
      /\ q.inputs = i /\ q.coin = r.coin
  BY <1>5, <1>7
<1>10. \A t \in q.overflow : Full(t, q)  BY <1>3, <1>9 DEF Sound, Full
<1>11. Sound(q, D)  BY <1>8, <1>9, <1>10 DEF Sound, Clean
<1> QED  BY <1>2, <1>5, <1>11 DEF q

(* A step of the chain, which leaves the queues as they are.               *)
LEMMA QueuesSound ==
  ASSUME Sound(Now, Tx), UNCHANGED <<active, pending, overflow, stale, inval, inputs, local>>,
         age' \in [Tx -> 0 .. PendingSpan], coin' \in CoinMap, txdb' \in RefMap,
         NEW D, Clean(Now', D)
  PROVE  Sound(Now', D)
<1> DEFINE q == Now'
           s == Now
<1>1. s \in PoolState  BY DEF Sound
<1>2. /\ s.active = active /\ s.overflow = overflow /\ s.inval = inval
      /\ s.pending = pending /\ s.stale = stale /\ s.local = local /\ s.inputs = inputs
  BY NowIs
<1>3. q = [active |-> active', pending |-> pending', overflow |-> overflow',
           stale |-> stale', inval |-> inval', inputs |-> inputs', local |-> local',
           age |-> age', coin |-> coin', refs |-> txdb']
  BY DEF Now
<1>d. Sound(s, Tx) /\ Clean(q, D)  OBVIOUS
<1> HIDE DEF q, s
<1>4. /\ active' = s.active /\ pending' = s.pending /\ overflow' = s.overflow
      /\ stale' = s.stale /\ inval' = s.inval /\ local' = s.local /\ inputs' = s.inputs
  BY <1>2
<1>5. /\ active' \in SUBSET Tx /\ pending' \in SUBSET Tx /\ overflow' \in SUBSET Tx
      /\ stale' \in SUBSET Tx /\ inval' \in SUBSET Tx /\ local' \in SUBSET Tx
      /\ inputs' \in [Tx -> SUBSET Tx]
  BY <1>1, <1>4, Fields
<1>6. q \in PoolState  BY <1>3, <1>5 DEF PoolState, CoinMap, RefMap
<1>7. q.active = s.active /\ q.overflow = s.overflow /\ q.inval = s.inval /\ q.inputs = s.inputs
  BY <1>3, <1>4
<1>8. Sound(q, D)  BY <1>d, <1>6, <1>7 DEF Sound, Full
<1> QED  BY <1>8 DEF q

LEMMA AllClean ==
  ASSUME Sound(Now, Tx), active' = active
  PROVE  Clean(Now', Tx)
<1>1. Now \in PoolState  BY DEF Sound
<1>2. active \in SUBSET Tx  BY <1>1, Fields, NowIs
<1> QED  BY <1>2, NextIs, Limits DEF Clean

LEMMA TypeQueues ==
  ASSUME TypeInv, UNCHANGED <<memory, blkdb, arch, tip, crashes, torn>>,
         coin' \in CoinMap, txdb' \in RefMap
  PROVE  TypeInv'
<1>1. UNCHANGED <<index, pprev, pnext, cwork, status, best, bestWork, orphan, scan, job,
                  blkdb, arch, tip, crashes, torn>>
  BY DEF memory
<1> QED  BY <1>1 DEF TypeInv, TypeOK, IndexOK, DbOK, JobOK, CoinMap, RefMap

(* What the running commit may have marked is a set of transactions.       *)
LEMMA DueIs ==
  ASSUME PoolInv
  PROVE  /\ Sound(Now, Tx) /\ TypeInv /\ ticks \in 0 .. MaxTick
         /\ UnspentInv => Sound(Now, Due)
  BY SoundParts DEF PoolInv, UnspentInv

(* A transaction is submitted, or removed by hand.                         *)
LEMMA SubmitSound ==
  ASSUME PoolInv, NEW order \in SortOrders, NEW t \in PoolTx, SubmitTx(t, order),
         NEW D, Sound(Now, D)
  PROVE  TypeInv' /\ Sound(Now', D)
<1> DEFINE r == AddTx(t, t \in Own, Now, order)
<1>1. Becomes(r) /\ UNCHANGED <<memory, blkdb, arch, tip, crashes, torn, ticks>>
  BY DEF SubmitTx
<1>2. t \in Tx  BY Limits
<1>3. Sound(r, D)  BY <1>2, AddTxSound
<1> HIDE DEF r
<1>4. Sound(Now', D) /\ coin' \in CoinMap /\ txdb' \in RefMap  BY <1>1, <1>3, BecomesSound
<1>5. TypeInv  BY DueIs
<1>6. TypeInv'  BY <1>1, <1>4, <1>5, TypeQueues
<1> QED  BY <1>4, <1>6

LEMMA UnacceptSound ==
  ASSUME PoolInv, NEW t \in PoolTx, UnacceptTx(t), NEW D, Sound(Now, D)
  PROVE  TypeInv' /\ Sound(Now', D)
<1> DEFINE q == RemoveTx(t, Now)
           r == [q EXCEPT !.coin[t] = None]
           c == [q.coin EXCEPT ![t] = None]
<1>1. Becomes(r) /\ UNCHANGED <<memory, blkdb, arch, tip, crashes, torn, ticks>>
  BY DEF UnacceptTx
<1>2. t \in Tx /\ Now \in PoolState  BY Limits DEF Sound
<1>3. Eases(Now, q) /\ q \in PoolState  BY <1>2, RemoveEases
<1>4. Sound(q, D)  BY <1>3, Eased
<1> HIDE DEF q
<1>5. q.coin \in CoinMap  BY <1>3, Fields
<1>6. c \in CoinMap /\ \A p \in Tx : c[p] = q.coin[p] \/ c[p] = None
  BY <1>2, <1>5 DEF CoinMap
<1>7. r = [q EXCEPT !.coin = c]  OBVIOUS
<1> HIDE DEF r, c
<1>8. /\ r \in PoolState /\ r.active = q.active /\ r.overflow = q.overflow
      /\ r.inval = q.inval /\ r.inputs = q.inputs /\ r.coin = c
  BY <1>3, <1>6, <1>7 DEF PoolState, CoinMap
<1>9. Eases(q, r)  BY <1>6, <1>8 DEF Eases
<1>10. Sound(r, D)  BY <1>4, <1>9, Eased
<1>11. Sound(Now', D) /\ coin' \in CoinMap /\ txdb' \in RefMap  BY <1>1, <1>10, BecomesSound
<1>12. TypeInv  BY DueIs
<1>13. TypeInv'  BY <1>1, <1>11, <1>12, TypeQueues
<1> QED  BY <1>11, <1>13

(* A commit ends.  What it has marked, no active transaction spends, when  *)
(* every block has connected.                                              *)
LEMMA FinishSound ==
  ASSUME PoolInv, NEW order \in SortOrders, FinishPool(order), NEW D, Sound(Now, D)
  PROVE  /\ TypeInv' /\ Sound(Now', D)
         /\ job.fail = None => \A b \in job.con : Sound(Now', D \ InputsOf(b))
<1> DEFINE r == IF job.fail = None THEN CommitPool(Now, order) ELSE Now
<1>1. EndCommit /\ Becomes(r)  BY DEF FinishPool
<1>2. TypeInv  BY DueIs
<1>3. job.discon \in SUBSET Block /\ job.con \in SUBSET Block
  BY <1>2, JobFields DEF TypeInv
<1>4. job.new \in Block
  <2>1. job.new # None  BY <1>1 DEF EndCommit
  <2> QED  BY <1>2, <2>1, JobFields DEF TypeInv
<1>5. /\ Sound(CommitPool(Now, order), D)
      /\ \A b \in job.con : Sound(CommitPool(Now, order), D \ InputsOf(b))
  BY <1>3, <1>4, CommitPoolSound
<1>6. /\ Sound(r, D)
      /\ job.fail = None => \A b \in job.con : Sound(r, D \ InputsOf(b))
  BY <1>5
<1> HIDE DEF r
<1>7. Sound(Now', D) /\ coin' \in CoinMap /\ txdb' \in RefMap  BY <1>1, <1>6, BecomesSound
<1>8. ASSUME job.fail = None, NEW b \in job.con PROVE Sound(Now', D \ InputsOf(b))
  BY <1>1, <1>6, <1>8, BecomesSound
<1>9. TypeInv'  BY <1>1, <1>2, <1>7, TypeEnd
<1> QED  BY <1>7, <1>8, <1>9

(* Time passes.                                                            *)
LEMMA TickSound ==
  ASSUME PoolInv, NEW n \in {ActiveSpan, OverflowSpan, PendingSpan}, Tick(n),
         NEW D, Sound(Now, D)
  PROVE  TypeInv' /\ Sound(Now', D) /\ ticks' \in 0 .. MaxTick
<1>1. /\ ticks < MaxTick /\ ticks' = ticks + 1
      /\ age' = [t \in Tx |-> IF t \in Pooled(Now) THEN Min({age[t] + n, PendingSpan}) ELSE 0]
      /\ UNCHANGED <<vars, active, pending, overflow, stale, inval, inputs, local>>
  BY DEF Tick
<1>2. TypeInv /\ ticks \in 0 .. MaxTick /\ Sound(Now, Tx)  BY DueIs
<1>3. TypeInv'  BY <1>1, <1>2, TypeStutter
<1>4. n \in Nat /\ PendingSpan = 4  BY DEF ActiveSpan, OverflowSpan, PendingSpan
<1>5. age \in [Tx -> 0 .. PendingSpan]
  <2>1. Now \in PoolState  BY DEF Sound
  <2> QED  BY <2>1, Fields, NowIs
<1>6. ASSUME NEW t \in Tx PROVE Min({age[t] + n, PendingSpan}) \in 0 .. PendingSpan
  <2> DEFINE S == {age[t] + n, PendingSpan}
  <2>1. S \in SUBSET Nat /\ S # {} /\ PendingSpan \in S
    <3>1. age[t] \in Nat /\ PendingSpan \in Nat  BY <1>4, <1>5
    <3> QED  BY <1>4, <3>1
  <2>2. PendingSpan \in Nat  BY <1>4
  <2> HIDE DEF S
  <2>3. Min(S) \in S /\ Min(S) <= PendingSpan  BY <2>1, MinIn
  <2>4. Min(S) \in 0 .. PendingSpan
    <3> DEFINE m == Min(S)
    <3>1. m \in Nat /\ m <= PendingSpan  BY <2>1, <2>3
    <3> HIDE DEF m
    <3>2. m \in 0 .. PendingSpan  BY <2>2, <3>1
    <3> QED  BY <3>2 DEF m
  <2> QED  BY <2>4 DEF S
<1>7. age' \in [Tx -> 0 .. PendingSpan]
  <2>1. 0 \in 0 .. PendingSpan  BY <1>4
  <2> QED  BY <1>1, <1>6, <2>1
<1>8. coin' = coin /\ txdb' = txdb  BY <1>1 DEF vars, disk
<1>9. coin' \in CoinMap /\ txdb' \in RefMap
  BY <1>2, <1>8 DEF TypeInv, TypeOK, CoinMap, RefMap
<1>10. Clean(Now', D)
  <2>1. Clean(Now, D)  BY DEF Sound
  <2> QED  BY <1>1, <1>8, <2>1, NowIs, NextIs DEF Clean
<1>11. Sound(Now', D)  BY <1>1, <1>2, <1>7, <1>9, <1>10, QueuesSound
<1>12. ticks' \in 0 .. MaxTick
  <2>1. ticks < MaxTick /\ ticks' = ticks + 1 /\ MaxTick \in Nat  BY <1>1, Limits
  <2> QED  BY <1>2, <2>1
<1> QED  BY <1>3, <1>11, <1>12

(* The steps of the chain.                                                 *)
LEMMA ChainStepSound ==
  ASSUME PoolInv, ChainStep
  PROVE  TypeInv' /\ Sound(Now', Tx)
<1>1. TypeInv /\ Sound(Now, Tx)  BY DueIs
<1>2. UNCHANGED <<active, pending, overflow, stale, inval, inputs, local, age>>
  BY DEF ChainStep, queues
<1>3. TypeInv'
  <2>1. CASE \E b \in Block \ {Genesis} : ProcessBlock(b)
    BY <1>1, <2>1, TypeOrphan, TypeAccept DEF ProcessBlock
  <2>2. CASE DisconnectBlock(active) \/ ConnectCoins(active) \/ ConnectBlock
    BY <1>1, <2>2, TypeDisconnect, TypeCoins, TypeConnect
  <2> QED  BY <2>1, <2>2 DEF ChainStep
<1>4. coin' \in CoinMap /\ txdb' \in RefMap  BY <1>3 DEF TypeInv, TypeOK, CoinMap, RefMap
<1>5. age' \in [Tx -> 0 .. PendingSpan]
  <2>1. Now \in PoolState  BY <1>1 DEF Sound
  <2> QED  BY <1>2, <2>1, Fields, NowIs
<1>6. Clean(Now', Tx)  BY <1>1, <1>2, AllClean
<1>7. Sound(Now', Tx)  BY <1>1, <1>2, <1>4, <1>5, <1>6, QueuesSound
<1> QED  BY <1>3, <1>7

LEMMA PoolStutter ==
  ASSUME UNCHANGED poolVars
  PROVE  Now' = Now /\ job' = job /\ status' = status /\ ticks' = ticks /\ UNCHANGED vars
  BY DEF poolVars, vars, memory, disk, queues, Now

LEMMA PoolNextSound ==
  ASSUME PoolInv, [PoolNext]_poolVars
  PROVE  PoolInv'
<1>1. Sound(Now, Tx) /\ TypeInv /\ ticks \in 0 .. MaxTick  BY DueIs
<1>2. CASE ChainStep
  <2>1. ticks' = ticks  BY <1>2 DEF ChainStep
  <2>2. TypeInv' /\ Sound(Now', Tx)  BY <1>2, ChainStepSound
  <2> QED  BY <1>1, <2>1, <2>2 DEF PoolInv
<1>3. ASSUME NEW order \in SortOrders, FinishPool(order) PROVE PoolInv'
  <2>1. ticks' = ticks  BY <1>3 DEF FinishPool
  <2>2. TypeInv' /\ Sound(Now', Tx)  BY <1>1, <1>3, FinishSound
  <2> QED  BY <1>1, <2>1, <2>2 DEF PoolInv
<1>4. ASSUME NEW order \in SortOrders, NEW t \in PoolTx, SubmitTx(t, order) PROVE PoolInv'
  <2>1. ticks' = ticks  BY <1>4 DEF SubmitTx
  <2>2. TypeInv' /\ Sound(Now', Tx)  BY <1>1, <1>4, SubmitSound
  <2> QED  BY <1>1, <2>1, <2>2 DEF PoolInv
<1>5. ASSUME NEW t \in PoolTx, UnacceptTx(t) PROVE PoolInv'
  <2>1. ticks' = ticks  BY <1>5 DEF UnacceptTx
  <2>2. TypeInv' /\ Sound(Now', Tx)  BY <1>1, <1>5, UnacceptSound
  <2> QED  BY <1>1, <2>1, <2>2 DEF PoolInv
<1>6. ASSUME NEW n \in {ActiveSpan, OverflowSpan, PendingSpan}, Tick(n) PROVE PoolInv'
  <2>1. TypeInv' /\ Sound(Now', Tx) /\ ticks' \in 0 .. MaxTick  BY <1>1, <1>6, TickSound
  <2> QED  BY <2>1 DEF PoolInv
<1>7. CASE UNCHANGED poolVars
  <2>1. Now' = Now /\ ticks' = ticks /\ UNCHANGED vars  BY <1>7, PoolStutter
  <2>2. TypeInv'  BY <1>1, <2>1, TypeStutter
  <2>3. Sound(Now', Tx)
    <3> HIDE DEF Now
    <3> QED  BY <1>1, <2>1
  <2> QED  BY <1>1, <2>1, <2>2, <2>3 DEF PoolInv
<1> QED  BY <1>2, <1>3, <1>4, <1>5, <1>6, <1>7 DEF PoolNext

LEMMA PoolInitSound ==
  ASSUME PoolInit
  PROVE  PoolInv
<1>1. TypeInv  BY TypeInit DEF PoolInit
<1>2. /\ active = {} /\ pending = {} /\ overflow = {} /\ stale = {} /\ inval = {}
      /\ local = {} /\ ticks = 0
      /\ inputs = [t \in Tx |-> {}] /\ age = [t \in Tx |-> 0]
  BY DEF PoolInit
<1>3. inputs \in [Tx -> SUBSET Tx] /\ age \in [Tx -> 0 .. PendingSpan]
  <2>1. 0 \in 0 .. PendingSpan  BY DEF PendingSpan
  <2> QED  BY <1>2, <2>1
<1>4. coin \in CoinMap /\ txdb \in RefMap  BY <1>1 DEF TypeInv, TypeOK, CoinMap, RefMap
<1> DEFINE s == Now
<1>5. s = [active |-> active, pending |-> pending, overflow |-> overflow,
           stale |-> stale, inval |-> inval, inputs |-> inputs, local |-> local,
           age |-> age, coin |-> coin, refs |-> txdb]
  BY DEF Now
<1>6. s.active = {} /\ s.overflow = {} /\ s.inval = {}  BY <1>2, NowIs
<1> HIDE DEF s
<1>7. s \in PoolState
  <2>1. /\ active \in SUBSET Tx /\ pending \in SUBSET Tx /\ overflow \in SUBSET Tx
        /\ stale \in SUBSET Tx /\ inval \in SUBSET Tx /\ local \in SUBSET Tx
    BY <1>2
  <2> QED  BY <1>3, <1>4, <1>5, <2>1 DEF PoolState, CoinMap, RefMap
<1>8. Cardinality({}) = 0 /\ TotalWeight({}) = 0
  <2>1. IsFiniteSet({}) /\ Cardinality({}) = 0  BY FS_EmptySet
  <2>2. \A x \in {} : Weight[x] \in Nat  OBVIOUS
  <2>3. TotalWeight({}) = 0  BY <2>1, <2>2, SumType DEF TotalWeight
  <2> QED  BY <2>1, <2>3
<1>9. Cardinality(s.inval) <= MaxInval /\ TotalWeight(s.active) <= MaxWeight
  BY <1>6, <1>8, Limits
<1>10. Sound(s, Tx)  BY <1>6, <1>7, <1>9 DEF Sound, NoConflicts, Clean
<1>11. ticks \in 0 .. MaxTick  BY <1>2, Limits
<1> QED  BY <1>1, <1>10, <1>11 DEF PoolInv, s

(* Whatever transactions and blocks come, in whatever order, the handlers  *)
(* of CPool leave the pool sound: the queues and databases typed, no two   *)
(* active transactions in conflict, the active queue within a block, and   *)
(* every transaction of the overflow queue with all its inputs found, so   *)
(* that it can become active without looking for them again.               *)
THEOREM PoolInvariant == PoolSpec => []PoolInv
<1>1. PoolInit => PoolInv  BY PoolInitSound
<1>2. PoolInv /\ [PoolNext]_poolVars => PoolInv'  BY PoolNextSound
<1> QED  BY <1>1, <1>2, PTL DEF PoolSpec

(* The queues keep their types and the invalid queue its bound ("while     *)
(* (inval.size() > 1000)"), whatever CPool::AddTx and its retries do.      *)
THEOREM PoolTypeCorrect == PoolSpec => []PoolTypeOK
<1>1. ASSUME PoolInv PROVE PoolTypeOK
  <2>1. Sound(Now, Tx) /\ ticks \in 0 .. MaxTick  BY <1>1, DueIs
  <2>2. Now \in PoolState /\ Cardinality(inval) <= MaxInval  BY <2>1, NowIs DEF Sound
  <2>3. /\ active \in SUBSET Tx /\ pending \in SUBSET Tx /\ overflow \in SUBSET Tx
        /\ stale \in SUBSET Tx /\ inval \in SUBSET Tx /\ local \in SUBSET Tx
        /\ inputs \in [Tx -> SUBSET Tx] /\ age \in [Tx -> 0 .. PendingSpan]
    BY <2>2, Fields, NowIs
  <2> QED  BY <2>1, <2>2, <2>3 DEF PoolTypeOK
<1> QED  BY <1>1, PoolInvariant, PTL

(* The active queue never holds two transactions that spend the same       *)
(* output, whichever handler made them active (CPool::ResolveConflicts).   *)
THEOREM ActiveNeverConflicts == PoolSpec => []NoActiveConflict
<1>1. ASSUME PoolInv PROVE NoActiveConflict
  BY <1>1, DueIs, NowIs DEF Sound, NoConflicts, NoActiveConflict
<1> QED  BY <1>1, PoolInvariant, PTL

(* The active queue always fits into one block, also when a transaction    *)
(* makes its parents active (CPool::AddActiveTx).                          *)
THEOREM ActiveAlwaysFits == PoolSpec => []ActiveFits
<1>1. ASSUME PoolInv PROVE ActiveFits
  BY <1>1, DueIs, NowIs DEF Sound, ActiveFits
<1> QED  BY <1>1, PoolInvariant, PTL

-----------------------------------------------------------------------------
(* What the chain has spent.                                               *)

(* Connecting a block marks its inputs only, disconnecting marks nothing.  *)
LEMMA MarksOnly ==
  ASSUME NEW b \in Block, NEW pool, coin \in CoinMap
  PROVE  \A p \in Tx \ InputsOf(b) : ConnectInputs(b, pool).outs[p] = coin[p]
<1> DEFINE n == Len(Vtx[b])
<1>1. PICK run \in [0 .. n -> SpendState] :
        /\ run[0] = [ok |-> TRUE, outs |-> coin]
        /\ \A k \in 1 .. n : run[k] = SpendInputs(b, pool, run[k - 1], Vtx[b][k])
        /\ ConnectInputs(b, pool) = run[n]
  BY ConnectInputsRuns
<1>2. n \in Nat /\ \A i \in 1 .. n : Vtx[b][i] \in Txs(b) /\ Vtx[b][i] \in Tx  BY TxLists
<1> HIDE DEF n
<1> DEFINE P == {k \in 0 .. n : \A p \in Tx \ InputsOf(b) : run[k].outs[p] = coin[p]}
<1>3. 0 \in P  BY <1>1, <1>2
<1>4. ASSUME NEW k \in 1 .. n, k - 1 \in P PROVE k \in P
  <2>1. k \in 0 .. n /\ k - 1 \in 0 .. n  BY <1>2
  <2> DEFINE t == Vtx[b][k]
             r == run[k - 1]
  <2>2. r \in SpendState /\ t \in Tx /\ t \in Txs(b)  BY <1>1, <1>2, <2>1
  <2>3. run[k] = SpendInputs(b, pool, r, t)  BY <1>1
  <2> HIDE DEF r, t
  <2>4. MarksInputs(run[k], r, t)  BY <2>2, <2>3, SpendsInputs
  <2>5. ASSUME NEW p \in Tx \ InputsOf(b) PROVE run[k].outs[p] = coin[p]
    <3>1. p \notin ToSet(Vin[t])  BY <2>2 DEF InputsOf
    <3>2. run[k].outs[p] = r.outs[p]  BY <2>4, <3>1 DEF MarksInputs
    <3> QED  BY <1>4, <3>2 DEF r
  <2> QED  BY <2>1, <2>5
<1> HIDE DEF P
<1>5. \A k \in 0 .. n : k \in P  BY <1>2, <1>3, <1>4, UpTo
<1>6. n \in P  BY <1>2, <1>5
<1> QED  BY <1>1, <1>6 DEF P

LEMMA UnmarksOnly ==
  ASSUME NEW b \in Block, NEW pool, coin \in CoinMap, txdb \in RefMap
  PROVE  \A p \in Tx : \/ DisconnectTxs(b, pool).coin[p] = coin[p]
                       \/ DisconnectTxs(b, pool).coin[p] = None
<1> DEFINE n == Len(Vtx[b])
<1>1. PICK run \in [1 .. (n + 1) -> UndoState] :
        /\ run[n + 1] = [coin |-> coin, refs |-> txdb]
        /\ \A k \in 1 .. n : run[k] = DisconnectInputs(Vtx[b][k], run[k + 1], pool)
        /\ DisconnectTxs(b, pool) = run[1]
  BY DisconnectTxsRuns
<1>2. n \in Nat  BY TxLists
<1> HIDE DEF n
<1> DEFINE P == {k \in 1 .. (n + 1) : \A p \in Tx : run[k].coin[p] = coin[p] \/ run[k].coin[p] = None}
<1>3. n + 1 \in P  BY <1>1, <1>2
<1>4. ASSUME NEW k \in 1 .. n, k + 1 \in P PROVE k \in P
  <2>1. k \in 1 .. (n + 1)  BY <1>2
  <2> DEFINE r == run[k + 1]
             t == Vtx[b][k]
  <2>2. run[k] = DisconnectInputs(t, r, pool)  BY <1>1
  <2>3. \A p \in Tx : r.coin[p] = coin[p] \/ r.coin[p] = None  BY <1>4
  <2> HIDE DEF r, t
  <2>4. \A p \in Tx : run[k].coin[p] = r.coin[p] \/ run[k].coin[p] = None
    BY <2>2 DEF DisconnectInputs
  <2>5. \A p \in Tx : run[k].coin[p] = coin[p] \/ run[k].coin[p] = None  BY <2>3, <2>4
  <2> QED  BY <2>1, <2>5
<1> HIDE DEF P
<1>5. \A k \in 1 .. (n + 1) : k \in P  BY <1>2, <1>3, <1>4, DownTo
<1>6. 1 \in P  BY <1>2, <1>5
<1> QED  BY <1>1, <1>6 DEF P

(* What a step may mark, and what it takes to widen the exception.         *)
LEMMA CleanStep ==
  ASSUME Sound(Now, Tx), NEW D, Clean(Now, D), active' = active, NEW E, D \subseteq E,
         \A p \in Tx : coin'[p] = coin[p] \/ coin'[p] = None \/ p \in E
  PROVE  Clean(Now', E)
<1>1. Now \in PoolState  BY DEF Sound
<1>2. active \in SUBSET Tx  BY <1>1, Fields, NowIs
<1> SUFFICES ASSUME NEW t \in active, NEW p \in ToSet(Vin[t])
             PROVE  coin'[p] = None \/ p \in E
  BY NextIs DEF Clean
<1>3. p \in Tx  BY <1>2, Limits
<1>4. coin[p] = None \/ p \in D  BY NowIs DEF Clean
<1> QED  BY <1>3, <1>4

LEMMA DueTyped ==
  ASSUME TypeInv
  PROVE  Due \subseteq Tx
<1>1. job.con \in SUBSET Block  BY JobFields DEF TypeInv
<1>2. \A b \in Block : InputsOf(b) \subseteq Tx  BY Limits DEF InputsOf
<1> QED  BY <1>1, <1>2 DEF Due

(* Marking a block in another way than as failed.                          *)
LEMMA SameFailed ==
  ASSUME TypeInv, NEW b \in Block, NEW S, status' = [status EXCEPT ![b] = S],
         "failed" \in S <=> "failed" \in status[b]
  PROVE  NoneFailed' <=> NoneFailed
<1>1. \A c \in Block : "failed" \in status'[c] <=> "failed" \in status[c]
  BY DEF TypeInv, TypeOK
<1> QED  BY <1>1 DEF NoneFailed

LEMMA NowFailed ==
  ASSUME TypeInv, NEW b \in Block, NEW S, status' = [status EXCEPT ![b] = S], "failed" \in S
  PROVE  ~NoneFailed' /\ Due' = Tx
<1>1. "failed" \in status'[b]  BY DEF TypeInv, TypeOK
<1> QED  BY <1>1 DEF NoneFailed, Due

LEMMA DueStays ==
  ASSUME NoneFailed' <=> NoneFailed, job'.fail = job.fail, job'.con = job.con
  PROVE  Due' = Due
  BY DEF Due

LEMMA RestDue ==
  ASSUME Rest
  PROVE  /\ Due = IF NoneFailed THEN {} ELSE Tx
         /\ job.con = {} /\ job.conLeft = {} /\ job.fail = None
<1>1. job.con = {} /\ job.conLeft = {} /\ job.fail = None  BY DEF Rest, NoJob
<1> QED  BY <1>1 DEF Due

(* A block arrives.                                                        *)
LEMMA UnspentProcess ==
  ASSUME PoolInv, UnspentInv, NEW b \in Block \ {Genesis}, ProcessBlock(b), active' = active
  PROVE  UnspentInv'
<1>1. TypeInv /\ Sound(Now, Tx)  BY DueIs
<1>2. Clean(Now, Due) /\ job.conLeft \subseteq job.con  BY DEF UnspentInv
<1>3. coin' = coin  BY DEF ProcessBlock, AddOrphanBlock, AcceptInvalid, AcceptSide, AcceptBest, disk
<1>4. Due \subseteq Due' => Clean(Now', Due')  BY <1>1, <1>2, <1>3, CleanStep
<1>5. Due \subseteq Tx  BY <1>1, DueTyped
<1>6. CASE AddOrphanBlock(b)
  <2>1. job' = job /\ status' = status  BY <1>6 DEF AddOrphanBlock
  <2>2. Due' = Due  BY <2>1 DEF Due, NoneFailed
  <2> QED  BY <1>2, <1>4, <2>1, <2>2 DEF UnspentInv
<1>7. CASE AcceptInvalid(b)
  <2>1. job' = job /\ status' = [status EXCEPT ![b] = status[b] \cup {"failed"}]
    BY <1>7 DEF AcceptInvalid
  <2>2. Due' = Tx  BY <1>1, <2>1, NowFailed
  <2> QED  BY <1>2, <1>4, <1>5, <2>1, <2>2 DEF UnspentInv
<1>8. CASE AcceptSide(b)
  <2>1. job' = job /\ status' = [status EXCEPT ![b] = status[b] \cup {"data", "undo"}]
    BY <1>8 DEF AcceptSide
  <2>2. NoneFailed' <=> NoneFailed  BY <1>1, <2>1, SameFailed
  <2>3. Due' = Due  BY <2>1, <2>2, DueStays
  <2> QED  BY <1>2, <1>4, <2>1, <2>3 DEF UnspentInv
<1>9. CASE AcceptBest(b)
  <2> DEFINE r == GetCommitBranches(b)
             S == status[b] \cup {"data"} \cup
                    IF Prev[b] # best /\ ~OnInvalid(b, r.con) THEN {"undo"} ELSE {}
  <2>1. Rest /\ CommitBlock(b)  BY <1>9 DEF AcceptBest, Accepting
  <2>2. /\ status' = [status EXCEPT ![b] = S]
        /\ \/ job' = job
           \/ job' = [NoJob EXCEPT !.new = b, !.con = r.con, !.discon = r.discon,
                        !.conLeft = r.con, !.disconLeft = r.discon, !.last = best]
    BY <2>1 DEF CommitBlock
  <2>3. "failed" \in S <=> "failed" \in status[b]  OBVIOUS
  <2> HIDE DEF S, r
  <2>4. NoneFailed' <=> NoneFailed  BY <1>1, <2>2, <2>3, SameFailed
  <2>5. /\ Due = IF NoneFailed THEN {} ELSE Tx
        /\ job.con = {} /\ job.conLeft = {} /\ job.fail = None
    BY <2>1, RestDue
  <2>6. job'.conLeft = job'.con  BY <2>2, <2>5 DEF NoJob
  <2>7. Due \subseteq Due'
    <3>1. CASE NoneFailed  BY <2>5, <3>1
    <3>2. CASE ~NoneFailed  BY <2>4, <2>5, <3>2 DEF Due
    <3> QED  BY <3>1, <3>2
  <2> QED  BY <1>4, <2>6, <2>7 DEF UnspentInv
<1> QED  BY <1>6, <1>7, <1>8, <1>9 DEF ProcessBlock

(* A block is disconnected, or connected.                                  *)
LEMMA UnspentDisconnect ==
  ASSUME PoolInv, UnspentInv, NEW pool, DisconnectBlock(pool), active' = active
  PROVE  UnspentInv'
<1> DEFINE b == Highest(job.disconLeft)
           c == DisconnectTxs(b, pool).coin
<1>1. TypeInv /\ Sound(Now, Tx)  BY DueIs
<1>2. Clean(Now, Due) /\ job.conLeft \subseteq job.con  BY DEF UnspentInv
<1>3. /\ job.disconLeft # {} /\ coin' = c
      /\ status' = [status EXCEPT ![b] = (status[b] \ {"data"}) \cup {"undo"}]
      /\ job' = [job EXCEPT !.disconLeft = @ \ {b}, !.last = pprev[b]]
  BY DEF DisconnectBlock
<1>4. job \in JobType /\ job.disconLeft \in SUBSET Block
  BY <1>1, JobFields DEF TypeInv, JobOK
<1>5. b \in Block  BY <1>3, <1>4, Highests
<1> HIDE DEF b
<1>6. coin \in CoinMap /\ txdb \in RefMap  BY <1>1 DEF TypeInv, TypeOK, CoinMap, RefMap
<1>7. \A p \in Tx : c[p] = coin[p] \/ c[p] = None  BY <1>5, <1>6, UnmarksOnly
<1> HIDE DEF c
<1>8. NoneFailed' <=> NoneFailed  BY <1>1, <1>3, <1>5, SameFailed
<1>9. job'.con = job.con /\ job'.conLeft = job.conLeft /\ job'.fail = job.fail
  BY <1>3, <1>4 DEF JobType
<1>10. Due' = Due  BY <1>8, <1>9, DueStays
<1>11. Clean(Now', Due')  BY <1>1, <1>2, <1>3, <1>7, <1>10, CleanStep
<1> QED  BY <1>2, <1>9, <1>11 DEF UnspentInv

LEMMA UnspentCoins ==
  ASSUME PoolInv, UnspentInv, NEW pool, ConnectCoins(pool), active' = active
  PROVE  UnspentInv'
<1> DEFINE b == Lowest(job.conLeft)
           r == ConnectInputs(b, pool)
<1>1. TypeInv /\ Sound(Now, Tx)  BY DueIs
<1>2. Clean(Now, Due) /\ job.conLeft \subseteq job.con  BY DEF UnspentInv
<1>3. /\ job.conLeft # {} /\ status' = status
      /\ \/ coin' = r.outs /\ job' = [job EXCEPT !.spent = TRUE]
         \/ coin' = coin /\ job' = [job EXCEPT !.fail = b]
  BY DEF ConnectCoins, Connecting
<1>4. job \in JobType /\ job.conLeft \in SUBSET Block
  BY <1>1, JobFields DEF TypeInv, JobOK
<1>5. b \in job.conLeft /\ b \in Block  BY <1>3, <1>4, Lowests
<1> HIDE DEF b
<1>6. coin \in CoinMap  BY <1>1 DEF TypeInv, TypeOK, CoinMap
<1>7. \A p \in Tx \ InputsOf(b) : r.outs[p] = coin[p]  BY <1>5, <1>6, MarksOnly
<1> HIDE DEF r
<1>8. NoneFailed' <=> NoneFailed  BY <1>3 DEF NoneFailed
<1>9. Due \subseteq Tx  BY <1>1, DueTyped
<1>10. CASE coin' = r.outs /\ job' = [job EXCEPT !.spent = TRUE]
  <2>1. job'.con = job.con /\ job'.conLeft = job.conLeft /\ job'.fail = job.fail
    BY <1>4, <1>10 DEF JobType
  <2>2. Due' = Due  BY <1>8, <2>1, DueStays
  <2>3. InputsOf(b) \cap Tx \subseteq Due
    <3>1. b \in job.con  BY <1>2, <1>5
    <3> QED  BY <3>1 DEF Due
  <2>4. \A p \in Tx : coin'[p] = coin[p] \/ p \in Due  BY <1>7, <1>10, <2>3
  <2>5. Clean(Now', Due')  BY <1>1, <1>2, <2>2, <2>4, CleanStep
  <2> QED  BY <1>2, <2>1, <2>5 DEF UnspentInv
<1>11. CASE coin' = coin /\ job' = [job EXCEPT !.fail = b]
  <2>1. job'.con = job.con /\ job'.conLeft = job.conLeft /\ job'.fail = b
    BY <1>4, <1>11 DEF JobType
  <2>2. b # None  BY <1>5, Tree
  <2>3. Due' = Tx  BY <2>1, <2>2 DEF Due
  <2>4. Clean(Now', Due')  BY <1>1, <1>2, <1>9, <1>11, <2>3, CleanStep
  <2> QED  BY <1>2, <2>1, <2>4 DEF UnspentInv
<1> QED  BY <1>3, <1>10, <1>11

LEMMA UnspentConnect ==
  ASSUME PoolInv, UnspentInv, ConnectBlock, active' = active
  PROVE  UnspentInv'
<1> DEFINE b == Lowest(job.conLeft)
<1>1. TypeInv /\ Sound(Now, Tx)  BY DueIs
<1>2. Clean(Now, Due) /\ job.conLeft \subseteq job.con  BY DEF UnspentInv
<1>3. /\ job.conLeft # {} /\ coin' = coin
      /\ status' = [status EXCEPT ![b] = status[b] \cup {"data"}]
      /\ job' = [job EXCEPT !.conLeft = @ \ {b}, !.last = b, !.spent = FALSE]
  BY DEF ConnectBlock, Connecting
<1>4. job \in JobType /\ job.conLeft \in SUBSET Block
  BY <1>1, JobFields DEF TypeInv, JobOK
<1>5. b \in Block  BY <1>3, <1>4, Lowests
<1> HIDE DEF b
<1>6. NoneFailed' <=> NoneFailed  BY <1>1, <1>3, <1>5, SameFailed
<1>7. job'.con = job.con /\ job'.conLeft = job.conLeft \ {b} /\ job'.fail = job.fail
  BY <1>3, <1>4 DEF JobType
<1>8. Due' = Due  BY <1>6, <1>7, DueStays
<1>9. Clean(Now', Due')  BY <1>1, <1>2, <1>3, <1>8, CleanStep
<1> QED  BY <1>2, <1>7, <1>9 DEF UnspentInv

(* A commit ends.                                                          *)
LEMMA UnspentFinish ==
  ASSUME PoolInv, UnspentInv, Settles, NEW order \in SortOrders, FinishPool(order)
  PROVE  UnspentInv'
<1>1. TypeInv /\ Sound(Now, Tx) /\ Sound(Now, Due)  BY DueIs
<1>2. EndCommit  BY DEF FinishPool
<1>3. job' = NoJob /\ job'.con = {} /\ job'.conLeft = {} /\ job'.fail = None
  BY <1>2 DEF EndCommit, NoJob
<1>4. /\ Sound(Now', Due)
      /\ job.fail = None => \A b \in job.con : Sound(Now', Due \ InputsOf(b))
  BY <1>1, FinishSound
<1>5. Sound(Now', Tx)  BY <1>1, FinishSound
<1>6. CASE ~NoneFailed'
  <2>1. Due' = Tx  BY <1>6 DEF Due
  <2>2. Clean(Now', Due')  BY <1>5, <2>1 DEF Sound
  <2> QED  BY <1>3, <2>2 DEF UnspentInv
<1>7. CASE NoneFailed'
  <2>1. job.fail = None
    <3> SUFFICES ASSUME job.fail # None PROVE FALSE  OBVIOUS
    <3>1. Reestablish  BY DEF Settles
    <3>2. status' = [status EXCEPT ![job.fail] = status[job.fail] \cup {"failed"}]
      BY <1>2, <3>1 DEF EndCommit
    <3>3. job.fail \in Block  BY <1>1, JobFields DEF TypeInv
    <3>4. ~NoneFailed'  BY <1>1, <3>2, <3>3, NowFailed
    <3> QED  BY <1>7, <3>4
  <2>2. status' = status  BY <1>2, <2>1 DEF EndCommit
  <2>3. NoneFailed  BY <1>7, <2>2 DEF NoneFailed
  <2>4. Due = UNION {InputsOf(b) : b \in job.con}  BY <2>1, <2>3 DEF Due
  <2>5. Clean(Now', Due')
    <3> SUFFICES ASSUME NEW t \in Now'.active, NEW p \in ToSet(Vin[t])
                 PROVE  Now'.coin[p] = None
      BY DEF Clean
    <3>1. Now'.coin[p] = None \/ p \in Due  BY <1>4 DEF Sound, Clean
    <3>2. ASSUME p \in Due PROVE Now'.coin[p] = None
      <4>1. PICK b \in job.con : p \in InputsOf(b)  BY <2>4, <3>2
      <4>2. Sound(Now', Due \ InputsOf(b))  BY <1>4, <2>1
      <4> QED  BY <4>1, <4>2 DEF Sound, Clean
    <3> QED  BY <3>1, <3>2
  <2> QED  BY <1>3, <2>5 DEF UnspentInv
<1> QED  BY <1>6, <1>7

(* The other steps.                                                        *)
LEMMA UnspentQueues ==
  ASSUME UnspentInv, status' = status, job' = job, Sound(Now', Due)
  PROVE  UnspentInv'
<1>1. Due' = Due  BY DEF Due, NoneFailed
<1>2. Clean(Now', Due')  BY <1>1 DEF Sound
<1> QED  BY <1>2 DEF UnspentInv

LEMMA UnspentNext ==
  ASSUME PoolInv, UnspentInv, Settles, [PoolNext]_poolVars
  PROVE  UnspentInv'
<1>1. Sound(Now, Due)  BY DueIs
<1>2. CASE ChainStep
  <2>1. active' = active  BY <1>2 DEF ChainStep, queues
  <2> QED  BY <1>2, <2>1, UnspentProcess, UnspentDisconnect, UnspentCoins, UnspentConnect
           DEF ChainStep
<1>3. ASSUME NEW order \in SortOrders, FinishPool(order) PROVE UnspentInv'
  BY <1>3, UnspentFinish
<1>4. ASSUME NEW order \in SortOrders, NEW t \in PoolTx, SubmitTx(t, order) PROVE UnspentInv'
  <2>1. status' = status /\ job' = job  BY <1>4 DEF SubmitTx, memory
  <2>2. Sound(Now', Due)  BY <1>1, <1>4, SubmitSound
  <2> QED  BY <2>1, <2>2, UnspentQueues
<1>5. ASSUME NEW t \in PoolTx, UnacceptTx(t) PROVE UnspentInv'
  <2>1. status' = status /\ job' = job  BY <1>5 DEF UnacceptTx, memory
  <2>2. Sound(Now', Due)  BY <1>1, <1>5, UnacceptSound
  <2> QED  BY <2>1, <2>2, UnspentQueues
<1>6. ASSUME NEW n \in {ActiveSpan, OverflowSpan, PendingSpan}, Tick(n) PROVE UnspentInv'
  <2>1. status' = status /\ job' = job  BY <1>6 DEF Tick, vars, memory
  <2>2. Sound(Now', Due)  BY <1>1, <1>6, TickSound
  <2> QED  BY <2>1, <2>2, UnspentQueues
<1>7. CASE UNCHANGED poolVars
  <2>1. Now' = Now /\ status' = status /\ job' = job  BY <1>7, PoolStutter
  <2>2. Sound(Now', Due)  BY <1>1, <2>1
  <2> QED  BY <2>1, <2>2, UnspentQueues
<1> QED  BY <1>2, <1>3, <1>4, <1>5, <1>6, <1>7 DEF PoolNext

LEMMA UnspentInit ==
  ASSUME PoolInit
  PROVE  UnspentInv
<1>1. active = {} /\ job = NoJob  BY DEF PoolInit, Init
<1>2. Clean(Now, Due)  BY <1>1, NowIs DEF Clean
<1>3. job.conLeft \subseteq job.con  BY <1>1 DEF NoJob
<1> QED  BY <1>2, <1>3 DEF UnspentInv

(* While failed commits settle and none has failed, no active transaction  *)
(* spends what the coin database has as spent, whatever reorganisations    *)
(* take out of the chain and submit again: each commit removes what it has *)
(* connected and what that excludes (core_CommitBlock).                    *)
THEOREM ActiveStaysUnspent == PoolSpec /\ []Settles => []ActiveUnspent
<1>1. PoolInit => UnspentInv  BY UnspentInit
<1>2. PoolInv /\ UnspentInv /\ Settles /\ [PoolNext]_poolVars => UnspentInv'  BY UnspentNext
<1>3. ASSUME UnspentInv PROVE ActiveUnspent
  <2> SUFFICES ASSUME Rest, \A b \in Block : "failed" \notin status[b],
                      NEW t \in active, NEW p \in ToSet(Vin[t])
               PROVE  coin[p] = None
    BY DEF ActiveUnspent
  <2>1. Due = {}  BY RestDue DEF NoneFailed
  <2>2. Clean(Now, Due)  BY <1>3 DEF UnspentInv
  <2> QED  BY <2>1, <2>2, NowIs DEF Clean
<1> QED  BY <1>1, <1>2, <1>3, PoolInvariant, PTL DEF PoolSpec
=============================================================================
