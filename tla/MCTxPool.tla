------------------------------- MODULE MCTxPool -------------------------------
(* A small instance of TxPool.  A1 to A3 and B1, B2 are two branches on    *)
(* the genesis block G, whose coinbase has the outputs g and h.  Of the    *)
(* other coinbases only k of A1, which a transaction spends, is here.      *)
EXTENDS TxPool

CONSTANTS G, A1, A2, A3, B1, B2, g, h, k, x, c, y, w

MCHeight == [b \in Block |->
  CASE b = G -> 0 [] b \in {A1, B1} -> 1 [] b \in {A2, B2} -> 2 [] OTHER -> 3]
MCPrev == [b \in Block \ {G} |->
  CASE b = A2 -> A1 [] b = A3 -> A2 [] b = B2 -> B1 [] OTHER -> G]
MCWork == [b \in Block |-> IF b = B2 THEN 3 ELSE 1]

(* c spends x; y spends what w spends, and k.  In the second form y        *)
(* spends only what w spends.                                              *)
MCVin == [t \in Tx |->
  CASE t = x -> <<g>> [] t = y -> <<h, k>> [] t = c -> <<x>> [] t = w -> <<h>>
    [] OTHER -> <<>>]
MCVinNoK == [MCVin EXCEPT ![y] = <<h>>]
MCVtx == [b \in Block |->
  CASE b = G -> <<g, h>> [] b = A1 -> <<k>> [] b = A2 -> <<x>> [] b = A3 -> <<c>>
    [] b = B2 -> <<w>> [] OTHER -> <<>>]

MCWeight == [t \in Tx |-> 1]
MCFeePriority == [t \in Tx |-> IF t = c THEN 2 ELSE 1]
MCLockTime == [t \in Tx |-> IF t = w THEN 1 ELSE 0]
=============================================================================
