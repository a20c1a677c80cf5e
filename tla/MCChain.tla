------------------------------- MODULE MCChain -------------------------------
(* Small instances of Chain.  A1 to A3 and B1 to B3 are two branches on    *)
(* the genesis block G; C1 is a third.                                     *)
EXTENDS Chain

CONSTANTS G, A1, A2, A3, B1, B2, B3, C1,
          g, h, a1, a2, b1, b2, x, u, y, w, z

MCHeight == [b \in Block |->
  CASE b = G -> 0 [] b \in {A1, B1, C1} -> 1 [] b \in {A2, B2} -> 2 [] OTHER -> 3]
MCPrev == [b \in Block \ {G} |->
  CASE b = A3 -> A2 [] b = A2 -> A1 [] b = B3 -> B2 [] b = B2 -> B1 [] OTHER -> G]
MCWork == [b \in Block |-> 1]

(* The genesis coinbase has two outputs, g and h, here a transaction each. *)
(* x spends both, on one branch, and y spends h on the other; w of B3      *)
(* spends h again; z of C1 spends g too early.                             *)
MCVtx == [b \in Block |->
  CASE b = G -> <<g, h>>
    [] b = A1 -> <<a1>> [] b = A2 -> <<a2, x, u>>
    [] b = B1 -> <<b1>> [] b = B2 -> <<b2, y>>
    [] b = B3 -> <<w>> [] b = C1 -> <<z>> [] OTHER -> <<>>]
MCVin == [t \in Tx |->
  CASE t = x -> <<g, h>> [] t = z -> <<g>> [] t \in {y, w} -> <<h>>
    [] t = u -> <<x>> [] OTHER -> <<>>]

(* B1 alone outweighs A1.                                                  *)
MCHeavyB1 == [b \in Block |-> IF b = B1 THEN 2 ELSE 1]
=============================================================================
