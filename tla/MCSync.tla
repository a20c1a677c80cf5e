-------------------------------- MODULE MCSync --------------------------------
(* Small instances of Sync.  The chain A1, A2 of the peer p grows by one   *)
(* block; the peer q has B1 and, on it, B2.  Blocks have no transactions   *)
(* here.                                                                   *)
EXTENDS Sync

CONSTANTS G, A1, A2, B1, B2, p, q

MCHeight == [b \in Block |-> CASE b = G -> 0 [] b \in {A1, B1} -> 1 [] OTHER -> 2]
MCPrev == [b \in Block \ {G} |-> CASE b = A2 -> A1 [] b = B2 -> B1 [] OTHER -> G]
MCWork == [b \in Block |-> 1]
MCVtx == [b \in Block |-> <<>>]
MCVin == <<>>
MCFirstTip == [n \in Peer |-> IF n = p THEN A1 ELSE B2]
MCLastTip == [n \in Peer |-> IF n = p THEN A2 ELSE B2]
=============================================================================
