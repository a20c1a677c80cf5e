-------------------------------- MODULE Ledger --------------------------------
(***************************************************************************)
(* What the block chain of a coin service promises to the rest of the      *)
(* program: one head, always the end of a valid chain, and with it the     *)
(* record of which transaction spends which output, that change together   *)
(* and in one step.  How long that takes, the branches that are stored     *)
(* besides, and restarts are not visible.  Only a process that is killed   *)
(* while it reorganises the chain loses the promise.                       *)
(***************************************************************************)
EXTENDS Naturals

CONSTANTS
  Block,
  Genesis,
  Chain,    \* the block and its ancestors, of each block
  Valid,    \* the blocks that end a valid chain
  Total,    \* the work of the chain that each block ends
  SpentBy   \* for each block, what its chain spends: output -> transaction

VARIABLES head, ledger, lost

vars == <<head, ledger, lost>>

Init == head = Genesis /\ ledger = SpentBy[Genesis] /\ lost = FALSE

Settle(b) ==
  /\ ~lost
  /\ head' = b
  /\ ledger' = SpentBy[b]
  /\ UNCHANGED lost

(* A better chain is found.                                                *)
Advance(b) == Settle(b) /\ b \in Valid /\ Total[b] > Total[head]

(* A chain that seemed better turns out to be invalid, and is followed as  *)
(* far as it is valid.                                                     *)
Retreat(b) ==
  /\ Settle(b)
  /\ \E c \in Block \ Valid :
       /\ Total[c] > Total[head]
       /\ b \in Chain[c] \cap Valid
       /\ \A d \in Chain[c] \cap Valid : Total[d] <= Total[b]

Lose == lost' = TRUE

Next == Lose \/ \E b \in Block : Advance(b) \/ Retreat(b)

Spec == Init /\ [][Next]_vars
=============================================================================
