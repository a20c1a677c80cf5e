------------------------------- MODULE MCStratum -------------------------------
(* A small instance of Stratum: two workers of one account, as in          *)
(* "user.worker", and a coin with a block from before the start and        *)
(* another that is found.                                                  *)
EXTENDS Stratum

CONSTANTS a, c1, b1, b2

MCAccount == [w \in Worker |-> a]
MCCoin == <<c1>>
MCCoinOf == [b \in Mine |-> c1]
MCReward == [b \in Mine |-> 9]
MCFee == [b \in Mine |-> 1]
MCBefore == <<b1>>
MCSymmetry == Permutations(Session) \cup Permutations(Worker)
=============================================================================
