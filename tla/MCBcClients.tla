----------------------------- MODULE MCBcClients -----------------------------
(* Small instances of BcClients.  All the hashes share a bucket.           *)
EXTENDS BcClients

CONSTANTS h1, h2, d1, d2, o1, o2, t1, t2

MCTableHash == [h \in Hash |-> 1]

(* Records of the coin, tx and peer databases have one size per hash.      *)
MCRecordData == SUBSET Out
MCRecordSize == [d \in Data |-> 1]
MCNoBlock == [h \in Hash |-> {}]

(* Blocks differ in size.                                                  *)
MCBlockData == [h \in Hash |-> IF h = h2 THEN d2 ELSE d1]
MCBlockSize == [d \in Data |-> IF d = d2 THEN 2 ELSE 1]
=============================================================================
