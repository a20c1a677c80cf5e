------------------------------ MODULE MCBcStore ------------------------------
(* Small instances of BcStore: two hashes that share a bucket of the hash  *)
(* table and one that does not, a short record and a longer one.           *)
EXTENDS BcStore

CONSTANTS h1, h2, h3, d1, d2, t1, t2

MCTableHash == [h \in Hash |-> IF h = h3 THEN 2 ELSE 1]

MCSize == [d \in Data |-> IF d = d2 THEN 2 ELSE 1]
=============================================================================
