------------------------------- MODULE MCBcFmap -------------------------------
(* Instances of BcFmap with blocks of a few bytes and a short word.        *)
EXTENDS BcFmap

ASSUME Roomy
=============================================================================
