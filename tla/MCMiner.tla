------------------------------ MODULE MCMiner ------------------------------
(* The miner on small instances; the bounds are in the .cfg files.  It     *)
(* extends the proof module to check the inductive invariant with TLC.     *)
EXTENDS MinerProofs
=============================================================================
