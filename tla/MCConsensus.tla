----------------------------- MODULE MCConsensus -----------------------------
(***************************************************************************)
(* Instances of Consensus for TLC.                                         *)
(***************************************************************************)
EXTENDS Consensus

==============================================================================
