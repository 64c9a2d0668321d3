------------------------- MODULE MCMessageProcessing ------------------------
(* Instances of MessageProcessing for TLC.                                 *)
EXTENDS MessageProcessing, TLC

\* Runs differ only in their tokens; messages only in their kind.
RunSymmetry == Permutations(Worker)
=============================================================================
