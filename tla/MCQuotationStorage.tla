------------------------- MODULE MCQuotationStorage -------------------------
(***************************************************************************)
(* Instances of QuotationStorage for TLC.                                  *)
(***************************************************************************)
EXTENDS QuotationStorage, TLC

Interchangeable == Permutations(Run) \cup Permutations(Id)
=============================================================================
