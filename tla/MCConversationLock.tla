------------------------- MODULE MCConversationLock -------------------------
(***************************************************************************)
(* Instances of ConversationLock for TLC.                                  *)
(***************************************************************************)
EXTENDS ConversationLock, TLC

Interchangeable == Permutations(Task)
=============================================================================
