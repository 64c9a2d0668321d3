------------------------ MODULE MCSenderConversation ------------------------
(* Instances of SenderConversation for TLC.                                *)
EXTENDS SenderConversation

CONSTANTS m1, m2, m3

\* m2 is behind m1 in one request; m3 has a request of its own.
TwoRequests == [m \in Message |-> IF m = m2 THEN {m1} ELSE {}]
=============================================================================
