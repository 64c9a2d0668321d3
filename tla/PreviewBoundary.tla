-------------------------- MODULE PreviewBoundary ---------------------------
(***************************************************************************)
(* What implementation-contract.md promises of previews (D-05 and the      *)
(* "Preview-delivery transition boundary"), without messages, locks or     *)
(* records: a preview becomes confirmable only while it is the current     *)
(* one, and only after the transport has accepted it.                      *)
(***************************************************************************)
EXTENDS Naturals

VARIABLES
  current,  \* the preview the session is bound to, or 0
  phase,    \* of that preview
  given     \* previews the transport has accepted

vars == <<current, phase, given>>

Init == current = 0 /\ phase = "none" /\ given = {}

\* A new preview, that nobody has seen, replaces the current one.
Prepare ==
  /\ current' # 0 /\ current' \notin given
  /\ phase' = "review"
  /\ UNCHANGED given

HandOver ==
  /\ given \subseteq given'
  /\ UNCHANGED <<current, phase>>

Await ==
  /\ phase = "review" /\ current \in given
  /\ phase' = "awaiting"
  /\ UNCHANGED <<current, given>>

Generate ==
  /\ phase = "awaiting"
  /\ phase' = "generated"
  /\ UNCHANGED <<current, given>>

\* The cart or the customer changes, or the session expires.
Withdraw ==
  /\ current' = 0 /\ phase' = "none"
  /\ UNCHANGED given

Next == Prepare \/ HandOver \/ Await \/ Generate \/ Withdraw

Spec == Init /\ [][Next]_vars
=============================================================================
