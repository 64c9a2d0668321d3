--------------------------- MODULE QuotationIssue ---------------------------
(***************************************************************************)
(* What the contract promises of quotations (D-05, TP-21), without carts,  *)
(* tools, sessions or replies: a quotation is issued of something that was *)
(* shown, on an explicit message of a later turn that approves it alone,   *)
(* and again only for a turn whose outcome was lost.                       *)
(***************************************************************************)
EXTENDS Naturals, FiniteSets

VARIABLES
  shown,       \* previews the customer has received: [turn, digest]
  approvals,   \* turns whose message read as a confirmation
  quotations,  \* those issued: [id, digest, preview, confirmed]
  lost         \* turns that were not saved

vars == <<shown, approvals, quotations, lost>>

Init == shown = {} /\ approvals = {} /\ quotations = {} /\ lost = 0

\* Previews arrive and messages come in.  What was shown stays as it was shown.
Learn ==
  /\ shown \subseteq shown' /\ approvals \subseteq approvals'
  /\ UNCHANGED <<quotations, lost>>

Lose == lost' = lost + 1 /\ UNCHANGED <<shown, approvals, quotations>>

Issue ==
  /\ \E q \in quotations', preview \in shown :
       /\ quotations' = quotations \cup {q}
       /\ q.preview = preview.turn /\ q.digest = preview.digest
       /\ q.confirmed \in approvals /\ q.preview < q.confirmed
       /\ \A r \in quotations : r.confirmed = q.confirmed => r.preview = q.preview
       /\ Cardinality({r \in quotations : r.preview = q.preview}) <= lost
  /\ UNCHANGED <<shown, approvals, lost>>

Next == Learn \/ Lose \/ Issue

Spec == Init /\ [][Next]_vars
=============================================================================
