---------------------------- MODULE QuoteSession ----------------------------
(***************************************************************************)
(* The quotation half of a ConversationSession, and what the methods of    *)
(* app/services/quotation_service.py do to it.  Operators are pure: CanX   *)
(* holds when the method returns normally, X is the session it leaves.  A  *)
(* method that raises leaves the session alone, except for the customer    *)
(* check (RequireCustomer).                                                *)
(*                                                                         *)
(* The SHA-256 fingerprint is modelled by what it digests.  quote_revision *)
(* is left out: it is incremented and nothing reads it.                    *)
(***************************************************************************)
EXTENDS Naturals, Sequences

CONSTANTS
  Product,      \* product ids
  Customer,     \* values of the customer block, the phone aside
  Identified,   \* those with a nonblank name or company name
  NewCustomer,  \* the customer block of a new session
  Catalog       \* business data the process may be started with

ASSUME CustomerAssumption ==
  Identified \subseteq Customer /\ NewCustomer \in Customer \ Identified
\* What is in products.json, as far as a quotation depends on it, and the rules.
ASSUME CatalogAssumption ==
  Catalog \subseteq [active : SUBSET Product, price : [Product -> Nat],
                     rules : Nat]

Item == [product : Product, quantity : Nat \ {0}]
State == {"NEW", "PRODUCT_DISCUSSION", "BUILDING_QUOTE", "CUSTOMER_DETAILS",
          "QUOTE_REVIEW", "AWAITING_CONFIRMATION", "QUOTE_GENERATED"}

Digest == [customer : Customer, cart : Seq(Item), price : [Product -> Nat],
          rules : Nat]
\* None: the digest of an empty cart, which no preview has.
NoDigest == [customer |-> NewCustomer, cart |-> <<>>,
            price |-> [p \in Product |-> 0], rules |-> 0]

\* GeneratedQuoteReplayMetadata; the id 0 stands for None, as turn 0 does.
Generated == [id : Nat, digest : Digest, turn : Nat]
NoGenerated == [id |-> 0, digest |-> NoDigest, turn |-> 0]

Session == [state : State, cart : Seq(Item), customer : Customer,
            prepared : Digest, previewTurn : Nat, delivered : BOOLEAN,
            confirmed : BOOLEAN, confirmationTurn : Nat,
            generated : Generated, lastId : Nat]
NewSession == [state |-> "NEW", cart |-> <<>>, customer |-> NewCustomer,
               prepared |-> NoDigest, previewTurn |-> 0, delivered |-> FALSE,
               confirmed |-> FALSE, confirmationTurn |-> 0,
               generated |-> NoGenerated, lastId |-> 0]

-----------------------------------------------------------------------------
(* Shared by the operations.                                               *)

HasProduct(cart, p) == \E i \in DOMAIN cart : cart[i].product = p

\* quote_fingerprint and _current_quote_fingerprint: the prices of the cart's
\* products, the rules, the cart in its order and the customer.
Fingerprint(s, cat) ==
  [customer |-> s.customer, cart |-> s.cart, rules |-> cat.rules,
   price |-> [p \in Product |-> IF HasProduct(s.cart, p) THEN cat.price[p]
                                ELSE 0]]

\* _calculate_preview succeeds.
Calculable(s, cat) ==
  s.cart # <<>> /\ \A i \in DOMAIN s.cart : s.cart[i].product \in cat.active

Ready(s) == s.customer \in Identified

\* Mutant: a customer or cart change that keeps the confirmation.
RevokePreviewOnly(s) ==
  [s EXCEPT !.prepared = NoDigest, !.previewTurn = 0, !.delivered = FALSE,
            !.generated = NoGenerated]

\* _invalidate_quote_authorization.
Revoke(s) ==
  [s EXCEPT !.prepared = NoDigest, !.previewTurn = 0, !.delivered = FALSE,
            !.confirmed = FALSE, !.confirmationTurn = 0,
            !.generated = NoGenerated]

\* _commit_cart_change.
CommitCart(s, cart) ==
  [Revoke([s EXCEPT !.cart = cart]) EXCEPT
     !.state = IF cart # <<>> THEN "BUILDING_QUOTE" ELSE "PRODUCT_DISCUSSION"]

\* validate_customer_information, when it raises.
RequireCustomer(s) == [s EXCEPT !.state = "CUSTOMER_DETAILS"]

-----------------------------------------------------------------------------
(* The cart and the customer.                                              *)

\* Mutant: a product already in the cart is listed once more.
AddItemAppending(s, p, quantity) ==
  CommitCart(s, Append(s.cart, [product |-> p, quantity |-> quantity]))

CanAddItem(s, cat, p) == p \in cat.active
AddItem(s, p, quantity) ==
  CommitCart(s,
    IF HasProduct(s.cart, p)
    THEN [i \in DOMAIN s.cart |->
            IF s.cart[i].product = p
            THEN [product |-> p, quantity |-> s.cart[i].quantity + quantity]
            ELSE s.cart[i]]
    ELSE Append(s.cart, [product |-> p, quantity |-> quantity]))

\* A quantity that is already there changes nothing.
CanUpdateQuantity(s, cat, p, quantity) ==
  /\ p \in cat.active
  /\ \E i \in DOMAIN s.cart :
       s.cart[i].product = p /\ s.cart[i].quantity # quantity
UpdateQuantity(s, p, quantity) ==
  CommitCart(s, [i \in DOMAIN s.cart |->
                   IF s.cart[i].product = p
                   THEN [product |-> p, quantity |-> quantity]
                   ELSE s.cart[i]])

\* i is the place of the product in the cart.
CanRemoveItem(s, cat, i) == i \in DOMAIN s.cart /\ s.cart[i].product \in cat.active
RemoveItem(s, i) ==
  CommitCart(s, SubSeq(s.cart, 1, i - 1) \o SubSeq(s.cart, i + 1, Len(s.cart)))

CanSetCustomer(s, customer) == customer # s.customer
SetCustomer(s, customer) ==
  LET changed == Revoke([s EXCEPT !.customer = customer]) IN
    [changed EXCEPT !.state = IF ~Ready(changed) THEN "CUSTOMER_DETAILS"
                              ELSE IF s.cart # <<>> THEN "BUILDING_QUOTE"
                              ELSE "PRODUCT_DISCUSSION"]

-----------------------------------------------------------------------------
(* Preview, delivery, confirmation, generation.                            *)

CanPrepare(s, cat) == Calculable(s, cat) /\ Ready(s)
Prepare(s, cat, turn) ==
  [s EXCEPT !.prepared = Fingerprint(s, cat), !.previewTurn = turn,
            !.delivered = FALSE, !.confirmed = FALSE, !.confirmationTurn = 0,
            !.state = "QUOTE_REVIEW"]

\* Mutant: any delivered preview of the same content will do, in any state.
CanMarkReadyByDigest(s, cat, digest, turn) ==
  s.previewTurn # 0 /\ s.prepared = digest /\ Fingerprint(s, cat) = digest

\* mark_ready_for_confirmation: the preview that was delivered is the one
\* prepared, in the same turn, and nothing it was made of has changed.
CanMarkReady(s, cat, digest, turn) ==
  /\ s.previewTurn # 0 /\ s.prepared = digest /\ s.previewTurn = turn
  /\ \A i \in DOMAIN s.cart : s.cart[i].product \in cat.active
  /\ Fingerprint(s, cat) = s.prepared
  /\ s.state = "QUOTE_REVIEW"
MarkReady(s) ==
  [s EXCEPT !.delivered = TRUE, !.confirmed = FALSE, !.confirmationTurn = 0,
            !.state = "AWAITING_CONFIRMATION"]

\* Mutant: the quotation's inputs are not compared again.
CurrentDeliveredPreviewUnchecked(s, cat) ==
  /\ Calculable(s, cat) /\ Ready(s)
  /\ s.state = "AWAITING_CONFIRMATION" /\ s.delivered /\ s.previewTurn # 0

\* _validate_current_delivered_preview.
CurrentDeliveredPreview(s, cat) ==
  /\ Calculable(s, cat) /\ Ready(s)
  /\ s.state = "AWAITING_CONFIRMATION" /\ s.delivered /\ s.previewTurn # 0
  /\ Fingerprint(s, cat) = s.prepared

\* preceding: the preview's turn when the current turn began; explicit: the
\* interpreter finds the customer's message an explicit confirmation.
CanConfirm(s, cat, turn, preceding, explicit) ==
  /\ CurrentDeliveredPreview(s, cat)
  /\ turn # s.previewTurn /\ s.previewTurn = preceding
  /\ explicit
Confirm(s, turn) == [s EXCEPT !.confirmed = TRUE, !.confirmationTurn = turn]

\* validate_generation_authorization.
Authorized(s, cat) ==
  CurrentDeliveredPreview(s, cat) /\ s.confirmed /\ s.confirmationTurn # 0

\* _replay_generated_quotation: what was generated for this very preview and
\* confirmation is returned again.  Other metadata refuses the call.
CanReplay(s, cat) ==
  /\ s.generated.id # 0 /\ Calculable(s, cat) /\ Ready(s)
  /\ s.state = "QUOTE_GENERATED" /\ s.lastId = s.generated.id
  /\ s.prepared = s.generated.digest /\ Fingerprint(s, cat) = s.generated.digest
  /\ s.confirmationTurn = s.generated.turn /\ s.confirmed

\* Mutant: the metadata of an earlier generation is not looked at.
CanGenerateAgain(s, cat) ==
  Authorized([s EXCEPT !.state = "AWAITING_CONFIRMATION"], cat)

\* generate, up to the call of the PDF service.
CanGenerate(s, cat) == s.generated.id = 0 /\ Authorized(s, cat)
Generate(s, cat, id) ==
  [s EXCEPT !.generated = [id |-> id, digest |-> Fingerprint(s, cat),
                           turn |-> s.confirmationTurn],
            !.lastId = id, !.state = "QUOTE_GENERATED"]
=============================================================================
