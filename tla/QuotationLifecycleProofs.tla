---------------------- MODULE QuotationLifecycleProofs ----------------------
(* What QuotationLifecycle promises of quotations, for every set of        *)
(* products, customers and business data and any number of turns: what was *)
(* issued was shown and confirmed, and a turn keeps the preview boundary.  *)
EXTENDS QuotationLifecycle, FiniteSetTheorems, SequenceTheorems, TLAPS

OneLineEach(cart) ==
  \A i, j \in DOMAIN cart : cart[i].product = cart[j].product => i = j

TypesSound == TypeOK /\ OneLineEach(session.cart) /\ IsFiniteSet(issued)

\* An acknowledgement is about what was received, and nobody can have received
\* what the running turn prepares.
RepliesSound ==
  /\ \A t \in unacked : Seen(t)
  /\ at # "idle" => now # 0 /\ now \notin outbox \cup unacked /\ ~Seen(now)

Withdrawn(s) ==
  /\ s.state \notin {"AWAITING_CONFIRMATION", "QUOTE_GENERATED"}
  /\ ~s.confirmed /\ s.generated.id = 0

\* The copy has the stored session's preview, at most confirmed and generated.
FromSession ==
  /\ draft.previewTurn = session.previewTurn
  /\ \/ draft.state = session.state
     \/ session.state = "AWAITING_CONFIRMATION" /\ draft.state = "QUOTE_GENERATED"
  /\ session.confirmed => draft.confirmed

\* What a turn can have made of the stored session.
DraftFollows ==
  /\ session.previewTurn < now
  /\ \/ draft.previewTurn = 0
     \/ at = "done" /\ draft.previewTurn = now /\ draft.state = "QUOTE_REVIEW"
     \/ FromSession
  /\ draft.cart # session.cart \/ draft.customer # session.customer
     => Withdrawn(draft)

DraftSound == at # "idle" => DraftFollows

QuotationsOf(t) == {q \in issued : q.preview = t}

\* The preview of s can be issued once more: every quotation of it so far was
\* made by a turn that was lost.
Unissued(s) ==
  s.previewTurn # 0 /\ s.state # "QUOTE_GENERATED"
  => Cardinality(QuotationsOf(s.previewTurn)) <= crashes

IssueCounted ==
  /\ OneQuotationPerPreview
  /\ IF at = "idle" THEN Unissued(session) ELSE Unissued(draft)

LifecycleSound ==
  /\ TypesSound /\ RepliesSound /\ SessionsBound /\ DraftSound
  /\ IssuedAsConfirmed /\ IssueCounted

-----------------------------------------------------------------------------
(* The operators on sessions.                                              *)

\* A session whose preview, confirmation and quotation have been withdrawn.
Revoked(s) ==
  /\ s.prepared = NoDigest /\ s.previewTurn = 0 /\ ~s.delivered
  /\ ~s.confirmed /\ s.confirmationTurn = 0 /\ s.generated = NoGenerated
  /\ s.state \in {"NEW", "PRODUCT_DISCUSSION", "BUILDING_QUOTE", "CUSTOMER_DETAILS"}

LEMMA NoDigestType == NoDigest \in Digest /\ NoGenerated \in Generated
BY CustomerAssumption DEF NoDigest, Digest, NoGenerated, Generated

LEMMA NewSessionFacts ==
  NewSession \in Session /\ Revoked(NewSession) /\ NewSession.cart = <<>>
BY NoDigestType, CustomerAssumption DEF NewSession, Session, State, Revoked

LEMMA RevokeFacts ==
  ASSUME NEW s \in Session
  PROVE  /\ Revoke(s) \in Session
         /\ Revoke(s).prepared = NoDigest /\ Revoke(s).previewTurn = 0
         /\ ~Revoke(s).delivered /\ ~Revoke(s).confirmed
         /\ Revoke(s).confirmationTurn = 0 /\ Revoke(s).generated = NoGenerated
         /\ Revoke(s).cart = s.cart /\ Revoke(s).customer = s.customer
BY NoDigestType DEF Revoke, Session

LEMMA CommitFacts ==
  ASSUME NEW s \in Session, NEW cart \in Seq(Item)
  PROVE  /\ CommitCart(s, cart) \in Session /\ Revoked(CommitCart(s, cart))
         /\ CommitCart(s, cart).cart = cart
<1> DEFINE changed == [s EXCEPT !.cart = cart]
<1>1. changed \in Session /\ changed.cart = cart
  BY DEF Session
<1>2. /\ Revoke(changed) \in Session
      /\ Revoke(changed).prepared = NoDigest /\ Revoke(changed).previewTurn = 0
      /\ ~Revoke(changed).delivered /\ ~Revoke(changed).confirmed
      /\ Revoke(changed).confirmationTurn = 0
      /\ Revoke(changed).generated = NoGenerated
      /\ Revoke(changed).cart = cart
  BY <1>1, RevokeFacts
<1>3. PICK stage \in {"BUILDING_QUOTE", "PRODUCT_DISCUSSION"} :
        CommitCart(s, cart) = [Revoke(changed) EXCEPT !.state = stage]
  BY DEF CommitCart
<1> HIDE DEF changed
<1>4. QED
  BY <1>2, <1>3 DEF Session, State, Revoked

LEMMA SetCustomerFacts ==
  ASSUME NEW s \in Session, NEW customer \in Customer
  PROVE  /\ SetCustomer(s, customer) \in Session
         /\ Revoked(SetCustomer(s, customer))
         /\ SetCustomer(s, customer).cart = s.cart
<1> DEFINE changed == [s EXCEPT !.customer = customer]
<1>1. changed \in Session /\ changed.cart = s.cart
  BY DEF Session
<1>2. /\ Revoke(changed) \in Session
      /\ Revoke(changed).prepared = NoDigest /\ Revoke(changed).previewTurn = 0
      /\ ~Revoke(changed).delivered /\ ~Revoke(changed).confirmed
      /\ Revoke(changed).confirmationTurn = 0
      /\ Revoke(changed).generated = NoGenerated
      /\ Revoke(changed).cart = s.cart
  BY <1>1, RevokeFacts
<1>3. PICK stage \in {"CUSTOMER_DETAILS", "BUILDING_QUOTE", "PRODUCT_DISCUSSION"} :
        SetCustomer(s, customer) = [Revoke(changed) EXCEPT !.state = stage]
  BY DEF SetCustomer
<1> HIDE DEF changed
<1>4. QED
  BY <1>2, <1>3 DEF Session, State, Revoked

LEMMA FingerprintFacts ==
  ASSUME NEW s \in Session, NEW cat \in Catalog
  PROVE  /\ Fingerprint(s, cat) \in Digest
         /\ Fingerprint(s, cat).cart = s.cart
         /\ Fingerprint(s, cat).customer = s.customer
         /\ s.cart # <<>> => Fingerprint(s, cat) # NoDigest
<1>1. cat.price \in [Product -> Nat] /\ cat.rules \in Nat
  BY CatalogAssumption
<1>2. [p \in Product |-> IF HasProduct(s.cart, p) THEN cat.price[p] ELSE 0]
        \in [Product -> Nat]
  BY <1>1
<1>3. QED
  BY <1>1, <1>2 DEF Fingerprint, Digest, Session, NoDigest

-----------------------------------------------------------------------------
(* Carts.                                                                  *)

LEMMA RevisedCart ==
  ASSUME NEW cart \in Seq(Item), OneLineEach(cart), NEW revised,
         revised = [i \in DOMAIN cart |-> revised[i]],
         \A i \in DOMAIN cart : /\ revised[i] \in Item
                                /\ revised[i].product = cart[i].product
  PROVE  revised \in Seq(Item) /\ OneLineEach(revised)
<1>1. DOMAIN cart = 1..Len(cart) /\ Len(cart) \in Nat
  BY LenProperties
<1>2. revised \in [1..Len(cart) -> Item]
  BY <1>1
<1>3. revised \in Seq(Item)
  BY <1>1, <1>2
<1>4. OneLineEach(revised)
  BY DEF OneLineEach
<1>5. QED
  BY <1>3, <1>4

LEMMA AppendedCart ==
  ASSUME NEW cart \in Seq(Item), OneLineEach(cart),
         NEW item \in Item, ~HasProduct(cart, item.product)
  PROVE  Append(cart, item) \in Seq(Item) /\ OneLineEach(Append(cart, item))
<1>1. /\ Append(cart, item) \in Seq(Item)
      /\ DOMAIN cart = 1..Len(cart) /\ Len(cart) \in Nat
      /\ DOMAIN Append(cart, item) = 1..(Len(cart) + 1)
      /\ \A i \in 1..Len(cart) : Append(cart, item)[i] = cart[i]
      /\ Append(cart, item)[Len(cart) + 1] = item
  OBVIOUS
<1>2. \A i \in 1..Len(cart) : cart[i].product # item.product
  BY <1>1 DEF HasProduct
<1>3. \A i \in 1..(Len(cart) + 1) : i \in 1..Len(cart) \/ i = Len(cart) + 1
  BY <1>1
<1> HIDE <1>3
<1>4. OneLineEach(Append(cart, item))
  BY <1>1, <1>2, <1>3 DEF OneLineEach
<1>5. QED
  BY <1>1, <1>4

LEMMA RemovedCart ==
  ASSUME NEW cart \in Seq(Item), OneLineEach(cart), NEW n \in DOMAIN cart
  PROVE  LET rest == SubSeq(cart, 1, n - 1) \o SubSeq(cart, n + 1, Len(cart))
         IN  rest \in Seq(Item) /\ OneLineEach(rest)
<1> DEFINE before == SubSeq(cart, 1, n - 1)
           after == SubSeq(cart, n + 1, Len(cart))
           origin(i) == IF i < n THEN i ELSE i + 1
<1>1. DOMAIN cart = 1..Len(cart) /\ Len(cart) \in Nat /\ n \in 1..Len(cart)
  BY LenProperties
<1>2. \A i \in 1..Len(cart) : cart[i] \in Item
  BY ElementOfSeq
<1>3. /\ before \in Seq(Item) /\ Len(before) = n - 1
      /\ \A i \in 1..(n - 1) : before[i] = cart[i]
  <2>1. \A i \in 1..(n - 1) : cart[i] \in Item
    BY <1>1, <1>2
  <2>2. /\ before \in Seq(Item)
        /\ Len(before) = IF 1 <= n - 1 THEN (n - 1) - 1 + 1 ELSE 0
        /\ \A i \in 1..((n - 1) - 1 + 1) : before[i] = cart[1 + i - 1]
    BY <1>1, <2>1, SubSeqProperties
  <2>3. QED
    BY <1>1, <2>2
<1>4. /\ after \in Seq(Item) /\ Len(after) = Len(cart) - n
      /\ \A i \in 1..(Len(cart) - n) : after[i] = cart[n + i]
  <2>1. \A i \in (n + 1)..Len(cart) : cart[i] \in Item
    BY <1>1, <1>2
  <2>2. /\ after \in Seq(Item)
        /\ Len(after) = IF n + 1 <= Len(cart) THEN Len(cart) - (n + 1) + 1 ELSE 0
        /\ \A i \in 1..(Len(cart) - (n + 1) + 1) : after[i] = cart[n + 1 + i - 1]
    BY <1>1, <2>1, SubSeqProperties
  <2>3. QED
    BY <1>1, <2>2
<1> HIDE DEF before, after
<1>5. /\ before \o after \in Seq(Item)
      /\ Len(before \o after) = Len(cart) - 1
      /\ \A i \in 1..(Len(cart) - 1) : (before \o after)[i] = cart[origin(i)]
  <2>1. /\ before \o after \in Seq(Item)
        /\ Len(before \o after) = Len(before) + Len(after)
        /\ \A i \in 1..(Len(before) + Len(after)) :
             (before \o after)[i] = IF i <= Len(before) THEN before[i]
                                    ELSE after[i - Len(before)]
    BY <1>3, <1>4, ConcatProperties
  <2>2. Len(before) + Len(after) = Len(cart) - 1
    BY <1>1, <1>3, <1>4
  <2>3. ASSUME NEW i \in 1..(Len(cart) - 1)
        PROVE  (before \o after)[i] = cart[origin(i)]
    <3>1. CASE i < n
      BY <1>1, <1>3, <2>1, <2>2, <3>1
    <3>2. CASE ~(i < n)
      <4>1. i - (n - 1) \in 1..(Len(cart) - n) /\ n + (i - (n - 1)) = i + 1
        BY <1>1, <3>2
      <4>2. (before \o after)[i] = after[i - (n - 1)]
        BY <1>1, <1>3, <2>1, <2>2, <3>2
      <4>3. QED
        BY <1>4, <3>2, <4>1, <4>2
    <3>3. QED
      BY <3>1, <3>2
  <2>4. QED
    BY <2>1, <2>2, <2>3
<1>6. /\ \A i \in 1..(Len(cart) - 1) : origin(i) \in DOMAIN cart
      /\ \A i, j \in 1..(Len(cart) - 1) : origin(i) = origin(j) => i = j
  BY <1>1
<1>7. DOMAIN (before \o after) = 1..(Len(cart) - 1)
  BY <1>5, LenProperties
<1> HIDE DEF origin
<1>8. OneLineEach(before \o after)
  <2>1. SUFFICES ASSUME NEW i \in 1..(Len(cart) - 1), NEW j \in 1..(Len(cart) - 1),
                        (before \o after)[i].product = (before \o after)[j].product
                 PROVE  i = j
    BY <1>7 DEF OneLineEach
  <2>2. cart[origin(i)].product = cart[origin(j)].product
    BY <1>5, <2>1
  <2>3. origin(i) = origin(j)
    BY <1>6, <2>2 DEF OneLineEach
  <2>4. QED
    BY <1>6, <2>3
<1>9. QED
  BY <1>5, <1>8 DEF before, after

-----------------------------------------------------------------------------
(* What each step does.                                                    *)

\* A successful cart or customer tool: everything else of the copy is revoked.
Edit ==
  \/ \E p \in Product, q \in 1..MaxQuantity :
       AddQuoteItem(p, q) \/ UpdateQuoteItemQuantity(p, q)
  \/ \E i \in DOMAIN draft.cart : RemoveQuoteItem(i)
  \/ \E c \in Customer : SetCustomerInformation(c)

LEMMA AddFacts ==
  ASSUME NEW s \in Session, OneLineEach(s.cart), NEW p \in Product,
         NEW quantity \in Nat \ {0}
  PROVE  /\ AddItem(s, p, quantity) \in Session /\ Revoked(AddItem(s, p, quantity))
         /\ OneLineEach(AddItem(s, p, quantity).cart)
<1> DEFINE raised == [i \in DOMAIN s.cart |->
                        IF s.cart[i].product = p
                        THEN [product |-> p, quantity |-> s.cart[i].quantity + quantity]
                        ELSE s.cart[i]]
           appended == Append(s.cart, [product |-> p, quantity |-> quantity])
<1>1. s.cart \in Seq(Item)
  BY DEF Session
<1>2. \A i \in DOMAIN s.cart : s.cart[i] \in Item
  BY <1>1
<1>3. /\ \A i \in DOMAIN s.cart : /\ raised[i] \in Item
                                  /\ raised[i].product = s.cart[i].product
      /\ raised = [i \in DOMAIN s.cart |-> raised[i]]
  BY <1>2 DEF Item
<1> HIDE DEF raised
<1>4. raised \in Seq(Item) /\ OneLineEach(raised)
  BY <1>1, <1>3, RevisedCart
<1>5. /\ [product |-> p, quantity |-> quantity] \in Item
      /\ [product |-> p, quantity |-> quantity].product = p
  BY DEF Item
<1>6. ~HasProduct(s.cart, p) => appended \in Seq(Item) /\ OneLineEach(appended)
  BY <1>1, <1>5, AppendedCart
<1>7. AddItem(s, p, quantity)
        = CommitCart(s, IF HasProduct(s.cart, p) THEN raised ELSE appended)
  BY DEF AddItem, raised
<1> HIDE DEF appended
<1>8. QED
  BY <1>4, <1>6, <1>7, CommitFacts

LEMMA UpdateFacts ==
  ASSUME NEW s \in Session, OneLineEach(s.cart), NEW p \in Product,
         NEW quantity \in Nat \ {0}
  PROVE  /\ UpdateQuantity(s, p, quantity) \in Session
         /\ Revoked(UpdateQuantity(s, p, quantity))
         /\ OneLineEach(UpdateQuantity(s, p, quantity).cart)
<1> DEFINE revised == [i \in DOMAIN s.cart |->
                         IF s.cart[i].product = p
                         THEN [product |-> p, quantity |-> quantity]
                         ELSE s.cart[i]]
<1>1. s.cart \in Seq(Item)
  BY DEF Session
<1>2. \A i \in DOMAIN s.cart : s.cart[i] \in Item
  BY <1>1
<1>3. /\ \A i \in DOMAIN s.cart : /\ revised[i] \in Item
                                  /\ revised[i].product = s.cart[i].product
      /\ revised = [i \in DOMAIN s.cart |-> revised[i]]
  BY <1>2 DEF Item
<1>4. UpdateQuantity(s, p, quantity) = CommitCart(s, revised)
  BY DEF UpdateQuantity
<1> HIDE DEF revised
<1>5. revised \in Seq(Item) /\ OneLineEach(revised)
  BY <1>1, <1>3, RevisedCart
<1>6. QED
  BY <1>4, <1>5, CommitFacts

LEMMA EditFacts ==
  ASSUME TypesSound, Edit
  PROVE  /\ at = "tools"
         /\ draft' \in Session /\ Revoked(draft') /\ OneLineEach(draft'.cart)
         /\ UNCHANGED <<catalog, session, at, preceding, log, replyVars, issued,
                        crashes>>
<1>1. draft \in Session /\ OneLineEach(draft.cart) /\ draft.cart \in Seq(Item)
  BY DEF TypesSound, TypeOK, CartsWellFormed, OneLineEach, Session
<1>2. \A result : Tool(result) =>
        /\ at = "tools" /\ draft' = result
        /\ UNCHANGED <<catalog, session, at, preceding, log, replyVars, issued,
                       crashes>>
  BY DEF Tool
<1>3. 1..MaxQuantity \subseteq Nat \ {0}
  BY BoundAssumption
<1>4. ASSUME NEW p \in Product, NEW q \in 1..MaxQuantity, AddQuoteItem(p, q)
      PROVE  Tool(AddItem(draft, p, q)) /\ q \in Nat \ {0}
  BY <1>3, <1>4 DEF AddQuoteItem
<1>5. ASSUME NEW p \in Product, NEW q \in 1..MaxQuantity,
             UpdateQuoteItemQuantity(p, q)
      PROVE  Tool(UpdateQuantity(draft, p, q)) /\ q \in Nat \ {0}
  BY <1>3, <1>5 DEF UpdateQuoteItemQuantity
<1>6. ASSUME NEW i \in DOMAIN draft.cart, RemoveQuoteItem(i)
      PROVE  /\ Tool(RemoveItem(draft, i))
             /\ RemoveItem(draft, i) \in Session /\ Revoked(RemoveItem(draft, i))
             /\ OneLineEach(RemoveItem(draft, i).cart)
  BY <1>1, <1>6, RemovedCart, CommitFacts DEF RemoveQuoteItem, RemoveItem
<1>7. ASSUME NEW c \in Customer, SetCustomerInformation(c)
      PROVE  Tool(SetCustomer(draft, c))
  BY <1>7 DEF SetCustomerInformation
<1>8. QED
  BY <1>1, <1>2, <1>4, <1>5, <1>6, <1>7, AddFacts, UpdateFacts, SetCustomerFacts
     DEF Edit

LEMMA BeginFacts ==
  ASSUME TypesSound, BeginTurn
  PROVE  /\ at = "idle" /\ at' = "tools" /\ draft' = session
         /\ preceding' = session.previewTurn
         /\ log' \in Seq(Turn) /\ now \in Nat /\ now' = now + 1
         /\ \A t \in 1..now : log'[t] = log[t]
         /\ UNCHANGED <<catalog, session, replyVars, issued, crashes>>
<1>1. PICK explicit \in BOOLEAN, saw \in 0..Len(seen) :
        log' = Append(log, [explicit |-> explicit, saw |-> saw, preview |-> NoDigest])
  BY DEF BeginTurn
<1>2. log \in Seq(Turn) /\ Len(seen) \in Nat
  BY DEF TypesSound, TypeOK
<1>3. [explicit |-> explicit, saw |-> saw, preview |-> NoDigest] \in Turn
  BY <1>2, NoDigestType DEF Turn
<1> DEFINE turn == [explicit |-> explicit, saw |-> saw, preview |-> NoDigest]
<1> HIDE DEF turn
<1>4. log' = Append(log, turn) /\ turn \in Turn
  BY <1>1, <1>3 DEF turn
<1>5. /\ log' \in Seq(Turn) /\ Len(log) \in Nat /\ Len(log') = Len(log) + 1
      /\ \A t \in 1..Len(log) : log'[t] = log[t]
  BY <1>2, <1>4
<1>6. QED
  BY <1>5 DEF BeginTurn, now

LEMMA RequireFacts ==
  ASSUME TypesSound, CustomerMissing
  PROVE  /\ at = "tools" /\ ~Ready(draft)
         /\ draft' = [draft EXCEPT !.state = "CUSTOMER_DETAILS"]
         /\ draft' \in Session
         /\ UNCHANGED <<catalog, session, at, preceding, log, replyVars, issued,
                        crashes>>
BY DEF TypesSound, TypeOK, CustomerMissing, Tool, RequireCustomer, Session, State

LEMMA PrepareFacts ==
  ASSUME TypesSound, PrepareQuotation
  PROVE  /\ at = "tools" /\ at' = "done"
         /\ draft.cart # <<>> /\ Ready(draft)
         /\ draft' = [draft EXCEPT !.prepared = Fingerprint(draft, catalog),
                        !.previewTurn = now, !.delivered = FALSE,
                        !.confirmed = FALSE, !.confirmationTurn = 0,
                        !.state = "QUOTE_REVIEW"]
         /\ draft' \in Session
         /\ log' \in Seq(Turn) /\ now' = now /\ now \in Nat
         /\ now \in 1..now => log'[now].preview = Fingerprint(draft, catalog)
         /\ \A t \in 1..now : /\ log'[t].explicit = log[t].explicit
                              /\ t # now => log'[t] = log[t]
         /\ UNCHANGED <<catalog, session, preceding, replyVars, issued, crashes>>
<1>1. /\ log \in Seq(Turn) /\ now \in Nat /\ draft \in Session
      /\ catalog \in Catalog
  BY DEF TypesSound, TypeOK, now
<1>2. Fingerprint(draft, catalog) \in Digest
  BY <1>1, FingerprintFacts
<1>3. draft' \in Session
  BY <1>1, <1>2 DEF PrepareQuotation, Prepare, Session, State
<1>4. log' = [log EXCEPT ![now].preview = Fingerprint(draft, catalog)]
  BY DEF PrepareQuotation
<1>5. DOMAIN log = 1..now /\ \A t \in 1..now : log[t] \in Turn
  BY <1>1 DEF now
<1>6. DOMAIN log' = 1..now /\ \A t \in 1..now : log'[t] \in Turn
  BY <1>2, <1>4, <1>5 DEF Turn
<1>7. log' = [t \in 1..now |-> log'[t]]
  BY <1>4, <1>5
<1>8. log' \in Seq(Turn) /\ now' = now
  <2>1. log' \in [1..now -> Turn]
    BY <1>6, <1>7
  <2>2. log' \in Seq(Turn)
    BY <1>1, <2>1, SeqDef
  <2>3. DOMAIN log' = 1..Len(log') /\ Len(log') \in Nat
    BY <2>2
  <2>4. Len(log') = now
    BY <1>1, <1>6, <2>3
  <2>5. QED
    BY <2>2, <2>4 DEF now
<1>9. /\ now \in 1..now => log'[now].preview = Fingerprint(draft, catalog)
      /\ \A t \in 1..now : /\ log'[t].explicit = log[t].explicit
                           /\ t # now => log'[t] = log[t]
  BY <1>4, <1>5 DEF Turn
<1>10. QED
  BY <1>1, <1>3, <1>8, <1>9
     DEF PrepareQuotation, Prepare, CanPrepare, Calculable

LEMMA ConfirmFacts ==
  ASSUME TypesSound, ConfirmQuotation
  PROVE  /\ at = "tools" /\ now # draft.previewTurn
         /\ draft.state = "AWAITING_CONFIRMATION" /\ draft.previewTurn # 0
         /\ draft.delivered /\ log[now].explicit
         /\ draft' = [draft EXCEPT !.confirmed = TRUE, !.confirmationTurn = now]
         /\ draft' \in Session
         /\ UNCHANGED <<catalog, session, at, preceding, log, replyVars, issued,
                        crashes>>
<1>1. draft \in Session /\ now \in Nat
  BY DEF TypesSound, TypeOK, now
<1>2. /\ at = "tools" /\ log[now].explicit
      /\ CurrentDeliveredPreview(draft, catalog) /\ now # draft.previewTurn
  BY DEF ConfirmQuotation, CanConfirm
<1>3. /\ draft' = [draft EXCEPT !.confirmed = TRUE, !.confirmationTurn = now]
      /\ UNCHANGED <<catalog, session, at, preceding, log, replyVars, issued,
                     crashes>>
  BY DEF ConfirmQuotation, Tool, Confirm
<1>4. draft' \in Session
  BY <1>1, <1>3 DEF Session
<1>5. QED
  BY <1>2, <1>3, <1>4 DEF CurrentDeliveredPreview

LEMMA CreateFacts ==
  ASSUME TypesSound, CreateQuotation
  PROVE  /\ at = "tools" /\ draft.state = "AWAITING_CONFIRMATION"
         /\ draft.delivered /\ draft.confirmed /\ draft.previewTurn # 0
         /\ \E id \in Nat \ {0} :
              /\ draft' = [draft EXCEPT
                             !.generated = [id |-> id, digest |-> draft.prepared,
                                            turn |-> draft.confirmationTurn],
                             !.lastId = id, !.state = "QUOTE_GENERATED"]
              /\ issued' = issued \cup
                   {[id |-> id, digest |-> draft.prepared,
                     preview |-> draft.previewTurn,
                     confirmed |-> draft.confirmationTurn]}
         /\ draft' \in Session /\ issued' \subseteq Quotation /\ IsFiniteSet(issued')
         /\ UNCHANGED <<catalog, session, at, preceding, log, replyVars, crashes>>
<1> DEFINE id == Cardinality(issued) + 1
           quotation == [id |-> id, digest |-> draft.prepared,
                         preview |-> draft.previewTurn,
                         confirmed |-> draft.confirmationTurn]
<1>1. draft \in Session /\ IsFiniteSet(issued) /\ issued \subseteq Quotation
  BY DEF TypesSound, TypeOK
<1>2. id \in Nat \ {0}
  BY <1>1, FS_CardinalityType
<1>3. /\ Fingerprint(draft, catalog) = draft.prepared
      /\ draft.state = "AWAITING_CONFIRMATION"
      /\ draft.delivered /\ draft.confirmed /\ draft.previewTurn # 0
  BY DEF CreateQuotation, CanGenerate, Authorized, CurrentDeliveredPreview
<1>4. /\ draft' = [draft EXCEPT
                     !.generated = [id |-> id, digest |-> draft.prepared,
                                    turn |-> draft.confirmationTurn],
                     !.lastId = id, !.state = "QUOTE_GENERATED"]
      /\ issued' = issued \cup {quotation}
      /\ at = "tools"
      /\ UNCHANGED <<catalog, session, at, preceding, log, replyVars, crashes>>
  BY <1>3 DEF CreateQuotation, Generate
<1> HIDE DEF id
<1>5. draft' \in Session /\ quotation \in Quotation
  BY <1>1, <1>2, <1>4 DEF Session, State, Generated, Quotation
<1>6. IsFiniteSet(issued \cup {quotation})
  BY <1>1, FS_AddElement
<1>7. QED
  BY <1>1, <1>2, <1>3, <1>4, <1>5, <1>6

LEMMA AcknowledgeFacts ==
  ASSUME TypesSound, NEW t \in 1..now, Acknowledge(t)
  PROVE  /\ at = "idle" /\ t \in unacked /\ unacked' = unacked \ {t}
         /\ \/ session' = session
            \/ /\ session.previewTurn = t /\ t # 0
               /\ session.state = "QUOTE_REVIEW"
               /\ session' = [session EXCEPT !.delivered = TRUE, !.confirmed = FALSE,
                                !.confirmationTurn = 0,
                                !.state = "AWAITING_CONFIRMATION"]
         /\ session' \in Session
         /\ UNCHANGED <<catalog, turnVars, outbox, seen, issued, crashes>>
BY DEF TypesSound, TypeOK, Acknowledge, CanMarkReady, MarkReady, Session, State

\* The disjuncts of Next, the four edits taken together.
LEMMA NextCases ==
  ASSUME [Next]_vars
  PROVE  \/ BeginTurn \/ Edit \/ CustomerMissing \/ PrepareQuotation
         \/ ConfirmQuotation \/ CreateQuotation \/ EndTurn \/ LoseTurn
         \/ \E t \in 1..now : \/ SendPreview(t) \/ LosePreview(t)
                              \/ Acknowledge(t) \/ LoseAcknowledgement(t)
         \/ ExpireSession \/ Redeploy \/ UNCHANGED vars
BY DEF Next, RunTurn, Edit

-----------------------------------------------------------------------------
(* The invariant holds initially, and every step preserves it.             *)

LEMMA InitSound == Init => LifecycleSound
<1>1. SUFFICES ASSUME Init PROVE LifecycleSound
  OBVIOUS
<1>2. log = <<>> /\ seen = <<>> /\ now = 0 /\ issued = {} /\ DOMAIN seen = {}
  BY <1>1 DEF Init, now
<1>3. TypesSound
  <2>1. log \in Seq(Turn) /\ seen \in Seq(1..now)
    BY <1>2
  <2>2. IsFiniteSet(issued)
    BY <1>2, FS_EmptySet
  <2>3. QED
    BY <1>1, <2>1, <2>2, NewSessionFacts
       DEF Init, TypesSound, TypeOK, CartsWellFormed, OneLineEach
<1>4. RepliesSound /\ DraftSound
  BY <1>1 DEF Init, RepliesSound, DraftSound
<1>5. SessionsBound
  BY <1>1, NewSessionFacts DEF Init, SessionsBound, Bound, Revoked, NoGenerated
<1>6. IssuedAsConfirmed /\ IssueCounted
  BY <1>1, <1>2, NewSessionFacts
     DEF Init, IssuedAsConfirmed, IssueCounted, OneQuotationPerPreview, Unissued,
         Revoked
<1>7. QED
  BY <1>3, <1>4, <1>5, <1>6 DEF LifecycleSound

LEMMA StepTypes ==
  ASSUME TypesSound, RepliesSound, [Next]_vars
  PROVE  TypesSound'
<1> USE DEF OneLineEach, CartsWellFormed
<1>1. CASE BeginTurn
  <2>1. outbox \subseteq 1..now' /\ unacked \subseteq 1..now' /\ seen \in Seq(1..now')
    <3>1. 1..now \subseteq 1..now'
      BY <1>1, BeginFacts
    <3>2. QED
      BY <3>1, SeqMonotonic DEF TypesSound, TypeOK
  <2>2. QED
    BY <1>1, <2>1, BeginFacts DEF TypesSound, TypeOK, Session, replyVars
<1>2. CASE Edit
  BY <1>2, EditFacts DEF TypesSound, TypeOK, replyVars, now
<1>3. CASE CustomerMissing
  BY <1>3, RequireFacts DEF TypesSound, TypeOK, replyVars, now, Session
<1>4. CASE PrepareQuotation
  <2>1. draft'.cart = draft.cart
    BY <1>4, PrepareFacts DEF TypesSound, TypeOK, Session
  <2>2. QED
    BY <1>4, <2>1, PrepareFacts DEF TypesSound, TypeOK, replyVars
<1>5. CASE ConfirmQuotation
  BY <1>5, ConfirmFacts DEF TypesSound, TypeOK, replyVars, now, Session
<1>6. CASE CreateQuotation
  <2>1. draft'.cart = draft.cart
    BY <1>6, CreateFacts DEF TypesSound, TypeOK, Session
  <2>2. QED
    BY <1>6, <2>1, CreateFacts DEF TypesSound, TypeOK, replyVars, now
<1>7. CASE EndTurn
  <2>1. now \in 1..now
    BY <1>7 DEF TypesSound, TypeOK, RepliesSound, EndTurn, now
  <2>2. outbox' \subseteq 1..now /\ now' = now
    BY <1>7, <2>1 DEF EndTurn, TypesSound, TypeOK, now
  <2>3. /\ at' = "idle" /\ session' = draft /\ draft' = NewSession
        /\ preceding' = 0
        /\ UNCHANGED <<catalog, log, unacked, seen, issued, crashes>>
    BY <1>7 DEF EndTurn
  <2>4. QED
    BY <2>2, <2>3, NewSessionFacts DEF TypesSound, TypeOK
<1>8. CASE LoseTurn
  BY <1>8, NewSessionFacts DEF LoseTurn, TypesSound, TypeOK, replyVars, now
<1>9. ASSUME NEW t \in 1..now,
             SendPreview(t) \/ LosePreview(t) \/ LoseAcknowledgement(t)
      PROVE  TypesSound'
  <2>1. Append(seen, t) \in Seq(1..now)
    BY DEF TypesSound, TypeOK
  <2>2. /\ outbox' \subseteq 1..now /\ unacked' \subseteq 1..now
        /\ seen' \in {seen, Append(seen, t)}
        /\ UNCHANGED <<catalog, session, turnVars, issued, crashes>>
    BY <1>9 DEF SendPreview, LosePreview, LoseAcknowledgement, TypesSound, TypeOK
  <2>3. QED
    BY <2>1, <2>2 DEF TypesSound, TypeOK, turnVars, now
<1>10. ASSUME NEW t \in 1..now, Acknowledge(t)
      PROVE  TypesSound'
  <2>1. session'.cart = session.cart
    BY <1>10, AcknowledgeFacts DEF TypesSound, TypeOK, Session
  <2>2. QED
    BY <1>10, <2>1, AcknowledgeFacts DEF TypesSound, TypeOK, turnVars, now
<1>11. CASE ExpireSession
  BY <1>11, NewSessionFacts DEF ExpireSession, TypesSound, TypeOK, turnVars,
     replyVars, now
<1>12. CASE Redeploy
  BY <1>12 DEF Redeploy, TypesSound, TypeOK, turnVars, replyVars, now
<1>13. CASE UNCHANGED vars
  BY <1>13 DEF vars, turnVars, replyVars, TypesSound, TypeOK, now
<1>14. QED
  BY <1>1, <1>2, <1>3, <1>4, <1>5, <1>6, <1>7, <1>8, <1>9, <1>10, <1>11, <1>12,
     <1>13, NextCases

LEMMA AppendedSeq ==
  ASSUME NEW S, NEW s \in Seq(S), NEW e \in S
  PROVE  /\ DOMAIN s \subseteq DOMAIN Append(s, e)
         /\ \A i \in DOMAIN s : Append(s, e)[i] = s[i]
         /\ \E i \in DOMAIN Append(s, e) : Append(s, e)[i] = e
         /\ \A i \in DOMAIN Append(s, e) :
              Append(s, e)[i] = e \/ (i \in DOMAIN s /\ Append(s, e)[i] = s[i])
<1> DEFINE longer == Append(s, e)
<1>1. /\ Len(s) \in Nat /\ DOMAIN s = 1..Len(s) /\ DOMAIN longer = 1..(Len(s) + 1)
      /\ \A i \in 1..Len(s) : longer[i] = s[i]
      /\ longer[Len(s) + 1] = e
  OBVIOUS
<1> HIDE DEF longer
<1>2. \A i \in 1..(Len(s) + 1) : i \in 1..Len(s) \/ i = Len(s) + 1
  BY <1>1
<1>3. 1..Len(s) \subseteq 1..(Len(s) + 1) /\ Len(s) + 1 \in 1..(Len(s) + 1)
  BY <1>1
<1> HIDE <1>2, <1>3
<1>4. QED
  BY <1>1, <1>2, <1>3 DEF longer

LEMMA SeenGrows ==
  ASSUME TypesSound, [Next]_vars
  PROVE  \A t \in Nat : Seen(t) => Seen(t)'
<1>1. CASE seen' = seen
  BY <1>1 DEF Seen
<1>2. ASSUME NEW u \in 1..now, seen' = Append(seen, u)
      PROVE  \A t \in Nat : Seen(t) => Seen(t)'
  <2>1. /\ DOMAIN seen \subseteq DOMAIN seen'
        /\ \A i \in DOMAIN seen : seen'[i] = seen[i]
    BY <1>2, AppendedSeq DEF TypesSound, TypeOK
  <2>2. QED
    BY <2>1 DEF Seen
<1>3. seen' = seen \/ \E u \in 1..now : seen' = Append(seen, u)
  BY NextCases, EditFacts, BeginFacts, RequireFacts, PrepareFacts, ConfirmFacts,
     CreateFacts, AcknowledgeFacts
     DEF EndTurn, LoseTurn, SendPreview, LosePreview, LoseAcknowledgement,
         ExpireSession, Redeploy, vars, replyVars
<1>4. QED
  BY <1>1, <1>2, <1>3

\* The past stands: turns, what was received, what was issued.
HistoryGrows ==
  /\ now \in Nat /\ now' \in Nat /\ now <= now' /\ issued \subseteq issued'
  /\ \A t \in Nat : Seen(t) => Seen(t)'
  /\ \A t \in 1..now :
       /\ log'[t].explicit = log[t].explicit
       /\ t # now \/ at # "tools" => log'[t].preview = log[t].preview

LEMMA HistoryFacts ==
  ASSUME TypesSound, [Next]_vars
  PROVE  HistoryGrows
<1>1. now \in Nat
  BY DEF TypesSound, TypeOK, now
<1>2. CASE BeginTurn
  BY <1>1, <1>2, BeginFacts, SeenGrows DEF HistoryGrows
<1>3. CASE PrepareQuotation
  BY <1>1, <1>3, PrepareFacts, SeenGrows DEF HistoryGrows
<1>4. CASE CreateQuotation
  <2>1. log' = log /\ now' = now /\ issued \subseteq issued'
    BY <1>4, CreateFacts DEF now
  <2>2. QED
    BY <1>1, <2>1, SeenGrows DEF HistoryGrows
<1>5. CASE UNCHANGED <<log, issued>>
  BY <1>1, <1>5, SeenGrows DEF HistoryGrows, now
<1>6. BeginTurn \/ PrepareQuotation \/ CreateQuotation \/ UNCHANGED <<log, issued>>
  BY NextCases, EditFacts, RequireFacts, ConfirmFacts, AcknowledgeFacts
     DEF EndTurn, LoseTurn, SendPreview, LosePreview, LoseAcknowledgement,
         ExpireSession, Redeploy, vars, turnVars
<1>7. QED
  BY <1>2, <1>3, <1>4, <1>5, <1>6

LEMMA StepReplies ==
  ASSUME TypesSound, RepliesSound, [Next]_vars
  PROVE  RepliesSound'
<1>1. /\ now \in Nat /\ outbox \subseteq 1..now /\ unacked \subseteq 1..now
      /\ seen \in Seq(1..now)
  BY DEF TypesSound, TypeOK, now
<1>2. \A t \in Nat : Seen(t) => t \in 1..now
  BY <1>1 DEF Seen
<1>3. CASE BeginTurn
  <2>1. now' = now + 1 /\ UNCHANGED <<outbox, unacked, seen>>
    BY <1>3, BeginFacts DEF replyVars
  <2>2. now' \notin outbox \cup unacked /\ now' # 0 /\ now' \in Nat
    BY <1>1, <2>1
  <2>3. ~Seen(now')
    BY <1>2, <1>1, <2>1, <2>2
  <2>4. QED
    BY <2>1, <2>2, <2>3 DEF RepliesSound, Seen
<1>4. ASSUME UNCHANGED <<outbox, unacked, seen>>, now' = now,
             at' # "idle" => at # "idle"
      PROVE  RepliesSound'
  BY <1>4 DEF RepliesSound, Seen
<1>5. CASE Edit
  BY <1>5, <1>4, EditFacts DEF replyVars, now
<1>6. CASE CustomerMissing \/ ConfirmQuotation \/ CreateQuotation
  BY <1>6, <1>4, RequireFacts, ConfirmFacts, CreateFacts DEF replyVars, now
<1>7. CASE PrepareQuotation
  BY <1>7, <1>4, PrepareFacts DEF replyVars
<1>8. CASE EndTurn \/ LoseTurn
  <2>1. at' = "idle" /\ UNCHANGED <<unacked, seen>>
    BY <1>8 DEF EndTurn, LoseTurn, replyVars
  <2>2. QED
    BY <2>1 DEF RepliesSound, Seen
<1>9. ASSUME NEW t \in 1..now, SendPreview(t) \/ LosePreview(t)
      PROVE  RepliesSound'
  <2>1. /\ t \in outbox /\ outbox' = outbox \ {t}
        /\ seen' \in {seen, Append(seen, t)}
        /\ \/ unacked' = unacked
           \/ unacked' = unacked \cup {t} /\ seen' = Append(seen, t)
        /\ at' = at /\ now' = now
    BY <1>9 DEF SendPreview, LosePreview, turnVars, now
  <2>2. ASSUME seen' = Append(seen, t)
        PROVE  /\ \E i \in DOMAIN seen' : seen'[i] = t
               /\ \A i \in DOMAIN seen' :
                    seen'[i] = t \/ (i \in DOMAIN seen /\ seen'[i] = seen[i])
    BY <1>1, <2>2, AppendedSeq
  <2>3. \A u \in Nat : Seen(u)' => Seen(u) \/ u = t
    BY <2>1, <2>2 DEF Seen
  <2>4. ASSUME NEW u \in unacked'
        PROVE  Seen(u)'
    <3>1. CASE u \in unacked
      BY <1>1, <3>1, SeenGrows DEF RepliesSound
    <3>2. CASE u = t /\ seen' = Append(seen, t)
      BY <2>2, <3>2 DEF Seen
    <3>3. QED
      BY <2>1, <3>1, <3>2
  <2>5. ASSUME at # "idle"
        PROVE  now # 0 /\ now \notin outbox' \cup unacked' /\ ~Seen(now)'
    BY <1>1, <2>1, <2>3, <2>5 DEF RepliesSound
  <2>6. QED
    BY <2>1, <2>4, <2>5 DEF RepliesSound, Seen
<1>10. ASSUME NEW t \in 1..now, Acknowledge(t) \/ LoseAcknowledgement(t)
      PROVE  RepliesSound'
  <2>1. unacked' \subseteq unacked /\ UNCHANGED <<at, log, outbox, seen>>
    BY <1>10 DEF Acknowledge, LoseAcknowledgement, turnVars
  <2>2. QED
    BY <2>1 DEF RepliesSound, Seen, now
<1>11. CASE ExpireSession \/ Redeploy \/ UNCHANGED vars
  BY <1>4, <1>11 DEF ExpireSession, Redeploy, vars, turnVars, replyVars, now
<1>12. QED
  BY <1>3, <1>5, <1>6, <1>7, <1>8, <1>9, <1>10, <1>11, NextCases

\* A session that a step leaves alone stays bound, unless its preview is being
\* prepared just now.
LEMMA SessionStaysBound ==
  ASSUME TypesSound, HistoryGrows, Bound(session), session' = session,
         at = "tools" => session.previewTurn < now
  PROVE  Bound(session)'
<1>1. session \in Session /\ now \in Nat
  BY DEF TypesSound, TypeOK, now
<1>2. session.previewTurn \in Nat /\ session.confirmationTurn \in Nat
  BY <1>1 DEF Session
<1>3. session.previewTurn # 0 =>
        /\ session.previewTurn <= now'
        /\ session.prepared = log'[session.previewTurn].preview
  BY <1>1, <1>2 DEF HistoryGrows, Bound
<1>4. session.delivered => Seen(session.previewTurn)'
  BY <1>2 DEF HistoryGrows, Bound
<1>5. session.confirmed =>
        session.confirmationTurn <= now' /\ log'[session.confirmationTurn].explicit
  BY <1>1, <1>2 DEF HistoryGrows, Bound
<1>6. session.generated.id # 0 =>
        \E q \in issued' : /\ q.id = session.generated.id
                           /\ q.confirmed = session.generated.turn
                           /\ q.digest = session.generated.digest
  BY DEF HistoryGrows, Bound
<1>7. /\ session.previewTurn = 0 <=> session.prepared = NoDigest
      /\ session.previewTurn # 0 <=> session.state \in
           {"QUOTE_REVIEW", "AWAITING_CONFIRMATION", "QUOTE_GENERATED"}
      /\ session.previewTurn # 0 =>
           /\ session.prepared.cart = session.cart
           /\ session.prepared.customer = session.customer
           /\ session.cart # <<>> /\ Ready(session)
      /\ session.delivered <=>
           session.state \in {"AWAITING_CONFIRMATION", "QUOTE_GENERATED"}
      /\ session.confirmed <=> session.confirmationTurn # 0
      /\ session.confirmed =>
           session.delivered /\ session.previewTurn < session.confirmationTurn
      /\ session.state = "QUOTE_GENERATED" =>
           /\ session.confirmed /\ session.generated.id # 0
           /\ session.lastId = session.generated.id
           /\ session.generated.digest = session.prepared
           /\ session.generated.turn = session.confirmationTurn
  BY DEF Bound
<1>8. QED
  BY <1>3, <1>4, <1>5, <1>6, <1>7 DEF Bound, Seen

LEMMA RevokedIsBound ==
  /\ Revoked(draft') => Bound(draft)'
  /\ Revoked(session') => Bound(session)'
BY DEF Revoked, Bound, NoGenerated

\* A copy whose preview is an earlier turn's keeps it.
LEMMA DraftKeepsHistory ==
  ASSUME TypesSound, HistoryGrows, Bound(draft), at # "tools" \/ draft.previewTurn < now
  PROVE  /\ draft.previewTurn # 0 =>
              /\ draft.previewTurn <= now'
              /\ draft.prepared = log'[draft.previewTurn].preview
         /\ draft.delivered => \E i \in DOMAIN seen' : seen'[i] = draft.previewTurn
         /\ draft.confirmed => /\ draft.confirmationTurn <= now'
                               /\ log'[draft.confirmationTurn].explicit
         /\ draft.generated.id # 0 =>
              \E q \in issued' : /\ q.id = draft.generated.id
                                 /\ q.confirmed = draft.generated.turn
                                 /\ q.digest = draft.generated.digest
<1>1. draft \in Session /\ now \in Nat
  BY DEF TypesSound, TypeOK, now
<1>2. draft.previewTurn \in Nat /\ draft.confirmationTurn \in Nat
  BY <1>1 DEF Session
<1>3. draft.previewTurn # 0 =>
        /\ draft.previewTurn <= now'
        /\ draft.prepared = log'[draft.previewTurn].preview
  BY <1>1, <1>2 DEF HistoryGrows, Bound
<1>4. draft.delivered => \E i \in DOMAIN seen' : seen'[i] = draft.previewTurn
  BY <1>2 DEF HistoryGrows, Bound, Seen
<1>5. draft.confirmed =>
        draft.confirmationTurn <= now' /\ log'[draft.confirmationTurn].explicit
  BY <1>1, <1>2 DEF HistoryGrows, Bound
<1>6. QED
  BY <1>3, <1>4, <1>5 DEF HistoryGrows, Bound

LEMMA DraftIsEarlier ==
  ASSUME TypesSound, RepliesSound, DraftSound, at = "tools"
  PROVE  draft.previewTurn < now /\ session.previewTurn < now /\ now \in Nat \ {0}
<1>1. now \in Nat \ {0}
  BY DEF TypesSound, TypeOK, RepliesSound, now
<1>2. QED
  BY <1>1 DEF DraftSound, DraftFollows, FromSession

LEMMA StepSessionBound ==
  ASSUME TypesSound, RepliesSound, SessionsBound, DraftSound, [Next]_vars
  PROVE  Bound(session)'
<1>1. HistoryGrows /\ Bound(session) /\ Bound(draft)
  BY HistoryFacts DEF SessionsBound
<1>2. CASE session' = session
  BY <1>1, <1>2, DraftIsEarlier, SessionStaysBound
<1>3. CASE EndTurn
  <2>1. session' = draft /\ UNCHANGED <<log, seen, issued>>
    BY <1>3 DEF EndTurn
  <2>2. QED
    BY <1>1, <2>1 DEF Bound, Seen, now
<1>4. ASSUME NEW t \in 1..now, Acknowledge(t)
      PROVE  Bound(session)'
  <2>1. CASE session' # session
    <3>1. /\ session.previewTurn = t /\ session.state = "QUOTE_REVIEW"
          /\ t \in unacked
          /\ session' = [session EXCEPT !.delivered = TRUE, !.confirmed = FALSE,
                           !.confirmationTurn = 0,
                           !.state = "AWAITING_CONFIRMATION"]
          /\ UNCHANGED <<log, seen, issued>>
      BY <1>4, <2>1, AcknowledgeFacts DEF turnVars
    <3>2. session \in Session /\ Seen(session.previewTurn)
      BY <3>1 DEF TypesSound, TypeOK, RepliesSound
    <3>3. /\ session'.prepared = session.prepared
          /\ session'.previewTurn = session.previewTurn
          /\ session'.cart = session.cart /\ session'.customer = session.customer
          /\ session'.generated = session.generated
          /\ session'.lastId = session.lastId
          /\ session'.delivered /\ ~session'.confirmed
          /\ session'.confirmationTurn = 0
          /\ session'.state = "AWAITING_CONFIRMATION"
      BY <3>1, <3>2 DEF Session
    <3>4. QED
      BY <1>1, <3>1, <3>2, <3>3 DEF Bound, Seen, Ready, now
  <2>2. QED
    BY <1>2, <2>1
<1>5. CASE ExpireSession
  BY <1>5, NewSessionFacts, RevokedIsBound DEF ExpireSession
<1>6. QED
  BY <1>2, <1>3, <1>4, <1>5, NextCases, BeginFacts, EditFacts, RequireFacts,
     PrepareFacts, ConfirmFacts, CreateFacts
     DEF LoseTurn, SendPreview, LosePreview, LoseAcknowledgement, Redeploy, vars

LEMMA StepDraftBound ==
  ASSUME TypesSound, RepliesSound, SessionsBound, DraftSound, [Next]_vars
  PROVE  Bound(draft)'
<1>1. HistoryGrows /\ Bound(session) /\ Bound(draft)
  BY HistoryFacts DEF SessionsBound
<1>2. draft \in Session /\ now \in Nat
  BY DEF TypesSound, TypeOK, now
<1>3. CASE BeginTurn
  <2>1. /\ draft' = session /\ session' = session /\ at = "idle"
    BY <1>3, BeginFacts
  <2>2. Bound(session)'
    BY <1>1, <2>1, SessionStaysBound
  <2>3. QED
    BY <2>1, <2>2 DEF Bound
<1>4. CASE Edit
  BY <1>4, EditFacts, RevokedIsBound
<1>5. CASE CustomerMissing
  <2>1. /\ ~Ready(draft) /\ draft' = [draft EXCEPT !.state = "CUSTOMER_DETAILS"]
        /\ UNCHANGED <<log, seen, issued>>
    BY <1>5, RequireFacts DEF replyVars
  <2>2. draft.previewTurn = 0
    BY <1>1, <2>1 DEF Bound
  <2>3. QED
    BY <1>1, <1>2, <2>1, <2>2 DEF Bound, Session
<1>6. CASE PrepareQuotation
  <2>1. /\ at = "tools" /\ draft.cart # <<>> /\ Ready(draft)
        /\ draft' = [draft EXCEPT !.prepared = Fingerprint(draft, catalog),
                       !.previewTurn = now, !.delivered = FALSE,
                       !.confirmed = FALSE, !.confirmationTurn = 0,
                       !.state = "QUOTE_REVIEW"]
        /\ now' = now
        /\ now \in 1..now => log'[now].preview = Fingerprint(draft, catalog)
    BY <1>6, PrepareFacts
  <2>2. now # 0 /\ now \in 1..now
    BY <2>1, DraftIsEarlier
  <2>3. /\ Fingerprint(draft, catalog).cart = draft.cart
        /\ Fingerprint(draft, catalog).customer = draft.customer
        /\ Fingerprint(draft, catalog) # NoDigest
    BY <1>2, <2>1, FingerprintFacts DEF TypesSound, TypeOK
  <2>4. /\ draft'.prepared = Fingerprint(draft, catalog)
        /\ draft'.previewTurn = now /\ ~draft'.delivered /\ ~draft'.confirmed
        /\ draft'.confirmationTurn = 0 /\ draft'.state = "QUOTE_REVIEW"
        /\ draft'.cart = draft.cart /\ draft'.customer = draft.customer
        /\ draft'.generated = draft.generated
    BY <1>2, <2>1 DEF Session
  <2>5. draft.generated.id # 0 =>
          \E q \in issued' : /\ q.id = draft.generated.id
                             /\ q.confirmed = draft.generated.turn
                             /\ q.digest = draft.generated.digest
    BY <1>1 DEF HistoryGrows, Bound
  <2>6. draft'.prepared = log'[draft'.previewTurn].preview
    BY <2>1, <2>2, <2>4
  <2> HIDE <2>1
  <2>7. now' = now /\ Ready(draft')
    BY <2>1, <2>4 DEF Ready
  <2>8. draft'.cart # <<>> /\ now <= now' /\ draft'.prepared # NoDigest
    BY <1>2, <2>1, <2>3, <2>4
  <2>9. QED
    BY <2>2, <2>3, <2>4, <2>5, <2>6, <2>7, <2>8 DEF Bound, Ready
<1>7. CASE ConfirmQuotation
  <2>1. /\ draft.state = "AWAITING_CONFIRMATION" /\ draft.delivered
        /\ log[now].explicit
        /\ draft' = [draft EXCEPT !.confirmed = TRUE, !.confirmationTurn = now]
        /\ UNCHANGED <<log, seen, issued>>
    BY <1>7, ConfirmFacts DEF replyVars
  <2>2. draft.previewTurn < now /\ now # 0
    BY <1>7, ConfirmFacts, DraftIsEarlier
  <2>3. /\ draft'.prepared = draft.prepared /\ draft'.state = draft.state
        /\ draft'.previewTurn = draft.previewTurn
        /\ draft'.cart = draft.cart /\ draft'.customer = draft.customer
        /\ draft'.generated = draft.generated /\ draft'.delivered = draft.delivered
        /\ draft'.confirmed /\ draft'.confirmationTurn = now
    BY <1>2, <2>1 DEF Session
  <2>4. QED
    BY <1>1, <1>2, <2>1, <2>2, <2>3 DEF Bound, Seen, Ready, now
<1>8. CASE CreateQuotation
  <2>1. PICK id \in Nat \ {0} :
          /\ draft' = [draft EXCEPT
                         !.generated = [id |-> id, digest |-> draft.prepared,
                                        turn |-> draft.confirmationTurn],
                         !.lastId = id, !.state = "QUOTE_GENERATED"]
          /\ issued' = issued \cup
               {[id |-> id, digest |-> draft.prepared,
                 preview |-> draft.previewTurn,
                 confirmed |-> draft.confirmationTurn]}
    BY <1>8, CreateFacts
  <2>2. /\ draft.state = "AWAITING_CONFIRMATION" /\ draft.confirmed
        /\ UNCHANGED <<log, seen>>
    BY <1>8, CreateFacts DEF replyVars
  <2>3. /\ draft'.prepared = draft.prepared /\ draft'.state = "QUOTE_GENERATED"
        /\ draft'.previewTurn = draft.previewTurn
        /\ draft'.cart = draft.cart /\ draft'.customer = draft.customer
        /\ draft'.delivered = draft.delivered /\ draft'.confirmed = draft.confirmed
        /\ draft'.confirmationTurn = draft.confirmationTurn
        /\ draft'.lastId = id
        /\ draft'.generated = [id |-> id, digest |-> draft.prepared,
                               turn |-> draft.confirmationTurn]
    BY <1>2, <2>1 DEF Session
  <2>4. \E q \in issued' : /\ q.id = draft'.generated.id
                           /\ q.confirmed = draft'.generated.turn
                           /\ q.digest = draft'.generated.digest
    <3> DEFINE q == [id |-> id, digest |-> draft.prepared,
                     preview |-> draft.previewTurn,
                     confirmed |-> draft.confirmationTurn]
    <3>1. q \in issued' /\ q.id = id /\ q.digest = draft.prepared
          /\ q.confirmed = draft.confirmationTurn
      BY <2>1
    <3> HIDE DEF q
    <3>2. QED
      BY <2>3, <3>1
  <2>5. QED
    BY <1>1, <2>2, <2>3, <2>4 DEF Bound, Seen, Ready, now
<1>9. CASE draft' = NewSession
  BY <1>9, NewSessionFacts, RevokedIsBound
<1>10. CASE draft' = draft /\ log' = log /\ issued' = issued
  <2>1. \A t \in Nat : Seen(t) => Seen(t)'
    BY <1>1 DEF HistoryGrows
  <2>2. draft.delivered => \E i \in DOMAIN seen' : seen'[i] = draft.previewTurn
    BY <1>1, <1>2, <2>1 DEF Bound, Seen, Session
  <2>3. QED
    BY <1>1, <1>10, <2>2 DEF Bound, Seen, Ready, now
<1>11. QED
  BY <1>3, <1>4, <1>5, <1>6, <1>7, <1>8, <1>9, <1>10, NextCases, AcknowledgeFacts
     DEF EndTurn, LoseTurn, SendPreview, LosePreview, LoseAcknowledgement,
         ExpireSession, Redeploy, vars, turnVars

LEMMA StepDraft ==
  ASSUME TypesSound, RepliesSound, SessionsBound, DraftSound, [Next]_vars
  PROVE  DraftSound'
<1>1. Bound(session) /\ Bound(draft) /\ draft \in Session /\ session \in Session
  BY DEF SessionsBound, TypesSound, TypeOK
<1>2. CASE BeginTurn
  <2>1. /\ draft' = session /\ session' = session
        /\ now' = now + 1 /\ now \in Nat
    BY <1>2, BeginFacts
  <2>2. session.previewTurn < now'
    BY <1>1, <2>1 DEF Bound, Session
  <2>3. QED
    BY <2>1, <2>2 DEF DraftSound, DraftFollows, FromSession
<1>3. ASSUME at = "tools", at' \in {"tools", "done"}, session' = session, now' = now,
             \/ draft'.previewTurn = 0
             \/ /\ at' = "done" /\ draft'.previewTurn = now
                /\ draft'.state = "QUOTE_REVIEW"
             \/ FromSession',
             \/ Withdrawn(draft')
             \/ draft'.cart = session.cart /\ draft'.customer = session.customer
      PROVE  DraftSound'
  BY <1>3 DEF DraftSound, DraftFollows
<1>4. CASE Edit
  <2>1. /\ at = "tools" /\ at' = at /\ session' = session /\ now' = now
        /\ draft'.previewTurn = 0 /\ Withdrawn(draft')
    BY <1>4, EditFacts DEF now, Revoked, Withdrawn, NoGenerated
  <2>2. QED
    BY <1>3, <2>1
<1>5. CASE CustomerMissing
  <2>1. /\ at = "tools" /\ at' = at /\ session' = session /\ now' = now
        /\ ~Ready(draft) /\ draft' = [draft EXCEPT !.state = "CUSTOMER_DETAILS"]
    BY <1>5, RequireFacts DEF now
  <2>2. draft.previewTurn = 0 /\ ~draft.confirmed
    BY <1>1, <2>1 DEF Bound
  <2>3. /\ draft'.previewTurn = 0 /\ ~draft'.confirmed
        /\ draft'.state = "CUSTOMER_DETAILS" /\ draft'.generated = draft.generated
        /\ draft'.cart = draft.cart /\ draft'.customer = draft.customer
    BY <1>1, <2>1, <2>2 DEF Session
  <2>4. \/ Withdrawn(draft')
        \/ draft'.cart = session.cart /\ draft'.customer = session.customer
    BY <2>1, <2>3 DEF DraftSound, DraftFollows, Withdrawn
  <2>5. QED
    BY <1>3, <2>1, <2>3, <2>4
<1>6. CASE PrepareQuotation
  <2>1. /\ at = "tools" /\ at' = "done" /\ session' = session /\ now' = now
        /\ draft' = [draft EXCEPT !.prepared = Fingerprint(draft, catalog),
                       !.previewTurn = now, !.delivered = FALSE,
                       !.confirmed = FALSE, !.confirmationTurn = 0,
                       !.state = "QUOTE_REVIEW"]
    BY <1>6, PrepareFacts
  <2>2. /\ draft'.previewTurn = now /\ ~draft'.confirmed
        /\ draft'.state = "QUOTE_REVIEW" /\ draft'.generated = draft.generated
        /\ draft'.cart = draft.cart /\ draft'.customer = draft.customer
    BY <1>1, <2>1 DEF Session
  <2>3. \/ Withdrawn(draft')
        \/ draft'.cart = session.cart /\ draft'.customer = session.customer
    BY <2>1, <2>2 DEF DraftSound, DraftFollows, Withdrawn
  <2>4. QED
    BY <1>3, <2>1, <2>2, <2>3
<1>7. CASE ConfirmQuotation \/ CreateQuotation
  <2>1. /\ at = "tools" /\ at' = at /\ session' = session /\ now' = now
        /\ draft.state = "AWAITING_CONFIRMATION" /\ draft.previewTurn # 0
    BY <1>7, ConfirmFacts, CreateFacts DEF now
  <2>2. /\ draft'.previewTurn = draft.previewTurn
        /\ draft'.state \in {draft.state, "QUOTE_GENERATED"}
        /\ draft'.confirmed
        /\ draft'.cart = draft.cart /\ draft'.customer = draft.customer
    <3>1. CASE ConfirmQuotation
      BY <1>1, <3>1, ConfirmFacts DEF Session
    <3>2. CASE CreateQuotation
      <4>1. PICK id \in Nat :
              draft' = [draft EXCEPT
                          !.generated = [id |-> id, digest |-> draft.prepared,
                                         turn |-> draft.confirmationTurn],
                          !.lastId = id, !.state = "QUOTE_GENERATED"]
        BY <3>2, CreateFacts
      <4>2. draft.confirmed
        BY <3>2, CreateFacts
      <4>3. QED
        BY <1>1, <4>1, <4>2 DEF Session
    <3>3. QED
      BY <1>7, <3>1, <3>2
  <2>3. /\ FromSession
        /\ draft.cart = session.cart /\ draft.customer = session.customer
    BY <2>1 DEF DraftSound, DraftFollows, Withdrawn
  <2>4. session.state = "AWAITING_CONFIRMATION"
    BY <2>1, <2>3 DEF FromSession
  <2>5. FromSession'
    BY <2>1, <2>2, <2>3, <2>4 DEF FromSession
  <2>6. QED
    BY <1>3, <2>1, <2>2, <2>3, <2>5
<1>8. CASE at' = "idle"
  BY <1>8 DEF DraftSound
<1>9. CASE UNCHANGED <<at, draft, session, log>>
  BY <1>9 DEF DraftSound, DraftFollows, FromSession, now
<1>10. QED
  BY <1>2, <1>4, <1>5, <1>6, <1>7, <1>8, <1>9, NextCases, AcknowledgeFacts
     DEF EndTurn, LoseTurn, SendPreview, LosePreview, LoseAcknowledgement,
         ExpireSession, Redeploy, vars, turnVars

LEMMA StepIssued ==
  ASSUME TypesSound, RepliesSound, SessionsBound, DraftSound, IssuedAsConfirmed,
         [Next]_vars
  PROVE  IssuedAsConfirmed'
<1>1. HistoryGrows /\ Bound(draft) /\ draft \in Session
  BY HistoryFacts DEF SessionsBound, TypesSound, TypeOK
<1>2. ASSUME NEW q \in issued
      PROVE  /\ Seen(q.preview)' /\ q.preview < q.confirmed /\ q.confirmed <= now'
             /\ q.digest = log'[q.preview].preview
             /\ log'[q.confirmed].explicit
  <2>1. q.preview \in Nat /\ q.confirmed \in Nat
    BY DEF TypesSound, TypeOK, Quotation
  <2>2. /\ Seen(q.preview) /\ q.preview < q.confirmed /\ q.confirmed <= now
        /\ q.digest = log[q.preview].preview /\ log[q.confirmed].explicit
    BY DEF IssuedAsConfirmed
  <2>3. q.preview \in 1..now /\ q.confirmed \in 1..now /\ q.preview # now
    <3>1. seen \in Seq(1..now)
      BY DEF TypesSound, TypeOK
    <3>2. \A i \in DOMAIN seen : seen[i] \in 1..now
      <4>1. DOMAIN seen = 1..Len(seen)
        BY <3>1, LenProperties
      <4>2. \A i \in 1..Len(seen) : seen[i] \in 1..now
        BY <3>1, ElementOfSeq
      <4>3. QED
        BY <4>1, <4>2
    <3>3. q.preview \in 1..now
      BY <2>2, <3>2 DEF Seen
    <3>4. QED
      BY <1>1, <2>1, <2>2, <3>3 DEF HistoryGrows
  <2>4. QED
    BY <1>1, <2>1, <2>2, <2>3 DEF HistoryGrows
<1>3. CASE issued' = issued
  BY <1>2, <1>3 DEF IssuedAsConfirmed, Seen
<1>4. CASE CreateQuotation
  <2>1. PICK id : issued' = issued \cup
                    {[id |-> id, digest |-> draft.prepared,
                      preview |-> draft.previewTurn,
                      confirmed |-> draft.confirmationTurn]}
    BY <1>4, CreateFacts
  <2>2. draft.confirmed /\ draft.previewTurn # 0 /\ UNCHANGED <<log, seen>>
    BY <1>4, CreateFacts DEF replyVars
  <2>3. /\ Seen(draft.previewTurn) /\ draft.previewTurn < draft.confirmationTurn
        /\ draft.confirmationTurn <= now
        /\ draft.prepared = log[draft.previewTurn].preview
        /\ log[draft.confirmationTurn].explicit
    BY <1>1, <2>2 DEF Bound
  <2>4. ASSUME NEW q \in issued', q \notin issued
        PROVE  /\ \E i \in DOMAIN seen' : seen'[i] = q.preview
               /\ q.preview < q.confirmed /\ q.confirmed <= now'
               /\ q.digest = log'[q.preview].preview
               /\ log'[q.confirmed].explicit
    <3>1. /\ q.preview = draft.previewTurn /\ q.confirmed = draft.confirmationTurn
          /\ q.digest = draft.prepared
      <4>1. q = [id |-> id, digest |-> draft.prepared,
                 preview |-> draft.previewTurn,
                 confirmed |-> draft.confirmationTurn]
        BY <2>1, <2>4
      <4>2. QED
        BY <4>1
    <3>2. QED
      BY <2>2, <2>3, <3>1 DEF Seen, now
  <2>5. QED
    BY <1>2, <2>4 DEF IssuedAsConfirmed, Seen
<1>5. QED
  BY <1>3, <1>4, NextCases, BeginFacts, EditFacts, RequireFacts, PrepareFacts,
     ConfirmFacts, AcknowledgeFacts
     DEF EndTurn, LoseTurn, SendPreview, LosePreview, LoseAcknowledgement,
         ExpireSession, Redeploy, vars

LEMMA CountFacts ==
  ASSUME TypesSound
  PROVE  \A t : IsFiniteSet(QuotationsOf(t)) /\ Cardinality(QuotationsOf(t)) \in Nat
<1>1. \A t : QuotationsOf(t) \subseteq issued
  BY DEF QuotationsOf
<1>2. QED
  BY <1>1, FS_Subset, FS_CardinalityType DEF TypesSound

\* What the running turn, or one to come, prepares has no quotation yet.
LEMMA LateUnissued ==
  ASSUME TypesSound, IssuedAsConfirmed
  PROVE  \A t \in Nat : t >= now => Cardinality(QuotationsOf(t)) = 0
<1>1. ASSUME NEW t \in Nat, t >= now
      PROVE  QuotationsOf(t) = {}
  <2>1. \A q \in issued : q.preview < now
    <3>1. now \in Nat /\ \A q \in issued : q.preview \in Nat /\ q.confirmed \in Nat
      BY DEF TypesSound, TypeOK, Quotation, now
    <3>2. \A q \in issued : q.preview < q.confirmed /\ q.confirmed <= now
      BY DEF IssuedAsConfirmed
    <3>3. QED
      BY <3>1, <3>2
  <2>2. now \in Nat
    BY DEF TypesSound, TypeOK, now
  <2>3. QED
    BY <1>1, <2>1, <2>2 DEF QuotationsOf
<1>2. QED
  BY <1>1, FS_EmptySet

LEMMA StepCounted ==
  ASSUME TypesSound, RepliesSound, SessionsBound, DraftSound, IssuedAsConfirmed,
         IssueCounted, [Next]_vars
  PROVE  IssueCounted'
<1> DEFINE count(t) == Cardinality(QuotationsOf(t))
<1>1. /\ Bound(session) /\ Bound(draft) /\ draft \in Session /\ session \in Session
      /\ now \in Nat /\ crashes \in Nat
  BY DEF SessionsBound, TypesSound, TypeOK, now
<1>2. \A t : count(t) \in Nat
  BY CountFacts
<1>3. \A t \in 1..now : count(t) <= 1 + crashes
  BY DEF IssueCounted, OneQuotationPerPreview, QuotationsOf
<1>4. \A t \in Nat : t >= now => count(t) = 0
  BY LateUnissued
<1>5. ASSUME issued' = issued
      PROVE  \A t : count(t)' = count(t)
  BY <1>5 DEF QuotationsOf
<1> HIDE DEF count
<1>6. ASSUME issued' = issued, now' \in {now, now + 1}, crashes' \in {crashes, crashes + 1}
      PROVE  OneQuotationPerPreview'
  <2>1. SUFFICES ASSUME NEW t \in 1..now'
                 PROVE  count(t)' <= 1 + crashes'
    BY DEF OneQuotationPerPreview, count, QuotationsOf
  <2>2. count(t)' = count(t) /\ count(t) \in Nat
    BY <1>2, <1>5, <1>6
  <2>3. count(t) <= 1 + crashes
    BY <1>1, <1>3, <1>4, <1>6
  <2>4. QED
    BY <1>1, <1>6, <2>2, <2>3
<1>7. Unissued(session) <=>
        (session.previewTurn # 0 /\ session.state # "QUOTE_GENERATED"
         => count(session.previewTurn) <= crashes)
  BY DEF Unissued, count
<1>8. Unissued(draft) <=>
        (draft.previewTurn # 0 /\ draft.state # "QUOTE_GENERATED"
         => count(draft.previewTurn) <= crashes)
  BY DEF Unissued, count
<1>9. ASSUME issued' = issued
      PROVE  /\ Unissued(session)' <=>
                  (session'.previewTurn # 0 /\ session'.state # "QUOTE_GENERATED"
                   => count(session'.previewTurn) <= crashes')
             /\ Unissued(draft)' <=>
                  (draft'.previewTurn # 0 /\ draft'.state # "QUOTE_GENERATED"
                   => count(draft'.previewTurn) <= crashes')
  BY <1>9 DEF Unissued, count, QuotationsOf
<1>10. CASE BeginTurn
  <2>1. /\ at = "idle" /\ at' = "tools" /\ draft' = session
        /\ now' = now + 1 /\ issued' = issued /\ crashes' = crashes
    BY <1>10, BeginFacts
  <2>2. Unissued(draft)'
    BY <1>7, <1>9, <2>1 DEF IssueCounted
  <2>3. QED
    BY <1>6, <2>1, <2>2 DEF IssueCounted
<1>11. ASSUME at = "tools", at' \in {"tools", "done"}, now' = now,
              issued' = issued, crashes' = crashes,
              \/ draft'.previewTurn \in {0, now}
              \/ /\ draft'.previewTurn = draft.previewTurn
                 /\ draft'.state = draft.state
       PROVE  IssueCounted'
  <2>1. now # 0 => count(now) = 0
    BY <1>1, <1>4
  <2>2. Unissued(draft)'
    BY <1>1, <1>8, <1>9, <1>11, <2>1 DEF IssueCounted
  <2>3. QED
    BY <1>6, <1>11, <2>2 DEF IssueCounted
<1>12. CASE Edit
  BY <1>11, <1>12, EditFacts DEF Revoked, now
<1>13. CASE CustomerMissing
  <2>1. draft.previewTurn = 0
    BY <1>1, <1>13, RequireFacts DEF Bound
  <2>2. draft'.previewTurn = 0
    BY <1>1, <1>13, <2>1, RequireFacts DEF Session
  <2>3. QED
    BY <1>11, <1>13, <2>2, RequireFacts DEF now
<1>14. CASE PrepareQuotation
  <2>1. draft'.previewTurn = now
    BY <1>1, <1>14, PrepareFacts DEF Session
  <2>2. QED
    BY <1>11, <1>14, <2>1, PrepareFacts
<1>15. CASE ConfirmQuotation
  <2>1. draft'.previewTurn = draft.previewTurn /\ draft'.state = draft.state
    BY <1>1, <1>15, ConfirmFacts DEF Session
  <2>2. QED
    BY <1>11, <1>15, <2>1, ConfirmFacts DEF now
<1>16. CASE CreateQuotation
  <2>1. PICK id \in Nat :
          /\ draft' = [draft EXCEPT
                         !.generated = [id |-> id, digest |-> draft.prepared,
                                        turn |-> draft.confirmationTurn],
                         !.lastId = id, !.state = "QUOTE_GENERATED"]
          /\ issued' = issued \cup
               {[id |-> id, digest |-> draft.prepared,
                 preview |-> draft.previewTurn,
                 confirmed |-> draft.confirmationTurn]}
    BY <1>16, CreateFacts
  <2> DEFINE q == [id |-> id, digest |-> draft.prepared,
                   preview |-> draft.previewTurn,
                   confirmed |-> draft.confirmationTurn]
  <2>2. /\ at = "tools" /\ at' = "tools" /\ now' = now /\ crashes' = crashes
        /\ draft.state = "AWAITING_CONFIRMATION" /\ draft.previewTurn # 0
    BY <1>16, CreateFacts DEF now
  <2>3. q.preview = draft.previewTurn /\ issued' = issued \cup {q}
    BY <2>1
  <2> HIDE DEF q
  <2>4. count(draft.previewTurn) <= crashes
    BY <1>8, <2>2 DEF IssueCounted
  <2>5. ASSUME NEW t \in 1..now
        PROVE  count(t)' <= 1 + crashes
    <3>1. CASE t = draft.previewTurn
      <4>1. QuotationsOf(t)' = QuotationsOf(t) \cup {q}
        BY <2>3, <3>1 DEF QuotationsOf
      <4>2. Cardinality(QuotationsOf(t) \cup {q}) \in
              {Cardinality(QuotationsOf(t)), Cardinality(QuotationsOf(t)) + 1}
        BY CountFacts, FS_AddElement
      <4>3. QED
        BY <1>1, <1>2, <2>4, <3>1, <4>1, <4>2 DEF count
    <3>2. CASE t # draft.previewTurn
      <4>1. QuotationsOf(t)' = QuotationsOf(t)
        BY <2>3, <3>2 DEF QuotationsOf
      <4>2. QED
        BY <1>3, <4>1 DEF count
    <3>3. QED
      BY <3>1, <3>2
  <2>6. OneQuotationPerPreview'
    BY <2>2, <2>5 DEF OneQuotationPerPreview, count, QuotationsOf
  <2>7. Unissued(draft)'
    <3>1. draft'.state = "QUOTE_GENERATED"
      BY <1>1, <2>1 DEF Session
    <3>2. QED
      BY <3>1 DEF Unissued
  <2>8. QED
    BY <2>2, <2>6, <2>7 DEF IssueCounted
<1>17. CASE EndTurn
  <2>1. /\ at # "idle" /\ at' = "idle" /\ session' = draft /\ now' = now
        /\ issued' = issued /\ crashes' = crashes
    BY <1>17 DEF EndTurn, now
  <2>2. Unissued(session)'
    BY <1>8, <1>9, <2>1 DEF IssueCounted
  <2>3. QED
    BY <1>6, <2>1, <2>2 DEF IssueCounted
<1>18. CASE LoseTurn
  <2>1. /\ at' = "idle" /\ session' = session /\ now' = now
        /\ issued' = issued /\ crashes' = crashes + 1
    BY <1>18 DEF LoseTurn, now
  <2>2. session.previewTurn # 0 => session.previewTurn \in 1..now
    BY <1>1 DEF Bound, Session
  <2>3. Unissued(session)'
    BY <1>1, <1>3, <1>9, <2>1, <2>2
  <2>4. QED
    BY <1>6, <2>1, <2>3 DEF IssueCounted
<1>19. ASSUME UNCHANGED <<at, draft, issued, crashes>>, now' = now,
              \/ session' = session
              \/ at = "idle" /\ session'.previewTurn = 0
              \/ /\ at = "idle" /\ session'.previewTurn = session.previewTurn
                 /\ session.state # "QUOTE_GENERATED"
       PROVE  IssueCounted'
  <2>1. at = "idle" => Unissued(session)'
    BY <1>7, <1>9, <1>19 DEF IssueCounted
  <2>2. at # "idle" => Unissued(draft)'
    BY <1>8, <1>9, <1>19 DEF IssueCounted
  <2>3. QED
    BY <1>6, <1>19, <2>1, <2>2 DEF IssueCounted
<1>20. ASSUME NEW t \in 1..now, Acknowledge(t)
       PROVE  IssueCounted'
  <2>1. \/ session' = session
        \/ /\ session'.previewTurn = session.previewTurn
           /\ session.state # "QUOTE_GENERATED"
    BY <1>1, <1>20, AcknowledgeFacts DEF Session
  <2>2. QED
    BY <1>19, <1>20, <2>1, AcknowledgeFacts DEF turnVars, now
<1>21. CASE ExpireSession
  BY <1>19, <1>21, NewSessionFacts DEF ExpireSession, Revoked, turnVars, now
<1>22. ASSUME NEW t \in 1..now,
              SendPreview(t) \/ LosePreview(t) \/ LoseAcknowledgement(t)
       PROVE  IssueCounted'
  BY <1>19, <1>22 DEF SendPreview, LosePreview, LoseAcknowledgement, turnVars, now
<1>23. CASE Redeploy \/ UNCHANGED vars
  BY <1>19, <1>23 DEF Redeploy, vars, turnVars, now
<1>24. QED
  BY <1>10, <1>12, <1>13, <1>14, <1>15, <1>16, <1>17, <1>18, <1>20, <1>21, <1>22,
     <1>23, NextCases

-----------------------------------------------------------------------------
(* The theorems.                                                           *)

\* The inductive invariant: what the stored session, the copy and the replies
\* in flight have to do with each other and with what was issued.
THEOREM SoundLifecycle == Spec => []LifecycleSound
<1>1. Init => LifecycleSound
  BY InitSound
<1>2. LifecycleSound /\ [Next]_vars => LifecycleSound'
  <2>1. SUFFICES ASSUME LifecycleSound, [Next]_vars PROVE LifecycleSound'
    OBVIOUS
  <2>2. /\ TypesSound /\ RepliesSound /\ SessionsBound /\ DraftSound
        /\ IssuedAsConfirmed /\ IssueCounted
    BY <2>1 DEF LifecycleSound
  <2>3. TypesSound' /\ RepliesSound'
    BY <2>1, <2>2, StepTypes, StepReplies
  <2>4. SessionsBound' /\ DraftSound'
    BY <2>1, <2>2, StepSessionBound, StepDraftBound, StepDraft DEF SessionsBound
  <2>5. IssuedAsConfirmed' /\ IssueCounted'
    BY <2>1, <2>2, StepIssued, StepCounted
  <2>6. QED
    BY <2>3, <2>4, <2>5 DEF LifecycleSound
<1>3. QED
  BY <1>1, <1>2, PTL DEF Spec

\* Every variable has its type; no cart has an empty line or a product twice.
THEOREM LifecycleTypes == Spec => []TypeOK
<1>1. LifecycleSound => TypeOK
  BY DEF LifecycleSound, TypesSound
<1>2. QED
  BY <1>1, SoundLifecycle, PTL

\* Whatever tools are called in whatever order, and whatever is lost or late,
\* preview, confirmation and quotation are bound to cart and customer.
THEOREM SessionsStayBound == Spec => []SessionsBound
<1>1. LifecycleSound => SessionsBound
  BY DEF LifecycleSound
<1>2. QED
  BY <1>1, SoundLifecycle, PTL

\* TP-21: what is issued was shown to the customer in an earlier turn than the
\* explicit message that confirmed it.
THEOREM OnlyConfirmedIssued == Spec => []IssuedAsConfirmed
<1>1. LifecycleSound => IssuedAsConfirmed
  BY DEF LifecycleSound
<1>2. QED
  BY <1>1, SoundLifecycle, PTL

\* A preview becomes one quotation, and one more only for a turn that was lost.
THEOREM IssuedOnce == Spec => []OneQuotationPerPreview
<1>1. LifecycleSound => OneQuotationPerPreview
  BY DEF LifecycleSound, IssueCounted
<1>2. QED
  BY <1>1, SoundLifecycle, PTL

-----------------------------------------------------------------------------
(* What a step may do to the stored session.                               *)

LEMMA SessionSteps ==
  ASSUME LifecycleSound, [Next]_vars
  PROVE  \/ session' = session
         \/ session' = NewSession
         \/ EndTurn /\ session' = draft /\ DraftFollows
         \/ /\ session.state = "QUOTE_REVIEW" /\ ~session.delivered
            /\ ~session.confirmed /\ session.previewTurn \in unacked
            /\ session' = [session EXCEPT !.delivered = TRUE, !.confirmed = FALSE,
                             !.confirmationTurn = 0,
                             !.state = "AWAITING_CONFIRMATION"]
            /\ UNCHANGED <<log, seen>>
<1>1. TypesSound /\ Bound(session)
  BY DEF LifecycleSound, SessionsBound
<1>2. ASSUME NEW t \in 1..now, Acknowledge(t), session' # session
      PROVE  /\ session.state = "QUOTE_REVIEW" /\ ~session.delivered
             /\ ~session.confirmed /\ session.previewTurn \in unacked
             /\ session' = [session EXCEPT !.delivered = TRUE, !.confirmed = FALSE,
                              !.confirmationTurn = 0,
                              !.state = "AWAITING_CONFIRMATION"]
             /\ UNCHANGED <<log, seen>>
  BY <1>1, <1>2, AcknowledgeFacts DEF Bound, turnVars
<1>3. EndTurn => session' = draft /\ DraftFollows
  BY DEF EndTurn, LifecycleSound, DraftSound
<1>4. QED
  BY <1>1, <1>2, <1>3, NextCases, BeginFacts, EditFacts, RequireFacts,
     PrepareFacts, ConfirmFacts, CreateFacts
     DEF LoseTurn, SendPreview, LosePreview, LoseAcknowledgement, ExpireSession,
         Redeploy, vars

\* TP-23, TP-24: what a turn leaves of another cart or customer authorizes
\* nothing.
THEOREM EditsRevoke == Spec => ChangesRevoke
<1>1. LifecycleSound /\ [Next]_vars =>
        (session'.cart # session.cart \/ session'.customer # session.customer
         => /\ session'.state \notin {"AWAITING_CONFIRMATION", "QUOTE_GENERATED"}
            /\ ~session'.confirmed /\ session'.generated.id = 0)
  <2>1. SUFFICES ASSUME LifecycleSound, [Next]_vars,
                        \/ session'.cart # session.cart
                        \/ session'.customer # session.customer
                 PROVE  Withdrawn(session')
    BY DEF Withdrawn
  <2>2. CASE session' = NewSession
    BY <2>2, NewSessionFacts DEF Withdrawn, Revoked, NoGenerated
  <2>3. CASE EndTurn /\ session' = draft /\ DraftFollows
    BY <2>1, <2>3 DEF DraftFollows
  <2>4. session \in Session
    BY <2>1 DEF LifecycleSound, TypesSound, TypeOK
  <2>5. QED
    BY <2>1, <2>2, <2>3, <2>4, SessionSteps DEF Session
<1>2. QED
  BY <1>1, SoundLifecycle, PTL DEF Spec, ChangesRevoke

\* A stored confirmation goes only with its preview.
THEOREM ConfirmationsStand == Spec => ConfirmationsKept
<1>1. LifecycleSound /\ [Next]_vars =>
        (session.confirmed /\ ~session'.confirmed
         => \/ session' = NewSession
            \/ session'.previewTurn # session.previewTurn)
  <2>1. SUFFICES ASSUME LifecycleSound, [Next]_vars,
                        session.confirmed, ~session'.confirmed,
                        session' # NewSession
                 PROVE  session'.previewTurn # session.previewTurn
    OBVIOUS
  <2>2. EndTurn /\ session' = draft /\ DraftFollows
    BY <2>1, SessionSteps
  <2>3. Bound(session) /\ session \in Session /\ now \in Nat
    BY <2>1 DEF LifecycleSound, SessionsBound, TypesSound, TypeOK, now
  <2>4. session.previewTurn # 0
    BY <2>1, <2>3 DEF Bound
  <2>5. QED
    BY <2>1, <2>2, <2>3, <2>4 DEF DraftFollows, FromSession, Session
<1>2. QED
  BY <1>1, SoundLifecycle, PTL DEF Spec, ConfirmationsKept

-----------------------------------------------------------------------------
(* The refinement of PreviewBoundary.                                      *)

LEMMA PhaseFacts ==
  /\ session.state = "QUOTE_REVIEW" => Phase = "review"
  /\ session.state = "AWAITING_CONFIRMATION" => Phase = "awaiting"
  /\ session.state = "QUOTE_GENERATED" => Phase = "generated"
  /\ session.state \notin {"QUOTE_REVIEW", "AWAITING_CONFIRMATION", "QUOTE_GENERATED"}
     => Phase = "none"
BY DEF Phase

LEMMA NextPhaseFacts ==
  /\ session'.state = "QUOTE_REVIEW" => Phase' = "review"
  /\ session'.state = "AWAITING_CONFIRMATION" => Phase' = "awaiting"
  /\ session'.state = "QUOTE_GENERATED" => Phase' = "generated"
  /\ session'.state \notin {"QUOTE_REVIEW", "AWAITING_CONFIRMATION", "QUOTE_GENERATED"}
     => Phase' = "none"
BY DEF Phase

\* The end of a turn prepares a preview nobody has seen, generates, withdraws,
\* or leaves the preview as it was.
LEMMA EndIsBoundaryStep ==
  ASSUME LifecycleSound, EndTurn
  PROVE  [Boundary!Next]_(Boundary!vars)
<1>1. /\ session' = draft /\ seen' = seen /\ at # "idle"
      /\ draft \in Session /\ session \in Session /\ now \in Nat
      /\ Bound(session) /\ Bound(draft)
  BY DEF EndTurn, LifecycleSound, TypesSound, TypeOK, SessionsBound, now
<1>2. now # 0 /\ ~Seen(now) /\ DraftFollows
  BY <1>1 DEF LifecycleSound, RepliesSound, DraftSound
<1>3. CASE draft.previewTurn = 0
  <2>1. Phase' = "none"
    BY <1>1, <1>3, NextPhaseFacts DEF Bound
  <2>2. Boundary!Withdraw
    BY <1>1, <1>3, <2>1 DEF Boundary!Withdraw
  <2>3. QED
    BY <2>2 DEF Boundary!Next
<1>4. CASE draft.previewTurn = now /\ draft.state = "QUOTE_REVIEW"
  <2>1. Phase' = "review"
    BY <1>1, <1>4, NextPhaseFacts
  <2>2. now \notin {seen[i] : i \in DOMAIN seen}
    BY <1>2 DEF Seen
  <2>3. Boundary!Prepare
    BY <1>1, <1>2, <1>4, <2>1, <2>2 DEF Boundary!Prepare
  <2>4. QED
    BY <2>3 DEF Boundary!Next
<1>5. CASE FromSession /\ draft.state = session.state
  BY <1>1, <1>5 DEF FromSession, Phase, Boundary!vars
<1>6. CASE FromSession /\ draft.state # session.state
  <2>1. /\ session.state = "AWAITING_CONFIRMATION"
        /\ session'.state = "QUOTE_GENERATED"
        /\ session'.previewTurn = session.previewTurn
    BY <1>1, <1>6 DEF FromSession
  <2>2. Boundary!Generate
    BY <1>1, <2>1, PhaseFacts, NextPhaseFacts DEF Boundary!Generate
  <2>3. QED
    BY <2>2 DEF Boundary!Next
<1>7. QED
  BY <1>2, <1>3, <1>4, <1>5, <1>6 DEF DraftFollows

LEMMA StepIsBoundaryStep ==
  ASSUME LifecycleSound, [Next]_vars
  PROVE  [Boundary!Next]_(Boundary!vars)
<1>1. TypesSound /\ seen \in Seq(1..now) /\ session \in Session
  BY DEF LifecycleSound, TypesSound, TypeOK
<1>2. CASE EndTurn
  BY <1>2, EndIsBoundaryStep
<1>3. ASSUME NEW t \in 1..now, SendPreview(t) \/ LosePreview(t)
      PROVE  [Boundary!Next]_(Boundary!vars)
  <2>1. session' = session /\ seen' \in {seen, Append(seen, t)}
    BY <1>3 DEF SendPreview, LosePreview
  <2>2. {seen[i] : i \in DOMAIN seen} \subseteq {seen'[i] : i \in DOMAIN seen'}
    <3>1. /\ DOMAIN seen \subseteq DOMAIN seen'
          /\ \A i \in DOMAIN seen : seen'[i] = seen[i]
      BY <1>1, <2>1, AppendedSeq
    <3>2. QED
      BY <3>1
  <2>3. Boundary!HandOver
    BY <2>1, <2>2 DEF Phase, Boundary!HandOver
  <2>4. QED
    BY <2>3 DEF Boundary!Next
<1>4. ASSUME session' = NewSession, seen' = seen
      PROVE  [Boundary!Next]_(Boundary!vars)
  <2>1. session'.previewTurn = 0 /\ Phase' = "none"
    BY <1>4, NewSessionFacts, NextPhaseFacts DEF Revoked
  <2>2. Boundary!Withdraw
    BY <1>4, <2>1 DEF Boundary!Withdraw
  <2>3. QED
    BY <2>2 DEF Boundary!Next
<1>5. ASSUME session.state = "QUOTE_REVIEW", session.previewTurn \in unacked,
             session' = [session EXCEPT !.delivered = TRUE, !.confirmed = FALSE,
                           !.confirmationTurn = 0,
                           !.state = "AWAITING_CONFIRMATION"],
             seen' = seen
      PROVE  [Boundary!Next]_(Boundary!vars)
  <2>1. /\ session'.previewTurn = session.previewTurn
        /\ session'.state = "AWAITING_CONFIRMATION"
    BY <1>1, <1>5 DEF Session
  <2>2. session.previewTurn \in {seen[i] : i \in DOMAIN seen}
    BY <1>5 DEF LifecycleSound, RepliesSound, Seen
  <2>3. Boundary!Await
    BY <1>5, <2>1, <2>2, PhaseFacts, NextPhaseFacts DEF Boundary!Await
  <2>4. QED
    BY <2>3 DEF Boundary!Next
<1>6. CASE session' = session /\ seen' = seen
  BY <1>6 DEF Phase, Boundary!vars
<1>7. seen' = seen \/ \E t \in 1..now : SendPreview(t) \/ LosePreview(t)
  BY <1>1, NextCases, BeginFacts, EditFacts, RequireFacts, PrepareFacts, ConfirmFacts,
     CreateFacts, AcknowledgeFacts
     DEF EndTurn, LoseTurn, LoseAcknowledgement, ExpireSession, Redeploy, vars,
         replyVars
<1>8. QED
  BY <1>2, <1>3, <1>4, <1>5, <1>6, <1>7, SessionSteps

\* D-05: whatever a turn does to cart, customer and quotation, and whichever
\* replies are lost or late, a preview becomes confirmable only while it is the
\* current one and after the transport has accepted it.
THEOREM BoundaryKept == Spec => TurnsKeepBoundary
<1>1. Init => Boundary!Init
  <2>1. SUFFICES ASSUME Init PROVE Boundary!Init
    OBVIOUS
  <2>2. session.previewTurn = 0 /\ Phase = "none"
    BY <2>1, NewSessionFacts, PhaseFacts DEF Init, Revoked
  <2>3. {seen[i] : i \in DOMAIN seen} = {}
    BY <2>1 DEF Init
  <2>4. QED
    BY <2>2, <2>3 DEF Boundary!Init
<1>2. LifecycleSound /\ [Next]_vars => [Boundary!Next]_(Boundary!vars)
  BY StepIsBoundaryStep
<1>3. QED
  BY <1>1, <1>2, SoundLifecycle, PTL DEF Spec, TurnsKeepBoundary, Boundary!Spec

-----------------------------------------------------------------------------
(* The refinement of QuotationIssue.                                       *)

\* The confirmation s holds has been spent on no preview but that of s.
SpentOn(s) ==
  s.confirmed
  => \A q \in issued : q.confirmed = s.confirmationTurn => q.preview = s.previewTurn

\* A confirmation is spent on one preview.  The running turn's own is spent, if
\* at all, on the preview its copy still has, unless the copy has none or a new
\* one, which this turn cannot confirm.
ApprovalsSound ==
  /\ \A q, r \in issued : q.confirmed = r.confirmed => q.preview = r.preview
  /\ SpentOn(session)
  /\ at # "idle" =>
       /\ SpentOn(draft)
       /\ \A q \in issued :
            q.confirmed = now => draft.previewTurn \in {0, now, q.preview}

LEMMA StepApprovals ==
  ASSUME LifecycleSound, ApprovalsSound, [Next]_vars
  PROVE  ApprovalsSound'
<1>1. /\ TypesSound /\ Bound(session) /\ Bound(draft)
      /\ draft \in Session /\ session \in Session /\ now \in Nat
  BY DEF LifecycleSound, SessionsBound, TypesSound, TypeOK, now
<1>2. \A q \in issued : q.confirmed \in Nat /\ q.confirmed <= now
  BY DEF LifecycleSound, IssuedAsConfirmed, TypesSound, TypeOK, Quotation
<1>3. ASSUME issued' = issued,
             session'.confirmed =>
               \/ session' = session
               \/ at # "idle" /\ session' = draft,
             at' # "idle" =>
               /\ draft'.confirmed =>
                    \A q \in issued : q.confirmed = draft'.confirmationTurn
                                      => q.preview = draft'.previewTurn
               /\ \A q \in issued :
                    q.confirmed = now' => draft'.previewTurn \in {0, now', q.preview}
      PROVE  ApprovalsSound'
  <2>1. SpentOn(session)'
    BY <1>3 DEF ApprovalsSound, SpentOn
  <2>2. at' # "idle" => SpentOn(draft)'
    BY <1>3 DEF SpentOn
  <2>3. QED
    BY <1>3, <2>1, <2>2 DEF ApprovalsSound
<1>4. CASE BeginTurn
  <2>1. /\ draft' = session /\ session' = session /\ issued' = issued
        /\ now' = now + 1
    BY <1>1, <1>4, BeginFacts
  <2>2. \A q \in issued : q.confirmed # now'
    BY <1>1, <1>2, <2>1
  <2>3. QED
    BY <1>3, <2>1, <2>2 DEF ApprovalsSound, SpentOn
<1>5. ASSUME at = "tools", issued' = issued, session' = session, now' = now,
             \/ ~draft'.confirmed
             \/ /\ draft'.confirmed = draft.confirmed
                /\ draft'.confirmationTurn = draft.confirmationTurn
                /\ draft'.previewTurn = draft.previewTurn
             \/ /\ draft'.confirmationTurn = now
                /\ draft'.previewTurn = draft.previewTurn
                /\ draft.previewTurn \notin {0, now},
             draft'.previewTurn \in {0, now, draft.previewTurn}
      PROVE  ApprovalsSound'
  <2>1. /\ SpentOn(draft)
        /\ \A q \in issued :
             q.confirmed = now => draft.previewTurn \in {0, now, q.preview}
    BY <1>5 DEF ApprovalsSound
  <2>2. draft'.confirmed =>
          \A q \in issued : q.confirmed = draft'.confirmationTurn
                            => q.preview = draft'.previewTurn
    BY <1>5, <2>1 DEF SpentOn
  <2>3. \A q \in issued :
          q.confirmed = now' => draft'.previewTurn \in {0, now', q.preview}
    BY <1>5, <2>1
  <2>4. QED
    BY <1>3, <1>5, <2>2, <2>3
<1>6. CASE Edit
  BY <1>1, <1>5, <1>6, EditFacts DEF Revoked, now
<1>7. CASE CustomerMissing
  <2>1. /\ draft'.confirmed = draft.confirmed
        /\ draft'.confirmationTurn = draft.confirmationTurn
        /\ draft'.previewTurn = draft.previewTurn
    BY <1>1, <1>7, RequireFacts DEF Session
  <2>2. QED
    BY <1>1, <1>5, <1>7, <2>1, RequireFacts DEF now
<1>8. CASE PrepareQuotation
  <2>1. ~draft'.confirmed /\ draft'.previewTurn = now
    BY <1>1, <1>8, PrepareFacts DEF Session
  <2>2. /\ at = "tools" /\ issued' = issued /\ session' = session /\ now' = now
    BY <1>1, <1>8, PrepareFacts
  <2>3. QED
    BY <1>5, <2>1, <2>2
<1>9. CASE ConfirmQuotation
  <2>1. /\ draft'.confirmationTurn = now /\ draft'.previewTurn = draft.previewTurn
        /\ draft.previewTurn \notin {0, now}
    BY <1>1, <1>9, ConfirmFacts DEF Session
  <2>2. QED
    BY <1>1, <1>5, <1>9, <2>1, ConfirmFacts DEF now
<1>10. CASE CreateQuotation
  <2>1. PICK id \in Nat :
          /\ draft' = [draft EXCEPT
                         !.generated = [id |-> id, digest |-> draft.prepared,
                                        turn |-> draft.confirmationTurn],
                         !.lastId = id, !.state = "QUOTE_GENERATED"]
          /\ issued' = issued \cup
               {[id |-> id, digest |-> draft.prepared,
                 preview |-> draft.previewTurn,
                 confirmed |-> draft.confirmationTurn]}
    BY <1>1, <1>10, CreateFacts
  <2> DEFINE new == [id |-> id, digest |-> draft.prepared,
                     preview |-> draft.previewTurn,
                     confirmed |-> draft.confirmationTurn]
  <2>2. /\ at = "tools" /\ session' = session /\ now' = now
        /\ draft.confirmed /\ draft.previewTurn # 0
    BY <1>1, <1>10, CreateFacts DEF now
  <2>3. /\ new.preview = draft.previewTurn /\ new.confirmed = draft.confirmationTurn
        /\ \A q \in issued' : q \in issued \/ q = new
    BY <2>1
  <2>4. /\ draft'.previewTurn = draft.previewTurn
        /\ draft'.confirmationTurn = draft.confirmationTurn
    BY <1>1, <2>1 DEF Session
  <2> HIDE DEF new
  <2>5. /\ \A q, r \in issued : q.confirmed = r.confirmed => q.preview = r.preview
        /\ SpentOn(session) /\ SpentOn(draft)
        /\ \A q \in issued :
             q.confirmed = now => draft.previewTurn \in {0, now, q.preview}
    BY <2>2 DEF ApprovalsSound
  <2>6. \A q \in issued : q.confirmed = draft.confirmationTurn
                          => q.preview = draft.previewTurn
    BY <2>2, <2>5 DEF SpentOn
  <2>7. \A q, r \in issued' : q.confirmed = r.confirmed => q.preview = r.preview
    BY <2>3, <2>5, <2>6
  <2>8. session.previewTurn = draft.previewTurn
    BY <2>2 DEF LifecycleSound, DraftSound, DraftFollows, FromSession
  <2>9. SpentOn(session)'
    BY <2>2, <2>3, <2>5, <2>8 DEF SpentOn
  <2>10. SpentOn(draft)'
    BY <2>3, <2>4, <2>6 DEF SpentOn
  <2>11. \A q \in issued' :
           q.confirmed = now' => draft'.previewTurn \in {0, now', q.preview}
    BY <2>2, <2>3, <2>4, <2>5
  <2>12. QED
    BY <2>7, <2>9, <2>10, <2>11 DEF ApprovalsSound
<1>11. CASE EndTurn \/ LoseTurn
  BY <1>3, <1>11 DEF EndTurn, LoseTurn
<1>12. ASSUME UNCHANGED <<at, draft, issued, log>>,
              session'.confirmed => session' = session
       PROVE  ApprovalsSound'
  BY <1>3, <1>12 DEF ApprovalsSound, SpentOn, now
<1>13. ASSUME NEW t \in 1..now, Acknowledge(t)
       PROVE  ApprovalsSound'
  <2>1. session'.confirmed => session' = session
    BY <1>1, <1>13, AcknowledgeFacts DEF Session
  <2>2. UNCHANGED <<at, draft, issued, log>>
    BY <1>1, <1>13, AcknowledgeFacts DEF turnVars
  <2>3. QED
    BY <1>12, <2>1, <2>2
<1>14. CASE ExpireSession
  BY <1>12, <1>14, NewSessionFacts DEF ExpireSession, Revoked, turnVars
<1>15. ASSUME NEW t \in 1..now,
              SendPreview(t) \/ LosePreview(t) \/ LoseAcknowledgement(t)
       PROVE  ApprovalsSound'
  BY <1>12, <1>15 DEF SendPreview, LosePreview, LoseAcknowledgement, turnVars
<1>16. CASE Redeploy \/ UNCHANGED vars
  BY <1>12, <1>16 DEF Redeploy, vars, turnVars
<1>17. QED
  BY <1>4, <1>6, <1>7, <1>8, <1>9, <1>10, <1>11, <1>13, <1>14, <1>15, <1>16,
     NextCases

\* What has been shown, and when the customer agreed, stands: the only preview a
\* turn can still write is its own, and nobody has received that one.
LEMMA StepLearns ==
  ASSUME LifecycleSound, [Next]_vars
  PROVE  /\ {[turn |-> t, digest |-> log[t].preview] : t \in Received}
              \subseteq {[turn |-> t, digest |-> log'[t].preview] : t \in Received'}
         /\ {t \in 1..now : log[t].explicit} \subseteq {t \in 1..now' : log'[t].explicit}
<1>1. TypesSound /\ RepliesSound /\ HistoryGrows
  BY HistoryFacts DEF LifecycleSound
<1>2. \A t \in Received : t \in 1..now
  <2>1. seen \in Seq(1..now)
    BY <1>1 DEF TypesSound, TypeOK
  <2>2. DOMAIN seen = 1..Len(seen) /\ \A i \in 1..Len(seen) : seen[i] \in 1..now
    BY <2>1, LenProperties, ElementOfSeq
  <2>3. QED
    BY <2>2 DEF Received
<1>3. \A t \in Nat : t \in Received <=> Seen(t)
  BY DEF Received, Seen
<1>4. \A t \in Nat : t \in Received' <=> Seen(t)'
  BY DEF Received, Seen
<1>5. \A t \in Received : t \in Received' /\ log'[t].preview = log[t].preview
  <2>1. SUFFICES ASSUME NEW t \in Received
                 PROVE  t \in Received' /\ log'[t].preview = log[t].preview
    OBVIOUS
  <2>2. t \in 1..now /\ t \in Nat /\ Seen(t)
    BY <1>2, <1>3
  <2>3. t # now \/ at # "tools"
    BY <1>1, <2>2 DEF RepliesSound
  <2>4. QED
    BY <1>1, <1>4, <2>2, <2>3 DEF HistoryGrows
<1>6. \A t \in 1..now : t \in 1..now' /\ log'[t].explicit = log[t].explicit
  BY <1>1 DEF HistoryGrows
<1>7. QED
  BY <1>5, <1>6

LEMMA StepIsIssueStep ==
  ASSUME LifecycleSound, ApprovalsSound, [Next]_vars
  PROVE  [Issuing!Next]_(Issuing!vars)
<1> DEFINE shown == {[turn |-> t, digest |-> log[t].preview] : t \in Received}
           approvals == {t \in 1..now : log[t].explicit}
<1>1. TypesSound /\ Bound(draft) /\ draft \in Session /\ now \in Nat
  BY DEF LifecycleSound, SessionsBound, TypesSound, TypeOK, now
<1>2. CASE issued' = issued /\ crashes' = crashes
  <2>1. Issuing!Learn
    BY <1>2, StepLearns DEF Issuing!Learn
  <2>2. QED
    BY <2>1 DEF Issuing!Next
<1>3. CASE LoseTurn
  <2>1. /\ crashes' = crashes + 1
        /\ UNCHANGED <<log, seen, issued>>
    BY <1>3 DEF LoseTurn, replyVars
  <2>2. shown' = shown /\ approvals' = approvals
    BY <2>1 DEF Received, now
  <2>3. Issuing!Lose
    BY <2>1, <2>2 DEF Issuing!Lose
  <2>4. QED
    BY <2>3 DEF Issuing!Next
<1>4. CASE CreateQuotation
  <2>1. PICK id \in Nat :
          issued' = issued \cup
            {[id |-> id, digest |-> draft.prepared,
              preview |-> draft.previewTurn,
              confirmed |-> draft.confirmationTurn]}
    BY <1>1, <1>4, CreateFacts
  <2>2. /\ at = "tools" /\ draft.state = "AWAITING_CONFIRMATION"
        /\ draft.confirmed /\ draft.previewTurn # 0
        /\ UNCHANGED <<log, seen, crashes>>
    BY <1>1, <1>4, CreateFacts DEF replyVars
  <2> DEFINE q == [id |-> id, digest |-> draft.prepared,
                   preview |-> draft.previewTurn,
                   confirmed |-> draft.confirmationTurn]
             preview == [turn |-> draft.previewTurn,
                         digest |-> log[draft.previewTurn].preview]
  <2>3. /\ q.preview = draft.previewTurn /\ q.confirmed = draft.confirmationTurn
        /\ q.digest = draft.prepared
        /\ preview.turn = draft.previewTurn
        /\ preview.digest = log[draft.previewTurn].preview
    OBVIOUS
  <2>4. q \in issued' /\ issued' = issued \cup {q}
    BY <2>1
  <2>5. /\ Seen(draft.previewTurn) /\ draft.previewTurn < draft.confirmationTurn
        /\ draft.confirmationTurn <= now
        /\ draft.prepared = log[draft.previewTurn].preview
        /\ log[draft.confirmationTurn].explicit
    BY <1>1, <2>2 DEF Bound
  <2>6. preview \in shown
    BY <2>5 DEF Received, Seen
  <2>7. draft.confirmationTurn \in approvals
    BY <1>1, <2>5 DEF Session
  <2>8. \A r \in issued : r.confirmed = draft.confirmationTurn
                          => r.preview = draft.previewTurn
    BY <2>2 DEF ApprovalsSound, SpentOn
  <2>9. Cardinality({r \in issued : r.preview = draft.previewTurn}) <= crashes
    BY <2>2 DEF LifecycleSound, IssueCounted, Unissued, QuotationsOf
  <2>10. shown' = shown /\ approvals' = approvals
    BY <2>2 DEF Received, now
  <2> HIDE DEF q, preview, shown, approvals
  <2>11. \A S : Issuing!Cardinality(S) = Cardinality(S)
    BY Zenon DEF Cardinality, Issuing!Cardinality
  <2>12. /\ \E new \in issued', of \in shown :
              /\ issued' = issued \cup {new}
              /\ new.preview = of.turn /\ new.digest = of.digest
              /\ new.confirmed \in approvals /\ new.preview < new.confirmed
              /\ \A r \in issued : r.confirmed = new.confirmed
                                   => r.preview = new.preview
              /\ Cardinality({r \in issued : r.preview = new.preview}) <= crashes
    BY <2>3, <2>4, <2>5, <2>6, <2>7, <2>8, <2>9
  <2>13. Issuing!Issue
    BY <2>2, <2>10, <2>11, <2>12 DEF Issuing!Issue, shown, approvals
  <2>14. QED
    BY <2>13 DEF Issuing!Next
<1>5. CreateQuotation \/ LoseTurn \/ (issued' = issued /\ crashes' = crashes)
  BY <1>1, NextCases, BeginFacts, EditFacts, RequireFacts, PrepareFacts, ConfirmFacts,
     AcknowledgeFacts
     DEF EndTurn, SendPreview, LosePreview, LoseAcknowledgement, ExpireSession,
         Redeploy, vars
<1>6. QED
  BY <1>2, <1>3, <1>4, <1>5

\* D-05, TP-21: a quotation is issued of a preview the customer has received as
\* it is, on a confirmation spent on no other, once more only for a lost turn;
\* whatever happens later, what was shown, agreed and issued stays as it was.
THEOREM QuotationsAsPromised == Spec => IssuesAsPromised
<1>1. Init => Issuing!Init /\ ApprovalsSound
  <2>1. SUFFICES ASSUME Init PROVE Issuing!Init /\ ApprovalsSound
    OBVIOUS
  <2>2. Received = {} /\ now = 0 /\ issued = {} /\ crashes = 0 /\ at = "idle"
    BY <2>1 DEF Init, Received, now
  <2>3. Issuing!Init
    BY <2>2 DEF Issuing!Init
  <2>4. ApprovalsSound
    BY <2>2 DEF ApprovalsSound, SpentOn
  <2>5. QED
    BY <2>3, <2>4
<1>2. LifecycleSound /\ ApprovalsSound /\ [Next]_vars => ApprovalsSound'
  BY StepApprovals
<1>3. LifecycleSound /\ ApprovalsSound /\ [Next]_vars => [Issuing!Next]_(Issuing!vars)
  BY StepIsIssueStep
<1>4. QED
  BY <1>1, <1>2, <1>3, SoundLifecycle, PTL DEF Spec, IssuesAsPromised, Issuing!Spec
=============================================================================
