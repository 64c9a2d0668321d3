------------------------- MODULE QuotationLifecycle -------------------------
(***************************************************************************)
(* One customer's quotation, turn by turn.  A turn (ConversationService    *)
(* .process_message) runs under the customer's lock: it loads the session, *)
(* lets the model call any of the tools in any order on that copy, and     *)
(* saves it.  A turn that prepared a preview ends there; its reply carries *)
(* the preview to the customer, and acknowledge_successful_delivery, under *)
(* the lock again, makes it confirmable.  Replies travel while later turns *)
(* run, and a message may have been written long before its turn.          *)
(***************************************************************************)
EXTENDS QuoteSession, FiniteSets

CONSTANTS
  MaxQuantity,   \* bound: quantities
  MaxTurns,      \* bound: turns
  MaxCrashes     \* bound: turns that never save their session

ASSUME BoundAssumption ==
  MaxQuantity \in Nat /\ MaxTurns \in Nat /\ MaxCrashes \in Nat

VARIABLES
  catalog,    \* the business data the process runs with
  session,    \* the stored session
  at,         \* "idle", in the tool loop ("tools"), or about to save ("done")
  draft,      \* the turn's copy of the session (none while idle)
  preceding,  \* CurrentTurnContext.preceding_turn_ids: the preview's turn, or 0
  log,        \* turn -> what the customer wrote, and the preview it prepared
  outbox,     \* previews (by turn) whose reply is on its way
  unacked,    \* previews the transport has accepted, not acknowledged yet
  seen,       \* previews the transport has accepted, in that order
  issued,     \* quotations whose PDF was created
  crashes     \* turns lost so far

turnVars == <<at, draft, preceding, log>>
replyVars == <<outbox, unacked, seen>>
vars == <<catalog, session, turnVars, replyVars, issued, crashes>>

\* explicit: the message reads as a confirmation; saw: how many previews the
\* customer had received when writing it.
Turn == [explicit : BOOLEAN, saw : Nat, preview : Digest]
Quotation == [id : Nat, digest : Digest, preview : Nat, confirmed : Nat]

now == Len(log)

Init ==
  /\ catalog \in Catalog
  /\ session = NewSession
  /\ at = "idle"
  /\ draft = NewSession
  /\ preceding = 0
  /\ log = <<>>
  /\ outbox = {} /\ unacked = {} /\ seen = <<>>
  /\ issued = {}
  /\ crashes = 0

-----------------------------------------------------------------------------
(* A turn.                                                                 *)

\* process_message takes the lock and loads the session.  The customer may
\* have written the message at any moment since the start.
BeginTurn ==
  /\ at = "idle" /\ now < MaxTurns
  /\ at' = "tools"
  /\ draft' = session
  /\ preceding' = session.previewTurn
  /\ \E explicit \in BOOLEAN, saw \in 0..Len(seen) :
       log' = Append(log, [explicit |-> explicit, saw |-> saw,
                           preview |-> NoDigest])
  /\ UNCHANGED <<catalog, session, replyVars, issued, crashes>>

\* A tool that changes the turn's copy, and nothing else.
Tool(result) ==
  /\ at = "tools"
  /\ draft' = result
  /\ UNCHANGED <<catalog, session, at, preceding, log, replyVars, issued, crashes>>

AddQuoteItem(p, quantity) ==
  /\ CanAddItem(draft, catalog, p)
  /\ \A i \in DOMAIN draft.cart : draft.cart[i].product = p =>
       draft.cart[i].quantity + quantity <= MaxQuantity
  /\ Tool(AddItem(draft, p, quantity))

UpdateQuoteItemQuantity(p, quantity) ==
  /\ CanUpdateQuantity(draft, catalog, p, quantity)
  /\ Tool(UpdateQuantity(draft, p, quantity))

RemoveQuoteItem(i) ==
  /\ CanRemoveItem(draft, catalog, i)
  /\ Tool(RemoveItem(draft, i))

SetCustomerInformation(customer) ==
  /\ CanSetCustomer(draft, customer)
  /\ Tool(SetCustomer(draft, customer))

\* prepare, confirm and create refuse for want of a customer name.
CustomerMissing ==
  /\ Calculable(draft, catalog) /\ ~Ready(draft)
  /\ Tool(RequireCustomer(draft))

\* The deterministic preview text is the reply: the turn ends here.
PrepareQuotation ==
  /\ at = "tools"
  /\ CanPrepare(draft, catalog)
  /\ draft' = Prepare(draft, catalog, now)
  /\ log' = [log EXCEPT ![now].preview = Fingerprint(draft, catalog)]
  /\ at' = "done"
  /\ UNCHANGED <<catalog, session, preceding, replyVars, issued, crashes>>

ConfirmQuotation ==
  /\ at = "tools"
  /\ CanConfirm(draft, catalog, now, preceding, log[now].explicit)
  /\ Tool(Confirm(draft, now))

\* The PDF is created under a new id.
CreateQuotation ==
  /\ at = "tools"
  /\ CanGenerate(draft, catalog)
  /\ LET id == Cardinality(issued) + 1 IN
       /\ draft' = Generate(draft, catalog, id)
       /\ issued' = issued \cup
            {[id |-> id, digest |-> Fingerprint(draft, catalog),
              preview |-> draft.previewTurn, confirmed |-> draft.confirmationTurn]}
  /\ UNCHANGED <<catalog, session, at, preceding, log, replyVars, crashes>>

\* The model answers; or its API, a tool or the PDF service fails and the
\* fallback text is the reply, what the tools have done so far being kept.
\* The session is saved, the lock released, and the reply goes out.
EndTurn ==
  /\ at \in {"tools", "done"}
  /\ session' = draft
  /\ at' = "idle"
  /\ outbox' = IF log[now].preview = NoDigest THEN outbox
               ELSE outbox \cup {now}
  /\ draft' = NewSession /\ preceding' = 0
  /\ UNCHANGED <<catalog, log, unacked, seen, issued, crashes>>

\* The process dies, the lock or Redis is lost: the copy is not saved.
LoseTurn ==
  /\ at # "idle" /\ crashes < MaxCrashes
  /\ at' = "idle"
  /\ crashes' = crashes + 1
  /\ draft' = NewSession /\ preceding' = 0
  /\ UNCHANGED <<catalog, session, log, replyVars, issued>>

-----------------------------------------------------------------------------
(* Replies, and what happens between turns.                                *)

SendPreview(t) ==
  /\ t \in outbox
  /\ outbox' = outbox \ {t}
  /\ seen' = Append(seen, t) /\ unacked' = unacked \cup {t}
  /\ UNCHANGED <<catalog, session, turnVars, issued, crashes>>

\* The text was not accepted, or nobody knows.
LosePreview(t) ==
  /\ t \in outbox
  /\ outbox' = outbox \ {t}
  /\ seen' \in {seen, Append(seen, t)}
  /\ UNCHANGED <<catalog, session, turnVars, unacked, issued, crashes>>

\* acknowledge_successful_delivery: with a stale binding it raises.
Acknowledge(t) ==
  /\ at = "idle" /\ t \in unacked
  /\ unacked' = unacked \ {t}
  /\ session' = IF CanMarkReady(session, catalog, log[t].preview, t)
                THEN MarkReady(session) ELSE session
  /\ UNCHANGED <<catalog, turnVars, outbox, seen, issued, crashes>>

\* The session's TTL passes, or the acknowledgement fails on the way.
ExpireSession ==
  /\ at = "idle"
  /\ session' = NewSession
  /\ UNCHANGED <<catalog, turnVars, replyVars, issued, crashes>>

LoseAcknowledgement(t) ==
  /\ t \in unacked
  /\ unacked' = unacked \ {t}
  /\ UNCHANGED <<catalog, session, turnVars, outbox, seen, issued, crashes>>

\* The process is restarted with other business data.
Redeploy ==
  /\ at = "idle"
  /\ catalog' \in Catalog
  /\ UNCHANGED <<session, turnVars, replyVars, issued, crashes>>

-----------------------------------------------------------------------------
RunTurn ==
  \/ \E p \in Product, q \in 1..MaxQuantity :
       AddQuoteItem(p, q) \/ UpdateQuoteItemQuantity(p, q)
  \/ \E i \in DOMAIN draft.cart : RemoveQuoteItem(i)
  \/ \E c \in Customer : SetCustomerInformation(c)
  \/ CustomerMissing \/ PrepareQuotation \/ ConfirmQuotation
  \/ CreateQuotation

Next ==
  \/ BeginTurn \/ RunTurn \/ EndTurn \/ LoseTurn
  \/ \E t \in 1..now : \/ SendPreview(t) \/ LosePreview(t)
                       \/ Acknowledge(t) \/ LoseAcknowledgement(t)
  \/ ExpireSession \/ Redeploy

Spec == Init /\ [][Next]_vars
-----------------------------------------------------------------------------
(* Properties.                                                             *)

\* Adding increments and updating replaces: after any edits no product has two
\* lines, of which removal and the quantity update would meet only one.
CartsWellFormed ==
  \A i, j \in DOMAIN draft.cart :
    draft.cart[i].product = draft.cart[j].product => i = j

\* Types; carts have no empty lines and none twice, and replies in flight are
\* of past turns.
TypeOK ==
  /\ catalog \in Catalog
  /\ session \in Session
  /\ at \in {"idle", "tools", "done"}
  /\ draft \in Session /\ CartsWellFormed
  /\ preceding \in Nat
  /\ log \in Seq(Turn)
  /\ outbox \subseteq 1..now /\ unacked \subseteq 1..now
  /\ seen \in Seq(1..now)
  /\ issued \subseteq Quotation
  /\ crashes \in Nat

Seen(t) == \E i \in DOMAIN seen : seen[i] = t

\* What binds a session's preview, confirmation and quotation to each other
\* and to what happened: a bound preview is of the very cart and customer the
\* session holds, a confirmable one has reached the customer, a confirmation
\* came in a later turn whose message was explicit.  Only the business data
\* can have moved since.
Bound(s) ==
  /\ s.previewTurn = 0 <=> s.prepared = NoDigest
  /\ s.previewTurn # 0 <=>
       s.state \in {"QUOTE_REVIEW", "AWAITING_CONFIRMATION", "QUOTE_GENERATED"}
  /\ s.previewTurn # 0 =>
       /\ s.previewTurn <= now
       /\ s.prepared = log[s.previewTurn].preview
       /\ s.prepared.cart = s.cart /\ s.prepared.customer = s.customer
       /\ s.cart # <<>> /\ Ready(s)
  /\ s.delivered <=> s.state \in {"AWAITING_CONFIRMATION", "QUOTE_GENERATED"}
  /\ s.delivered => Seen(s.previewTurn)
  /\ s.confirmed <=> s.confirmationTurn # 0
  /\ s.confirmed =>
       /\ s.delivered
       /\ s.previewTurn < s.confirmationTurn /\ s.confirmationTurn <= now
       /\ log[s.confirmationTurn].explicit
  /\ s.state = "QUOTE_GENERATED" =>
       /\ s.confirmed /\ s.generated.id # 0 /\ s.lastId = s.generated.id
       /\ s.generated.digest = s.prepared
       /\ s.generated.turn = s.confirmationTurn
  /\ s.generated.id # 0 =>
       \E q \in issued : /\ q.id = s.generated.id
                         /\ q.confirmed = s.generated.turn
                         /\ q.digest = s.generated.digest

\* Whatever the model calls, in whatever order, and whichever replies are lost
\* or late, the stored session and the turn's copy stay bound.
SessionsBound == Bound(session) /\ Bound(draft)

\* TP-21: every quotation has the cart, customer, prices and rules of a preview
\* the customer received, and an explicit message of a later turn behind it.
IssuedAsConfirmed ==
  \A q \in issued :
    /\ Seen(q.preview) /\ q.preview < q.confirmed /\ q.confirmed <= now
    /\ q.digest = log[q.preview].preview
    /\ log[q.confirmed].explicit

\* A preview becomes at most one quotation, unless the turn that issued it was
\* lost; retries of create_quotation, in that turn or later, replay it.
\* IssuesAsPromised has it of each step of issuing.
OneQuotationPerPreview ==
  \A t \in 1..now :
    Cardinality({q \in issued : q.preview = t}) <= 1 + crashes

\* TP-23, TP-24: a turn that changes the cart or the customer leaves nothing
\* confirmable, confirmed or generated in the stored session.
ChangesRevoke ==
  [][session'.cart # session.cart \/ session'.customer # session.customer
     => /\ session'.state \notin {"AWAITING_CONFIRMATION", "QUOTE_GENERATED"}
        /\ ~session'.confirmed /\ session'.generated.id = 0]_vars

\* A stored confirmation is withdrawn only by a new preview, by a change, or
\* with the session: no lost, late or repeated acknowledgement undoes it.
ConfirmationsKept ==
  [][session.confirmed /\ ~session'.confirmed
     => \/ session' = NewSession
        \/ session'.previewTurn # session.previewTurn]_vars

Phase ==
  CASE session.state = "QUOTE_REVIEW" -> "review"
    [] session.state = "AWAITING_CONFIRMATION" -> "awaiting"
    [] session.state = "QUOTE_GENERATED" -> "generated"
    [] OTHER -> "none"

Boundary == INSTANCE PreviewBoundary WITH
  current <- session.previewTurn, phase <- Phase,
  given <- {seen[i] : i \in DOMAIN seen}

\* D-05: whatever a turn does to cart, customer and quotation, what it leaves
\* in the stored session is a preview nobody has seen yet, none, the one there
\* was, or the quotation made of that one after it had been delivered.
TurnsKeepBoundary == Boundary!Spec

Received == {seen[i] : i \in DOMAIN seen}
Issuing == INSTANCE QuotationIssue WITH
  shown <- {[turn |-> t, digest |-> log[t].preview] : t \in Received},
  approvals <- {t \in 1..now : log[t].explicit},
  quotations <- issued, lost <- crashes

\* D-05, TP-21: each quotation is issued when its preview has been received as it
\* is, on a confirmation that has been spent on no other preview; no later turn,
\* edit, loss or restart changes a quotation or what it was issued for.
IssuesAsPromised == Issuing!Spec

\* D-05, implementation-contract.md: "Generation requires both that state and
\* flag."  The current preview, delivered and confirmed, can be generated.
ConfirmedPreviewIsGenerable ==
  at = "tools" /\ Authorized(draft, catalog) => CanGenerate(draft, catalog)

\* "Preview revision tracking", implementation-contract.md: "This prevents a
\* stale confirmation from authorizing changed items, prices, rules, or
\* customer details."  A confirmation written upon one preview authorizes no
\* quotation with other content.
StaleConfirmationsRefused ==
  \A q \in issued :
    LET saw == log[q.confirmed].saw IN
      saw > 0 => log[seen[saw]].preview = q.digest
=============================================================================
