---------------------------- MODULE MCAlgorithms ----------------------------
(* One run for what is computed from its input alone: a call to WhatsApp,  *)
(* the price of a cart as it grows, the products a query finds.            *)
EXTENDS WhatsAppTransport, Pricing, ProductSearch

VARIABLES
  cart,    \* a cart that grows, of items
  rules,   \* the rules it is calculated by
  query,   \* what is searched for
  shelf    \* and in which products

subject == <<cart, rules, query, shelf>>

\* Texts: every one of up to four characters, and flags in a row beside others.
ShortTexts == UNION {[1..n -> Character] : n \in 0..4}
LongTexts ==
  {[i \in 1..9 |-> IF i \in odd THEN kind ELSE "flag"] :
     odd \in SUBSET (1..9), kind \in {"letter", "space", "mark"}}
Texts == ShortTexts \cup LongTexts

\* Values: words in a name, a name, a phrase of it, and sixty words.
MCValue == {"sku", "other", "name", "phrase", "sixty", "scattered", "shelf"}
Sixty == 1..60
MCWords == [v \in MCValue |->
              CASE v = "sku" -> {101} [] v = "other" -> {102}
                [] v = "name" -> {1, 2, 103} [] v = "phrase" -> {1, 2}
                [] v = "sixty" -> Sixty [] v = "scattered" -> Sixty \cup {104}
                [] v = "shelf" -> {104}]
MCWithin == {<<v, v>> : v \in MCValue} \cup
            {<<"phrase", "name">>, <<"phrase", "sixty">>, <<"shelf", "scattered">>}

\* Products that may have a value in any field, two on a shelf, beside a third
\* that has it in its description.
Products ==
  {p \in [id : {0}, active : BOOLEAN, sku : {"sku", "other"},
          name : {"name", "other", "scattered"},
          keywords : {{}, {"name"}}, category : {"shelf"},
          description : {"other", "sixty"}] :
     p.active \/ p.sku = "sku"}
Rival == [id |-> 0, active |-> TRUE, sku |-> "other", name |-> "other",
          keywords |-> {}, category |-> "shelf", description |-> "sixty"]
Shelves == {{[p EXCEPT !.id = 1], [q EXCEPT !.id = 2], Rival} : p, q \in Products}

NoRules == [discount |-> 0, tax |-> 0]
CartRules == [discount : DiscountRate, tax : {0, 3, 30}]
Prices == {0, 3, 5, 14, 15, 20, 37}

MCInit ==
  \/ /\ Init
     /\ cart = <<>> /\ rules = NoRules /\ query = "sku" /\ shelf = {}
  \/ /\ Init /\ call = "document"
     /\ cart = <<>> /\ rules \in CartRules /\ query = "sku" /\ shelf = {}
  \/ /\ Init /\ call = "document"
     /\ cart = <<>> /\ rules = NoRules /\ query \in MCValue /\ shelf \in Shelves

Call == Next /\ UNCHANGED subject

Idle == at = "check" /\ call = "document" /\ shelf = {}

AddItem ==
  /\ Idle /\ Len(cart) < 2
  /\ \E price \in Prices : cart' = Append(cart, [price |-> price, quantity |-> 1])
  /\ UNCHANGED <<vars, rules, query, shelf>>

AddUnit ==
  /\ Idle
  /\ \E i \in DOMAIN cart : /\ cart[i].quantity < 3
                            /\ cart' = [cart EXCEPT ![i].quantity = @ + 1]
  /\ UNCHANGED <<vars, rules, query, shelf>>

MCNext == Call \/ AddItem \/ AddUnit
MCSpec == MCInit /\ [][MCNext]_<<vars, subject>>
-----------------------------------------------------------------------------
\* The three roundings of a quotation stay within half a cent each.
RoundingBounded == WithinRounding(cart, rules)

\* However discount and tax are rounded, more goods never cost less.
MoreNeverCostsLess == [][CostsNoLess(cart', cart, rules)]_cart

\* The documented priority of fields holds in every result of a search.
NoneOvertaken == shelf # {} => NoOvertaking(shelf, query, Value)
=============================================================================
