--------------------------- MODULE ProductSearch ----------------------------
(***************************************************************************)
(* ProductRepository.search: the active products that match a query, best  *)
(* first.  A normalized text is a value, of which scoring knows the words  *)
(* and the values it is part of.                                           *)
(***************************************************************************)
EXTENDS Integers, FiniteSetsExt

CONSTANTS
  Value,      \* normalized texts, categories among them
  Words,      \* Value -> the set of its words
  Within,     \* pairs of values, the first of which is part of the second
  MaxResults  \* _MAX_SEARCH_RESULTS

ASSUME ResultsAssumption == MaxResults \in Nat \ {0}
ASSUME ValueAssumption ==
  \A v \in Value : <<v, v>> \in Within /\ Words[v] # {} /\ IsFiniteSet(Words[v])

Product == [id : Nat, active : BOOLEAN, sku : Value, name : Value,
            keywords : SUBSET Value, category : Value, description : Value]

PhraseIn(query, values) == \E v \in values : <<query, v>> \in Within

NameSku(p) == {p.name, p.sku}
CategoryDescription(p) == {p.category, p.description}

\* The first of several cases that applies is the one that scores most.
Scored(applies, score) == IF applies THEN score ELSE 0

BestTokenScore(p, word) ==
  LET In(values) == \E v \in values : word \in Words[v] IN
  Max({Scored(In(NameSku(p)), 4), Scored(In(p.keywords), 3),
       Scored(In(CategoryDescription(p)), 2)})

\* Mutant: words add up without bound.
TokenScoreUncapped(p, query) ==
  MapThenSumSet(LAMBDA word : BestTokenScore(p, word), Words[query])

TokenScore(p, query) ==
  Min({199, MapThenSumSet(LAMBDA word : BestTokenScore(p, word), Words[query])})

SearchScore(p, query) ==
  Max({Scored(query = p.sku, 600),
       Scored(query = p.name, 500),
       Scored(PhraseIn(query, {p.name}), 400),
       Scored(PhraseIn(query, p.keywords), 300),
       Scored(PhraseIn(query, CategoryDescription(p)), 200),
       TokenScore(p, query)})

Matches(catalog, query, categories) ==
  {p \in catalog : p.active /\ p.category \in categories /\ SearchScore(p, query) > 0}

Before(p, q, query) ==
  \/ SearchScore(p, query) > SearchScore(q, query)
  \/ SearchScore(p, query) = SearchScore(q, query) /\ p.id < q.id

\* categories: all of them, or the one that is asked for.
Search(catalog, query, categories) ==
  LET matches == Matches(catalog, query, categories)
  IN [rank \in 1..Min({MaxResults, Cardinality(matches)}) |->
        CHOOSE p \in matches :
          Cardinality({q \in matches : Before(q, p, query)}) = rank - 1]
-----------------------------------------------------------------------------
\* The field that makes p a match, by priority; 7: none.
Field(p, query) ==
  Min({7} \cup {k \in 1..6 :
    \/ k = 1 /\ query = p.sku
    \/ k = 2 /\ query = p.name
    \/ k = 3 /\ PhraseIn(query, {p.name})
    \/ k = 4 /\ PhraseIn(query, p.keywords)
    \/ k = 5 /\ PhraseIn(query, CategoryDescription(p))
    \/ k = 6 /\ \E v \in NameSku(p) \cup p.keywords \cup CategoryDescription(p) :
                  Words[v] \cap Words[query] # {}})

\* "matches in lower-priority fields cannot overtake a higher-priority match",
\* neither among the results nor by crowding it out of them.
NoOvertaking(catalog, query, categories) ==
  LET found == Search(catalog, query, categories)
      shown == {found[rank] : rank \in DOMAIN found}
      active == {p \in catalog : p.active /\ p.category \in categories}
  IN /\ \A i, j \in DOMAIN found : i < j => Field(found[i], query) <= Field(found[j], query)
     /\ \A p \in active \ shown, q \in shown : Field(q, query) <= Field(p, query)
     /\ \A p \in active \ shown : Field(p, query) # 7 => Cardinality(shown) = MaxResults
=============================================================================
