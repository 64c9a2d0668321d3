------------------------ MODULE MCQuotationLifecycle ------------------------
(* Instances of QuotationLifecycle for TLC.                                *)
EXTENDS QuotationLifecycle, TLC

CONSTANTS p1, p2

Base == [active |-> Product, price |-> [p \in Product |-> 1],
         rules |-> 1]
NewPrice == [Base EXCEPT !.price[p1] = 2]
Discontinued == [Base EXCEPT !.active = Product \ {p1}]

OneCatalog == {Base}
Catalogs == {Base, NewPrice, Discontinued}
=============================================================================
