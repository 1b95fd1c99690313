---------------------------- MODULE MCPricingBundle --------------------------
(* Instances of PricingBundle for TLC.                                       *)
EXTENDS PricingBundle, TLC

CONSTANTS d1, d2, c1, c2

TwoOrders == <<1, 2>>
AllPriced == {<<1, 1>>}
FirstOwnsAll == {[i \in 1..2 |-> d1]}
TwoDelegates == {d1, d2}
TwoClients == {c1, c2}
Interchangeable == Permutations(TwoClients)
==============================================================================
