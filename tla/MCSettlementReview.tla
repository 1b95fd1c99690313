-------------------------- MODULE MCSettlementReview --------------------------
(* Small instances of SettlementReview for TLC.                              *)
EXTENDS SettlementReview

CONSTANTS clerk, clerk2, manager, owner, null, i1, i2

ClerkOwner == {clerk, owner}
ManagerOwner == {manager, owner}
OnlyOwner == {owner}
ExpectedOne == [i \in Items |-> 1]
OneItem == {i1}
TwoItems == {i1, i2}
==============================================================================
