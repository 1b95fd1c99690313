--------------------------- MODULE MCInventoryCount ---------------------------
(* Small instances of InventoryCount for TLC.                                *)
EXTENDS InventoryCount

CONSTANTS t1, c1, k1

OneTx == {t1}
OneCount == {c1}
OneClerk == {k1}

AllPairs == Lots \X Invs
UpToTwo == -2..2
FullScope == {"full"}
BothScopes == {"full", "manual"}

Movements == {"disposal", "transfer"}
MovementsAndReturns == {"issue", "transfer", "recipient_return"}
==============================================================================
