---------------------------- MODULE MCStockLedger ----------------------------
(* Small instances of StockLedger for TLC.                                   *)
EXTENDS StockLedger, TLC

CONSTANTS t1, t2

TwoTxs == {t1, t2}
TxSymmetry == Permutations(TwoTxs)

MovementKinds == {"issue", "supplier_return", "transfer"}
ReturnKinds == {"issue", "recipient_return"}
MostKinds == ReturnKinds \cup AggregateKinds \cup {"disposal"}
ReceiptKinds == {"draft_receipt"}

NoPairs == {}
FirstRecord == {<<1, 1>>, <<2, 1>>}

UnitDiffs == -1..1
==============================================================================
