----------------------------- MODULE StockLedger -----------------------------
(* The stock tables and the transactions that move stock.                    *)
(*                                                                            *)
(* inventory.quantity, inventory_lot_balances.quantity and                    *)
(* inventory_lots.remainingQuantity hold the same units three times, and      *)
(* every movement updates all three (or two, for a transfer) in one database  *)
(* transaction.  A transaction is modelled by the step that opens it and      *)
(* reads (its plain SELECTs see the snapshot of that step: no code sets an    *)
(* isolation level, so REPEATABLE READ applies) and the step that writes and  *)
(* commits.  The writes are row-locked until the commit, so they take effect  *)
(* as one; they see the latest rows when they are relative                    *)
(* (quantity = quantity - x WHERE quantity >= x) and not when they are        *)
(* absolute.                                                                  *)
(*                                                                            *)
(* frozen is the set of (lot, inventory record) pairs the inventory counts    *)
(* hold: this module only needs to know it, module InventoryCount says how the  *)
(* counts set it.                                                             *)
EXTENDS Integers, RunningTotals

CONSTANTS
  NumLots, NumInvs,   \* lots and inventory records are 1..NumLots, 1..NumInvs
  NumDocs,            \* bound: delivery documents
  Quantities,         \* bound: the quantities of one movement
  Diffs,              \* bound: the differences of one settled count item
  MaxStock,           \* bound: what settlements and additions may reach
  Countable,          \* bound: the pairs the counts of this instance may hold
  Txs,                \* transactions that may be open at once
  Kinds,              \* the kinds of movement of this instance
  SnapshotAtBegin     \* TRUE: the read view opens at BEGIN, as in TiDB;
                      \* FALSE: at the first plain SELECT, as in InnoDB

ConsumeKinds == {"issue", "supplier_return", "disposal"}
AggregateKinds == {"in", "out", "draft_receipt"}   \* write back what they read
AllKinds == ConsumeKinds \cup AggregateKinds \cup {"transfer", "recipient_return"}

ASSUME SizesAreNatural ==
  /\ NumLots \in Nat /\ NumInvs \in Nat /\ NumDocs \in Nat /\ MaxStock \in Nat
ASSUME CountableArePairs == Countable \subseteq (1..NumLots) \X (1..NumInvs)
ASSUME QuantitiesPositive == Quantities \subseteq Nat \ {0}
ASSUME DiffsAreIntegers == Diffs \subseteq Int /\ 0 \in Diffs
ASSUME KindsKnown == Kinds \subseteq AllKinds
ASSUME SnapshotIsBoolean == SnapshotAtBegin \in BOOLEAN

Lots == 1..NumLots
Invs == 1..NumInvs
Docs == 1..NumDocs
Pairs == Lots \X Invs

VARIABLES
  quantity,    \* inventory.quantity
  balance,     \* inventory_lot_balances.quantity, 0 when there is no row
  remaining,   \* inventory_lots.remainingQuantity
  source,      \* inventory_lots.sourceType, "none" while the lot has no row
  docs,        \* delivery_documents, with the sum of warehouse_returns of each
  frozen,      \* the pairs held by counts
  txs          \* the open transaction of each client

stock == <<quantity, balance, remaining, source>>
vars  == <<quantity, balance, remaining, source, docs, frozen, txs>>

-----------------------------------------------------------------------------
Unissued == [lot |-> 0, inv |-> 0, quantity |-> 0, returned |-> 0]

(* What a transaction has read of the rows it will write.                    *)
Unread == [balance |-> 0, remaining |-> 0, quantity |-> 0, returned |-> 0]
ReadRows(l, i, d) == [balance  |-> balance[l][i], remaining |-> remaining[l],
                      quantity |-> quantity[i],   returned  |-> docs[d].returned]

Idle == [kind |-> "none", lot |-> 0, inv |-> 0, to |-> 0, qty |-> 0, doc |-> 0,
         locked |-> FALSE, seen |-> Unread]

SourceTypes == {"receipt", "opening_balance"}

Row == [balance : Nat, remaining : Nat, quantity : Nat, returned : Nat]
Doc == [lot : Lots \cup {0}, inv : Invs \cup {0}, quantity : Nat, returned : Nat]
Tx  == [kind : AllKinds \cup {"none"}, lot : Lots \cup {0}, inv : Invs \cup {0},
        to : Invs \cup {0}, qty : Nat, doc : Docs \cup {0}, locked : BOOLEAN,
        seen : Row]

(* SELECT SUM(quantity) over the rows of a lot, of an inventory record       *)
LotSum(table, l) == Total(table[l], NumInvs)
InvSum(table, i) == Total([l \in Lots |-> table[l][i]], NumLots)

Init ==
  /\ quantity  = [i \in Invs |-> 0]
  /\ balance   = [l \in Lots |-> [i \in Invs |-> 0]]
  /\ remaining = [l \in Lots |-> 0]
  /\ source    = [l \in Lots |-> "none"]
  /\ docs      = [d \in Docs |-> Unissued]
  /\ frozen    = {}
  /\ txs       = [t \in Txs |-> Idle]

Open(t, fields) == txs[t] = Idle /\ txs' = [txs EXCEPT ![t] = fields]
Close(t) == txs' = [txs EXCEPT ![t] = Idle]
AddTo(m, l, i, q) == [m EXCEPT ![l][i] = @ + q]

-----------------------------------------------------------------------------
(* A plausible bug: the LOT number is reused instead of being generated.     *)
ReceiveLotReusingNumber(l, i, q, s) ==
  /\ source'    = [source EXCEPT ![l] = s]
  /\ balance'   = AddTo(balance, l, i, q)
  /\ remaining' = [remaining EXCEPT ![l] = @ + q]
  /\ quantity'  = [quantity EXCEPT ![i] = @ + q]
  /\ UNCHANGED <<docs, frozen, txs>>

(* A new lot with its whole quantity in one record, and the record's         *)
(* aggregate.  A receipt has updated the cost of the record when it reads    *)
(* the quantity it adds to, so it reads its own, latest version of the row;  *)
(* an opening balance reads the row FOR UPDATE.  No quantity can be stale    *)
(* and the step is one.  The approval of a draft receipt does neither: it is *)
(* BeginDraftReceipt and EndDraftReceipt.                                    *)
ReceiveLot(l, i, q, s) ==
  /\ source[l] = "none"
  /\ source'    = [source EXCEPT ![l] = s]
  /\ balance'   = AddTo(balance, l, i, q)
  /\ remaining' = [remaining EXCEPT ![l] = q]
  /\ quantity'  = [quantity EXCEPT ![i] = @ + q]
  /\ UNCHANGED <<docs, frozen, txs>>

(* An item of a receipt; an item of an opening-balance settlement, which is  *)
(* refused where the record is not empty.                                    *)
Receive(l, i, q) == ReceiveLot(l, i, q, "receipt")
OpenBalance(l, i, q) == quantity[i] = 0 /\ ReceiveLot(l, i, q, "opening_balance")

(* Only a lot that came from a supplier can be returned to one.              *)
Resolvable(k, l) ==
  source[l] \in IF k = "supplier_return" THEN {"receipt"} ELSE SourceTypes

(* Issue, return to the supplier, disposal: open, resolve the lot, check     *)
(* that no count holds it and that balance, remaining and aggregate cover q. *)
BeginConsume(t, k, l, i, q) ==
  /\ k \in Kinds
  /\ Resolvable(k, l)
  /\ <<l, i>> \notin frozen
  /\ q <= balance[l][i] /\ q <= remaining[l] /\ q <= quantity[i]
  /\ Open(t, [Idle EXCEPT !.kind = k, !.lot = l, !.inv = i, !.qty = q])
  /\ UNCHANGED <<stock, docs, frozen>>

(* A plausible bug: the decrements trust the checks made before.             *)
ConsumeLotUnchecked(r) ==
  /\ balance'   = AddTo(balance, r.lot, r.inv, -r.qty)
  /\ remaining' = [remaining EXCEPT ![r.lot] = @ - r.qty]

(* The conditional decrements of the balance and of the lot, then the one of *)
(* the aggregate; when one of them finds too little nothing is written.      *)
ConsumeLot(r) ==
  /\ balance[r.lot][r.inv] >= r.qty
  /\ remaining[r.lot] >= r.qty
  /\ balance'   = AddTo(balance, r.lot, r.inv, -r.qty)
  /\ remaining' = [remaining EXCEPT ![r.lot] = @ - r.qty]

ConsumeAggregate(r) ==
  /\ quantity[r.inv] >= r.qty
  /\ quantity' = [quantity EXCEPT ![r.inv] = @ - r.qty]

(* An issue also writes the delivery document its returns refer to.          *)
Issue(t) ==
  LET r == txs[t] IN
  /\ r.kind = "issue"
  /\ ConsumeLot(r) /\ ConsumeAggregate(r)
  /\ \E d \in Docs :
        /\ docs[d] = Unissued
        /\ docs' = [docs EXCEPT ![d] = [lot |-> r.lot, inv |-> r.inv,
                                        quantity |-> r.qty, returned |-> 0]]
  /\ Close(t)
  /\ UNCHANGED <<source, frozen>>

ReturnToSupplier(t) ==
  /\ txs[t].kind = "supplier_return"
  /\ ConsumeLot(txs[t]) /\ ConsumeAggregate(txs[t])
  /\ Close(t)
  /\ UNCHANGED <<source, docs, frozen>>

Dispose(t) ==
  /\ txs[t].kind = "disposal"
  /\ ConsumeLot(txs[t]) /\ ConsumeAggregate(txs[t])
  /\ Close(t)
  /\ UNCHANGED <<source, docs, frozen>>

(* A transfer checks the lot against the counts in both records.             *)
BeginTransfer(t, l, i, j, q) ==
  /\ "transfer" \in Kinds
  /\ i # j
  /\ Resolvable("transfer", l)
  /\ <<l, i>> \notin frozen /\ <<l, j>> \notin frozen
  /\ q <= balance[l][i] /\ q <= remaining[l] /\ q <= quantity[i]
  /\ Open(t, [Idle EXCEPT !.kind = "transfer", !.lot = l, !.inv = i, !.to = j,
                          !.qty = q])
  /\ UNCHANGED <<stock, docs, frozen>>

(* The lot stays in the company: its remaining quantity does not change.     *)
MoveLotBalance(r) ==
  /\ balance[r.lot][r.inv] >= r.qty
  /\ balance' = AddTo(AddTo(balance, r.lot, r.inv, -r.qty), r.lot, r.to, r.qty)

(* Plausible bugs: the aggregate of the destination is forgotten; the        *)
(* transfer is taken off the lot as an issue is.                             *)
CommitTransferOneSided(t) ==
  LET r == txs[t] IN
  /\ r.kind = "transfer"
  /\ MoveLotBalance(r)
  /\ quantity[r.inv] >= r.qty
  /\ quantity' = [quantity EXCEPT ![r.inv] = @ - r.qty]
  /\ Close(t)
  /\ UNCHANGED <<remaining, source, docs, frozen>>

CommitTransferAsIssue(t) ==
  LET r == txs[t] IN
  /\ r.kind = "transfer"
  /\ MoveLotBalance(r)
  /\ quantity[r.inv] >= r.qty
  /\ quantity' = [quantity EXCEPT ![r.inv] = @ - r.qty, ![r.to] = @ + r.qty]
  /\ remaining' = [remaining EXCEPT ![r.lot] = @ - r.qty]
  /\ Close(t)
  /\ UNCHANGED <<source, docs, frozen>>

CommitTransfer(t) ==
  LET r == txs[t] IN
  /\ r.kind = "transfer"
  /\ MoveLotBalance(r)
  /\ quantity[r.inv] >= r.qty
  /\ quantity' = [quantity EXCEPT ![r.inv] = @ - r.qty, ![r.to] = @ + r.qty]
  /\ Close(t)
  /\ UNCHANGED <<remaining, source, docs, frozen>>

(* A recipient brings back part of a delivery.  The transaction opens, locks *)
(* the delivery document, checks what is still returnable, and writes        *)
(* absolute quantities computed from what it read; no count is asked.        *)
BeginReturn(t, d, q) ==
  /\ "recipient_return" \in Kinds
  /\ docs[d] # Unissued
  /\ Open(t, [Idle EXCEPT !.kind = "recipient_return", !.doc = d, !.qty = q,
                !.lot = docs[d].lot, !.inv = docs[d].inv,
                !.seen = IF SnapshotAtBegin
                         THEN ReadRows(docs[d].lot, docs[d].inv, d)
                         ELSE Unread])
  /\ UNCHANGED <<stock, docs, frozen>>

DocLockFree(d) == \A t \in Txs : ~ (txs[t].locked /\ txs[t].doc = d)

(* A plausible bug: the delivery document is read without FOR UPDATE.        *)
LockReturnUnlocked(t) ==
  LET r == txs[t]
      rows == IF SnapshotAtBegin THEN r.seen ELSE ReadRows(r.lot, r.inv, r.doc)
  IN
  /\ r.kind = "recipient_return" /\ ~ r.locked
  /\ r.qty + rows.returned <= docs[r.doc].quantity
  /\ txs' = [txs EXCEPT ![t].locked = TRUE, ![t].seen = rows]
  /\ UNCHANGED <<stock, docs, frozen>>

LockReturn(t) ==
  LET r == txs[t]
      rows == IF SnapshotAtBegin THEN r.seen ELSE ReadRows(r.lot, r.inv, r.doc)
  IN
  /\ r.kind = "recipient_return" /\ ~ r.locked
  /\ DocLockFree(r.doc)
  /\ r.qty + rows.returned <= docs[r.doc].quantity
  /\ txs' = [txs EXCEPT ![t].locked = TRUE, ![t].seen = rows]
  /\ UNCHANGED <<stock, docs, frozen>>

CommitReturn(t) ==
  LET r == txs[t] IN
  /\ r.kind = "recipient_return" /\ r.locked
  /\ balance'   = [balance EXCEPT ![r.lot][r.inv] = r.seen.balance + r.qty]
  /\ remaining' = [remaining EXCEPT ![r.lot] = r.seen.remaining + r.qty]
  /\ quantity'  = [quantity EXCEPT ![r.inv] = r.seen.quantity + r.qty]
  /\ docs' = [docs EXCEPT ![r.doc].returned = @ + r.qty]
  /\ Close(t)
  /\ UNCHANGED <<source, frozen>>

(* inventory.quantity is read with a plain SELECT, to be written back.       *)
ReadAggregate(t, k, i, q) ==
  /\ k \in Kinds
  /\ Open(t, [Idle EXCEPT !.kind = k, !.inv = i, !.qty = q,
                          !.seen = [Unread EXCEPT !.quantity = quantity[i]]])
  /\ UNCHANGED <<stock, docs, frozen>>

(* The aggregate endpoint inventory.addTransaction: no transaction, no lot;  *)
(* it reads inventory.quantity and then writes it back, never below zero.    *)
BeginAddTransaction(t, dir, i, q) ==
  /\ dir \in {"in", "out"}
  /\ quantity[i] + q <= MaxStock
  /\ ReadAggregate(t, dir, i, q)

EndAddTransaction(t) ==
  LET r == txs[t] IN
  /\ r.kind \in {"in", "out"}
  /\ quantity' = [quantity EXCEPT ![r.inv] =
        CASE r.kind = "in" -> r.seen.quantity + r.qty
          [] r.seen.quantity >= r.qty -> r.seen.quantity - r.qty
          [] OTHER -> 0]
  /\ Close(t)
  /\ UNCHANGED <<balance, remaining, source, docs, frozen>>

(* The approval of a draft receipt, for one of its items.  The inventory row *)
(* is locked, but its quantity is then read with a plain SELECT, in the view *)
(* that an earlier item or a look into the catalogue may have opened long    *)
(* before: the view opens here, the lock is taken and the row written below. *)
BeginDraftReceipt(t, i, q) == ReadAggregate(t, "draft_receipt", i, q)

EndDraftReceipt(t, l) ==
  LET r == txs[t] IN
  /\ r.kind = "draft_receipt"
  /\ source[l] = "none"
  /\ source'    = [source EXCEPT ![l] = "receipt"]
  /\ balance'   = AddTo(balance, l, r.inv, r.qty)
  /\ remaining' = [remaining EXCEPT ![l] = r.qty]
  /\ quantity'  = [quantity EXCEPT ![r.inv] = r.seen.quantity + r.qty]
  /\ Close(t)
  /\ UNCHANGED <<docs, frozen>>

(* An error, a lost connection or a failed condition ends any transaction.   *)
Rollback(t) ==
  /\ txs[t] # Idle
  /\ Close(t)
  /\ UNCHANGED <<stock, docs, frozen>>

-----------------------------------------------------------------------------
(* A settlement posts every difference of one count at once.  It refuses     *)
(* rows whose sums disagree and results below zero; the pairs it settles may *)
(* be released.  Its compare-and-set writes make its reads current.          *)
InventoryAgrees(i) == quantity[i] = InvSum(balance, i)
LotAgrees(l) == remaining[l] = LotSum(balance, l)

PostSettlement(diff) ==
  LET change  == [l \in Lots |-> [i \in Invs |->
                    IF <<l, i>> \in DOMAIN diff THEN diff[<<l, i>>] ELSE 0]]
      settled == {p \in DOMAIN diff : diff[p] # 0}
  IN
  /\ settled # {}
  /\ \A p \in settled : InventoryAgrees(p[2]) /\ LotAgrees(p[1])
  /\ \A p \in settled : balance[p[1]][p[2]] + diff[p] >= 0
  /\ balance' = [l \in Lots |-> [i \in Invs |-> balance[l][i] + change[l][i]]]
  /\ remaining' = [l \in Lots |-> remaining[l] + LotSum(change, l)]
  /\ \A l \in Lots : remaining'[l] \in 0..MaxStock
  /\ quantity' = [i \in Invs |-> quantity[i] + InvSum(change, i)]
  /\ frozen' \in {frozen \ released : released \in SUBSET settled}
  /\ UNCHANGED <<source, docs, txs>>

(* Opening a count, recording, completing or deleting one.                   *)
CountStep ==
  /\ frozen' \in SUBSET Countable
  /\ frozen' # frozen
  /\ \A p \in frozen' \ frozen : source[p[1]] # "none"
  /\ UNCHANGED <<stock, docs, txs>>

-----------------------------------------------------------------------------
Next ==
  \/ \E l \in Lots, i \in Invs, q \in Quantities :
        Receive(l, i, q) \/ OpenBalance(l, i, q)
  \/ \E t \in Txs, k \in ConsumeKinds, l \in Lots, i \in Invs, q \in Quantities :
        BeginConsume(t, k, l, i, q)
  \/ \E t \in Txs, l \in Lots, i, j \in Invs, q \in Quantities :
        BeginTransfer(t, l, i, j, q)
  \/ \E t \in Txs, d \in Docs, q \in Quantities : BeginReturn(t, d, q)
  \/ \E t \in Txs, dir \in {"in", "out"}, i \in Invs, q \in Quantities :
        BeginAddTransaction(t, dir, i, q)
  \/ \E t \in Txs, i \in Invs, q \in Quantities : BeginDraftReceipt(t, i, q)
  \/ \E t \in Txs, l \in Lots : EndDraftReceipt(t, l)
  \/ \E t \in Txs : \/ Issue(t) \/ ReturnToSupplier(t) \/ Dispose(t)
                    \/ CommitTransfer(t)
                    \/ LockReturn(t) \/ CommitReturn(t)
                    \/ EndAddTransaction(t) \/ Rollback(t)
  \/ \E diff \in [frozen -> Diffs] : PostSettlement(diff)
  \/ CountStep

Spec == Init /\ [][Next]_vars

-----------------------------------------------------------------------------
(* Every table holds what its columns can hold; in particular no quantity is *)
(* ever negative, whatever movements race (rule 3 of the integrity rules).   *)
TypeOK ==
  /\ quantity  \in [Invs -> Nat]
  /\ balance   \in [Lots -> [Invs -> Nat]]
  /\ remaining \in [Lots -> Nat]
  /\ source    \in [Lots -> SourceTypes \cup {"none"}]
  /\ docs      \in [Docs -> Doc]
  /\ frozen    \subseteq Countable
  /\ txs       \in [Txs -> Tx]

(* Rule 1: the aggregate of an inventory record is the sum of its lot        *)
(* balances, after any interleaving of movements and settlements.            *)
QuantityMatchesLots == \A i \in Invs : InventoryAgrees(i)

(* Rule 2: the remaining quantity of a lot is the sum of its balances over   *)
(* the warehouses, after any interleaving of movements and settlements.      *)
RemainingMatchesBalances == \A l \in Lots : LotAgrees(l)

(* The returns of a delivery never exceed it, although several returns of    *)
(* the same delivery may be open at once.                                    *)
NoOverReturn == \A d \in Docs : docs[d].returned <= docs[d].quantity

(* Every movement takes effect atomically on the stock as it is when it      *)
(* commits: the tables implement the book of lots.                           *)
Outstanding(l, i) ==
  Total([d \in Docs |-> IF docs[d].lot = l /\ docs[d].inv = i
                        THEN docs[d].quantity - docs[d].returned ELSE 0], NumDocs)

Book == INSTANCE LotBook WITH
          exists     <- [l \in Lots |-> source[l] # "none"],
          cell       <- balance,
          delivered  <- [l \in Lots |-> [i \in Invs |-> Outstanding(l, i)]],
          underCount <- frozen

ImplementsBook == Book!BookSpec
==============================================================================
