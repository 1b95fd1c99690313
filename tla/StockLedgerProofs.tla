-------------------------- MODULE StockLedgerProofs --------------------------
(* Theorems about StockLedger, for any number of lots, records, documents    *)
(* and concurrent transactions.                                              *)
EXTENDS StockLedger, RunningTotalsTheorems

(* The open transactions are well formed: they name rows that exist and only *)
(* movements of this instance are open.                                      *)
TxShape ==
  \A t \in Txs :
    /\ txs[t].kind \in Kinds \cup {"none"}
    /\ txs[t].kind \in ConsumeKinds \cup {"transfer", "recipient_return"} =>
         txs[t].lot \in Lots /\ txs[t].inv \in Invs
    /\ txs[t].kind \in AggregateKinds => txs[t].inv \in Invs
    /\ txs[t].kind = "transfer" => txs[t].to \in Invs /\ txs[t].to # txs[t].inv
    /\ txs[t].kind = "recipient_return" => txs[t].doc \in Docs

(* An issued delivery document names its lot and its record, and a return    *)
(* names those of its document.                                              *)
DocShape ==
  /\ \A d \in Docs : docs[d] # Unissued => docs[d].lot \in Lots /\ docs[d].inv \in Invs
  /\ \A t \in Txs : txs[t].kind = "recipient_return" =>
        /\ docs[txs[t].doc].lot = txs[t].lot
        /\ docs[txs[t].doc].inv = txs[t].inv

TypeInv == TypeOK /\ TxShape /\ DocShape

(* What issues, returns to suppliers and disposals do to the stock.          *)
Consumed(t) ==
  LET r == txs[t] IN
  /\ r.kind \in ConsumeKinds
  /\ ConsumeLot(r) /\ ConsumeAggregate(r)
  /\ IF r.kind = "issue"
     THEN \E d \in Docs :
            /\ docs[d] = Unissued
            /\ docs' = [docs EXCEPT ![d] = [lot |-> r.lot, inv |-> r.inv,
                                            quantity |-> r.qty, returned |-> 0]]
     ELSE docs' = docs
  /\ Close(t)
  /\ UNCHANGED <<source, frozen>>

(* The lists of Next, so that a proof has one step per action.               *)
LEMMA NextCases ==
  ASSUME Next
  PROVE  \/ \E l \in Lots, i \in Invs, q \in Quantities, s \in SourceTypes :
              ReceiveLot(l, i, q, s)
         \/ \E t \in Txs, k \in ConsumeKinds, l \in Lots, i \in Invs, q \in Quantities :
              BeginConsume(t, k, l, i, q)
         \/ \E t \in Txs, l \in Lots, i, j \in Invs, q \in Quantities :
              BeginTransfer(t, l, i, j, q)
         \/ \E t \in Txs, d \in Docs, q \in Quantities : BeginReturn(t, d, q)
         \/ \E t \in Txs, k \in AggregateKinds, i \in Invs, q \in Quantities :
              ReadAggregate(t, k, i, q)
         \/ \E t \in Txs, l \in Lots : EndDraftReceipt(t, l)
         \/ \E t \in Txs : Consumed(t)
         \/ \E t \in Txs : CommitTransfer(t)
         \/ \E t \in Txs : LockReturn(t)
         \/ \E t \in Txs : CommitReturn(t)
         \/ \E t \in Txs : EndAddTransaction(t)
         \/ \E t \in Txs : Rollback(t)
         \/ \E diff \in [frozen -> Diffs] : PostSettlement(diff)
         \/ CountStep
<1>1. \A t \in Txs : Issue(t) \/ ReturnToSupplier(t) \/ Dispose(t) => Consumed(t)
  BY DEF Issue, ReturnToSupplier, Dispose, Consumed, ConsumeKinds
<1>2. \A l \in Lots, i \in Invs, q \in Quantities :
        Receive(l, i, q) \/ OpenBalance(l, i, q) =>
          \E s \in SourceTypes : ReceiveLot(l, i, q, s)
  BY DEF Receive, OpenBalance, SourceTypes
<1>3. /\ \A t \in Txs, dir \in {"in", "out"}, i \in Invs, q \in Quantities :
           BeginAddTransaction(t, dir, i, q) =>
             dir \in AggregateKinds /\ ReadAggregate(t, dir, i, q)
      /\ \A t \in Txs, i \in Invs, q \in Quantities :
           BeginDraftReceipt(t, i, q) =>
             "draft_receipt" \in AggregateKinds /\ ReadAggregate(t, "draft_receipt", i, q)
  BY DEF BeginAddTransaction, BeginDraftReceipt, AggregateKinds
<1> QED BY <1>1, <1>2, <1>3 DEF Next

-----------------------------------------------------------------------------
(* Writing one cell of a table of balances changes the sum of its lot and of *)
(* its inventory record, and no other sum.                                   *)
Table == [Lots -> [Invs -> Nat]]
CellMoves(b, c, l, i, d) == c = AddTo(b, l, i, d)
LotSumsMove(b, c, l, d) == \A m \in Lots :
  LotSum(c, m) = IF m = l THEN LotSum(b, m) + d ELSE LotSum(b, m)
InvSumsMove(b, c, i, d) == \A j \in Invs :
  InvSum(c, j) = IF j = i THEN InvSum(b, j) + d ELSE InvSum(b, j)

LEMMA LotCellUpdate ==
  ASSUME NEW b \in Table, NEW c \in Table, NEW l \in Lots, NEW i \in Invs, NEW d \in Int,
         CellMoves(b, c, l, i, d)
  PROVE  LotSumsMove(b, c, l, d)
<1>0. NumInvs \in Nat /\ i \in 1..NumInvs
  BY SizesAreNatural DEF Invs
<1>1. \A m \in Lots, j \in Invs :
        c[m][j] = IF m = l /\ j = i THEN b[m][j] + d ELSE b[m][j]
  BY DEF Table, CellMoves, AddTo
<1>2. \A m \in Lots : Summable(b[m], NumInvs)
  <2> TAKE m \in Lots
  <2>1. \A k \in 1..NumInvs : b[m][k] \in Nat
    BY DEF Table, Invs
  <2> QED BY <2>1 DEF Summable
<1>3. LotSum(c, l) = LotSum(b, l) + d
  <2>1. c[l][i] = b[l][i] + d /\ \A k \in 1..NumInvs : k # i => c[l][k] = b[l][k]
    BY <1>1 DEF Invs
  <2>2. Total(c[l], NumInvs) = Total(b[l], NumInvs) + d
    BY <1>0, <1>2, <2>1, TotalOfUpdate
  <2> QED BY <2>2 DEF LotSum
<1>4. ASSUME NEW m \in Lots, m # l PROVE LotSum(c, m) = LotSum(b, m)
  <2>1. \A k \in 1..NumInvs : c[m][k] = b[m][k]
    BY <1>1, <1>4 DEF Invs
  <2>2. Total(c[m], NumInvs) = Total(b[m], NumInvs)
    BY <1>0, <1>2, <2>1, TotalOfEqual
  <2> QED BY <2>2 DEF LotSum
<1> QED BY <1>3, <1>4 DEF LotSumsMove

LEMMA InvCellUpdate ==
  ASSUME NEW b \in Table, NEW c \in Table, NEW l \in Lots, NEW i \in Invs, NEW d \in Int,
         CellMoves(b, c, l, i, d)
  PROVE  InvSumsMove(b, c, i, d)
<1>0. NumLots \in Nat /\ l \in 1..NumLots
  BY SizesAreNatural DEF Lots
<1>1. \A m \in Lots, j \in Invs :
        c[m][j] = IF m = l /\ j = i THEN b[m][j] + d ELSE b[m][j]
  BY DEF Table, CellMoves, AddTo
<1> DEFINE f(j) == [m \in Lots |-> b[m][j]]
           h(j) == [m \in Lots |-> c[m][j]]
<1>2. \A j \in Invs : Summable(f(j), NumLots)
  <2> TAKE j \in Invs
  <2>1. \A k \in 1..NumLots : f(j)[k] \in Nat
    BY DEF Table, Lots
  <2> QED BY <2>1 DEF Summable
<1>3. InvSum(c, i) = InvSum(b, i) + d
  <2>1. h(i)[l] = f(i)[l] + d /\ \A k \in 1..NumLots : k # l => h(i)[k] = f(i)[k]
    BY <1>1 DEF Lots
  <2> HIDE DEF f, h
  <2>2. Total(h(i), NumLots) = Total(f(i), NumLots) + d
    BY <1>0, <1>2, <2>1, TotalOfUpdate
  <2> QED BY <2>2 DEF InvSum, f, h
<1>4. ASSUME NEW j \in Invs, j # i PROVE InvSum(c, j) = InvSum(b, j)
  <2>1. \A k \in 1..NumLots : h(j)[k] = f(j)[k]
    BY <1>1, <1>4 DEF Lots
  <2> HIDE DEF f, h
  <2>2. Total(h(j), NumLots) = Total(f(j), NumLots)
    BY <1>0, <1>2, <2>1, TotalOfEqual
  <2> QED BY <2>2 DEF InvSum, f, h
<1> QED BY <1>3, <1>4 DEF InvSumsMove

-----------------------------------------------------------------------------
(* A settlement changes the sum of each row and of each column by the sum of *)
(* its differences there, and leaves no balance negative.                    *)
Change(diff) == [l \in Lots |-> [i \in Invs |->
                   IF <<l, i>> \in DOMAIN diff THEN diff[<<l, i>>] ELSE 0]]
Settled(diff) == {p \in DOMAIN diff : diff[p] # 0}

LEMMA SettlementSums ==
  ASSUME TypeOK, NEW diff \in [frozen -> Diffs], PostSettlement(diff)
  PROVE  /\ balance' \in [Lots -> [Invs -> Nat]]
         /\ \A l \in Lots :
               /\ LotSum(Change(diff), l) \in Int
               /\ LotSum(balance', l) = LotSum(balance, l) + LotSum(Change(diff), l)
         /\ \A i \in Invs :
               /\ InvSum(Change(diff), i) \in Int
               /\ InvSum(balance', i) = InvSum(balance, i) + InvSum(Change(diff), i)
               /\ (\A p \in Settled(diff) : p[2] # i) => InvSum(Change(diff), i) = 0
<1>0. NumLots \in Nat /\ NumInvs \in Nat
  BY SizesAreNatural
<1> DEFINE C == Change(diff)
<1>1. frozen \subseteq Lots \X Invs /\ DOMAIN diff = frozen /\ Diffs \subseteq Int
  BY CountableArePairs, DiffsAreIntegers DEF TypeOK, Lots, Invs
<1>2. C \in [Lots -> [Invs -> Int]]
  <2>1. ASSUME NEW l \in Lots, NEW i \in Invs
        PROVE  (IF <<l, i>> \in DOMAIN diff THEN diff[<<l, i>>] ELSE 0) \in Int
    <3>1. CASE <<l, i>> \in frozen
      <4>1. diff[<<l, i>>] \in Diffs
        BY <3>1
      <4> QED BY <3>1, <4>1, <1>1
    <3>2. CASE <<l, i>> \notin frozen
      BY <3>2, <1>1
    <3> QED BY <3>1, <3>2
  <2> QED BY <2>1 DEF Change
<1>3. balance' = [l \in Lots |-> [i \in Invs |-> balance[l][i] + C[l][i]]]
  BY DEF PostSettlement, Change
<1>4. \A p \in Settled(diff) : balance[p[1]][p[2]] + diff[p] >= 0
  BY DEF PostSettlement, Settled
<1>5. ASSUME NEW l \in Lots, NEW i \in Invs
      PROVE  /\ C[l][i] = 0 \/ <<l, i>> \in Settled(diff)
             /\ balance[l][i] + C[l][i] \in Nat
  <2>1. balance[l][i] \in Nat /\ C[l][i] \in Int
    BY <1>2 DEF TypeOK
  <2>2. CASE <<l, i>> \in Settled(diff)
    <3>1. C[l][i] = diff[<<l, i>>]
      BY <2>2 DEF Change, Settled
    <3>2. balance[l][i] + diff[<<l, i>>] >= 0
      BY <2>2, <1>4
    <3> QED BY <2>1, <2>2, <3>1, <3>2
  <2>3. CASE <<l, i>> \notin Settled(diff)
    <3>1. C[l][i] = 0
      BY <2>3 DEF Change, Settled
    <3> QED BY <2>1, <3>1
  <2> QED BY <2>2, <2>3
<1> HIDE DEF C
<1>6. balance' \in [Lots -> [Invs -> Nat]]
  BY <1>3, <1>5
<1>7. ASSUME NEW l \in Lots
      PROVE  /\ LotSum(C, l) \in Int
             /\ LotSum(balance', l) = LotSum(balance, l) + LotSum(C, l)
  <2>1. balance[l] \in [Invs -> Nat] /\ C[l] \in [Invs -> Int]
    BY <1>2 DEF TypeOK
  <2>2. Summable(balance[l], NumInvs) /\ Summable(C[l], NumInvs)
    <3>1. \A k \in 1..NumInvs : balance[l][k] \in Nat /\ C[l][k] \in Int
      BY <2>1 DEF Invs
    <3> QED BY <3>1 DEF Summable
  <2>3. \A k \in 1..NumInvs : balance'[l][k] = balance[l][k] + C[l][k]
    BY <1>3 DEF Invs
  <2>4. Total(balance'[l], NumInvs) = Total(balance[l], NumInvs) + Total(C[l], NumInvs)
    BY <1>0, <2>2, <2>3, TotalAdds
  <2>5. Total(C[l], NumInvs) \in Int
    BY <1>0, <2>2, TotalInt
  <2> QED BY <2>4, <2>5 DEF LotSum
<1>8. ASSUME NEW i \in Invs
      PROVE  /\ InvSum(C, i) \in Int
             /\ InvSum(balance', i) = InvSum(balance, i) + InvSum(C, i)
             /\ (\A p \in Settled(diff) : p[2] # i) => InvSum(C, i) = 0
  <2> DEFINE f == [l \in Lots |-> balance[l][i]]
             g == [l \in Lots |-> C[l][i]]
             h == [l \in Lots |-> balance'[l][i]]
  <2>1. \A l \in Lots : balance[l][i] \in Int /\ C[l][i] \in Int
    BY <1>2 DEF TypeOK
  <2>2. Summable(f, NumLots) /\ Summable(g, NumLots)
    BY <2>1 DEF Summable, Lots
  <2>3. \A k \in 1..NumLots : h[k] = f[k] + g[k]
    BY <1>3 DEF Lots
  <2>4. (\A p \in Settled(diff) : p[2] # i) => \A k \in 1..NumLots : g[k] = 0
    BY <1>5 DEF Lots
  <2>5. /\ InvSum(balance, i) = Total(f, NumLots) /\ InvSum(C, i) = Total(g, NumLots)
        /\ InvSum(balance', i) = Total(h, NumLots)
    BY DEF InvSum
  <2> HIDE DEF f, g, h
  <2>6. Total(h, NumLots) = Total(f, NumLots) + Total(g, NumLots)
    BY <1>0, <2>2, <2>3, TotalAdds
  <2>7. Total(g, NumLots) \in Int
    BY <1>0, <2>2, TotalInt
  <2>8. (\A p \in Settled(diff) : p[2] # i) => Total(g, NumLots) = 0
    BY <1>0, <2>4, TotalOfZeros
  <2> QED BY <2>5, <2>6, <2>7, <2>8
<1> QED BY <1>6, <1>7, <1>8 DEF C

(* The sums of tables of naturals are naturals.                              *)
LEMMA SumsAreNatural ==
  ASSUME NEW b \in [Lots -> [Invs -> Nat]]
  PROVE  /\ \A l \in Lots : LotSum(b, l) \in Nat
         /\ \A i \in Invs : InvSum(b, i) \in Nat
<1>0. NumLots \in Nat /\ NumInvs \in Nat
  BY SizesAreNatural
<1>1. ASSUME NEW l \in Lots PROVE LotSum(b, l) \in Nat
  <2>1. \A k \in 1..NumInvs : b[l][k] \in Nat
    BY DEF Invs
  <2> QED BY <1>0, <2>1, TotalNat DEF LotSum
<1>2. ASSUME NEW i \in Invs PROVE InvSum(b, i) \in Nat
  <2> DEFINE f == [l \in Lots |-> b[l][i]]
  <2>1. \A k \in 1..NumLots : f[k] \in Nat
    BY DEF Lots
  <2> HIDE DEF f
  <2>2. Total(f, NumLots) \in Nat
    BY <1>0, <2>1, TotalNat
  <2> QED BY <2>2 DEF f, InvSum
<1> QED BY <1>1, <1>2

-----------------------------------------------------------------------------
(* Type invariance.                                                          *)
LEMMA InitTypeInv == Init => TypeInv
<1> SUFFICES ASSUME Init PROVE TypeInv
  OBVIOUS
<1>1. Idle \in Tx /\ Unissued \in Doc
  BY DEF Idle, Tx, Unread, Row, Unissued, Doc
<1>2. TypeOK
  BY <1>1 DEF Init, TypeOK
<1>3. TxShape
  BY DEF Init, TxShape, Idle, ConsumeKinds, AggregateKinds
<1>4. DocShape
  BY DEF Init, DocShape, Idle
<1> QED BY <1>2, <1>3, <1>4 DEF TypeInv

(* Opening and closing transactions keeps the table of transactions well     *)
(* formed.                                                                   *)
LEMMA CloseTx ==
  ASSUME TypeInv, NEW t \in Txs, Close(t)
  PROVE  /\ txs' \in [Txs -> Tx] /\ TxShape'
         /\ docs' = docs => DocShape'
<1>1. Idle \in Tx
  BY DEF Idle, Tx, Unread, Row
<1>2. txs' \in [Txs -> Tx]
  BY <1>1 DEF Close, TypeInv, TypeOK
<1>3. \A u \in Txs : txs'[u] = IF u = t THEN Idle ELSE txs[u]
  BY DEF Close, TypeInv, TypeOK
<1>4. TxShape'
  BY <1>3 DEF TypeInv, TxShape, Idle, ConsumeKinds, AggregateKinds
<1>5. docs' = docs => DocShape'
  BY <1>3 DEF TypeInv, DocShape, Idle
<1> QED BY <1>2, <1>4, <1>5

LEMMA OpenTx ==
  ASSUME TypeInv, NEW t \in Txs, NEW r \in Tx, txs' = [txs EXCEPT ![t] = r],
         r.kind \in Kinds,
         r.kind \in ConsumeKinds \cup {"transfer", "recipient_return"} =>
           r.lot \in Lots /\ r.inv \in Invs,
         r.kind \in AggregateKinds => r.inv \in Invs,
         r.kind = "transfer" => r.to \in Invs /\ r.to # r.inv,
         r.kind = "recipient_return" => r.doc \in Docs
  PROVE  /\ txs' \in [Txs -> Tx] /\ TxShape'
         /\ docs' = docs /\ (r.kind = "recipient_return" =>
               docs[r.doc].lot = r.lot /\ docs[r.doc].inv = r.inv) => DocShape'
<1>1. txs' \in [Txs -> Tx]
  BY DEF TypeInv, TypeOK
<1>2. \A u \in Txs : txs'[u] = IF u = t THEN r ELSE txs[u]
  BY DEF TypeInv, TypeOK
<1>3. TxShape'
  BY <1>2 DEF TypeInv, TxShape
<1>4. docs' = docs /\ (r.kind = "recipient_return" =>
        docs[r.doc].lot = r.lot /\ docs[r.doc].inv = r.inv) => DocShape'
  BY <1>2 DEF TypeInv, DocShape
<1> QED BY <1>1, <1>3, <1>4

LEMMA NextTypeInv == TypeInv /\ [Next]_vars => TypeInv'
<1> SUFFICES ASSUME TypeInv, [Next]_vars PROVE TypeInv'
  OBVIOUS
<1> USE DEF TypeInv
<1>q. \A q \in Quantities : q \in Nat
  BY QuantitiesPositive
<1>i. Idle \in Tx /\ Unread \in Row
  BY DEF Idle, Tx, Unread, Row
<1>1. ASSUME NEW l \in Lots, NEW i \in Invs, NEW q \in Quantities,
             NEW s \in SourceTypes, ReceiveLot(l, i, q, s)
      PROVE  TypeInv'
  <2>1. balance' \in [Lots -> [Invs -> Nat]] /\ quantity' \in [Invs -> Nat]
    BY <1>1, <1>q DEF ReceiveLot, TypeOK, AddTo
  <2>2. remaining' \in [Lots -> Nat] /\ source' \in [Lots -> SourceTypes \cup {"none"}]
    BY <1>1, <1>q DEF ReceiveLot, TypeOK
  <2> QED BY <1>1, <2>1, <2>2 DEF ReceiveLot, TypeOK, TxShape, DocShape
<1>2. ASSUME NEW t \in Txs, NEW k \in ConsumeKinds, NEW l \in Lots, NEW i \in Invs,
             NEW q \in Quantities, BeginConsume(t, k, l, i, q)
      PROVE  TypeInv'
  <2> DEFINE r == [Idle EXCEPT !.kind = k, !.lot = l, !.inv = i, !.qty = q]
  <2>1. r \in Tx /\ r.kind = k /\ r.lot = l /\ r.inv = i
    BY <1>i, <1>q DEF Tx, AllKinds, Idle
  <2>2. txs' = [txs EXCEPT ![t] = r] /\ k \in Kinds /\ k \notin AggregateKinds
        /\ k # "transfer" /\ k # "recipient_return"
    BY <1>2 DEF BeginConsume, Open, ConsumeKinds, AggregateKinds
  <2> HIDE DEF r
  <2>3. txs' \in [Txs -> Tx] /\ TxShape' /\ DocShape'
    BY <1>2, <2>1, <2>2, OpenTx DEF BeginConsume
  <2> QED BY <1>2, <2>3 DEF BeginConsume, TypeOK, stock
<1>3. ASSUME NEW t \in Txs, NEW l \in Lots, NEW i \in Invs, NEW j \in Invs,
             NEW q \in Quantities, BeginTransfer(t, l, i, j, q)
      PROVE  TypeInv'
  <2> DEFINE r == [Idle EXCEPT !.kind = "transfer", !.lot = l, !.inv = i, !.to = j,
                               !.qty = q]
  <2>1. r \in Tx /\ r.kind = "transfer" /\ r.lot = l /\ r.inv = i /\ r.to = j
    BY <1>i, <1>q DEF Tx, AllKinds, Idle
  <2>2. txs' = [txs EXCEPT ![t] = r] /\ "transfer" \in Kinds /\ i # j
    BY <1>3 DEF BeginTransfer, Open
  <2> HIDE DEF r
  <2>3. txs' \in [Txs -> Tx] /\ TxShape' /\ DocShape'
    BY <1>3, <2>1, <2>2, OpenTx DEF BeginTransfer, AggregateKinds
  <2> QED BY <1>3, <2>3 DEF BeginTransfer, TypeOK, stock
<1>4. ASSUME NEW t \in Txs, NEW d \in Docs, NEW q \in Quantities, BeginReturn(t, d, q)
      PROVE  TypeInv'
  <2> DEFINE sn == IF SnapshotAtBegin THEN ReadRows(docs[d].lot, docs[d].inv, d)
                                      ELSE Unread
             r == [Idle EXCEPT !.kind = "recipient_return", !.doc = d, !.qty = q,
                     !.lot = docs[d].lot, !.inv = docs[d].inv, !.seen = sn]
  <2>1. docs[d].lot \in Lots /\ docs[d].inv \in Invs
    BY <1>4 DEF BeginReturn, DocShape
  <2>2. sn \in Row
    BY <2>1, <1>i DEF Row, ReadRows, TypeOK, Doc
  <2> HIDE DEF sn
  <2>3. r \in Tx /\ r.kind = "recipient_return" /\ r.lot = docs[d].lot
        /\ r.inv = docs[d].inv /\ r.doc = d
    BY <1>i, <1>q, <2>1, <2>2 DEF Tx, AllKinds, Idle
  <2>4. txs' = [txs EXCEPT ![t] = r] /\ "recipient_return" \in Kinds
    BY <1>4 DEF BeginReturn, Open, sn
  <2> HIDE DEF r
  <2>5. txs' \in [Txs -> Tx] /\ TxShape' /\ DocShape'
    BY <1>4, <2>1, <2>3, <2>4, OpenTx DEF BeginReturn, AggregateKinds
  <2> QED BY <1>4, <2>5 DEF BeginReturn, TypeOK, stock
<1>5. ASSUME NEW t \in Txs, NEW k \in AggregateKinds, NEW i \in Invs,
             NEW q \in Quantities, ReadAggregate(t, k, i, q)
      PROVE  TypeInv'
  <2> DEFINE sn == [Unread EXCEPT !.quantity = quantity[i]]
             r == [Idle EXCEPT !.kind = k, !.inv = i, !.qty = q, !.seen = sn]
  <2>1. sn \in Row
    BY <1>i DEF Row, Unread, TypeOK
  <2> HIDE DEF sn
  <2>2. r \in Tx /\ r.kind = k /\ r.inv = i
    BY <1>i, <1>q, <2>1 DEF Tx, AllKinds, Idle
  <2>3. txs' = [txs EXCEPT ![t] = r] /\ k \in Kinds
    BY <1>5 DEF ReadAggregate, Open, sn
  <2> HIDE DEF r
  <2>4. txs' \in [Txs -> Tx] /\ TxShape' /\ DocShape'
    BY <1>5, <2>2, <2>3, OpenTx DEF ConsumeKinds, AggregateKinds, ReadAggregate
  <2> QED BY <1>5, <2>4 DEF ReadAggregate, TypeOK, stock
<1>6. ASSUME NEW t \in Txs, Consumed(t) PROVE TypeInv'
  <2> DEFINE r == txs[t]
  <2>1. r \in Tx /\ r.kind \in ConsumeKinds /\ r.lot \in Lots /\ r.inv \in Invs
        /\ r.qty \in Nat
    BY <1>6 DEF Consumed, ConsumeLot, ConsumeAggregate, TypeOK, TxShape, Tx
  <2>2. /\ balance[r.lot][r.inv] - r.qty \in Nat
        /\ remaining[r.lot] - r.qty \in Nat
        /\ quantity[r.inv] - r.qty \in Nat
    <3>1. balance[r.lot][r.inv] \in Nat /\ remaining[r.lot] \in Nat
          /\ quantity[r.inv] \in Nat
      BY <2>1 DEF TypeOK
    <3> QED BY <3>1, <2>1, <1>6 DEF Consumed, ConsumeLot, ConsumeAggregate
  <2>3. balance' \in [Lots -> [Invs -> Nat]]
    BY <1>6, <2>1, <2>2 DEF Consumed, ConsumeLot, ConsumeAggregate, TypeOK, AddTo
  <2>4. remaining' \in [Lots -> Nat] /\ quantity' \in [Invs -> Nat]
    BY <1>6, <2>1, <2>2 DEF Consumed, ConsumeLot, ConsumeAggregate, TypeOK
  <2>5. docs' \in [Docs -> Doc] /\ DocShape'
    <3>0. \A u \in Txs : txs'[u] = IF u = t THEN Idle ELSE txs[u]
      BY <1>6 DEF Consumed, ConsumeLot, ConsumeAggregate, Close, TypeOK
    <3>1. CASE r.kind = "issue"
      <4> DEFINE n == [lot |-> r.lot, inv |-> r.inv, quantity |-> r.qty, returned |-> 0]
      <4>1. PICK d \in Docs : docs[d] = Unissued /\ docs' = [docs EXCEPT ![d] = n]
        BY <1>6, <3>1 DEF Consumed, ConsumeLot, ConsumeAggregate
      <4>2. n \in Doc /\ n.lot \in Lots /\ n.inv \in Invs
        BY <2>1 DEF Doc
      <4>3. docs[d].lot = 0 /\ \A u \in Txs :
              txs[u].kind = "recipient_return" => txs[u].lot \in Lots
        BY <4>1 DEF Unissued, TxShape
      <4>4. \A u \in Txs : txs[u].kind = "recipient_return" => txs[u].doc # d
        BY <4>3 DEF DocShape, Lots
      <4> HIDE DEF n
      <4>5. docs' \in [Docs -> Doc] /\ \A e \in Docs : docs'[e] =
              IF e = d THEN n ELSE docs[e]
        BY <4>1, <4>2 DEF TypeOK
      <4>6. \A u \in Txs : txs[u].kind = "recipient_return" => txs[u].doc \in Docs
        BY DEF TxShape
      <4> QED BY <3>0, <4>2, <4>4, <4>5, <4>6 DEF DocShape, Idle
    <3>2. CASE r.kind # "issue"
      BY <1>6, <3>2, CloseTx DEF Consumed, ConsumeLot, ConsumeAggregate, TypeOK
    <3> QED BY <3>1, <3>2
  <2>6. txs' \in [Txs -> Tx] /\ TxShape'
    BY <1>6, CloseTx DEF Consumed, ConsumeLot, ConsumeAggregate
  <2> QED BY <1>6, <2>3, <2>4, <2>5, <2>6 DEF Consumed, ConsumeLot, ConsumeAggregate, TypeOK
<1>7. ASSUME NEW t \in Txs, CommitTransfer(t) PROVE TypeInv'
  <2> DEFINE r == txs[t]
  <2>1. r \in Tx /\ r.lot \in Lots /\ r.inv \in Invs /\ r.to \in Invs
        /\ r.to # r.inv /\ r.qty \in Nat
    BY <1>7 DEF CommitTransfer, MoveLotBalance, TypeOK, TxShape, Tx
  <2>2. /\ balance[r.lot][r.inv] - r.qty \in Nat
        /\ quantity[r.inv] - r.qty \in Nat
    <3>1. balance[r.lot][r.inv] \in Nat /\ quantity[r.inv] \in Nat
      BY <2>1 DEF TypeOK
    <3> QED BY <3>1, <2>1, <1>7 DEF CommitTransfer, MoveLotBalance
  <2>3. balance' \in [Lots -> [Invs -> Nat]]
    <3> DEFINE b == AddTo(balance, r.lot, r.inv, -r.qty)
    <3>1. b \in [Lots -> [Invs -> Nat]]
      BY <2>1, <2>2 DEF TypeOK, AddTo
    <3>2. balance' = AddTo(b, r.lot, r.to, r.qty)
      BY <1>7 DEF CommitTransfer, MoveLotBalance
    <3> HIDE DEF b
    <3> QED BY <3>1, <3>2, <2>1 DEF AddTo
  <2>4. quantity' \in [Invs -> Nat]
    BY <1>7, <2>1, <2>2 DEF CommitTransfer, MoveLotBalance, TypeOK
  <2>6. txs' \in [Txs -> Tx] /\ TxShape' /\ DocShape'
    BY <1>7, CloseTx DEF CommitTransfer, MoveLotBalance
  <2> QED BY <1>7, <2>3, <2>4, <2>6 DEF CommitTransfer, MoveLotBalance, TypeOK
<1>8. ASSUME NEW t \in Txs, LockReturn(t) PROVE TypeInv'
  <2> DEFINE r == txs[t]
             rows == IF SnapshotAtBegin THEN r.seen ELSE ReadRows(r.lot, r.inv, r.doc)
  <2>1. r \in Tx /\ r.kind = "recipient_return" /\ r.kind \in Kinds
        /\ r.lot \in Lots /\ r.inv \in Invs /\ r.doc \in Docs
    BY <1>8 DEF LockReturn, TypeOK, TxShape
  <2>2. rows \in Row
    BY <2>1 DEF Row, ReadRows, TypeOK, Doc, Tx
  <2> HIDE DEF rows
  <2>3. txs' = [txs EXCEPT ![t].locked = TRUE, ![t].seen = rows]
    BY <1>8 DEF LockReturn, rows
  <2>4. txs' = [txs EXCEPT ![t] = [r EXCEPT !.locked = TRUE, !.seen = rows]]
    BY <2>3 DEF TypeOK
  <2> DEFINE n == [r EXCEPT !.locked = TRUE, !.seen = rows]
  <2>5. n \in Tx /\ n.kind = r.kind /\ n.lot = r.lot /\ n.inv = r.inv /\ n.doc = r.doc
    BY <2>1, <2>2 DEF Tx
  <2> HIDE DEF n
  <2>6. txs' = [txs EXCEPT ![t] = n]
    BY <2>4 DEF n
  <2>7. docs[n.doc].lot = n.lot /\ docs[n.doc].inv = n.inv
    BY <2>1, <2>5 DEF DocShape
  <2>8. txs' \in [Txs -> Tx] /\ TxShape' /\ DocShape'
    BY <1>8, <2>1, <2>5, <2>6, <2>7, OpenTx DEF LockReturn
  <2> QED BY <1>8, <2>8 DEF LockReturn, TypeOK, stock
<1>9. ASSUME NEW t \in Txs, CommitReturn(t) PROVE TypeInv'
  <2> DEFINE r == txs[t]
  <2>1. r \in Tx /\ r.lot \in Lots /\ r.inv \in Invs /\ r.doc \in Docs
        /\ r.qty \in Nat /\ r.seen \in Row
    BY <1>9 DEF CommitReturn, TypeOK, TxShape, Tx
  <2>2. /\ r.seen.balance + r.qty \in Nat /\ r.seen.remaining + r.qty \in Nat
        /\ r.seen.quantity + r.qty \in Nat
    BY <2>1 DEF Row
  <2>3. balance' \in [Lots -> [Invs -> Nat]]
    BY <1>9, <2>1, <2>2 DEF CommitReturn, TypeOK
  <2>4. remaining' \in [Lots -> Nat] /\ quantity' \in [Invs -> Nat]
    BY <1>9, <2>1, <2>2 DEF CommitReturn, TypeOK
  <2>5. docs' \in [Docs -> Doc] /\ DocShape'
    <3>1. docs' = [docs EXCEPT ![r.doc].returned = @ + r.qty]
      BY <1>9 DEF CommitReturn
    <3>2. docs[r.doc] \in Doc /\ docs[r.doc].returned + r.qty \in Nat
      BY <2>1 DEF TypeOK, Doc
    <3> DEFINE n == [docs[r.doc] EXCEPT !.returned = @ + r.qty]
    <3>3. docs' = [docs EXCEPT ![r.doc] = n]
      BY <3>1 DEF TypeOK
    <3>4. n \in Doc /\ n.lot = docs[r.doc].lot /\ n.inv = docs[r.doc].inv
      BY <3>2 DEF Doc
    <3>5. n.lot \in Lots /\ n.inv \in Invs
      BY <1>9, <2>1, <3>4 DEF DocShape, CommitReturn
    <3> HIDE DEF n
    <3>6. docs' \in [Docs -> Doc] /\ \A d \in Docs : docs'[d] =
            IF d = r.doc THEN n ELSE docs[d]
      BY <3>3, <3>4, <2>1 DEF TypeOK
    <3>7. \A u \in Txs : txs'[u] = IF u = t THEN Idle ELSE txs[u]
      BY <1>9 DEF CommitReturn, Close, TypeOK
    <3>8. \A u \in Txs : txs[u].kind = "recipient_return" => txs[u].doc \in Docs
      BY DEF TxShape
    <3> QED BY <3>4, <3>5, <3>6, <3>7, <3>8 DEF DocShape, Idle
  <2>6. txs' \in [Txs -> Tx] /\ TxShape'
    BY <1>9, CloseTx DEF CommitReturn
  <2> QED BY <1>9, <2>3, <2>4, <2>5, <2>6 DEF CommitReturn, TypeOK
<1>10. ASSUME NEW t \in Txs, EndAddTransaction(t) PROVE TypeInv'
  <2> DEFINE r == txs[t]
  <2>1. r \in Tx /\ r.inv \in Invs /\ r.qty \in Nat /\ r.seen.quantity \in Nat
        /\ r.kind \in {"in", "out"}
    BY <1>10 DEF EndAddTransaction, TypeOK, TxShape, Tx, Row, AggregateKinds
  <2> DEFINE v == CASE r.kind = "in" -> r.seen.quantity + r.qty
                    [] r.seen.quantity >= r.qty -> r.seen.quantity - r.qty
                    [] OTHER -> 0
  <2>2. v \in Nat
    BY <2>1
  <2>3. quantity' = [quantity EXCEPT ![r.inv] = v]
    BY <1>10 DEF EndAddTransaction
  <2> HIDE DEF v
  <2>4. quantity' \in [Invs -> Nat]
    BY <2>1, <2>2, <2>3 DEF TypeOK
  <2>6. txs' \in [Txs -> Tx] /\ TxShape' /\ DocShape'
    BY <1>10, CloseTx DEF EndAddTransaction
  <2> QED BY <1>10, <2>4, <2>6 DEF EndAddTransaction, TypeOK
<1>11. ASSUME NEW t \in Txs, Rollback(t) PROVE TypeInv'
  <2>1. txs' \in [Txs -> Tx] /\ TxShape' /\ DocShape'
    BY <1>11, CloseTx DEF Rollback
  <2> QED BY <1>11, <2>1 DEF Rollback, TypeOK, stock
<1>12. ASSUME NEW diff \in [frozen -> Diffs], PostSettlement(diff) PROVE TypeInv'
  <2>1. balance' \in [Lots -> [Invs -> Nat]]
    BY <1>12, SettlementSums
  <2>2. quantity' \in [Invs -> Nat]
    <3> DEFINE col == [i \in Invs |-> InvSum(Change(diff), i)]
    <3>1. ASSUME NEW i \in Invs
          PROVE  /\ col[i] \in Int
                 /\ (\A p \in Settled(diff) : p[2] # i) => col[i] = 0
                 /\ InvSum(balance, i) + col[i] \in Nat
      <4>1. InvSum(balance', i) = InvSum(balance, i) + col[i]
        BY <1>12, SettlementSums
      <4>2. InvSum(balance', i) \in Nat
        BY <2>1, SumsAreNatural
      <4>3. col[i] \in Int /\ ((\A p \in Settled(diff) : p[2] # i) => col[i] = 0)
        BY <1>12, SettlementSums
      <4> QED BY <4>1, <4>2, <4>3
    <3>2. quantity' = [i \in Invs |-> quantity[i] + col[i]]
      BY <1>12 DEF PostSettlement, Change
    <3>3. \A p \in Settled(diff) : quantity[p[2]] = InvSum(balance, p[2])
      BY <1>12 DEF PostSettlement, Settled, InventoryAgrees
    <3> HIDE DEF col
    <3>4. ASSUME NEW i \in Invs PROVE quantity[i] + col[i] \in Nat
      <4>1. quantity[i] \in Nat
        BY DEF TypeOK
      <4>2. CASE \A p \in Settled(diff) : p[2] # i
        BY <4>1, <4>2, <3>1
      <4>3. CASE \E p \in Settled(diff) : p[2] = i
        BY <4>3, <3>1, <3>3
      <4> QED BY <4>2, <4>3
    <3> QED BY <3>2, <3>4
  <2>3. remaining' \in [Lots -> Nat]
    <3>1. \A l \in Lots : remaining'[l] \in Nat
      BY <1>12, SizesAreNatural DEF PostSettlement
    <3>2. DOMAIN remaining' = Lots
          /\ remaining' = [l \in Lots |-> remaining'[l]]
      BY <1>12 DEF PostSettlement
    <3> QED BY <3>1, <3>2
  <2>4. frozen' \subseteq Countable
    BY <1>12 DEF PostSettlement, TypeOK
  <2> QED BY <1>12, <2>1, <2>2, <2>3, <2>4 DEF PostSettlement, TypeOK, TxShape, DocShape
<1>13. CASE CountStep
  BY <1>13 DEF CountStep, TypeOK, TxShape, DocShape, stock
<1>16. ASSUME NEW t \in Txs, NEW l \in Lots, EndDraftReceipt(t, l) PROVE TypeInv'
  <2> DEFINE r == txs[t]
  <2>1. r \in Tx /\ r.inv \in Invs /\ r.qty \in Nat /\ r.seen.quantity \in Nat
    BY <1>16 DEF EndDraftReceipt, TypeOK, TxShape, Tx, Row, AggregateKinds
  <2>2. balance' = AddTo(balance, l, r.inv, r.qty)
    BY <1>16 DEF EndDraftReceipt
  <2>3. /\ remaining' = [remaining EXCEPT ![l] = r.qty]
        /\ quantity' = [quantity EXCEPT ![r.inv] = r.seen.quantity + r.qty]
    BY <1>16 DEF EndDraftReceipt
  <2>4. source' = [source EXCEPT ![l] = "receipt"] /\ UNCHANGED <<docs, frozen>>
    BY <1>16 DEF EndDraftReceipt
  <2> HIDE DEF r
  <2>5. balance' \in [Lots -> [Invs -> Nat]]
    BY <2>1, <2>2 DEF TypeOK, AddTo
  <2>6. remaining' \in [Lots -> Nat] /\ quantity' \in [Invs -> Nat]
    BY <2>1, <2>3 DEF TypeOK
  <2>7. source' \in [Lots -> SourceTypes \cup {"none"}]
    BY <2>4 DEF TypeOK, SourceTypes
  <2>8. txs' \in [Txs -> Tx] /\ TxShape' /\ DocShape'
    BY <1>16, CloseTx DEF EndDraftReceipt
  <2> QED BY <2>4, <2>5, <2>6, <2>7, <2>8 DEF TypeOK
<1>14. CASE UNCHANGED vars
  BY <1>14 DEF vars, TypeOK, TxShape, DocShape
<1>15. CASE Next
  BY <1>1, <1>2, <1>3, <1>4, <1>5, <1>6, <1>7, <1>8, <1>9, <1>10, <1>11, <1>12,
     <1>13, <1>15, <1>16, NextCases
<1> QED BY <1>14, <1>15

(* In every execution, with any kinds of movement racing, every table holds  *)
(* what its columns can hold: no quantity of inventory, lot balance or lot   *)
(* remainder is ever negative (integrity rule 3).                            *)
THEOREM NoNegativeStock == Spec => []TypeOK
<1>1. Init => TypeInv
  BY InitTypeInv
<1>2. TypeInv /\ [Next]_vars => TypeInv'
  BY NextTypeInv
<1>3. TypeInv => TypeOK
  BY DEF TypeInv
<1> QED BY <1>1, <1>2, <1>3, PTL DEF Spec

-----------------------------------------------------------------------------
(* Rules 1 and 2.  They are not inductive: a receipt overwrites the rows of  *)
(* the lot it creates, so those must be empty before, and no open movement   *)
(* or count may point to a lot that does not exist.                          *)
FreshLotsEmpty ==
  \A l \in Lots : source[l] = "none" => \A i \in Invs : balance[l][i] = 0

MovedLotsExist ==
  \A t \in Txs : txs[t].kind \in ConsumeKinds \cup {"transfer", "recipient_return"} =>
                   source[txs[t].lot] # "none"

FrozenLotsExist == \A p \in frozen : source[p[1]] # "none"

IssuedLotsExist == \A d \in Docs : docs[d] # Unissued => source[docs[d].lot] # "none"

LotInv == FreshLotsEmpty /\ MovedLotsExist /\ FrozenLotsExist /\ IssuedLotsExist

Rules == QuantityMatchesLots /\ RemainingMatchesBalances

(* Only movements that carry a lot and write relative quantities.            *)
OnlyRelativeMovements == Kinds \cap (AggregateKinds \cup {"recipient_return"}) = {}

LEMMA InitRules == Init => LotInv /\ Rules
<1> SUFFICES ASSUME Init PROVE LotInv /\ Rules
  OBVIOUS
<1>0. NumLots \in Nat /\ NumInvs \in Nat
  BY SizesAreNatural
<1>1. LotInv
  BY DEF Init, LotInv, FreshLotsEmpty, MovedLotsExist, FrozenLotsExist, IssuedLotsExist,
         Idle, ConsumeKinds
<1>2. ASSUME NEW l \in Lots PROVE LotAgrees(l)
  <2>1. \A k \in 1..NumInvs : balance[l][k] = 0
    BY DEF Init, Invs
  <2>2. Total(balance[l], NumInvs) = 0
    BY <1>0, <2>1, TotalOfZeros
  <2> QED BY <2>2 DEF Init, LotAgrees, LotSum
<1>3. ASSUME NEW i \in Invs PROVE InventoryAgrees(i)
  <2> DEFINE f == [l \in Lots |-> balance[l][i]]
  <2>1. \A k \in 1..NumLots : f[k] = 0
    BY DEF Init, Lots
  <2> HIDE DEF f
  <2>2. Total(f, NumLots) = 0
    BY <1>0, <2>1, TotalOfZeros
  <2> QED BY <2>2 DEF Init, InventoryAgrees, InvSum, f
<1> QED BY <1>1, <1>2, <1>3 DEF Rules, QuantityMatchesLots, RemainingMatchesBalances

LEMMA NextLotInv == TypeInv /\ LotInv /\ [Next]_vars => LotInv'
<1> SUFFICES ASSUME TypeInv, LotInv, [Next]_vars PROVE LotInv'
  OBVIOUS
<1> USE DEF TypeInv, LotInv
<1>k. Idle.kind = "none"
  BY DEF Idle
<1>1. ASSUME NEW l \in Lots, NEW i \in Invs, NEW q \in Quantities,
             NEW s \in SourceTypes, ReceiveLot(l, i, q, s)
      PROVE  LotInv'
  <2>1. \A m \in Lots : source'[m] = IF m = l THEN s ELSE source[m]
    BY <1>1 DEF ReceiveLot, TypeOK
  <2>2. s # "none"
    BY DEF SourceTypes
  <2>3. \A m \in Lots, j \in Invs : m # l => balance'[m][j] = balance[m][j]
    BY <1>1 DEF ReceiveLot, AddTo, TypeOK
  <2>4. \A p \in frozen : p[1] \in Lots
    BY CountableArePairs DEF TypeOK, Lots
  <2>5. \A t \in Txs : txs[t].kind \in ConsumeKinds \cup {"transfer", "recipient_return"} =>
                         txs[t].lot \in Lots
    BY DEF TxShape
  <2>6. frozen' = frozen /\ txs' = txs /\ docs' = docs
    BY <1>1 DEF ReceiveLot
  <2>7. FreshLotsEmpty'
    BY <2>1, <2>2, <2>3 DEF FreshLotsEmpty
  <2>8. MovedLotsExist'
    BY <2>1, <2>2, <2>5, <2>6 DEF MovedLotsExist
  <2>9. FrozenLotsExist'
    BY <2>1, <2>2, <2>4, <2>6 DEF FrozenLotsExist
  <2>10. IssuedLotsExist'
    BY <2>1, <2>2, <2>6 DEF IssuedLotsExist, DocShape
  <2> QED BY <2>7, <2>8, <2>9, <2>10
<1>o. ASSUME NEW t \in Txs, NEW r, txs' = [txs EXCEPT ![t] = r],
             UNCHANGED <<balance, source, docs, frozen>>,
             source[r.lot] # "none" \/ r.kind \in AggregateKinds
      PROVE  LotInv'
  <2>1. \A u \in Txs : txs'[u] = IF u = t THEN r ELSE txs[u]
    BY <1>o DEF TypeOK
  <2> QED BY <1>o, <2>1 DEF FreshLotsEmpty, MovedLotsExist, FrozenLotsExist,
             IssuedLotsExist, ConsumeKinds, AggregateKinds
<1>2. ASSUME NEW t \in Txs, NEW k \in ConsumeKinds, NEW l \in Lots, NEW i \in Invs,
             NEW q \in Quantities, BeginConsume(t, k, l, i, q)
      PROVE  LotInv'
  <2> DEFINE r == [Idle EXCEPT !.kind = k, !.lot = l, !.inv = i, !.qty = q]
  <2>1. source[l] # "none" /\ r.lot = l
    BY <1>2 DEF BeginConsume, Resolvable, SourceTypes, Idle
  <2>2. txs' = [txs EXCEPT ![t] = r] /\ UNCHANGED <<balance, source, docs, frozen>>
    BY <1>2 DEF BeginConsume, Open, stock
  <2> HIDE DEF r
  <2> QED BY <2>1, <2>2, <1>o
<1>3. ASSUME NEW t \in Txs, NEW l \in Lots, NEW i \in Invs, NEW j \in Invs,
             NEW q \in Quantities, BeginTransfer(t, l, i, j, q)
      PROVE  LotInv'
  <2> DEFINE r == [Idle EXCEPT !.kind = "transfer", !.lot = l, !.inv = i, !.to = j,
                               !.qty = q]
  <2>1. source[l] # "none" /\ r.lot = l
    BY <1>3 DEF BeginTransfer, Resolvable, SourceTypes, Idle
  <2>2. txs' = [txs EXCEPT ![t] = r] /\ UNCHANGED <<balance, source, docs, frozen>>
    BY <1>3 DEF BeginTransfer, Open, stock
  <2> HIDE DEF r
  <2> QED BY <2>1, <2>2, <1>o
<1>5. ASSUME NEW t \in Txs, NEW d \in Docs, NEW q \in Quantities, BeginReturn(t, d, q)
      PROVE  LotInv'
  <2> DEFINE r == [Idle EXCEPT !.kind = "recipient_return", !.doc = d, !.qty = q,
                     !.lot = docs[d].lot, !.inv = docs[d].inv,
                     !.seen = IF SnapshotAtBegin
                              THEN ReadRows(docs[d].lot, docs[d].inv, d) ELSE Unread]
  <2>1. source[docs[d].lot] # "none" /\ r.lot = docs[d].lot
    BY <1>5 DEF BeginReturn, IssuedLotsExist, Idle
  <2>2. txs' = [txs EXCEPT ![t] = r] /\ UNCHANGED <<balance, source, docs, frozen>>
    BY <1>5 DEF BeginReturn, Open, stock
  <2> HIDE DEF r
  <2> QED BY <2>1, <2>2, <1>o
<1>10. ASSUME NEW t \in Txs, NEW k \in AggregateKinds, NEW i \in Invs,
              NEW q \in Quantities, ReadAggregate(t, k, i, q)
       PROVE  LotInv'
  <2> DEFINE r == [Idle EXCEPT !.kind = k, !.inv = i, !.qty = q,
                     !.seen = [Unread EXCEPT !.quantity = quantity[i]]]
  <2>1. r.kind \in AggregateKinds
    BY DEF Idle
  <2>2. txs' = [txs EXCEPT ![t] = r] /\ UNCHANGED <<balance, source, docs, frozen>>
    BY <1>10 DEF ReadAggregate, Open, stock
  <2> HIDE DEF r
  <2> QED BY <2>1, <2>2, <1>o
<1>4. ASSUME NEW t \in Txs, Close(t), UNCHANGED <<source, frozen>>, IssuedLotsExist',
             \A l \in Lots, i \in Invs :
                source[l] = "none" => balance'[l][i] = balance[l][i]
      PROVE  LotInv'
  <2>1. \A u \in Txs : txs'[u] = txs[u] \/ txs'[u].kind = "none"
    BY <1>4, <1>k DEF Close, TypeOK
  <2> QED BY <1>4, <2>1 DEF FreshLotsEmpty, MovedLotsExist, FrozenLotsExist, ConsumeKinds
<1>s. ASSUME UNCHANGED <<docs, source>> PROVE IssuedLotsExist'
  BY <1>s DEF IssuedLotsExist
<1>6. ASSUME NEW t \in Txs, Consumed(t) PROVE LotInv'
  <2>1. source[txs[t].lot] # "none" /\ source' = source
    BY <1>6 DEF Consumed, MovedLotsExist
  <2>2. \A l \in Lots, i \in Invs :
          source[l] = "none" => balance'[l][i] = balance[l][i]
    BY <1>6, <2>1 DEF Consumed, ConsumeLot, AddTo, TypeOK
  <2>3. \A d \in Docs : docs'[d] = docs[d] \/ docs'[d].lot = txs[t].lot
    BY <1>6 DEF Consumed, TypeOK
  <2>4. IssuedLotsExist'
    BY <2>1, <2>3 DEF IssuedLotsExist
  <2> QED BY <1>4, <1>6, <2>2, <2>4 DEF Consumed
<1>7. ASSUME NEW t \in Txs, CommitTransfer(t) PROVE LotInv'
  <2>1. source[txs[t].lot] # "none"
    BY <1>7 DEF CommitTransfer, MoveLotBalance, MovedLotsExist
  <2>2. \A l \in Lots, i \in Invs :
          source[l] = "none" => balance'[l][i] = balance[l][i]
    BY <1>7, <2>1 DEF CommitTransfer, MoveLotBalance, AddTo, TypeOK
  <2> QED BY <1>4, <1>7, <1>s, <2>2 DEF CommitTransfer, MoveLotBalance
<1>8. ASSUME NEW t \in Txs, LockReturn(t) PROVE LotInv'
  <2>1. \A u \in Txs : txs'[u].kind = txs[u].kind /\ txs'[u].lot = txs[u].lot
    BY <1>8 DEF LockReturn, TypeOK, Tx
  <2>2. UNCHANGED <<balance, source, docs, frozen>>
    BY <1>8 DEF LockReturn, stock
  <2> QED BY <2>1, <2>2 DEF FreshLotsEmpty, MovedLotsExist, FrozenLotsExist, IssuedLotsExist
<1>9. ASSUME NEW t \in Txs, CommitReturn(t) PROVE LotInv'
  <2>1. /\ source[txs[t].lot] # "none" /\ source' = source
        /\ txs[t].doc \in Docs /\ docs[txs[t].doc].lot = txs[t].lot
    BY <1>9 DEF CommitReturn, MovedLotsExist, TxShape, DocShape
  <2>2. \A l \in Lots, i \in Invs :
          source[l] = "none" => balance'[l][i] = balance[l][i]
    BY <1>9, <2>1 DEF CommitReturn, TypeOK
  <2>3. \A d \in Docs : docs'[d] = docs[d] \/ docs'[d].lot = txs[t].lot
    BY <1>9, <2>1 DEF CommitReturn, TypeOK, Doc
  <2>4. IssuedLotsExist'
    BY <2>1, <2>3 DEF IssuedLotsExist
  <2> QED BY <1>4, <1>9, <2>2, <2>4 DEF CommitReturn
<1>11. ASSUME NEW t \in Txs, Rollback(t) \/ EndAddTransaction(t) PROVE LotInv'
  BY <1>4, <1>11, <1>s DEF Rollback, EndAddTransaction, stock
<1>12. ASSUME NEW diff \in [frozen -> Diffs], PostSettlement(diff) PROVE LotInv'
  <2>1. \A l \in Lots, i \in Invs :
          source[l] = "none" => <<l, i>> \notin frozen
    BY DEF FrozenLotsExist
  <2>2. \A l \in Lots, i \in Invs :
          source[l] = "none" => balance'[l][i] = balance[l][i] + 0
    BY <1>12, <2>1 DEF PostSettlement
  <2>3. \A l \in Lots, i \in Invs : balance[l][i] \in Nat
    BY DEF TypeOK
  <2>4. UNCHANGED <<source, txs, docs>> /\ frozen' \subseteq frozen
    BY <1>12 DEF PostSettlement
  <2> QED BY <1>s, <2>2, <2>3, <2>4 DEF FreshLotsEmpty, MovedLotsExist, FrozenLotsExist
<1>13. CASE CountStep
  <2>1. UNCHANGED <<balance, source, txs, docs>>
        /\ \A p \in frozen' \ frozen : source[p[1]] # "none"
    BY <1>13 DEF CountStep, stock
  <2> QED BY <1>s, <2>1 DEF FreshLotsEmpty, MovedLotsExist, FrozenLotsExist
<1>16. ASSUME NEW t \in Txs, NEW l \in Lots, EndDraftReceipt(t, l) PROVE LotInv'
  <2>1. \A m \in Lots : source'[m] = IF m = l THEN "receipt" ELSE source[m]
    BY <1>16 DEF EndDraftReceipt, TypeOK
  <2>2. balance' = AddTo(balance, l, txs[t].inv, txs[t].qty)
    BY <1>16 DEF EndDraftReceipt
  <2>3. \A m \in Lots, j \in Invs : m # l => balance'[m][j] = balance[m][j]
    BY <2>2 DEF AddTo, TypeOK
  <2>4. \A u \in Txs : txs'[u] = txs[u] \/ txs'[u].kind = "none"
    BY <1>16, <1>k DEF EndDraftReceipt, Close, TypeOK
  <2>5. frozen' = frozen /\ docs' = docs
    BY <1>16 DEF EndDraftReceipt
  <2>6. \A p \in frozen : p[1] \in Lots
    BY CountableArePairs DEF TypeOK, Lots
  <2>7. FreshLotsEmpty'
    BY <2>1, <2>3 DEF FreshLotsEmpty
  <2>8. MovedLotsExist'
    BY <2>1, <2>4 DEF MovedLotsExist, TxShape, ConsumeKinds
  <2>9. FrozenLotsExist'
    BY <2>1, <2>5, <2>6 DEF FrozenLotsExist
  <2>10. IssuedLotsExist'
    BY <2>1, <2>5 DEF IssuedLotsExist, DocShape
  <2> QED BY <2>7, <2>8, <2>9, <2>10
<1>14. CASE UNCHANGED vars
  BY <1>14, <1>s DEF vars, FreshLotsEmpty, MovedLotsExist, FrozenLotsExist
<1>15. CASE Next
  BY <1>1, <1>2, <1>3, <1>5, <1>6, <1>7, <1>8, <1>9, <1>10, <1>11, <1>12, <1>13, <1>15,
     <1>16, NextCases
<1> QED BY <1>14, <1>15

(* A lot that was created stays.                                             *)
LEMMA LotsStay ==
  ASSUME TypeInv, [Next]_vars, NEW l \in Lots, source[l] # "none"
  PROVE  source'[l] # "none"
<1>1. ASSUME NEW m \in Lots, NEW i \in Invs, NEW q \in Quantities,
             NEW s \in SourceTypes, ReceiveLot(m, i, q, s)
      PROVE  source'[l] # "none"
  BY <1>1 DEF ReceiveLot, TypeInv, TypeOK, SourceTypes
<1>2. CASE UNCHANGED source
  BY <1>2
<1>3. ASSUME NEW t \in Txs, NEW m \in Lots, EndDraftReceipt(t, m)
      PROVE  source'[l] # "none"
  BY <1>3 DEF EndDraftReceipt, TypeInv, TypeOK
<1> QED
  BY <1>1, <1>2, <1>3, NextCases
  DEF BeginConsume, BeginTransfer, BeginReturn, ReadAggregate, Consumed,
      CommitTransfer, LockReturn, CommitReturn, EndAddTransaction, Rollback,
      PostSettlement, CountStep, vars, stock

(* The two rules after one cell of the balances has moved by d, when the     *)
(* other two tables have moved with it.                                      *)
LEMMA RulesFollow ==
  ASSUME TypeOK, TypeOK', Rules, NEW l \in Lots, NEW i \in Invs, NEW d \in Int,
         balance' = AddTo(balance, l, i, d),
         \A m \in Lots : remaining'[m] = remaining[m] + IF m = l THEN d ELSE 0,
         \A j \in Invs : quantity'[j] = quantity[j] + IF j = i THEN d ELSE 0
  PROVE  Rules'
<1>1. balance \in [Lots -> [Invs -> Nat]] /\ balance' \in [Lots -> [Invs -> Nat]]
  BY DEF TypeOK
<1>2. /\ balance \in Table /\ balance' \in Table
      /\ CellMoves(balance, balance', l, i, d)
  BY <1>1 DEF Table, CellMoves
<1>7. LotSumsMove(balance, balance', l, d)
  BY <1>2, LotCellUpdate
<1>8. InvSumsMove(balance, balance', i, d)
  BY <1>2, InvCellUpdate
<1>5. \A m \in Lots : remaining[m] \in Nat
  BY DEF TypeOK
<1>6. \A j \in Invs : quantity[j] \in Nat
  BY DEF TypeOK
<1>3. /\ \A m \in Lots : remaining[m] = LotSum(balance, m)
      /\ \A j \in Invs : quantity[j] = InvSum(balance, j)
  BY DEF Rules, QuantityMatchesLots, RemainingMatchesBalances, InventoryAgrees, LotAgrees
<1>4. /\ \A m \in Lots : remaining'[m] = LotSum(balance', m)
      /\ \A j \in Invs : quantity'[j] = InvSum(balance', j)
  BY <1>7, <1>8, <1>3, <1>5, <1>6 DEF LotSumsMove, InvSumsMove
<1> QED BY <1>4 DEF Rules, QuantityMatchesLots, RemainingMatchesBalances,
         InventoryAgrees, LotAgrees, LotSum, InvSum

LEMMA NextRules ==
  TypeInv /\ TypeInv' /\ LotInv /\ Rules /\ [Next]_vars /\ OnlyRelativeMovements
    => Rules'
<1> SUFFICES ASSUME TypeInv, TypeInv', LotInv, Rules, [Next]_vars,
                    OnlyRelativeMovements
             PROVE  Rules'
  OBVIOUS
<1> USE DEF TypeInv, LotInv
<1>0. NumLots \in Nat /\ NumInvs \in Nat
  BY SizesAreNatural
<1>q. \A q \in Quantities : q \in Nat
  BY QuantitiesPositive
<1>r. \A t \in Txs : txs[t].kind \notin AggregateKinds \cup {"recipient_return"}
  BY DEF TxShape, OnlyRelativeMovements, AggregateKinds
<1>s. ASSUME UNCHANGED stock PROVE Rules'
  BY <1>s DEF stock, Rules, QuantityMatchesLots, RemainingMatchesBalances,
       InventoryAgrees, LotAgrees, InvSum, LotSum
<1>1. ASSUME NEW l \in Lots, NEW i \in Invs, NEW q \in Quantities,
             NEW s \in SourceTypes, ReceiveLot(l, i, q, s)
      PROVE  Rules'
  <2>1. remaining[l] = 0
    <3>1. \A k \in 1..NumInvs : balance[l][k] = 0
      BY <1>1 DEF ReceiveLot, FreshLotsEmpty, Invs
    <3>2. Total(balance[l], NumInvs) = 0
      BY <1>0, <3>1, TotalOfZeros
    <3> QED BY <3>2 DEF Rules, RemainingMatchesBalances, LotAgrees, LotSum
  <2>2. \A m \in Lots : remaining'[m] = remaining[m] + IF m = l THEN q ELSE 0
    BY <1>1, <1>q, <2>1 DEF ReceiveLot, TypeOK
  <2>3. \A j \in Invs : quantity'[j] = quantity[j] + IF j = i THEN q ELSE 0
    BY <1>1, <1>q DEF ReceiveLot, TypeOK
  <2>4. balance' = AddTo(balance, l, i, q) /\ q \in Int
    BY <1>1, <1>q DEF ReceiveLot
  <2> QED BY <2>2, <2>3, <2>4, RulesFollow
<1>6. ASSUME NEW t \in Txs, Consumed(t) PROVE Rules'
  <2> DEFINE r == txs[t]
  <2>1. r.lot \in Lots /\ r.inv \in Invs /\ r.qty \in Nat
    BY <1>6 DEF Consumed, ConsumeLot, ConsumeAggregate, TxShape, TypeOK, Tx
  <2>2. \A m \in Lots : remaining'[m] = remaining[m] + IF m = r.lot THEN -r.qty ELSE 0
    BY <1>6, <2>1 DEF Consumed, ConsumeLot, ConsumeAggregate, TypeOK
  <2>3. \A j \in Invs : quantity'[j] = quantity[j] + IF j = r.inv THEN -r.qty ELSE 0
    BY <1>6, <2>1 DEF Consumed, ConsumeLot, ConsumeAggregate, TypeOK
  <2>4. balance' = AddTo(balance, r.lot, r.inv, -r.qty) /\ -r.qty \in Int
    BY <1>6, <2>1 DEF Consumed, ConsumeLot, ConsumeAggregate
  <2> HIDE DEF r
  <2> QED BY <2>1, <2>2, <2>3, <2>4, RulesFollow
<1>7. ASSUME NEW t \in Txs, CommitTransfer(t) PROVE Rules'
  <2> DEFINE l == txs[t].lot
             i == txs[t].inv
             j == txs[t].to
             q == txs[t].qty
             b == AddTo(balance, l, i, -q)
  <2>1. l \in Lots /\ i \in Invs /\ j \in Invs /\ i # j /\ q \in Nat
    BY <1>7 DEF CommitTransfer, MoveLotBalance, TxShape, TypeOK, Tx
  <2>2. balance[l][i] - q \in Nat
    BY <1>7, <2>1 DEF CommitTransfer, MoveLotBalance, TypeOK
  <2>3. b \in [Lots -> [Invs -> Nat]] /\ balance \in [Lots -> [Invs -> Nat]]
        /\ balance' \in [Lots -> [Invs -> Nat]]
    BY <2>1, <2>2 DEF AddTo, TypeOK
  <2>4. balance' = AddTo(b, l, j, q) /\ remaining' = remaining
        /\ quantity' = [quantity EXCEPT ![i] = @ - q, ![j] = @ + q]
    BY <1>7 DEF CommitTransfer, MoveLotBalance
  <2> HIDE DEF l, i, j, q
  <2>5. -q \in Int /\ q \in Int
    BY <2>1
  <2>6. b = AddTo(balance, l, i, -q)
    OBVIOUS
  <2> HIDE DEF b
  <2>t. /\ b \in Table /\ balance \in Table /\ balance' \in Table
        /\ CellMoves(balance, b, l, i, -q) /\ CellMoves(b, balance', l, j, q)
    BY <2>3, <2>4, <2>6 DEF Table, CellMoves
  <2>7. LotSumsMove(balance, b, l, -q) /\ LotSumsMove(b, balance', l, q)
    BY <2>1, <2>5, <2>t, LotCellUpdate
  <2>8. InvSumsMove(balance, b, i, -q) /\ InvSumsMove(b, balance', j, q)
    BY <2>1, <2>5, <2>t, InvCellUpdate
  <2>9. /\ \A m \in Lots : LotSum(balance, m) \in Nat
        /\ \A k \in Invs : InvSum(balance, k) \in Nat
    BY <2>3, SumsAreNatural
  <2>10. /\ \A m \in Lots : remaining[m] = LotSum(balance, m)
         /\ \A k \in Invs : quantity[k] = InvSum(balance, k)
    BY DEF Rules, QuantityMatchesLots, RemainingMatchesBalances, InventoryAgrees,
           LotAgrees
  <2>11. \A m \in Lots : remaining'[m] = LotSum(balance', m)
    BY <2>1, <2>4, <2>7, <2>8, <2>9, <2>10 DEF LotSumsMove, InvSumsMove
  <2>12. \A k \in Invs : quantity'[k] =
           quantity[k] + (IF k = i THEN -q ELSE 0) + (IF k = j THEN q ELSE 0)
    BY <2>1, <2>4 DEF TypeOK
  <2>13. \A k \in Invs : quantity'[k] = InvSum(balance', k)
    BY <2>1, <2>7, <2>8, <2>9, <2>10, <2>12 DEF LotSumsMove, InvSumsMove
  <2> QED BY <2>11, <2>13 DEF Rules, QuantityMatchesLots, RemainingMatchesBalances,
           InventoryAgrees, LotAgrees, InvSum, LotSum
<1>12. ASSUME NEW diff \in [frozen -> Diffs], PostSettlement(diff) PROVE Rules'
  <2>1. ASSUME NEW l \in Lots PROVE remaining'[l] = LotSum(balance', l)
    <3>1. LotSum(balance', l) = LotSum(balance, l) + LotSum(Change(diff), l)
      BY <1>12, SettlementSums
    <3>2. remaining'[l] = remaining[l] + LotSum(Change(diff), l)
      BY <1>12 DEF PostSettlement, Change
    <3>3. remaining[l] = LotSum(balance, l)
      BY DEF Rules, RemainingMatchesBalances, LotAgrees
    <3> QED BY <3>1, <3>2, <3>3
  <2>2. ASSUME NEW i \in Invs PROVE quantity'[i] = InvSum(balance', i)
    <3>1. InvSum(balance', i) = InvSum(balance, i) + InvSum(Change(diff), i)
      BY <1>12, SettlementSums
    <3>2. quantity'[i] = quantity[i] + InvSum(Change(diff), i)
      BY <1>12 DEF PostSettlement, Change
    <3>3. quantity[i] = InvSum(balance, i)
      BY DEF Rules, QuantityMatchesLots, InventoryAgrees
    <3> QED BY <3>1, <3>2, <3>3
  <2> QED BY <2>1, <2>2 DEF Rules, QuantityMatchesLots, RemainingMatchesBalances,
           InventoryAgrees, LotAgrees, InvSum, LotSum
<1>14. CASE UNCHANGED vars
  BY <1>14, <1>s DEF vars, stock
<1>15. CASE Next
  <2>1. \A t \in Txs : /\ ~ LockReturn(t) /\ ~ CommitReturn(t) /\ ~ EndAddTransaction(t)
                      /\ \A l \in Lots : ~ EndDraftReceipt(t, l)
    BY <1>r DEF LockReturn, CommitReturn, EndAddTransaction, EndDraftReceipt, AggregateKinds
  <2>2. \A t \in Txs : Rollback(t) => UNCHANGED stock
    BY DEF Rollback
  <2>3. \A t \in Txs, k \in ConsumeKinds, l \in Lots, i \in Invs, q \in Quantities :
          BeginConsume(t, k, l, i, q) => UNCHANGED stock
    BY DEF BeginConsume
  <2>4. \A t \in Txs, l \in Lots, i, j \in Invs, q \in Quantities :
          BeginTransfer(t, l, i, j, q) => UNCHANGED stock
    BY DEF BeginTransfer
  <2>5. \A t \in Txs, d \in Docs, q \in Quantities :
          BeginReturn(t, d, q) => UNCHANGED stock
    BY DEF BeginReturn
  <2>6. \A t \in Txs, k \in AggregateKinds, i \in Invs, q \in Quantities :
          ReadAggregate(t, k, i, q) => UNCHANGED stock
    BY DEF ReadAggregate
  <2>7. CountStep => UNCHANGED stock
    BY DEF CountStep
  <2> QED BY <1>s, <1>1, <1>6, <1>7, <1>12, <1>15, <2>1, <2>2, <2>3, <2>4, <2>5,
             <2>6, <2>7, NextCases
<1> QED BY <1>14, <1>15

(* Whatever number of issues, supplier returns, disposals, transfers,        *)
(* receipts and settlements race, the aggregate of every inventory record is *)
(* the sum of its lot balances and the remainder of every lot the sum over   *)
(* the records (integrity rules 1 and 2).                                    *)
THEOREM RelativeMovementsKeepRules ==
  ASSUME OnlyRelativeMovements
  PROVE  Spec => [](QuantityMatchesLots /\ RemainingMatchesBalances)
<1> DEFINE IInv == TypeInv /\ LotInv /\ Rules
<1>1. Init => IInv
  BY InitTypeInv, InitRules
<1>2. IInv /\ [Next]_vars => IInv'
  BY OnlyRelativeMovements, NextTypeInv, NextLotInv, NextRules
<1>3. IInv => QuantityMatchesLots /\ RemainingMatchesBalances
  BY DEF Rules
<1> QED BY <1>1, <1>2, <1>3, PTL DEF Spec

(* Rule 2 needs less.  The additions of inventory.addTransaction and the     *)
(* approvals of draft receipts read the aggregate and write it back, so rule *)
(* 1 does not survive them; the former carry no lot and the latter write     *)
(* only a new one, and both leave rule 2 alone.                              *)
LEMMA RemainingFollows ==
  ASSUME TypeOK, RemainingMatchesBalances, balance' \in Table,
         NEW l \in Lots, NEW i \in Invs, NEW d \in Int,
         balance' = AddTo(balance, l, i, d),
         \A m \in Lots : remaining'[m] = remaining[m] + IF m = l THEN d ELSE 0
  PROVE  RemainingMatchesBalances'
<1>1. balance \in Table /\ CellMoves(balance, balance', l, i, d)
  BY DEF TypeOK, Table, CellMoves
<1>2. LotSumsMove(balance, balance', l, d)
  BY <1>1, LotCellUpdate
<1>3. \A m \in Lots : remaining[m] = LotSum(balance, m) /\ remaining[m] \in Nat
  BY DEF TypeOK, RemainingMatchesBalances, LotAgrees
<1>4. \A m \in Lots : remaining'[m] = LotSum(balance', m)
  BY <1>2, <1>3 DEF LotSumsMove
<1> QED
  BY <1>4 DEF RemainingMatchesBalances, LotAgrees, LotSum

LEMMA NextRemaining ==
  TypeInv /\ TypeInv' /\ LotInv /\ RemainingMatchesBalances /\ [Next]_vars
    /\ "recipient_return" \notin Kinds => RemainingMatchesBalances'
<1> SUFFICES ASSUME TypeInv, TypeInv', LotInv, RemainingMatchesBalances, [Next]_vars,
                    "recipient_return" \notin Kinds
             PROVE  RemainingMatchesBalances'
  OBVIOUS
<1> USE DEF TypeInv, LotInv
<1>0. NumLots \in Nat /\ NumInvs \in Nat
  BY SizesAreNatural
<1>q. \A q \in Quantities : q \in Nat
  BY QuantitiesPositive
<1>t. balance \in Table /\ balance' \in Table
  BY DEF TypeOK, Table
<1>s. ASSUME UNCHANGED <<balance, remaining>> PROVE RemainingMatchesBalances'
  BY <1>s DEF RemainingMatchesBalances, LotAgrees, LotSum
<1>1. ASSUME NEW l \in Lots, NEW i \in Invs, NEW q \in Quantities,
             NEW s \in SourceTypes, ReceiveLot(l, i, q, s)
      PROVE  RemainingMatchesBalances'
  <2>1. remaining[l] = 0
    <3>1. \A k \in 1..NumInvs : balance[l][k] = 0
      BY <1>1 DEF ReceiveLot, FreshLotsEmpty, Invs
    <3>2. Total(balance[l], NumInvs) = 0
      BY <1>0, <3>1, TotalOfZeros
    <3> QED BY <3>2 DEF RemainingMatchesBalances, LotAgrees, LotSum
  <2>2. \A m \in Lots : remaining'[m] = remaining[m] + IF m = l THEN q ELSE 0
    BY <1>1, <1>q, <2>1 DEF ReceiveLot, TypeOK
  <2>3. balance' = AddTo(balance, l, i, q) /\ q \in Int
    BY <1>1, <1>q DEF ReceiveLot
  <2> QED BY <1>t, <2>2, <2>3, RemainingFollows
<1>2. ASSUME NEW t \in Txs, Consumed(t) PROVE RemainingMatchesBalances'
  <2> DEFINE r == txs[t]
  <2>1. r.lot \in Lots /\ r.inv \in Invs /\ r.qty \in Nat
    BY <1>2 DEF Consumed, ConsumeLot, ConsumeAggregate, TxShape, TypeOK, Tx
  <2>2. \A m \in Lots : remaining'[m] = remaining[m] + IF m = r.lot THEN -r.qty ELSE 0
    BY <1>2, <2>1 DEF Consumed, ConsumeLot, TypeOK
  <2>3. balance' = AddTo(balance, r.lot, r.inv, -r.qty) /\ -r.qty \in Int
    BY <1>2, <2>1 DEF Consumed, ConsumeLot
  <2> HIDE DEF r
  <2> QED BY <1>t, <2>1, <2>2, <2>3, RemainingFollows
<1>3. ASSUME NEW t \in Txs, CommitTransfer(t) PROVE RemainingMatchesBalances'
  <2> DEFINE l == txs[t].lot
             i == txs[t].inv
             j == txs[t].to
             q == txs[t].qty
             b == AddTo(balance, l, i, -q)
  <2>1. l \in Lots /\ i \in Invs /\ j \in Invs /\ q \in Nat /\ -q \in Int /\ q \in Int
    BY <1>3 DEF CommitTransfer, MoveLotBalance, TxShape, TypeOK, Tx
  <2>2. balance[l][i] - q \in Nat
    BY <1>3, <2>1 DEF CommitTransfer, MoveLotBalance, TypeOK
  <2>3. b \in Table
    BY <2>1, <2>2 DEF AddTo, TypeOK, Table
  <2>4. balance' = AddTo(b, l, j, q) /\ remaining' = remaining
    BY <1>3 DEF CommitTransfer, MoveLotBalance
  <2> HIDE DEF l, i, j, q
  <2>5. b = AddTo(balance, l, i, -q)
    OBVIOUS
  <2> HIDE DEF b
  <2>6. CellMoves(balance, b, l, i, -q) /\ CellMoves(b, balance', l, j, q)
    BY <2>4, <2>5 DEF CellMoves
  <2>7. LotSumsMove(balance, b, l, -q) /\ LotSumsMove(b, balance', l, q)
    BY <1>t, <2>1, <2>3, <2>6, LotCellUpdate
  <2>8. \A m \in Lots : remaining[m] = LotSum(balance, m) /\ remaining[m] \in Nat
    BY DEF TypeOK, RemainingMatchesBalances, LotAgrees
  <2>9. \A m \in Lots : remaining'[m] = LotSum(balance', m)
    BY <2>1, <2>4, <2>7, <2>8 DEF LotSumsMove
  <2> QED BY <2>9 DEF RemainingMatchesBalances, LotAgrees, LotSum
<1>4. ASSUME NEW diff \in [frozen -> Diffs], PostSettlement(diff)
      PROVE  RemainingMatchesBalances'
  <2>1. ASSUME NEW l \in Lots PROVE remaining'[l] = LotSum(balance', l)
    <3>1. LotSum(balance', l) = LotSum(balance, l) + LotSum(Change(diff), l)
      BY <1>4, SettlementSums
    <3>2. remaining'[l] = remaining[l] + LotSum(Change(diff), l)
      BY <1>4 DEF PostSettlement, Change
    <3>3. remaining[l] = LotSum(balance, l)
      BY DEF RemainingMatchesBalances, LotAgrees
    <3> QED BY <3>1, <3>2, <3>3
  <2> QED BY <2>1 DEF RemainingMatchesBalances, LotAgrees, LotSum
<1>5. ASSUME NEW t \in Txs, LockReturn(t) \/ CommitReturn(t) PROVE FALSE
  BY <1>5 DEF LockReturn, CommitReturn, TxShape
<1>8. ASSUME NEW t \in Txs, NEW l \in Lots, EndDraftReceipt(t, l)
      PROVE  RemainingMatchesBalances'
  <2> DEFINE i == txs[t].inv
             q == txs[t].qty
  <2>1. i \in Invs /\ q \in Nat
    BY <1>8 DEF EndDraftReceipt, TxShape, TypeOK, Tx, AggregateKinds
  <2>2. source[l] = "none" /\ remaining' = [remaining EXCEPT ![l] = q]
    BY <1>8 DEF EndDraftReceipt
  <2>3. balance' = AddTo(balance, l, i, q)
    BY <1>8 DEF EndDraftReceipt
  <2> HIDE DEF i, q
  <2>4. remaining[l] = 0
    <3>1. \A k \in 1..NumInvs : balance[l][k] = 0
      BY <2>2 DEF FreshLotsEmpty, Invs
    <3>2. Total(balance[l], NumInvs) = 0
      BY <1>0, <3>1, TotalOfZeros
    <3> QED BY <3>2 DEF RemainingMatchesBalances, LotAgrees, LotSum
  <2>5. \A m \in Lots : remaining'[m] = remaining[m] + IF m = l THEN q ELSE 0
    BY <2>1, <2>2, <2>4 DEF TypeOK
  <2>6. q \in Int
    BY <2>1
  <2> QED BY <1>t, <2>1, <2>3, <2>5, <2>6, RemainingFollows
<1>6. CASE UNCHANGED vars
  BY <1>6, <1>s DEF vars, stock
<1>7. CASE Next
  BY <1>7, <1>s, <1>1, <1>2, <1>3, <1>4, <1>5, <1>8, NextCases
  DEF BeginConsume, BeginTransfer, BeginReturn, ReadAggregate, EndAddTransaction,
      Rollback, CountStep, stock
<1> QED BY <1>6, <1>7

(* Issues, supplier returns, disposals, transfers, receipts of every kind,   *)
(* settlements and additions to the aggregate may race: the remainder of     *)
(* every lot is the sum of its balances over the records.  Only a return by  *)
(* a recipient, which writes back balances that it read, is excluded.        *)
THEOREM RemainderKept ==
  ASSUME "recipient_return" \notin Kinds
  PROVE  Spec => []RemainingMatchesBalances
<1> DEFINE IInv == TypeInv /\ LotInv /\ RemainingMatchesBalances
<1>1. Init => IInv
  BY InitTypeInv, InitRules DEF Rules
<1>2. IInv /\ [Next]_vars => IInv'
  BY NextTypeInv, NextLotInv, NextRemaining
<1> QED BY <1>1, <1>2, PTL DEF Spec

-----------------------------------------------------------------------------
(* Returns.  NoOverReturn is not inductive: it needs what the lock on the    *)
(* document is for, that a return holding it still fits, and is alone.       *)
LockedReturnsFit ==
  \A t \in Txs : txs[t].locked =>
    /\ txs[t].kind = "recipient_return"
    /\ txs[t].qty + docs[txs[t].doc].returned <= docs[txs[t].doc].quantity

OneLockPerDoc ==
  \A t, u \in Txs : txs[t].locked /\ txs[u].locked /\ txs[t].doc = txs[u].doc => t = u

ReturnInv == LockedReturnsFit /\ OneLockPerDoc /\ NoOverReturn

LEMMA InitReturnInv == Init => ReturnInv
BY DEF Init, ReturnInv, LockedReturnsFit, OneLockPerDoc, NoOverReturn, Idle, Unissued

(* A step that adds no lock and leaves the documents alone.                  *)
LEMMA SameDocs ==
  ASSUME TypeInv, ReturnInv, docs' = docs, NEW t \in Txs, NEW r,
         txs' = [txs EXCEPT ![t] = r], ~ r.locked
  PROVE  ReturnInv'
<1>1. \A u \in Txs : txs'[u] = IF u = t THEN r ELSE txs[u]
  BY DEF TypeInv, TypeOK
<1> QED BY <1>1 DEF ReturnInv, LockedReturnsFit, OneLockPerDoc, NoOverReturn

LEMMA NextReturnInv ==
  ASSUME TypeInv, ReturnInv, [Next]_vars, SnapshotAtBegin = FALSE
  PROVE  ReturnInv'
<1> USE DEF TypeInv
<1>u. ~ Idle.locked
  BY DEF Idle
<1>d. \A d \in Docs : docs[d].quantity \in Nat /\ docs[d].returned \in Nat
  BY DEF TypeOK, Doc
<1>q. \A t \in Txs : txs[t].qty \in Nat
  BY DEF TypeOK, Tx
<1>s. ASSUME UNCHANGED <<docs, txs>> PROVE ReturnInv'
  BY <1>s DEF ReturnInv, LockedReturnsFit, OneLockPerDoc, NoOverReturn
<1>c. ASSUME NEW t \in Txs, Close(t), docs' = docs PROVE ReturnInv'
  BY <1>c, <1>u, SameDocs DEF Close
<1>2. ASSUME NEW t \in Txs, NEW k \in ConsumeKinds, NEW l \in Lots, NEW i \in Invs,
             NEW q \in Quantities, BeginConsume(t, k, l, i, q)
      PROVE  ReturnInv'
  <2> DEFINE r == [Idle EXCEPT !.kind = k, !.lot = l, !.inv = i, !.qty = q]
  <2>1. ~ r.locked
    BY DEF Idle
  <2>2. txs' = [txs EXCEPT ![t] = r] /\ docs' = docs
    BY <1>2 DEF BeginConsume, Open
  <2> HIDE DEF r
  <2> QED BY <2>1, <2>2, SameDocs
<1>3. ASSUME NEW t \in Txs, NEW l \in Lots, NEW i \in Invs, NEW j \in Invs,
             NEW q \in Quantities, BeginTransfer(t, l, i, j, q)
      PROVE  ReturnInv'
  <2> DEFINE r == [Idle EXCEPT !.kind = "transfer", !.lot = l, !.inv = i, !.to = j,
                               !.qty = q]
  <2>1. ~ r.locked
    BY DEF Idle
  <2>2. txs' = [txs EXCEPT ![t] = r] /\ docs' = docs
    BY <1>3 DEF BeginTransfer, Open
  <2> HIDE DEF r
  <2> QED BY <2>1, <2>2, SameDocs
<1>4. ASSUME NEW t \in Txs, NEW d \in Docs, NEW q \in Quantities, BeginReturn(t, d, q)
      PROVE  ReturnInv'
  <2> DEFINE r == [Idle EXCEPT !.kind = "recipient_return", !.doc = d, !.qty = q,
                     !.lot = docs[d].lot, !.inv = docs[d].inv, !.seen = Unread]
  <2>1. ~ r.locked
    BY DEF Idle
  <2>2. txs' = [txs EXCEPT ![t] = r] /\ docs' = docs
    BY <1>4 DEF BeginReturn, Open
  <2> HIDE DEF r
  <2> QED BY <2>1, <2>2, SameDocs
<1>5. ASSUME NEW t \in Txs, NEW k \in AggregateKinds, NEW i \in Invs,
             NEW q \in Quantities, ReadAggregate(t, k, i, q)
      PROVE  ReturnInv'
  <2> DEFINE r == [Idle EXCEPT !.kind = k, !.inv = i, !.qty = q,
                     !.seen = [Unread EXCEPT !.quantity = quantity[i]]]
  <2>1. ~ r.locked
    BY DEF Idle
  <2>2. txs' = [txs EXCEPT ![t] = r] /\ docs' = docs
    BY <1>5 DEF ReadAggregate, Open
  <2> HIDE DEF r
  <2> QED BY <2>1, <2>2, SameDocs
<1>6. ASSUME NEW t \in Txs, Consumed(t) PROVE ReturnInv'
  <2>1. ASSUME NEW d \in Docs, docs[d] = Unissued,
               docs' = [docs EXCEPT ![d] = [lot |-> txs[t].lot, inv |-> txs[t].inv,
                                      quantity |-> txs[t].qty, returned |-> 0]]
        PROVE  ReturnInv'
    <3>1. \A u \in Txs : txs'[u] = IF u = t THEN Idle ELSE txs[u]
      BY <1>6 DEF Consumed, ConsumeLot, ConsumeAggregate, Close, TypeOK
    <3>2. \A u \in Txs : txs[u].kind = "recipient_return" => txs[u].doc # d
      BY <2>1 DEF DocShape, TxShape, Unissued, Lots
    <3>3. \A e \in Docs : e # d => docs'[e] = docs[e]
      BY <2>1 DEF TypeOK
    <3>4. docs'[d].returned = 0 /\ docs'[d].quantity = txs[t].qty
      BY <2>1 DEF TypeOK
    <3>5. \A u \in Txs : txs[u].kind = "recipient_return" => txs[u].doc \in Docs
      BY DEF TxShape
    <3>6. LockedReturnsFit'
      BY <3>1, <3>2, <3>3, <3>5, <1>u DEF ReturnInv, LockedReturnsFit
    <3>7. OneLockPerDoc'
      BY <3>1, <1>u DEF ReturnInv, OneLockPerDoc
    <3>8. NoOverReturn'
      BY <3>3, <3>4, <1>q DEF ReturnInv, NoOverReturn
    <3> QED BY <3>6, <3>7, <3>8 DEF ReturnInv
  <2>2. Close(t)
    BY <1>6 DEF Consumed, ConsumeLot, ConsumeAggregate
  <2> QED BY <1>6, <1>c, <2>1, <2>2 DEF Consumed, ConsumeLot, ConsumeAggregate
<1>7. ASSUME NEW t \in Txs, CommitTransfer(t) PROVE ReturnInv'
  BY <1>7, <1>c DEF CommitTransfer, MoveLotBalance
<1>8. ASSUME NEW t \in Txs, LockReturn(t) PROVE ReturnInv'
  <2> DEFINE d == txs[t].doc
  <2>1. /\ txs[t].kind = "recipient_return" /\ DocLockFree(d) /\ docs' = docs
        /\ txs[t].qty + docs[d].returned <= docs[d].quantity
    BY <1>8 DEF LockReturn, ReadRows
  <2>2. \A u \in Txs : u # t => txs'[u] = txs[u]
    BY <1>8 DEF LockReturn, TypeOK
  <2>3. /\ txs'[t].kind = txs[t].kind /\ txs'[t].qty = txs[t].qty
        /\ txs'[t].doc = txs[t].doc
    BY <1>8 DEF LockReturn, TypeOK, Tx
  <2>4. LockedReturnsFit'
    BY <2>1, <2>2, <2>3 DEF ReturnInv, LockedReturnsFit
  <2>5. OneLockPerDoc'
    BY <2>1, <2>2, <2>3 DEF ReturnInv, OneLockPerDoc, DocLockFree
  <2> QED BY <2>1, <2>4, <2>5 DEF ReturnInv, NoOverReturn
<1>9. ASSUME NEW t \in Txs, CommitReturn(t) PROVE ReturnInv'
  <2> DEFINE d == txs[t].doc
  <2>1. /\ txs[t].locked /\ d \in Docs
        /\ txs[t].qty + docs[d].returned <= docs[d].quantity
    BY <1>9 DEF CommitReturn, TxShape, ReturnInv, LockedReturnsFit
  <2>2. \A e \in Docs : e # d => docs'[e] = docs[e]
    BY <1>9 DEF CommitReturn, TypeOK
  <2>3. /\ docs'[d].returned = docs[d].returned + txs[t].qty
        /\ docs'[d].quantity = docs[d].quantity
    BY <1>9, <2>1 DEF CommitReturn, TypeOK, Doc
  <2>4. \A u \in Txs : txs'[u] = IF u = t THEN Idle ELSE txs[u]
    BY <1>9 DEF CommitReturn, Close, TypeOK
  <2>5. \A u \in Txs : u # t /\ txs[u].locked => txs[u].doc # d /\ txs[u].doc \in Docs
    BY <2>1 DEF ReturnInv, OneLockPerDoc, LockedReturnsFit, TxShape
  <2>6. LockedReturnsFit'
    BY <2>2, <2>4, <2>5, <1>u DEF ReturnInv, LockedReturnsFit
  <2>7. OneLockPerDoc'
    BY <2>4, <1>u DEF ReturnInv, OneLockPerDoc
  <2>8. NoOverReturn'
    BY <2>1, <2>2, <2>3, <1>d, <1>q DEF ReturnInv, NoOverReturn
  <2> QED BY <2>6, <2>7, <2>8 DEF ReturnInv
<1>10. ASSUME NEW t \in Txs, EndAddTransaction(t) PROVE ReturnInv'
  BY <1>10, <1>c DEF EndAddTransaction
<1>11. ASSUME NEW t \in Txs, Rollback(t) PROVE ReturnInv'
  BY <1>11, <1>c DEF Rollback
<1>12. ASSUME NEW l \in Lots, NEW i \in Invs, NEW q \in Quantities,
              NEW s \in SourceTypes, ReceiveLot(l, i, q, s)
       PROVE  ReturnInv'
  BY <1>12, <1>s DEF ReceiveLot
<1>13. ASSUME NEW diff \in [frozen -> Diffs], PostSettlement(diff) PROVE ReturnInv'
  BY <1>13, <1>s DEF PostSettlement
<1>14. CASE CountStep
  BY <1>14, <1>s DEF CountStep
<1>15. CASE UNCHANGED vars
  BY <1>15, <1>s DEF vars
<1>17. ASSUME NEW t \in Txs, NEW l \in Lots, EndDraftReceipt(t, l) PROVE ReturnInv'
  BY <1>17, <1>c DEF EndDraftReceipt
<1>16. CASE Next
  BY <1>2, <1>3, <1>4, <1>5, <1>6, <1>7, <1>8, <1>9, <1>10, <1>11, <1>12, <1>13,
     <1>14, <1>16, <1>17, NextCases
<1> QED BY <1>15, <1>16

(* When the read view of a transaction opens at its first plain read, which  *)
(* the return makes after it has locked the delivery document, the returns   *)
(* of a delivery never exceed what was delivered, however many race.         *)
THEOREM LockedReturnsNeverExceed ==
  ASSUME SnapshotAtBegin = FALSE
  PROVE  Spec => []NoOverReturn
<1> DEFINE IInv == TypeInv /\ ReturnInv
<1>1. Init => IInv
  BY InitTypeInv, InitReturnInv
<1>2. IInv /\ [Next]_vars => IInv'
  BY SnapshotAtBegin = FALSE, NextTypeInv, NextReturnInv
<1>3. IInv => NoOverReturn
  BY DEF ReturnInv
<1> QED BY <1>1, <1>2, <1>3, PTL DEF Spec

-----------------------------------------------------------------------------
(* The book.  Its cells are the balances; what of it is delivered is a sum   *)
(* over the delivery documents.                                              *)
MovedAmounts ==
  \A t \in Txs : txs[t].kind \in ConsumeKinds \cup {"transfer", "draft_receipt"} =>
                   txs[t].qty \in Quantities

Created == [l \in Lots |-> source[l] # "none"]
Delivered == [l \in Lots |-> [i \in Invs |-> Outstanding(l, i)]]

LEMMA NextMovedAmounts ==
  ASSUME TypeInv, MovedAmounts, [Next]_vars
  PROVE  MovedAmounts'
<1> USE DEF TypeInv
<1>k. Idle.kind = "none"
  BY DEF Idle
<1>s. ASSUME UNCHANGED txs PROVE MovedAmounts'
  BY <1>s DEF MovedAmounts
<1>c. ASSUME NEW t \in Txs, Close(t) PROVE MovedAmounts'
  BY <1>c, <1>k DEF Close, MovedAmounts, TypeOK, ConsumeKinds
<1>o. ASSUME NEW t \in Txs, NEW r, txs' = [txs EXCEPT ![t] = r],
             r.qty \in Quantities \/ r.kind = "recipient_return"
      PROVE  MovedAmounts'
  BY <1>o DEF MovedAmounts, TypeOK, ConsumeKinds
<1>1. ASSUME NEW t \in Txs, NEW k \in ConsumeKinds, NEW l \in Lots, NEW i \in Invs,
             NEW q \in Quantities, BeginConsume(t, k, l, i, q)
      PROVE  MovedAmounts'
  <2> DEFINE r == [Idle EXCEPT !.kind = k, !.lot = l, !.inv = i, !.qty = q]
  <2>1. r.qty = q
    BY DEF Idle
  <2>2. txs' = [txs EXCEPT ![t] = r]
    BY <1>1 DEF BeginConsume, Open
  <2> HIDE DEF r
  <2> QED BY <2>1, <2>2, <1>o
<1>2. ASSUME NEW t \in Txs, NEW l \in Lots, NEW i \in Invs, NEW j \in Invs,
             NEW q \in Quantities, BeginTransfer(t, l, i, j, q)
      PROVE  MovedAmounts'
  <2> DEFINE r == [Idle EXCEPT !.kind = "transfer", !.lot = l, !.inv = i, !.to = j,
                               !.qty = q]
  <2>1. r.qty = q
    BY DEF Idle
  <2>2. txs' = [txs EXCEPT ![t] = r]
    BY <1>2 DEF BeginTransfer, Open
  <2> HIDE DEF r
  <2> QED BY <2>1, <2>2, <1>o
<1>3. ASSUME NEW t \in Txs, NEW d \in Docs, NEW q \in Quantities, BeginReturn(t, d, q)
      PROVE  MovedAmounts'
  <2> DEFINE r == [Idle EXCEPT !.kind = "recipient_return", !.doc = d, !.qty = q,
                     !.lot = docs[d].lot, !.inv = docs[d].inv,
                     !.seen = IF SnapshotAtBegin
                              THEN ReadRows(docs[d].lot, docs[d].inv, d) ELSE Unread]
  <2>1. r.qty = q
    BY DEF Idle
  <2>2. txs' = [txs EXCEPT ![t] = r]
    BY <1>3 DEF BeginReturn, Open
  <2> HIDE DEF r
  <2> QED BY <2>1, <2>2, <1>o
<1>4. ASSUME NEW t \in Txs, NEW k \in AggregateKinds, NEW i \in Invs,
             NEW q \in Quantities, ReadAggregate(t, k, i, q)
      PROVE  MovedAmounts'
  <2> DEFINE r == [Idle EXCEPT !.kind = k, !.inv = i, !.qty = q,
                     !.seen = [Unread EXCEPT !.quantity = quantity[i]]]
  <2>1. r.qty = q
    BY DEF Idle
  <2>2. txs' = [txs EXCEPT ![t] = r]
    BY <1>4 DEF ReadAggregate, Open
  <2> HIDE DEF r
  <2> QED BY <2>1, <2>2, <1>o
<1>5. ASSUME NEW t \in Txs, LockReturn(t) PROVE MovedAmounts'
  <2>1. /\ txs' \in [Txs -> Tx] /\ \A u \in Txs : u # t => txs'[u] = txs[u]
        /\ txs'[t].kind = "recipient_return"
    BY <1>5, NextTypeInv DEF LockReturn, TypeOK, Tx
  <2> QED BY <2>1 DEF MovedAmounts, ConsumeKinds
<1>6. ASSUME NEW t \in Txs,
             Consumed(t) \/ CommitTransfer(t) \/ CommitReturn(t) \/ EndAddTransaction(t)
             \/ Rollback(t) \/ \E l \in Lots : EndDraftReceipt(t, l)
      PROVE  MovedAmounts'
  BY <1>6, <1>c DEF Consumed, CommitTransfer, CommitReturn, EndAddTransaction, Rollback,
                    EndDraftReceipt
<1>7. ASSUME NEW l \in Lots, NEW i \in Invs, NEW q \in Quantities,
             NEW s \in SourceTypes, ReceiveLot(l, i, q, s)
      PROVE  MovedAmounts'
  BY <1>7, <1>s DEF ReceiveLot
<1>8. ASSUME NEW diff \in [frozen -> Diffs], PostSettlement(diff) PROVE MovedAmounts'
  BY <1>8, <1>s DEF PostSettlement
<1>9. CASE CountStep \/ UNCHANGED vars
  BY <1>9, <1>s DEF CountStep, vars
<1> QED
  BY <1>1, <1>2, <1>3, <1>4, <1>5, <1>6, <1>7, <1>8, <1>9, NextCases

(* A table that differs from another in one cell is that table with the cell *)
(* written.                                                                  *)
IntTable == [Lots -> [Invs -> Int]]
OneCell(b, c, l, i, d) == \A m \in Lots, j \in Invs :
  c[m][j] = IF m = l /\ j = i THEN b[m][j] + d ELSE b[m][j]

LEMMA CellWritten ==
  ASSUME NEW l \in Lots, NEW i \in Invs, NEW d,
         NEW b \in IntTable, NEW c \in IntTable, OneCell(b, c, l, i, d)
  PROVE  c = AddTo(b, l, i, d)
<1> USE DEF IntTable, OneCell
<1>1. c[l] = [b[l] EXCEPT ![i] = b[l][i] + d]
  OBVIOUS
<1>2. \A m \in Lots : m # l => c[m] = b[m]
  OBVIOUS
<1>3. c = [b EXCEPT ![l] = [b[l] EXCEPT ![i] = b[l][i] + d]]
  BY <1>1, <1>2
<1> QED
  BY <1>3 DEF AddTo

(* A document written for a delivery adds to one cell of what is delivered.  *)
LEMMA DeliveryRecorded ==
  ASSUME TypeInv, TypeInv', NEW d \in Docs, NEW l \in Lots, NEW i \in Invs, NEW q \in Nat,
         docs[d] = Unissued,
         docs' = [docs EXCEPT ![d] = [lot |-> l, inv |-> i, quantity |-> q, returned |-> 0]]
  PROVE  Delivered' = AddTo(Delivered, l, i, q)
<1>0. NumDocs \in Nat /\ d \in 1..NumDocs /\ q \in Int
  BY SizesAreNatural DEF Docs
<1>1. \A e \in Docs : e # d => docs'[e] = docs[e]
  BY DEF TypeInv, TypeOK
<1>2. docs'[d] = [lot |-> l, inv |-> i, quantity |-> q, returned |-> 0]
  BY DEF TypeInv, TypeOK
<1>3. ASSUME NEW m \in Lots, NEW j \in Invs
      PROVE  /\ Outstanding(m, j) \in Int /\ Outstanding(m, j)' \in Int
             /\ Outstanding(m, j)' =
                  IF m = l /\ j = i THEN Outstanding(m, j) + q ELSE Outstanding(m, j)
  <2> DEFINE f == [e \in Docs |-> IF docs[e].lot = m /\ docs[e].inv = j
                                  THEN docs[e].quantity - docs[e].returned ELSE 0]
             h == [e \in Docs |-> IF docs'[e].lot = m /\ docs'[e].inv = j
                                  THEN docs'[e].quantity - docs'[e].returned ELSE 0]
             x == IF m = l /\ j = i THEN q ELSE 0
  <2>1. /\ \A e \in Docs : docs[e].quantity \in Nat /\ docs[e].returned \in Nat
        /\ \A e \in Docs : docs'[e].quantity \in Nat /\ docs'[e].returned \in Nat
    BY DEF TypeInv, TypeOK, Doc
  <2>2. (\A k \in 1..NumDocs : f[k] \in Int) /\ (\A k \in 1..NumDocs : h[k] \in Int)
    BY <2>1 DEF Docs
  <2>3. Summable(f, NumDocs) /\ Summable(h, NumDocs)
    BY <2>2 DEF Summable
  <2>4. f[d] = 0 /\ h[d] = x
    BY <1>2 DEF Unissued, Lots
  <2>5. \A k \in 1..NumDocs : k # d => h[k] = f[k]
    BY <1>1 DEF Docs
  <2>6. x \in Int /\ h[d] = f[d] + x
    BY <1>0, <2>4
  <2>7. Outstanding(m, j) = Total(f, NumDocs) /\ Outstanding(m, j)' = Total(h, NumDocs)
    BY DEF Outstanding
  <2> HIDE DEF f, h
  <2>8. Total(h, NumDocs) = Total(f, NumDocs) + x
    BY <1>0, <2>3, <2>5, <2>6, TotalOfUpdate
  <2>9. Total(f, NumDocs) \in Int /\ Total(h, NumDocs) \in Int
    BY <1>0, <2>3, TotalInt
  <2> QED
    BY <2>7, <2>8, <2>9
<1> DEFINE b == Delivered
           c == Delivered'
<1>4. b \in IntTable /\ c \in IntTable /\ OneCell(b, c, l, i, q)
  BY <1>3 DEF Delivered, IntTable, OneCell
<1> HIDE DEF b, c
<1>5. c = AddTo(b, l, i, q)
  BY <1>4, CellWritten
<1> QED
  BY <1>5 DEF b, c

LEMMA DocsKeepDelivered ==
  ASSUME docs' = docs
  PROVE  Delivered' = Delivered
BY DEF Delivered, Outstanding

LEMMA BookStarts == Init => Book!BookInit
<1> SUFFICES ASSUME Init PROVE Book!BookInit
  OBVIOUS
<1>0. NumDocs \in Nat
  BY SizesAreNatural
<1>1. ASSUME NEW l \in Lots, NEW i \in Invs PROVE Outstanding(l, i) = 0
  <2> DEFINE f == [d \in Docs |-> IF docs[d].lot = l /\ docs[d].inv = i
                                  THEN docs[d].quantity - docs[d].returned ELSE 0]
  <2>1. \A k \in 1..NumDocs : f[k] = 0
    BY DEF Init, Unissued, Docs
  <2>2. Outstanding(l, i) = Total(f, NumDocs)
    BY DEF Outstanding
  <2> HIDE DEF f
  <2> QED BY <1>0, <2>1, <2>2, TotalOfZeros
<1>2. [l \in Lots |-> source[l] # "none"] = [l \in Lots |-> FALSE]
  BY DEF Init
<1>3. [l \in Lots |-> [i \in Invs |-> Outstanding(l, i)]] =
        [l \in Lots |-> [i \in Invs |-> 0]]
  BY <1>1
<1> QED
  BY <1>2, <1>3 DEF Init, Book!BookInit

(* Steps that leave the book as it is.                                       *)
LEMMA BookRests ==
  ASSUME UNCHANGED <<balance, source, docs, frozen>>
  PROVE  UNCHANGED Book!bookVars
<1>1. Delivered' = Delivered /\ Created' = Created
  BY DocsKeepDelivered DEF Created
<1> QED
  BY <1>1 DEF Book!bookVars, Delivered, Created

LEMMA BookMoves ==
  ASSUME TypeInv, TypeInv', LotInv, MovedAmounts, "recipient_return" \notin Kinds,
         [Next]_vars
  PROVE  [Book!BookNext]_(Book!bookVars)
<1> USE DEF TypeInv
<1>r. \A t \in Txs : txs[t].kind # "recipient_return"
  BY DEF TxShape
<1>1. ASSUME NEW l \in Lots, NEW i \in Invs, NEW q \in Quantities,
             NEW s \in SourceTypes, ReceiveLot(l, i, q, s)
      PROVE  Book!Enter(l, i, q)
  <2>1. ~ Created[l]
    BY <1>1 DEF ReceiveLot, Created
  <2>2. Created' = [Created EXCEPT ![l] = TRUE]
    <3>1. \A m \in Lots : source'[m] # "none" <=> m = l \/ source[m] # "none"
      BY <1>1 DEF ReceiveLot, TypeOK, SourceTypes
    <3> QED
      BY <3>1 DEF Created
  <2>3. Delivered' = Delivered
    BY <1>1, DocsKeepDelivered DEF ReceiveLot
  <2>4. balance' = AddTo(balance, l, i, q) /\ frozen' = frozen
    BY <1>1 DEF ReceiveLot
  <2> QED
    BY <2>1, <2>2, <2>3, <2>4 DEF Book!Enter, Book!Add, Created, Delivered, AddTo
<1>9. ASSUME NEW t \in Txs, NEW l \in Lots, EndDraftReceipt(t, l)
      PROVE  \E i \in Invs, q \in Quantities : Book!Enter(l, i, q)
  <2> PICK i \in Invs, q \in Quantities : i = txs[t].inv /\ q = txs[t].qty
    BY <1>9 DEF EndDraftReceipt, TxShape, MovedAmounts, AggregateKinds
  <2>1. ~ Created[l]
    BY <1>9 DEF EndDraftReceipt, Created
  <2>2. Created' = [Created EXCEPT ![l] = TRUE]
    <3>1. \A m \in Lots : source'[m] # "none" <=> m = l \/ source[m] # "none"
      BY <1>9 DEF EndDraftReceipt, TypeOK
    <3> QED
      BY <3>1 DEF Created
  <2>3. Delivered' = Delivered
    BY <1>9, DocsKeepDelivered DEF EndDraftReceipt
  <2>4. balance' = AddTo(balance, l, i, q) /\ frozen' = frozen
    BY <1>9 DEF EndDraftReceipt
  <2>5. Book!Enter(l, i, q)
    BY <2>1, <2>2, <2>3, <2>4
    DEF Book!Enter, Book!Add, Created, Delivered, AddTo
  <2> QED
    BY <2>5
<1>2. ASSUME NEW t \in Txs, Consumed(t)
      PROVE  \/ Book!Remove(txs[t].lot, txs[t].inv, txs[t].qty)
             \/ Book!Deliver(txs[t].lot, txs[t].inv, txs[t].qty)
  <2> DEFINE l == txs[t].lot
             i == txs[t].inv
             q == txs[t].qty
  <2>1. l \in Lots /\ i \in Invs /\ q \in Nat
    BY <1>2 DEF Consumed, TxShape, TypeOK, Tx
  <2>2. Created[l] /\ Created' = Created
    BY <1>2, <2>1 DEF Consumed, Created, LotInv, MovedLotsExist
  <2>3. /\ balance[l][i] >= q /\ balance' = AddTo(balance, l, i, -q)
        /\ frozen' = frozen
    BY <1>2 DEF Consumed, ConsumeLot
  <2>4. q <= balance[l][i]
    BY <2>1, <2>3 DEF TypeOK
  <2>5. CASE txs[t].kind = "issue"
    <3>1. PICK d \in Docs : /\ docs[d] = Unissued
                            /\ docs' = [docs EXCEPT ![d] = [lot |-> l, inv |-> i,
                                                 quantity |-> q, returned |-> 0]]
      BY <1>2, <2>5 DEF Consumed
    <3> HIDE DEF l, i, q
    <3>2. Delivered' = AddTo(Delivered, l, i, q)
      BY <2>1, <3>1, DeliveryRecorded
    <3>3. Book!Deliver(l, i, q)
      BY <2>2, <2>3, <2>4, <3>2 DEF Book!Deliver, Book!Add, Created, Delivered, AddTo
    <3> QED
      BY <3>3 DEF l, i, q
  <2>6. CASE txs[t].kind # "issue"
    <3>1. Delivered' = Delivered
      BY <1>2, <2>6, DocsKeepDelivered DEF Consumed
    <3> HIDE DEF l, i, q
    <3>2. Book!Remove(l, i, q)
      BY <2>2, <2>3, <2>4, <3>1 DEF Book!Remove, Book!Add, Created, Delivered, AddTo
    <3> QED
      BY <3>2 DEF l, i, q
  <2> QED
    BY <2>5, <2>6
<1>3. ASSUME NEW t \in Txs, CommitTransfer(t)
      PROVE  Book!Move(txs[t].lot, txs[t].inv, txs[t].to, txs[t].qty)
  <2> DEFINE l == txs[t].lot
             i == txs[t].inv
             j == txs[t].to
             q == txs[t].qty
  <2>1. l \in Lots /\ i \in Invs /\ j \in Invs /\ i # j /\ q \in Nat
    BY <1>3 DEF CommitTransfer, TxShape, TypeOK, Tx
  <2>2. Created[l] /\ Created' = Created
    BY <1>3, <2>1 DEF CommitTransfer, Created, LotInv, MovedLotsExist
  <2>3. /\ balance[l][i] >= q /\ balance' = AddTo(AddTo(balance, l, i, -q), l, j, q)
        /\ frozen' = frozen
    BY <1>3 DEF CommitTransfer, MoveLotBalance
  <2>4. q <= balance[l][i]
    BY <2>1, <2>3 DEF TypeOK
  <2>5. Delivered' = Delivered
    BY <1>3, DocsKeepDelivered DEF CommitTransfer
  <2> HIDE DEF l, i, j, q
  <2>6. Book!Move(l, i, j, q)
    BY <2>1, <2>2, <2>3, <2>4, <2>5 DEF Book!Move, Book!Add, Created, Delivered, AddTo
  <2> QED
    BY <2>6 DEF l, i, j, q
<1>4. ASSUME NEW diff \in [frozen -> Diffs], PostSettlement(diff)
      PROVE  Book!Count
  <2>1. ASSUME NEW l \in Lots, NEW i \in Invs
        PROVE  /\ balance'[l][i] >= 0
               /\ <<l, i>> \notin frozen => balance'[l][i] = balance[l][i]
    <3>1. balance'[l][i] \in Nat /\ balance[l][i] \in Nat
      BY DEF TypeOK
    <3>2. balance'[l][i] = balance[l][i] + Change(diff)[l][i]
      BY <1>4 DEF PostSettlement, Change
    <3>3. <<l, i>> \notin frozen => Change(diff)[l][i] = 0
      BY DEF Change
    <3> QED
      BY <3>1, <3>2, <3>3
  <2>2. frozen' \subseteq frozen
    BY <1>4 DEF PostSettlement
  <2>3. Delivered' = Delivered /\ Created' = Created
    BY <1>4, DocsKeepDelivered DEF PostSettlement, Created
  <2> QED
    BY <2>1, <2>2, <2>3 DEF Book!Count, Delivered, Created
<1>5. ASSUME CountStep PROVE Book!Count
  <2>1. \A p \in frozen' \ frozen : p[1] \in Lots /\ source[p[1]] # "none"
    BY <1>5, CountableArePairs DEF CountStep, Lots
  <2>2. Delivered' = Delivered /\ Created' = Created /\ balance' = balance
    BY <1>5, DocsKeepDelivered DEF CountStep, stock, Created
  <2>3. \A l \in Lots, i \in Invs : balance[l][i] >= 0
    BY DEF TypeOK
  <2> QED
    BY <2>1, <2>2, <2>3 DEF Book!Count, Delivered, Created
<1>6. \A t \in Txs : ~ LockReturn(t) /\ ~ CommitReturn(t)
  BY <1>r DEF LockReturn, CommitReturn
<1>7. ASSUME \/ UNCHANGED vars
             \/ \E t \in Txs : Rollback(t) \/ EndAddTransaction(t)
             \/ \E t \in Txs, k \in ConsumeKinds, l \in Lots, i \in Invs,
                   q \in Quantities : BeginConsume(t, k, l, i, q)
             \/ \E t \in Txs, l \in Lots, i, j \in Invs, q \in Quantities :
                   BeginTransfer(t, l, i, j, q)
             \/ \E t \in Txs, d \in Docs, q \in Quantities : BeginReturn(t, d, q)
             \/ \E t \in Txs, k \in AggregateKinds, i \in Invs, q \in Quantities :
                   ReadAggregate(t, k, i, q)
      PROVE  UNCHANGED Book!bookVars
  BY <1>7, BookRests
  DEF vars, Rollback, EndAddTransaction, BeginConsume, BeginTransfer, BeginReturn,
      ReadAggregate, stock
<1>8. ASSUME NEW t \in Txs, Consumed(t) \/ CommitTransfer(t) PROVE Book!BookNext
  <2>1. /\ txs[t].lot \in Lots /\ txs[t].inv \in Invs /\ txs[t].qty \in Quantities
        /\ txs[t].kind = "transfer" => txs[t].to \in Invs
        /\ CommitTransfer(t) => txs[t].kind = "transfer"
    BY <1>8 DEF Consumed, CommitTransfer, TxShape, MovedAmounts
  <2> QED
    BY <1>2, <1>3, <1>8, <2>1 DEF Book!BookNext
<1>10. ASSUME NEW t \in Txs, NEW l \in Lots, EndDraftReceipt(t, l) PROVE Book!BookNext
  BY <1>9, <1>10 DEF Book!BookNext
<1>11. ASSUME NEW l \in Lots, NEW i \in Invs, NEW q \in Quantities,
              NEW s \in SourceTypes, ReceiveLot(l, i, q, s)
       PROVE  Book!BookNext
  BY <1>1, <1>11 DEF Book!BookNext
<1>12. Book!Count => Book!BookNext
  BY DEF Book!BookNext
<1>13. CASE UNCHANGED vars
  BY <1>7, <1>13
<1>14. CASE Next
  BY <1>4, <1>5, <1>6, <1>7, <1>8, <1>10, <1>11, <1>12, <1>14, NextCases
<1> QED
  BY <1>13, <1>14

(* Without recipient returns, transactions, locks and read views do not      *)
(* show: the lots behave as the book of lots, whose movements are atomic,    *)
(* for any number of them at once.                                           *)
THEOREM MovementsKeepBook ==
  ASSUME "recipient_return" \notin Kinds
  PROVE  Spec => ImplementsBook
<1> DEFINE IInv == TypeInv /\ LotInv /\ MovedAmounts
<1>1. Init => IInv
  BY InitTypeInv, InitRules DEF Init, MovedAmounts, Idle, ConsumeKinds
<1>2. IInv /\ [Next]_vars => IInv'
  BY NextTypeInv, NextLotInv, NextMovedAmounts
<1>3. IInv /\ IInv' /\ [Next]_vars => [Book!BookNext]_(Book!bookVars)
  BY "recipient_return" \notin Kinds, BookMoves
<1> QED
  BY <1>1, <1>2, <1>3, BookStarts, PTL DEF Spec, ImplementsBook, Book!BookSpec

==============================================================================
