---------------------------- MODULE InventoryCount ----------------------------
(* Periodic inventory counts, and the stock they freeze.                      *)
(*                                                                            *)
(* A count of one warehouse is opened by several statements that share no     *)
(* transaction: the operation's row, a read of the lot balances, the opening  *)
(* snapshots, then the count items one by one.  Clerks scan lots into it,     *)
(* record what they counted, and complete or delete it, each in a transaction *)
(* that locks the operation's row; a settlement posts its discrepancies.      *)
(* While a count holds a lot, movements out of it are refused.                *)
(*                                                                            *)
(* Every warehouse of this model has one inventory record.                    *)
EXTENDS Integers

CONSTANTS
  NumLots, NumInvs, NumDocs, Quantities, Diffs, MaxStock, Countable, Txs, Kinds,
  SnapshotAtBegin,    \* as in StockLedger
  Counts,             \* bound: the count operations
  Clerks,             \* who scans and completes
  Counted,            \* bound: the quantities a clerk may find
  Scopes,             \* subset of {"full", "manual"}
  Crashes,            \* may the server stop while it opens a count?
  QuietOpening        \* TRUE: stock and clerks rest while a count is being opened

VARIABLES
  quantity, balance, remaining, source, docs, txs,   \* as in StockLedger
  op,        \* inventory_count_operations
  opening,   \* how far createCountOperation is, and the rows it has read
  snap,      \* inventory_count_snapshots.systemQuantity by lot
  rows,      \* inventory_count_items by <<lot, copy>>: nothing makes a lot unique
  view       \* the items a clerk's transaction sees, when its view opened first

stock  == <<quantity, balance, remaining, source, docs, txs>>
counts == <<op, opening, snap, rows, view>>
vars   == <<stock, counts>>

Lots == 1..NumLots
Invs == 1..NumInvs

-----------------------------------------------------------------------------
NoRows == [r \in {} |-> 0]
NoCount == [status |-> "none", inv |-> 0, scope |-> "none", posted |-> FALSE]
Closed == [step |-> "closed", read |-> NoRows, left |-> {}]
NoView == [op |-> "none", rows |-> NoRows]
Uncounted == -1

LotsOf(table) == {r[1] : r \in DOMAIN table}
RowsOf(table, l) == {r \in DOMAIN table : r[1] = l}

(* Plausible bugs: the lot is frozen only after the final save; it is        *)
(* released by the final save.                                               *)
HoldsWhenCompleted(c, r) ==
  /\ r[1] \in DOMAIN snap[c]
  /\ op[c].status = "completed" /\ ~ op[c].posted
  /\ rows[c][r].counted \notin {Uncounted, rows[c][r].system}

HoldsWhileInProgress(c, r) ==
  r[1] \in DOMAIN snap[c] /\ op[c].status = "in_progress"

(* The pairs that assertInventoryLotMovementAllowedDuringCount refuses.      *)
Holds(c, r) ==
  /\ r[1] \in DOMAIN snap[c]
  /\ \/ op[c].status = "in_progress"
     \/ /\ op[c].status = "completed" /\ ~ op[c].posted
        /\ rows[c][r].counted \notin {Uncounted, rows[c][r].system}

FrozenPairs == UNION {{<<r[1], op[c].inv>> : r \in {x \in DOMAIN rows[c] : Holds(c, x)}}
                      : c \in Counts}

Ledger == INSTANCE StockLedger WITH frozen <- FrozenPairs

Init ==
  /\ op      = [c \in Counts |-> NoCount]
  /\ opening = [c \in Counts |-> Closed]
  /\ snap    = [c \in Counts |-> NoRows]
  /\ rows    = [c \in Counts |-> NoRows]
  /\ view    = [k \in Clerks |-> NoView]
  /\ Ledger!Init

BeingOpened(c) == opening[c].step # "closed"
Rested == QuietOpening => \A c \in Counts : ~ BeingOpened(c)

-----------------------------------------------------------------------------
(* createCountOperation, statement by statement.                             *)
InsertOperation(c, i, scope) ==
  /\ op[c] = NoCount
  /\ QuietOpening => \A t \in Txs : txs[t].kind = "none"
  /\ op' = [op EXCEPT ![c] = [status |-> "in_progress", inv |-> i, scope |-> scope,
                              posted |-> FALSE]]
  /\ opening' = [opening EXCEPT ![c] = [Closed EXCEPT !.step = "read"]]
  /\ UNCHANGED <<stock, snap, rows, view>>

(* Every balance row is read.  A lot that was used up has a row of zero; the *)
(* stock does not tell it from a lot that never was here, so either is read. *)
ReadOpenings(c) ==
  LET i == op[c].inv
      positive == {l \in Lots : balance[l][i] > 0}
      known == {l \in Lots : source[l] # "none"}
  IN
  /\ opening[c].step = "read"
  /\ \E read \in {positive \cup zero : zero \in SUBSET (known \ positive)} :
        opening' = [opening EXCEPT ![c] =
          [step |-> "snapshot", read |-> [l \in read |-> balance[l][i]], left |-> {}]]
  /\ UNCHANGED <<stock, op, snap, rows, view>>

Positive(table) == {l \in DOMAIN table : table[l] > 0}

(* A manual count starts without items.                                      *)
InsertSnapshots(c) ==
  LET read == opening[c].read IN
  /\ opening[c].step = "snapshot"
  /\ snap' = [snap EXCEPT ![c] = read]
  /\ opening' = [opening EXCEPT ![c] =
        IF op[c].scope = "manual" THEN Closed
        ELSE [step |-> "items", read |-> read, left |-> Positive(read)]]
  /\ UNCHANGED <<stock, op, rows, view>>

(* A full count that found nothing in the warehouse is withdrawn.            *)
WithdrawEmpty(c) ==
  /\ opening[c].step = "items" /\ Positive(opening[c].read) = {}
  /\ op' = [op EXCEPT ![c].status = "deleted"]
  /\ snap' = [snap EXCEPT ![c] = NoRows]
  /\ opening' = [opening EXCEPT ![c] = Closed]
  /\ UNCHANGED <<stock, rows, view>>

WithRow(table, l, system) ==
  LET r == <<l, 1 + (IF <<l, 1>> \in DOMAIN table THEN 1 ELSE 0)>> IN
  [x \in DOMAIN table \cup {r} |->
     IF x = r THEN [system |-> system, counted |-> Uncounted] ELSE table[x]]

(* A plausible bug: the loop over the count targets ends after the first.    *)
InsertFirstItem(c, l) ==
  /\ opening[c].step = "items" /\ l \in opening[c].left
  /\ rows' = [rows EXCEPT ![c] = WithRow(@, l, opening[c].read[l])]
  /\ opening' = [opening EXCEPT ![c] = Closed]
  /\ UNCHANGED <<stock, op, snap, view>>

(* It neither locks the operation nor looks at its status again.             *)
InsertItem(c, l) ==
  /\ opening[c].step = "items" /\ l \in opening[c].left
  /\ <<l, 2>> \notin DOMAIN rows[c]     \* bound: two rows of a lot
  /\ rows' = [rows EXCEPT ![c] = WithRow(@, l, opening[c].read[l])]
  /\ opening' = [opening EXCEPT ![c] =
        IF opening[c].left = {l} THEN Closed
        ELSE [step |-> "items", read |-> opening[c].read, left |-> opening[c].left \ {l}]]
  /\ UNCHANGED <<stock, op, snap, view>>

(* The server stops; the rows written so far remain.                         *)
Crash(c) ==
  /\ Crashes /\ BeingOpened(c)
  /\ opening' = [opening EXCEPT ![c] = Closed]
  /\ UNCHANGED <<stock, op, snap, rows, view>>

-----------------------------------------------------------------------------
(* withLockedMutableCount: the transaction opens, waits for the lock on the  *)
(* operation and finds it in progress.  With a view opened at BEGIN the      *)
(* items it reads are those of that moment.                                  *)
BeginRequest(k, c) ==
  /\ SnapshotAtBegin /\ Rested
  /\ view[k] = NoView /\ op[c].status = "in_progress"
  /\ view' = [view EXCEPT ![k] = [op |-> c, rows |-> rows[c]]]
  /\ UNCHANGED <<stock, op, opening, snap, rows>>

Mutable(k, c) ==
  /\ op[c].status = "in_progress" /\ Rested
  /\ SnapshotAtBegin => view[k].op = c
  /\ view' = [view EXCEPT ![k] = NoView]

Seen(k, c) == IF SnapshotAtBegin THEN view[k].rows ELSE rows[c]

(* scanCountLot: the lot must be in the opening snapshot, and gets a row     *)
(* with the quantity of the snapshot unless it is seen to have one.          *)
ScanLot(k, c, l) ==
  /\ Mutable(k, c)
  /\ l \in DOMAIN snap[c]
  /\ RowsOf(Seen(k, c), l) = {}
  /\ <<l, 2>> \notin DOMAIN rows[c]     \* bound: two rows of a lot
  /\ rows' = [rows EXCEPT ![c] = WithRow(@, l, snap[c][l])]
  /\ UNCHANGED <<stock, op, opening, snap>>

(* Plausible bugs: the final save is not looked at; the difference is stored *)
(* in place of the quantity.                                                 *)
RecordItemAnyTime(c, r, n) ==
  /\ r \in DOMAIN rows[c] /\ Rested
  /\ rows' = [rows EXCEPT ![c][r].counted = n]
  /\ UNCHANGED <<stock, op, opening, snap, view>>

RecordDifference(c, r, n) ==
  /\ op[c].status = "in_progress" /\ Rested
  /\ r \in DOMAIN rows[c]
  /\ rows' = [rows EXCEPT ![c][r].counted = n - rows[c][r].system]
  /\ UNCHANGED <<stock, op, opening, snap, view>>

(* recordCountItem locks and re-reads the row; a row may be counted again.   *)
RecordItem(c, r, n) ==
  /\ op[c].status = "in_progress" /\ Rested
  /\ r \in DOMAIN rows[c]
  /\ rows' = [rows EXCEPT ![c][r].counted = n]
  /\ UNCHANGED <<stock, op, opening, snap, view>>

(* A plausible bug: only the lots already counted are looked at.             *)
CompletePartCounted(k, c) ==
  /\ Mutable(k, c)
  /\ \E r \in DOMAIN Seen(k, c) : Seen(k, c)[r].counted # Uncounted
  /\ op' = [op EXCEPT ![c].status = "completed"]
  /\ UNCHANGED <<stock, opening, snap, rows>>

CompleteCount(k, c) ==
  /\ Mutable(k, c)
  /\ DOMAIN Seen(k, c) # {}
  /\ \A r \in DOMAIN Seen(k, c) : Seen(k, c)[r].counted # Uncounted
  /\ op' = [op EXCEPT ![c].status = "completed"]
  /\ UNCHANGED <<stock, opening, snap, rows>>

(* What createCountOperation still inserts joins with no operation.          *)
DeleteCount(c) ==
  /\ op[c].status = "in_progress" /\ Rested
  /\ op' = [op EXCEPT ![c].status = "deleted"]
  /\ opening' = [opening EXCEPT ![c] = Closed]
  /\ snap' = [snap EXCEPT ![c] = NoRows]
  /\ rows' = [rows EXCEPT ![c] = NoRows]
  /\ UNCHANGED <<stock, view>>

(* applySettlement from a count: the operation is locked and completed, no   *)
(* settlement of it is applied; each discrepancy has one row and is posted   *)
(* as a difference on the current balance, all of them or none.              *)
Discrepant(c) == {r \in DOMAIN rows[c] :
                    rows[c][r].counted \notin {Uncounted, rows[c][r].system}}
DifferenceReversed(c, l) == rows[c][<<l, 1>>].system - rows[c][<<l, 1>>].counted
Difference(c, l) == rows[c][<<l, 1>>].counted - rows[c][<<l, 1>>].system
Posting(c) ==
  [p \in FrozenPairs |->
     IF p[2] = op[c].inv /\ <<p[1], 1>> \in Discrepant(c) THEN Difference(c, p[1]) ELSE 0]
SingleRows(c) == \A r \in Discrepant(c) : RowsOf(rows[c], r[1]) = {<<r[1], 1>>}

(* A plausible bug: the balances are settled and the lot and the aggregate   *)
(* are left as they were.                                                    *)
ApplyToBalancesOnly(c) ==
  LET d(l, i) == IF i = op[c].inv /\ <<l, 1>> \in Discrepant(c)
                 THEN Difference(c, l) ELSE 0
  IN
  /\ op[c].status = "completed" /\ ~ op[c].posted
  /\ Discrepant(c) # {} /\ SingleRows(c)
  /\ op' = [op EXCEPT ![c].posted = TRUE]
  /\ balance' = [l \in Lots |-> [i \in Invs |-> balance[l][i] + d(l, i)]]
  /\ UNCHANGED <<quantity, remaining, source, docs, txs, opening, snap, rows, view>>

ApplySettlement(c) ==
  /\ op[c].status = "completed" /\ ~ op[c].posted
  /\ Discrepant(c) # {} /\ SingleRows(c)
  /\ op' = [op EXCEPT ![c].posted = TRUE]
  /\ UNCHANGED <<opening, snap, rows, view>>
  /\ Ledger!PostSettlement(Posting(c))

(* The movements of StockLedger, refused on what the counts hold; without    *)
(* those that write the aggregate from a plain read (its AggregateKinds).    *)
MoveStock ==
  /\ Rested
  /\ UNCHANGED counts
  /\ \/ \E l \in Lots, i \in Invs, q \in Quantities :
           Ledger!Receive(l, i, q) \/ Ledger!OpenBalance(l, i, q)
     \/ \E t \in Txs, k \in Ledger!ConsumeKinds, l \in Lots, i \in Invs,
           q \in Quantities : Ledger!BeginConsume(t, k, l, i, q)
     \/ \E t \in Txs, l \in Lots, i, j \in Invs, q \in Quantities :
           Ledger!BeginTransfer(t, l, i, j, q)
     \/ \E t \in Txs, d \in Ledger!Docs, q \in Quantities : Ledger!BeginReturn(t, d, q)
     \/ \E t \in Txs : \/ Ledger!Issue(t) \/ Ledger!ReturnToSupplier(t)
                       \/ Ledger!Dispose(t) \/ Ledger!CommitTransfer(t)
                       \/ Ledger!LockReturn(t) \/ Ledger!CommitReturn(t)
                       \/ Ledger!Rollback(t)

Next ==
  \/ \E c \in Counts, i \in Invs, scope \in Scopes : InsertOperation(c, i, scope)
  \/ \E c \in Counts : ReadOpenings(c) \/ InsertSnapshots(c) \/ WithdrawEmpty(c) \/ Crash(c)
  \/ \E c \in Counts, l \in Lots : InsertItem(c, l)
  \/ \E k \in Clerks, c \in Counts : BeginRequest(k, c) \/ CompleteCount(k, c)
  \/ \E k \in Clerks, c \in Counts, l \in Lots : ScanLot(k, c, l)
  \/ \E c \in Counts : \E r \in DOMAIN rows[c], n \in Counted : RecordItem(c, r, n)
  \/ \E c \in Counts : DeleteCount(c) \/ ApplySettlement(c)
  \/ MoveStock

Spec == Init /\ [][Next]_vars

-----------------------------------------------------------------------------
IsTable(f, S, T) == DOMAIN f \subseteq S /\ \A x \in DOMAIN f : f[x] \in T

IsItems(f) == IsTable(f, Lots \X {1, 2}, [system : Nat, counted : Nat \cup {Uncounted}])

(* Every count and its rows have the shape of their tables.                  *)
TypeOK ==
  /\ op \in [Counts -> [status : {"none", "in_progress", "completed", "deleted"},
                        inv : Invs \cup {0}, scope : Scopes \cup {"none"},
                        posted : BOOLEAN]]
  /\ \A c \in Counts :
        /\ IsTable(snap[c], Lots, Nat) /\ IsItems(rows[c])
        /\ opening[c].step \in {"closed", "read", "snapshot", "items"}
        /\ IsTable(opening[c].read, Lots, Nat) /\ opening[c].left \subseteq Lots
  /\ \A k \in Clerks : view[k].op \in Counts \cup {"none"} /\ IsItems(view[k].rows)

(* The rows a full count was opened with.                                    *)
Targets(c) == {r \in DOMAIN rows[c] : op[c].scope = "full" /\ rows[c][r].system > 0}

Stable(c, r) == balance[r[1]][op[c].inv] = rows[c][r].system

(* The count has a stable reference: as long as it is in progress, each lot  *)
(* it was opened with has the balance that was read then.                    *)
TargetsStable ==
  \A c \in Counts : op[c].status = "in_progress" => \A r \in Targets(c) : Stable(c, r)

(* A count that has been saved is never edited: neither its rows nor its     *)
(* snapshot change any more, whoever was still writing to it.                *)
FinalCountImmutable ==
  [][\A c \in Counts : op[c].status = "completed" =>
        rows'[c] = rows[c] /\ snap'[c] = snap[c] /\ op'[c].status = "completed"]_vars

(* A count cannot be saved while one of its lots has not been counted.       *)
FullyCounted ==
  \A c \in Counts : op[c].status = "completed" =>
    \A r \in DOMAIN rows[c] : rows[c][r].counted # Uncounted

(* Once saved, a discrepancy keeps its lot frozen until its settlement is    *)
(* posted or its opening withdraws the count, whatever else writes to the    *)
(* count or to the stock.                                                    *)
DiscrepancyStaysFrozen ==
  [][\A c \in Counts : op[c].status = "completed" /\ ~ op[c].posted =>
        \/ op'[c].posted \/ op'[c].status = "deleted"
        \/ \A r \in Discrepant(c) : <<r[1], op[c].inv>> \in FrozenPairs']_vars

(* A saved full count covers every lot that its opening found in stock.      *)
FullCoverage ==
  \A c \in Counts : op[c].status = "completed" /\ op[c].scope = "full" =>
    Positive(snap[c]) \subseteq LotsOf(rows[c])

(* What a settlement is for: the balance of a lot the count was opened with  *)
(* becomes what was counted of it.                                           *)
PostingReachesCount ==
  [][\A c \in Counts : ~ op[c].posted /\ op'[c].posted =>
        \A r \in Discrepant(c) \cap Targets(c) :
           balance'[r[1]][op[c].inv] = rows[c][r].counted]_vars

(* A saved count with discrepancies can always be settled: otherwise its     *)
(* lots would stay frozen for ever, since nothing else releases them.        *)
UnsettledIsPostable ==
  \A c \in Counts : op[c].status = "completed" /\ ~ op[c].posted =>
    /\ SingleRows(c)
    /\ \A r \in Discrepant(c) :
          /\ Ledger!LotAgrees(r[1]) /\ Ledger!InventoryAgrees(op[c].inv)
          /\ balance[r[1]][op[c].inv] + Difference(c, r[1]) >= 0

(* Counting never touches stock; settling one moves exactly the differences  *)
(* of pairs the count holds: the two together behave as the stock ledger.    *)
ImplementsLedger == Ledger!Spec
==============================================================================
