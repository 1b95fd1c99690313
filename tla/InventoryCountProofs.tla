------------------------ MODULE InventoryCountProofs ------------------------
(* Theorems about counts, for any counts, clerks, lots and warehouses.  The   *)
(* first of them hold whatever the stock does, so its movements stay folded;  *)
(* the last ones are about counts and stock together.                         *)
EXTENDS InventoryCount, TLAPS

(* The tables of the counts.                                                 *)
OpRow == [status : {"none", "in_progress", "completed", "deleted"},
          inv : Invs \cup {0}, scope : Scopes \cup {"none"}, posted : BOOLEAN]

Shape ==
  /\ op \in [Counts -> OpRow]
  /\ DOMAIN opening = Counts /\ DOMAIN snap = Counts /\ DOMAIN rows = Counts
  /\ \A c \in Counts :
        /\ opening[c].step \in {"closed", "read", "snapshot", "items"}
        /\ opening[c] = [step |-> opening[c].step, read |-> opening[c].read,
                         left |-> opening[c].left]

(* Before the snapshots are inserted a count has no rows; while its items    *)
(* are, what is left of them comes from the snapshot; and until it is        *)
(* deleted every row belongs to a lot of the snapshot.                       *)
Linked(c) ==
  /\ op[c].status = "none" => opening[c].step = "closed"
  /\ op[c].status = "deleted" => opening[c].step = "closed"
  /\ op[c].status = "none" \/ opening[c].step \in {"read", "snapshot"}
       => DOMAIN snap[c] = {} /\ DOMAIN rows[c] = {}
  /\ opening[c].step = "items" =>
       snap[c] = opening[c].read /\ opening[c].left \subseteq Positive(snap[c])
  /\ op[c].status # "deleted" => LotsOf(rows[c]) \subseteq DOMAIN snap[c]

CountInv == Shape /\ \A c \in Counts : Linked(c)

(* A step that writes to one count only.                                     *)
Only(c) ==
  \A d \in Counts \ {c} : /\ op'[d] = op[d] /\ opening'[d] = opening[d]
                          /\ snap'[d] = snap[d] /\ rows'[d] = rows[d]

-----------------------------------------------------------------------------
LEMMA EmptyTables == DOMAIN NoRows = {} /\ Closed.step = "closed"
  /\ Closed = [step |-> Closed.step, read |-> Closed.read, left |-> Closed.left]
BY DEF NoRows, Closed

(* A new row is added to a table, and leaves the others alone.               *)
LEMMA RowAdded ==
  ASSUME NEW table, NEW l, NEW system, <<l, 2>> \notin DOMAIN table
  PROVE  LET added == WithRow(table, l, system) IN
         /\ LotsOf(added) = LotsOf(table) \cup {l}
         /\ DOMAIN table \subseteq DOMAIN added
         /\ \A r \in DOMAIN table : added[r] = table[r]
<1> DEFINE r == <<l, 1 + (IF <<l, 1>> \in DOMAIN table THEN 1 ELSE 0)>>
<1> DEFINE added == WithRow(table, l, system)
<1>1. r \notin DOMAIN table /\ r[1] = l
  BY 1 + 1 = 2, 1 + 0 = 1
<1>2. DOMAIN added = DOMAIN table \cup {r}
  BY DEF WithRow
<1>3. \A x \in DOMAIN table : added[x] = table[x]
  BY <1>1, <1>2 DEF WithRow
<1>4. LotsOf(added) = LotsOf(table) \cup {l}
  BY <1>1, <1>2 DEF LotsOf
<1> QED
  BY <1>2, <1>3, <1>4

LEMMA OtherCounts ==
  ASSUME CountInv, NEW c \in Counts, Only(c), Linked(c)'
  PROVE  \A d \in Counts : Linked(d)'
BY DEF CountInv, Only, Linked, LotsOf, Positive

LEMMA FirstState == Init => CountInv
<1> SUFFICES ASSUME Init PROVE CountInv
  OBVIOUS
<1>1. NoCount \in OpRow
  BY DEF NoCount, OpRow
<1>2. Shape
  BY <1>1, EmptyTables DEF Init, Shape
<1>3. \A c \in Counts : Linked(c)
  BY EmptyTables DEF Init, Linked, LotsOf, NoCount
<1> QED
  BY <1>2, <1>3 DEF CountInv

-----------------------------------------------------------------------------
(* The opening of a count.                                                   *)
LEMMA InsertOperationKeeps ==
  ASSUME CountInv, NEW c \in Counts, NEW i \in Invs, NEW scope \in Scopes,
         InsertOperation(c, i, scope)
  PROVE  CountInv' /\ Only(c)
<1> DEFINE new == [status |-> "in_progress", inv |-> i, scope |-> scope, posted |-> FALSE]
<1> DEFINE start == [Closed EXCEPT !.step = "read"]
<1>1. new \in OpRow
  BY DEF OpRow
<1>2. /\ op' = [op EXCEPT ![c] = new] /\ opening' = [opening EXCEPT ![c] = start]
      /\ snap' = snap /\ rows' = rows /\ op[c].status = "none"
  BY DEF InsertOperation, NoCount
<1>3. /\ start.step = "read"
      /\ start = [step |-> start.step, read |-> start.read, left |-> start.left]
  BY DEF Closed
<1>4. Shape'
  BY <1>1, <1>2, <1>3 DEF CountInv, Shape
<1>5. Only(c)
  BY <1>2 DEF Only, CountInv, Shape
<1>6. Linked(c)'
  BY <1>2, <1>3 DEF CountInv, Shape, Linked, LotsOf
<1> QED
  BY <1>4, <1>5, <1>6, OtherCounts DEF CountInv

LEMMA ReadOpeningsKeeps ==
  ASSUME CountInv, NEW c \in Counts, ReadOpenings(c)
  PROVE  CountInv' /\ Only(c) /\ UNCHANGED <<op, snap, rows>>
<1>1. PICK read : opening' = [opening EXCEPT ![c] =
                    [step |-> "snapshot", read |-> read, left |-> {}]]
  BY DEF ReadOpenings
<1> DEFINE start == [step |-> "snapshot", read |-> read, left |-> {}]
<1>2. op' = op /\ snap' = snap /\ rows' = rows /\ opening[c].step = "read"
  BY DEF ReadOpenings
<1>3. start.step = "snapshot"
      /\ start = [step |-> start.step, read |-> start.read, left |-> start.left]
  OBVIOUS
<1>4. Shape'
  BY <1>1, <1>2, <1>3 DEF CountInv, Shape
<1>5. Only(c)
  BY <1>1, <1>2 DEF Only, CountInv, Shape
<1>6. opening'[c] = start
  BY <1>1 DEF CountInv, Shape
<1>7. Linked(c)'
  BY <1>2, <1>3, <1>6 DEF CountInv, Shape, Linked, LotsOf
<1> QED
  BY <1>2, <1>4, <1>5, <1>7, OtherCounts DEF CountInv

LEMMA InsertSnapshotsKeeps ==
  ASSUME CountInv, NEW c \in Counts, InsertSnapshots(c)
  PROVE  CountInv' /\ Only(c)
<1> DEFINE next == IF op[c].scope = "manual" THEN Closed
                   ELSE [step |-> "items", read |-> opening[c].read,
                         left |-> Positive(opening[c].read)]
<1>1. /\ op' = op /\ rows' = rows /\ opening[c].step = "snapshot"
      /\ snap' = [snap EXCEPT ![c] = opening[c].read]
      /\ opening' = [opening EXCEPT ![c] = next]
  BY DEF InsertSnapshots
<1>2. /\ next.step \in {"closed", "items"}
      /\ next = [step |-> next.step, read |-> next.read, left |-> next.left]
      /\ next.step = "items" => next.read = opening[c].read
                                /\ next.left = Positive(opening[c].read)
  BY EmptyTables
<1>3. Shape'
  BY <1>1, <1>2 DEF CountInv, Shape
<1>4. Only(c)
  BY <1>1 DEF Only, CountInv, Shape
<1>5. opening'[c] = next /\ snap'[c] = opening[c].read /\ DOMAIN rows[c] = {}
      /\ op[c].status \notin {"none", "deleted"}
  BY <1>1 DEF CountInv, Shape, Linked
<1>6. Linked(c)'
  BY <1>1, <1>2, <1>5 DEF Linked, LotsOf
<1> QED
  BY <1>3, <1>4, <1>6, OtherCounts DEF CountInv

LEMMA WithdrawEmptyKeeps ==
  ASSUME CountInv, NEW c \in Counts, WithdrawEmpty(c)
  PROVE  CountInv' /\ Only(c) /\ op'[c].status = "deleted"
<1>1. /\ op' = [op EXCEPT ![c].status = "deleted"] /\ rows' = rows
      /\ snap' = [snap EXCEPT ![c] = NoRows] /\ opening' = [opening EXCEPT ![c] = Closed]
  BY DEF WithdrawEmpty
<1>2. Shape'
  BY <1>1, EmptyTables DEF CountInv, Shape, OpRow
<1>3. Only(c)
  BY <1>1 DEF Only, CountInv, Shape
<1>4. op'[c].status = "deleted" /\ opening'[c].step = "closed"
  BY <1>1, EmptyTables DEF CountInv, Shape, OpRow
<1>5. Linked(c)'
  BY <1>4 DEF Linked
<1> QED
  BY <1>2, <1>3, <1>4, <1>5, OtherCounts DEF CountInv

LEMMA InsertItemKeeps ==
  ASSUME CountInv, NEW c \in Counts, NEW l \in Lots, InsertItem(c, l)
  PROVE  CountInv' /\ Only(c)
<1> DEFINE next == IF opening[c].left = {l} THEN Closed
                   ELSE [step |-> "items", read |-> opening[c].read,
                         left |-> opening[c].left \ {l}]
<1>1. /\ op' = op /\ snap' = snap
      /\ opening[c].step = "items" /\ l \in opening[c].left
      /\ rows' = [rows EXCEPT ![c] = WithRow(rows[c], l, opening[c].read[l])]
      /\ opening' = [opening EXCEPT ![c] = next]
      /\ <<l, 2>> \notin DOMAIN rows[c]
  BY DEF InsertItem
<1>2. /\ next.step \in {"closed", "items"}
      /\ next = [step |-> next.step, read |-> next.read, left |-> next.left]
      /\ next.step = "items" => next.read = opening[c].read
                                /\ next.left \subseteq opening[c].left
  BY EmptyTables
<1>3. Shape'
  BY <1>1, <1>2 DEF CountInv, Shape
<1>4. Only(c)
  BY <1>1 DEF Only, CountInv, Shape
<1>5. LotsOf(rows'[c]) = LotsOf(rows[c]) \cup {l}
  BY <1>1, RowAdded DEF CountInv, Shape
<1>6. l \in DOMAIN snap[c] /\ op[c].status \notin {"none", "deleted"}
      /\ opening'[c] = next
  BY <1>1 DEF CountInv, Shape, Linked, Positive
<1>7. Linked(c)'
  BY <1>1, <1>2, <1>5, <1>6 DEF CountInv, Linked, LotsOf
<1> QED
  BY <1>3, <1>4, <1>7, OtherCounts DEF CountInv

LEMMA CrashKeeps ==
  ASSUME CountInv, NEW c \in Counts, Crash(c)
  PROVE  CountInv' /\ Only(c) /\ UNCHANGED <<op, snap, rows>>
<1>1. /\ op' = op /\ snap' = snap /\ rows' = rows
      /\ opening' = [opening EXCEPT ![c] = Closed] /\ opening[c].step # "closed"
  BY DEF Crash, BeingOpened
<1>2. Shape'
  BY <1>1, EmptyTables DEF CountInv, Shape
<1>3. Only(c)
  BY <1>1 DEF Only, CountInv, Shape
<1>4. Linked(c)'
  BY <1>1, EmptyTables DEF CountInv, Shape, Linked, LotsOf
<1> QED
  BY <1>1, <1>2, <1>3, <1>4, OtherCounts DEF CountInv

-----------------------------------------------------------------------------
(* The requests of clerks.                                                   *)
LEMMA ScanLotKeeps ==
  ASSUME CountInv, NEW k \in Clerks, NEW c \in Counts, NEW l \in Lots, ScanLot(k, c, l)
  PROVE  CountInv' /\ Only(c)
<1>1. /\ op' = op /\ snap' = snap /\ opening' = opening /\ l \in DOMAIN snap[c]
      /\ op[c].status = "in_progress" /\ <<l, 2>> \notin DOMAIN rows[c]
      /\ rows' = [rows EXCEPT ![c] = WithRow(rows[c], l, snap[c][l])]
  BY DEF ScanLot, Mutable
<1>2. Shape'
  BY <1>1 DEF CountInv, Shape
<1>3. Only(c)
  BY <1>1 DEF Only, CountInv, Shape
<1>4. LotsOf(rows'[c]) = LotsOf(rows[c]) \cup {l}
  BY <1>1, RowAdded DEF CountInv, Shape
<1>5. opening[c].step \notin {"read", "snapshot"}
  BY <1>1 DEF CountInv, Linked
<1>6. Linked(c)'
  BY <1>1, <1>4, <1>5 DEF CountInv, Linked, LotsOf, Positive
<1> QED
  BY <1>2, <1>3, <1>6, OtherCounts DEF CountInv

LEMMA RecordItemKeeps ==
  ASSUME CountInv, NEW c \in Counts, NEW r \in DOMAIN rows[c], NEW n \in Counted,
         RecordItem(c, r, n)
  PROVE  CountInv' /\ Only(c) /\ DOMAIN rows'[c] = DOMAIN rows[c]
<1>1. /\ op' = op /\ snap' = snap /\ opening' = opening
      /\ rows' = [rows EXCEPT ![c][r].counted = n]
  BY DEF RecordItem
<1>2. DOMAIN rows' = Counts /\ DOMAIN rows'[c] = DOMAIN rows[c]
  BY <1>1 DEF CountInv, Shape
<1>3. Shape'
  BY <1>1, <1>2 DEF CountInv, Shape
<1>4. Only(c)
  BY <1>1 DEF Only, CountInv, Shape
<1>5. Linked(c)'
  BY <1>1, <1>2 DEF CountInv, Linked, LotsOf, Positive
<1> QED
  BY <1>2, <1>3, <1>4, <1>5, OtherCounts DEF CountInv

(* The final save and the posting change the operation's row only.           *)
LEMMA StatusKeeps ==
  ASSUME CountInv, NEW c \in Counts, UNCHANGED <<opening, snap, rows>>,
         \/ op[c].status = "in_progress" /\ op' = [op EXCEPT ![c].status = "completed"]
         \/ op' = [op EXCEPT ![c].posted = TRUE]
  PROVE  CountInv' /\ Only(c) /\ op'[c].scope = op[c].scope
         /\ op'[c].status \in {op[c].status, "completed"}
<1>1. /\ op' \in [Counts -> OpRow]
      /\ op'[c].scope = op[c].scope /\ op'[c].status \in {op[c].status, "completed"}
      /\ op'[c].status = op[c].status \/ op[c].status = "in_progress"
  <2>1. op \in [Counts -> OpRow] /\ op[c] \in OpRow
    BY DEF CountInv, Shape
  <2>2. CASE op[c].status = "in_progress" /\ op' = [op EXCEPT ![c].status = "completed"]
    BY <2>1, <2>2 DEF OpRow
  <2>3. CASE op' = [op EXCEPT ![c].posted = TRUE]
    BY <2>1, <2>3 DEF OpRow
  <2> QED
    BY <2>2, <2>3
<1>2. Shape'
  BY <1>1 DEF CountInv, Shape
<1>3. Only(c)
  BY DEF Only, CountInv, Shape
<1>4. Linked(c)'
  BY <1>1 DEF CountInv, Linked, LotsOf, Positive
<1> QED
  BY <1>1, <1>2, <1>3, <1>4, OtherCounts DEF CountInv

LEMMA DeleteCountKeeps ==
  ASSUME CountInv, NEW c \in Counts, DeleteCount(c)
  PROVE  CountInv' /\ Only(c) /\ op[c].status = "in_progress" /\ op'[c].status = "deleted"
<1>1. /\ op' = [op EXCEPT ![c].status = "deleted"] /\ rows' = [rows EXCEPT ![c] = NoRows]
      /\ snap' = [snap EXCEPT ![c] = NoRows] /\ opening' = [opening EXCEPT ![c] = Closed]
      /\ op[c].status = "in_progress"
  BY DEF DeleteCount
<1>2. Shape'
  BY <1>1, EmptyTables DEF CountInv, Shape, OpRow
<1>3. Only(c)
  BY <1>1 DEF Only, CountInv, Shape
<1>4. op'[c].status = "deleted" /\ opening'[c].step = "closed"
  BY <1>1, EmptyTables DEF CountInv, Shape, OpRow
<1>5. Linked(c)'
  BY <1>4 DEF Linked
<1> QED
  BY <1>1, <1>2, <1>3, <1>4, <1>5, OtherCounts DEF CountInv

LEMMA UntouchedKeeps ==
  ASSUME CountInv, UNCHANGED <<op, opening, snap, rows>>
  PROVE  CountInv'
BY DEF CountInv, Shape, Linked, LotsOf, Positive

-----------------------------------------------------------------------------
(* What a step does to the counts: it opens, serves or settles one of them,  *)
(* or leaves their tables alone.                                             *)
LEMMA StepCases ==
  ASSUME [Next]_vars
  PROVE  \/ \E c \in Counts, i \in Invs, scope \in Scopes : InsertOperation(c, i, scope)
         \/ \E c \in Counts : ReadOpenings(c)
         \/ \E c \in Counts : InsertSnapshots(c)
         \/ \E c \in Counts : WithdrawEmpty(c)
         \/ \E c \in Counts : Crash(c)
         \/ \E c \in Counts, l \in Lots : InsertItem(c, l)
         \/ \E k \in Clerks, c \in Counts, l \in Lots : ScanLot(k, c, l)
         \/ \E c \in Counts : \E r \in DOMAIN rows[c], n \in Counted : RecordItem(c, r, n)
         \/ \E k \in Clerks, c \in Counts : CompleteCount(k, c)
         \/ \E c \in Counts : DeleteCount(c)
         \/ \E c \in Counts : ApplySettlement(c)
         \/ UNCHANGED <<op, opening, snap, rows>>
<1>1. CASE MoveStock
  BY <1>1 DEF MoveStock, counts
<1>2. CASE UNCHANGED vars
  BY <1>2 DEF vars, counts
<1>3. ASSUME NEW k \in Clerks, NEW c \in Counts, BeginRequest(k, c)
      PROVE  UNCHANGED <<op, opening, snap, rows>>
  BY <1>3 DEF BeginRequest
<1> QED
  BY <1>1, <1>2, <1>3 DEF Next

LEMMA StepKeeps ==
  ASSUME CountInv, [Next]_vars
  PROVE  CountInv'
<1>1. ASSUME NEW k \in Clerks, NEW c \in Counts, CompleteCount(k, c)
      PROVE  CountInv'
  BY <1>1, StatusKeeps DEF CompleteCount, Mutable
<1>2. ASSUME NEW c \in Counts, ApplySettlement(c)
      PROVE  CountInv'
  BY <1>2, StatusKeeps DEF ApplySettlement
<1> QED
  BY <1>1, <1>2, StepCases, InsertOperationKeeps, ReadOpeningsKeeps, InsertSnapshotsKeeps,
     WithdrawEmptyKeeps, CrashKeeps, InsertItemKeeps, ScanLotKeeps, RecordItemKeeps,
     DeleteCountKeeps, UntouchedKeeps

LEMMA CountsLinked == Spec => []CountInv
BY FirstState, StepKeeps, PTL DEF Spec

-----------------------------------------------------------------------------
(* A saved discrepancy.                                                      *)
RowsStay(c) == /\ op'[c] = op[c] /\ DOMAIN rows[c] \subseteq DOMAIN rows'[c]
               /\ \A r \in DOMAIN rows[c] : rows'[c][r] = rows[c][r]

LEMMA OnlyStays ==
  ASSUME NEW c \in Counts, NEW d \in Counts \ {c}, Only(d)
  PROVE  RowsStay(c) /\ snap'[c] = snap[c]
BY DEF Only, RowsStay

LEMMA SavedRowsStay ==
  ASSUME CountInv, [Next]_vars, NEW c \in Counts, op[c].status = "completed"
  PROVE  op'[c].posted \/ op'[c].status = "deleted" \/ RowsStay(c)
<1> DEFINE Goal == op'[c].posted \/ op'[c].status = "deleted" \/ RowsStay(c)
<1>1. ASSUME NEW d \in Counts, NEW i \in Invs, NEW scope \in Scopes,
             InsertOperation(d, i, scope)
      PROVE  Goal
  <2>1. c # d
    BY <1>1 DEF InsertOperation, NoCount
  <2> QED
    BY <1>1, <2>1, InsertOperationKeeps, OnlyStays
<1>2. ASSUME NEW d \in Counts, InsertSnapshots(d) \/ ReadOpenings(d) \/ Crash(d)
      PROVE  Goal
  BY <1>2 DEF InsertSnapshots, ReadOpenings, Crash, RowsStay
<1>3. ASSUME NEW d \in Counts, WithdrawEmpty(d) \/ DeleteCount(d)
      PROVE  Goal
  BY <1>3, WithdrawEmptyKeeps, DeleteCountKeeps, OnlyStays
<1>4. ASSUME NEW d \in Counts, NEW l \in Lots, InsertItem(d, l)
      PROVE  Goal
  <2>1. CASE d = c
    <3>1. /\ op' = op /\ <<l, 2>> \notin DOMAIN rows[c]
          /\ rows' = [rows EXCEPT ![c] = WithRow(rows[c], l, opening[c].read[l])]
      BY <1>4, <2>1 DEF InsertItem
    <3> QED
      BY <3>1, RowAdded DEF RowsStay, CountInv, Shape
  <2> QED
    BY <1>4, <2>1, InsertItemKeeps, OnlyStays
<1>5. ASSUME NEW k \in Clerks, NEW d \in Counts, NEW l \in Lots, ScanLot(k, d, l)
      PROVE  Goal
  BY <1>5, ScanLotKeeps, OnlyStays DEF ScanLot, Mutable
<1>6. ASSUME NEW d \in Counts, NEW r \in DOMAIN rows[d], NEW n \in Counted,
             RecordItem(d, r, n)
      PROVE  Goal
  BY <1>6, RecordItemKeeps, OnlyStays DEF RecordItem
<1>7. ASSUME NEW k \in Clerks, NEW d \in Counts, CompleteCount(k, d)
      PROVE  Goal
  <2>1. d # c /\ Only(d)
    BY <1>7, StatusKeeps DEF CompleteCount, Mutable
  <2> QED
    BY <2>1, OnlyStays
<1>8. ASSUME NEW d \in Counts, ApplySettlement(d)
      PROVE  Goal
  <2>1. op' = [op EXCEPT ![d].posted = TRUE] /\ UNCHANGED <<opening, snap, rows>>
    BY <1>8 DEF ApplySettlement
  <2>2. CASE d = c
    <3>1. op[c] \in OpRow /\ op'[c] = [op[c] EXCEPT !.posted = TRUE]
      BY <2>1, <2>2 DEF CountInv, Shape
    <3> QED
      BY <3>1 DEF OpRow
  <2>3. CASE d # c
    BY <2>1, <2>3, StatusKeeps, OnlyStays
  <2> QED
    BY <2>2, <2>3
<1>9. CASE UNCHANGED <<op, opening, snap, rows>>
  BY <1>9 DEF RowsStay
<1> QED
  BY <1>1, <1>2, <1>3, <1>4, <1>5, <1>6, <1>7, <1>8, <1>9, StepCases

LEMMA DiscrepancyStays ==
  ASSUME CountInv, CountInv', [Next]_vars, NEW c \in Counts,
         op[c].status = "completed", ~ op[c].posted
  PROVE  \/ op'[c].posted \/ op'[c].status = "deleted"
         \/ \A r \in Discrepant(c) : <<r[1], op[c].inv>> \in FrozenPairs'
<1> SUFFICES ASSUME RowsStay(c), NEW r \in Discrepant(c)
             PROVE  <<r[1], op[c].inv>> \in FrozenPairs'
  BY SavedRowsStay
<1>1. /\ r \in DOMAIN rows'[c] /\ rows'[c][r] = rows[c][r] /\ op'[c] = op[c]
      /\ rows[c][r].counted \notin {Uncounted, rows[c][r].system}
  BY DEF RowsStay, Discrepant
<1>2. r[1] \in DOMAIN snap'[c]
  BY <1>1 DEF CountInv, Linked, LotsOf
<1>3. Holds(c, r)'
  BY <1>1, <1>2 DEF Holds
<1>4. <<r[1], op'[c].inv>> \in
        {<<x[1], op'[c].inv>> : x \in {y \in DOMAIN rows'[c] : Holds(c, y)'}}
  BY <1>1, <1>3
<1> QED
  BY <1>1, <1>4 DEF FrozenPairs

(* Whoever opens, scans, records or moves stock, and whenever the server     *)
(* stops: a saved discrepancy freezes its lot until it is posted or its      *)
(* count is withdrawn.                                                       *)
THEOREM DiscrepancyHeld == Spec => DiscrepancyStaysFrozen
<1>1. CountInv /\ CountInv' /\ [Next]_vars =>
        [\A c \in Counts : op[c].status = "completed" /\ ~ op[c].posted =>
           \/ op'[c].posted \/ op'[c].status = "deleted"
           \/ \A r \in Discrepant(c) : <<r[1], op[c].inv>> \in FrozenPairs']_vars
  BY DiscrepancyStays
<1> QED
  BY <1>1, CountsLinked, PTL DEF Spec, DiscrepancyStaysFrozen

-----------------------------------------------------------------------------
(* Counts opened while stock and clerks rest.  Nobody saves or deletes a     *)
(* count that is being opened; the loop leaves no lot out; a final save that *)
(* sees every row saves counted rows only.                                   *)
Calm(c) == BeingOpened(c) => op[c].status = "in_progress"

Covered(c) ==
  /\ opening[c].step = "items" =>
       Positive(snap[c]) \subseteq LotsOf(rows[c]) \cup opening[c].left
  /\ /\ opening[c].step = "closed" /\ op[c].scope = "full"
     /\ op[c].status \in {"in_progress", "completed"}
     => Positive(snap[c]) \subseteq LotsOf(rows[c])

AllCounted(c) ==
  op[c].status = "completed" => \A r \in DOMAIN rows[c] : rows[c][r].counted # Uncounted

Careful(c) == /\ Calm(c)
              /\ ~ Crashes => Covered(c)
              /\ ~ SnapshotAtBegin => AllCounted(c)

(* What a step leaves of a count that has been saved.                        *)
Final(c) == op[c].status = "completed" =>
              rows'[c] = rows[c] /\ snap'[c] = snap[c] /\ op'[c].status = "completed"

LEMMA OthersCareful ==
  ASSUME NEW c \in Counts, Only(c), Careful(c)', Final(c), \A d \in Counts : Careful(d)
  PROVE  \A d \in Counts : Careful(d)' /\ Final(d)
BY DEF Only, Careful, Calm, Covered, AllCounted, Final, BeingOpened, LotsOf, Positive

LEMMA FirstCareful == Init => \A c \in Counts : Careful(c)
BY EmptyTables DEF Init, NoCount, Careful, Calm, Covered, AllCounted, BeingOpened

LEMMA OpeningIsCareful ==
  ASSUME QuietOpening, CountInv, \A d \in Counts : Careful(d), NEW c \in Counts,
         \/ \E i \in Invs, scope \in Scopes : InsertOperation(c, i, scope)
         \/ ReadOpenings(c) \/ InsertSnapshots(c) \/ WithdrawEmpty(c) \/ Crash(c)
  PROVE  Careful(c)' /\ Final(c)
<1>1. ASSUME NEW i \in Invs, NEW scope \in Scopes, InsertOperation(c, i, scope)
      PROVE  Careful(c)' /\ Final(c)
  <2>1. /\ op[c].status = "none" /\ opening'[c].step = "read"
        /\ op'[c].status = "in_progress"
    BY <1>1 DEF InsertOperation, NoCount, Closed, CountInv, Shape
  <2> QED
    BY <2>1 DEF Careful, Calm, Covered, AllCounted, Final
<1>2. CASE ReadOpenings(c)
  <2>1. PICK read : opening' = [opening EXCEPT ![c] =
                      [step |-> "snapshot", read |-> read, left |-> {}]]
    BY <1>2 DEF ReadOpenings
  <2>2. opening'[c].step = "snapshot" /\ op[c].status = "in_progress" /\ op' = op
    BY <1>2, <2>1 DEF ReadOpenings, CountInv, Shape, Careful, Calm, BeingOpened
  <2> QED
    BY <2>2 DEF Careful, Calm, Covered, AllCounted, Final
<1>3. CASE InsertSnapshots(c)
  <2>1. op[c].status = "in_progress" /\ op' = op
    BY <1>3 DEF InsertSnapshots, Careful, Calm, BeingOpened
  <2>2. snap'[c] = opening[c].read
    BY <1>3 DEF InsertSnapshots, CountInv, Shape
  <2>3. op[c].scope = "full" =>
          opening'[c].step = "items" /\ opening'[c].left = Positive(opening[c].read)
    BY <1>3 DEF InsertSnapshots, CountInv, Shape
  <2>4. op[c].scope # "full" /\ opening'[c].step = "items" =>
          opening'[c].left = Positive(opening[c].read)
    BY <1>3, EmptyTables DEF InsertSnapshots, CountInv, Shape
  <2> QED
    BY <2>1, <2>2, <2>3, <2>4 DEF Careful, Calm, Covered, AllCounted, Final
<1>4. CASE WithdrawEmpty(c)
  <2>1. op[c].status = "in_progress" /\ op'[c].status = "deleted"
    BY <1>4, WithdrawEmptyKeeps DEF WithdrawEmpty, Careful, Calm, BeingOpened
  <2>2. opening'[c].step = "closed"
    BY <2>1, <1>4, WithdrawEmptyKeeps DEF CountInv, Linked
  <2> QED
    BY <2>1, <2>2 DEF Careful, Calm, Covered, AllCounted, Final, BeingOpened
<1>5. CASE Crash(c)
  <2>1. op[c].status = "in_progress" /\ op' = op /\ Crashes
    BY <1>5 DEF Crash, Careful, Calm
  <2> QED
    BY <2>1 DEF Careful, Calm, AllCounted, Final
<1> QED
  BY <1>1, <1>2, <1>3, <1>4, <1>5

LEMMA InsertItemIsCareful ==
  ASSUME QuietOpening, CountInv, \A d \in Counts : Careful(d), NEW c \in Counts,
         NEW l \in Lots, InsertItem(c, l)
  PROVE  Careful(c)' /\ Final(c)
<1>1. /\ op' = op /\ snap' = snap /\ op[c].status = "in_progress"
      /\ opening[c].step = "items" /\ l \in opening[c].left
      /\ <<l, 2>> \notin DOMAIN rows[c]
      /\ rows'[c] = WithRow(rows[c], l, opening[c].read[l])
  BY DEF InsertItem, Careful, Calm, BeingOpened, CountInv, Shape
<1>2. LotsOf(rows'[c]) = LotsOf(rows[c]) \cup {l}
  BY <1>1, RowAdded
<1>3. \/ opening[c].left = {l} /\ opening'[c].step = "closed"
      \/ opening'[c].step = "items" /\ opening'[c].left = opening[c].left \ {l}
  BY EmptyTables DEF InsertItem, CountInv, Shape
<1>4. ~ Crashes => Positive(snap[c]) \subseteq LotsOf(rows'[c]) \cup (opening[c].left \ {l})
  BY <1>1, <1>2 DEF Careful, Covered
<1>5. ~ Crashes => Covered(c)'
  BY <1>1, <1>3, <1>4 DEF Covered, Positive
<1> QED
  BY <1>1, <1>5 DEF Careful, Calm, AllCounted, Final

LEMMA ClerksAreCareful ==
  ASSUME QuietOpening, CountInv, \A d \in Counts : Careful(d), NEW c \in Counts,
         \/ \E k \in Clerks : CompleteCount(k, c)
         \/ \E k \in Clerks, l \in Lots : ScanLot(k, c, l)
         \/ \E r \in DOMAIN rows[c], n \in Counted : RecordItem(c, r, n)
         \/ DeleteCount(c) \/ ApplySettlement(c)
  PROVE  Careful(c)' /\ Final(c)
<1>1. ASSUME NEW k \in Clerks, CompleteCount(k, c)
      PROVE  Careful(c)' /\ Final(c)
  <2>1. /\ op[c].status = "in_progress" /\ opening[c].step = "closed"
        /\ UNCHANGED <<opening, snap, rows>>
        /\ op' = [op EXCEPT ![c].status = "completed"]
    BY <1>1 DEF CompleteCount, Mutable, Rested, BeingOpened
  <2>2. op'[c].scope = op[c].scope
    BY <2>1, StatusKeeps
  <2>3. ~ SnapshotAtBegin => \A r \in DOMAIN rows[c] : rows[c][r].counted # Uncounted
    BY <1>1 DEF CompleteCount, Seen
  <2> QED
    BY <2>1, <2>2, <2>3
    DEF Careful, Calm, Covered, AllCounted, Final, BeingOpened, Positive, LotsOf
<1>2. ASSUME NEW k \in Clerks, NEW l \in Lots, ScanLot(k, c, l)
      PROVE  Careful(c)' /\ Final(c)
  <2>1. /\ op[c].status = "in_progress" /\ opening[c].step = "closed"
        /\ UNCHANGED <<op, opening, snap>> /\ <<l, 2>> \notin DOMAIN rows[c]
        /\ rows'[c] = WithRow(rows[c], l, snap[c][l])
    BY <1>2 DEF ScanLot, Mutable, Rested, BeingOpened, CountInv, Shape
  <2>2. LotsOf(rows'[c]) = LotsOf(rows[c]) \cup {l}
    BY <2>1, RowAdded
  <2> QED
    BY <2>1, <2>2 DEF Careful, Calm, Covered, AllCounted, Final, Positive
<1>3. ASSUME NEW r \in DOMAIN rows[c], NEW n \in Counted, RecordItem(c, r, n)
      PROVE  Careful(c)' /\ Final(c)
  <2>1. op[c].status = "in_progress" /\ UNCHANGED <<op, opening, snap>>
        /\ DOMAIN rows'[c] = DOMAIN rows[c]
    BY <1>3, RecordItemKeeps DEF RecordItem
  <2> QED
    BY <2>1 DEF Careful, Calm, Covered, AllCounted, Final, BeingOpened, Positive, LotsOf
<1>4. CASE DeleteCount(c)
  <2>1. op[c].status = "in_progress" /\ op'[c].status = "deleted"
        /\ opening'[c].step = "closed"
    BY <1>4, DeleteCountKeeps DEF CountInv, Linked
  <2> QED
    BY <2>1 DEF Careful, Calm, Covered, AllCounted, Final, BeingOpened
<1>5. CASE ApplySettlement(c)
  <2>1. /\ op[c].status = "completed" /\ op' = [op EXCEPT ![c].posted = TRUE]
        /\ UNCHANGED <<opening, snap, rows>>
    BY <1>5 DEF ApplySettlement
  <2>2. op'[c].scope = op[c].scope /\ op'[c].status = "completed"
    BY <2>1, StatusKeeps
  <2> QED
    BY <2>1, <2>2
    DEF Careful, Calm, Covered, AllCounted, Final, BeingOpened, Positive, LotsOf
<1> QED
  BY <1>1, <1>2, <1>3, <1>4, <1>5

LEMMA CarefulStep ==
  ASSUME QuietOpening, CountInv, \A d \in Counts : Careful(d), [Next]_vars
  PROVE  \A d \in Counts : Careful(d)' /\ Final(d)
<1> DEFINE Goal == \A d \in Counts : Careful(d)' /\ Final(d)
<1>1. ASSUME NEW c \in Counts,
             \/ \E i \in Invs, scope \in Scopes : InsertOperation(c, i, scope)
             \/ ReadOpenings(c) \/ InsertSnapshots(c) \/ WithdrawEmpty(c) \/ Crash(c)
      PROVE  Goal
  <2>1. Only(c)
    BY <1>1, InsertOperationKeeps, ReadOpeningsKeeps, InsertSnapshotsKeeps,
       WithdrawEmptyKeeps, CrashKeeps
  <2> QED
    BY <1>1, <2>1, OpeningIsCareful, OthersCareful
<1>2. ASSUME NEW c \in Counts, NEW l \in Lots, InsertItem(c, l)
      PROVE  Goal
  BY <1>2, InsertItemKeeps, InsertItemIsCareful, OthersCareful
<1>3. ASSUME NEW c \in Counts,
             \/ \E k \in Clerks : CompleteCount(k, c)
             \/ \E k \in Clerks, l \in Lots : ScanLot(k, c, l)
             \/ \E r \in DOMAIN rows[c], n \in Counted : RecordItem(c, r, n)
             \/ DeleteCount(c) \/ ApplySettlement(c)
      PROVE  Goal
  <2>1. ASSUME NEW k \in Clerks, CompleteCount(k, c) PROVE Only(c)
    BY <2>1, StatusKeeps DEF CompleteCount, Mutable
  <2>2. ASSUME ApplySettlement(c) PROVE Only(c)
    BY <2>2, StatusKeeps DEF ApplySettlement
  <2>3. Only(c)
    BY <1>3, <2>1, <2>2, ScanLotKeeps, RecordItemKeeps, DeleteCountKeeps
  <2> QED
    BY <1>3, <2>3, ClerksAreCareful, OthersCareful
<1>4. CASE UNCHANGED <<op, opening, snap, rows>>
  BY <1>4 DEF Careful, Calm, Covered, AllCounted, Final, BeingOpened, LotsOf, Positive
<1> QED
  BY <1>1, <1>2, <1>3, <1>4, StepCases

LEMMA QuietCounts ==
  ASSUME QuietOpening
  PROVE  Spec => [](CountInv /\ \A c \in Counts : Careful(c))
<1>1. Init => CountInv /\ \A c \in Counts : Careful(c)
  BY FirstState, FirstCareful
<1>2. (CountInv /\ \A c \in Counts : Careful(c)) /\ [Next]_vars
        => (CountInv /\ \A c \in Counts : Careful(c))'
  BY StepKeeps, CarefulStep
<1> QED
  BY <1>1, <1>2, PTL DEF Spec

(* While stock and clerks rest during an opening, a saved count is never     *)
(* written to again, by any clerk, opening, settlement or restart.           *)
THEOREM FinalIsFinal ==
  ASSUME QuietOpening
  PROVE  Spec => FinalCountImmutable
<1>1. (CountInv /\ \A c \in Counts : Careful(c)) /\ [Next]_vars =>
        [\A c \in Counts : op[c].status = "completed" =>
           rows'[c] = rows[c] /\ snap'[c] = snap[c] /\ op'[c].status = "completed"]_vars
  BY CarefulStep DEF Final
<1> QED
  BY <1>1, QuietCounts, PTL DEF Spec, FinalCountImmutable

(* If moreover the server does not stop during an opening, a saved full      *)
(* count has a row for every lot that the opening found in stock.            *)
THEOREM FullCountsCover ==
  ASSUME QuietOpening, ~ Crashes
  PROVE  Spec => []FullCoverage
<1>1. CountInv /\ (\A c \in Counts : Careful(c)) => FullCoverage
  BY DEF Careful, Calm, Covered, BeingOpened, FullCoverage
<1> QED
  BY <1>1, QuietCounts, PTL

(* If the final save reads the rows after it has the lock, no count is saved *)
(* with a row that nobody counted.                                           *)
THEOREM SavedIsCounted ==
  ASSUME QuietOpening, ~ SnapshotAtBegin
  PROVE  Spec => []FullyCounted
<1>1. CountInv /\ (\A c \in Counts : Careful(c)) => FullyCounted
  BY DEF Careful, AllCounted, FullyCounted
<1> QED
  BY <1>1, QuietCounts, PTL
-----------------------------------------------------------------------------
(* Counts and stock together behave as the stock ledger: what counts hold is *)
(* all the stock needs to know of them, and a settlement moves exactly what  *)
(* it holds.  What is proved of the ledger then holds next to counts.        *)

(* The ledger again, with its theorems.                                      *)
Stock == INSTANCE StockLedgerProofs WITH frozen <- FrozenPairs

(* An instance whose bounds cut nothing off: counts may hold any pair and    *)
(* find any quantity.                                                        *)
Unbounded ==
  /\ NumLots \in Nat /\ NumInvs \in Nat /\ NumDocs \in Nat /\ MaxStock \in Nat
  /\ Countable = Lots \X Invs
  /\ Quantities \subseteq Nat \ {0}
  /\ Diffs = Int
  /\ Kinds \subseteq Stock!AllKinds
  /\ SnapshotAtBegin \in BOOLEAN
  /\ Counted \subseteq Int

LEMMA SameLedger ==
  /\ Ledger!Init => Stock!Init
  /\ [Ledger!Next]_(Ledger!vars) => [Stock!Next]_(Stock!vars)
<1>1. Ledger!Init => Stock!Init
  BY Zenon DEF Ledger!Init, Stock!Init, Ledger!Lots, Stock!Lots, Ledger!Invs, Stock!Invs,
    Ledger!Docs, Stock!Docs, Ledger!Unissued, Stock!Unissued, Ledger!Idle, Stock!Idle,
    Ledger!Unread, Stock!Unread
<1>2. Ledger!Next => Stock!Next
  BY Zenon
  DEF Ledger!ConsumeKinds, Stock!ConsumeKinds, Ledger!AllKinds, Stock!AllKinds,
      Ledger!Lots, Stock!Lots, Ledger!Invs, Stock!Invs, Ledger!Docs, Stock!Docs,
      Ledger!stock, Stock!stock, Ledger!Unissued, Stock!Unissued, Ledger!Unread,
      Stock!Unread, Ledger!ReadRows, Stock!ReadRows, Ledger!Idle, Stock!Idle,
      Ledger!SourceTypes, Stock!SourceTypes, Ledger!LotSum, Stock!LotSum,
      Ledger!InvSum, Stock!InvSum, Ledger!Open, Stock!Open, Ledger!Close, Stock!Close,
      Ledger!AddTo, Stock!AddTo, Ledger!ReceiveLot, Stock!ReceiveLot, Ledger!Receive,
      Stock!Receive, Ledger!OpenBalance, Stock!OpenBalance, Ledger!Resolvable,
      Stock!Resolvable, Ledger!BeginConsume, Stock!BeginConsume, Ledger!ConsumeLot,
      Stock!ConsumeLot, Ledger!ConsumeAggregate, Stock!ConsumeAggregate, Ledger!Issue,
      Stock!Issue, Ledger!ReturnToSupplier, Stock!ReturnToSupplier, Ledger!Dispose,
      Stock!Dispose, Ledger!BeginTransfer, Stock!BeginTransfer, Ledger!MoveLotBalance,
      Stock!MoveLotBalance, Ledger!CommitTransfer, Stock!CommitTransfer,
      Ledger!BeginReturn, Stock!BeginReturn, Ledger!DocLockFree, Stock!DocLockFree,
      Ledger!LockReturn, Stock!LockReturn, Ledger!CommitReturn, Stock!CommitReturn,
      Ledger!AggregateKinds, Stock!AggregateKinds, Ledger!ReadAggregate,
      Stock!ReadAggregate, Ledger!BeginAddTransaction, Stock!BeginAddTransaction,
      Ledger!EndAddTransaction, Stock!EndAddTransaction, Ledger!BeginDraftReceipt,
      Stock!BeginDraftReceipt, Ledger!EndDraftReceipt, Stock!EndDraftReceipt,
      Ledger!Rollback, Stock!Rollback,
      Ledger!InventoryAgrees, Stock!InventoryAgrees, Ledger!LotAgrees,
      Stock!LotAgrees, Ledger!PostSettlement, Stock!PostSettlement, Ledger!CountStep,
      Stock!CountStep, Ledger!Next, Stock!Next, Ledger!Total, Stock!Total
<1>3. UNCHANGED Ledger!vars => UNCHANGED Stock!vars
  BY DEF Ledger!vars, Stock!vars
<1> QED
  BY <1>1, <1>2, <1>3

LEMMA LedgerAssumed ==
  ASSUME Unbounded
  PROVE  /\ NumLots \in Nat /\ NumInvs \in Nat /\ NumDocs \in Nat /\ MaxStock \in Nat
         /\ Countable \subseteq (1..NumLots) \X (1..NumInvs)
         /\ Quantities \subseteq Nat \ {0}
         /\ Diffs \subseteq Int /\ 0 \in Diffs
         /\ Kinds \subseteq Stock!AllKinds
         /\ SnapshotAtBegin \in BOOLEAN
BY DEF Unbounded, Lots, Invs

LEMMA StockStarts ==
  ASSUME Unbounded, Stock!Init
  PROVE  Stock!TypeInv /\ Stock!LotInv
BY LedgerAssumed, Stock!InitTypeInv, Stock!InitRules

LEMMA StockSteps ==
  ASSUME Unbounded, Stock!TypeInv, Stock!LotInv, [Stock!Next]_(Stock!vars)
  PROVE  Stock!TypeInv' /\ Stock!LotInv'
BY LedgerAssumed, Stock!NextTypeInv, Stock!NextLotInv

LEMMA StockLotsStay ==
  ASSUME Unbounded, Stock!TypeInv, [Stock!Next]_(Stock!vars), NEW l \in Stock!Lots,
         source[l] # "none"
  PROVE  source'[l] # "none"
BY LedgerAssumed, Stock!LotsStay

-----------------------------------------------------------------------------
(* What counts know of the stock: they only name lots that exist, and their  *)
(* rows hold numbers.                                                        *)
Known == {l \in Lots : source[l] # "none"}

ItemRow == [system : Int, counted : Int]

Sound(c) ==
  /\ op[c].status # "none" => op[c].inv \in Invs
  /\ IsTable(opening[c].read, Known, Int)
  /\ IsTable(snap[c], Known, Int)
  /\ \A r \in DOMAIN rows[c] : rows[c][r] \in ItemRow

LEMMA FirstSound == Init => \A c \in Counts : Sound(c)
BY DEF Init, NoCount, Closed, NoRows, Sound, IsTable

LEMMA OthersSound ==
  ASSUME \A d \in Counts : Sound(d), Known \subseteq Known', NEW c \in Counts, Only(c),
         Sound(c)'
  PROVE  \A d \in Counts : Sound(d)'
BY DEF Only, Sound, IsTable

LEMMA RowIsSound ==
  ASSUME NEW table, NEW l, NEW system \in Int,
         \A r \in DOMAIN table : table[r] \in ItemRow
  PROVE  LET added == WithRow(table, l, system) IN
         \A r \in DOMAIN added : added[r] \in ItemRow
BY DEF WithRow, ItemRow, Uncounted

(* The steps of a count that leave the stock alone.                          *)
CountWrites(c) ==
  \/ \E i \in Invs, scope \in Scopes : InsertOperation(c, i, scope)
  \/ ReadOpenings(c) \/ InsertSnapshots(c) \/ WithdrawEmpty(c) \/ Crash(c)
  \/ \E l \in Lots : InsertItem(c, l)
  \/ \E k \in Clerks : CompleteCount(k, c)
  \/ \E k \in Clerks, l \in Lots : ScanLot(k, c, l)
  \/ \E r \in DOMAIN rows[c], n \in Counted : RecordItem(c, r, n)
  \/ DeleteCount(c)

LEMMA WritesKeep ==
  ASSUME CountInv, NEW c \in Counts, CountWrites(c)
  PROVE  CountInv' /\ Only(c) /\ UNCHANGED stock
<1>1. ASSUME NEW k \in Clerks, CompleteCount(k, c) PROVE CountInv' /\ Only(c)
  BY <1>1, StatusKeeps DEF CompleteCount, Mutable
<1>2. CountInv' /\ Only(c)
  BY <1>1, InsertOperationKeeps, ReadOpeningsKeeps, InsertSnapshotsKeeps,
     WithdrawEmptyKeeps, CrashKeeps, InsertItemKeeps, ScanLotKeeps, RecordItemKeeps,
     DeleteCountKeeps DEF CountWrites
<1>3. UNCHANGED stock
  BY DEF CountWrites, InsertOperation, ReadOpenings, InsertSnapshots, WithdrawEmpty, Crash,
         InsertItem, CompleteCount, ScanLot, RecordItem, DeleteCount
<1> QED
  BY <1>2, <1>3

LEMMA WritesSound ==
  ASSUME Unbounded, Stock!TypeInv, Stock!LotInv, CountInv, \A d \in Counts : Sound(d),
         NEW c \in Counts, CountWrites(c)
  PROVE  \A d \in Counts : Sound(d)'
<1>k. Known' = Known /\ Only(c)
  BY WritesKeep DEF Known, stock
<1>n. IsTable(NoRows, Known, Int) /\ Closed.read = NoRows
  BY DEF IsTable, NoRows, Closed
<1>1. ASSUME NEW i \in Invs, NEW scope \in Scopes, InsertOperation(c, i, scope)
      PROVE  Sound(c)'
  <2>1. op'[c].inv = i /\ opening'[c].read = NoRows /\ UNCHANGED <<snap, rows>>
    BY <1>1, <1>n DEF InsertOperation, CountInv, Shape, Closed
  <2> QED
    BY <1>k, <1>n, <2>1 DEF Sound
<1>2. ASSUME ReadOpenings(c) PROVE Sound(c)'
  <2>1. PICK read : /\ read \subseteq {l \in Lots : balance[l][op[c].inv] > 0} \cup Known
                    /\ opening' = [opening EXCEPT ![c] =
                         [step |-> "snapshot",
                          read |-> [l \in read |-> balance[l][op[c].inv]], left |-> {}]]
    BY <1>2 DEF ReadOpenings, Known
  <2>2. op[c].inv \in Invs
    BY <1>2 DEF ReadOpenings, CountInv, Linked, Sound
  <2>3. ASSUME NEW l \in Lots
        PROVE  /\ balance[l][op[c].inv] \in Nat
               /\ balance[l][op[c].inv] > 0 => l \in Known
    <3>1. /\ balance \in [Lots -> [Invs -> Nat]]
          /\ source[l] = "none" => \A i \in Invs : balance[l][i] = 0
      BY DEF Stock!TypeInv, Stock!TypeOK, Stock!LotInv, Stock!FreshLotsEmpty,
             Lots, Invs, Stock!Lots, Stock!Invs
    <3> QED
      BY <2>2, <3>1 DEF Known
  <2>4. opening'[c].read = [l \in read |-> balance[l][op[c].inv]]
    BY <2>1 DEF CountInv, Shape
  <2>5. IsTable(opening'[c].read, Known, Int)
    BY <2>1, <2>3, <2>4 DEF IsTable, Known
  <2> QED
    BY <1>2, <1>k, <2>5 DEF ReadOpenings, Sound
<1>3. ASSUME InsertSnapshots(c) PROVE Sound(c)'
  <2>1. /\ op' = op /\ rows' = rows /\ snap'[c] = opening[c].read
        /\ opening'[c].read \in {opening[c].read, NoRows}
    BY <1>3, <1>n DEF InsertSnapshots, CountInv, Shape
  <2> QED
    BY <1>k, <1>n, <2>1 DEF Sound, IsTable
<1>4. ASSUME WithdrawEmpty(c) \/ DeleteCount(c) PROVE Sound(c)'
  <2>1. /\ op'[c].inv = op[c].inv /\ op[c].status # "none"
        /\ snap'[c] = NoRows /\ opening'[c].read = NoRows
        /\ rows'[c] \in {rows[c], NoRows}
    BY <1>4, <1>n DEF WithdrawEmpty, DeleteCount, CountInv, Shape, OpRow, Linked
  <2>2. \A r \in DOMAIN NoRows : FALSE
    BY DEF NoRows
  <2> QED
    BY <1>k, <1>n, <2>1, <2>2 DEF Sound, IsTable
<1>5. ASSUME Crash(c) PROVE Sound(c)'
  <2>1. UNCHANGED <<op, snap, rows>> /\ opening'[c].read = NoRows
    BY <1>5, <1>n DEF Crash, CountInv, Shape
  <2> QED
    BY <1>k, <1>n, <2>1 DEF Sound, IsTable
<1>6. ASSUME NEW l \in Lots, InsertItem(c, l) PROVE Sound(c)'
  <2>1. /\ UNCHANGED <<op, snap>> /\ opening[c].step = "items" /\ l \in opening[c].left
        /\ rows'[c] = WithRow(rows[c], l, opening[c].read[l])
        /\ opening'[c].read \in {opening[c].read, NoRows}
    BY <1>6, <1>n DEF InsertItem, CountInv, Shape
  <2>2. opening[c].read[l] \in Int
    BY <2>1 DEF CountInv, Linked, Positive, Sound, IsTable
  <2>3. \A r \in DOMAIN rows'[c] : rows'[c][r] \in ItemRow
    BY <2>1, <2>2, RowIsSound DEF Sound
  <2> QED
    BY <1>k, <1>n, <2>1, <2>3 DEF Sound
<1>7. ASSUME NEW k \in Clerks, CompleteCount(k, c) PROVE Sound(c)'
  <2>1. /\ op'[c].inv = op[c].inv /\ op[c].status # "none"
        /\ UNCHANGED <<opening, snap, rows>>
    BY <1>7 DEF CompleteCount, Mutable, CountInv, Shape, OpRow
  <2> QED
    BY <1>k, <2>1 DEF Sound
<1>8. ASSUME NEW k \in Clerks, NEW l \in Lots, ScanLot(k, c, l) PROVE Sound(c)'
  <2>1. /\ UNCHANGED <<op, opening, snap>> /\ l \in DOMAIN snap[c]
        /\ rows'[c] = WithRow(rows[c], l, snap[c][l])
    BY <1>8 DEF ScanLot, CountInv, Shape
  <2>2. \A r \in DOMAIN rows'[c] : rows'[c][r] \in ItemRow
    BY <2>1, RowIsSound DEF Sound, IsTable
  <2> QED
    BY <1>k, <2>1, <2>2 DEF Sound
<1>9. ASSUME NEW r \in DOMAIN rows[c], NEW n \in Counted, RecordItem(c, r, n)
      PROVE  Sound(c)'
  <2>1. /\ UNCHANGED <<op, opening, snap>> /\ n \in Int
        /\ rows' = [rows EXCEPT ![c] = [rows[c] EXCEPT ![r] =
                                        [rows[c][r] EXCEPT !.counted = n]]]
    BY <1>9 DEF RecordItem, Unbounded
  <2>2. rows'[c] = [rows[c] EXCEPT ![r] = [rows[c][r] EXCEPT !.counted = n]]
    BY <2>1 DEF CountInv, Shape
  <2>3. [rows[c][r] EXCEPT !.counted = n] \in ItemRow
    BY <2>1 DEF Sound, ItemRow
  <2>4. \A x \in DOMAIN rows'[c] : rows'[c][x] \in ItemRow
    BY <2>2, <2>3 DEF Sound
  <2> QED
    BY <1>k, <2>1, <2>4 DEF Sound
<1> QED
  BY <1>1, <1>2, <1>3, <1>4, <1>5, <1>6, <1>7, <1>8, <1>9, <1>k, OthersSound
  DEF CountWrites

-----------------------------------------------------------------------------
LEMMA NextSplit ==
  ASSUME [Next]_vars
  PROVE  \/ \E c \in Counts : CountWrites(c)
         \/ \E k \in Clerks, c \in Counts : BeginRequest(k, c)
         \/ \E c \in Counts : ApplySettlement(c)
         \/ MoveStock
         \/ UNCHANGED vars
BY DEF Next, CountWrites

LEMMA MovesAreLedgerSteps ==
  ASSUME MoveStock
  PROVE  Ledger!Next
BY DEF MoveStock, Ledger!Next, Lots, Invs, Ledger!Lots, Ledger!Invs

(* Each step of counts and stock keeps what counts know of the stock.        *)
LEMMA StepSound ==
  ASSUME Unbounded, Stock!TypeInv, Stock!LotInv, CountInv, \A d \in Counts : Sound(d),
         [Next]_vars
  PROVE  \A d \in Counts : Sound(d)'
<1>1. ASSUME UNCHANGED <<op, opening, snap, rows>>, Known \subseteq Known'
      PROVE  \A d \in Counts : Sound(d)'
  BY <1>1 DEF Sound, IsTable
<1>2. ASSUME NEW c \in Counts, CountWrites(c) PROVE \A d \in Counts : Sound(d)'
  BY <1>2, WritesSound
<1>3. ASSUME UNCHANGED vars \/ \E k \in Clerks, c \in Counts : BeginRequest(k, c)
      PROVE  \A d \in Counts : Sound(d)'
  BY <1>1, <1>3 DEF vars, counts, stock, BeginRequest, Known
<1>4. ASSUME NEW c \in Counts, ApplySettlement(c) PROVE \A d \in Counts : Sound(d)'
  <2>1. /\ op' = [op EXCEPT ![c].posted = TRUE] /\ UNCHANGED <<opening, snap, rows>>
        /\ source' = source /\ op[c].status = "completed"
    BY <1>4 DEF ApplySettlement, Ledger!PostSettlement
  <2>2. op'[c].inv = op[c].inv /\ Only(c)
    <3>1. Only(c)
      BY <2>1, StatusKeeps
    <3>2. op[c] \in OpRow /\ op'[c] = [op[c] EXCEPT !.posted = TRUE]
      BY <2>1 DEF CountInv, Shape
    <3> QED
      BY <3>1, <3>2 DEF OpRow
  <2>3. Known' = Known
    BY <2>1 DEF Known
  <2>4. Sound(c)'
    BY <2>1, <2>2, <2>3 DEF Sound, IsTable
  <2> QED
    BY <2>2, <2>3, <2>4, OthersSound
<1>5. ASSUME MoveStock PROVE \A d \in Counts : Sound(d)'
  <2>1. [Stock!Next]_(Stock!vars)
    BY <1>5, MovesAreLedgerSteps, SameLedger
  <2>2. Known \subseteq Known'
    BY <2>1, StockLotsStay DEF Known, Lots, Stock!Lots
  <2> QED
    BY <1>1, <1>5, <2>2 DEF MoveStock, counts
<1> QED
  BY <1>2, <1>3, <1>4, <1>5, NextSplit

(* What counts hold are pairs of lots that exist.                            *)
HeldExist == \A p \in FrozenPairs : p \in Lots \X Invs /\ p[1] \in Known

LEMMA HeldLotsExist == (\A c \in Counts : Sound(c)) => HeldExist
<1> SUFFICES ASSUME \A c \in Counts : Sound(c),
                    NEW c \in Counts, NEW r \in DOMAIN rows[c], Holds(c, r)
             PROVE  r[1] \in Known /\ op[c].inv \in Invs
  BY DEF FrozenPairs, HeldExist, Known
<1> QED
  BY DEF Holds, Sound, IsTable

(* Every step maps to a step of the ledger or leaves it alone.               *)
LEMMA StepIsLedgerStep ==
  ASSUME Unbounded, CountInv, \A c \in Counts : Sound(c), HeldExist', [Next]_vars
  PROVE  [Ledger!Next]_(Ledger!vars)
<1>1. ASSUME UNCHANGED stock PROVE [Ledger!Next]_(Ledger!vars)
  <2>1. CASE FrozenPairs' = FrozenPairs
    BY <1>1, <2>1 DEF stock, Ledger!vars
  <2>2. CASE FrozenPairs' # FrozenPairs
    <3>1. \A p \in FrozenPairs' : p \in Lots \X Invs /\ p[1] \in Known'
      BY DEF HeldExist
    <3>2. FrozenPairs' \in SUBSET Countable
      BY <3>1 DEF Unbounded
    <3>3. \A p \in FrozenPairs' : source[p[1]] # "none"
      BY <1>1, <3>1 DEF Known, stock
    <3>4. Ledger!CountStep
      BY <1>1, <2>2, <3>2, <3>3 DEF Ledger!CountStep, Ledger!stock, stock
    <3> QED
      BY <3>4 DEF Ledger!Next
  <2> QED
    BY <2>1, <2>2
<1>2. ASSUME NEW c \in Counts, CountWrites(c) PROVE UNCHANGED stock
  BY <1>2, WritesKeep
<1>3. ASSUME NEW k \in Clerks, NEW c \in Counts, BeginRequest(k, c) PROVE UNCHANGED stock
  BY <1>3 DEF BeginRequest
<1>4. ASSUME NEW c \in Counts, ApplySettlement(c) PROVE Ledger!Next
  <2>1. ASSUME NEW p \in FrozenPairs
        PROVE  (IF p[2] = op[c].inv /\ <<p[1], 1>> \in Discrepant(c)
                THEN Difference(c, p[1]) ELSE 0) \in Diffs
    <3>1. ASSUME <<p[1], 1>> \in Discrepant(c) PROVE Difference(c, p[1]) \in Int
      BY <3>1 DEF Discrepant, Difference, Sound, ItemRow
    <3> QED
      BY <3>1 DEF Unbounded
  <2>2. Posting(c) \in [FrozenPairs -> Diffs]
    BY <2>1 DEF Posting
  <2>3. Ledger!PostSettlement(Posting(c))
    BY <1>4 DEF ApplySettlement
  <2> QED
    BY <2>2, <2>3 DEF Ledger!Next
<1> QED
  BY <1>1, <1>2, <1>3, <1>4, NextSplit, MovesAreLedgerSteps DEF vars

(* What counts and stock satisfy together, whatever races.                   *)
Together ==
  /\ CountInv /\ (\A c \in Counts : Sound(c))
  /\ Stock!TypeInv /\ Stock!LotInv

LEMMA TogetherKept ==
  ASSUME Unbounded
  PROVE  /\ Init => Together
         /\ Together /\ [Next]_vars => Together' /\ [Ledger!Next]_(Ledger!vars)
<1>1. ASSUME Init PROVE Together
  <2>1. Ledger!Init
    BY <1>1 DEF Init
  <2> QED
    BY <1>1, <2>1, Unbounded, FirstState, FirstSound, SameLedger, StockStarts DEF Together
<1>2. (\A c \in Counts : Sound(c))' => HeldExist'
  BY HeldLotsExist, PTL
<1>3. ASSUME Together, [Next]_vars PROVE Together' /\ [Ledger!Next]_(Ledger!vars)
  <2>1. CountInv' /\ (\A c \in Counts : Sound(c))'
    BY <1>3, Unbounded, StepKeeps, StepSound DEF Together
  <2>2. [Ledger!Next]_(Ledger!vars)
    BY <1>2, <1>3, <2>1, Unbounded, StepIsLedgerStep DEF Together
  <2>3. Stock!TypeInv' /\ Stock!LotInv'
    BY <1>3, <2>2, Unbounded, SameLedger, StockSteps DEF Together
  <2> QED
    BY <2>1, <2>2, <2>3 DEF Together
<1> QED
  BY <1>1, <1>3

(* Openings that race, clerks, stops of the server and settlements show in   *)
(* the stock only as counts that take and release lots and as postings of    *)
(* differences on what they hold.                                            *)
THEOREM CountsKeepLedger ==
  ASSUME Unbounded
  PROVE  Spec => ImplementsLedger
<1>1. Init => Together /\ Ledger!Init
  BY Unbounded, TogetherKept DEF Init
<1> QED
  BY <1>1, Unbounded, TogetherKept, PTL DEF Spec, ImplementsLedger, Ledger!Spec

(* So what is proved of the ledger holds next to counts: no quantity is ever *)
(* negative, and with relative movements the integrity rules hold, whatever  *)
(* counts freeze, release and post meanwhile.                                *)
THEOREM CountedStockAgrees ==
  ASSUME Unbounded, Stock!OnlyRelativeMovements
  PROVE  Spec => [](Stock!TypeOK /\ Stock!QuantityMatchesLots
                    /\ Stock!RemainingMatchesBalances)
<1>1. Spec => Stock!Spec
  <2>1. Spec => Ledger!Spec
    BY Unbounded, CountsKeepLedger DEF ImplementsLedger
  <2> QED
    BY <2>1, SameLedger, PTL DEF Ledger!Spec, Stock!Spec
<1>2. Stock!Spec => []Stock!TypeOK
  BY Unbounded, LedgerAssumed, Stock!NoNegativeStock
<1>3. Stock!Spec => [](Stock!QuantityMatchesLots /\ Stock!RemainingMatchesBalances)
  BY Unbounded, Stock!OnlyRelativeMovements, LedgerAssumed,
     Stock!RelativeMovementsKeepRules
<1> QED
  BY <1>1, <1>2, <1>3, PTL

-----------------------------------------------------------------------------
(* The tables of the counts, with what they hold.                            *)
Typed(c) ==
  /\ IsTable(snap[c], Lots, Nat) /\ IsItems(rows[c])
  /\ IsTable(opening[c].read, Lots, Nat) /\ opening[c].left \subseteq Lots

ViewTyped ==
  /\ DOMAIN view = Clerks
  /\ \A k \in Clerks : view[k].op \in Counts \cup {"none"} /\ IsItems(view[k].rows)

ItemRows == Lots \X {1, 2}
ItemFields == [system : Nat, counted : Nat \cup {Uncounted}]

LEMMA RowIsTyped ==
  ASSUME NEW table, IsItems(table), NEW l \in Lots, NEW system \in Nat
  PROVE  IsItems(WithRow(table, l, system))
<1> DEFINE r == <<l, 1 + (IF <<l, 1>> \in DOMAIN table THEN 1 ELSE 0)>>
<1> DEFINE new == [system |-> system, counted |-> Uncounted]
<1>1. r \in ItemRows /\ new \in ItemFields
  BY 1 + 1 = 2, 1 + 0 = 1 DEF ItemRows, ItemFields
<1>2. DOMAIN table \subseteq ItemRows /\ \A x \in DOMAIN table : table[x] \in ItemFields
  BY DEF IsItems, IsTable, ItemRows, ItemFields
<1>3. WithRow(table, l, system) = [x \in DOMAIN table \cup {r} |->
                                     IF x = r THEN new ELSE table[x]]
  BY DEF WithRow
<1> HIDE DEF r, new
<1>4. /\ DOMAIN WithRow(table, l, system) \subseteq ItemRows
      /\ \A x \in DOMAIN WithRow(table, l, system) :
            WithRow(table, l, system)[x] \in ItemFields
  BY <1>1, <1>2, <1>3
<1> QED
  BY <1>4 DEF IsItems, IsTable, ItemRows, ItemFields

LEMMA NoRowsTyped == IsTable(NoRows, Lots, Nat) /\ IsItems(NoRows)
                     /\ Closed.read = NoRows /\ Closed.left = {}
BY DEF NoRows, Closed, IsTable, IsItems

LEMMA FirstTyped == Init => ViewTyped /\ \A c \in Counts : Typed(c)
BY NoRowsTyped DEF Init, Typed, ViewTyped, NoView

LEMMA OthersTyped ==
  ASSUME \A d \in Counts : Typed(d), NEW c \in Counts, Only(c), Typed(c)'
  PROVE  \A d \in Counts : Typed(d)'
BY DEF Only, Typed

LEMMA WritesTyped ==
  ASSUME Stock!TypeInv, Counted \subseteq Nat, CountInv, NEW c \in Counts, Sound(c),
         Typed(c), CountWrites(c)
  PROVE  Typed(c)'
<1>1. ASSUME NEW i \in Invs, NEW scope \in Scopes, InsertOperation(c, i, scope)
      PROVE  Typed(c)'
  <2>1. opening'[c].read = NoRows /\ opening'[c].left = {} /\ UNCHANGED <<snap, rows>>
    BY <1>1, NoRowsTyped DEF InsertOperation, CountInv, Shape, Closed
  <2> QED
    BY <2>1, NoRowsTyped DEF Typed
<1>2. ASSUME ReadOpenings(c) PROVE Typed(c)'
  <2>1. PICK read \in SUBSET Lots : opening' = [opening EXCEPT ![c] =
                         [step |-> "snapshot",
                          read |-> [l \in read |-> balance[l][op[c].inv]], left |-> {}]]
    BY <1>2 DEF ReadOpenings
  <2>2. op[c].inv \in Invs
    BY <1>2 DEF ReadOpenings, CountInv, Linked, Sound
  <2>3. \A l \in Lots : balance[l][op[c].inv] \in Nat
    BY <2>2 DEF Stock!TypeInv, Stock!TypeOK, Lots, Invs, Stock!Lots, Stock!Invs
  <2>4. opening'[c].read = [l \in read |-> balance[l][op[c].inv]] /\ opening'[c].left = {}
    BY <2>1 DEF CountInv, Shape
  <2>5. IsTable(opening'[c].read, Lots, Nat)
    BY <2>3, <2>4 DEF IsTable
  <2> QED
    BY <1>2, <2>4, <2>5 DEF ReadOpenings, Typed
<1>3. ASSUME InsertSnapshots(c) PROVE Typed(c)'
  <2>1. /\ rows' = rows /\ snap'[c] = opening[c].read
        /\ \/ opening'[c].read = NoRows /\ opening'[c].left = {}
           \/ opening'[c].read = opening[c].read
              /\ opening'[c].left = Positive(opening[c].read)
    BY <1>3, NoRowsTyped DEF InsertSnapshots, CountInv, Shape
  <2>2. Positive(opening[c].read) \subseteq Lots
    BY DEF Positive, Typed, IsTable
  <2> QED
    BY <2>1, <2>2, NoRowsTyped DEF Typed
<1>4. ASSUME WithdrawEmpty(c) \/ DeleteCount(c) \/ Crash(c) PROVE Typed(c)'
  <2>1. /\ snap'[c] \in {snap[c], NoRows} /\ rows'[c] \in {rows[c], NoRows}
        /\ opening'[c].read = NoRows /\ opening'[c].left = {}
    BY <1>4, NoRowsTyped DEF WithdrawEmpty, DeleteCount, Crash, CountInv, Shape
  <2> QED
    BY <2>1, NoRowsTyped DEF Typed
<1>5. ASSUME NEW l \in Lots, InsertItem(c, l) PROVE Typed(c)'
  <2>1. /\ snap' = snap /\ opening[c].step = "items" /\ l \in opening[c].left
        /\ rows'[c] = WithRow(rows[c], l, opening[c].read[l])
        /\ \/ opening'[c].read = NoRows /\ opening'[c].left = {}
           \/ opening'[c].read = opening[c].read
              /\ opening'[c].left = opening[c].left \ {l}
    BY <1>5, NoRowsTyped DEF InsertItem, CountInv, Shape
  <2>2. opening[c].read[l] \in Nat
    BY <2>1 DEF CountInv, Linked, Positive, Typed, IsTable
  <2>3. IsItems(rows'[c])
    BY <2>1, <2>2, RowIsTyped DEF Typed
  <2> QED
    BY <2>1, <2>3, NoRowsTyped DEF Typed
<1>6. ASSUME NEW k \in Clerks, CompleteCount(k, c) PROVE Typed(c)'
  BY <1>6 DEF CompleteCount, Typed
<1>7. ASSUME NEW k \in Clerks, NEW l \in Lots, ScanLot(k, c, l) PROVE Typed(c)'
  <2>1. /\ UNCHANGED <<opening, snap>> /\ l \in DOMAIN snap[c]
        /\ rows'[c] = WithRow(rows[c], l, snap[c][l])
    BY <1>7 DEF ScanLot, CountInv, Shape
  <2>2. IsItems(rows'[c])
    BY <2>1, RowIsTyped DEF Typed, IsTable
  <2> QED
    BY <2>1, <2>2 DEF Typed
<1>8. ASSUME NEW r \in DOMAIN rows[c], NEW n \in Counted, RecordItem(c, r, n)
      PROVE  Typed(c)'
  <2>1. /\ UNCHANGED <<opening, snap>> /\ n \in Nat
        /\ rows' = [rows EXCEPT ![c] = [rows[c] EXCEPT ![r] =
                                        [rows[c][r] EXCEPT !.counted = n]]]
    BY <1>8 DEF RecordItem
  <2>2. rows'[c] = [rows[c] EXCEPT ![r] = [rows[c][r] EXCEPT !.counted = n]]
    BY <2>1 DEF CountInv, Shape
  <2>3. rows[c][r] \in ItemFields
    BY DEF Typed, IsItems, IsTable, ItemFields
  <2>4. [rows[c][r] EXCEPT !.counted = n] \in ItemFields
    BY <2>1, <2>3 DEF ItemFields
  <2>5. DOMAIN rows'[c] \subseteq ItemRows /\ \A x \in DOMAIN rows'[c] : rows'[c][x] \in ItemFields
    BY <2>2, <2>4 DEF Typed, IsItems, IsTable, ItemRows, ItemFields
  <2> QED
    BY <2>1, <2>5 DEF Typed, IsItems, IsTable, ItemRows, ItemFields
<1> QED
  BY <1>1, <1>2, <1>3, <1>4, <1>5, <1>6, <1>7, <1>8 DEF CountWrites

LEMMA StepTyped ==
  ASSUME Stock!TypeInv, Counted \subseteq Nat, CountInv, \A c \in Counts : Sound(c),
         \A c \in Counts : Typed(c), ViewTyped, [Next]_vars
  PROVE  ViewTyped' /\ \A c \in Counts : Typed(c)'
<1>1. ASSUME NEW c \in Counts, CountWrites(c)
      PROVE  \A d \in Counts : Typed(d)'
  BY <1>1, WritesTyped, WritesKeep, OthersTyped
<1>2. ASSUME UNCHANGED <<opening, snap, rows>> PROVE \A d \in Counts : Typed(d)'
  BY <1>2 DEF Typed
<1>3. \A d \in Counts : Typed(d)'
  BY <1>1, <1>2, NextSplit DEF BeginRequest, ApplySettlement, MoveStock, vars, counts
<1>4. ASSUME view' = view PROVE ViewTyped'
  BY <1>4 DEF ViewTyped
<1>5. ASSUME NEW k \in Clerks, NEW c \in Counts, BeginRequest(k, c) PROVE ViewTyped'
  <2> DEFINE seen == [op |-> c, rows |-> rows[c]]
  <2>1. view' = [view EXCEPT ![k] = seen] /\ seen.op \in Counts /\ IsItems(seen.rows)
    BY <1>5 DEF BeginRequest, Typed
  <2> HIDE DEF seen
  <2> QED
    BY <2>1 DEF ViewTyped
<1>6. ASSUME NEW k \in Clerks, view' = [view EXCEPT ![k] = NoView] PROVE ViewTyped'
  BY <1>6, NoRowsTyped DEF ViewTyped, NoView
<1>7. \/ view' = view
      \/ \E k \in Clerks, c \in Counts : BeginRequest(k, c)
      \/ \E k \in Clerks : view' = [view EXCEPT ![k] = NoView]
  BY NextSplit DEF CountWrites, InsertOperation, ReadOpenings, InsertSnapshots,
     WithdrawEmpty, Crash, InsertItem, CompleteCount, ScanLot, RecordItem, DeleteCount,
     Mutable, ApplySettlement, MoveStock, vars, counts
<1> QED
  BY <1>3, <1>4, <1>5, <1>6, <1>7

(* With openings that race, stops of the server and views of any age, every  *)
(* table of the counts keeps the shape of its columns: no quantity that is   *)
(* read, frozen or counted is ever negative.                                 *)
THEOREM CountTypeCorrect ==
  ASSUME Unbounded, Counted \subseteq Nat
  PROVE  Spec => []TypeOK
<1> DEFINE IInv == Together /\ ViewTyped /\ \A c \in Counts : Typed(c)
<1>1. Init => IInv
  BY Unbounded, TogetherKept, FirstTyped
<1>2. IInv /\ [Next]_vars => IInv'
  <2>1. Together /\ [Next]_vars => Together'
    BY Unbounded, TogetherKept
  <2>2. Together /\ ViewTyped /\ (\A c \in Counts : Typed(c)) /\ [Next]_vars
          => ViewTyped' /\ \A c \in Counts : Typed(c)'
    BY Counted \subseteq Nat, StepTyped DEF Together
  <2> QED
    BY <2>1, <2>2
<1>3. IInv => TypeOK
  BY DEF Together, CountInv, Shape, OpRow, ViewTyped, Typed, TypeOK
<1> QED
  BY <1>1, <1>2, <1>3, PTL DEF Spec

-----------------------------------------------------------------------------
(* What counts are for: the stock they were opened with stays until they are *)
(* settled.  It takes a count alone in its warehouse: nothing in the code    *)
(* refuses a second one, and the settlement of the first moves the stock of  *)
(* the second.                                                               *)
Unsettled(c) ==
  \/ op[c].status = "in_progress"
  \/ op[c].status = "completed" /\ ~ op[c].posted /\ Discrepant(c) # {}

Apart ==
  \A c, d \in Counts : c # d /\ Unsettled(c) /\ Unsettled(d) => op[c].inv # op[d].inv

(* No open movement is about the lot in this record.                         *)
Untouched(l, i) ==
  \A t \in Txs : txs[t].kind # "none" /\ txs[t].lot = l =>
                   txs[t].inv # i /\ txs[t].to # i

(* A move of stock leaves what is frozen and untouched as it is.             *)
LEMMA MovesElsewhere ==
  ASSUME Stock!TypeInv, MoveStock, "recipient_return" \notin Kinds,
         NEW l \in Lots, NEW i \in Invs, source[l] # "none",
         <<l, i>> \in FrozenPairs, Untouched(l, i)
  PROVE  balance'[l][i] = balance[l][i] /\ Untouched(l, i)'
<1> DEFINE Goal == balance'[l][i] = balance[l][i] /\ Untouched(l, i)'
<1>b. balance \in [Lots -> [Invs -> Nat]]
  BY DEF Stock!TypeInv, Stock!TypeOK, Lots, Invs, Stock!Lots, Stock!Invs
<1>x. txs \in [Txs -> Stock!Tx] /\ \A t \in Txs : txs[t].kind # "recipient_return"
  BY DEF Stock!TypeInv, Stock!TypeOK, Stock!TxShape
<1>a. ASSUME NEW b \in [Lots -> [Invs -> Int]], NEW m, NEW j, NEW q, m # l \/ j # i
      PROVE  Ledger!AddTo(b, m, j, q)[l][i] = b[l][i]
  BY <1>a DEF Ledger!AddTo
<1>c. ASSUME NEW t \in Txs, Ledger!Close(t) PROVE Untouched(l, i)'
  BY <1>c, <1>x DEF Ledger!Close, Ledger!Idle, Untouched
<1>1. ASSUME NEW m \in Lots, NEW j \in Invs, NEW q \in Quantities,
             Ledger!Receive(m, j, q) \/ Ledger!OpenBalance(m, j, q)
      PROVE  Goal
  <2>1. m # l /\ txs' = txs /\ balance' = Ledger!AddTo(balance, m, j, q)
    BY <1>1 DEF Ledger!Receive, Ledger!OpenBalance, Ledger!ReceiveLot
  <2> QED
    BY <1>a, <1>b, <2>1 DEF Untouched
<1>2. ASSUME NEW t \in Txs, NEW k \in Ledger!ConsumeKinds, NEW m \in Lots, NEW j \in Invs,
             NEW q \in Quantities, Ledger!BeginConsume(t, k, m, j, q)
      PROVE  Goal
  <2> DEFINE new == [Ledger!Idle EXCEPT !.kind = k, !.lot = m, !.inv = j, !.qty = q]
  <2>1. /\ balance' = balance /\ txs' = [txs EXCEPT ![t] = new]
        /\ <<m, j>> \notin FrozenPairs
    BY <1>2 DEF Ledger!BeginConsume, Ledger!Open, Ledger!stock
  <2>2. new.lot = m /\ new.inv = j /\ new.to = 0
    BY DEF Ledger!Idle
  <2>3. i # 0
    BY DEF Invs
  <2> HIDE DEF new
  <2> QED
    BY <1>x, <2>1, <2>2, <2>3 DEF Untouched
<1>3. ASSUME NEW t \in Txs, NEW m \in Lots, NEW j \in Invs, NEW n \in Invs,
             NEW q \in Quantities, Ledger!BeginTransfer(t, m, j, n, q)
      PROVE  Goal
  <2> DEFINE new == [Ledger!Idle EXCEPT !.kind = "transfer", !.lot = m, !.inv = j,
                                        !.to = n, !.qty = q]
  <2>1. /\ balance' = balance /\ txs' = [txs EXCEPT ![t] = new]
        /\ <<m, j>> \notin FrozenPairs /\ <<m, n>> \notin FrozenPairs
    BY <1>3 DEF Ledger!BeginTransfer, Ledger!Open, Ledger!stock
  <2>2. new.lot = m /\ new.inv = j /\ new.to = n
    BY DEF Ledger!Idle
  <2> HIDE DEF new
  <2> QED
    BY <1>x, <2>1, <2>2 DEF Untouched
<1>4. ASSUME NEW t \in Txs, Ledger!Issue(t) \/ Ledger!ReturnToSupplier(t) \/ Ledger!Dispose(t)
      PROVE  Goal
  <2>1. /\ balance' = Ledger!AddTo(balance, txs[t].lot, txs[t].inv, -txs[t].qty)
        /\ txs[t].kind # "none" /\ Ledger!Close(t)
    BY <1>4 DEF Ledger!Issue, Ledger!ReturnToSupplier, Ledger!Dispose, Ledger!ConsumeLot
  <2>2. txs[t].lot # l \/ txs[t].inv # i
    BY <2>1 DEF Untouched
  <2> QED
    BY <1>a, <1>b, <1>c, <2>1, <2>2
<1>5. ASSUME NEW t \in Txs, Ledger!CommitTransfer(t) PROVE Goal
  <2> DEFINE b == Ledger!AddTo(balance, txs[t].lot, txs[t].inv, -txs[t].qty)
  <2>1. /\ balance' = Ledger!AddTo(b, txs[t].lot, txs[t].to, txs[t].qty)
        /\ txs[t].kind # "none" /\ Ledger!Close(t)
    BY <1>5 DEF Ledger!CommitTransfer, Ledger!MoveLotBalance
  <2>2. \/ txs[t].lot # l
        \/ txs[t].inv # i /\ txs[t].to # i
    BY <2>1 DEF Untouched
  <2>3. txs[t].qty \in Nat
    BY <1>x DEF Stock!Tx
  <2>4. b[l][i] = balance[l][i]
    <3>1. balance \in [Lots -> [Invs -> Int]]
      BY <1>b
    <3> QED
      BY <1>a, <2>2, <3>1
  <2>5. b \in [Lots -> [Invs -> Int]]
    <3>1. txs[t].lot \in Lots /\ txs[t].inv \in Invs
      BY <2>1, <1>5 DEF Ledger!CommitTransfer, Stock!TypeInv, Stock!TxShape, Lots, Invs,
         Stock!Lots, Stock!Invs
    <3>2. balance[txs[t].lot][txs[t].inv] + (-txs[t].qty) \in Int
      BY <1>b, <2>3, <3>1
    <3> QED
      BY <1>b, <3>1, <3>2 DEF Ledger!AddTo
  <2> HIDE DEF b
  <2> QED
    BY <1>a, <1>c, <2>1, <2>2, <2>4, <2>5
<1>6. ASSUME NEW t \in Txs, Ledger!Rollback(t) PROVE Goal
  BY <1>6, <1>c DEF Ledger!Rollback, Ledger!stock
<1>7. ASSUME NEW t \in Txs, Ledger!LockReturn(t) \/ Ledger!CommitReturn(t) PROVE FALSE
  BY <1>7, <1>x DEF Ledger!LockReturn, Ledger!CommitReturn
<1>8. ASSUME NEW t \in Txs, NEW d, NEW q, Ledger!BeginReturn(t, d, q) PROVE FALSE
  BY <1>8 DEF Ledger!BeginReturn
<1> QED
  BY <1>1, <1>2, <1>3, <1>4, <1>5, <1>6, <1>7, <1>8 DEF MoveStock

(* A settlement moves the lots of its own warehouse only, each by the        *)
(* difference that its count froze.                                          *)
LEMMA PostingMoves ==
  ASSUME NEW c \in Counts, ApplySettlement(c), NEW l \in Lots, NEW i \in Invs
  PROVE  balance'[l][i] =
           balance[l][i] + (IF <<l, i>> \in FrozenPairs /\ i = op[c].inv
                                /\ <<l, 1>> \in Discrepant(c)
                            THEN Difference(c, l) ELSE 0)
<1> DEFINE diff == Posting(c)
<1>1. Ledger!PostSettlement(diff)
  BY DEF ApplySettlement
<1>2. /\ DOMAIN diff = FrozenPairs
      /\ \A p \in FrozenPairs : diff[p] =
           IF p[2] = op[c].inv /\ <<p[1], 1>> \in Discrepant(c)
           THEN Difference(c, p[1]) ELSE 0
  BY DEF Posting
<1> HIDE DEF diff
<1>3. balance'[l][i] = balance[l][i] +
        (IF <<l, i>> \in DOMAIN diff THEN diff[<<l, i>>] ELSE 0)
  BY <1>1 DEF Ledger!PostSettlement, Ledger!Lots, Ledger!Invs, Lots, Invs
<1> QED
  BY <1>2, <1>3

(* While a count is opened the stock rests, and has what the opening read.   *)
Reserved(c) ==
  /\ BeingOpened(c) => \A t \in Txs : txs[t].kind = "none"
  /\ opening[c].step \in {"snapshot", "items"} =>
       \A l \in DOMAIN opening[c].read : balance[l][op[c].inv] = opening[c].read[l]

(* Every row has the quantity of the snapshot, whoever inserted it.          *)
AsSnapped(c) ==
  op[c].status # "deleted" =>
    \A r \in DOMAIN rows[c] : rows[c][r].system = snap[c][r[1]]

(* What a full count was opened with and still holds is as it was.           *)
TargetsHeld(c) ==
  \A r \in Targets(c) : Holds(c, r) => Stable(c, r) /\ Untouched(r[1], op[c].inv)

Steady(c) == Reserved(c) /\ AsSnapped(c) /\ TargetsHeld(c)

LEMMA FirstSteady == Init => \A c \in Counts : Steady(c)
<1> SUFFICES ASSUME Init, NEW c \in Counts PROVE Steady(c)
  OBVIOUS
<1>1. opening[c].step = "closed" /\ DOMAIN rows[c] = {}
  BY EmptyTables DEF Init
<1> QED
  BY <1>1 DEF Steady, Reserved, AsSnapped, TargetsHeld, BeingOpened, Targets

LEMMA UntouchedSame ==
  ASSUME UNCHANGED txs
  PROVE  \A l, i : Untouched(l, i)' <=> Untouched(l, i)
BY DEF Untouched

LEMMA OthersSteady ==
  ASSUME UNCHANGED stock, NEW c \in Counts, NEW d \in Counts \ {c}, Only(c), Steady(d)
  PROVE  Steady(d)'
<1>1. /\ op'[d] = op[d] /\ opening'[d] = opening[d] /\ snap'[d] = snap[d]
      /\ rows'[d] = rows[d] /\ balance' = balance /\ txs' = txs
  BY DEF Only, stock
<1> QED
  BY <1>1, UntouchedSame
  DEF Steady, Reserved, AsSnapped, TargetsHeld, BeingOpened, Targets, Holds, Stable

(* A count in progress writes rows that are steady.                          *)
LEMMA RowsSteady ==
  ASSUME NEW c \in Counts, AsSnapped(c), TargetsHeld(c), op[c].status = "in_progress",
         op'[c].inv = op[c].inv, op'[c].scope = op[c].scope, snap'[c] = snap[c],
         UNCHANGED stock,
         \A r \in DOMAIN rows'[c] :
            \/ r \in DOMAIN rows[c] /\ rows'[c][r].system = rows[c][r].system
            \/ /\ rows'[c][r].system = snap[c][r[1]]
               /\ op[c].scope = "full" /\ rows'[c][r].system > 0 =>
                    balance[r[1]][op[c].inv] = rows'[c][r].system
                    /\ Untouched(r[1], op[c].inv)
  PROVE  AsSnapped(c)' /\ TargetsHeld(c)'
<1>1. balance' = balance /\ txs' = txs
  BY DEF stock
<1>2. AsSnapped(c)'
  BY DEF AsSnapped
<1>3. ASSUME NEW r \in Targets(c)', Holds(c, r)'
      PROVE  Stable(c, r)' /\ Untouched(r[1], op[c].inv)'
  <2>1. r \in DOMAIN rows'[c] /\ op[c].scope = "full" /\ rows'[c][r].system > 0
    BY <1>3 DEF Targets
  <2>2. CASE r \in DOMAIN rows[c] /\ rows'[c][r].system = rows[c][r].system
    <3>1. r \in Targets(c)
      BY <2>1, <2>2 DEF Targets
    <3>2. Holds(c, r)
      BY <1>3 DEF Holds
    <3>3. Stable(c, r) /\ Untouched(r[1], op[c].inv)
      BY <3>1, <3>2 DEF TargetsHeld
    <3> QED
      BY <1>1, <2>2, <3>3, UntouchedSame DEF Stable
  <2>3. CASE balance[r[1]][op[c].inv] = rows'[c][r].system /\ Untouched(r[1], op[c].inv)
    BY <1>1, <2>3, UntouchedSame DEF Stable
  <2> QED
    BY <2>1, <2>2, <2>3
<1> QED
  BY <1>2, <1>3 DEF TargetsHeld

LEMMA RowAddedHas ==
  ASSUME NEW table, NEW l, NEW system
  PROVE  \A r \in DOMAIN WithRow(table, l, system) \ DOMAIN table :
            r[1] = l /\ WithRow(table, l, system)[r].system = system
BY DEF WithRow

LEMMA NewRowSteady ==
  ASSUME NEW c \in Counts, NEW l, NEW system, rows'[c] = WithRow(rows[c], l, system),
         <<l, 2>> \notin DOMAIN rows[c], system = snap[c][l],
         op[c].scope = "full" /\ system > 0 =>
           balance[l][op[c].inv] = system /\ Untouched(l, op[c].inv)
  PROVE  \A r \in DOMAIN rows'[c] :
            \/ r \in DOMAIN rows[c] /\ rows'[c][r].system = rows[c][r].system
            \/ /\ rows'[c][r].system = snap[c][r[1]]
               /\ op[c].scope = "full" /\ rows'[c][r].system > 0 =>
                    balance[r[1]][op[c].inv] = rows'[c][r].system
                    /\ Untouched(r[1], op[c].inv)
<1> SUFFICES ASSUME NEW r \in DOMAIN rows'[c], r \notin DOMAIN rows[c]
             PROVE  r[1] = l /\ rows'[c][r].system = system
  BY RowAdded
<1> QED
  BY RowAddedHas

LEMMA OpeningIsSteady ==
  ASSUME QuietOpening, ~ Crashes, CountInv, CountInv', NEW c \in Counts, Sound(c),
         Careful(c), Steady(c), UNCHANGED stock,
         \/ \E i \in Invs, scope \in Scopes : InsertOperation(c, i, scope)
         \/ ReadOpenings(c) \/ InsertSnapshots(c) \/ WithdrawEmpty(c) \/ Crash(c)
         \/ DeleteCount(c)
  PROVE  Steady(c)'
<1>s. balance' = balance /\ txs' = txs
  BY DEF stock
<1>e. ASSUME DOMAIN rows'[c] = {} PROVE AsSnapped(c)' /\ TargetsHeld(c)'
  BY <1>e DEF AsSnapped, TargetsHeld, Targets
<1>1. ASSUME NEW i \in Invs, NEW scope \in Scopes, InsertOperation(c, i, scope)
      PROVE  Steady(c)'
  <2>1. /\ DOMAIN rows'[c] = {} /\ opening'[c].step = "read"
        /\ \A t \in Txs : txs[t].kind = "none"
    BY <1>1 DEF InsertOperation, NoCount, Closed, CountInv, Shape, Linked
  <2> QED
    BY <1>s, <1>e, <2>1 DEF Steady, Reserved
<1>2. CASE ReadOpenings(c)
  <2>1. PICK read : opening' = [opening EXCEPT ![c] =
                      [step |-> "snapshot",
                       read |-> [l \in read |-> balance[l][op[c].inv]], left |-> {}]]
    BY <1>2 DEF ReadOpenings
  <2>2. opening'[c].read = [l \in read |-> balance[l][op[c].inv]] /\ op' = op
    BY <1>2, <2>1 DEF ReadOpenings, CountInv, Shape
  <2>3. DOMAIN rows'[c] = {} /\ BeingOpened(c)
    BY <1>2 DEF ReadOpenings, CountInv, Linked, BeingOpened
  <2> QED
    BY <1>s, <1>e, <2>2, <2>3 DEF Steady, Reserved
<1>3. CASE InsertSnapshots(c)
  <2>1. /\ op' = op /\ DOMAIN rows'[c] = {} /\ opening[c].step = "snapshot"
        /\ opening'[c].step = "items" => opening'[c].read = opening[c].read
        /\ opening'[c].step # "snapshot"
    BY <1>3, EmptyTables DEF InsertSnapshots, CountInv, Shape, Linked
  <2> QED
    BY <1>s, <1>e, <2>1 DEF Steady, Reserved, BeingOpened
<1>4. CASE WithdrawEmpty(c) \/ DeleteCount(c)
  <2>1. op'[c].status = "deleted" /\ snap'[c] = NoRows
    BY <1>4, WithdrawEmptyKeeps, DeleteCountKeeps
    DEF WithdrawEmpty, DeleteCount, CountInv, Shape
  <2>2. opening'[c].step = "closed" /\ DOMAIN snap'[c] = {}
    BY <2>1, EmptyTables DEF CountInv, Linked
  <2> QED
    BY <2>1, <2>2 DEF Steady, Reserved, AsSnapped, TargetsHeld, Holds, BeingOpened
<1>5. CASE Crash(c)
  BY <1>5 DEF Crash
<1> QED
  BY <1>1, <1>2, <1>3, <1>4, <1>5

LEMMA InsertItemIsSteady ==
  ASSUME QuietOpening, CountInv, NEW c \in Counts, Sound(c),
         Careful(c), Steady(c), UNCHANGED stock, NEW l \in Lots, InsertItem(c, l)
  PROVE  Steady(c)'
<1>s. balance' = balance /\ txs' = txs
  BY DEF stock
<1>1. /\ op' = op /\ snap' = snap /\ op[c].status = "in_progress"
      /\ opening[c].step = "items" /\ l \in opening[c].left
      /\ <<l, 2>> \notin DOMAIN rows[c]
      /\ rows'[c] = WithRow(rows[c], l, opening[c].read[l])
  BY DEF InsertItem, Careful, Calm, BeingOpened, CountInv, Shape
<1>2. /\ opening'[c].step # "snapshot"
      /\ opening'[c].step = "items" => opening'[c].read = opening[c].read
  BY <1>1, EmptyTables DEF InsertItem, CountInv, Shape
<1>3. Reserved(c)'
  BY <1>s, <1>1, <1>2 DEF Steady, Reserved, BeingOpened
<1>4. l \in DOMAIN opening[c].read /\ opening[c].read[l] = snap[c][l]
  BY <1>1 DEF CountInv, Linked, Positive
<1>5. balance[l][op[c].inv] = opening[c].read[l] /\ Untouched(l, op[c].inv)
  BY <1>1, <1>4 DEF Steady, Reserved, BeingOpened, Untouched
<1> QED
  BY <1>1, <1>3, <1>4, <1>5, NewRowSteady, RowsSteady DEF Steady

LEMMA ClerksAreSteady ==
  ASSUME QuietOpening, ~ Crashes, CountInv, NEW c \in Counts, Sound(c),
         Careful(c), Steady(c), UNCHANGED stock,
         \/ \E k \in Clerks : CompleteCount(k, c)
         \/ \E k \in Clerks, l \in Lots : ScanLot(k, c, l)
         \/ \E r \in DOMAIN rows[c], n \in Counted : RecordItem(c, r, n)
  PROVE  Steady(c)'
<1>s. balance' = balance /\ txs' = txs
  BY DEF stock
<1>1. /\ op[c].status = "in_progress" /\ opening[c].step = "closed"
      /\ UNCHANGED <<opening, snap>>
  BY DEF CompleteCount, ScanLot, RecordItem, Mutable, Rested, BeingOpened
<1>2. Reserved(c)'
  BY <1>1 DEF Reserved, BeingOpened
<1>3. ASSUME NEW k \in Clerks, CompleteCount(k, c) PROVE Steady(c)'
  <2>1. op' = [op EXCEPT ![c].status = "completed"] /\ rows' = rows
    BY <1>3 DEF CompleteCount
  <2>2. op'[c].scope = op[c].scope /\ op'[c].inv = op[c].inv
    BY <2>1 DEF CountInv, Shape, OpRow
  <2> QED
    BY <1>1, <1>2, <2>1, <2>2, RowsSteady DEF Steady
<1>4. ASSUME NEW k \in Clerks, NEW l \in Lots, ScanLot(k, c, l) PROVE Steady(c)'
  <2>1. /\ op' = op /\ l \in DOMAIN snap[c] /\ <<l, 2>> \notin DOMAIN rows[c]
        /\ rows'[c] = WithRow(rows[c], l, snap[c][l])
    BY <1>4 DEF ScanLot, CountInv, Shape
  <2>2. ASSUME op[c].scope = "full", snap[c][l] > 0
        PROVE  balance[l][op[c].inv] = snap[c][l] /\ Untouched(l, op[c].inv)
    <3>1. PICK r \in DOMAIN rows[c] : r[1] = l
      BY <1>1, <2>1, <2>2 DEF Careful, Covered, Positive, LotsOf
    <3>2. rows[c][r].system = snap[c][l]
      BY <1>1, <3>1 DEF Steady, AsSnapped
    <3>3. r \in Targets(c) /\ Holds(c, r)
      BY <1>1, <2>1, <2>2, <3>1, <3>2 DEF Targets, Holds
    <3> QED
      BY <3>1, <3>2, <3>3 DEF Steady, TargetsHeld, Stable
  <2> QED
    BY <1>1, <1>2, <2>1, <2>2, NewRowSteady, RowsSteady DEF Steady
<1>5. ASSUME NEW r \in DOMAIN rows[c], NEW n \in Counted, RecordItem(c, r, n)
      PROVE  Steady(c)'
  <2>1. op' = op /\ rows' = [rows EXCEPT ![c] = [rows[c] EXCEPT ![r] =
                                               [rows[c][r] EXCEPT !.counted = n]]]
    BY <1>5 DEF RecordItem
  <2>2. rows'[c] = [rows[c] EXCEPT ![r] = [rows[c][r] EXCEPT !.counted = n]]
    BY <2>1 DEF CountInv, Shape
  <2>3. [rows[c][r] EXCEPT !.counted = n].system = rows[c][r].system
    BY DEF Sound, ItemRow
  <2>4. \A x \in DOMAIN rows'[c] : x \in DOMAIN rows[c]
                                   /\ rows'[c][x].system = rows[c][x].system
    BY <2>2, <2>3
  <2> QED
    BY <1>1, <1>2, <2>1, <2>4, RowsSteady DEF Steady
<1> QED
  BY <1>3, <1>4, <1>5

LEMMA SettlingIsSteady ==
  ASSUME Stock!TypeInv, CountInv, \A d \in Counts : Sound(d),
         \A d \in Counts : Careful(d), \A d \in Counts : Steady(d), Apart,
         NEW c \in Counts, ApplySettlement(c)
  PROVE  \A d \in Counts : Steady(d)'
<1>1. /\ op' = [op EXCEPT ![c].posted = TRUE] /\ UNCHANGED <<opening, snap, rows>>
      /\ op[c].status = "completed" /\ Unsettled(c) /\ txs' = txs
  BY DEF ApplySettlement, Unsettled, Ledger!PostSettlement
<1>2. ASSUME NEW d \in Counts
      PROVE  /\ op'[d].inv = op[d].inv /\ op'[d].scope = op[d].scope
             /\ op'[d].status = op[d].status
             /\ d # c => op'[d] = op[d]
             /\ d = c => op'[d].posted
  <2>1. op[d] \in OpRow
    BY DEF CountInv, Shape
  <2> QED
    BY <1>1, <2>1 DEF OpRow, CountInv, Shape
<1>t. \A l \in Lots, i \in Invs : balance[l][i] \in Nat
  BY DEF Stock!TypeInv, Stock!TypeOK, Lots, Invs, Stock!Lots, Stock!Invs
<1>3. ASSUME NEW d \in Counts, d # c, Unsettled(d), NEW l \in Known
      PROVE  balance'[l][op[d].inv] = balance[l][op[d].inv]
  <2>1. op[d].inv # op[c].inv
    BY <1>1, <1>3 DEF Apart
  <2>2. l \in Lots /\ op[d].inv \in Invs
    BY <1>3 DEF Known, Sound, Unsettled
  <2>3. balance'[l][op[d].inv] = balance[l][op[d].inv] + 0
    BY <2>1, <2>2, PostingMoves
  <2> QED
    BY <2>2, <2>3, <1>t
<1> SUFFICES ASSUME NEW d \in Counts PROVE Steady(d)'
  OBVIOUS
<1>4. Reserved(d)'
  <2>1. ASSUME BeingOpened(d), NEW l \in DOMAIN opening[d].read
        PROVE  balance'[l][op[d].inv] = balance[l][op[d].inv]
    <3>1. op[d].status = "in_progress" /\ d # c
      BY <1>1, <2>1 DEF Careful, Calm
    <3>2. l \in Known
      BY <2>1 DEF Sound, IsTable
    <3> QED
      BY <1>3, <3>1, <3>2 DEF Unsettled
  <2> QED
    BY <1>1, <1>2, <2>1 DEF Steady, Reserved, BeingOpened
<1>5. AsSnapped(d)'
  BY <1>1, <1>2 DEF Steady, AsSnapped
<1>6. ASSUME NEW r \in Targets(d)', Holds(d, r)'
      PROVE  Stable(d, r)' /\ Untouched(r[1], op[d].inv)'
  <2>1. r \in Targets(d) /\ Holds(d, r) /\ r \in DOMAIN rows[d] /\ d # c
    BY <1>1, <1>2, <1>6 DEF Targets, Holds
  <2>2. Unsettled(d)
    BY <2>1 DEF Unsettled, Holds, Discrepant
  <2>3. r[1] \in Known
    BY <2>1 DEF Holds, Sound, IsTable
  <2>4. balance'[r[1]][op[d].inv] = balance[r[1]][op[d].inv]
    BY <1>3, <2>1, <2>2, <2>3
  <2>5. Stable(d, r) /\ Untouched(r[1], op[d].inv)
    BY <2>1 DEF Steady, TargetsHeld
  <2> QED
    BY <1>1, <1>2, <2>4, <2>5, UntouchedSame DEF Stable
<1> QED
  BY <1>4, <1>5, <1>6 DEF Steady, TargetsHeld

LEMMA MovingIsSteady ==
  ASSUME QuietOpening, "recipient_return" \notin Kinds, Stock!TypeInv,
         \A d \in Counts : Sound(d), \A d \in Counts : Steady(d), MoveStock
  PROVE  \A d \in Counts : Steady(d)'
<1>1. UNCHANGED <<op, opening, snap, rows>> /\ \A d \in Counts : ~ BeingOpened(d)
  BY DEF MoveStock, Rested, counts
<1> SUFFICES ASSUME NEW d \in Counts PROVE Steady(d)'
  OBVIOUS
<1>2. Reserved(d)' /\ AsSnapped(d)'
  BY <1>1 DEF Reserved, BeingOpened, Steady, AsSnapped
<1>3. ASSUME NEW r \in Targets(d)', Holds(d, r)'
      PROVE  Stable(d, r)' /\ Untouched(r[1], op[d].inv)'
  <2>1. r \in Targets(d) /\ Holds(d, r) /\ r \in DOMAIN rows[d]
    BY <1>1, <1>3 DEF Targets, Holds
  <2>2. r[1] \in Lots /\ source[r[1]] # "none" /\ op[d].inv \in Invs
    BY <2>1 DEF Holds, Sound, IsTable, Known
  <2>3. <<r[1], op[d].inv>> \in FrozenPairs
    BY <2>1 DEF FrozenPairs
  <2>4. Stable(d, r) /\ Untouched(r[1], op[d].inv)
    BY <2>1 DEF Steady, TargetsHeld
  <2>5. balance'[r[1]][op[d].inv] = balance[r[1]][op[d].inv]
        /\ Untouched(r[1], op[d].inv)'
    BY <2>2, <2>3, <2>4, <1>1, MovesElsewhere
  <2> QED
    BY <1>1, <2>4, <2>5 DEF Stable
<1> QED
  BY <1>2, <1>3 DEF Steady, TargetsHeld

(* Openings, clerks, settlements and stock, when no two counts overlap.      *)
Calmly ==
  /\ Together
  /\ \A c \in Counts : Careful(c)
  /\ \A c \in Counts : Steady(c)

LEMMA StepSteady ==
  ASSUME Unbounded, QuietOpening, ~ Crashes, "recipient_return" \notin Kinds,
         Calmly, Apart, [Next]_vars
  PROVE  Calmly'
<1>1. Together' /\ CountInv'
  BY TogetherKept DEF Calmly, Together
<1>2. (\A c \in Counts : Careful(c))'
  BY CarefulStep DEF Calmly, Together
<1>3. ASSUME NEW c \in Counts, CountWrites(c) PROVE \A d \in Counts : Steady(d)'
  <2>1. Only(c) /\ UNCHANGED stock
    BY <1>3, WritesKeep DEF Calmly, Together
  <2>2. ASSUME NEW l \in Lots, InsertItem(c, l) PROVE Steady(c)'
    BY <2>1, <2>2, InsertItemIsSteady DEF Calmly, Together
  <2>3. Steady(c)'
    BY <1>1, <1>3, <2>1, <2>2, OpeningIsSteady, ClerksAreSteady
    DEF CountWrites, Calmly, Together
  <2> QED
    BY <2>1, <2>3, OthersSteady DEF Calmly
<1>4. ASSUME NEW c \in Counts, ApplySettlement(c) PROVE \A d \in Counts : Steady(d)'
  BY <1>4, SettlingIsSteady DEF Calmly, Together
<1>5. ASSUME MoveStock PROVE \A d \in Counts : Steady(d)'
  BY <1>5, MovingIsSteady DEF Calmly, Together
<1>6. ASSUME UNCHANGED <<stock, op, opening, snap, rows>>
      PROVE  \A d \in Counts : Steady(d)'
  BY <1>6, UntouchedSame
  DEF Calmly, Steady, Reserved, AsSnapped, TargetsHeld, BeingOpened, Targets, Holds,
      Stable, stock
<1>7. \A d \in Counts : Steady(d)'
  BY <1>3, <1>4, <1>5, <1>6, NextSplit DEF BeginRequest, vars, counts
<1> QED
  BY <1>1, <1>2, <1>7 DEF Calmly

LEMMA SteadyCounts ==
  ASSUME Unbounded, QuietOpening, ~ Crashes, "recipient_return" \notin Kinds
  PROVE  Spec /\ []Apart => []Calmly
<1>1. Init => Calmly
  BY Unbounded, TogetherKept, FirstCareful, FirstSteady DEF Calmly
<1>2. Calmly /\ Apart /\ [Next]_vars => Calmly'
  BY Unbounded, QuietOpening, ~ Crashes, "recipient_return" \notin Kinds, StepSteady
<1> QED
  BY <1>1, <1>2, PTL DEF Spec

(* A full count that is alone in its warehouse has a stable reference,       *)
(* however clerks and movements interleave with it: every lot it was opened  *)
(* with has, until the final save, the balance that was read then.           *)
THEOREM CountsHaveReference ==
  ASSUME Unbounded, QuietOpening, ~ Crashes, "recipient_return" \notin Kinds
  PROVE  Spec /\ []Apart => []TargetsStable
<1>1. Calmly => TargetsStable
  <2> SUFFICES ASSUME Calmly, NEW c \in Counts, op[c].status = "in_progress",
                      NEW r \in Targets(c)
               PROVE  Stable(c, r)
    BY DEF TargetsStable
  <2>1. r[1] \in DOMAIN snap[c]
    BY DEF Targets, Calmly, Together, CountInv, Linked, LotsOf
  <2> QED
    BY <2>1 DEF Holds, Calmly, Steady, TargetsHeld
<1> QED
  BY <1>1, SteadyCounts, PTL

(* And its settlement does what it is for: the balance of each of its lots   *)
(* that was found to differ becomes what was counted.                        *)
THEOREM SettlementsReachCount ==
  ASSUME Unbounded, QuietOpening, ~ Crashes, "recipient_return" \notin Kinds
  PROVE  Spec /\ []Apart => PostingReachesCount
<1> DEFINE Reached(c) == \A r \in Discrepant(c) \cap Targets(c) :
                            balance'[r[1]][op[c].inv] = rows[c][r].counted
<1>1. ASSUME Calmly, [Next]_vars, NEW c \in Counts, ~ op[c].posted, op'[c].posted
      PROVE  ApplySettlement(c)
  <2>1. ASSUME NEW d \in Counts, CountWrites(d) PROVE FALSE
    <3>1. Only(d)
      BY <1>1, <2>1, WritesKeep DEF Calmly, Together
    <3>2. d = c
      BY <1>1, <3>1 DEF Only
    <3>3. op[c] \in OpRow /\ DOMAIN op = Counts
      BY <1>1 DEF Calmly, Together, CountInv, Shape
    <3>4. \/ op' = op
          \/ op' = [op EXCEPT ![c].status = "completed"]
          \/ op' = [op EXCEPT ![c].status = "deleted"]
          \/ \E i \in Invs, scope \in Scopes : InsertOperation(c, i, scope)
      BY <2>1, <3>2
      DEF CountWrites, ReadOpenings, InsertSnapshots, WithdrawEmpty, Crash, InsertItem,
          CompleteCount, ScanLot, RecordItem, DeleteCount
    <3>5. ASSUME NEW i \in Invs, NEW scope \in Scopes, InsertOperation(c, i, scope)
          PROVE  ~ op'[c].posted
      BY <3>3, <3>5 DEF InsertOperation
    <3>6. op'[c] = op[c] \/ op'[c].posted = op[c].posted \/ ~ op'[c].posted
      BY <3>3, <3>4, <3>5 DEF OpRow
    <3> QED
      BY <1>1, <3>6
  <2>2. ASSUME NEW d \in Counts, ApplySettlement(d) PROVE d = c
    BY <1>1, <2>2 DEF ApplySettlement, Calmly, Together, CountInv, Shape
  <2> QED
    BY <1>1, <2>1, <2>2, NextSplit DEF BeginRequest, MoveStock, vars, counts
<1>2. ASSUME Calmly, NEW c \in Counts, ApplySettlement(c) PROVE Reached(c)
  <2> SUFFICES ASSUME NEW r \in Discrepant(c) \cap Targets(c)
               PROVE  balance'[r[1]][op[c].inv] = rows[c][r].counted
    OBVIOUS
  <2>1. r \in DOMAIN rows[c] /\ op[c].status = "completed" /\ ~ op[c].posted
        /\ rows[c][r].counted \notin {Uncounted, rows[c][r].system}
    BY <1>2 DEF ApplySettlement, Discrepant
  <2>2. r[1] \in DOMAIN snap[c]
    BY <1>2, <2>1 DEF Calmly, Together, CountInv, Linked, LotsOf
  <2>3. Holds(c, r)
    BY <2>1, <2>2 DEF Holds
  <2>4. Stable(c, r) /\ r[1] \in Lots /\ op[c].inv \in Invs /\ rows[c][r] \in ItemRow
    BY <1>2, <2>1, <2>2, <2>3
    DEF Calmly, Together, Steady, TargetsHeld, Sound, IsTable, Known
  <2>5. <<r[1], op[c].inv>> \in FrozenPairs
    BY <2>1, <2>3 DEF FrozenPairs
  <2>6. r \in {<<r[1], 1>>} /\ r \in RowsOf(rows[c], r[1])
    BY <1>2, <2>1 DEF ApplySettlement, SingleRows, RowsOf
  <2>7. balance'[r[1]][op[c].inv] = balance[r[1]][op[c].inv] + Difference(c, r[1])
    BY <1>2, <2>4, <2>5, <2>6, PostingMoves
  <2>8. Difference(c, r[1]) = rows[c][r].counted - rows[c][r].system
    BY <2>6 DEF Difference
  <2> QED
    BY <2>4, <2>7, <2>8 DEF Stable, ItemRow
<1>3. Calmly /\ [Next]_vars =>
        [\A c \in Counts : ~ op[c].posted /\ op'[c].posted => Reached(c)]_vars
  BY <1>1, <1>2
<1> QED
  BY <1>3, SteadyCounts, Unbounded, QuietOpening, ~ Crashes,
     "recipient_return" \notin Kinds, PTL DEF Spec, PostingReachesCount

-----------------------------------------------------------------------------
(* One row per lot: the opening inserts each lot once and clerks rest while  *)
(* it does, and a scan that reads after it has the lock sees every row.      *)
Single(c) ==
  /\ \A r \in DOMAIN rows[c] : r = <<r[1], 1>>
  /\ opening[c].step = "items" => LotsOf(rows[c]) \cap opening[c].left = {}

LEMMA FirstRowOfLot ==
  ASSUME NEW table, NEW l, NEW system, RowsOf(table, l) = {}
  PROVE  /\ DOMAIN WithRow(table, l, system) = DOMAIN table \cup {<<l, 1>>}
         /\ LotsOf(WithRow(table, l, system)) = LotsOf(table) \cup {l}
<1>1. <<l, 1>> \notin DOMAIN table /\ <<l, 2>> \notin DOMAIN table
  BY DEF RowsOf
<1>2. 1 + (IF <<l, 1>> \in DOMAIN table THEN 1 ELSE 0) = 1
  BY <1>1
<1>3. DOMAIN WithRow(table, l, system) = DOMAIN table \cup {<<l, 1>>}
  BY <1>2 DEF WithRow
<1> QED
  BY <1>1, <1>3, RowAdded

LEMMA FirstSingle == Init => \A c \in Counts : Single(c)
<1> SUFFICES ASSUME Init, NEW c \in Counts PROVE Single(c)
  OBVIOUS
<1>1. opening[c].step = "closed" /\ DOMAIN rows[c] = {}
  BY EmptyTables DEF Init
<1> QED
  BY <1>1 DEF Single

LEMMA WritesSingle ==
  ASSUME QuietOpening, ~ SnapshotAtBegin, CountInv, CountInv', NEW c \in Counts,
         Single(c), CountWrites(c)
  PROVE  Single(c)'
<1>1. ASSUME DOMAIN rows'[c] = DOMAIN rows[c] \/ DOMAIN rows'[c] = {},
             opening'[c].step # "items"
      PROVE  Single(c)'
  BY <1>1 DEF Single
<1>2. ASSUME NEW i \in Invs, NEW scope \in Scopes, InsertOperation(c, i, scope)
      PROVE  Single(c)'
  <2>1. rows' = rows /\ opening'[c].step = "read"
    BY <1>2 DEF InsertOperation, CountInv, Shape, Closed
  <2> QED
    BY <1>1, <2>1
<1>3. CASE ReadOpenings(c)
  <2>1. rows' = rows /\ opening'[c].step = "snapshot"
    BY <1>3 DEF ReadOpenings, CountInv, Shape
  <2> QED
    BY <1>1, <2>1
<1>4. CASE InsertSnapshots(c)
  <2>1. rows' = rows /\ DOMAIN rows[c] = {}
    BY <1>4 DEF InsertSnapshots, CountInv, Linked
  <2> QED
    BY <2>1 DEF Single, LotsOf
<1>5. CASE WithdrawEmpty(c) \/ DeleteCount(c) \/ Crash(c)
  <2>1. rows'[c] \in {rows[c], NoRows} /\ opening'[c] = Closed
    BY <1>5 DEF WithdrawEmpty, DeleteCount, Crash, CountInv, Shape
  <2> QED
    BY <1>1, <2>1, EmptyTables
<1>6. ASSUME NEW l \in Lots, InsertItem(c, l) PROVE Single(c)'
  <2>1. /\ opening[c].step = "items" /\ l \in opening[c].left
        /\ rows'[c] = WithRow(rows[c], l, opening[c].read[l])
        /\ opening'[c].step = "items" => opening'[c].left = opening[c].left \ {l}
    BY <1>6, EmptyTables DEF InsertItem, CountInv, Shape
  <2>2. RowsOf(rows[c], l) = {}
    BY <2>1 DEF Single, LotsOf, RowsOf
  <2> DEFINE added == WithRow(rows[c], l, opening[c].read[l])
  <2>a. /\ DOMAIN added = DOMAIN rows[c] \cup {<<l, 1>>}
        /\ LotsOf(added) = LotsOf(rows[c]) \cup {l}
    BY <2>2, FirstRowOfLot
  <2>3. /\ DOMAIN rows'[c] = DOMAIN rows[c] \cup {<<l, 1>>}
        /\ LotsOf(rows'[c]) = LotsOf(rows[c]) \cup {l}
    BY <2>1, <2>a
  <2>4. LotsOf(rows[c]) \cap opening[c].left = {}
    BY <2>1 DEF Single
  <2>5. \A r \in DOMAIN rows'[c] : r = <<r[1], 1>>
    BY <2>3 DEF Single
  <2>6. opening'[c].step = "items" => LotsOf(rows'[c]) \cap opening'[c].left = {}
    BY <2>1, <2>3, <2>4
  <2> QED
    BY <2>5, <2>6 DEF Single
<1>7. ASSUME NEW k \in Clerks, NEW l \in Lots, ScanLot(k, c, l) PROVE Single(c)'
  <2>1. /\ opening' = opening /\ opening[c].step = "closed" /\ RowsOf(rows[c], l) = {}
        /\ rows'[c] = WithRow(rows[c], l, snap[c][l])
    BY <1>7 DEF ScanLot, Mutable, Rested, BeingOpened, Seen, CountInv, Shape
  <2> DEFINE added == WithRow(rows[c], l, snap[c][l])
  <2>a. DOMAIN added = DOMAIN rows[c] \cup {<<l, 1>>}
    BY <2>1, FirstRowOfLot
  <2>2. DOMAIN rows'[c] = DOMAIN rows[c] \cup {<<l, 1>>}
    BY <2>1, <2>a
  <2> QED
    BY <2>1, <2>2 DEF Single
<1>8. ASSUME NEW k \in Clerks, CompleteCount(k, c) PROVE Single(c)'
  BY <1>8 DEF CompleteCount, Single
<1>9. ASSUME NEW r \in DOMAIN rows[c], NEW n \in Counted, RecordItem(c, r, n)
      PROVE  Single(c)'
  BY <1>9, RecordItemKeeps DEF RecordItem, Single, LotsOf
<1> QED
  BY <1>2, <1>3, <1>4, <1>5, <1>6, <1>7, <1>8, <1>9 DEF CountWrites

LEMMA SingleKept ==
  ASSUME QuietOpening, ~ SnapshotAtBegin
  PROVE  Spec => []\A c \in Counts : Single(c)
<1>1. CountInv /\ CountInv' /\ (\A c \in Counts : Single(c)) /\ [Next]_vars
        => (\A c \in Counts : Single(c))'
  <2> SUFFICES ASSUME CountInv, CountInv', \A c \in Counts : Single(c), [Next]_vars,
                      NEW d \in Counts
               PROVE  Single(d)'
    OBVIOUS
  <2>1. ASSUME NEW c \in Counts, CountWrites(c) PROVE Single(d)'
    <3>1. CASE d = c
      BY <2>1, <3>1, QuietOpening, ~ SnapshotAtBegin, WritesSingle
    <3>2. CASE d # c
      BY <2>1, <3>2, WritesKeep DEF Only, Single
    <3> QED
      BY <3>1, <3>2
  <2>2. ASSUME UNCHANGED <<opening, rows>> PROVE Single(d)'
    BY <2>2 DEF Single
  <2> QED
    BY <2>1, <2>2, NextSplit DEF BeginRequest, ApplySettlement, MoveStock, vars, counts
<1> QED
  BY <1>1, FirstSingle, CountsLinked, PTL DEF Spec

(* The scope of a count is that of the request that opened it.               *)
Scoped(c) == op[c].status # "none" => op[c].scope \in Scopes

LEMMA ScopesKept == Spec => []\A c \in Counts : Scoped(c)
<1>1. Init => \A c \in Counts : Scoped(c)
  BY DEF Init, NoCount, Scoped
<1>2. CountInv /\ (\A c \in Counts : Scoped(c)) /\ [Next]_vars
        => (\A c \in Counts : Scoped(c))'
  <2> SUFFICES ASSUME CountInv, \A c \in Counts : Scoped(c), [Next]_vars,
                      NEW d \in Counts
               PROVE  Scoped(d)'
    OBVIOUS
  <2>0. op \in [Counts -> OpRow] /\ op[d] \in OpRow
    BY DEF CountInv, Shape
  <2>1. ASSUME NEW c \in Counts, NEW i \in Invs, NEW scope \in Scopes,
               InsertOperation(c, i, scope)
        PROVE  Scoped(d)'
    BY <2>0, <2>1 DEF InsertOperation, Scoped
  <2>2. ASSUME NEW c \in Counts, op[c].status # "none",
               \/ op' = [op EXCEPT ![c].status = "deleted"]
               \/ op' = [op EXCEPT ![c].status = "completed"]
               \/ op' = [op EXCEPT ![c].posted = TRUE]
        PROVE  Scoped(d)'
    BY <2>0, <2>2 DEF Scoped, OpRow
  <2>3. ASSUME NEW c \in Counts, WithdrawEmpty(c) \/ DeleteCount(c) PROVE Scoped(d)'
    BY <2>2, <2>3 DEF WithdrawEmpty, DeleteCount, CountInv, Linked
  <2>4. ASSUME NEW c \in Counts, NEW k \in Clerks, CompleteCount(k, c) PROVE Scoped(d)'
    BY <2>2, <2>4 DEF CompleteCount, Mutable
  <2>5. ASSUME NEW c \in Counts, ApplySettlement(c) PROVE Scoped(d)'
    BY <2>2, <2>5 DEF ApplySettlement
  <2>6. ASSUME op' = op PROVE Scoped(d)'
    BY <2>6 DEF Scoped
  <2> QED
    BY <2>1, <2>3, <2>4, <2>5, <2>6, StepCases
    DEF ReadOpenings, InsertSnapshots, Crash, InsertItem, ScanLot, RecordItem
<1> QED
  BY <1>1, <1>2, CountsLinked, PTL DEF Spec

LEMMA SameRules ==
  /\ Stock!QuantityMatchesLots => \A i \in Invs : Ledger!InventoryAgrees(i)
  /\ Stock!RemainingMatchesBalances => \A l \in Lots : Ledger!LotAgrees(l)
BY Zenon
DEF Stock!QuantityMatchesLots, Stock!RemainingMatchesBalances, Stock!InventoryAgrees,
    Ledger!InventoryAgrees, Stock!LotAgrees, Ledger!LotAgrees, Stock!InvSum, Ledger!InvSum,
    Stock!LotSum, Ledger!LotSum, Stock!Total, Ledger!Total, Stock!Lots, Ledger!Lots,
    Stock!Invs, Ledger!Invs, Lots, Invs

(* A saved full count that is alone in its warehouse can be settled: each    *)
(* discrepancy has one row, the sums that a settlement checks agree, and no  *)
(* balance would become negative.  So the lots it froze are not frozen for   *)
(* ever.                                                                     *)
THEOREM SavedCanBeSettled ==
  ASSUME Unbounded, Counted \subseteq Nat, Scopes \subseteq {"full"}, QuietOpening,
         ~ Crashes, ~ SnapshotAtBegin, Stock!OnlyRelativeMovements
  PROVE  Spec /\ []Apart => []UnsettledIsPostable
<1> DEFINE Agrees == /\ Stock!TypeOK /\ Stock!QuantityMatchesLots
                     /\ Stock!RemainingMatchesBalances
<1>1. "recipient_return" \notin Kinds
  BY DEF Stock!OnlyRelativeMovements
<1>2. Spec => [](Stock!TypeOK /\ Stock!QuantityMatchesLots
                 /\ Stock!RemainingMatchesBalances)
  BY Unbounded, Stock!OnlyRelativeMovements, CountedStockAgrees
<1>3. Spec => []TypeOK
  BY Unbounded, Counted \subseteq Nat, CountTypeCorrect
<1>4. Spec => []\A c \in Counts : Single(c)
  BY QuietOpening, ~ SnapshotAtBegin, SingleKept
<1>5. Spec /\ []Apart => []Calmly
  BY <1>1, Unbounded, QuietOpening, ~ Crashes, SteadyCounts
<1>6. Spec => []\A c \in Counts : Scoped(c)
  BY ScopesKept
<1>7. Agrees /\ TypeOK /\ (\A c \in Counts : Single(c)) /\ (\A c \in Counts : Scoped(c))
        /\ Calmly => UnsettledIsPostable
  <2> SUFFICES ASSUME Agrees, TypeOK, \A c \in Counts : Single(c),
                      \A c \in Counts : Scoped(c), Calmly,
                      NEW c \in Counts, op[c].status = "completed", ~ op[c].posted
               PROVE  /\ SingleRows(c)
                      /\ \A r \in Discrepant(c) :
                            /\ Ledger!LotAgrees(r[1]) /\ Ledger!InventoryAgrees(op[c].inv)
                            /\ balance[r[1]][op[c].inv] + Difference(c, r[1]) >= 0
    BY DEF UnsettledIsPostable
  <2>1. ASSUME NEW r \in Discrepant(c)
        PROVE  r \in DOMAIN rows[c] /\ r = <<r[1], 1>>
    BY <2>1 DEF Discrepant, Single
  <2>2. SingleRows(c)
    BY <2>1 DEF SingleRows, RowsOf, Single
  <2>3. ASSUME NEW r \in Discrepant(c)
        PROVE  r[1] \in DOMAIN snap[c] /\ r[1] \in Lots /\ op[c].inv \in Invs
    <3>1. r[1] \in DOMAIN snap[c]
      BY <2>1 DEF Calmly, Together, CountInv, Linked, LotsOf
    <3> QED
      BY <3>1 DEF Calmly, Together, Sound, IsTable, Known
  <2>4. ASSUME NEW r \in Discrepant(c)
        PROVE  balance[r[1]][op[c].inv] + Difference(c, r[1]) >= 0
    <3>1. /\ rows[c][r].system \in Nat /\ rows[c][r].counted \in Nat
          /\ rows[c][r].counted # rows[c][r].system
      <4>1. rows[c][r] \in ItemFields
        BY <2>1 DEF TypeOK, IsItems, IsTable, ItemFields
      <4> QED
        BY <2>4, <4>1 DEF Discrepant, ItemFields
    <3>2. Difference(c, r[1]) = rows[c][r].counted - rows[c][r].system
      BY <2>1 DEF Difference
    <3>3. balance[r[1]][op[c].inv] \in Nat
      BY <2>3 DEF Stock!TypeOK, Lots, Invs, Stock!Lots, Stock!Invs
    <3>4. CASE rows[c][r].system = 0
      BY <3>1, <3>2, <3>3, <3>4
    <3>5. CASE rows[c][r].system > 0
      <4>1. op[c].scope = "full"
        BY DEF Scoped
      <4>2. r \in Targets(c) /\ Holds(c, r)
        BY <2>1, <2>3, <2>4, <3>5, <4>1 DEF Targets, Holds, Discrepant
      <4>3. balance[r[1]][op[c].inv] = rows[c][r].system
        BY <4>2 DEF Calmly, Steady, TargetsHeld, Stable
      <4> QED
        BY <3>1, <3>2, <4>3
    <3> QED
      BY <3>1, <3>4, <3>5
  <2> QED
    BY <2>2, <2>3, <2>4, SameRules
<1> QED
  BY <1>2, <1>3, <1>4, <1>5, <1>6, <1>7, PTL

===============================================================================
