----------------------------- MODULE PmTaskProofs -----------------------------
(* Proofs about PmTask, for any items, technicians and scheduler runs.        *)
(*                                                                            *)
(* The life of the items needs no lock and no fresh read: each UPDATE of an   *)
(* item names the status it leaves.  The visits need the lock on the task,    *)
(* and the tickets that nobody but a closure moves an item waiting for one.   *)
EXTENDS PmTask, SequenceTheorems, TLAPS

ItemRow == [status : ItemStatuses \cup {"absent"}, result : Results \cup {None}]
ViewsTyped ==
  /\ DOMAIN view = Sessions
  /\ \A s \in Sessions : view[s] = None \/ view[s] \in Views
Visit == [open : BOOLEAN, members : SUBSET Members, leaders : SUBSET Members]

-----------------------------------------------------------------------------
(* Types.                                                                    *)

LEMMA RowsTyped ==
  ASSUME TypeOK
  PROVE  /\ task \in ItemStatuses \cup {"absent"}
         /\ item \in [Items -> ItemRow]
         /\ visits \in Seq(Visit)
         /\ tickets \in [Items -> Seq({"active", "closed"})]
BY DEF TypeOK, Views, Rows, ItemRow, Visit

LEMMA ViewTyped ==
  ASSUME NEW seen \in Views
  PROVE  /\ seen.task \in ItemStatuses \cup {"absent"}
         /\ seen.item \in [Items -> ItemRow]
         /\ seen.visits \in Seq(Visit)
         /\ seen.tickets \in [Items -> Seq({"active", "closed"})]
BY DEF Views, ItemRow, Visit

(* The rows are of their types if each of them is.                           *)
LEMMA TypeRows ==
  ASSUME task' \in ItemStatuses \cup {"absent"}, item' \in [Items -> ItemRow],
         visits' \in Seq(Visit), tickets' \in [Items -> Seq({"active", "closed"})]
  PROVE  Rows' \in Views
BY DEF Views, Rows, ItemRow, Visit

(* The status of the task is the status of an item, or a start value.        *)
LEMMA DeriveTyped ==
  ASSUME NEW items
  PROVE  Derive(items) \in ItemStatuses
BY DEF Derive, ItemStatuses

LEMMA UpdateTyped ==
  ASSUME NEW items \in [Items -> ItemRow], NEW i \in Items, NEW from, NEW to \in ItemRow
  PROVE  Update(items, i, from, to) \in [Items -> ItemRow]
BY DEF Update

(* Joining a visit changes the members and leaders of that visit only.       *)
LEMMA JoinedVisits ==
  ASSUME visits \in Seq(Visit), NEW k, NEW m \in Members, NEW w, w = Joined(k, m)
  PROVE  /\ w \in Seq(Visit)
         /\ Len(w) = Len(visits)
         /\ \A j \in 1..Len(visits) :
              /\ w[j].open = visits[j].open
              /\ visits[j].leaders # {} => w[j].leaders = visits[j].leaders
<1>1. visits \in [1..Len(visits) -> Visit] /\ Len(visits) \in Nat
  OBVIOUS
<1>2. CASE m \in visits[k].members
  BY <1>2 DEF Joined
<1>3. CASE m \notin visits[k].members
  <2>1. w = [visits EXCEPT ![k].members = @ \cup {m},
                           ![k].leaders = IF @ = {} THEN {m} ELSE @]
    BY <1>3 DEF Joined
  <2>2. DOMAIN w = 1..Len(visits)
    BY <1>1, <2>1
  <2>3. ASSUME NEW j \in 1..Len(visits)
        PROVE  /\ w[j] \in Visit
               /\ w[j].open = visits[j].open
               /\ visits[j].leaders # {} => w[j].leaders = visits[j].leaders
    <3>1. visits[j] \in Visit
      BY <1>1
    <3>2. CASE j = k
      <4>1. w[j] = [visits[j] EXCEPT !.members = @ \cup {m},
                                     !.leaders = IF @ = {} THEN {m} ELSE @]
        BY <1>1, <2>1, <3>2
      <4>2. \A v \in Visit :
              LET u == [v EXCEPT !.members = @ \cup {m},
                                 !.leaders = IF @ = {} THEN {m} ELSE @] IN
              /\ u \in Visit
              /\ u.open = v.open
              /\ v.leaders # {} => u.leaders = v.leaders
        BY DEF Visit
      <4> QED
        BY <3>1, <4>1, <4>2
    <3>3. CASE j # k
      BY <1>1, <2>1, <3>1, <3>3
    <3> QED
      BY <3>2, <3>3
  <2>4. w \in [1..Len(visits) -> Visit]
    <3>1. w = [j \in 1..Len(visits) |-> w[j]]
      BY <2>1, <2>2
    <3> QED
      BY <2>3, <3>1
  <2>5. w \in Seq(Visit) /\ Len(w) = Len(visits)
    BY <1>1, <2>4
  <2> QED
    BY <1>3, <2>3, <2>5
<1> QED
  BY <1>2, <1>3

LEMMA EndTyped ==
  ASSUME TypeOK, NEW s \in Sessions, End(s)
  PROVE  ViewsTyped'
BY DEF TypeOK, ViewsTyped, End, Sessions

LEMMA OpenTyped ==
  ASSUME TypeOK, NEW s \in Sessions, Open(s)
  PROVE  TypeOK'
<1>1. Rows' \in Views /\ Rows \in Views
  BY DEF TypeOK, Open, rows, Rows
<1>2. ViewsTyped'
  BY <1>1 DEF TypeOK, ViewsTyped, Open
<1> QED
  BY <1>1, <1>2 DEF TypeOK, ViewsTyped, Open

(* The changes of an item and of the status of the task.                     *)
LEMMA ChangeTyped ==
  ASSUME TypeOK, NEW seen, NEW i \in Items, NEW from, NEW to \in ItemRow,
         Change(seen, i, from, to)
  PROVE  task' \in ItemStatuses \cup {"absent"} /\ item' \in [Items -> ItemRow]
BY RowsTyped, DeriveTyped, UpdateTyped DEF Change, Project

LEMMA JoinTyped ==
  ASSUME TypeOK, NEW m \in Members, JoinVisit(m)
  PROVE  visits' \in Seq(Visit)
BY RowsTyped, JoinedVisits DEF JoinVisit

LEMMA OpenOrJoinTyped ==
  ASSUME TypeOK, NEW m \in Members, OpenOrJoinVisit(m)
  PROVE  visits' \in Seq(Visit)
<1>1. [open |-> TRUE, members |-> {m}, leaders |-> {m}] \in Visit
  BY DEF Visit
<1>2. \A v \in Visit : Append(visits, v) \in Seq(Visit)
  BY RowsTyped
<1> QED
  BY <1>1, <1>2, JoinTyped DEF OpenOrJoinVisit

LEMMA RunTyped ==
  ASSUME TypeOK, NEW r \in Runners, RunStep(r) \/ CutShort(r)
  PROVE  TypeOK'
<1>1. CASE StartRun(r)
  BY <1>1 DEF TypeOK, StartRun, Idle, Rows, rows
<1>2. CASE GetOrCreateTask(r)
  <2>1. Rows' \in Views
    BY <1>2, RowsTyped, TypeRows DEF GetOrCreateTask, ItemStatuses
  <2> QED
    BY <1>2, <2>1 DEF TypeOK, GetOrCreateTask
<1>3. ASSUME NEW i \in Items, SelectItem(r, i) PROVE TypeOK'
  <2> DEFINE found == item[i] # Absent
             old == run[r]
             new == [old EXCEPT !.todo = @ \ {i},
                                !.pc = IF found THEN "items" ELSE "insert",
                                !.at = IF found THEN None ELSE i]
  <2>1. run' = [run EXCEPT ![r] = new]
    <3>1. \A p : ~found => (IF item[i] = Absent THEN p ELSE "items") = p
      OBVIOUS
    <3> QED
      BY <1>3 DEF SelectItem
  <2>2. old \in [pc : {"idle", "task", "items", "insert"},
                 todo : SUBSET Items, at : Items \cup {None}]
    BY DEF TypeOK
  <2>3. new \in [pc : {"idle", "task", "items", "insert"},
                todo : SUBSET Items, at : Items \cup {None}]
    <3> HIDE DEF found, old
    <3> QED
      BY <2>2
  <2>4. UNCHANGED <<active, rows, view, fails>>
    BY <1>3 DEF SelectItem
  <2> HIDE DEF new
  <2>5. run' \in [Runners -> [pc : {"idle", "task", "items", "insert"},
                              todo : SUBSET Items, at : Items \cup {None}]]
    BY <2>1, <2>3 DEF TypeOK
  <2> QED
    BY <2>4, <2>5 DEF TypeOK, Rows, rows
<1>4. CASE InsertItem(r)
  <2>1. [status |-> "pending", result |-> None] \in ItemRow
    BY DEF ItemRow, ItemStatuses
  <2>2. item' \in [Items -> ItemRow]
    BY <1>4, <2>1, RowsTyped DEF InsertItem
  <2>3. Rows' \in Views
    BY <1>4, <2>2, RowsTyped, TypeRows DEF InsertItem
  <2> QED
    BY <1>4, <2>3 DEF TypeOK, InsertItem
<1>5. CASE EndRun(r)
  BY <1>5 DEF TypeOK, EndRun, Idle, Rows, rows
<1>6. CASE CutShort(r)
  <2>1. fails' \in 0..MaxFails
    BY <1>6, BoundsAssumption DEF TypeOK, CutShort
  <2> QED
    BY <1>6, <2>1 DEF TypeOK, CutShort, Idle, Rows, rows
<1> QED
  BY <1>1, <1>2, <1>3, <1>4, <1>5, <1>6 DEF RunStep

LEMMA TechnicianTyped ==
  ASSUME TypeOK, NEW m \in Members, Technician(m)
  PROVE  TypeOK'
<1>1. CASE EndVisit(m)
  <2>1. PICK k \in OpenIn(visits) : visits' = [visits EXCEPT ![k].open = FALSE]
    BY <1>1 DEF EndVisit
  <2>2. visits' \in Seq(Visit)
    <3>1. visits \in [1..Len(visits) -> Visit]
      BY RowsTyped
    <3>2. ASSUME NEW v \in Visit PROVE [v EXCEPT !.open = FALSE] \in Visit
      BY DEF Visit
    <3>3. visits' \in [1..Len(visits) -> Visit]
      BY <2>1, <3>1, <3>2
    <3> QED
      BY <3>3, RowsTyped
  <2>3. Rows' \in Views
    BY <1>1, <2>2, RowsTyped, TypeRows DEF EndVisit
  <2> QED
    BY <1>1, <2>3 DEF TypeOK, EndVisit
<1>2. ASSUME NEW i \in Items, StartItem(m, i) PROVE TypeOK'
  <2>1. [status |-> "in_progress", result |-> None] \in ItemRow
    BY DEF ItemRow, ItemStatuses
  <2>2. item' \in [Items -> ItemRow]
    BY <1>2, <2>1, RowsTyped, UpdateTyped DEF StartItem
  <2>3. visits' \in Seq(Visit)
    BY <1>2, OpenOrJoinTyped DEF StartItem
  <2>4. task' \in ItemStatuses \cup {"absent"}
    BY <1>2, RowsTyped DEF StartItem, ItemStatuses
  <2>5. Rows' \in Views
    BY <1>2, <2>2, <2>3, <2>4, RowsTyped, TypeRows DEF StartItem
  <2> QED
    BY <1>2, <2>5 DEF TypeOK, StartItem
<1>3. ASSUME NEW i \in Items, ResumeItem(m, i) PROVE TypeOK'
  <2>1. [status |-> "in_progress", result |-> "needs_material"] \in ItemRow
    BY DEF ItemRow, ItemStatuses, Results
  <2>2. visits' \in Seq(Visit)
    BY <1>3, OpenOrJoinTyped DEF ResumeItem
  <2>3. Rows' \in Views
    BY <1>3, <2>1, <2>2, ChangeTyped, RowsTyped, TypeRows DEF ResumeItem
  <2> QED
    BY <1>3, <2>3 DEF TypeOK, ResumeItem
<1>4. ASSUME NEW i \in Items, CreateTicket(m, i) PROVE TypeOK'
  <2>1. tickets' \in [Items -> Seq({"active", "closed"})]
    BY <1>4, RowsTyped DEF CreateTicket
  <2>2. Rows' \in Views
    BY <1>4, <2>1, RowsTyped, TypeRows DEF CreateTicket
  <2> QED
    BY <1>4, <2>2 DEF TypeOK, CreateTicket
<1>5. ASSUME NEW i \in Items, NEW r \in BasicResults, SubmitBasicResult(m, i, r)
      PROVE  TypeOK'
  <2>1. [status |-> "completed", result |-> r] \in ItemRow
    BY ResultsAssumption DEF ItemRow, ItemStatuses, Results
  <2>2. visits' \in Seq(Visit)
    BY <1>5, JoinTyped DEF SubmitBasicResult, InOpenVisit
  <2>3. Rows' \in Views
    BY <1>5, <2>1, <2>2, ChangeTyped, RowsTyped, TypeRows DEF SubmitBasicResult
  <2> QED
    BY <1>5, <2>3 DEF TypeOK, SubmitBasicResult
<1>6. ASSUME NEW i \in Items, NEW r \in {"needs_material", "needs_ticket"},
             SubmitDependencyResult(m, i, r)
      PROVE  TypeOK'
  <2>1. [status |-> Waiting(r), result |-> r] \in ItemRow
    BY DEF ItemRow, ItemStatuses, Results, Waiting
  <2>2. visits' \in Seq(Visit)
    BY <1>6, JoinTyped DEF SubmitDependencyResult, InOpenVisit
  <2>3. Rows' \in Views
    BY <1>6, <2>1, <2>2, ChangeTyped, RowsTyped, TypeRows DEF SubmitDependencyResult
  <2> QED
    BY <1>6, <2>3 DEF TypeOK, SubmitDependencyResult
<1> QED
  BY <1>1, <1>2, <1>3, <1>4, <1>5, <1>6 DEF Technician

LEMMA OthersTyped ==
  ASSUME TypeOK, NEW i \in Items, Others(i)
  PROVE  TypeOK'
<1>0. Closing(i) \in Sessions /\ Receiving(i) \in Sessions
  BY DEF Sessions
<1>1. CASE Activate(i)
  BY <1>1 DEF TypeOK, Activate, Rows, rows
<1>2. CASE BeginClosure(i)
  BY <1>0, <1>2, OpenTyped DEF BeginClosure
<1>3. ASSUME NEW k \in DOMAIN tickets[i], CloseTicket(i, k) PROVE TypeOK'
  <2>1. tickets' \in [Items -> Seq({"active", "closed"})]
    BY <1>3, RowsTyped DEF CloseTicket
  <2>2. [status |-> "completed", result |-> "fixed"] \in ItemRow
    BY DEF ItemRow, ItemStatuses, Results
  <2>3. /\ task' \in ItemStatuses \cup {"absent"} /\ item' \in [Items -> ItemRow]
        /\ ViewsTyped'
    BY <1>0, <1>3, <2>2, ChangeTyped, EndTyped, RowsTyped DEF CloseTicket
  <2>4. Rows' \in Views
    BY <1>3, <2>1, <2>3, RowsTyped, TypeRows DEF CloseTicket
  <2> QED
    BY <1>3, <2>3, <2>4 DEF TypeOK, ViewsTyped, CloseTicket
<1>4. CASE BeginReceipt(i)
  BY <1>0, <1>4, OpenTyped DEF BeginReceipt
<1>5. ASSUME NEW all \in BOOLEAN, LinkDelivery(i, all) PROVE TypeOK'
  <2>1. [status |-> "ready_to_complete", result |-> "needs_material"] \in ItemRow
    BY DEF ItemRow, ItemStatuses, Results
  <2>2. /\ task' \in ItemStatuses \cup {"absent"} /\ item' \in [Items -> ItemRow]
        /\ ViewsTyped'
    BY <1>0, <1>5, <2>1, ChangeTyped, EndTyped, DeriveTyped, RowsTyped DEF LinkDelivery
  <2>3. Rows' \in Views
    BY <1>5, <2>2, RowsTyped, TypeRows DEF LinkDelivery
  <2> QED
    BY <1>5, <2>2, <2>3 DEF TypeOK, ViewsTyped, LinkDelivery
<1> QED
  BY <1>1, <1>2, <1>3, <1>4, <1>5 DEF Others

LEMMA InitTyped == Init => TypeOK
<1> SUFFICES ASSUME Init PROVE TypeOK
  OBVIOUS
<1>1. Absent \in ItemRow /\ <<>> \in Seq(Visit) /\ <<>> \in Seq({"active", "closed"})
  BY DEF Absent, ItemRow
<1>2. Rows \in Views
  BY <1>1 DEF Init, Rows, Views, ItemRow, Visit
<1> QED
  BY <1>2, LateAssumption, BoundsAssumption DEF Init, TypeOK, Idle

LEMMA StepTyped == TypeOK /\ [Next]_vars => TypeOK'
<1> SUFFICES ASSUME TypeOK, [Next]_vars PROVE TypeOK'
  OBVIOUS
<1>1. ASSUME NEW s \in Sessions, Rollback(s) PROVE TypeOK'
  BY <1>1 DEF TypeOK, Rollback, Rows, rows
<1>2. CASE UNCHANGED vars
  BY <1>2 DEF TypeOK, vars, Rows
<1> QED
  BY <1>1, <1>2, RunTyped, TechnicianTyped, OthersTyped DEF Next

(* Every variable keeps its type.                                            *)
THEOREM TypeCorrect == Spec => []TypeOK
  BY InitTyped, StepTyped, PTL DEF Spec

-----------------------------------------------------------------------------
(* The life of the items.                                                    *)

life == [i \in Items |-> item[i].status]

(* An UPDATE that names an edge of the life of item i.                       *)
LEMMA UpdateLives ==
  ASSUME TypeOK, NEW i \in Items, NEW from, NEW to \in ItemRow,
         <<from, to.status>> \in Life!Edges, item' = Update(item, i, from, to)
  PROVE  Life!Next \/ life' = life
<1>1. item \in [Items -> ItemRow]
  BY RowsTyped
<1>2. CASE item[i].status # from
  <2>1. item' = item
    BY <1>1, <1>2 DEF Update
  <2> QED
    BY <2>1 DEF life
<1>3. CASE item[i].status = from
  <2>1. item' = [item EXCEPT ![i] = to]
    BY <1>1, <1>3 DEF Update
  <2>2. life' = [life EXCEPT ![i] = to.status]
    BY <1>1, <2>1 DEF life
  <2>3. life[i] = from
    BY <1>3 DEF life
  <2>4. Life!Advance(i)
    BY <2>2, <2>3 DEF Life!Advance, life
  <2> QED
    BY <2>4 DEF Life!Next
<1> QED
  BY <1>2, <1>3

LEMMA StepLives ==
  ASSUME TypeOK, [Next]_vars
  PROVE  Life!Next \/ life' = life
<1> USE DEF Change
<1>1. ASSUME NEW r \in Runners, RunStep(r) \/ CutShort(r)
      PROVE  Life!Next \/ life' = life
  <2>1. CASE InsertItem(r)
    <3> DEFINE at == run[r].at
    <3>1. CASE at \in Items /\ item[at] = Absent
      <4>1. item' = Update(item, at, "absent", [status |-> "pending", result |-> None])
        BY <2>1, <3>1 DEF InsertItem, Update, Absent
      <4>2. [status |-> "pending", result |-> None] \in ItemRow
        BY DEF ItemRow, ItemStatuses
      <4> QED
        BY <3>1, <4>1, <4>2, UpdateLives DEF Life!Edges
    <3>2. CASE ~(at \in Items /\ item[at] = Absent)
      BY <2>1, <3>2, RowsTyped DEF InsertItem, life
    <3> QED
      BY <3>1, <3>2
  <2>2. CASE item' = item
    BY <2>2 DEF life
  <2> QED
    BY <1>1, <2>1, <2>2
    DEF RunStep, StartRun, GetOrCreateTask, SelectItem, EndRun, CutShort, rows
<1>2. ASSUME NEW m \in Members, Technician(m)
      PROVE  Life!Next \/ life' = life
  <2>1. ASSUME NEW i \in Items, StartItem(m, i) PROVE Life!Next \/ life' = life
    <3>1. [status |-> "in_progress", result |-> None] \in ItemRow
      BY DEF ItemRow, ItemStatuses
    <3> QED
      BY <2>1, <3>1, UpdateLives DEF StartItem, Life!Edges
  <2>2. ASSUME NEW i \in Items, ResumeItem(m, i) PROVE Life!Next \/ life' = life
    <3>1. [status |-> "in_progress", result |-> "needs_material"] \in ItemRow
      BY DEF ItemRow, ItemStatuses, Results
    <3> QED
      BY <2>2, <3>1, UpdateLives DEF ResumeItem, Life!Edges
  <2>3. ASSUME NEW i \in Items, NEW r \in BasicResults, SubmitBasicResult(m, i, r)
        PROVE  Life!Next \/ life' = life
    <3>1. [status |-> "completed", result |-> r] \in ItemRow
      BY ResultsAssumption DEF ItemRow, ItemStatuses, Results
    <3>2. <<item[i].status, "completed">> \in Life!Edges
      BY <2>3 DEF SubmitBasicResult, Life!Edges
    <3> QED
      BY <2>3, <3>1, <3>2, UpdateLives DEF SubmitBasicResult
  <2>4. ASSUME NEW i \in Items, NEW r \in {"needs_material", "needs_ticket"},
               SubmitDependencyResult(m, i, r)
        PROVE  Life!Next \/ life' = life
    <3>1. /\ [status |-> Waiting(r), result |-> r] \in ItemRow
          /\ <<"in_progress", Waiting(r)>> \in Life!Edges
      BY DEF ItemRow, ItemStatuses, Results, Waiting, Life!Edges
    <3> QED
      BY <2>4, <3>1, UpdateLives DEF SubmitDependencyResult
  <2>5. CASE item' = item
    BY <2>5 DEF life
  <2> QED
    BY <1>2, <2>1, <2>2, <2>3, <2>4, <2>5
    DEF Technician, EndVisit, CreateTicket
<1>3. ASSUME NEW i \in Items, Others(i)
      PROVE  Life!Next \/ life' = life
  <2>1. ASSUME NEW k \in DOMAIN tickets[i], CloseTicket(i, k)
        PROVE  Life!Next \/ life' = life
    <3>1. [status |-> "completed", result |-> "fixed"] \in ItemRow
      BY DEF ItemRow, ItemStatuses, Results
    <3>2. CASE item' = item
      BY <3>2 DEF life
    <3>3. CASE item' = Update(item, i, "waiting_ticket",
                              [status |-> "completed", result |-> "fixed"])
      BY <3>1, <3>3, UpdateLives DEF Life!Edges
    <3> QED
      BY <2>1, <3>2, <3>3 DEF CloseTicket
  <2>2. ASSUME NEW all \in BOOLEAN, LinkDelivery(i, all)
        PROVE  Life!Next \/ life' = life
    <3>1. [status |-> "ready_to_complete", result |-> "needs_material"] \in ItemRow
      BY DEF ItemRow, ItemStatuses, Results
    <3>2. CASE item' = item
      BY <3>2 DEF life
    <3>3. CASE item' = Update(item, i, "waiting_material",
                    [status |-> "ready_to_complete", result |-> "needs_material"])
      BY <3>1, <3>3, UpdateLives DEF Life!Edges
    <3> QED
      BY <2>2, <3>2, <3>3 DEF LinkDelivery
  <2>3. CASE item' = item
    BY <2>3 DEF life
  <2> QED
    BY <1>3, <2>1, <2>2, <2>3 DEF Others, Activate, BeginClosure, BeginReceipt, Open, rows
<1>4. ASSUME NEW s \in Sessions, Rollback(s) PROVE life' = life
  BY <1>4 DEF Rollback, rows, life
<1>5. CASE UNCHANGED vars
  BY <1>5 DEF vars, life
<1> QED
  BY <1>1, <1>2, <1>3, <1>4, <1>5 DEF Next

(* Whatever the closures and receipts read, an item only lives the life of   *)
(* ItemLife.                                                                 *)
THEOREM LifeImplemented == Spec => ImplementsLife
<1>1. Init => Life!Init
  BY DEF Init, Life!Init, Absent
<1>2. TypeOK /\ [Next]_vars => [Life!Next]_life
  BY StepLives
<1>3. Spec => [][Life!Next]_life
  BY <1>2, TypeCorrect, PTL DEF Spec
<1> QED
  BY <1>1, <1>3, PTL DEF Spec, ImplementsLife, Life!Spec, life

-----------------------------------------------------------------------------
(* The visits.                                                               *)

OneLeader(vs) == \A k \in DOMAIN vs : \E m \in Members : vs[k].leaders = {m}

VisitInv == AtMostOneOpen(visits) /\ OneLeader(visits) /\ WorkHasVisit

LEMMA JoinKeeps ==
  ASSUME TypeOK, AtMostOneOpen(visits), OneLeader(visits), NEW m \in Members, JoinVisit(m)
  PROVE  AtMostOneOpen(visits') /\ OneLeader(visits') /\ OpenIn(visits') # {}
<1>1. PICK k \in OpenIn(visits) : visits' = Joined(k, m)
  BY DEF JoinVisit
<1>2. visits \in Seq(Visit) /\ visits' \in Seq(Visit) /\ Len(visits') = Len(visits)
  BY <1>1, RowsTyped, JoinedVisits
<1>3. DOMAIN visits = 1..Len(visits) /\ DOMAIN visits' = 1..Len(visits)
  BY <1>2
<1>4. \A j \in 1..Len(visits) :
        visits'[j].open = visits[j].open /\ visits'[j].leaders = visits[j].leaders
  <2>1. \A j \in 1..Len(visits) : visits[j].leaders # {}
    BY <1>3 DEF OneLeader
  <2> QED
    BY <1>1, <1>2, <2>1, JoinedVisits
<1>5. OpenIn(visits') = OpenIn(visits)
  BY <1>3, <1>4 DEF OpenIn
<1> QED
  BY <1>1, <1>3, <1>4, <1>5 DEF AtMostOneOpen, OneLeader

LEMMA OpenOrJoinKeeps ==
  ASSUME TypeOK, OneLeader(visits), NEW m \in Members, OpenOrJoinVisit(m)
  PROVE  AtMostOneOpen(visits') /\ OneLeader(visits') /\ OpenIn(visits') # {}
<1> DEFINE v == [open |-> TRUE, members |-> {m}, leaders |-> {m}]
<1>1. CASE JoinVisit(m)
  BY <1>1, JoinKeeps DEF OpenOrJoinVisit
<1>2. CASE OpenIn(visits) = {} /\ visits' = Append(visits, v)
  <2>1. visits \in Seq(Visit) /\ v \in Visit
    BY RowsTyped DEF Visit
  <2>2. /\ DOMAIN visits = 1..Len(visits) /\ Len(visits) \in Nat
        /\ DOMAIN visits' = 1..(Len(visits) + 1)
        /\ \A j \in 1..Len(visits) : visits'[j] = visits[j]
        /\ visits'[Len(visits) + 1] = v
    BY <1>2, <2>1
  <2>3. OpenIn(visits') = {Len(visits) + 1}
    BY <1>2, <2>2 DEF OpenIn
  <2>4. OneLeader(visits')
    BY <2>2 DEF OneLeader
  <2> QED
    BY <2>3, <2>4 DEF AtMostOneOpen
<1> QED
  BY <1>1, <1>2 DEF OpenOrJoinVisit

(* Only an update to "in_progress" sets somebody to work.                    *)
LEMMA UpdateKeepsIdle ==
  ASSUME TypeOK, NEW i \in Items, NEW from, NEW to \in ItemRow,
         to.status # "in_progress", item' = Update(item, i, from, to), Working'
  PROVE  Working
<1>1. PICK j \in Items : item'[j].status = "in_progress"
  BY DEF Working
<1> QED
  BY <1>1, RowsTyped DEF Update, Working

LEMMA TechnicianKeepsVisits ==
  ASSUME TypeOK, VisitInv, NEW m \in Members, Technician(m)
  PROVE  VisitInv'
<1>a. AtMostOneOpen(visits) /\ OneLeader(visits) /\ (Working => OpenIn(visits) # {})
  BY DEF VisitInv, WorkHasVisit
<1>1. CASE EndVisit(m)
  <2>1. PICK k \in OpenIn(visits) : visits' = [visits EXCEPT ![k].open = FALSE]
    BY <1>1 DEF EndVisit
  <2>2. ~Working'
    BY <1>1 DEF EndVisit, Working
  <2>3. /\ DOMAIN visits' = DOMAIN visits
        /\ \A j \in DOMAIN visits : /\ visits'[j].leaders = visits[j].leaders
                                    /\ visits'[j].open => visits[j].open
    <3>1. visits \in [1..Len(visits) -> Visit]
      BY RowsTyped
    <3> QED
      BY <2>1, <3>1 DEF Visit
  <2>4. AtMostOneOpen(visits') /\ OneLeader(visits')
    BY <1>a, <2>3 DEF AtMostOneOpen, OneLeader, OpenIn
  <2> QED
    BY <2>2, <2>4 DEF VisitInv, WorkHasVisit
<1>2. CASE OpenOrJoinVisit(m)
  BY <1>a, <1>2, OpenOrJoinKeeps DEF VisitInv, WorkHasVisit
<1>3. CASE JoinVisit(m)
  BY <1>a, <1>3, JoinKeeps DEF VisitInv, WorkHasVisit
<1>4. ASSUME NEW i \in Items, CreateTicket(m, i) PROVE VisitInv'
  BY <1>4 DEF CreateTicket, VisitInv, WorkHasVisit, Working
<1> QED
  BY <1>1, <1>2, <1>3, <1>4
  DEF Technician, StartItem, ResumeItem, SubmitBasicResult, SubmitDependencyResult, InOpenVisit

(* A step of somebody else leaves the visits and nobody more at work.        *)
LEMMA OtherStepKeepsVisits ==
  ASSUME VisitInv, visits' = visits, Working' => Working
  PROVE  VisitInv'
BY DEF VisitInv, WorkHasVisit

LEMMA StepKeepsVisits ==
  ASSUME TypeOK, VisitInv, [Next]_vars
  PROVE  VisitInv'
<1>a. item' = item => (Working' => Working)
  BY DEF Working
<1>1. ASSUME NEW r \in Runners, RunStep(r) \/ CutShort(r) PROVE VisitInv'
  <2>1. CASE InsertItem(r)
    <3>1. Working' => Working
      BY <2>1, RowsTyped DEF InsertItem, Working
    <3> QED
      BY <2>1, <3>1, OtherStepKeepsVisits DEF InsertItem
  <2>2. CASE UNCHANGED <<item, visits>>
    BY <1>a, <2>2, OtherStepKeepsVisits
  <2> QED
    BY <1>1, <2>1, <2>2
    DEF RunStep, StartRun, GetOrCreateTask, SelectItem, EndRun, CutShort, rows
<1>2. ASSUME NEW m \in Members, Technician(m) PROVE VisitInv'
  BY <1>2, TechnicianKeepsVisits
<1>3. ASSUME NEW i \in Items, Others(i) PROVE VisitInv'
  <2>1. ASSUME NEW k \in DOMAIN tickets[i], CloseTicket(i, k) PROVE VisitInv'
    <3>1. [status |-> "completed", result |-> "fixed"] \in ItemRow
      BY DEF ItemRow, ItemStatuses, Results
    <3>2. \/ item' = item
          \/ item' = Update(item, i, "waiting_ticket",
                            [status |-> "completed", result |-> "fixed"])
      BY <2>1 DEF CloseTicket, Change
    <3>3. Working' => Working
      BY <1>a, <3>1, <3>2, UpdateKeepsIdle
    <3> QED
      BY <2>1, <3>3, OtherStepKeepsVisits DEF CloseTicket
  <2>2. ASSUME NEW all \in BOOLEAN, LinkDelivery(i, all) PROVE VisitInv'
    <3>1. [status |-> "ready_to_complete", result |-> "needs_material"] \in ItemRow
      BY DEF ItemRow, ItemStatuses, Results
    <3>2. \/ item' = item
          \/ item' = Update(item, i, "waiting_material",
                            [status |-> "ready_to_complete", result |-> "needs_material"])
      BY <2>2 DEF LinkDelivery, Change
    <3>3. Working' => Working
      BY <1>a, <3>1, <3>2, UpdateKeepsIdle
    <3> QED
      BY <2>2, <3>3, OtherStepKeepsVisits DEF LinkDelivery
  <2>3. CASE UNCHANGED <<item, visits>>
    BY <1>a, <2>3, OtherStepKeepsVisits
  <2> QED
    BY <1>3, <2>1, <2>2, <2>3 DEF Others, Activate, BeginClosure, BeginReceipt, Open, rows
<1>4. CASE UNCHANGED <<item, visits>>
  BY <1>a, <1>4, OtherStepKeepsVisits
<1> QED
  BY <1>1, <1>2, <1>3, <1>4 DEF Next, Rollback, vars, rows

LEMMA InitVisits == Init => VisitInv
<1> SUFFICES ASSUME Init PROVE VisitInv
  OBVIOUS
<1>1. visits = <<>> /\ DOMAIN visits = {}
  BY DEF Init
<1>2. ~Working
  BY DEF Init, Working, Absent
<1> QED
  BY <1>1, <1>2 DEF VisitInv, WorkHasVisit, AtMostOneOpen, OneLeader, OpenIn

LEMMA VisitsCorrect == Spec => []VisitInv
  BY InitVisits, StepKeepsVisits, TypeCorrect, PTL DEF Spec

(* However many technicians start items at once, a task has one open visit,  *)
(* and every visit one leader.                                               *)
THEOREM SingleVisit == Spec => []OneOpenVisit
<1>1. VisitInv => OneOpenVisit
  BY DEF VisitInv, OneOpenVisit, OneLeader
<1> QED
  BY <1>1, VisitsCorrect, PTL

(* While an item is worked on, its visit is open, so that its result can be  *)
(* recorded.                                                                 *)
THEOREM WorkInVisit == Spec => []WorkHasVisit
<1>1. VisitInv => WorkHasVisit
  BY DEF VisitInv
<1> QED
  BY <1>1, VisitsCorrect, PTL

-----------------------------------------------------------------------------
(* The tickets.  An item has at most one ticket: it waits for it while the   *)
(* ticket is active, and is completed when it is closed.  A closure that has *)
(* opened its view saw the item waiting.                                     *)

Waits == [status |-> "waiting_ticket", result |-> "needs_ticket"]

TicketOf(i) ==
  \/ tickets[i] = <<>>
  \/ tickets[i] = <<"active">> /\ item[i] = Waits
  \/ tickets[i] = <<"closed">> /\ item[i].status = "completed"

SawWaiting(v, i) == v.tickets[i] = <<"active">> /\ v.item[i] = Waits

TicketInv ==
  \A i \in Items : /\ TicketOf(i)
                   /\ view[Closing(i)] # None => SawWaiting(view[Closing(i)], i)

(* An update of an item that neither waits for a ticket nor is completed     *)
(* leaves the others alone.                                                  *)
LEMMA UpdateKeepsTickets ==
  ASSUME TypeOK, NEW i \in Items,
         NEW from, from \notin {"waiting_ticket", "completed"}, NEW to \in ItemRow,
         item' = Update(item, i, from, to), tickets' = tickets,
         \A j \in Items : TicketOf(j)
  PROVE  \A j \in Items : TicketOf(j)'
<1> SUFFICES ASSUME NEW j \in Items PROVE TicketOf(j)'
  OBVIOUS
<1>1. CASE item'[j] = item[j]
  BY <1>1 DEF TicketOf
<1>2. CASE item'[j] # item[j]
  <2>1. item[j].status = from
    BY <1>2, RowsTyped DEF Update
  <2>2. tickets[j] = <<>>
    BY <2>1 DEF TicketOf, Waits
  <2> QED
    BY <2>2 DEF TicketOf
<1> QED
  BY <1>1, <1>2

(* What another session does to the views leaves those of the closures.      *)
LEMMA OtherViews ==
  ASSUME TypeOK, NEW s \in Sessions, NEW v, view' = [view EXCEPT ![s] = v],
         \A i \in Items : s # Closing(i)
  PROVE  \A i \in Items : view'[Closing(i)] = view[Closing(i)]
BY DEF TypeOK, Sessions

LEMMA ViewsKeepTickets ==
  ASSUME TicketInv, \A i \in Items : TicketOf(i)',
         \A i \in Items : view'[Closing(i)] \in {view[Closing(i)], None}
  PROVE  TicketInv'
BY DEF TicketInv

LEMMA TechnicianKeepsTickets ==
  ASSUME TypeOK, TicketInv, NEW m \in Members, Technician(m)
  PROVE  TicketInv'
<1>a. \A j \in Items : TicketOf(j)
  BY DEF TicketInv
<1>1. CASE EndVisit(m)
  BY <1>a, <1>1, ViewsKeepTickets DEF EndVisit, TicketOf
<1>2. ASSUME NEW i \in Items, StartItem(m, i) PROVE TicketInv'
  <2>1. [status |-> "in_progress", result |-> None] \in ItemRow
    BY DEF ItemRow, ItemStatuses
  <2> QED
    BY <1>a, <1>2, <2>1, UpdateKeepsTickets, ViewsKeepTickets DEF StartItem
<1>3. ASSUME NEW i \in Items, ResumeItem(m, i) PROVE TicketInv'
  <2>1. [status |-> "in_progress", result |-> "needs_material"] \in ItemRow
    BY DEF ItemRow, ItemStatuses, Results
  <2> QED
    BY <1>a, <1>3, <2>1, UpdateKeepsTickets, ViewsKeepTickets DEF ResumeItem, Change
<1>4. ASSUME NEW i \in Items, CreateTicket(m, i) PROVE TicketInv'
  <2>1. item[i] = Waits /\ NoActive(tickets[i]) /\ item' = item
        /\ tickets' = [tickets EXCEPT ![i] = Append(@, "active")]
    BY <1>a, <1>4 DEF CreateTicket, Waits
  <2>2. tickets[i] = <<>>
    BY <1>a, <2>1 DEF TicketOf, NoActive, Waits
  <2>3. tickets'[i] = <<"active">> /\ \A j \in Items \ {i} : tickets'[j] = tickets[j]
    BY <2>1, <2>2, RowsTyped
  <2>4. \A j \in Items : TicketOf(j)'
    BY <1>a, <2>1, <2>3 DEF TicketOf
  <2> QED
    BY <1>4, <2>4, ViewsKeepTickets DEF CreateTicket
<1>5. ASSUME NEW i \in Items, NEW r \in BasicResults, SubmitBasicResult(m, i, r)
      PROVE  TicketInv'
  <2> DEFINE from == item[i].status
  <2>1. [status |-> "completed", result |-> r] \in ItemRow
    BY ResultsAssumption DEF ItemRow, ItemStatuses, Results
  <2>2. /\ from \in {"in_progress", "ready_to_complete"}
        /\ item' = Update(item, i, from, [status |-> "completed", result |-> r])
    BY <1>a, <1>5 DEF SubmitBasicResult, Change
  <2>3. from \notin {"waiting_ticket", "completed"}
    BY <2>2
  <2> HIDE DEF from
  <2> QED
    BY <1>a, <1>5, <2>1, <2>2, <2>3, UpdateKeepsTickets, ViewsKeepTickets
    DEF SubmitBasicResult
<1>6. ASSUME NEW i \in Items, NEW r \in {"needs_material", "needs_ticket"},
             SubmitDependencyResult(m, i, r)
      PROVE  TicketInv'
  <2>1. [status |-> Waiting(r), result |-> r] \in ItemRow
    BY DEF ItemRow, ItemStatuses, Results, Waiting
  <2> QED
    BY <1>a, <1>6, <2>1, UpdateKeepsTickets, ViewsKeepTickets
    DEF SubmitDependencyResult, Change
<1> QED
  BY <1>1, <1>2, <1>3, <1>4, <1>5, <1>6 DEF Technician

LEMMA ClosureKeepsTickets ==
  ASSUME TypeOK, TicketInv, NEW i \in Items,
         NEW k \in DOMAIN tickets[i], CloseTicket(i, k)
  PROVE  TicketInv'
<1> DEFINE seen == view[Closing(i)]
<1>1. SawWaiting(seen, i) /\ k \in DOMAIN seen.tickets[i] /\ tickets[i][k] = "active"
  BY DEF TicketInv, CloseTicket
<1>2. k = 1 /\ ~OtherActive(seen.tickets[i], k)
  BY <1>1 DEF SawWaiting, OtherActive
<1>3. tickets[i] = <<"active">> /\ item[i] = Waits
  BY <1>1 DEF TicketInv, TicketOf
<1>4. /\ item' = Update(item, i, "waiting_ticket",
                        [status |-> "completed", result |-> "fixed"])
      /\ tickets' = [tickets EXCEPT ![i][k] = "closed"]
      /\ End(Closing(i))
  BY <1>1, <1>2 DEF CloseTicket, Change, SawWaiting, Waits
<1>5. item'[i].status = "completed" /\ \A j \in Items \ {i} : item'[j] = item[j]
  BY <1>3, <1>4, RowsTyped DEF Update, Waits
<1>6. tickets'[i] = <<"closed">> /\ \A j \in Items \ {i} : tickets'[j] = tickets[j]
  BY <1>2, <1>3, <1>4, RowsTyped
<1>7. \A j \in Items : TicketOf(j)'
  BY <1>5, <1>6 DEF TicketInv, TicketOf
<1>8. \A j \in Items : view'[Closing(j)] \in {view[Closing(j)], None}
  BY <1>4 DEF End, TypeOK, Sessions
<1> QED
  BY <1>7, <1>8, ViewsKeepTickets

LEMMA StepKeepsTickets ==
  ASSUME TypeOK, TicketInv, [Next]_vars
  PROVE  TicketInv'
<1>a. \A j \in Items : TicketOf(j)
  BY DEF TicketInv
<1>b. UNCHANGED <<item, tickets>> => \A j \in Items : TicketOf(j)'
  BY <1>a DEF TicketOf
<1>1. ASSUME NEW r \in Runners, RunStep(r) \/ CutShort(r) PROVE TicketInv'
  <2>1. CASE InsertItem(r)
    <3>1. \A j \in Items : item'[j] = item[j] \/ item[j] = Absent
      BY <2>1, RowsTyped DEF InsertItem
    <3>2. \A j \in Items : TicketOf(j)'
      BY <1>a, <2>1, <3>1 DEF InsertItem, TicketOf, Waits, Absent
    <3> QED
      BY <2>1, <3>2, ViewsKeepTickets DEF InsertItem
  <2>2. CASE UNCHANGED <<item, tickets, view>>
    BY <1>b, <2>2, ViewsKeepTickets
  <2> QED
    BY <1>1, <2>1, <2>2
    DEF RunStep, StartRun, GetOrCreateTask, SelectItem, EndRun, CutShort, rows
<1>2. ASSUME NEW m \in Members, Technician(m) PROVE TicketInv'
  BY <1>2, TechnicianKeepsTickets
<1>3. ASSUME NEW i \in Items, Others(i) PROVE TicketInv'
  <2>0. /\ Receiving(i) \in Sessions /\ \A j \in Items : Receiving(i) # Closing(j)
        /\ Closing(i) \in Sessions
    BY DEF Receiving, Closing, Sessions
  <2>1. CASE Activate(i)
    BY <1>b, <2>1, ViewsKeepTickets DEF Activate, rows
  <2>2. CASE BeginClosure(i)
    <3>1. UNCHANGED <<item, tickets>> /\ view' = [view EXCEPT ![Closing(i)] = Rows]
      BY <2>2 DEF BeginClosure, Open, rows
    <3>2. tickets[i] = <<"active">> /\ item[i] = Waits
      BY <1>a, <2>2 DEF BeginClosure, TicketOf
    <3>3. view'[Closing(i)] = Rows
      BY <2>0, <3>1 DEF TypeOK
    <3>4. SawWaiting(view'[Closing(i)], i)
      BY <3>2, <3>3 DEF SawWaiting, Rows
    <3>5. ASSUME NEW j \in Items, j # i PROVE view'[Closing(j)] = view[Closing(j)]
      BY <3>1, <3>5 DEF TypeOK, Closing
    <3> QED
      BY <1>b, <3>1, <3>4, <3>5 DEF TicketInv
  <2>3. ASSUME NEW k \in DOMAIN tickets[i], CloseTicket(i, k) PROVE TicketInv'
    BY <2>3, ClosureKeepsTickets
  <2>4. CASE BeginReceipt(i)
    BY <1>b, <2>0, <2>4, OtherViews, ViewsKeepTickets DEF BeginReceipt, Open, rows
  <2>5. ASSUME NEW all \in BOOLEAN, LinkDelivery(i, all) PROVE TicketInv'
    <3>1. [status |-> "ready_to_complete", result |-> "needs_material"] \in ItemRow
      BY DEF ItemRow, ItemStatuses, Results
    <3>2. /\ \/ item' = item
             \/ item' = Update(item, i, "waiting_material",
                               [status |-> "ready_to_complete", result |-> "needs_material"])
          /\ tickets' = tickets /\ End(Receiving(i))
      BY <2>5 DEF LinkDelivery, Change
    <3>3. \A j \in Items : TicketOf(j)'
      BY <1>a, <1>b, <3>1, <3>2, UpdateKeepsTickets
    <3> QED
      BY <2>0, <3>2, <3>3, OtherViews, ViewsKeepTickets DEF End
  <2> QED
    BY <1>3, <2>1, <2>2, <2>3, <2>4, <2>5 DEF Others
<1>4. ASSUME NEW s \in Sessions, Rollback(s) PROVE TicketInv'
  <2>1. \A j \in Items : view'[Closing(j)] \in {view[Closing(j)], None}
    BY <1>4 DEF Rollback, TypeOK, Sessions
  <2> QED
    BY <1>4, <1>b, <2>1, ViewsKeepTickets DEF Rollback, rows
<1>5. CASE UNCHANGED vars
  BY <1>5, <1>b, ViewsKeepTickets DEF vars, rows
<1> QED
  BY <1>1, <1>2, <1>3, <1>4, <1>5 DEF Next

LEMMA InitTickets == Init => TicketInv
<1> SUFFICES ASSUME Init PROVE TicketInv
  OBVIOUS
<1>1. \A i \in Items : tickets[i] = <<>> /\ view[Closing(i)] = None
  BY DEF Init, Sessions
<1> QED
  BY <1>1 DEF TicketInv, TicketOf

(* The item of a closed ticket is completed, although the closure reads it   *)
(* before it holds the lock on the task.                                     *)
THEOREM ClosureCompletes == Spec => []ClosedTicketCompletes
<1>1. Spec => []TicketInv
  BY InitTickets, StepKeepsTickets, TypeCorrect, PTL DEF Spec
<1>2. TicketInv => ClosedTicketCompletes
  BY DEF TicketInv, TicketOf, ClosedTicketCompletes
<1> QED
  BY <1>1, <1>2, PTL

===============================================================================
