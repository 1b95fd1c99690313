-------------------------------- MODULE PmTask --------------------------------
(* One task of the preventive maintenance (PM V2) on one date: its hourly     *)
(* generation, its execution by technicians in visits, and the closures of    *)
(* tickets and receipts of materials its items wait for.                      *)
(*                                                                            *)
(* The scheduler runs statements one by one, without a transaction.  All the  *)
(* others are transactions; those of technicians and closures lock the task   *)
(* row first, receipts lock it with their last statement.  Plain reads see    *)
(* the read view of InnoDB, which opens with the first plain read: after the  *)
(* lock for a technician, before it for a closure or a receipt.  An UPDATE    *)
(* sees the latest rows, and the ones of items compare the status they expect.*)
EXTENDS Naturals, Sequences, FiniteSets

CONSTANTS
  Items,        \* the checklist items of the program that are due on the date
  LateItems,    \* those of them that are activated in the course of the day
  Members,      \* technicians
  Runners,      \* server processes and manual runs that may generate
  None,
  BasicResults, \* those of {"ok", "fixed"} that technicians report
  MaxVisits, MaxTickets,  \* bounds: visits of the task, tickets of an item,
  MaxFails, MaxOpen       \* runs cut short, old read views at once

ASSUME LateAssumption == LateItems \subseteq Items
ASSUME ResultsAssumption == BasicResults \subseteq {"ok", "fixed"}
ASSUME BoundsAssumption == MaxFails \in Nat

VARIABLES
  active,    \* the active checklist items
  task,      \* pmv2_tasks.status, "absent" before it is generated
  item,      \* pmv2_task_items: status and result
  visits,    \* pmv2_visits of the task with their members
  tickets,   \* the status of each ticket linked to each item
  run,       \* each scheduler run: what it found due and still has to insert
  view,      \* the read view of each open closure or receipt, or None
  fails      \* how many runs were cut short so far

rows == <<task, item, visits, tickets>>
vars == <<active, task, item, visits, tickets, run, view, fails>>

-----------------------------------------------------------------------------
ItemStatuses == {"pending", "in_progress", "waiting_material", "waiting_ticket",
                 "ready_to_complete", "completed"}
Results == {"ok", "fixed", "needs_material", "needs_ticket"}

Absent == [status |-> "absent", result |-> None]
Idle == [pc |-> "idle", todo |-> {}, at |-> None]

(* Transactions that read before they hold the task row: the closure of an   *)
(* item's ticket, the receipt of an item's materials.                        *)
Closing(i) == <<"close", i>>
Receiving(i) == <<"receive", i>>
Sessions == {Closing(i) : i \in Items} \cup {Receiving(i) : i \in Items}

Rows == [task |-> task, item |-> item, visits |-> visits, tickets |-> tickets]

StatusesOf(items) == {items[i].status : i \in Items} \ {"absent"}

(* deriveTaskStatus, copied in three services.                               *)
Derive(items) ==
  LET statuses == StatusesOf(items)
      Urgent(s, otherwise) == IF s \in statuses THEN s ELSE otherwise
      rest == IF "completed" \in statuses THEN "in_progress" ELSE "pending"
  IN IF statuses = {"completed"} THEN "completed"
     ELSE Urgent("waiting_material", Urgent("waiting_ticket",
          Urgent("in_progress", Urgent("ready_to_complete", rest))))

Init ==
  /\ active = Items \ LateItems
  /\ task = "absent"
  /\ item = [i \in Items |-> Absent]
  /\ visits = <<>>
  /\ tickets = [i \in Items |-> <<>>]
  /\ run = [r \in Runners |-> Idle]
  /\ view = [s \in Sessions |-> None]
  /\ fails = 0

-----------------------------------------------------------------------------
(* The scheduler.  runForDate reads what is due, creates the task unless it  *)
(* is there, and inserts the items one by one.                               *)

(* The administrator activates a checklist item during the day.              *)
Activate(i) ==
  /\ i \in LateItems \ active
  /\ active' = active \cup {i}
  /\ UNCHANGED <<rows, run, view, fails>>

(* A plausible bug: the list of due items is kept from the start of the day. *)
StartRunFromCache(r) ==
  /\ run[r].pc = "idle"
  /\ run' = [run EXCEPT ![r] = [Idle EXCEPT !.pc = "task", !.todo = Items \ LateItems]]
  /\ UNCHANGED <<active, rows, view, fails>>

StartRun(r) ==
  /\ run[r].pc = "idle"
  /\ run' = [run EXCEPT ![r] = [Idle EXCEPT !.pc = "task", !.todo = active]]
  /\ UNCHANGED <<active, rows, view, fails>>

GetOrCreateTask(r) ==
  /\ run[r].pc = "task"
  /\ task' = IF task = "absent" THEN "pending" ELSE task
  /\ run' = [run EXCEPT ![r].pc = "items"]
  /\ UNCHANGED <<active, item, visits, tickets, view, fails>>

(* An item that the SELECT finds is skipped.                                 *)
SelectItem(r, i) ==
  /\ run[r].pc = "items" /\ i \in run[r].todo
  /\ run' = [run EXCEPT ![r].todo = @ \ {i},
                        ![r].pc = IF item[i] = Absent THEN "insert" ELSE "items",
                        ![r].at = IF item[i] = Absent THEN i ELSE None]
  /\ UNCHANGED <<active, rows, view, fails>>

(* The unique index turns the second of two inserts into "existing".         *)
InsertItem(r) ==
  /\ run[r].pc = "insert"
  /\ item' = [item EXCEPT ![run[r].at] =
                IF @ = Absent THEN [status |-> "pending", result |-> None] ELSE @]
  /\ run' = [run EXCEPT ![r].pc = "items", ![r].at = None]
  /\ UNCHANGED <<active, task, visits, tickets, view, fails>>

EndRun(r) ==
  /\ run[r].pc = "items" /\ run[r].todo = {}
  /\ run' = [run EXCEPT ![r] = Idle]
  /\ UNCHANGED <<active, rows, view, fails>>

(* A statement fails, or the server restarts: the rest of the items of the   *)
(* target is left to the next run.                                           *)
CutShort(r) ==
  /\ run[r].pc # "idle" /\ fails < MaxFails
  /\ fails' = fails + 1
  /\ run' = [run EXCEPT ![r] = Idle]
  /\ UNCHANGED <<active, rows, view>>

RunStep(r) == \/ StartRun(r) \/ GetOrCreateTask(r) \/ InsertItem(r) \/ EndRun(r)
              \/ \E i \in Items : SelectItem(r, i)

-----------------------------------------------------------------------------
(* Transactions.                                                             *)

Open(s) ==
  /\ view[s] = None
  /\ Cardinality({t \in Sessions : view[t] # None}) < MaxOpen
  /\ view' = [view EXCEPT ![s] = Rows]
  /\ UNCHANGED <<active, rows, run, fails>>

(* A refusal, an error, a lost connection: nothing is written.               *)
Rollback(s) ==
  /\ view[s] # None
  /\ view' = [view EXCEPT ![s] = None]
  /\ UNCHANGED <<active, rows, run, fails>>

End(s) == view' = [view EXCEPT ![s] = None]

(* UPDATE pmv2_task_items SET ... WHERE id = i AND status = from.            *)
Update(items, i, from, to) ==
  [items EXCEPT ![i] = IF @.status = from THEN to ELSE @]

OpenIn(vs) == {k \in DOMAIN vs : vs[k].open}
AtMostOneOpen(vs) == \A j, k \in OpenIn(vs) : j = k

(* m joins the open visit k; the first one in it leads.                      *)
Joined(k, m) ==
  IF m \in visits[k].members THEN visits
  ELSE [visits EXCEPT ![k].members = @ \cup {m},
                      ![k].leaders = IF @ = {} THEN {m} ELSE @]

JoinVisit(m) == \E k \in OpenIn(visits) : visits' = Joined(k, m)

(* A plausible bug: every start opens a visit.                               *)
OpenVisitAlways(m) ==
  /\ Len(visits) < MaxVisits
  /\ visits' = Append(visits, [open |-> TRUE, members |-> {m}, leaders |-> {m}])

OpenOrJoinVisit(m) ==
  /\ AtMostOneOpen(visits)
  /\ \/ JoinVisit(m)
     \/ /\ OpenIn(visits) = {} /\ Len(visits) < MaxVisits
        /\ visits' = Append(visits, [open |-> TRUE, members |-> {m}, leaders |-> {m}])

InOpenVisit(m) == AtMostOneOpen(visits) /\ JoinVisit(m)

(* The status of the task as the transaction computes it: from the items it  *)
(* has seen and its own change.                                              *)
Project(seen, i, from, to) ==
  task' = Derive(IF item[i].status = from THEN [seen EXCEPT ![i] = to] ELSE seen)

(* A transaction's change of item i, and the task status it projects.        *)
Change(seen, i, from, to) ==
  /\ item' = Update(item, i, from, to)
  /\ Project(seen, i, from, to)

-----------------------------------------------------------------------------
(* The technicians.                                                          *)

OpenForStart == task \notin {"absent", "completed"}
OpenForResult == task \notin {"absent", "pending", "completed"}

StartItem(m, i) ==
  /\ OpenForStart
  /\ item[i].status = "pending"
  /\ OpenOrJoinVisit(m)
  /\ item' = Update(item, i, "pending", [status |-> "in_progress", result |-> None])
  /\ task' = IF task = "pending" THEN "in_progress" ELSE task
  /\ UNCHANGED <<active, tickets, run, view, fails>>

(* The materials arrived: the work goes on.                                  *)
ResumeItem(m, i) ==
  /\ OpenForStart
  /\ item[i] = [status |-> "ready_to_complete", result |-> "needs_material"]
  /\ OpenOrJoinVisit(m)
  /\ Change(item, i, "ready_to_complete",
            [status |-> "in_progress", result |-> "needs_material"])
  /\ UNCHANGED <<active, tickets, run, view, fails>>

(* A plausible bug: the status of the item is not looked at.                 *)
SubmitBasicResultAnyTime(m, i, result) ==
  /\ OpenForResult
  /\ InOpenVisit(m)
  /\ Change(item, i, item[i].status, [status |-> "completed", result |-> result])
  /\ UNCHANGED <<active, tickets, run, view, fails>>

(* An item that waited for materials can only be "fixed".                    *)
SubmitBasicResult(m, i, result) ==
  /\ OpenForResult
  /\ item[i].status \in {"in_progress", "ready_to_complete"}
  /\ item[i].result = "needs_material" => result = "fixed"
  /\ InOpenVisit(m)
  /\ Change(item, i, item[i].status, [status |-> "completed", result |-> result])
  /\ UNCHANGED <<active, tickets, run, view, fails>>

Waiting(result) == IF result = "needs_material" THEN "waiting_material" ELSE "waiting_ticket"

SubmitDependencyResult(m, i, result) ==
  /\ OpenForResult
  /\ item[i].status = "in_progress"
  /\ InOpenVisit(m)
  /\ Change(item, i, "in_progress", [status |-> Waiting(result), result |-> result])
  /\ UNCHANGED <<active, tickets, run, view, fails>>

Working == \E i \in Items : item[i].status = "in_progress"

(* A plausible bug: the items are not looked at.                             *)
EndVisitAnyTime(m) ==
  /\ \E k \in OpenIn(visits) :
       m \in visits[k].leaders /\ visits' = [visits EXCEPT ![k].open = FALSE]
  /\ UNCHANGED <<active, task, item, tickets, run, view, fails>>

(* Only a leader ends the visit, when no item is being worked on.            *)
EndVisit(m) ==
  /\ AtMostOneOpen(visits)
  /\ \E k \in OpenIn(visits) :
       m \in visits[k].leaders /\ visits' = [visits EXCEPT ![k].open = FALSE]
  /\ ~Working
  /\ UNCHANGED <<active, task, item, tickets, run, view, fails>>

-----------------------------------------------------------------------------
(* Tickets and materials.                                                    *)

NoActive(ts) == \A k \in DOMAIN ts : ts[k] # "active"

(* The ticket and its link are created together, under a lock on the item.   *)
CreateTicket(m, i) ==
  /\ item[i] = [status |-> "waiting_ticket", result |-> "needs_ticket"]
  /\ NoActive(tickets[i])
  /\ Len(tickets[i]) < MaxTickets
  /\ tickets' = [tickets EXCEPT ![i] = Append(@, "active")]
  /\ UNCHANGED <<active, task, item, visits, run, view, fails>>

(* The transaction that closes a ticket reads the items of the ticket, and   *)
(* so opens its view, before it waits for the task row.                      *)
BeginClosure(i) ==
  /\ \E k \in DOMAIN tickets[i] : tickets[i][k] = "active"
  /\ Open(Closing(i))

(* A plausible bug: the ticket itself counts as another active one.          *)
OtherActiveOrSelf(ts, k) == \E j \in DOMAIN ts : ts[j] = "active"

OtherActive(ts, k) == \E j \in DOMAIN ts : j # k /\ ts[j] = "active"

(* The closed ticket completes the item that waited for it, unless another   *)
(* ticket of the item is active (a second one is created only once no other  *)
(* is).                                                                      *)
CloseTicket(i, k) ==
  /\ view[Closing(i)] # None
  /\ LET seen == view[Closing(i)]
         waits == [status |-> "waiting_ticket", result |-> "needs_ticket"] IN
     /\ k \in DOMAIN seen.tickets[i] /\ tickets[i][k] = "active"
     /\ tickets' = [tickets EXCEPT ![i][k] = "closed"]
     /\ IF seen.item[i] = waits /\ ~OtherActive(seen.tickets[i], k)
        THEN Change(seen.item, i, "waiting_ticket",
                    [status |-> "completed", result |-> "fixed"])
        ELSE UNCHANGED <<task, item>>
  /\ End(Closing(i))
  /\ UNCHANGED <<active, visits, run, fails>>

(* A delivery for the item is being linked: the item waits for materials,    *)
(* and its row is locked until the end.                                      *)
BeginReceipt(i) ==
  /\ item[i] = [status |-> "waiting_material", result |-> "needs_material"]
  /\ Open(Receiving(i))

(* The last delivery makes the item ready; every one projects the task,      *)
(* whose row is locked only now.                                             *)
LinkDelivery(i, all) ==
  /\ view[Receiving(i)] # None
  /\ LET seen == view[Receiving(i)] IN
     IF all THEN Change(seen.item, i, "waiting_material",
                        [status |-> "ready_to_complete", result |-> "needs_material"])
            ELSE task' = Derive(seen.item) /\ UNCHANGED item
  /\ End(Receiving(i))
  /\ UNCHANGED <<active, visits, tickets, run, fails>>

-----------------------------------------------------------------------------
Technician(m) ==
  \/ EndVisit(m)
  \/ \E i \in Items :
       \/ StartItem(m, i) \/ ResumeItem(m, i) \/ CreateTicket(m, i)
       \/ \E r \in BasicResults : SubmitBasicResult(m, i, r)
       \/ \E r \in {"needs_material", "needs_ticket"} : SubmitDependencyResult(m, i, r)

Others(i) ==
  \/ Activate(i)
  \/ BeginClosure(i)
  \/ \E k \in DOMAIN tickets[i] : CloseTicket(i, k)
  \/ BeginReceipt(i)
  \/ \E all \in BOOLEAN : LinkDelivery(i, all)

Next ==
  \/ \E r \in Runners : RunStep(r) \/ CutShort(r)
  \/ \E m \in Members : Technician(m)
  \/ \E i \in Items : Others(i)
  \/ \E s \in Sessions : Rollback(s)

(* The job is started every hour and its statements return; nobody owes the  *)
(* system a visit, a result, a receipt or a manual run.                      *)
Spec == Init /\ [][Next]_vars
FairSpec == Spec /\ \A r \in Runners : WF_vars(RunStep(r))

-----------------------------------------------------------------------------
Views == [task : ItemStatuses \cup {"absent"},
          item : [Items -> [status : ItemStatuses \cup {"absent"},
                            result : Results \cup {None}]],
          visits : Seq([open : BOOLEAN, members : SUBSET Members,
                        leaders : SUBSET Members]),
          tickets : [Items -> Seq({"active", "closed"})]]

TypeOK ==
  /\ active \in SUBSET Items
  /\ Rows \in Views
  /\ run \in [Runners -> [pc : {"idle", "task", "items", "insert"},
                          todo : SUBSET Items, at : Items \cup {None}]]
  /\ DOMAIN view = Sessions
  /\ \A s \in Sessions : view[s] = None \/ view[s] \in Views
  /\ fails \in 0..MaxFails

(* Hazard: two technicians start items of a task at the same moment.  The    *)
(* lock on the task row leaves one open visit, with exactly one leader.      *)
OneOpenVisit ==
  /\ AtMostOneOpen(visits)
  /\ \A k \in DOMAIN visits : \E m \in Members : visits[k].leaders = {m}

(* Hazard: the leader ends the visit while a colleague starts an item; its   *)
(* result could then not be recorded.                                        *)
WorkHasVisit == Working => OpenIn(visits) # {}

(* Hazard: the item of a closed ticket keeps waiting for it.                 *)
ClosedTicketCompletes ==
  \A i \in Items : (\E k \in DOMAIN tickets[i] : tickets[i][k] = "closed")
                     => item[i].status = "completed"

(* Whatever the reads saw, the compare-and-set of the item rows lets each    *)
(* item only live its life.                                                  *)
Life == INSTANCE ItemLife WITH life <- [i \in Items |-> item[i].status]
ImplementsLife == Life!Spec

(* Hazard: a run that is cut short, or one that another run or an activation *)
(* overtakes, leaves an item out.  Every active item is generated in the end.*)
Generated == \A i \in Items : i \in active ~> item[i] # Absent

(* src/server/pmv2/technician/execution-service.ts:86 calls the status of    *)
(* the task a "projection from Task Items".  Hazard: the closure of a ticket *)
(* projects from a view older than its lock, and the last item was completed *)
(* in between; nothing projects the task again.                              *)
DoneTaskIsCompleted ==
  (\A s \in Sessions : view[s] = None) /\ StatusesOf(item) = {"completed"}
    => task = "completed"
===============================================================================
