------------------------------ MODULE TeamTicket ------------------------------
(* The execution of one ticket item by a maintenance team: visits, materials, *)
(* reviews and the external route.                                            *)
(*                                                                            *)
(* An operation is one transaction.  Its first, plain read opens its read     *)
(* view; then it waits for the locks on team, ticket and assignment, and      *)
(* reads the needs, deliveries and supplies under locks.  The ledger of       *)
(* actions and the recorded operations are plain reads again: it sees them    *)
(* as they were in its view.  The revision that its client expects is         *)
(* compared under the lock.                                                   *)
EXTENDS Integers, Sequences, FiniteSets, FiniteSetsExt, RunningTotals

CONSTANTS
  Sessions,    \* transactions that may run at once
  Keys,        \* operation keys; a client keeps the key when it tries again
  Members,     \* users who execute
  Items,       \* catalog items
  Departments, \* a subset of {"team", "it"}: how the assignment came about
  Quantities,  \* quantities that are requested
  Reasons,     \* the results that are reported, of {"ok", "fixed", "blocked", "external"}
  Repeated,    \* bound: the steps of an external job that several requests take at once
  None,
  MaxNeeds, MaxRevision  \* bounds

ASSUME BoundsAssumption == MaxRevision \in Nat /\ MaxNeeds \in Nat
ASSUME QuantitiesAssumption == Quantities \subseteq Nat \ {0} /\ None \notin Int

VARIABLES
  department,  \* who executes: a maintenance team, or one of the IT department
  stage, outcome, revision, round,  \* ticket_team_assignments
  ledger,      \* what is computed from ticket_team_actions
  needs,       \* material needs with their deliveries and supplies
  ticket,      \* the ticket item's path and status, and its external job: job is the
               \* status, steps what gates, delegate or receipt have begun
  recorded,    \* operations already recorded, among the keys in use
  tx           \* the open transactions: key, expected revision, read view

vars == <<department, stage, outcome, revision, round, ledger, needs, ticket, recorded, tx>>

-----------------------------------------------------------------------------
Stages == {"action_required", "waiting_material", "ready_to_repair",
           "awaiting_review", "blocked", "external_requested",
           "external_in_progress", "reinstall_required", "closed"}
WorkStages == {"action_required", "ready_to_repair", "reinstall_required"}

(* A need; all of it is handed over at once, out of one or more lots: parts. *)
Need(item, quantity, r) ==
  [round |-> r, item |-> item, fits |-> TRUE, requested |-> quantity, used |-> None,
   parts |-> <<>>, transferred |-> 0, ordered |-> 0]

TotalOf(parts, field) == Total([p \in DOMAIN parts |-> parts[p][field]], Len(parts))
Issued(need) == TotalOf(need.parts, "quantity")
Returned(need) == TotalOf(need.parts, "returned")
RemainingReturn(need) ==
  IF need.used = None THEN 0 ELSE Issued(need) - need.used - Returned(need)

CurrentOf(ns, r) == {n \in DOMAIN ns : ns[n].round = r}
Current == CurrentOf(needs, round)
Delivered(need) == need.item # None /\ Issued(need) = need.requested

(* A plausible bug: the first delivery counts for all.                       *)
SomeReceived(ns, r) == \E n \in CurrentOf(ns, r) : Delivered(ns[n])

AllReceived(ns, r) ==
  CurrentOf(ns, r) # {} /\ \A n \in CurrentOf(ns, r) : Delivered(ns[n])

(* How the warehouse splits a quantity over lots: one, or two.               *)
Lots(q) ==
  LET Part(n) == [quantity |-> n, returned |-> 0, used |-> None]
  IN {<<Part(q)>>} \cup {<<Part(1), Part(n)>> : n \in {q - 1} \ {0}}

-----------------------------------------------------------------------------
(* A newly assigned ticket; or the IT department's request for materials,    *)
(* which creates the assignment with them.                                   *)
Init ==
  /\ department \in Departments
  /\ round = 1 /\ recorded = {}
  /\ tx = [s \in Sessions |-> None]
  /\ \/ /\ department = "team"
        /\ stage = "action_required" /\ outcome = None /\ revision = 0
        /\ needs = <<>>
        /\ ticket = [path |-> None, status |-> "under_inspection", job |-> "none", steps |-> {}]
     \/ /\ department = "it"
        /\ stage = "waiting_material" /\ outcome = "needs_material" /\ revision = 1
        /\ \E i \in Items \cup {None}, q \in Quantities : needs = <<Need(i, q, 1)>>
        /\ ticket = [path |-> "B", status |-> "work_approved", job |-> "none", steps |-> {}]
  /\ ledger = [visits |-> {}, working |-> FALSE, review |-> "none",
               routes |-> [n \in DOMAIN needs |-> None]]

-----------------------------------------------------------------------------
(* Transactions.                                                             *)
Open == {s \in Sessions : tx[s] # None}
KeysOf(sessions) == {tx[s].key : s \in sessions}

(* The first read, with a page that shows the current revision: an older one *)
(* is refused.  (At the bound no operation is admitted, so none begins.)     *)
Begin(s, key) ==
  /\ s \notin Open /\ revision < MaxRevision
  /\ tx' = [tx EXCEPT ![s] = [key |-> key, expected |-> revision,
                              ledger |-> ledger, recorded |-> recorded]]
  /\ UNCHANGED <<department, stage, outcome, revision, round, ledger, needs, ticket, recorded>>

(* Nothing is written: a refusal, a failure, or the answer of an operation   *)
(* that is recorded already.                                                 *)
End(s) ==
  /\ s \in Open
  /\ tx' = [tx EXCEPT ![s] = None]
  /\ recorded' = recorded \cap KeysOf(Open \ {s})
  /\ UNCHANGED <<department, stage, outcome, revision, round, ledger, needs, ticket>>

(* A plausible bug: the revision is not compared.                            *)
AdmittedAtAnyRevision(s) ==
  /\ s \in Open /\ revision < MaxRevision
  /\ tx[s].key \notin tx[s].recorded

Admitted(s) ==
  /\ s \in Open /\ revision < MaxRevision
  /\ tx[s].key \notin tx[s].recorded
  /\ tx[s].expected = revision

(* What the transaction sees of the ledger.                                  *)
Seen(s) == tx[s].ledger

(* A plausible bug: the action does not advance the revision.                *)
NoteWithoutRevision(s, l) ==
  /\ ledger' = l
  /\ recorded' = (recorded \cup {tx[s].key}) \cap KeysOf(Open \ {s})
  /\ tx' = [tx EXCEPT ![s] = None]
  /\ UNCHANGED <<revision, department>>

(* noteAction, the record of the operation, and the commit.                  *)
Note(s, l) ==
  /\ revision' = revision + 1
  /\ ledger' = l
  /\ recorded' = (recorded \cup {tx[s].key}) \cap KeysOf(Open \ {s})
  /\ tx' = [tx EXCEPT ![s] = None]
  /\ UNCHANGED department

Stopped == [ledger EXCEPT !.working = FALSE]

(* A plausible bug: the recorded shortage is not looked at.                  *)
NothingRemaining(seen, n) == 0

(* The shortage that was recorded for need n and is not yet transferred.     *)
SupplyRemaining(seen, n) ==
  IF n \notin DOMAIN seen.routes \/ seen.routes[n] = None THEN 0
  ELSE IF seen.routes[n] > needs[n].transferred
       THEN seen.routes[n] - needs[n].transferred ELSE 0

-----------------------------------------------------------------------------
(* Visits.                                                                   *)
Working(seen) == seen.working /\ stage \in WorkStages
InWork(seen, m) == Working(seen) /\ \E v \in seen.visits :
  seen.visits = {v} /\ m \in v.members

Joined(visits, at, m) ==
  {IF v.at = at THEN [v EXCEPT !.members = @ \cup {m}] ELSE v : v \in visits}

(* Opens a visit, joins the work of the open one, or resumes work in it.     *)
StartExecution(s, m, resume) ==
  /\ Admitted(s)
  /\ stage \in (IF resume THEN {"ready_to_repair", "reinstall_required"}
                          ELSE {"action_required"})
  /\ ~InWork(Seen(s), m)
  /\ \/ /\ Seen(s).visits = {}
        /\ Note(s, [ledger EXCEPT !.working = TRUE,
                      !.visits = @ \cup {[at |-> revision, leader |-> m, members |-> {m}]}])
     \/ \E v \in Seen(s).visits :
          /\ Seen(s).visits = {v}
          /\ Note(s, [ledger EXCEPT !.working = ~Working(Seen(s)) \/ @,
                        !.visits = Joined(@, v.at, m)])
  /\ UNCHANGED <<stage, outcome, round, needs, ticket>>

EndVisit(s, m) ==
  /\ Admitted(s)
  /\ ~Working(Seen(s))
  /\ \E v \in Seen(s).visits :
       /\ Seen(s).visits = {v} /\ v.leader = m
       /\ Note(s, [Stopped EXCEPT !.visits = {w \in @ : w.at # v.at}])
  /\ UNCHANGED <<stage, outcome, round, needs, ticket>>

-----------------------------------------------------------------------------
(* Results.                                                                  *)
Submit(s, m, result) ==
  /\ Admitted(s)
  /\ InWork(Seen(s), m)
  /\ outcome' = result
  /\ Note(s, Stopped)
  /\ UNCHANGED round

(* A result of the IT department's own executor closes ticket and execution. *)
Finish ==
  \/ /\ stage' = "awaiting_review" /\ UNCHANGED ticket
  \/ /\ department = "it" /\ stage' = "closed"
     /\ ticket' = [ticket EXCEPT !.path = "B", !.status = "closed"]

SubmitOk(s, m) ==
  /\ Submit(s, m, "ok")
  /\ Current = {} /\ stage # "reinstall_required"
  /\ Finish /\ UNCHANGED needs

(* With nothing to return, the consumption of the lots is known.             *)
Use(need, used) ==
  LET n == [need EXCEPT !.used = used] IN
  IF RemainingReturn(n) # 0 THEN n
  ELSE [n EXCEPT !.parts =
         [p \in DOMAIN @ |-> [@[p] EXCEPT !.used = n.parts[p].quantity - n.parts[p].returned]]]

SubmitFixed(s, m) ==
  /\ Submit(s, m, "fixed")
  /\ Current # {} => AllReceived(needs, round)
  /\ \E used \in [Current -> UNION {0..needs[n].requested : n \in Current}] :
       /\ \A n \in Current : used[n] <= Issued(needs[n]) - Returned(needs[n])
       /\ needs' = [n \in DOMAIN needs |->
                      IF n \in Current THEN Use(needs[n], used[n]) ELSE needs[n]]
  /\ Finish

(* An obstacle, or the proposal of external maintenance.                     *)
SubmitReferral(s, m, result) ==
  /\ result \in {"blocked", "external"}
  /\ Submit(s, m, result)
  /\ stage' = IF result = "blocked" THEN "blocked" ELSE "external_requested"
  /\ UNCHANGED <<needs, ticket>>

-----------------------------------------------------------------------------
(* Material needs.                                                           *)

NeedsMaterial == stage' = "waiting_material" /\ outcome' = "needs_material"

BeginMaterialNeed(s, m) ==
  /\ Admitted(s) /\ InWork(Seen(s), m)
  /\ stage = "action_required" /\ NeedsMaterial
  /\ Note(s, Stopped)
  /\ UNCHANGED <<round, needs, ticket>>

(* An item is requested once in a round; unlisted materials go by a name.    *)
Unrequested(item) == item = None \/ \A n \in Current : needs[n].item # item

(* needs with the new ones ns, of which some are handed over at once.        *)
Added(ns) ==
  /\ needs' = needs \o ns
  /\ outcome' = "needs_material"
  /\ stage' = IF AllReceived(needs', round) THEN "ready_to_repair" ELSE "waiting_material"

(* Several at once, with no route; those with a confirmed receipt are issued,*)
(* or the whole request fails.                                               *)
RequestMaterials(s, m) ==
  /\ Admitted(s) /\ InWork(Seen(s), m)
  /\ stage \in {"action_required", "reinstall_required"} /\ Current = {}
  /\ \E k \in 1..(MaxNeeds - Len(needs)), q \in Quantities :
       \E inputs \in [1..k -> [item : Items \cup {None}, parts : Lots(q) \cup {<<>>}]] :
         /\ \A i, j \in 1..k : inputs[i].item = inputs[j].item => i = j \/ inputs[i].item = None
         /\ \A i \in 1..k : inputs[i].item = None => inputs[i].parts = <<>>
         /\ Added([i \in 1..k |->
                     [Need(inputs[i].item, q, round) EXCEPT !.parts = inputs[i].parts]])
         /\ Note(s, [Stopped EXCEPT !.routes = @ \o [i \in 1..k |-> None]])
  /\ UNCHANGED <<round, ticket>>

(* One material, with the shortage of the team's stock as its route; it is   *)
(* issued if its receipt was confirmed and the stock still covers it.        *)
RegisterNeed(s, m, item, q) ==
  /\ Admitted(s)
  /\ stage \in {"action_required", "waiting_material"}
  /\ stage = "action_required" => InWork(Seen(s), m)
  /\ Len(needs) < MaxNeeds /\ Unrequested(item)
  /\ \E shortage \in (IF item = None THEN {q} ELSE 0..q) :
     \E parts \in (IF shortage = 0 THEN Lots(q) ELSE {}) \cup {<<>>} :
       /\ Added(<<[Need(item, q, round) EXCEPT !.parts = parts]>>)
       /\ Note(s, [Stopped EXCEPT !.routes = Append(@, shortage)])
  /\ UNCHANGED <<round, ticket>>

(* The warehouse gives an unlisted need its catalog item; a routed one gets  *)
(* a new route.  An item of another unit fits no more.                       *)
ResolveMaterial(s, n, item) ==
  /\ Admitted(s) /\ stage = "waiting_material"
  /\ n \in Current /\ needs[n].item = None /\ Unrequested(item)
  /\ \E fits \in BOOLEAN, shortage \in 0..needs[n].requested :
       /\ ~fits => shortage = needs[n].requested
       /\ needs' = [needs EXCEPT ![n] = [@ EXCEPT !.item = item, !.fits = fits]]
       /\ Note(s, [ledger EXCEPT !.routes[n] =
                     IF Seen(s).routes[n] = None THEN None ELSE shortage])
  /\ UNCHANGED <<stage, outcome, round, ticket>>

-----------------------------------------------------------------------------
(* Supply.  The stocks of the team's and of the main warehouse are other     *)
(* components: any quantity may be available when they are read.             *)

(* receiveMaterial and issueByWarehouse: all of the need, once its shortage  *)
(* has reached the team's warehouse.                                         *)
HandOver(s, n) ==
  /\ Admitted(s) /\ stage = "waiting_material"
  /\ n \in Current /\ needs[n].item # None /\ needs[n].fits
  /\ SupplyRemaining(Seen(s), n) = 0 /\ Issued(needs[n]) = 0
  /\ \E parts \in Lots(needs[n].requested) :
       needs' = [needs EXCEPT ![n] = [@ EXCEPT !.parts = parts]]
  /\ stage' = IF AllReceived(needs', round) THEN "ready_to_repair" ELSE stage
  /\ Note(s, ledger)
  /\ UNCHANGED <<outcome, round, ticket>>

(* What need n lacks, for some stock of the team's warehouse.                *)
Shortages(seen, n) ==
  {Max({needs[n].requested - Issued(needs[n]) - branch, SupplyRemaining(seen, n)}) :
     branch \in 0..(needs[n].requested - Issued(needs[n]))}

Supply(s, n) ==
  /\ Admitted(s) /\ stage = "waiting_material"
  /\ n \in Current /\ needs[n].item # None /\ needs[n].fits
  /\ Note(s, ledger)
  /\ UNCHANGED <<stage, outcome, round, ticket>>

(* All that is lacking, from the main warehouse, and only when no purchase   *)
(* is pending.  Counted up to the requested quantity.                        *)
Transfer(s, n) ==
  /\ Supply(s, n) /\ needs[n].ordered = 0
  /\ \E q \in 1..needs[n].requested : q \in Shortages(Seen(s), n)
       /\ needs' = [needs EXCEPT ![n] =
                      [@ EXCEPT !.transferred = Min({needs[n].requested, needs[n].transferred + q})]]

(* What neither the main warehouse nor pending purchases cover.              *)
Purchase(s, n) ==
  /\ Supply(s, n)
  /\ \E q \in 1..needs[n].requested : q \in Shortages(Seen(s), n)
       /\ \E bought \in 1..(q - needs[n].ordered) :
            needs' = [needs EXCEPT ![n] = [@ EXCEPT !.ordered = needs[n].ordered + bought]]

(* The purchase is received in the main warehouse, or cancelled; the status  *)
(* of its order is read again by every operation.                            *)
Procure(n) ==
  /\ needs[n].ordered # 0
  /\ needs' = [needs EXCEPT ![n] = [@ EXCEPT !.ordered = 0]]
  /\ UNCHANGED <<department, stage, outcome, revision, round, ledger, ticket, recorded, tx>>

-----------------------------------------------------------------------------
GiveBack(need, back) ==
  [need EXCEPT !.parts = [p \in DOMAIN @ |->
     [need.parts[p] EXCEPT
        !.returned = need.parts[p].returned + back[p],
        !.used = need.parts[p].quantity - need.parts[p].returned - back[p]]]]

(* The warehouse confirms the return of all that was not used, at any stage: *)
(* it says how much of it comes from each lot.                               *)
ConfirmReturn(s, n) ==
  /\ Admitted(s)
  /\ RemainingReturn(needs[n]) > 0
  /\ \E back \in [DOMAIN needs[n].parts -> 0..needs[n].requested] :
       /\ Total(back, Len(needs[n].parts)) = RemainingReturn(needs[n])
       /\ \A p \in DOMAIN back : back[p] <= needs[n].parts[p].quantity - needs[n].parts[p].returned
       /\ needs' = [needs EXCEPT ![n] = GiveBack(@, back)]
  /\ Note(s, ledger)
  /\ UNCHANGED <<stage, outcome, round, ticket>>

-----------------------------------------------------------------------------
(* Reviews.                                                                  *)

(* Not while a request returned by the warehouse waits for its decision.     *)
MayReview(s) == Admitted(s) /\ Seen(s).review # "returned"

AfterReturn(r) ==
  IF CurrentOf(needs, r) = {} THEN "action_required"
  ELSE IF AllReceived(needs, r) THEN "ready_to_repair" ELSE "waiting_material"

(* A plausible bug: the repair is repeated with the materials of the last.   *)
RoundAfterReviewKept == round

(* A finished repair that is returned starts a new round of materials.       *)
RoundAfterReview == IF stage = "awaiting_review" THEN round + 1 ELSE round

ReturnToTeam(s) ==
  /\ MayReview(s)
  /\ stage \in {"blocked", "external_requested", "awaiting_review"}
  /\ round' = RoundAfterReview
  /\ stage' = AfterReturn(RoundAfterReview)
  /\ outcome' = None
  /\ Note(s, Stopped)
  /\ UNCHANGED <<needs, ticket>>

ApproveExternal(s) ==
  /\ MayReview(s) /\ stage = "external_requested"
  /\ stage' = "external_in_progress"
  /\ ticket' = [ticket EXCEPT !.path = "C", !.status = "work_approved"]
  /\ Note(s, ledger)
  /\ UNCHANGED <<outcome, round, needs>>

(* handoverExternalMaintenanceAsset, inside a command of the team or alone.  *)
HandOverAsset ==
  /\ ticket.job = "waiting_technician_handover"
  /\ ticket' = [ticket EXCEPT !.job = "delivered_for_reinstall", !.status = "received_warehouse"]

(* The asset came back; or it was handed over, to the same recipient.        *)
ExternalHandover(s) ==
  /\ MayReview(s) /\ stage = "external_in_progress"
  /\ HandOverAsset \/ (ticket.job = "delivered_for_reinstall" /\ UNCHANGED ticket)
  /\ stage' = "reinstall_required"
  /\ Note(s, Stopped)
  /\ UNCHANGED <<outcome, round, needs>>

ApproveResult(s) ==
  /\ MayReview(s) /\ stage = "awaiting_review" /\ outcome \in {"ok", "fixed"}
  /\ ticket.path = "C" => ticket.job = "delivered_for_reinstall"
  /\ stage' = "closed"
  /\ ticket' = [ticket EXCEPT
       !.path = IF @ = "C" THEN "C" ELSE IF needs # <<>> THEN "B" ELSE "A",
       !.status = "ready_for_closure",
       !.job = IF ticket.path = "C" THEN "ready_for_closure" ELSE @]
  /\ Note(s, Stopped)
  /\ UNCHANGED <<outcome, round, needs>>

-----------------------------------------------------------------------------
(* The external route.  These transactions lock team, ticket and item too,   *)
(* but expect no revision.                                                   *)
RouteAction(review) ==
  /\ revision < MaxRevision /\ revision' = revision + 1
  /\ ledger' = [ledger EXCEPT !.review = review]
  /\ UNCHANGED <<department, round, needs, recorded, tx>>

(* The warehouse sends an approved request back, unless it is prepared.      *)
ReturnExternalRoute ==
  /\ ticket.path = "C" /\ ticket.status = "work_approved" /\ ticket.job = "none"
  /\ stage = "external_in_progress"
  /\ stage' = "blocked" /\ outcome' = None
  /\ ticket' = [ticket EXCEPT !.status = "under_inspection"]
  /\ RouteAction("returned")

(* The manager decides again; path A is refused while a need is unmet.       *)
DecideExternalRoute(path) ==
  /\ ticket.path = "C" /\ ticket.status = "under_inspection" /\ ticket.job = "none"
  /\ stage = "blocked" /\ ledger.review = "returned"
  /\ path = "A" => \A n \in Current : needs[n].used = needs[n].requested
  /\ stage' = CASE path = "A" -> "action_required"
                [] path = "B" -> IF /\ Current # {}
                                    /\ \A n \in Current : Issued(needs[n]) - Returned(needs[n])
                                                            >= needs[n].requested
                                 THEN "ready_to_repair" ELSE "waiting_material"
                [] path = "C" -> "external_in_progress"
  /\ outcome' = CASE path = "A" -> None
                  [] path = "B" -> "needs_material"
                  [] path = "C" -> "external"
  /\ ticket' = [ticket EXCEPT !.path = path, !.status = "work_approved"]
  /\ RouteAction("decided")

(* A plausible bug: the status that the router read earlier is trusted.      *)
PrepareUnchecked ==
  /\ ticket.path = "C" /\ ticket.job = "none"
  /\ ticket' = [ticket EXCEPT !.job = "waiting_gate_exit"]

(* The warehouse prepares the asset: the external job is created.            *)
PrepareExternalJob ==
  /\ ticket.path = "C" /\ ticket.status = "work_approved" /\ ticket.job = "none"
  /\ ticket' = [ticket EXCEPT !.job = "waiting_gate_exit"]

(* Gate exit, the delegate's purchase, gate entry and receipt move the job.  *)
NextOfJob == [waiting_gate_exit |-> "purchase_cycle",
              purchase_cycle |-> "waiting_gate_entry",
              waiting_gate_entry |-> "waiting_warehouse_receipt",
              waiting_warehouse_receipt |-> "waiting_technician_handover"]

(* The gates and the receipt read the job and the item without a lock, once. *)
BeginJobStep(from) ==
  /\ from # "purchase_cycle" /\ ticket.job = from
  /\ from = "waiting_gate_exit" => ticket.path = "C" /\ ticket.status = "work_approved"
  /\ ticket' = [ticket EXCEPT !.steps = @ \cup {from}]

(* They write whatever happened since.  A gate exit leaves the asset's order *)
(* with the delegate, who completes it without looking at the job.  Another  *)
(* step of the same kind may have begun, too: then it is still to come.      *)
EndJobStep(from) ==
  /\ from \in ticket.steps
  /\ \E left \in {ticket.steps \ {from}, ticket.steps \ ({from} \ Repeated)} :
       ticket' = [ticket EXCEPT
         !.job = NextOfJob[from],
         !.status = IF from = "waiting_gate_exit" THEN "out_for_repair" ELSE @,
         !.steps = left \cup (IF from = "waiting_gate_exit" THEN {"purchase_cycle"} ELSE {})]

ExternalJob ==
  /\ \/ PrepareExternalJob \/ HandOverAsset
     \/ \E from \in DOMAIN NextOfJob : BeginJobStep(from) \/ EndJobStep(from)
  /\ UNCHANGED <<department, stage, outcome, revision, round, ledger, needs, recorded, tx>>

-----------------------------------------------------------------------------
Execution(s) == \E m \in Members :
  \/ \E resume \in BOOLEAN : StartExecution(s, m, resume)
  \/ EndVisit(s, m)
  \/ "ok" \in Reasons /\ SubmitOk(s, m)
  \/ "fixed" \in Reasons /\ SubmitFixed(s, m)
  \/ \E result \in Reasons : SubmitReferral(s, m, result)
  \/ BeginMaterialNeed(s, m)
  \/ RequestMaterials(s, m)
  \/ \E item \in Items \cup {None}, q \in Quantities : RegisterNeed(s, m, item, q)

Materials(s) == \E n \in DOMAIN needs :
  \/ \E item \in Items : ResolveMaterial(s, n, item)
  \/ HandOver(s, n) \/ Transfer(s, n) \/ Purchase(s, n)
  \/ ConfirmReturn(s, n)

Review(s) == ReturnToTeam(s) \/ ApproveExternal(s) \/ ExternalHandover(s) \/ ApproveResult(s)

Route ==
  \/ ReturnExternalRoute
  \/ \E path \in {"A", "B", "C"} : DecideExternalRoute(path)
  \/ ExternalJob

Next ==
  \/ \E s \in Sessions :
       \/ \E key \in Keys : Begin(s, key)
       \/ End(s) \/ Execution(s) \/ Materials(s) \/ Review(s)
  \/ \E n \in DOMAIN needs : Procure(n)
  \/ Route

Spec == Init /\ [][Next]_vars

-----------------------------------------------------------------------------
Visits == [at : Nat, leader : Members, members : SUBSET Members]
Ledgers == [visits : SUBSET Visits, working : BOOLEAN,
            review : {"none", "returned", "decided"}, routes : Seq(Nat \cup {None})]
Parts == [quantity : Nat, returned : Nat, used : Int \cup {None}]
Needs == [round : Nat, item : Items \cup {None}, fits : BOOLEAN, requested : Quantities,
          used : Nat \cup {None}, parts : Seq(Parts), transferred : Nat, ordered : Nat]
Transactions == [key : Keys, expected : Nat, ledger : Ledgers, recorded : SUBSET Keys]
Outcomes == {"ok", "fixed", "blocked", "external", "needs_material"}
JobStatuses == DOMAIN NextOfJob \cup {"waiting_technician_handover", "delivered_for_reinstall",
                                      "ready_for_closure"}

TypeOK ==
  /\ department \in Departments
  /\ stage \in Stages /\ outcome \in Outcomes \cup {None}
  /\ revision \in Nat /\ round \in Nat
  /\ ledger \in Ledgers
  /\ needs \in Seq(Needs) /\ Len(ledger.routes) = Len(needs)
  /\ ticket \in [path : {"A", "B", "C", None},
                 status : {"under_inspection", "work_approved", "out_for_repair",
                           "received_warehouse", "ready_for_closure", "closed"},
                 job : JobStatuses \cup {"none"}, steps : SUBSET DOMAIN NextOfJob]
  /\ recorded \subseteq KeysOf(Open)
  /\ DOMAIN tx = Sessions /\ \A s \in Open : tx[s] \in Transactions

(* Hazard: the ledger is read in a view that opened before the locks were    *)
(* granted.  An operation that passes the check of the revision has          *)
(* nevertheless seen the latest ledger, and its own key if it is recorded.   *)
FreshLedger == \A s \in Open :
  tx[s].expected = revision =>
    /\ tx[s].ledger = ledger
    /\ tx[s].key \in recorded => tx[s].key \in tx[s].recorded

(* Hazard: two members press start at the same moment.  One visit is open at *)
(* most, its leader belongs to it, and nobody works outside a visit.         *)
OneOpenVisit ==
  /\ \A v, w \in ledger.visits : v = w
  /\ \A v \in ledger.visits : v.leader \in v.members
  /\ Working(ledger) => ledger.visits # {}

(* Hazard: the stage is computed from the needs at four places.  A need of   *)
(* the round that is not handed over keeps the ticket in waiting_material,   *)
(* and the last delivery takes it out of there.                              *)
ReceiptDrivesStage ==
  /\ stage # "waiting_material" => \A n \in Current : Delivered(needs[n])
  /\ stage = "waiting_material" => ~AllReceived(needs, round)
  /\ stage = "ready_to_repair" => Current # {}

Accounted(need) ==
  LET known == {p \in DOMAIN need.parts : need.parts[p].used # None} IN
  /\ Issued(need) \in {0, need.requested}
  /\ need.used # None => need.used + Returned(need) <= Issued(need)
  /\ known # {} => known = DOMAIN need.parts
  /\ known # {} <=> need.parts # <<>> /\ need.used # None /\ RemainingReturn(need) = 0
  /\ known # {} => TotalOf(need.parts, "used") = need.used

(* Hazard: use is declared, returned and attributed to lots in separate      *)
(* operations, and a repair may be repeated.  Nothing is used or returned    *)
(* beyond what was handed over, and the lots' consumption, once known, is    *)
(* what the technician declared.                                             *)
MaterialsAccounted == \A n \in DOMAIN needs : Accounted(needs[n])

(* Hazard: stock bought for a need sits in the main warehouse.  No need is   *)
(* handed over before its recorded shortage was transferred to the team.     *)
TransferCoversShortage == \A n \in DOMAIN needs :
  needs[n].parts # <<>> /\ ledger.routes[n] # None => needs[n].transferred >= ledger.routes[n]

(* Hazard: the warehouse returns a request while it prepares it, or while    *)
(* the manager reviews, and the gates write what they did not lock.  A       *)
(* returned request stays blocked, under inspection and without a job until  *)
(* the route is decided; a job belongs to path C (the result of the IT       *)
(* department's executor closes the ticket with path B).  While external     *)
(* maintenance is in progress the path is C, and the item is approved as     *)
(* long as its asset has not left; only what has left is reinstalled.        *)
NotLeft == ticket.job \in {"none", "waiting_gate_exit"}

RouteConsistent ==
  /\ ledger.review = "returned" =>
       stage = "blocked" /\ ticket.status = "under_inspection" /\ ticket.job = "none"
  /\ ticket.job # "none" /\ stage # "closed" => ticket.path = "C"
  /\ stage = "external_in_progress" =>
       ticket.path = "C" /\ (NotLeft => ticket.status = "work_approved")
  /\ stage = "reinstall_required" => ~NotLeft
===============================================================================
