----------------------------- MODULE PmMaterials ------------------------------
(* Materials of one task item of preventive maintenance: how they are issued *)
(* from the team's warehouse, linked to the task, used and given back.       *)
(*                                                                           *)
(* Issuing and returning are no transactions: a request goes through several *)
(* of its own, moves stock in one and writes about it in another, and other  *)
(* requests, or its own end, may come in between.                            *)
EXTENDS Integers, Sequences, FiniteSets, RunningTotals

CONSTANTS
  Clerks,      \* requests that may run at once
  Items,       \* catalog items
  NumLots,     \* lots of each item, in the order in which they are used
  Shared,      \* lots that other tasks take from as well
  StartStocks, \* how much of each lot the team's warehouse has: a set of functions
  Required,    \* quantities that are required
  None,
  MaxRoutes, MaxDeliveries  \* bounds

Lots == 1..NumLots

ASSUME MaterialBounds ==
  /\ IsFiniteSet(Clerks)
  /\ NumLots \in Nat /\ Shared \subseteq Lots
  /\ Required \subseteq Nat \ {0}
  /\ StartStocks \subseteq [Lots -> Nat]
  /\ MaxRoutes \in Nat /\ MaxDeliveries \in Nat
  /\ None \notin [used : Nat, toReturn : Nat]

VARIABLES
  status,      \* of the task item
  asked,       \* how many routes were decided when materials were last asked for
  stock,       \* of the team's warehouse
  routes,      \* route decisions: an item and how much of it is required
  deliveries,  \* delivery documents, with what was physically returned on them
  links,       \* actions that link a delivery to a route
  declared,    \* per route: what the technician used and has to give back
  parts,       \* actions that record a part of a return
  usages,      \* per route: what each finalization wrote to the material usages
  proc         \* the requests

vars == <<status, asked, stock, routes, deliveries, links, declared, parts, usages, proc>>

-----------------------------------------------------------------------------
Least(a, b) == IF a <= b THEN a ELSE b
Positive(a) == IF a > 0 THEN a ELSE 0

(* What is left for position p, when quantity is taken greedily from what is *)
(* available at the positions 1, 2, ...                                      *)
Greedy(available, quantity, p) ==
  Least(available[p], Positive(quantity - Total(available, p - 1)))

LinkedTo(ls, r) ==
  Total([i \in DOMAIN ls |-> IF ls[i].route = r THEN deliveries[ls[i].delivery].quantity
                             ELSE 0], Len(ls))
LinkedDeliveries(r) == {links[i].delivery : i \in {j \in DOMAIN links : links[j].route = r}}
IsLinked(d) == \E i \in DOMAIN links : links[i].delivery = d
Missing(r) == routes[r].required - LinkedTo(links, r)

(* The last decision about an item counts.                                   *)
Latest == {r \in DOMAIN routes :
             \A q \in DOMAIN routes : routes[q].item = routes[r].item => q <= r}

(* A plausible bug: the first material that is complete counts for all.      *)
AnyIssued(ls) == \E r \in Latest : LinkedTo(ls, r) >= routes[r].required

(* Materials without a catalog item are left out; one of them keeps the item *)
(* of the code waiting, so readiness is only easier to reach here.           *)
AllIssued(ls) == Latest # {} /\ \A r \in Latest : LinkedTo(ls, r) >= routes[r].required

(* The recorded parts of a return: for a requirement on a delivery, for a    *)
(* requirement, on a delivery.                                               *)
TotalOf(of(_)) ==
  Total([i \in DOMAIN parts |-> IF of(parts[i]) THEN parts[i].quantity ELSE 0], Len(parts))
Recorded(r, d) == TotalOf(LAMBDA p : p.route = r /\ p.delivery = d)
RecordedFor(r) == TotalOf(LAMBDA p : p.route = r)
RecordedOn(d) == TotalOf(LAMBDA p : p.delivery = d)

ToReturn(r) == IF declared[r] = None THEN 0 ELSE declared[r].toReturn
PendingReturn(r) == ToReturn(r) - RecordedFor(r)

(* What is left of the deliveries in ds.                                     *)
LeftOf(r, ds) ==
  [d \in DOMAIN deliveries |->
     IF d \in ds THEN Positive(deliveries[d].quantity - Recorded(r, d)) ELSE 0]
Net(r) == Total(LeftOf(r, LinkedDeliveries(r)), Len(deliveries))

-----------------------------------------------------------------------------
Init ==
  /\ status = "waiting_material" /\ asked = 0
  /\ stock \in [Items -> StartStocks]
  /\ routes = <<>> /\ deliveries = <<>> /\ links = <<>>
  /\ declared = <<>> /\ parts = <<>> /\ usages = <<>>
  /\ proc = [c \in Clerks |-> None]

(* A technician requires a material, again or for the first time; under the  *)
(* lock of the item.                                                         *)
SubmitMaterialNeed(item, q) ==
  /\ status = "waiting_material" /\ Len(routes) < MaxRoutes
  /\ routes' = Append(routes, [item |-> item, required |-> q])
  /\ declared' = Append(declared, None) /\ usages' = Append(usages, <<>>)
  /\ UNCHANGED <<status, asked, stock, deliveries, links, parts, proc>>

(* The technician resumes the work and finds that more is needed.            *)
NeedMore ==
  /\ status = "ready_to_complete" /\ status' = "waiting_material"
  /\ asked' = Len(routes)
  /\ UNCHANGED <<stock, routes, deliveries, links, declared, parts, usages, proc>>

(* Another task takes from the same lot.                                     *)
TakeStock(item, lot) ==
  /\ stock[item][lot] > 0
  /\ stock' = [stock EXCEPT ![item][lot] = @ - 1]
  /\ UNCHANGED <<status, asked, routes, deliveries, links, declared, parts, usages, proc>>

-----------------------------------------------------------------------------
(* Issuing.                                                                  *)
At(c, step) == proc[c] # None /\ proc[c].at = step
Continue(c, next) == proc' = [proc EXCEPT ![c] = next]

(* The queue lists what is still missing of a material, unless a delivery of *)
(* it waits to be linked.                                                    *)
BeginIssue(c, r) ==
  /\ proc[c] = None
  /\ status = "waiting_material" /\ r \in Latest /\ Missing(r) > 0
  /\ ~\E d \in DOMAIN deliveries :
        deliveries[d].marked /\ deliveries[d].route = r /\ ~IsLinked(d)
  /\ Total(stock[routes[r].item], NumLots) >= Missing(r)
  /\ Continue(c, [at |-> "plan", route |-> r, quantity |-> Missing(r)])
  /\ UNCHANGED <<status, asked, stock, routes, deliveries, links, declared, parts, usages>>

(* The lots are read again and the listed quantity is split over them.       *)
PlanIssue(c) ==
  /\ At(c, "plan")
  /\ LET available == stock[routes[proc[c].route].item] IN
       /\ Total(available, NumLots) >= proc[c].quantity
       /\ Continue(c, [at |-> "issue", route |-> proc[c].route,
                       plan |-> [l \in Lots |-> Greedy(available, proc[c].quantity, l)]])
  /\ UNCHANGED <<status, asked, stock, routes, deliveries, links, declared, parts, usages>>

IsNextLot(p, l) == p.plan[l] > 0 /\ \A k \in Lots : k < l => p.plan[k] = 0

Deliver(c, l, q) ==
  LET r == proc[c].route IN
  /\ stock' = [stock EXCEPT ![routes[r].item][l] = @ - q]
  /\ deliveries' = Append(deliveries, [route |-> r, lot |-> l, quantity |-> q,
                                       marked |-> FALSE, returned |-> 0])
  /\ Continue(c, [at |-> "read", route |-> r, delivery |-> Len(deliveries) + 1,
                  plan |-> [proc[c].plan EXCEPT ![l] = 0], issuing |-> TRUE])
  /\ UNCHANGED <<status, asked, routes, links, declared, parts, usages>>

(* A plausible bug: the planned quantity is taken for granted.               *)
IssueUnchecked(c) ==
  /\ At(c, "issue") /\ Len(deliveries) < MaxDeliveries
  /\ \E l \in Lots : IsNextLot(proc[c], l) /\ Deliver(c, l, proc[c].plan[l])

(* issueDelivery, a transaction of its own: stock moves.                     *)
IssueDelivery(c) ==
  /\ At(c, "issue") /\ Len(deliveries) < MaxDeliveries
  /\ \E l \in Lots :
       /\ IsNextLot(proc[c], l)
       /\ stock[routes[proc[c].route].item][l] >= proc[c].plan[l]
       /\ Deliver(c, l, proc[c].plan[l])

(* The warehouse links a delivery that it finds unlinked.                    *)
BeginRelink(c, d, r) ==
  /\ proc[c] = None
  /\ routes[r].item = routes[deliveries[d].route].item
  /\ Continue(c, [at |-> "read", route |-> r, delivery |-> d,
                  plan |-> [l \in Lots |-> 0], issuing |-> FALSE])
  /\ UNCHANGED <<status, asked, stock, routes, deliveries, links, declared, parts, usages>>

(* linkConfirmedDelivery reads the requirement before its transaction.       *)
ReadRequirement(c) ==
  /\ At(c, "read")
  /\ Continue(c, [at |-> IF status = "waiting_material" THEN "link" ELSE "late",
                  route |-> proc[c].route, delivery |-> proc[c].delivery,
                  plan |-> proc[c].plan, issuing |-> proc[c].issuing])
  /\ UNCHANGED <<status, asked, stock, routes, deliveries, links, declared, parts, usages>>

(* On to the next lot, if the request is about several.                      *)
AfterLink(p) ==
  IF \E l \in Lots : p.plan[l] > 0
  THEN [at |-> "issue", route |-> p.route, plan |-> p.plan] ELSE None

AddLink(c) ==
  /\ links' = Append(links, [delivery |-> proc[c].delivery, route |-> proc[c].route])
  /\ status' = IF status = "waiting_material" /\ AllIssued(links')
               THEN "ready_to_complete" ELSE status
  /\ Continue(c, AfterLink(proc[c]))
  /\ UNCHANGED <<asked, stock, routes, deliveries, declared, parts, usages>>

(* A plausible bug: an existing link is not looked up.                       *)
LinkWithoutLookup(c) ==
  /\ At(c, "link")
  /\ deliveries[proc[c].delivery].quantity <= Missing(proc[c].route)
  /\ AddLink(c)

(* Under the locks of the delivery and of the item.                          *)
Link(c) ==
  /\ At(c, "link")
  /\ ~IsLinked(proc[c].delivery)
  /\ deliveries[proc[c].delivery].quantity <= Missing(proc[c].route)
  /\ AddLink(c)

(* The delivery is linked to this route already.                             *)
LinkAgain(c) ==
  /\ At(c, "link") \/ At(c, "late")
  /\ proc[c].delivery \in LinkedDeliveries(proc[c].route)
  /\ Continue(c, AfterLink(proc[c]))
  /\ UNCHANGED <<status, asked, stock, routes, deliveries, links, declared, parts, usages>>

(* Refused, or the database fails.                                           *)
LinkFails(c) ==
  /\ At(c, "link") \/ At(c, "late")
  /\ Continue(c, IF proc[c].issuing THEN [at |-> "mark", delivery |-> proc[c].delivery]
                                    ELSE None)
  /\ UNCHANGED <<status, asked, stock, routes, deliveries, links, declared, parts, usages>>

(* The marker that holds back another issue of the material.                 *)
RecordPendingIssueLink(c) ==
  /\ At(c, "mark")
  /\ deliveries' = [deliveries EXCEPT ![proc[c].delivery].marked = TRUE]
  /\ Continue(c, None)
  /\ UNCHANGED <<status, asked, stock, routes, links, declared, parts, usages>>

(* An error or the end of the server, between two transactions or in one.    *)
Fail(c) ==
  /\ proc[c] # None
  /\ Continue(c, None)
  /\ UNCHANGED <<status, asked, stock, routes, deliveries, links, declared, parts, usages>>

-----------------------------------------------------------------------------
(* Use and return.                                                           *)

(* The technician completes the item and says what was used of each material;*)
(* with nothing to return the consumption is final at once.                  *)
DeclareConsumption ==
  /\ status = "ready_to_complete" /\ status' = "completed"
  /\ \E used \in [Latest -> UNION {0..LinkedTo(links, r) : r \in Latest}] :
       /\ \A r \in Latest : used[r] <= LinkedTo(links, r)
       /\ declared' = [r \in DOMAIN routes |->
            IF r \notin Latest THEN None
            ELSE [used |-> used[r], toReturn |-> LinkedTo(links, r) - used[r]]]
       /\ usages' = [r \in DOMAIN routes |->
            IF r \in Latest /\ used[r] = LinkedTo(links, r) THEN <<used[r]>> ELSE <<>>]
  /\ UNCHANGED <<asked, stock, routes, deliveries, links, parts, proc>>

FromLot(r, l) == {d \in LinkedDeliveries(r) : deliveries[d].lot = l}

(* The warehouse says how much of what is pending comes from which lot.      *)
BeginReturn(c, r) ==
  /\ proc[c] = None /\ PendingReturn(r) > 0
  /\ \E lots \in [Lots -> 0..PendingReturn(r)] :
       /\ Total(lots, NumLots) = PendingReturn(r)
       /\ \A l \in Lots : lots[l] <= Total(LeftOf(r, FromLot(r, l)), Len(deliveries))
       /\ Continue(c, [at |-> "planReturn", route |-> r, lots |-> lots])
  /\ UNCHANGED <<status, asked, stock, routes, deliveries, links, declared, parts, usages>>

(* The recorded parts are read again, and each lot's quantity is split over  *)
(* its deliveries; the request fails at the end if it does not fit.          *)
PlanReturn(c) ==
  /\ At(c, "planReturn")
  /\ LET r == proc[c].route
         left(l) == LeftOf(r, FromLot(r, l))
     IN Continue(c, [at |-> "return", route |-> r,
          plan |-> [d \in LinkedDeliveries(r) |->
                      Greedy(left(deliveries[d].lot), proc[c].lots[deliveries[d].lot], d)],
          fits |-> \A l \in Lots : Total(left(l), Len(deliveries)) >= proc[c].lots[l]])
  /\ UNCHANGED <<status, asked, stock, routes, deliveries, links, declared, parts, usages>>

GiveBack(d, item, q) ==
  /\ deliveries' = [deliveries EXCEPT ![d].returned = @ + q]
  /\ stock' = [stock EXCEPT ![item][deliveries[d].lot] = @ + q]

Returnable(d, q) == deliveries[d].returned + q <= deliveries[d].quantity

ToRecord(c, d) ==
  /\ Continue(c, [at |-> "record", route |-> proc[c].route, delivery |-> d,
                  plan |-> proc[c].plan, fits |-> proc[c].fits])
  /\ UNCHANGED <<status, asked, routes, links, declared, parts, usages>>

(* A plausible bug: the refusal of the warehouse is swallowed.               *)
CreateReturnOrIgnore(c) ==
  /\ At(c, "return")
  /\ \E d \in DOMAIN proc[c].plan :
       LET q == proc[c].plan[d] IN
       /\ q > 0 /\ ToRecord(c, d)
       /\ IF Returnable(d, q) THEN GiveBack(d, routes[proc[c].route].item, q)
          ELSE UNCHANGED <<deliveries, stock>>

(* createReturn, a transaction of its own: stock moves.  The warehouse       *)
(* refuses more than the delivery has left.                                  *)
CreateReturn(c) ==
  /\ At(c, "return")
  /\ \E d \in DOMAIN proc[c].plan :
       LET q == proc[c].plan[d] IN
       /\ q > 0 /\ Returnable(d, q)
       /\ GiveBack(d, routes[proc[c].route].item, q)
       /\ ToRecord(c, d)

(* The part is recorded, and the next one is given back.                     *)
RecordPart(c) ==
  /\ At(c, "record")
  /\ LET p == proc[c]
         plan == [p.plan EXCEPT ![p.delivery] = 0] IN
       /\ parts' = Append(parts, [route |-> p.route, delivery |-> p.delivery,
                                  quantity |-> p.plan[p.delivery]])
       /\ Continue(c, IF \E d \in DOMAIN plan : plan[d] > 0
                      THEN [at |-> "return", route |-> p.route, plan |-> plan, fits |-> p.fits]
                      ELSE IF p.fits THEN [at |-> "refresh", route |-> p.route] ELSE None)
  /\ UNCHANGED <<status, asked, stock, routes, deliveries, links, declared, usages>>

(* With nothing left to return, the transaction that finalizes the           *)
(* consumption reads what was linked, recorded and finalized.                *)
BeginFinalize(c) ==
  /\ At(c, "refresh") /\ PendingReturn(proc[c].route) <= 0
  /\ Continue(c, [at |-> "finalize", route |-> proc[c].route,
                  net |-> Net(proc[c].route), already |-> usages[proc[c].route] # <<>>])
  /\ UNCHANGED <<status, asked, stock, routes, deliveries, links, declared, parts, usages>>

(* A plausible bug: the net consumption is not compared.                     *)
FinalizeAnyNet(c) ==
  /\ At(c, "finalize") /\ ~proc[c].already
  /\ usages' = [usages EXCEPT ![proc[c].route] =
                  Append(@, Least(proc[c].net, declared[proc[c].route].used))]
  /\ Continue(c, None)
  /\ UNCHANGED <<status, asked, stock, routes, deliveries, links, declared, parts>>

(* Nothing locks the declaration: another request may finalize it as well.   *)
FinalizeConsumption(c) ==
  /\ At(c, "finalize") /\ ~proc[c].already
  /\ proc[c].net = declared[proc[c].route].used
  /\ usages' = [usages EXCEPT ![proc[c].route] = Append(@, proc[c].net)]
  /\ Continue(c, None)
  /\ UNCHANGED <<status, asked, stock, routes, deliveries, links, declared, parts>>

-----------------------------------------------------------------------------
Issuing(c) ==
  \/ \E r \in DOMAIN routes : BeginIssue(c, r)
  \/ PlanIssue(c) \/ IssueDelivery(c)
  \/ \E d \in DOMAIN deliveries, r \in DOMAIN routes : BeginRelink(c, d, r)
  \/ ReadRequirement(c) \/ Link(c) \/ LinkAgain(c) \/ LinkFails(c)
  \/ RecordPendingIssueLink(c)

Returning(c) ==
  \/ \E r \in DOMAIN routes : BeginReturn(c, r)
  \/ PlanReturn(c) \/ CreateReturn(c) \/ RecordPart(c)
  \/ BeginFinalize(c) \/ FinalizeConsumption(c)

Next ==
  \/ \E item \in Items, q \in Required : SubmitMaterialNeed(item, q)
  \/ \E item \in Items, lot \in Shared : TakeStock(item, lot)
  \/ \E c \in Clerks : Issuing(c) \/ Returning(c) \/ Fail(c)
  \/ NeedMore \/ DeclareConsumption

Spec == Init /\ [][Next]_vars

-----------------------------------------------------------------------------
Routes == [item : Items, required : Nat]
Deliveries == [route : Nat, lot : Lots, quantity : Nat, marked : BOOLEAN, returned : Nat]

TypeOK ==
  /\ status \in {"waiting_material", "ready_to_complete", "completed"}
  /\ asked \in Nat
  /\ stock \in [Items -> [Lots -> Nat]]
  /\ routes \in Seq(Routes)
  /\ deliveries \in Seq(Deliveries)
  /\ links \in Seq([delivery : DOMAIN deliveries, route : DOMAIN routes])
  /\ declared \in Seq([used : Nat, toReturn : Nat] \cup {None}) /\ Len(declared) = Len(routes)
  /\ parts \in Seq([route : DOMAIN routes, delivery : DOMAIN deliveries, quantity : Nat])
  /\ usages \in Seq(Seq(Nat)) /\ Len(usages) = Len(routes)
  /\ DOMAIN proc = Clerks

(* Hazard: a delivery is linked by the request that made it, by one that     *)
(* repeats it and by the warehouse.  It counts once, for one requirement,    *)
(* and no requirement gets more than it asked for.                           *)
LinkedOnce ==
  /\ \A i, j \in DOMAIN links : links[i].delivery = links[j].delivery => i = j
  /\ \A r \in DOMAIN routes : Missing(r) >= 0

(* Hazard: materials are required, superseded and linked concurrently.  The  *)
(* item waits no longer than one of its current requirements is not met, or  *)
(* the technician has not said yet what is needed; and what was met stays    *)
(* met.                                                                      *)
ReadyMeansIssued ==
  LET unmet == \E r \in Latest : Missing(r) > 0 IN
  IF status = "waiting_material" THEN Len(routes) = asked \/ unmet
                                 ELSE routes # <<>> /\ ~unmet

(* Hazard: two clerks confirm one return.  However they interleave, use is   *)
(* written once, as declared.                                                *)
UsageWrittenOnce == \A r \in DOMAIN routes :
  usages[r] # <<>> => usages[r] = <<declared[r].used>>

(* Hazard: the server stops between the return and its record.  A recorded   *)
(* part was given back to the warehouse, on a delivery that was linked.      *)
RecordedWasReturned == \A d \in DOMAIN deliveries :
  /\ deliveries[d].returned <= deliveries[d].quantity
  /\ RecordedOn(d) <= deliveries[d].returned
===============================================================================
