---------------------------- MODULE PricingBundle ----------------------------
(* The pricing bundles of the delegates.                                     *)
(*                                                                            *)
(* A delegate prices items of several purchase orders, reserves them in his   *)
(* one open bundle and sends the bundle to accounting: one batch per order,   *)
(* and a frozen copy of the rows.  The bundle's own operations are            *)
(* transactions that lock the delegate, the bundle and the items before they  *)
(* read anything, so each is one step.  The other endpoints that write items  *)
(* read first and write later, each statement on its own; a write of a price  *)
(* locks the item and then asks whether a bundle reserves it.  Every read     *)
(* view opens after the lock (REPEATABLE READ of InnoDB).                     *)
EXTENDS Integers, FiniteSets

CONSTANTS
  Items, Orders,        \* sets of numbers: both are processed in ascending order
  OrderOf,              \* the purchase order of each item, which never changes
  Delegates,
  Clients,              \* requests of other endpoints that may be open at once
  None,
  UnitCosts, Quantities, \* bounds: what a request may enter
  StartOwners,          \* the delegates the items may start with
  StartCosts,           \* the unit costs the items may start with, 0 for no price
  MaxRequests,          \* bound: requests of other endpoints
  MaxBundles,           \* bound: bundles
  MaxRevision,          \* bound: additions and removals of one bundle
  Limit                 \* PRICING_BUNDLE_LIMIT

ASSUME ItemsAndOrders ==
  Items \subseteq Nat /\ Orders \subseteq Nat \ {0} /\ OrderOf \in [Items -> Orders]
ASSUME CostsPositive ==
  /\ UnitCosts \subseteq Nat \ {0}
  /\ Quantities \subseteq Nat \ {0}
  /\ StartCosts \subseteq [Items -> Nat]
ASSUME BoundsNatural ==
  /\ MaxRequests \in Nat /\ MaxBundles \in Nat /\ MaxRevision \in Nat
  /\ Limit \in Nat
ASSUME OwnersAreDelegates ==
  None \notin Delegates /\ StartOwners \subseteq [Items -> Delegates]

VARIABLES
  item,       \* purchase_order_items
  order,      \* purchase_orders.status
  bundle,     \* delegate_pricing_bundles with their live links
  announced,  \* the batches accounting was told of
  screen,     \* what each delegate's screen shows of a bundle
  finish,     \* the finalization of a bundle that is under way
  request,    \* the open requests of the other endpoints
  spent       \* requests begun so far

vars == <<item, order, bundle, announced, screen, finish, request, spent>>

Bundles == 1..MaxBundles
(* A batch is named by who made it (a bundle, or 0 - the number of the request *)
(* that sent an order on its own) and by its order; 0 stands for no batch.     *)
Senders == (-MaxRequests)..MaxBundles
NoBatch == <<0, 0>>
Batches == (Senders \X Orders) \cup {NoBatch}

Price == [unit : Nat, quantity : Nat, total : Nat]
ItemRow == [status : {"pending", "estimated"}, price : Price,
            delegate : Delegates, batch : Batches]
(* Accounting, management and purchase change the status further; none of     *)
(* these statuses differs from "pending_accounting" for a bundle.             *)
OrderStatuses ==
  {"pending_estimate", "pending_accounting", "revision_needed", "pending_review"}

(* A bundle's row: its live links, the rows frozen when it was sent, and the  *)
(* orders whose batch is not announced yet.                                   *)
BundleRow == [delegate : Delegates \cup {None}, status : {"none", "open", "archived"},
              revision : Nat, items : SUBSET Items, rows : [Items -> Price],
              unsynced : SUBSET Orders, done : BOOLEAN]
Screen == [bundle : Bundles \cup {0}, revision : Nat, todo : SUBSET Items,
           stage : {"none", "header", "links"}, rows : [Items -> Price]]

NotRead == [unit |-> 0, quantity |-> 0, total |-> 0]
NoRows == [i \in Items |-> NotRead]
Unopened == [delegate |-> None, status |-> "none", revision |-> 0,
             items |-> {}, rows |-> NoRows, unsynced |-> {}, done |-> FALSE]
Blank == [bundle |-> 0, revision |-> 0, stage |-> "none", todo |-> {}, rows |-> NoRows]
NotFinishing == [on |-> FALSE, synced |-> {}]
Idle == [kind |-> "none", number |-> 0, item |-> 0, order |-> 0, unit |-> 0,
         quantity |-> 0, seen |-> [price |-> NotRead, batch |-> NoBatch], todo |-> {}]
Request == [kind : {"none", "edit", "estimate", "submit", "sending", "revision"},
            number : 0..MaxRequests, item : Items \cup {0}, order : Orders \cup {0},
            unit : Nat, quantity : Nat, todo : SUBSET Items,
            seen : [price : Price, batch : Batches]]

(* The least number of a set, if it has one                                   *)
Least(S) == {x \in S : \A y \in S : x <= y}
RowOf(i) == item[i].price
Read(i) == [price |-> item[i].price, batch |-> item[i].batch]
Rows(S) == [i \in Items |-> IF i \in S THEN RowOf(i) ELSE NotRead]

(* Assigned items, some of them priced already.                              *)
Init ==
  /\ \E owner \in StartOwners, unit \in StartCosts :
        item = [i \in Items |->
          [status |-> IF unit[i] = 0 THEN "pending" ELSE "estimated",
           delegate |-> owner[i], batch |-> NoBatch,
           price |-> [unit |-> unit[i], quantity |-> 1, total |-> unit[i]]]]
  /\ order = [o \in Orders |-> "pending_estimate"]
  /\ bundle = [b \in Bundles |-> Unopened]
  /\ announced = {}
  /\ screen = [d \in Delegates |-> Blank]
  /\ finish = [b \in Bundles |-> NotFinishing]
  /\ request = [c \in Clients |-> Idle]
  /\ spent = 0
-----------------------------------------------------------------------------
(* The delegate.                                                             *)
Closed == {"revision_needed", "pending_review"}
AddsUp(p) == p.unit > 0 /\ p.total = p.unit * p.quantity

(* A plausible bug: only the presence of a price is checked.                 *)
PricedAtAll(i, d) ==
  /\ item[i].delegate = d /\ item[i].status = "estimated" /\ item[i].batch = NoBatch
  /\ order[OrderOf[i]] \notin Closed
  /\ item[i].price.unit > 0

(* The price is checked against the quantity: two racing edits can store a   *)
(* total of neither.  The check also refuses an item whose delegate is asked *)
(* to be changed, and draft, closed and rejected orders: those are left out, *)
(* so more items are eligible here.                                          *)
Eligible(i, d) ==
  /\ item[i].delegate = d /\ item[i].status = "estimated" /\ item[i].batch = NoBatch
  /\ order[OrderOf[i]] \notin Closed
  /\ AddsUp(item[i].price)

IsOpen(b) == bundle[b].status = "open"
Reserved(i) == \E b \in Bundles : IsOpen(b) /\ i \in bundle[b].items

(* The open bundle of a delegate, or the next one when he has none.          *)
Current(d) ==
  LET mine == {b \in Bundles : IsOpen(b) /\ bundle[b].delegate = d}
      free == {b \in Bundles : bundle[b].status = "none"}
  IN IF mine # {} THEN mine ELSE Least(free)

Add(d, i) ==
  /\ Eligible(i, d) /\ ~ Reserved(i)
  /\ \E b \in Current(d) :
        /\ Cardinality(bundle[b].items) < Limit /\ bundle[b].revision < MaxRevision
        /\ bundle' = [bundle EXCEPT ![b] = [@ EXCEPT !.delegate = d, !.status = "open",
               !.items = bundle[b].items \cup {i}, !.revision = bundle[b].revision + 1]]
  /\ UNCHANGED <<item, order, announced, screen, finish, request, spent>>

Remove(d, b, i) ==
  /\ IsOpen(b) /\ bundle[b].delegate = d /\ i \in bundle[b].items
  /\ bundle[b].revision < MaxRevision
  /\ bundle' = [bundle EXCEPT ![b].items = @ \ {i}, ![b].revision = @ + 1]
  /\ UNCHANGED <<item, order, announced, screen, finish, request, spent>>

(* His screen is read in steps, without a transaction: the bundle, its links, *)
(* and one item after the other.                                             *)
Show(d, s) == /\ screen' = [screen EXCEPT ![d] = s]
              /\ UNCHANGED <<item, order, bundle, announced, finish, request, spent>>

ReadBundle(d, b) ==
  /\ IsOpen(b) /\ bundle[b].delegate = d
  /\ Show(d, [bundle |-> b, revision |-> bundle[b].revision, stage |-> "header",
              todo |-> {}, rows |-> NoRows])

ReadLinks(d) ==
  /\ screen[d].stage = "header"
  /\ Show(d, [screen[d] EXCEPT !.stage = "links",
                               !.todo = bundle[screen[d].bundle].items])

(* A plausible bug: the revision is read last.                               *)
ReadItemThenRevision(d) ==
  /\ screen[d].stage = "links"
  /\ \E i \in screen[d].todo :
        Show(d, [screen[d] EXCEPT !.todo = @ \ {i}, !.rows[i] = RowOf(i),
                   !.revision = bundle[screen[d].bundle].revision])

ReadItem(d) ==
  /\ screen[d].stage = "links"
  /\ \E i \in screen[d].todo :
        Show(d, [screen[d] EXCEPT !.todo = @ \ {i}, !.rows[i] = RowOf(i)])

Shown(d) == screen[d].stage = "links" /\ screen[d].todo = {}

(* Sending what the screen shows: every item is checked again under its lock, *)
(* each order gets one batch of exactly the bundle's items, and the rows are  *)
(* frozen.  A bundle that was sent already answers success and is left alone. *)
Send(d) ==
  LET b == screen[d].bundle
      mine == bundle[b].items
      orders == {OrderOf[i] : i \in mine}
  IN
  /\ Shown(d) /\ IsOpen(b)
  /\ bundle[b].revision = screen[d].revision
  /\ mine # {} /\ \A i \in mine : Eligible(i, d)
  /\ item' = [i \in Items |-> IF i \in mine
                THEN [item[i] EXCEPT !.batch = <<b, OrderOf[i]>>] ELSE item[i]]
  /\ order' = [o \in Orders |-> IF o \in orders THEN "pending_accounting" ELSE order[o]]
  /\ bundle' = [bundle EXCEPT ![b] = [@ EXCEPT !.status = "archived",
                  !.revision = bundle[b].revision + 1, !.rows = Rows(mine), !.unsynced = orders]]
  /\ screen' = [screen EXCEPT ![d] = Blank]
  /\ UNCHANGED <<announced, finish, request, spent>>

-----------------------------------------------------------------------------
(* After the send, and again on request until it succeeds: accounting is told *)
(* of each batch (through other connections, so at once), and each one is     *)
(* marked.  The bundle's row is locked meanwhile.                            *)
BeginFinish(b) ==
  /\ bundle[b].status = "archived" /\ ~ bundle[b].done
  /\ ~ finish[b].on
  /\ finish' = [finish EXCEPT ![b] = [on |-> TRUE, synced |-> {}]]
  /\ UNCHANGED <<item, order, bundle, announced, screen, request, spent>>

Unsynced(b) == bundle[b].unsynced \ finish[b].synced

SyncBatch(b) ==
  /\ finish[b].on
  /\ \E o \in Least(Unsynced(b)) :
        /\ announced' = announced \cup {<<b, o>>}
        /\ finish' = [finish EXCEPT ![b].synced = @ \cup {o}]
  /\ UNCHANGED <<item, order, bundle, screen, request, spent>>

CommitFinish(b, done) ==
  /\ bundle' = [bundle EXCEPT ![b].unsynced = Unsynced(b), ![b].done = done]
  /\ finish' = [finish EXCEPT ![b] = NotFinishing]
  /\ UNCHANGED <<item, order, announced, screen, request, spent>>

EndFinish(b) == finish[b].on /\ Unsynced(b) = {} /\ CommitFinish(b, TRUE)

(* A plausible bug: an error is swallowed and the bundle counts as done.     *)
SyncFailsUnnoticed(b) == finish[b].on /\ Unsynced(b) # {} /\ CommitFinish(b, TRUE)

(* An error keeps what was marked; a crash loses the marks.                  *)
SyncFails(b) == finish[b].on /\ Unsynced(b) # {} /\ CommitFinish(b, FALSE)

CrashFinish(b) ==
  /\ finish[b].on
  /\ finish' = [finish EXCEPT ![b] = NotFinishing]
  /\ UNCHANGED <<item, order, bundle, announced, screen, request, spent>>

-----------------------------------------------------------------------------
(* The other endpoints.  Each begins with reads; its writes come later.      *)
Begin(c, fields) ==
  /\ request[c].kind = "none" /\ spent < MaxRequests
  /\ spent' = spent + 1
  /\ request' = [request EXCEPT ![c] = [fields EXCEPT !.number = spent + 1]]

Continue(c, r) == request' = [request EXCEPT ![c] = r] /\ UNCHANGED spent
Finished(c) == Continue(c, Idle)

WriteItem(i, row) == item' = [item EXCEPT ![i] = row]

(* The owner edits unit cost, quantity or both (0: not entered).             *)
BeginEdit(c, i, u, q) ==
  /\ ~ Reserved(i) /\ (u # 0 \/ q # 0)
  /\ Begin(c, [Idle EXCEPT !.kind = "edit", !.item = i, !.unit = u, !.quantity = q,
                           !.seen = Read(i)])
  /\ UNCHANGED <<item, order, bundle, announced, screen, finish>>

(* The total comes from the row that was read, not from the one locked.      *)
Edited(r, p) ==
  LET unit == IF r.unit # 0 THEN r.unit ELSE r.seen.price.unit
      many == IF r.quantity # 0 THEN r.quantity ELSE r.seen.price.quantity
  IN [unit     |-> IF r.unit # 0 THEN r.unit ELSE p.unit,
      quantity |-> IF r.quantity # 0 THEN r.quantity ELSE p.quantity,
      total    |-> IF unit # 0 THEN unit * many ELSE p.total]

(* Plausible bugs: the reservation, or the batch, is not asked again.        *)
EditUnreserved(c) ==
  LET r == request[c] IN
  /\ r.kind = "edit" /\ item[r.item].batch = r.seen.batch
  /\ WriteItem(r.item, [item[r.item] EXCEPT !.price = Edited(r, @)])
  /\ Finished(c)
  /\ UNCHANGED <<order, bundle, announced, screen, finish>>

EditAnyBatch(c) ==
  LET r == request[c] IN
  /\ r.kind = "edit" /\ ~ Reserved(r.item)
  /\ WriteItem(r.item, [item[r.item] EXCEPT !.price = Edited(r, @)])
  /\ Finished(c)
  /\ UNCHANGED <<order, bundle, announced, screen, finish>>

Edit(c) ==
  LET r == request[c] IN
  /\ r.kind = "edit" /\ ~ Reserved(r.item) /\ item[r.item].batch = r.seen.batch
  /\ WriteItem(r.item, [item[r.item] EXCEPT !.price = Edited(r, @)])
  /\ Finished(c)
  /\ UNCHANGED <<order, bundle, announced, screen, finish>>

(* A delegate, or the owner, prices a pending item.                          *)
BeginEstimate(c, i, u) ==
  /\ item[i].status = "pending"
  /\ Begin(c, [Idle EXCEPT !.kind = "estimate", !.item = i, !.unit = u, !.seen = Read(i)])
  /\ UNCHANGED <<item, order, bundle, announced, screen, finish>>

Estimate(c) ==
  LET r == request[c] IN
  /\ r.kind = "estimate" /\ ~ Reserved(r.item) /\ item[r.item].status = "pending"
  /\ WriteItem(r.item, [item[r.item] EXCEPT !.status = "estimated", !.batch = NoBatch,
       !.price = [@ EXCEPT !.unit = r.unit, !.total = r.unit * r.seen.price.quantity]])
  /\ Finished(c)
  /\ UNCHANGED <<order, bundle, announced, screen, finish>>

(* The owner sends an order on its own: the items that are ready, less those *)
(* that a bundle reserves; then each one is written, whatever it is by then. *)
BeginSubmit(c, o) ==
  /\ Begin(c, [Idle EXCEPT !.kind = "submit", !.order = o,
       !.todo = {i \in Items : /\ OrderOf[i] = o /\ item[i].status = "estimated"
                               /\ item[i].batch = NoBatch}])
  /\ UNCHANGED <<item, order, bundle, announced, screen, finish>>

ReadReserved(c) ==
  LET r == request[c]
      ready == {i \in r.todo : ~ Reserved(i)}
  IN
  /\ r.kind = "submit" /\ ready # {}
  /\ Continue(c, [r EXCEPT !.kind = "sending", !.todo = ready])
  /\ UNCHANGED <<item, order, bundle, announced, screen, finish>>

SendAlone(c) ==
  LET r == request[c] IN
  /\ r.kind = "sending"
  /\ \E i \in Least(r.todo) :
        /\ WriteItem(i, [item[i] EXCEPT !.batch = <<-r.number, r.order>>])
        /\ Continue(c, [r EXCEPT !.todo = @ \ {i}])
  /\ UNCHANGED <<order, bundle, announced, screen, finish>>

EndSubmit(c) ==
  LET r == request[c] IN
  /\ r.kind = "sending" /\ r.todo = {}
  /\ order' = [order EXCEPT ![r.order] = "pending_accounting"]
  /\ announced' = announced \cup {<<-r.number, r.order>>}
  /\ Finished(c)
  /\ UNCHANGED <<item, bundle, screen, finish>>

(* A delegate returns the whole order: first its status, then every item, one *)
(* at a time; a reserved item ends the request half-way.                     *)
BeginRevision(c, o) ==
  /\ order' = [order EXCEPT ![o] = "revision_needed"]
  /\ Begin(c, [Idle EXCEPT !.kind = "revision", !.order = o,
                           !.todo = {i \in Items : OrderOf[i] = o}])
  /\ UNCHANGED <<item, bundle, announced, screen, finish>>

ReviseItem(c) ==
  LET r == request[c] IN
  /\ r.kind = "revision"
  /\ \E i \in Least(r.todo) :
        /\ ~ Reserved(i)
        /\ WriteItem(i, [item[i] EXCEPT !.status = "pending",
                                        !.price = [@ EXCEPT !.unit = 0, !.total = 0]])
        /\ Continue(c, [r EXCEPT !.todo = @ \ {i}])
  /\ UNCHANGED <<order, bundle, announced, screen, finish>>

(* A refusal, an error or a crash; of a revision also its end.               *)
EndRequest(c) ==
  /\ request[c].kind # "none"
  /\ Finished(c)
  /\ UNCHANGED <<item, order, bundle, announced, screen, finish>>

Resubmit(o) ==
  /\ order[o] = "revision_needed"
  /\ order' = [order EXCEPT ![o] = "pending_review"]
  /\ UNCHANGED <<item, bundle, announced, screen, finish, request, spent>>

(* The review makes every item of the order pending and assigns it, whether  *)
(* a bundle reserves it or not; the price stays.                             *)
Review(o, owner) ==
  LET mine == {i \in Items : OrderOf[i] = o} IN
  /\ order[o] = "pending_review"
  /\ order' = [order EXCEPT ![o] = "pending_estimate"]
  /\ item' = [i \in Items |-> IF i \in mine
                THEN [item[i] EXCEPT !.status = "pending", !.delegate = owner]
                ELSE item[i]]
  /\ UNCHANGED <<bundle, announced, screen, finish, request, spent>>

-----------------------------------------------------------------------------
Next ==
  \/ \E d \in Delegates, i \in Items : Add(d, i)
  \/ \E d \in Delegates, b \in Bundles, i \in Items : Remove(d, b, i)
  \/ \E d \in Delegates, b \in Bundles : ReadBundle(d, b)
  \/ \E d \in Delegates : ReadLinks(d) \/ ReadItem(d) \/ Send(d)
  \/ \E b \in Bundles : \/ BeginFinish(b) \/ SyncBatch(b) \/ EndFinish(b)
                        \/ SyncFails(b) \/ CrashFinish(b)
  \/ \E c \in Clients, i \in Items, u \in UnitCosts \cup {0}, q \in Quantities \cup {0} :
        BeginEdit(c, i, u, q)
  \/ \E c \in Clients, i \in Items, u \in UnitCosts : BeginEstimate(c, i, u)
  \/ \E c \in Clients, o \in Orders : BeginSubmit(c, o) \/ BeginRevision(c, o)
  \/ \E c \in Clients : \/ Edit(c) \/ Estimate(c) \/ ReadReserved(c) \/ SendAlone(c)
                        \/ EndSubmit(c) \/ ReviseItem(c) \/ EndRequest(c)
  \/ \E o \in Orders : Resubmit(o)
  \/ \E o \in Orders, d \in Delegates : Review(o, d)

Spec == Init /\ [][Next]_vars

-----------------------------------------------------------------------------
(* Every table and screen holds what its columns can hold, however the       *)
(* bundles' operations race with the other endpoints.                        *)
TypeOK ==
  /\ item \in [Items -> ItemRow]
  /\ order \in [Orders -> OrderStatuses]
  /\ bundle \in [Bundles -> BundleRow]
  /\ announced \subseteq Batches
  /\ screen \in [Delegates -> Screen]
  /\ finish \in [Bundles -> [on : BOOLEAN, synced : SUBSET Orders]]
  /\ request \in [Clients -> Request]
  /\ spent \in 0..MaxRequests

(* While a bundle reserves an item, nobody changes its price or quantity:    *)
(* neither a request that read before the reservation nor one that began     *)
(* after it.                                                                 *)
ReservedKeepsPrice ==
  [][\A i \in Items : Reserved(i) => item'[i].price = item[i].price]_vars

(* A screen whose revision is still the bundle's shows what would be sent:   *)
(* its items, and their prices as they are now, although it was read piece   *)
(* by piece while items came, went and were edited.                          *)
SentAsSeen ==
  \A d \in Delegates :
    LET s == screen[d] IN
    Shown(d) /\ IsOpen(s.bundle) /\ bundle[s.bundle].revision = s.revision
      => s.rows = Rows(bundle[s.bundle].items)

(* Accounting never gets a row whose total is not its unit cost times its    *)
(* quantity, although racing edits and estimates do store such totals.       *)
SentRowsAddUp ==
  \A b \in Bundles : bundle[b].status = "archived" =>
    \A i \in bundle[b].items : AddsUp(bundle[b].rows[i])

(* A bundle that counts as finished has announced the batch of each of its   *)
(* orders, whatever failed or crashed in between.                            *)
DoneMeansAnnounced ==
  \A b \in Bundles : bundle[b].done =>
    \A i \in bundle[b].items : <<b, OrderOf[i]>> \in announced

(* The request that writes item i in this step is an edit that has read the   *)
(* item with the batch it still has; it ends with the write.                  *)
EditedKnowing(i) ==
  \E c \in Clients :
    /\ request[c].kind = "edit" /\ request'[c] = Idle
    /\ request[c].item = i /\ request[c].seen.batch = item[i].batch

(* Once an item is sent, another price comes from an edit that has itself     *)
(* read the item with its batch, or takes the item out of the batch; an edit  *)
(* begun before the send has to read the item again.                          *)
SentPriceEditedKnowingly ==
  [][\A i \in Items :
       item'[i].price # item[i].price /\ item'[i].price.unit # 0 /\ item[i].batch # NoBatch
       => EditedKnowing(i) \/ item'[i].batch = NoBatch]_vars
==============================================================================
