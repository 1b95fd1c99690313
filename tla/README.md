# Formal models of the CMMS

TLA+ modules, TLC configurations and TLAPS proofs about the maintenance management
system in this repository (TypeScript, one Node server, a MySQL / TiDB database, a web
client). They are about the parts in which concurrent users, views older than locks,
repeated requests and stops between two transactions can do lasting harm: the stock of
inventory lots, the counts that freeze it and the review that posts them, the day of a
preventive-maintenance task and its materials, the execution of a maintenance-team
ticket, and the delegates' pricing bundles.

Paths below are relative to the repository root. Short names:

| | |
|---|---|
| `LOTS` | `server/_core/inventory-lots.ts` |
| `RET` | `server/_core/db/warehouse-returns.ts` |
| `INVD` | `server/_core/db/invoice-drafts.ts` |
| `REV` | `server/services/inventory/settlement-review.ts` |
| `EXE` | `server/pmv2/technician/execution-service.ts` |
| `CLO` | `server/pmv2/tickets/closure-sync-service.ts` |
| `TIS` | `server/pmv2/materials/team-issue-handoff-service.ts` |
| `SVC` | `server/maintenance-team-tickets/service.ts` |
| `PBS` | `server/services/delegate-pricing-bundles/service.ts` |
| `POR` | `server/routers/purchase/purchase-orders.router.ts` |

## 1. The system

### Execution

Every operation is a tRPC procedure: it checks the caller's role, validates its input,
and runs a handful of SQL statements, sometimes inside `db.transaction(...)`. There is
no in-process lock around the data, so all concurrency is between database transactions
(or bare statements) of different requests. The code sets no isolation level; under
REPEATABLE READ a plain `SELECT` sees the transaction's read view, while `UPDATE`,
`SELECT ... FOR UPDATE` and unique indexes act on the latest rows. When the view opens
differs: at the first plain `SELECT` in InnoDB, at `BEGIN` in TiDB
(`drizzle/CHANGELOG_TECHNICAL.md` names TiDB as production). The stock and count models
have both (`SnapshotAtBegin`); the later ones say below which they assume.

The one thing that happens without a user asking is the hourly job of
`server/jobs/pmv2-scheduler.ts`.

### Components

| component | state | operations | what is hard | what makes it correct |
|---|---|---|---|---|
| Lot stock ledger (LOTS, RET, INVD, `warehouses.ts`, `warehouse-receipts.ts`, `inventory.ts`) | `inventory.quantity`, `inventory_lot_balances`, `inventory_lots`, delivery documents, warehouse returns | receipt, draft receipt, opening balance, issue, supplier return, disposal, transfer, recipient return, aggregate addition, posting a settlement | the same units are stored three times; movements race; some writes are relative and guarded, some absolute | the integrity rules 1–3, no over-return, every movement atomic |
| Inventory counts (INVD) | count operations, opening snapshots, count items | open, scan, record, complete, delete, post | opening is several statements without a transaction; counts freeze lots of the ledger; late requests | a stable reference, immutable after the final save, complete, always settleable, posting reaches the count |
| Settlement review (REV, `shared/inventory-settlement-review.ts`) | drafts, their events, count corrections, settlements | create, edit, submit, return, request correction, save correction, approve, direct apply | optimistic versions plus views older than the locks; repeated requests; two posting paths | segregation of duties, posted once, posted as reviewed, no dead end |
| Preventive maintenance v2: scheduler (`pmv2/scheduler/`) | plans, tasks, task items | generate one date | runs overlap, are cut short, and read before they insert | at most one row per item and date, none lost |
| Preventive maintenance v2: execution (EXE, CLO, `pmv2/tickets/`) | task items, visits, members, cached task status | start, resume, result, dependency, end visit, ticket, closure, receipt | a closure reads before it locks; two technicians at once | one open visit, work only in a visit, a closed ticket completes its item, the life of an item |
| Preventive maintenance v2: materials (TIS, `pmv2/materials/`) | requirements, deliveries, links, markers, returns, consumption | request, issue, link, relink, declare, return, finalize | one request is a chain of transactions; unlocked reads; stops between links of the chain | linked once, ready only when issued, use written once, recorded only what was returned |
| Maintenance-team tickets (SVC, `routers/maintenance-teams/`, `services/external-route-review.ts`) | assignment with stage and revision, visits, needs, deliveries, supplies, returns, ledger of commands | start, end, outcome, need, resolve, issue, supply, transfer, purchase, return, review, external route | repeated commands; views older than the lock; four operations compute the stage | a current revision implies a fresh ledger; needs, supplies and returns add up; the route is consistent |
| Delegate pricing bundles (PBS, `reservations.ts`, `shared/delegate-pricing-bundles.ts`) | bundles, their items and batches; price, batch and delegate of order items | add, remove, show, send, finish, and the order's own edits, estimates, sending, revision, review | other endpoints read first and write later; announcing to accounting fails half-way | sent is what was seen, reserved prices stay, totals add up, finished means announced |
| Purchase orders and packages (`db/purchase.ts`, `routers/purchase/`) | orders, items, pricing batches, packages | estimate, approve (accounting, management), purchase, receive, reject, change delegate | approvals read, check and write without a transaction | terminal items stay terminal; the order's status agrees with its items |
| Maintenance tickets (`routers/tickets/`) | tickets, items, approvals | triage, assign, start, finish, approve, close | coupling with purchases and PM tasks | closed only when everything is done |
| External maintenance (`db/external-maintenance.ts`) | jobs, gates | prepare, approve, exit, entry, receive | gates read the job without a lock and write later | a returned request has no job; only what has left is reinstalled |
| Operational issues (`services/operational-issues/`) | issues of stock without a ticket | issue, return | as the ledger | as the ledger |
| Issue batches (`db/warehouse-issues.ts`) | batches and their documents | group issues | partial failure | as the ledger |
| Reconciliation, costing (`services/inventory-reconciliation-core.ts`, `_core/inventory-costing.ts`) | none | evaluate the integrity rules; moving average | rounding, zero quantity | the rules are invariants of `StockLedger` |
| Preventive maintenance v1, catalog, construction projects, authorization | trees and tables | editing | data rules | – |
| Sessions, 2FA, rate limiter, caches | bounded in-memory maps | add, check, evict | limits, expiry | bounds respected |
| AI, OCR, translation, PDF, notifications, web client | – | external calls, formatting, display | – | – |

Components interact through shared tables, never by messages. Counts read and freeze the
ledger's balances; movements ask `assertInventoryLotMovementAllowedDuringCount` whether
a count holds the lot; the review posts through `applySettlement`, which changes the
ledger. PM items and team tickets take their materials from the ledger (`issueDelivery`)
and give them back (`createRecipientWarehouseReturn`); the closure of a ticket completes
the PM item it came from, in one transaction. Shortages of a team ticket become purchase
orders; the items of these are priced in bundles.

## 2. What was done, in which order, and what may follow

Order by importance: what can silently lose stock or work first.

1. `RunningTotals`, `LotBook`, `StockLedger` and proofs.
2. `InventoryCount` and proofs, which composes the ledger.
3. `SettlementReview` and proofs.
4. `ItemLife`, `PmTask` and proofs: the scheduler, with fairness, and execution.
5. `PmMaterials` (its proofs came last): materials of a task item, on an abstraction of
   the ledger.
6. `TeamTicket` and proofs: commands, needs, supplies and the external route.
7. `PricingBundle` and proofs: bundles next to the order endpoints.
8. The proofs of `PmMaterials`, and those of the properties of the other modules that
   were only model-checked so far.

What a continuation would add: the order in which movements lock rows; two counts of one
warehouse under one review; the consolidation of two records of one catalog item;
costing against exact arithmetic; an abstract specification of the materials of an item.

## 3. The modules

| module | what it is | code |
|---|---|---|
| `RunningTotals` | `Total(f, n)`, SQL's `SUM`, as a recursive function | external |
| `LotBook` | abstract: a book of cells per lot and record; every movement acts atomically on the book as it is | – |
| `StockLedger` | the three stock tables and the transactions that write them | LOTS, RET, INVD, `warehouses.ts`, `warehouse-receipts.ts`, `inventory.ts` |
| `InventoryCount` | counts and scanning, with an instance of `StockLedger` whose `frozen` set is what the counts hold | INVD, LOTS |
| `SettlementReview` | the review of one completed count | REV, INVD |
| `ItemLife` | abstract: the life of one task item | `drizzle/schema.ts` (the enum of statuses) |
| `PmTask` | generating one task and its items, visits, results, tickets, receipts | `pmv2/scheduler/`, EXE, CLO, `handoff-service.ts`, TIS |
| `PmMaterials` | requirements, deliveries, links, returns and consumption of items | TIS, RET |
| `TeamTicket` | one assignment of a team or of the IT department | SVC, `routers/maintenance-teams/`, `external-route-review.ts`, `external-maintenance.ts` |
| `PricingBundle` | bundles, and the endpoints that write the same items | PBS, `reservations.ts`, POR, `approvals.router.ts`, `purchase.ts` |
| `...Theorems`, `...Proofs` | the proofs about the module they are named after | |
| `MC...` | the sets the configurations name | |

**StockLedger.** `quantity`, `balance`, `remaining`, `source` and `docs` are columns of
the tables of the same name (a missing balance row is 0). `txs` holds each client's open
transaction. A movement is a *begin* (open, resolve the lot, run the checks of
`resolveInventoryLotFor...`, ask the count guard) and a *commit*, one action per handler
(`Issue`, `ReturnToSupplier`, `Dispose`, `CommitTransfer`: the conditional updates
`quantity = quantity - x WHERE quantity >= x`, which see the latest rows and are
row-locked up to the commit, so they act as one). A recipient return is three steps,
because its lock on the delivery document and its reads lie between: begin,
`LockReturn`, `CommitReturn`, which writes absolute quantities from `seen`.
`BeginAddTransaction`/`EndAddTransaction` is `inventory.addTransaction`, two bare
statements. The approval of a draft receipt (INVD 282–465) locks a record and then reads
its quantity with a plain `SELECT`, in a view that an earlier item of the draft or a look
for the record of a catalog item may have opened before; `BeginDraftReceipt` is the
opening of that view and `EndDraftReceipt` the rest, for one item. A receipt of
`receipts.v2.router.ts` has updated the record when it reads it, and so sees its own,
latest row; `ReceiveLot` is one step. (MySQL writes no new version of a row when an
update changes no column, as two equal receipts within a second may do; that is left
out.) `PostSettlement` is one step since its writes are compare-and-set.
Quantities are integers: thousandths of a unit, the precision the code normalises to.

**InventoryCount.** `createCountOperation` is four kinds of steps (operation, read,
snapshots, one step per item), because that is how many statements without a transaction
it has; `Crash` may stop it between them. Clerks' operations are one step under the lock
of the operation's row, plus `BeginRequest` when the view opens at `BEGIN`, so that
scanning and completing may read stale items. `FrozenPairs` is derived from the rows as
the guard derives it. Reading a balance of zero is nondeterministic: a used-up lot has a
row, a lot that was never there has none, and the ledger does not tell them apart.

**SettlementReview.** `open` holds the requests in flight: user, operation, the version
on the user's screen and the rows seen in the transaction's view. The view is taken when
the request is sent, the oldest it may be; locking reads (draft, pending correction,
posted settlements, cost of an opening balance at approval) use the current state. A
request may be handled any number of times before it is closed: retries and lost
answers.

**ItemLife, PmTask.** One task: a checklist on one date. `task` and `item` are the rows,
`visits` the visits with their members, `tickets` the tickets of each item, `run` the
runs of the scheduler, `view` what a closure or a receipt read before it locked. A run
is statements of its own (`StartRun`, `GetOrCreateTask`, then `SelectItem` and
`InsertItem` per item), may be `CutShort` anywhere, and overlaps with others; the unique
key of an item decides. Start, resume, result, dependency and end of visit each lock the
task first, read under the lock, and are one step. `BeginClosure`/`CloseTicket` and
`BeginReceipt`/`LinkDelivery` are two, because the code reads in its view before it
locks. Views open as in InnoDB. `ItemLife` is the abstract specification: which status
may follow which; `PmTask` implements it.

**PmMaterials.** `proc` holds each request between its transactions:
`issueReadyRequirement` is a read of the queue, a plan, one delivery per lot (a
transaction of RET), then its link (another), or the marker when the link fails;
`confirmPendingReturn` is a plan, one return per delivery and its record, then the
finalization. `Fail` stops a request between any two of them. Nothing locks the
requirement before the link, so two requests really run together. Stock is per lot,
other tasks take from the lots in `Shared` (`TakeStock`); a delivery decrements and a
return increments as in `StockLedger`.

**TeamTicket.** `tx` holds each client's transaction: the key of its command, the
revision its page shows, and the ledger as its view sees it. An operation is `Begin`
(the plain reads that open the view) and one step under the locks on team, ticket and
assignment: needs, deliveries and supplies are read with locks, the ledger of actions is
not, so the step uses `Seen(s)`. `Admitted` is the gate of `command`: a key that is
recorded in the view repeats an answer, another revision is refused. Every effect
appends to the ledger and raises the revision (`Note`). The stage is computed where the
code computes it. `ReturnExternalRoute`, `DecideExternalRoute` and `PrepareExternalJob`
are transactions outside `command`, with locks of their own; they compare no revision.
`ticket` is the row of the item, with its external job: `job` is the job's status, and
`steps` what has been begun for it and not written yet. The gate exit, the gate entry and
the receipt read job and item without a lock (`BeginJobStep`) and write later, whatever
happened meanwhile (`EndJobStep`); the exit also sets the item to `out_for_repair` and
orders the repair, whose completion is a step of the delegate. `HandOverAsset` is
`handoverExternalMaintenanceAsset`, which locks the job; it is called alone or inside the
review's `ExternalHandover`, and sets the item to `received_warehouse`.

**PricingBundle.** `item`, `order` and `bundle` are rows; `screen` is what a delegate's
page has read so far (bundle, links, then item by item, without a transaction);
`request` is what the other endpoints have read before they write (edit, estimate, send
an order alone, ask for a revision); `finish` is the announcement of a sent bundle. Add,
remove and send lock delegate, bundle, then items, and are one step. `Resubmit` and
`Review` are one step too: what their reads decide upon is the very status that they
change. `Edit` writes what `updatePOItem` writes, under its lock and its question for a
reservation, but with the total computed from the row that was read before.

Environment assumptions, all as in the code: lots are enabled; a warehouse has one
inventory record per item (creating records is left out); a lot number is used once; a
count in `InventoryCount` is a periodic lot count of one record.

## 4. The runs

Passing runs (distinct states; the smaller take a few seconds, the largest about three
minutes):

| run | instance | states | shows |
|---|---|---|---|
| StockMovements | 2 lots, 2 records, 2 transactions: issues, supplier returns, transfers, receipts, settlements and counts | 170 345 | rules 1–3; implements `LotBook` although two movements race |
| StockReturns | 2 transactions: issues, disposals, recipient returns, draft receipts and the aggregate endpoint; 2 documents, quantities 1–2 | 197 786 | no over-return when the view opens after the lock |
| CountQuiet | full count, 2 lots, 2 records, nothing happens during the opening | 246 177 | stable reference, fully counted, covered, always settleable, immutable, posting reaches the count |
| CountRacing | both scopes, openings race with movements and clerks, crashes, views at BEGIN, returns | 27 373 | discrepancies stay frozen until settled; counting implements `StockLedger` |
| ReviewPeriodic | clerk and owner, 6 versions, 2 requests in flight | 1 435 641 | segregation of duties, posted once, one pending correction, always completable |
| ReviewOpening | opening balance, 2 costs, 4 versions, 2 requests | 1 716 528 | what is posted is what was submitted |
| PmTaskDay | 2 items, one activated late; 2 technicians, the hourly job, 2 visits, 2 tickets per item, 2 old views at once, 1 cut | 666 151 | one visit, work in a visit, closures complete, `ItemLife` implemented, everything generated |
| PmMaterialsDay | 2 requests, 2 items, 2 lots with 1 and 2 units, 2 requirements of 2, 2 deliveries | 1 307 478 | linked once, ready only when issued, use written once, recorded only what was returned |
| TeamTicketDay | 2 clients, 2 keys, 2 members, 2 needs, 8 revisions, team and IT, two gate exits at once | 943 500 | current revision means fresh ledger; stage, materials, supply and route agree |
| PricingBundleDay | 2 items in 2 orders, 2 delegates, 2 other requests, 2 bundles | 803 295 | sent is what was seen, totals add up, announced, reserved prices stay |

Runs that end in a violation: places where the code does something other than its
documentation says (quoted under `findings` in `PROJECT.json`):

| run | property | what happens |
|---|---|---|
| StockLostReturn | QuantityMatchesLots | in both view modes: a return reads, waits for row locks, and writes back absolute quantities over a committed movement |
| PmLostCompletion | DoneTaskIsCompleted | a closure of a ticket projects the task's status from its view, which opened before the lock; the item another technician completed meanwhile looks open in it, and the task stays open with all its items completed |

### Bounds

Two actors are what a race needs. In the stock runs, two lots and two records make both
sums of rules 1 and 2 non-trivial and allow a transfer; quantities reach both "all of
it" and "part of it" (in StockReturns, two partial returns of one document). Six
versions hold the longest simple path of a review (create, submit, request correction,
correct, submit, approve). The owner is in both roles and a clerk only prepares, so the
self-approval that must be refused is possible. In PmTaskDay a task is finished by one
item while the other is generated late, a second visit follows the first, and two
closures or receipts hold old views together. Two tickets per item are allowed, but the
second one never comes: creating it is refused while one is active
(`pmv2/tickets/handoff-service.ts` 182), and the closure of that one completes the item.
In CountQuiet a clerk's operation is one step, because the view opens after the lock: how
many clerks there are makes no difference, and two clerks racing with old views are the
failing instance below. In
PmMaterialsDay one requirement needs both lots, or is issued by two requests at once, or
is replaced by a second one. Eight revisions of a team ticket hold start, need, supply,
transfer, delivery, resumed visit, repair, and review or return. `Repeated` names the
step of an external job that two requests may take at once, the gate exit: the late one
moves the job back. In PricingBundleDay an
item is reserved, returned, edited and sent again, in a second bundle by another
delegate. Every bound is a named constant of its module.

Deadlock is checked in StockMovements, StockLostReturn and the review runs. Elsewhere
the system really may stop: the bounded lots are used up and the count is settled, the
task or ticket is done, or the requests, revisions and bundles that a bound allows are
used up. Symmetry is used in runs without
liveness properties, over transactions, requests, keys and members that no definition
tells apart. TeamTicketDay has a `VIEW` as well: it forgets what a transaction with an
outdated revision has seen, since the only thing it may still do is to end. Every
property of that run has the same value in states the view identifies.

### What the same models show with other constants

These are kept out of the list of runs because the code does them knowingly, or they
follow from a documented choice, or from the same cause as a listed one. The instance
of PmTaskDay with two runners holds; it complements the listed one.

- StockReturns with `SnapshotAtBegin = TRUE` violates `NoOverReturn`: the second of two
  returns waits for the lock and then reads what was returned in its older view. The
  comment at RET 739–740 says the lock prevents it. Under InnoDB the same happens to
  callers that pass a transaction of their own in which a plain `SELECT` came first:
  `returnMaterial` (`services/operational-issues/service.ts` 151–167), and returns of PM
  materials and team tickets.
- With recipient returns among the `Kinds` of StockMovements, `ImplementsBook` fails for
  the reason of StockLostReturn; with `"in"` or `"out"`, `QuantityMatchesLots` fails,
  since `addTransaction` moves the aggregate and no lot.
- StockLostReturn with `Kinds <- ReceiptKinds` violates `QuantityMatchesLots` in four
  states: the approval of a draft receipt writes back a quantity that it read in a view
  older than its lock, and a receipt that committed meanwhile stays in the lots and is
  lost from the record. The cause is that of the listed run; the place is another one.
- PmTaskDay with `Runners <- TwoRunners`, `Members <- OneMember`, `MaxVisits = 1`,
  `MaxTickets = 1`, `MaxOpen = 1` and `MaxFails = 2` satisfies `Generated` (193 985
  states): the hourly job and a manual run overlap and are both cut short. With two
  technicians as well the instance outgrows a run of a few minutes.
- `PricingBundle` opens every view after the lock and has no constant for the other case.
  With views opened at BEGIN (TiDB) an edit that waited for the lock of an item would ask
  for its reservation (`reservations.ts` 7, a plain `SELECT`) in an older view, and
  `ReservedKeepsPrice` would not hold. The batch is compared in the locked row
  (`db/purchase.ts` 1105), so `SentPriceEditedKnowingly` does not depend on the view.
- CountQuiet with `QuietOpening = FALSE`: `TargetsStable` and `PostingReachesCount` fail
  (a movement commits between the read of the balances and the rows that freeze them),
  and so do `FinalCountImmutable`, `FullCoverage`, `FullyCounted` and
  `UnsettledIsPostable` (a clerk saves the count, or scans a lot, before the opening has
  inserted all its items).
- CountQuiet with `"recipient_return"` among the `Kinds`: `TargetsStable` fails;
  recipient returns do not ask the count guard, which is documented for movements that
  decrease or transfer a balance.
- CountQuiet with `Crashes = TRUE`: `FullCoverage` fails; a stop of the server leaves a
  partial full count that can be saved.
- CountQuiet with `SnapshotAtBegin = TRUE`, two clerks and manual scope: `FullyCounted`
  fails (the final save reads the items in a view older than the lock it waited for and
  misses a lot scanned meanwhile); `UnsettledIsPostable` fails when two clerks scan one
  lot.
- A lot scanned into a manual count is measured against the opening's quantity although
  it was not frozen until the scan; `TargetsStable` is about the lots a full count was
  opened with. CountQuiet with manual counts (`BothScopes`) violates
  `UnsettledIsPostable`: a disposal begins, its lot is scanned and counted as missing, the
  disposal commits, the count is saved; the settlement would now take from the lot what
  it no longer has, and is refused.
- ReviewOpening with `PendingIsCompletable` fails: the cost of an opening balance moves
  while a correction is pending, which then can never be saved, and nothing else ends
  it.

### Fairness

`FairSpec` of `PmTask` is the only specification with fairness: weak fairness of the
steps of each runner (`RunStep`), because `server/jobs/pmv2-scheduler.ts` starts a run
every hour and its statements return. `Generated` follows although a run may be cut
short: a cut is a fault and not fair, and `MaxFails` bounds how many happen on the date.
Nothing else in this code happens by itself. Everything else is asked for by a user,
without a retry loop or timeout that would justify fairness, so what must be *possible*
is stated as safety: `UnsettledIsPostable` and `PendingIsCompletable` say that the step
that ends a freeze, or a pending correction, is enabled; `ReadyMeansIssued`,
`ReceiptDrivesStage` and `ClosedTicketCompletes` say that what was waited for does not
wait on once its cause is gone.

## 5. What is proved

For every value of the constants that satisfies the named assumptions, checked by TLAPS
(theorems that a run also checks are marked with its property):

| module | theorem | |
|---|---|---|
| StockLedgerProofs | `NoNegativeStock` | `TypeOK`; needs the shapes of open transactions and of documents (`TypeInv`) |
| | `RelativeMovementsKeepRules` | `QuantityMatchesLots` and `RemainingMatchesBalances`, if the instance has no recipient return, draft receipt or aggregate addition (`OnlyRelativeMovements`) |
| | `RemainderKept` | `RemainingMatchesBalances`, if the instance has no recipient return |
| | `MovementsKeepBook` | `ImplementsBook`, if the instance has no recipient return: `StockLedger` implements `LotBook` |
| | `LockedReturnsNeverExceed` | `NoOverReturn`, if views open after the lock |
| InventoryCountProofs | `DiscrepancyHeld` | `DiscrepancyStaysFrozen`, for every instance, racing openings and stops included |
| | `FinalIsFinal` | `FinalCountImmutable`, if stock and clerks rest during openings (`QuietOpening`) |
| | `FullCountsCover` | `FullCoverage`, if moreover no opening is cut short (`~ Crashes`) |
| | `SavedIsCounted` | `FullyCounted`, with `QuietOpening` and views opened after the lock (`~ SnapshotAtBegin`) |
| | `CountsKeepLedger` | `ImplementsLedger`, if the bounds cut nothing off (`Unbounded`) |
| | `CountedStockAgrees` | `NoNegativeStock` and `RelativeMovementsKeepRules`, next to counts |
| | `CountTypeCorrect` | `TypeOK`, for every `Unbounded` instance, racing openings and stops included |
| | `CountsHaveReference` | `TargetsStable`, with `Unbounded`, `QuietOpening`, `~ Crashes`, no recipient return, and counts that stay `Apart` |
| | `SettlementsReachCount` | `PostingReachesCount`, under the same conditions |
| | `SavedCanBeSettled` | `UnsettledIsPostable`, under these, for full counts, `~ SnapshotAtBegin` and `OnlyRelativeMovements` |
| SettlementReviewProofs | `TypeCorrect` | the types of all rows and requests |
| | `ApproverNeverContributed`, `CountPostedOnce`, `PostedWhatWasReviewed` | `SegregationOfDuties`, `PostedOnce`, `PostedAsReviewed` |
| | `PendingOnlyReturned` | `PendingMeansReturned` |
| | `PeriodicCorrectionSaves` | `PendingIsCompletable`, if the count is periodic (`OpeningBalance = FALSE`) |
| PmTaskProofs | `TypeCorrect`, `LifeImplemented` | types; `ImplementsLife` |
| | `SingleVisit`, `WorkInVisit`, `ClosureCompletes` | `OneOpenVisit`, `WorkHasVisit`, `ClosedTicketCompletes` |
| PmMaterialsProofs | `TypeCorrect`, `DeliveriesLinkedOnce` | `TypeOK`; `LinkedOnce` |
| | `WaitsForMaterial`, `RecordsFollowReturns` | `ReadyMeansIssued`; `RecordedWasReturned` |
| | `ConsumptionWrittenOnce` | `UsageWrittenOnce` |
| TeamTicketProofs | `LedgerIsFresh`, `TypeCorrect` | `FreshLedger`; types |
| | `SingleVisit`, `ReturnedStaysBlocked`, `SupplyCovers` | `OneOpenVisit`, `RouteConsistent`, `TransferCoversShortage` |
| | `MaterialsBalance`, `StageFollowsReceipts` | `MaterialsAccounted`, `ReceiptDrivesStage` |
| PricingBundleProofs | `TypeCorrect`, `ReservedPriceKept`, `SentPriceKnown` | types; `ReservedKeepsPrice`, `SentPriceEditedKnowingly` |
| | `ScreenShowsWhatIsSent`, `SentTotalsAddUp`, `FinishedIsAnnounced` | `SentAsSeen`, `SentRowsAddUp`, `DoneMeansAnnounced` |

Every safety property of a passing run is stated by a theorem. The types of
`SettlementReview`, `PmTask` and `PricingBundle` are proved and therefore no property of
their runs.

Two hypotheses are not constants of an instance. `Unbounded` says that the bounds that
TLC needs are not there: counts may hold every pair and find every quantity. `Apart` says
that no two counts of one warehouse are open or unsettled at once. `createCountOperation`
does not see to that, and with two overlapping counts `TargetsStable` fails: settling one
moves the balances the other was opened with. The theorems that need it are of the form
`Spec /\ []Apart => ...`, so they speak of the executions in which counts do not overlap.
The other hypotheses exclude what section 4 shows to break the property.

The remaining assumptions are about shapes: there are finitely many clerks (so that what
they have in hand can be summed), quantities are natural numbers, and the value `None` is
none of the records that it stands beside.

The inductive invariants, and why they are needed:

- *Sums.* Each commit of the ledger changes one lot sum and one record sum, by lemmas on
  `Total` from `RunningTotalsTheorems`; the invariant also says that a lot that was not
  created has no stock, and that nothing open, held or issued names it (`LotInv`).
  `LockedReturnsNeverExceed` rests on: a transaction that holds the document's lock has
  seen its current `returned`, and is the only one.
- *Book.* Each commit is one movement of the book: the moved lot exists (`LotInv`), its
  amount is one of a movement (`MovedAmounts`), and a document written by an issue adds
  to exactly one cell of what is delivered (`DeliveryRecorded`, again by the lemmas on
  `Total`). Opening or rolling back a transaction stutters.
- *Counts.* `CountInv`: a count has no rows before its snapshots, its loop walks through
  lots of the snapshot, and every row belongs to a lot of the snapshot. So whatever an
  opening still inserts after the final save only adds rows, and the guard, which joins
  rows with snapshots, keeps finding the discrepancy. Each step writes one count
  (`Only`). For quiet openings `Careful` adds that a count being opened is in progress,
  that what the loop has left plus the rows cover what the opening found in stock, and
  that a saved count has been counted.
- *Counts over stock.* `Sound`: what an opening read, a snapshot holds or a row measures
  are numbers of lots that exist. So what counts hold are pairs of existing lots
  (`HeldLotsExist`), every statement of a count is the ledger's `CountStep` or no step of
  it, and a posting is one of its settlements. That a lot with stock exists (`LotInv`) is
  taken from the ledger's proofs, with the ledger instantiated a second time.
- *Settling counts.* `Steady` adds to `Careful` that the stock rests during an opening and
  has what the opening read, that every row has the quantity of its snapshot, and that a
  lot that a full count was opened with and still holds has that balance and no open
  movement (`Untouched`). Then the guard refuses every movement that could change it, and
  only the settlement of another count could, which `Apart` excludes. So a settlement
  finds what it compares with, each lot has one row (`Single`), and the sums that are
  checked agree (`CountedStockAgrees`).
- *Review.* `ViewsFollowVersions`: a view contains every event up to the version its
  request names, and the current count if that version is current. Old views are
  therefore harmless wherever the version is compared. `OnePending`: at most one
  correction is pending, and then the draft is returned. It is asked for from a view that
  is current, the count changes only by saving it, and of a periodic count the cost does
  not enter its fingerprint.
- *PM task.* `VisitInv` adds to the two properties that every visit has one leader.
  `TicketInv` relates three things: a closed ticket's item is completed; an active
  ticket's item waits for it and has no other active ticket; and a closure's view saw
  the item waiting. The last one makes the old view harmless here, and only here: the
  projection of the task has no such fact.
- *Team ticket.* `FreshInv`: every effect raises the revision, no expectation exceeds
  it, and one that equals it has seen the ledger as it is. Everything that reads the
  ledger outside a lock leans on it: `VisitInv` (work implies a visit) and `SupplyInv`
  (what is handed over was covered when the ledger was read, and transfers only grow).
  `UseInv`: each need is unused, owes a return, or is settled (`Sound`), no need is of a
  later round, and those of the round are unused until the repair is finished; so a
  repeated repair starts another round and declares no need twice. `StageInv` adds to
  `ReceiptDrivesStage` that the round has no needs before the work has begun.
  `RouteInv` adds to `RouteConsistent` that a step of a job is under way only where there
  is a job: a gate that is late cannot bring back the job of a returned request.
- *PM materials.* `TypeCorrect` needs what each request remembers between its
  transactions (`RequestsOK`). `LinkedOnce` and `ReadyMeansIssued` are inductive with
  it. For `RecordedWasReturned`, what requests have given back but not recorded yet is
  summed over the requests, numbered by some `f` (`HandsCovered`). `UsageWrittenOnce`
  rests on a balance among racing requests (`ReturnsCover`): what is recorded of a
  requirement, with what one request has still to record, is at least what is to be
  returned, and with what two of them have it is more. So if a second request takes part
  in a return, at most one of them can find the recorded total equal to what is to be
  returned, and only at that total the net consumption is the declared use
  (`NetFollows`, `DeclarationsHold`). The comparison of the net consumption, meant as a
  check of the data, is what keeps two finalizations apart.
- *Pricing bundle.* `ScreenInv`: a screen at the current revision of an open bundle has
  read the links as they are, and each item it has read still has that price, because
  the item is reserved and `PriceWriter` (each writer of prices asks for the reservation
  under the item's lock) keeps it. `SentInv`: each order of a sent bundle is unsynced or
  announced, and the announcement precedes its mark.

Definitions about sums are kept opaque in the large proofs and used only through lemmas.
What `Total` computes is proved by a least-counterexample argument, since induction
theorems with operator parameters are out of the provers' reach.

Only model-checked: `Generated`, since liveness and `ENABLED` are out of the provers'
reach, and of course the two violations and what section 4 says of other constants.
`SavedCanBeSettled` is about full counts, as its run is; of manual counts it does not
hold (section 4).

## 6. What modelling showed

Apart from the two findings, reading the code closely enough to model it showed the
following. The models contain these behaviours (or leave them out where said), and no
checked property excludes them.

**Materials of PM items** (TIS). Two requests that issue one requirement together, or a
stop between `issueDelivery` and its link or marker, deliver more than is required; the
second delivery can never be linked (`docs/pmv2/04_WORKFLOWS.md` item 5). Two
`confirmPendingReturn` together, or a stop between `createReturn` and its record, return
more than is recorded (item 10). A stop after the last recorded part leaves a return
that is never finalized. A route that is decided again supersedes the deliveries linked
to the old one. With views that open at BEGIN, the lookup that makes linking idempotent
reads an old view. An item that goes on after its materials and then needs a ticket is
completed by the closure of the ticket, and its materials are never declared.

**PM tasks.** An item that a run adds to a task already completed can never be started.
Dates that were missed are generated by a manual run only. `PmTask` follows InnoDB: if
views opened at BEGIN, before the lock, starts and results would read old rows too, and
`OneOpenVisit`, `WorkHasVisit` and `ClosedTicketCompletes` would not hold.

**Team tickets** (SVC). A result "ok" or "fixed" of the IT department's executor writes
path B over a path C whose external job is prepared; the job then never becomes ready
for closure. Stock that was bought for a need and consumed elsewhere leaves the supply
pending for ever. Resolving a need with an item of another unit leaves a need that can
never be issued. That a reinstallation must be recorded as "fixed" is circumvented by
blocking, returning to the team, and "ok". Of two equal requests at once, the second is
answered CONFLICT although the first took effect. A leader who leaves the team leaves
the visit open. The gates of an external job (`db/external-maintenance.ts` 246–432) read
it without a lock: two exits at once create two purchase orders, and a late write of a
gate or a receipt moves the job back. When an item is reinstalled, returned to the team
and sent out again, its old job still says `delivered_for_reinstall`, so the second
hand-over is accepted although the asset never left again. Inside a command of the team,
`handoverExternalMaintenanceAsset` reads the job in the command's view although it has
locked it, so it may refuse a hand-over that the model allows. The older repair endpoints
are closed to team tickets (`assertLegacyTeamExecutionAllowed`).

**Pricing bundles.** When an owner or administrator sends an order on its own, the
reservations are read once and the batch is then written unconditionally, so a reserved
item can be sent outside its bundle, or the batch of an item a bundle just sent is
overwritten, against `reservations.ts:11` (and the rule of
`docs/runtime-uat/2026-10-17/OPERATIONAL_ISSUES_AND_PRICING_BUNDLES_AR.md:40`). The
owner may edit the price of a sent item; the frozen rows and the total of the batch then
differ from it. `requestRevision` sets the order to `revision_needed` and then stops
half-way at a reserved item, and it resets prices of sent items. A reserved item that a
review assigns to another delegate can be priced by nobody until the first one removes
it. Two sends in one purchase package compute the same number; the unique key refuses
one. Notifications repeat after a finish that was cut short.

**Stock and counts**, besides section 4. The consolidation of two records of one catalog
item (`_core/catalog-item-inventory-consolidation.ts` 129–200) locks both, reads them
with a plain `SELECT` and writes absolute quantities, a further place of the pattern of
StockLostReturn; it is not modelled. Two counts of one warehouse may be open at
once (hence `Apart` in section 5), and both post the same difference unless the first
changed what the second compares. The yearly counter of lot numbers ends at 99999. The moving average of a
transfer is computed from a cost read before the movement. Two transfers to a warehouse
without the item may both create its record. A recipient return locks balance, lot and
record in this order and an issue begins with the record, so they can deadlock; the
database aborts one.

## 7. Not modelled

- *Stock and counts:* costs and values (except the cost in the review's fingerprint),
  units, document numbers, the pre-lot path (`INVENTORY_LOTS` off), creation of
  inventory records by transfers and receipts, the consolidation of records, items added to a count by name, the count of an
  opening balance, partial counts by category (as full ones with fewer lots), the link
  to a corrected settlement (`checkCorrects`), deadlocks of row locks.
- *PM tasks and materials:* recurrence rules and the choice of targets (the items of the
  model are the ones due), several tasks, administrative edits of a program, costs,
  units, translation, the request that supply is attributed to, purchases and transfers
  for a requirement, recipients. Unlisted materials, which have no catalog item: in the
  code one of them keeps the item waiting (`hasUnlisted`, TIS 386–387) and its use from
  being declared (TIS 882), so an item is only ready sooner in the model.
- *Team tickets:* teams and their members, creating the assignment, assignments older
  than visits, fingerprints of repeated commands (a key stands for one command),
  attachments, several items of a ticket. Of an external job: its costs and documents,
  the purchase order of the repair but for its completion, and jobs of tickets without
  an assignment (`reinstall_in_progress`).
- *Pricing bundles:* signatures, PDF, packages, rejected items, deactivated delegates,
  requests to change the delegate, draft, closed and rejected orders (an item of one is
  not eligible in the code), and what happens after accounting. One more endpoint writes
  prices: `editAndResubmitReturnedItem` (POR 1814–1955) acts on items that are in
  revision or were cancelled at purchase, states that follow accounting. It writes
  through `updatePOItem`, which asks for the reservation, and takes an item in revision
  out of its batch.
- *Purchases:* approvals, funding, receipt and cancellation (`approvals.router.ts`,
  `cancelItem` and others) are statement after statement without a transaction;
  `approveManagementBatch`, for one, writes "approved" over an item that was cancelled
  or reset since it was read. They keep no relation between rows that a property could
  state.
- *Tickets, PM v1, catalog, construction projects:* chains of statuses guarded by one
  condition each, edited by one user at a time; their unit tests reach them.
- *External calls, formatting, display, and bounded maps in memory:* no state that is
  shared between two steps.

The components with status `not_modelled` and `partly` in `PROJECT.json` give the reason
for each.

## 8. Running

    tlc -config StockMovements.cfg MCStockLedger.tla
    tlapm StockLedgerProofs.tla

Each `.cfg` names one run of section 4 and belongs to the `MC` module of its component.
The proofs of `TeamTicketProofs` and `PricingBundleProofs` take some minutes each, the
others a minute or two.
