-------------------------- MODULE PricingBundleProofs -------------------------
(* Proofs about PricingBundle, for any items, orders, delegates, clients and  *)
(* bounds.                                                                    *)
EXTENDS PricingBundle, TLAPS

-----------------------------------------------------------------------------
(* Type correctness.  A request that is under way names an item or an order,  *)
(* and a screen that shows anything shows a bundle.                          *)
RequestTargeted(r) ==
  /\ r.kind \in {"edit", "estimate"} => r.item \in Items
  /\ r.kind \in {"submit", "sending", "revision"} => r.order \in Orders

ScreenTargeted(s) == s.stage # "none" => s.bundle \in Bundles

TypeInv ==
  /\ TypeOK
  /\ \A c \in Clients : RequestTargeted(request[c])
  /\ \A d \in Delegates : ScreenTargeted(screen[d])

LEMMA PricesTyped ==
  ASSUME NEW u \in Nat, NEW q \in Nat, NEW t \in Nat
  PROVE  [unit |-> u, quantity |-> q, total |-> t] \in Price
BY DEF Price

LEMMA ProductNatural == \A a, b \in Nat : a * b \in Nat
OBVIOUS

LEMMA BatchesTyped ==
  /\ NoBatch \in Batches
  /\ \A b \in Bundles, o \in Orders : <<b, o>> \in Batches
  /\ \A n \in 0..MaxRequests, o \in Orders : <<-n, o>> \in Batches
<1>1. Bundles \subseteq Senders /\ \A n \in 0..MaxRequests : -n \in Senders
  BY BoundsNatural DEF Bundles, Senders
<1> QED
  BY <1>1 DEF Batches

LEMMA IdleTyped == Idle \in Request /\ NotRead \in Price /\ NoRows \in [Items -> Price]
<1>1. NotRead \in Price
  BY DEF NotRead, Price
<1> QED
  BY <1>1, BatchesTyped, BoundsNatural DEF Idle, Request, NoRows

(* What is written to one row, screen or request keeps the table well-formed. *)
LEMMA ItemWritten ==
  ASSUME TypeInv, NEW i \in Items, NEW row \in ItemRow, WriteItem(i, row)
  PROVE  item' \in [Items -> ItemRow]
BY DEF TypeInv, TypeOK, WriteItem

LEMMA RequestContinued ==
  ASSUME TypeInv, NEW c \in Clients, NEW r \in Request, RequestTargeted(r), Continue(c, r)
  PROVE  /\ request' \in [Clients -> Request] /\ spent' \in 0..MaxRequests
         /\ \A e \in Clients : RequestTargeted(request'[e])
BY DEF TypeInv, TypeOK, Continue

LEMMA RequestFinished ==
  ASSUME TypeInv, NEW c \in Clients, Finished(c)
  PROVE  /\ request' \in [Clients -> Request] /\ spent' \in 0..MaxRequests
         /\ \A e \in Clients : RequestTargeted(request'[e])
<1>1. RequestTargeted(Idle)
  BY DEF RequestTargeted, Idle
<1> QED
  BY <1>1, IdleTyped, RequestContinued DEF Finished

LEMMA RequestBegun ==
  ASSUME TypeInv, NEW c \in Clients, NEW r \in Request, RequestTargeted(r), Begin(c, r)
  PROVE  /\ request' \in [Clients -> Request] /\ spent' \in 0..MaxRequests
         /\ \A e \in Clients : RequestTargeted(request'[e])
<1>1. spent + 1 \in 0..MaxRequests
  BY BoundsNatural DEF TypeInv, TypeOK, Begin
<1>2. [r EXCEPT !.number = spent + 1] \in Request
  BY <1>1 DEF Request
<1>3. RequestTargeted([r EXCEPT !.number = spent + 1])
  BY DEF RequestTargeted, Request
<1> QED
  BY <1>1, <1>2, <1>3 DEF TypeInv, TypeOK, Begin

LEMMA ScreenShown ==
  ASSUME TypeInv, NEW d \in Delegates, NEW s \in Screen, ScreenTargeted(s), Show(d, s)
  PROVE  TypeInv'
<1>1. screen' \in [Delegates -> Screen] /\ \A e \in Delegates : ScreenTargeted(screen'[e])
  BY DEF TypeInv, TypeOK, Show
<1> QED
  BY <1>1 DEF TypeInv, TypeOK, Show

LEMMA CurrentIsBundle == ASSUME NEW d PROVE Current(d) \subseteq Bundles
BY DEF Current, Least

LEMMA RowFilled ==
  ASSUME NEW r \in BundleRow, NEW d \in Delegates, NEW i \in Items
  PROVE  [r EXCEPT !.delegate = d, !.status = "open", !.items = @ \cup {i},
                   !.revision = @ + 1] \in BundleRow
<1>1. r.items \cup {i} \in SUBSET Items /\ r.revision + 1 \in Nat
  BY DEF BundleRow
<1> QED
  BY <1>1 DEF BundleRow

LEMMA RowSent ==
  ASSUME NEW r \in BundleRow, NEW rows \in [Items -> Price], NEW orders \in SUBSET Orders
  PROVE  [r EXCEPT !.status = "archived", !.revision = @ + 1, !.rows = rows,
                   !.unsynced = orders] \in BundleRow
<1>1. r.revision + 1 \in Nat
  BY DEF BundleRow
<1> QED
  BY <1>1 DEF BundleRow

LEMMA BundleChanged ==
  ASSUME TypeInv, NEW b \in Bundles, NEW row \in BundleRow,
         bundle' = [bundle EXCEPT ![b] = row]
  PROVE  bundle' \in [Bundles -> BundleRow]
BY DEF TypeInv, TypeOK

LEMMA DelegateKeepsType ==
  ASSUME TypeInv, NEW d \in Delegates,
         \/ \E i \in Items : Add(d, i)
         \/ \E b \in Bundles, i \in Items : Remove(d, b, i)
         \/ \E b \in Bundles : ReadBundle(d, b)
         \/ ReadLinks(d) \/ ReadItem(d) \/ Send(d)
  PROVE  TypeInv'
<1>1. ASSUME NEW i \in Items, Add(d, i) PROVE TypeInv'
  <2>1. PICK b \in Current(d) :
          bundle' = [bundle EXCEPT ![b] = [bundle[b] EXCEPT !.delegate = d,
            !.status = "open", !.items = @ \cup {i}, !.revision = @ + 1]]
    BY <1>1 DEF Add
  <2>2. b \in Bundles /\ bundle[b] \in BundleRow
    BY CurrentIsBundle DEF TypeInv, TypeOK
  <2> DEFINE row == [bundle[b] EXCEPT !.delegate = d, !.status = "open",
                                      !.items = @ \cup {i}, !.revision = @ + 1]
  <2>3. row \in BundleRow /\ bundle' = [bundle EXCEPT ![b] = row]
    BY <2>1, <2>2, RowFilled
  <2> HIDE DEF row
  <2>4. bundle' \in [Bundles -> BundleRow]
    BY <2>2, <2>3, BundleChanged
  <2> QED
    BY <1>1, <2>4 DEF TypeInv, TypeOK, Add
<1>2. ASSUME NEW b \in Bundles, NEW i \in Items, Remove(d, b, i) PROVE TypeInv'
  <2>1. bundle' \in [Bundles -> BundleRow]
    BY <1>2 DEF Remove, TypeInv, TypeOK, BundleRow
  <2> QED
    BY <1>2, <2>1 DEF TypeInv, TypeOK, Remove
<1>3. ASSUME NEW b \in Bundles, ReadBundle(d, b) PROVE TypeInv'
  <2> DEFINE s == [bundle |-> b, revision |-> bundle[b].revision, stage |-> "header",
                   todo |-> {}, rows |-> NoRows]
  <2>1. s \in Screen /\ ScreenTargeted(s)
    BY IdleTyped DEF TypeInv, TypeOK, BundleRow, Screen, ScreenTargeted
  <2> QED
    BY <1>3, <2>1, ScreenShown DEF ReadBundle
<1>4. CASE ReadLinks(d)
  <2> DEFINE s == [screen[d] EXCEPT !.stage = "links",
                                    !.todo = bundle[screen[d].bundle].items]
  <2>1. s \in Screen /\ ScreenTargeted(s)
    BY <1>4 DEF ReadLinks, TypeInv, TypeOK, BundleRow, Screen, ScreenTargeted
  <2> QED
    BY <1>4, <2>1, ScreenShown DEF ReadLinks
<1>5. CASE ReadItem(d)
  <2>1. PICK i \in screen[d].todo :
          Show(d, [screen[d] EXCEPT !.todo = @ \ {i}, !.rows[i] = RowOf(i)])
    BY <1>5 DEF ReadItem
  <2>2. RowOf(i) \in Price
    BY DEF TypeInv, TypeOK, Screen, ItemRow, RowOf
  <2>3. [screen[d] EXCEPT !.todo = @ \ {i}, !.rows[i] = RowOf(i)] \in Screen
    BY <2>2 DEF TypeInv, TypeOK, Screen
  <2>4. ScreenTargeted([screen[d] EXCEPT !.todo = @ \ {i}, !.rows[i] = RowOf(i)])
    BY DEF TypeInv, TypeOK, Screen, ScreenTargeted
  <2> QED
    BY <2>1, <2>3, <2>4, ScreenShown
<1>6. CASE Send(d)
  <2> DEFINE b == screen[d].bundle
             mine == bundle[b].items
             orders == {OrderOf[i] : i \in mine}
  <2>1. b \in Bundles /\ mine \subseteq Items
    BY <1>6 DEF Send, Shown, TypeInv, TypeOK, ScreenTargeted, BundleRow
  <2>2. \A i \in Items : <<b, OrderOf[i]>> \in Batches
    BY <2>1, BatchesTyped, ItemsAndOrders
  <2>3. item' \in [Items -> ItemRow]
    <3>1. \A i \in Items : item'[i] = item[i]
                           \/ item'[i] = [item[i] EXCEPT !.batch = <<b, OrderOf[i]>>]
      BY <1>6 DEF Send
    <3>2. \A i \in Items : item[i] \in ItemRow
                           /\ [item[i] EXCEPT !.batch = <<b, OrderOf[i]>>] \in ItemRow
      BY <2>2 DEF TypeInv, TypeOK, ItemRow
    <3> QED
      BY <1>6, <3>1, <3>2 DEF Send
  <2>4. order' \in [Orders -> OrderStatuses]
    BY <1>6 DEF Send, TypeInv, TypeOK, OrderStatuses
  <2>5. Rows(mine) \in [Items -> Price]
    BY IdleTyped DEF Rows, RowOf, TypeInv, TypeOK, ItemRow
  <2>6. orders \subseteq Orders
    BY <2>1, ItemsAndOrders
  <2>7. bundle' \in [Bundles -> BundleRow]
    <3>1. bundle[b] \in BundleRow
      BY <2>1 DEF TypeInv, TypeOK
    <3> DEFINE row == [bundle[b] EXCEPT !.status = "archived", !.revision = @ + 1,
                                        !.rows = Rows(mine), !.unsynced = orders]
    <3>2. row \in BundleRow
      BY <2>5, <2>6, <3>1, RowSent
    <3>3. bundle' = [bundle EXCEPT ![b] = row]
      BY <1>6 DEF Send
    <3> HIDE DEF row
    <3> QED
      BY <2>1, <3>2, <3>3, BundleChanged
  <2>8. Blank \in Screen /\ ScreenTargeted(Blank)
    BY IdleTyped DEF Blank, Screen, ScreenTargeted
  <2> QED
    BY <1>6, <2>3, <2>4, <2>7, <2>8 DEF Send, TypeInv, TypeOK
<1> QED
  BY <1>1, <1>2, <1>3, <1>4, <1>5, <1>6

LEMMA FinishKeepsType ==
  ASSUME TypeInv, NEW b \in Bundles,
         BeginFinish(b) \/ SyncBatch(b) \/ EndFinish(b) \/ SyncFails(b) \/ CrashFinish(b)
  PROVE  TypeInv'
<1>1. CASE BeginFinish(b)
  BY <1>1 DEF BeginFinish, TypeInv, TypeOK
<1>2. CASE SyncBatch(b)
  <2>1. PICK o \in Orders : /\ announced' = announced \cup {<<b, o>>}
                            /\ finish' = [finish EXCEPT ![b].synced = @ \cup {o}]
    BY <1>2 DEF SyncBatch, Least, Unsynced, TypeInv, TypeOK, BundleRow
  <2> QED
    BY <1>2, <2>1, BatchesTyped DEF SyncBatch, TypeInv, TypeOK
<1>3. ASSUME NEW done \in BOOLEAN, CommitFinish(b, done) PROVE TypeInv'
  <2>1. bundle[b] \in BundleRow
    BY DEF TypeInv, TypeOK
  <2>2. [bundle[b] EXCEPT !.unsynced = Unsynced(b), !.done = done] \in BundleRow
    BY <2>1 DEF BundleRow, Unsynced
  <2>3. bundle' \in [Bundles -> BundleRow]
    BY <1>3, <2>2, BundleChanged DEF CommitFinish
  <2> QED
    BY <1>3, <2>3 DEF CommitFinish, NotFinishing, TypeInv, TypeOK
<1>4. CASE CrashFinish(b)
  BY <1>4 DEF CrashFinish, NotFinishing, TypeInv, TypeOK
<1> QED
  BY <1>1, <1>2, <1>3, <1>4 DEF EndFinish, SyncFails

LEMMA SeenTyped ==
  ASSUME TypeInv, NEW i \in Items
  PROVE  /\ item[i] \in ItemRow /\ item[i].price \in Price
         /\ Read(i) \in [price : Price, batch : Batches]
BY DEF TypeInv, TypeOK, ItemRow, Read

LEMMA BeginKeepsType ==
  ASSUME TypeInv, NEW c \in Clients,
         \/ \E i \in Items, u \in UnitCosts \cup {0}, q \in Quantities \cup {0} :
               BeginEdit(c, i, u, q)
         \/ \E i \in Items, u \in UnitCosts : BeginEstimate(c, i, u)
         \/ \E o \in Orders : BeginSubmit(c, o) \/ BeginRevision(c, o)
  PROVE  TypeInv'
<1>1. ASSUME NEW i \in Items, NEW u \in UnitCosts \cup {0}, NEW q \in Quantities \cup {0},
             BeginEdit(c, i, u, q)
      PROVE  TypeInv'
  <2> DEFINE r == [Idle EXCEPT !.kind = "edit", !.item = i, !.unit = u, !.quantity = q,
                               !.seen = Read(i)]
  <2>1. r \in Request /\ RequestTargeted(r)
    BY SeenTyped, IdleTyped, CostsPositive DEF Request, RequestTargeted, Idle
  <2> QED
    BY <1>1, <2>1, RequestBegun DEF BeginEdit, TypeInv, TypeOK
<1>2. ASSUME NEW i \in Items, NEW u \in UnitCosts, BeginEstimate(c, i, u) PROVE TypeInv'
  <2> DEFINE r == [Idle EXCEPT !.kind = "estimate", !.item = i, !.unit = u, !.seen = Read(i)]
  <2>1. r \in Request /\ RequestTargeted(r)
    BY SeenTyped, IdleTyped, CostsPositive DEF Request, RequestTargeted, Idle
  <2> QED
    BY <1>2, <2>1, RequestBegun DEF BeginEstimate, TypeInv, TypeOK
<1>3. ASSUME NEW o \in Orders, BeginSubmit(c, o) PROVE TypeInv'
  <2> DEFINE r == [Idle EXCEPT !.kind = "submit", !.order = o,
                     !.todo = {i \in Items : /\ OrderOf[i] = o /\ item[i].status = "estimated"
                                             /\ item[i].batch = NoBatch}]
  <2>1. r \in Request /\ RequestTargeted(r)
    BY IdleTyped DEF Request, RequestTargeted, Idle
  <2> QED
    BY <1>3, <2>1, RequestBegun DEF BeginSubmit, TypeInv, TypeOK
<1>4. ASSUME NEW o \in Orders, BeginRevision(c, o) PROVE TypeInv'
  <2> DEFINE r == [Idle EXCEPT !.kind = "revision", !.order = o,
                               !.todo = {i \in Items : OrderOf[i] = o}]
  <2>1. r \in Request /\ RequestTargeted(r)
    BY IdleTyped DEF Request, RequestTargeted, Idle
  <2>2. order' \in [Orders -> OrderStatuses]
    BY <1>4 DEF BeginRevision, TypeInv, TypeOK, OrderStatuses
  <2> QED
    BY <1>4, <2>1, <2>2, RequestBegun DEF BeginRevision, TypeInv, TypeOK
<1> QED
  BY <1>1, <1>2, <1>3, <1>4

LEMMA EditedTyped ==
  ASSUME NEW r \in Request, NEW p \in Price
  PROVE  Edited(r, p) \in Price
<1> DEFINE unit == IF r.unit # 0 THEN r.unit ELSE r.seen.price.unit
           many == IF r.quantity # 0 THEN r.quantity ELSE r.seen.price.quantity
<1>1. unit \in Nat /\ many \in Nat
  BY DEF Request, Price
<1>2. unit * many \in Nat
  BY <1>1, ProductNatural
<1> HIDE DEF unit, many
<1>3. Edited(r, p) = [unit     |-> IF r.unit # 0 THEN r.unit ELSE p.unit,
                      quantity |-> IF r.quantity # 0 THEN r.quantity ELSE p.quantity,
                      total    |-> IF unit # 0 THEN unit * many ELSE p.total]
  BY DEF Edited, unit, many
<1> QED
  BY <1>2, <1>3 DEF Request, Price

LEMMA RequestKeepsType ==
  ASSUME TypeInv, NEW c \in Clients,
         \/ Edit(c) \/ Estimate(c) \/ ReadReserved(c) \/ SendAlone(c)
         \/ EndSubmit(c) \/ ReviseItem(c) \/ EndRequest(c)
  PROVE  TypeInv'
<1> DEFINE r == request[c]
<1>0. r \in Request /\ RequestTargeted(r)
  BY DEF TypeInv, TypeOK
<1>1. CASE Edit(c)
  <2>1. r.item \in Items /\ item[r.item] \in ItemRow /\ item[r.item].price \in Price
    BY <1>0, <1>1, SeenTyped DEF Edit, RequestTargeted
  <2>2. [item[r.item] EXCEPT !.price = Edited(r, @)] \in ItemRow
    BY <1>0, <2>1, EditedTyped DEF ItemRow
  <2>3. item' \in [Items -> ItemRow]
    BY <1>1, <2>1, <2>2, ItemWritten DEF Edit
  <2> QED
    BY <1>1, <2>3, RequestFinished DEF Edit, TypeInv, TypeOK
<1>2. CASE Estimate(c)
  <2>1. r.item \in Items /\ item[r.item] \in ItemRow /\ item[r.item].price \in Price
    BY <1>0, <1>2, SeenTyped DEF Estimate, RequestTargeted
  <2>2. r.unit * r.seen.price.quantity \in Nat
    BY <1>0, ProductNatural DEF Request, Price
  <2>3. [item[r.item].price EXCEPT !.unit = r.unit,
                                   !.total = r.unit * r.seen.price.quantity] \in Price
    BY <1>0, <2>1, <2>2 DEF Price, Request
  <2>4. [item[r.item] EXCEPT !.status = "estimated", !.batch = NoBatch,
          !.price = [item[r.item].price EXCEPT !.unit = r.unit,
                       !.total = r.unit * r.seen.price.quantity]] \in ItemRow
    BY <2>1, <2>3, BatchesTyped DEF ItemRow
  <2>5. item' \in [Items -> ItemRow]
    BY <1>2, <2>1, <2>4, ItemWritten DEF Estimate
  <2> QED
    BY <1>2, <2>5, RequestFinished DEF Estimate, TypeInv, TypeOK
<1>3. CASE ReadReserved(c)
  <2> DEFINE ready == {i \in r.todo : ~ Reserved(i)}
  <2>1. /\ [r EXCEPT !.kind = "sending", !.todo = ready] \in Request
        /\ RequestTargeted([r EXCEPT !.kind = "sending", !.todo = ready])
    BY <1>0, <1>3 DEF ReadReserved, Request, RequestTargeted
  <2> QED
    BY <1>3, <2>1, RequestContinued DEF ReadReserved, TypeInv, TypeOK
<1>4. ASSUME NEW i \in r.todo, r.kind \in {"sending", "revision"},
             Continue(c, [r EXCEPT !.todo = @ \ {i}])
      PROVE  /\ request' \in [Clients -> Request] /\ spent' \in 0..MaxRequests
             /\ \A e \in Clients : RequestTargeted(request'[e])
  <2>1. /\ [r EXCEPT !.todo = @ \ {i}] \in Request
        /\ RequestTargeted([r EXCEPT !.todo = @ \ {i}])
    BY <1>0 DEF Request, RequestTargeted
  <2> QED
    BY <1>4, <2>1, RequestContinued
<1>5. CASE SendAlone(c)
  <2>1. PICK i \in r.todo : /\ WriteItem(i, [item[i] EXCEPT !.batch = <<-r.number, r.order>>])
                            /\ Continue(c, [r EXCEPT !.todo = @ \ {i}])
    BY <1>5 DEF SendAlone, Least
  <2>2. i \in Items /\ item[i] \in ItemRow
    BY <1>0, SeenTyped DEF Request
  <2>3. <<-r.number, r.order>> \in Batches
    BY <1>0, <1>5, BatchesTyped DEF SendAlone, RequestTargeted, Request
  <2>4. [item[i] EXCEPT !.batch = <<-r.number, r.order>>] \in ItemRow
    BY <2>2, <2>3 DEF ItemRow
  <2>5. item' \in [Items -> ItemRow]
    BY <2>1, <2>2, <2>4, ItemWritten
  <2> QED
    BY <1>4, <1>5, <2>1, <2>5 DEF SendAlone, TypeInv, TypeOK
<1>6. CASE EndSubmit(c)
  <2>1. <<-r.number, r.order>> \in Batches
    BY <1>0, <1>6, BatchesTyped DEF EndSubmit, RequestTargeted, Request
  <2>2. order' \in [Orders -> OrderStatuses]
    BY <1>6 DEF EndSubmit, TypeInv, TypeOK, OrderStatuses
  <2> QED
    BY <1>6, <2>1, <2>2, RequestFinished DEF EndSubmit, TypeInv, TypeOK
<1>7. CASE ReviseItem(c)
  <2>1. PICK i \in r.todo :
          /\ WriteItem(i, [item[i] EXCEPT !.status = "pending",
                                          !.price = [@ EXCEPT !.unit = 0, !.total = 0]])
          /\ Continue(c, [r EXCEPT !.todo = @ \ {i}])
    BY <1>7 DEF ReviseItem, Least
  <2>2. i \in Items /\ item[i] \in ItemRow /\ item[i].price \in Price
    BY <1>0, SeenTyped DEF Request
  <2>3. [item[i].price EXCEPT !.unit = 0, !.total = 0] \in Price
    BY <2>2 DEF Price
  <2>4. [item[i] EXCEPT !.status = "pending",
           !.price = [item[i].price EXCEPT !.unit = 0, !.total = 0]] \in ItemRow
    BY <2>2, <2>3 DEF ItemRow
  <2>5. item' \in [Items -> ItemRow]
    BY <2>1, <2>2, <2>4, ItemWritten
  <2> QED
    BY <1>4, <1>7, <2>1, <2>5 DEF ReviseItem, TypeInv, TypeOK
<1>8. CASE EndRequest(c)
  BY <1>8, RequestFinished DEF EndRequest, TypeInv, TypeOK
<1> QED
  BY <1>1, <1>2, <1>3, <1>5, <1>6, <1>7, <1>8

LEMMA OrderKeepsType ==
  ASSUME TypeInv, NEW o \in Orders, Resubmit(o) \/ \E d \in Delegates : Review(o, d)
  PROVE  TypeInv'
<1>1. CASE Resubmit(o)
  BY <1>1 DEF Resubmit, TypeInv, TypeOK, OrderStatuses
<1>2. ASSUME NEW d \in Delegates, Review(o, d) PROVE TypeInv'
  <2>1. \A i \in Items : /\ item[i] \in ItemRow
                         /\ [item[i] EXCEPT !.status = "pending", !.delegate = d] \in ItemRow
    BY DEF TypeInv, TypeOK, ItemRow
  <2>2. item' \in [Items -> ItemRow]
    BY <1>2, <2>1 DEF Review
  <2>3. order' \in [Orders -> OrderStatuses]
    BY <1>2 DEF Review, TypeInv, TypeOK, OrderStatuses
  <2> QED
    BY <1>2, <2>2, <2>3 DEF Review, TypeInv, TypeOK
<1> QED
  BY <1>1, <1>2

LEMMA StepKeepsType == TypeInv /\ [Next]_vars => TypeInv'
<1> SUFFICES ASSUME TypeInv, [Next]_vars PROVE TypeInv'
  OBVIOUS
<1>1. CASE UNCHANGED vars
  BY <1>1 DEF vars, TypeInv, TypeOK
<1> QED
  BY <1>1, DelegateKeepsType, FinishKeepsType, BeginKeepsType, RequestKeepsType, OrderKeepsType
  DEF Next

(* Every table, screen and request is always well-formed.                    *)
THEOREM TypeCorrect == Spec => []TypeInv
<1>1. Init => TypeInv
  <2> SUFFICES ASSUME Init PROVE TypeInv
    OBVIOUS
  <2>1. PICK owner \in StartOwners, unit \in StartCosts :
          item = [i \in Items |->
            [status |-> IF unit[i] = 0 THEN "pending" ELSE "estimated",
             delegate |-> owner[i], batch |-> NoBatch,
             price |-> [unit |-> unit[i], quantity |-> 1, total |-> unit[i]]]]
    BY DEF Init
  <2>2. \A i \in Items : /\ owner[i] \in Delegates /\ unit[i] \in Nat
                         /\ [unit |-> unit[i], quantity |-> 1, total |-> unit[i]] \in Price
    BY OwnersAreDelegates, CostsPositive, PricesTyped
  <2>3. item \in [Items -> ItemRow]
    BY <2>1, <2>2, BatchesTyped DEF ItemRow
  <2>4. Unopened \in BundleRow /\ Blank \in Screen
    BY IdleTyped DEF Unopened, BundleRow, Blank, Screen
  <2>5. RequestTargeted(Idle) /\ ScreenTargeted(Blank)
    BY DEF RequestTargeted, Idle, ScreenTargeted, Blank
  <2>6. /\ order \in [Orders -> OrderStatuses] /\ bundle \in [Bundles -> BundleRow]
        /\ announced \subseteq Batches /\ screen \in [Delegates -> Screen]
        /\ finish \in [Bundles -> [on : BOOLEAN, synced : SUBSET Orders]]
    BY <2>4 DEF Init, OrderStatuses, NotFinishing
  <2>7. request \in [Clients -> Request] /\ spent \in 0..MaxRequests
    BY IdleTyped, BoundsNatural DEF Init
  <2>8. /\ \A c \in Clients : RequestTargeted(request[c])
        /\ \A d \in Delegates : ScreenTargeted(screen[d])
    BY <2>5 DEF Init
  <2> QED
    BY <2>3, <2>6, <2>7, <2>8 DEF TypeInv, TypeOK
<1> QED
  BY <1>1, StepKeepsType, PTL DEF Spec

-----------------------------------------------------------------------------
(* Prices.  Three writes change a price, and each asks under the lock of the *)
(* item whether a bundle reserves it.                                        *)
PriceWriter(i) ==
  /\ ~ Reserved(i)
  /\ EditedKnowing(i) \/ item'[i].batch = NoBatch \/ item'[i].price.unit = 0

LEMMA RequestWritesPrice ==
  ASSUME TypeInv, NEW c \in Clients, NEW i \in Items, item'[i].price # item[i].price,
         \/ Edit(c) \/ Estimate(c) \/ ReadReserved(c) \/ SendAlone(c)
         \/ EndSubmit(c) \/ ReviseItem(c) \/ EndRequest(c)
  PROVE  PriceWriter(i)
<1>0. item[i] \in ItemRow /\ item \in [Items -> ItemRow]
  BY DEF TypeInv, TypeOK
<1>1. CASE Edit(c)
  <2>1. /\ i = request[c].item /\ ~ Reserved(i) /\ request[c].kind = "edit"
        /\ item[i].batch = request[c].seen.batch
    BY <1>0, <1>1 DEF Edit, WriteItem
  <2>2. request'[c] = Idle
    BY <1>1 DEF Edit, Finished, Continue, TypeInv, TypeOK
  <2>3. EditedKnowing(i)
    BY <2>1, <2>2 DEF EditedKnowing
  <2> QED
    BY <2>1, <2>3 DEF PriceWriter
<1>2. CASE Estimate(c)
  <2>1. i = request[c].item /\ ~ Reserved(i)
    BY <1>0, <1>2 DEF Estimate, WriteItem
  <2>2. item'[i].batch = NoBatch
    BY <1>0, <1>2, <2>1 DEF Estimate, WriteItem, ItemRow
  <2> QED
    BY <2>1, <2>2 DEF PriceWriter
<1>3. CASE SendAlone(c)
  BY <1>0, <1>3 DEF SendAlone, WriteItem, ItemRow
<1>4. CASE ReviseItem(c)
  <2>1. PICK k \in Least(request[c].todo) :
          /\ ~ Reserved(k)
          /\ WriteItem(k, [item[k] EXCEPT !.status = "pending",
                                          !.price = [@ EXCEPT !.unit = 0, !.total = 0]])
    BY <1>4 DEF ReviseItem
  <2>2. k = i
    BY <1>0, <2>1 DEF WriteItem
  <2>3. item'[i].price.unit = 0
    BY <1>0, <2>1, <2>2 DEF WriteItem, ItemRow, Price
  <2> QED
    BY <2>1, <2>2, <2>3 DEF PriceWriter
<1> QED
  BY <1>1, <1>2, <1>3, <1>4 DEF ReadReserved, EndSubmit, EndRequest

LEMMA OnlyRequestsWritePrices ==
  ASSUME TypeInv, [Next]_vars, NEW i \in Items, item'[i].price # item[i].price
  PROVE  PriceWriter(i)
<1>0. item[i] \in ItemRow
  BY DEF TypeInv, TypeOK
<1>1. ASSUME NEW d \in Delegates, Send(d) PROVE item'[i].price = item[i].price
  BY <1>0, <1>1 DEF Send, ItemRow
<1>2. ASSUME NEW o \in Orders, NEW d \in Delegates, Review(o, d)
      PROVE  item'[i].price = item[i].price
  BY <1>0, <1>2 DEF Review, ItemRow
<1>3. CASE \E c \in Clients : \/ Edit(c) \/ Estimate(c) \/ ReadReserved(c) \/ SendAlone(c)
                              \/ EndSubmit(c) \/ ReviseItem(c) \/ EndRequest(c)
  BY <1>3, RequestWritesPrice
<1>4. CASE item' = item
  BY <1>4
<1>5. CASE \E d \in Delegates : \/ \E k \in Items : Add(d, k)
                                \/ \E b \in Bundles, k \in Items : Remove(d, b, k)
                                \/ \E b \in Bundles : ReadBundle(d, b)
                                \/ ReadLinks(d) \/ ReadItem(d)
  BY <1>4, <1>5 DEF Add, Remove, ReadBundle, ReadLinks, ReadItem, Show
<1>6. CASE \E b \in Bundles : \/ BeginFinish(b) \/ SyncBatch(b) \/ EndFinish(b)
                              \/ SyncFails(b) \/ CrashFinish(b)
  BY <1>4, <1>6 DEF BeginFinish, SyncBatch, EndFinish, SyncFails, CommitFinish, CrashFinish
<1>7. CASE \E c \in Clients :
             \/ \E k \in Items, u \in UnitCosts \cup {0}, q \in Quantities \cup {0} :
                   BeginEdit(c, k, u, q)
             \/ \E k \in Items, u \in UnitCosts : BeginEstimate(c, k, u)
             \/ \E o \in Orders : BeginSubmit(c, o) \/ BeginRevision(c, o)
  BY <1>4, <1>7 DEF BeginEdit, BeginEstimate, BeginSubmit, BeginRevision
<1>8. CASE \E o \in Orders : Resubmit(o)
  BY <1>4, <1>8 DEF Resubmit
<1>9. CASE UNCHANGED vars
  BY <1>4, <1>9 DEF vars
<1> QED
  BY <1>1, <1>2, <1>3, <1>5, <1>6, <1>7, <1>8, <1>9 DEF Next

(* Nobody changes the price of an item while a bundle reserves it.           *)
THEOREM ReservedPriceKept == Spec => ReservedKeepsPrice
<1>1. TypeInv /\ [Next]_vars
      => [\A i \in Items : Reserved(i) => item'[i].price = item[i].price]_vars
  BY OnlyRequestsWritePrices DEF PriceWriter
<1> QED
  BY <1>1, TypeCorrect, PTL DEF Spec, ReservedKeepsPrice

(* A sent item gets another price only from a request that knows it was sent. *)
THEOREM SentPriceKnown == Spec => SentPriceEditedKnowingly
<1>1. TypeInv /\ [Next]_vars
      => [\A i \in Items :
            item'[i].price # item[i].price /\ item'[i].price.unit # 0 /\ item[i].batch # NoBatch
            => EditedKnowing(i) \/ item'[i].batch = NoBatch]_vars
  BY OnlyRequestsWritePrices DEF PriceWriter
<1> QED
  BY <1>1, TypeCorrect, PTL DEF Spec, SentPriceEditedKnowingly

-----------------------------------------------------------------------------
(* Screens.  A screen whose revision is still the bundle's has read the links *)
(* as they are, and the prices it read so far are kept by the reservation.    *)
ScreenInv(d) ==
  LET s == screen[d]
      b == bundle[s.bundle]
  IN s.stage # "none" =>
       /\ b.status # "none" /\ s.revision <= b.revision
       /\ s.stage = "header" => s.rows = NoRows
       /\ s.stage = "links" /\ IsOpen(s.bundle) /\ b.revision = s.revision
            => s.todo \subseteq b.items /\ s.rows = Rows(b.items \ s.todo)

LEMMA RowsKept ==
  ASSUME NEW S \in SUBSET Items, \A i \in S : item'[i].price = item[i].price
  PROVE  Rows(S)' = Rows(S)
BY DEF Rows, RowOf

(* What a step may do to the bundle of a screen it does not touch.           *)
LEMMA ScreenKept ==
  ASSUME TypeInv, TypeInv', NEW d \in Delegates, ScreenInv(d), screen'[d] = screen[d],
         NEW b \in Bundles, b = screen[d].bundle,
         bundle[b].status # "none" => bundle'[b].status # "none",
         \/ /\ bundle'[b].status = bundle[b].status
            /\ bundle'[b].revision = bundle[b].revision
            /\ bundle'[b].items = bundle[b].items
            /\ \A i \in bundle[b].items : IsOpen(b) => item'[i].price = item[i].price
         \/ bundle'[b].revision > bundle[b].revision
  PROVE  ScreenInv(d)'
<1>0. /\ bundle[b].revision \in Nat /\ bundle'[b].revision \in Nat
      /\ screen[d].revision \in Nat /\ bundle[b].items \subseteq Items
  BY DEF TypeInv, TypeOK, BundleRow, Screen
<1>1. CASE bundle'[b].revision > bundle[b].revision
  BY <1>0, <1>1 DEF ScreenInv
<1>2. CASE /\ bundle'[b].status = bundle[b].status
           /\ bundle'[b].revision = bundle[b].revision
           /\ bundle'[b].items = bundle[b].items
           /\ \A i \in bundle[b].items : IsOpen(b) => item'[i].price = item[i].price
  <2>1. IsOpen(b) => Rows(bundle[b].items \ screen[d].todo)'
                     = Rows(bundle[b].items \ screen[d].todo)
    BY <1>0, <1>2 DEF Rows, RowOf
  <2>2. IsOpen(b)' <=> IsOpen(b)
    BY <1>2 DEF IsOpen
  <2> QED
    BY <1>2, <2>1, <2>2 DEF ScreenInv
<1> QED
  BY <1>1, <1>2

(* A step that changes no bundle's status, revision or links.                *)
LEMMA OtherStepKeepsScreens ==
  ASSUME TypeInv, TypeInv', [Next]_vars, \A d \in Delegates : ScreenInv(d), screen' = screen,
         \A b \in Bundles : /\ bundle'[b].status = bundle[b].status
                            /\ bundle'[b].revision = bundle[b].revision
                            /\ bundle'[b].items = bundle[b].items
  PROVE  \A d \in Delegates : ScreenInv(d)'
<1> SUFFICES ASSUME NEW d \in Delegates PROVE ScreenInv(d)'
  OBVIOUS
<1>1. CASE screen[d].stage = "none"
  BY <1>1 DEF ScreenInv
<1>2. CASE screen[d].stage # "none"
  <2> DEFINE b == screen[d].bundle
  <2>1. b \in Bundles /\ bundle[b].items \subseteq Items
    BY <1>2 DEF TypeInv, TypeOK, ScreenTargeted, BundleRow
  <2>2. \A i \in bundle[b].items : IsOpen(b) => item'[i].price = item[i].price
    BY <2>1, OnlyRequestsWritePrices DEF PriceWriter, Reserved
  <2> QED
    BY <2>1, <2>2, ScreenKept
<1> QED
  BY <1>1, <1>2

(* A step of a bundle that raises its revision.                              *)
LEMMA BundleStepKeepsScreen ==
  ASSUME TypeInv, TypeInv', NEW d \in Delegates, ScreenInv(d), screen'[d] = screen[d],
         NEW b \in Bundles, bundle'[b].status # "none",
         bundle'[b].revision > bundle[b].revision,
         \A c \in Bundles \ {b} : bundle'[c] = bundle[c],
         \A i \in Items : item'[i].price = item[i].price
  PROVE  ScreenInv(d)'
<1>1. CASE screen[d].stage = "none"
  BY <1>1 DEF ScreenInv
<1>2. CASE screen[d].stage # "none"
  <2>1. screen[d].bundle \in Bundles
    BY <1>2 DEF TypeInv, ScreenTargeted
  <2>2. bundle[screen[d].bundle].items \subseteq Items
    BY <2>1 DEF TypeInv, TypeOK, BundleRow
  <2> QED
    BY <2>1, <2>2, ScreenKept
<1> QED
  BY <1>1, <1>2

LEMMA CurrentIsLive ==
  ASSUME NEW d, NEW b \in Current(d)
  PROVE  b \in Bundles /\ bundle[b].status \in {"none", "open"}
BY DEF Current, Least, IsOpen

LEMMA DelegateKeepsScreens ==
  ASSUME TypeInv, TypeInv', \A d \in Delegates : ScreenInv(d), NEW e \in Delegates,
         \/ \E i \in Items : Add(e, i)
         \/ \E b \in Bundles, i \in Items : Remove(e, b, i)
         \/ \E b \in Bundles : ReadBundle(e, b)
         \/ ReadLinks(e) \/ ReadItem(e) \/ Send(e)
  PROVE  \A d \in Delegates : ScreenInv(d)'
<1> USE DEF ScreenInv
<1>0. /\ \A b \in Bundles : bundle[b] \in BundleRow
      /\ \A d \in Delegates : screen[d] \in Screen
      /\ \A i \in Items : item[i] \in ItemRow
      /\ bundle \in [Bundles -> BundleRow] /\ screen \in [Delegates -> Screen]
  BY DEF TypeInv, TypeOK
<1>1. ASSUME NEW i \in Items, Add(e, i) PROVE \A d \in Delegates : ScreenInv(d)'
  <2>1. PICK b \in Current(e) :
          bundle' = [bundle EXCEPT ![b] = [bundle[b] EXCEPT !.delegate = e,
            !.status = "open", !.items = @ \cup {i}, !.revision = @ + 1]]
    BY <1>1 DEF Add
  <2>2. b \in Bundles /\ bundle[b] \in BundleRow
    BY <1>0, CurrentIsLive
  <2>3. bundle'[b].status # "none" /\ bundle'[b].revision > bundle[b].revision
    BY <1>0, <2>1, <2>2 DEF BundleRow
  <2> HIDE DEF ScreenInv
  <2> QED
    BY <1>0, <1>1, <2>1, <2>2, <2>3, BundleStepKeepsScreen DEF Add
<1>2. ASSUME NEW b \in Bundles, NEW i \in Items, Remove(e, b, i)
      PROVE  \A d \in Delegates : ScreenInv(d)'
  <2>1. bundle'[b].status # "none" /\ bundle'[b].revision > bundle[b].revision
    BY <1>0, <1>2 DEF Remove, IsOpen, BundleRow
  <2> HIDE DEF ScreenInv
  <2> QED
    BY <1>0, <1>2, <2>1, BundleStepKeepsScreen DEF Remove
<1>3. ASSUME NEW b \in Bundles, ReadBundle(e, b) PROVE \A d \in Delegates : ScreenInv(d)'
  <2>1. /\ screen' = [screen EXCEPT ![e] =
             [bundle |-> b, revision |-> bundle[b].revision, stage |-> "header",
              todo |-> {}, rows |-> NoRows]]
        /\ bundle' = bundle /\ item' = item
    BY <1>3 DEF ReadBundle, Show
  <2>2. ScreenInv(e)'
    BY <1>0, <1>3, <2>1 DEF ReadBundle, IsOpen, BundleRow
  <2>3. \A d \in Delegates \ {e} : ScreenInv(d)'
    BY <1>0, <2>1 DEF IsOpen, Rows, RowOf
  <2> QED
    BY <2>2, <2>3
<1>4. CASE ReadLinks(e)
  <2>1. /\ screen' = [screen EXCEPT ![e] = [screen[e] EXCEPT !.stage = "links",
                                              !.todo = bundle[screen[e].bundle].items]]
        /\ bundle' = bundle /\ item' = item /\ screen[e].stage = "header"
    BY <1>4 DEF ReadLinks, Show
  <2>2. ScreenInv(e)'
    <3> DEFINE b == screen[e].bundle
    <3>1. /\ screen'[e].bundle = b /\ screen'[e].revision = screen[e].revision
          /\ screen'[e].stage = "links" /\ screen'[e].todo = bundle[b].items
          /\ screen'[e].rows = NoRows
      BY <1>0, <2>1 DEF Screen
    <3>2. Rows(bundle[b].items \ bundle[b].items)' = NoRows
      BY DEF Rows, NoRows
    <3> QED
      BY <1>0, <2>1, <3>1, <3>2
  <2>3. \A d \in Delegates \ {e} : ScreenInv(d)'
    BY <1>0, <2>1 DEF IsOpen, Rows, RowOf
  <2> QED
    BY <2>2, <2>3
<1>5. CASE ReadItem(e)
  <2>1. PICK i \in screen[e].todo :
          /\ screen' = [screen EXCEPT ![e] =
               [screen[e] EXCEPT !.todo = @ \ {i}, !.rows[i] = RowOf(i)]]
          /\ bundle' = bundle /\ item' = item /\ screen[e].stage = "links"
    BY <1>5 DEF ReadItem, Show
  <2>2. ScreenInv(e)'
    <3> DEFINE b == screen[e].bundle
               items == bundle[b].items
               left == screen[e].todo \ {i}
    <3>1. /\ screen'[e].bundle = b /\ screen'[e].revision = screen[e].revision
          /\ screen'[e].stage = "links" /\ screen'[e].todo = left
          /\ screen'[e].rows = [screen[e].rows EXCEPT ![i] = RowOf(i)]
      BY <1>0, <2>1 DEF Screen
    <3>2. i \in Items /\ screen[e].rows \in [Items -> Price]
      BY <1>0, <2>1 DEF Screen
    <3>3. ASSUME IsOpen(b), bundle[b].revision = screen[e].revision
          PROVE  left \subseteq items /\ screen'[e].rows = Rows(items \ left)
      <4>1. screen[e].todo \subseteq items /\ screen[e].rows = Rows(items \ screen[e].todo)
        BY <2>1, <3>3
      <4>2. [Rows(items \ screen[e].todo) EXCEPT ![i] = RowOf(i)] = Rows(items \ left)
        BY <2>1, <4>1, <3>2 DEF Rows
      <4> QED
        BY <3>1, <4>1, <4>2
    <3>4. Rows(items \ left)' = Rows(items \ left) /\ (IsOpen(b)' <=> IsOpen(b))
      BY <2>1 DEF Rows, RowOf, IsOpen
    <3> QED
      BY <2>1, <3>1, <3>3, <3>4
  <2>3. \A d \in Delegates \ {e} : ScreenInv(d)'
    BY <1>0, <2>1 DEF IsOpen, Rows, RowOf
  <2> QED
    BY <2>2, <2>3
<1>6. CASE Send(e)
  <2> DEFINE b == screen[e].bundle
  <2>1. b \in Bundles
    BY <1>6 DEF Send, Shown, TypeInv, ScreenTargeted
  <2>2. bundle'[b].status = "archived" /\ bundle'[b].revision = bundle[b].revision + 1
    BY <1>0, <1>6, <2>1 DEF Send, BundleRow
  <2>3. bundle[b].revision \in Nat
    BY <1>0, <2>1 DEF BundleRow
  <2>4. \A c \in Bundles \ {b} : bundle'[c] = bundle[c]
    BY <1>0, <1>6 DEF Send
  <2>5. \A i \in Items : item'[i].price = item[i].price
    BY <1>0, <1>6 DEF Send, ItemRow
  <2>6. screen'[e] = Blank /\ \A d \in Delegates \ {e} : screen'[d] = screen[d]
    BY <1>0, <1>6 DEF Send
  <2>7. ScreenInv(e)'
    BY <2>6 DEF Blank
  <2>8. bundle'[b].revision > bundle[b].revision /\ bundle'[b].status # "none"
    BY <2>2, <2>3
  <2> HIDE DEF ScreenInv, b
  <2> QED
    BY <2>1, <2>4, <2>5, <2>6, <2>7, <2>8, BundleStepKeepsScreen
<1> QED
  BY <1>1, <1>2, <1>3, <1>4, <1>5, <1>6

LEMMA StepKeepsScreens ==
  TypeInv /\ TypeInv' /\ (\A d \in Delegates : ScreenInv(d)) /\ [Next]_vars
  => (\A d \in Delegates : ScreenInv(d))'
<1> SUFFICES ASSUME TypeInv, TypeInv', \A d \in Delegates : ScreenInv(d), [Next]_vars
             PROVE  \A d \in Delegates : ScreenInv(d)'
  OBVIOUS
<1>0. bundle \in [Bundles -> BundleRow]
  BY DEF TypeInv, TypeOK
<1>1. ASSUME screen' = screen, bundle' = bundle PROVE \A d \in Delegates : ScreenInv(d)'
  BY <1>1, OtherStepKeepsScreens
<1>2. ASSUME NEW b \in Bundles, NEW done, CommitFinish(b, done)
      PROVE  \A d \in Delegates : ScreenInv(d)'
  <2>1. \A c \in Bundles : /\ bundle'[c].status = bundle[c].status
                           /\ bundle'[c].revision = bundle[c].revision
                           /\ bundle'[c].items = bundle[c].items
    BY <1>0, <1>2 DEF CommitFinish, BundleRow
  <2> QED
    BY <1>2, <2>1, OtherStepKeepsScreens DEF CommitFinish
<1>3. CASE \E b \in Bundles : \/ BeginFinish(b) \/ SyncBatch(b) \/ EndFinish(b)
                              \/ SyncFails(b) \/ CrashFinish(b)
  BY <1>1, <1>2, <1>3 DEF BeginFinish, SyncBatch, EndFinish, SyncFails, CrashFinish
<1>4. CASE \E c \in Clients :
             \/ \E k \in Items, u \in UnitCosts \cup {0}, q \in Quantities \cup {0} :
                   BeginEdit(c, k, u, q)
             \/ \E k \in Items, u \in UnitCosts : BeginEstimate(c, k, u)
             \/ \E o \in Orders : BeginSubmit(c, o) \/ BeginRevision(c, o)
  BY <1>1, <1>4 DEF BeginEdit, BeginEstimate, BeginSubmit, BeginRevision
<1>5. CASE \E c \in Clients : \/ Edit(c) \/ Estimate(c) \/ ReadReserved(c) \/ SendAlone(c)
                              \/ EndSubmit(c) \/ ReviseItem(c) \/ EndRequest(c)
  BY <1>1, <1>5
  DEF Edit, Estimate, ReadReserved, SendAlone, EndSubmit, ReviseItem, EndRequest
<1>6. CASE \E o \in Orders : Resubmit(o) \/ \E d \in Delegates : Review(o, d)
  BY <1>1, <1>6 DEF Resubmit, Review
<1>7. CASE UNCHANGED vars
  BY <1>1, <1>7 DEF vars
<1> QED
  BY <1>3, <1>4, <1>5, <1>6, <1>7, DelegateKeepsScreens DEF Next

(* A screen that would pass the revision check of the sending shows exactly  *)
(* what is sent.                                                             *)
THEOREM ScreenShowsWhatIsSent == Spec => []SentAsSeen
<1>1. Init => \A d \in Delegates : ScreenInv(d)
  BY DEF Init, ScreenInv, Blank
<1>2. (\A d \in Delegates : ScreenInv(d)) => SentAsSeen
  <2> SUFFICES ASSUME \A d \in Delegates : ScreenInv(d), NEW d \in Delegates,
                      Shown(d), IsOpen(screen[d].bundle),
                      bundle[screen[d].bundle].revision = screen[d].revision
               PROVE  screen[d].rows = Rows(bundle[screen[d].bundle].items)
    BY DEF SentAsSeen
  <2>1. bundle[screen[d].bundle].items \ {} = bundle[screen[d].bundle].items
    OBVIOUS
  <2> QED
    BY <2>1 DEF ScreenInv, Shown
<1> QED
  BY <1>1, <1>2, StepKeepsScreens, TypeCorrect, PTL DEF Spec

-----------------------------------------------------------------------------
(* What accounting gets.  A bundle that was sent is left alone by everything  *)
(* but its finish, which announces a batch before it marks the order.        *)
SentInv ==
  \A b \in Bundles :
    /\ bundle[b].status = "archived" =>
         \A i \in bundle[b].items : /\ AddsUp(bundle[b].rows[i])
                                    /\ \/ OrderOf[i] \in bundle[b].unsynced
                                       \/ <<b, OrderOf[i]>> \in announced
    /\ bundle[b].done => bundle[b].status = "archived" /\ bundle[b].unsynced = {}
    /\ finish[b].on => /\ bundle[b].status = "archived"
                       /\ \A o \in finish[b].synced : <<b, o>> \in announced

(* A step that changes a bundle which is not sent, nor becomes sent.         *)
LEMMA OpenBundleChanged ==
  ASSUME TypeInv, SentInv, NEW b \in Bundles, bundle[b].status # "archived",
         bundle'[b].status # "archived", bundle'[b].done = bundle[b].done,
         \A c \in Bundles \ {b} : bundle'[c] = bundle[c],
         UNCHANGED <<announced, finish>>
  PROVE  SentInv'
BY DEF SentInv

LEMMA SendKeepsSent ==
  ASSUME TypeInv, TypeInv', SentInv, NEW d \in Delegates, Send(d)
  PROVE  SentInv'
<1> DEFINE b == screen[d].bundle
           mine == bundle[b].items
<1>1. b \in Bundles /\ mine \subseteq Items /\ bundle[b] \in BundleRow
  BY DEF Send, Shown, TypeInv, TypeOK, ScreenTargeted, BundleRow
<1>2. \A c \in Bundles \ {b} : bundle'[c] = bundle[c]
  BY DEF Send, TypeInv, TypeOK
<1>3. /\ bundle'[b].items = mine /\ bundle'[b].rows = Rows(mine)
      /\ bundle'[b].unsynced = {OrderOf[i] : i \in mine}
      /\ bundle'[b].status = "archived" /\ bundle'[b].done = bundle[b].done
  BY <1>1 DEF Send, TypeInv, TypeOK, BundleRow
<1>4. \A i \in mine : AddsUp(Rows(mine)[i])
  BY <1>1 DEF Send, Eligible, Rows, RowOf
<1>5. bundle[b].status # "archived"
  BY DEF Send, IsOpen
<1>6. UNCHANGED <<announced, finish>>
  BY DEF Send
<1>7. ~ bundle[b].done /\ ~ finish[b].on
  BY <1>1, <1>5 DEF SentInv
<1> HIDE DEF b, mine
<1> QED
  BY <1>1, <1>2, <1>3, <1>4, <1>6, <1>7 DEF SentInv, AddsUp

LEMMA FinishKeepsSent ==
  ASSUME TypeInv, SentInv, NEW b \in Bundles,
         BeginFinish(b) \/ SyncBatch(b) \/ EndFinish(b) \/ SyncFails(b) \/ CrashFinish(b)
  PROVE  SentInv'
<1>0. finish \in [Bundles -> [on : BOOLEAN, synced : SUBSET Orders]]
      /\ bundle \in [Bundles -> BundleRow]
  BY DEF TypeInv, TypeOK
<1>1. CASE BeginFinish(b)
  BY <1>0, <1>1 DEF BeginFinish, SentInv
<1>2. CASE SyncBatch(b)
  <2>1. PICK o : /\ announced' = announced \cup {<<b, o>>}
                 /\ finish' = [finish EXCEPT ![b].synced = @ \cup {o}]
                 /\ bundle' = bundle
    BY <1>2 DEF SyncBatch
  <2>2. /\ finish'[b].on = finish[b].on /\ finish'[b].synced = finish[b].synced \cup {o}
        /\ \A c \in Bundles \ {b} : finish'[c] = finish[c]
    BY <1>0, <2>1
  <2> QED
    BY <2>1, <2>2 DEF SentInv
<1>3. ASSUME NEW done \in BOOLEAN, finish[b].on, done => Unsynced(b) = {}, CommitFinish(b, done)
      PROVE  SentInv'
  <2>1. /\ bundle'[b].status = "archived" /\ bundle'[b].items = bundle[b].items
        /\ bundle'[b].rows = bundle[b].rows /\ bundle'[b].done = done
        /\ bundle'[b].unsynced = bundle[b].unsynced \ finish[b].synced
    BY <1>0, <1>3 DEF CommitFinish, Unsynced, SentInv, BundleRow
  <2>2. \A c \in Bundles \ {b} : bundle'[c] = bundle[c] /\ finish'[c] = finish[c]
    BY <1>0, <1>3 DEF CommitFinish
  <2>3. ~ finish'[b].on /\ announced' = announced
    BY <1>0, <1>3 DEF CommitFinish, NotFinishing
  <2> QED
    BY <1>3, <2>1, <2>2, <2>3 DEF SentInv, Unsynced
<1>4. CASE CrashFinish(b)
  BY <1>0, <1>4 DEF CrashFinish, NotFinishing, SentInv
<1> QED
  BY <1>1, <1>2, <1>3, <1>4 DEF EndFinish, SyncFails

LEMMA StepKeepsSent == TypeInv /\ TypeInv' /\ SentInv /\ [Next]_vars => SentInv'
<1> SUFFICES ASSUME TypeInv, TypeInv', SentInv, [Next]_vars PROVE SentInv'
  OBVIOUS
<1>0. bundle \in [Bundles -> BundleRow]
  BY DEF TypeInv, TypeOK
<1>1. ASSUME NEW d \in Delegates, NEW i \in Items, Add(d, i) PROVE SentInv'
  <2>1. PICK b \in Current(d) :
          bundle' = [bundle EXCEPT ![b] = [bundle[b] EXCEPT !.delegate = d,
            !.status = "open", !.items = @ \cup {i}, !.revision = @ + 1]]
    BY <1>1 DEF Add
  <2>2. b \in Bundles /\ bundle[b].status # "archived" /\ bundle[b] \in BundleRow
    BY <1>0, CurrentIsLive
  <2>3. bundle'[b].status # "archived" /\ bundle'[b].done = bundle[b].done
    BY <1>0, <2>1, <2>2 DEF BundleRow
  <2> QED
    BY <1>0, <1>1, <2>1, <2>2, <2>3, OpenBundleChanged DEF Add
<1>2. ASSUME NEW d \in Delegates, NEW b \in Bundles, NEW i \in Items, Remove(d, b, i)
      PROVE  SentInv'
  BY <1>0, <1>2, OpenBundleChanged DEF Remove, IsOpen, BundleRow
<1>3. ASSUME bundle' = bundle, finish' = finish, announced \subseteq announced' PROVE SentInv'
  BY <1>3 DEF SentInv
<1>4. CASE \E d \in Delegates : \/ \E b \in Bundles : ReadBundle(d, b)
                                \/ ReadLinks(d) \/ ReadItem(d)
  BY <1>3, <1>4 DEF ReadBundle, ReadLinks, ReadItem, Show
<1>5. CASE \E c \in Clients :
             \/ \E k \in Items, u \in UnitCosts \cup {0}, q \in Quantities \cup {0} :
                   BeginEdit(c, k, u, q)
             \/ \E k \in Items, u \in UnitCosts : BeginEstimate(c, k, u)
             \/ \E o \in Orders : BeginSubmit(c, o) \/ BeginRevision(c, o)
  BY <1>3, <1>5 DEF BeginEdit, BeginEstimate, BeginSubmit, BeginRevision
<1>6. CASE \E c \in Clients : \/ Edit(c) \/ Estimate(c) \/ ReadReserved(c) \/ SendAlone(c)
                              \/ EndSubmit(c) \/ ReviseItem(c) \/ EndRequest(c)
  BY <1>3, <1>6
  DEF Edit, Estimate, ReadReserved, SendAlone, EndSubmit, ReviseItem, EndRequest
<1>7. CASE \E o \in Orders : Resubmit(o) \/ \E d \in Delegates : Review(o, d)
  BY <1>3, <1>7 DEF Resubmit, Review
<1>8. CASE UNCHANGED vars
  BY <1>3, <1>8 DEF vars
<1> QED
  BY <1>1, <1>2, <1>4, <1>5, <1>6, <1>7, <1>8, SendKeepsSent, FinishKeepsSent DEF Next

LEMMA SentCorrect == Spec => []SentInv
<1>1. Init => SentInv
  BY DEF Init, SentInv, Unopened, NotFinishing
<1> QED
  BY <1>1, StepKeepsSent, TypeCorrect, PTL DEF Spec

(* Every row that was sent adds up.                                          *)
THEOREM SentTotalsAddUp == Spec => []SentRowsAddUp
<1>1. SentInv => SentRowsAddUp
  BY DEF SentInv, SentRowsAddUp
<1> QED
  BY <1>1, SentCorrect, PTL

(* A bundle that counts as finished has announced all its batches.           *)
THEOREM FinishedIsAnnounced == Spec => []DoneMeansAnnounced
<1>1. SentInv => DoneMeansAnnounced
  BY DEF SentInv, DoneMeansAnnounced
<1> QED
  BY <1>1, SentCorrect, PTL
===============================================================================
