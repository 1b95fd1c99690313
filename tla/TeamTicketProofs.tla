--------------------------- MODULE TeamTicketProofs ---------------------------
(* Proofs about TeamTicket, for any transactions, keys, members and items.    *)
EXTENDS TeamTicket, RunningTotalsTheorems, SequenceTheorems, TLAPS

-----------------------------------------------------------------------------
(* What every operation does.                                                *)
Operation(s) == Execution(s) \/ Materials(s) \/ Review(s)

Committed(s) ==
  /\ revision' = revision + 1
  /\ recorded' = (recorded \cup {tx[s].key}) \cap KeysOf(Open \ {s})
  /\ tx' = [tx EXCEPT ![s] = None]
  /\ UNCHANGED department

LEMMA ExecutionCommits ==
  ASSUME NEW s \in Sessions, Execution(s)
  PROVE  Admitted(s) /\ Committed(s)
<1> PICK m \in Members :
      \/ \E resume \in BOOLEAN : StartExecution(s, m, resume)
      \/ EndVisit(s, m)
      \/ "ok" \in Reasons /\ SubmitOk(s, m)
      \/ "fixed" \in Reasons /\ SubmitFixed(s, m)
      \/ \E result \in Reasons : SubmitReferral(s, m, result)
      \/ BeginMaterialNeed(s, m)
      \/ RequestMaterials(s, m)
      \/ \E item \in Items \cup {None}, q \in Quantities : RegisterNeed(s, m, item, q)
  BY DEF Execution
<1>1. ASSUME NEW resume \in BOOLEAN, StartExecution(s, m, resume)
      PROVE  Admitted(s) /\ Committed(s)
  BY <1>1 DEF StartExecution, Note, Committed
<1>2. CASE EndVisit(s, m)
  BY <1>2 DEF EndVisit, Note, Committed
<1>3. CASE SubmitOk(s, m)
  BY <1>3 DEF SubmitOk, Submit, Note, Committed
<1>4. CASE SubmitFixed(s, m)
  BY <1>4 DEF SubmitFixed, Submit, Note, Committed
<1>5. ASSUME NEW result \in Reasons, SubmitReferral(s, m, result)
      PROVE  Admitted(s) /\ Committed(s)
  BY <1>5 DEF SubmitReferral, Submit, Note, Committed
<1>6. CASE BeginMaterialNeed(s, m)
  BY <1>6 DEF BeginMaterialNeed, Note, Committed
<1>7. CASE RequestMaterials(s, m)
  BY <1>7 DEF RequestMaterials, Note, Committed
<1>8. ASSUME NEW item \in Items \cup {None}, NEW q \in Quantities, RegisterNeed(s, m, item, q)
      PROVE  Admitted(s) /\ Committed(s)
  BY <1>8 DEF RegisterNeed, Note, Committed
<1> QED
  BY <1>1, <1>2, <1>3, <1>4, <1>5, <1>6, <1>7, <1>8

LEMMA MaterialsCommit ==
  ASSUME NEW s \in Sessions, Materials(s)
  PROVE  Admitted(s) /\ Committed(s)
BY DEF Materials, ResolveMaterial, HandOver, Supply, Transfer, Purchase, ConfirmReturn,
       Note, Committed

LEMMA ReviewCommits ==
  ASSUME NEW s \in Sessions, Review(s)
  PROVE  Admitted(s) /\ Committed(s)
BY DEF Review, ReturnToTeam, ApproveExternal, ExternalHandover, ApproveResult, MayReview,
       Note, Committed

LEMMA OperationCommits ==
  ASSUME NEW s \in Sessions, Operation(s)
  PROVE  Admitted(s) /\ Committed(s)
BY ExecutionCommits, MaterialsCommit, ReviewCommits DEF Operation

-----------------------------------------------------------------------------
(* Fresh views.  The key to all the rest: the revision never falls, so a     *)
(* transaction that expects the current one began after the last change of   *)
(* the ledger.                                                               *)
FreshInv ==
  /\ revision \in Nat
  /\ DOMAIN tx = Sessions
  /\ \A s \in Open : tx[s].expected \in Nat /\ tx[s].expected <= revision
  /\ FreshLedger

LEMMA CommitKeepsFresh ==
  ASSUME FreshInv, NEW s \in Sessions, Committed(s)
  PROVE  FreshInv'
<1>1. DOMAIN tx' = Sessions
  BY DEF FreshInv, Committed
<1>2. \A r \in Open' : r \in Open /\ tx'[r] = tx[r]
  BY DEF FreshInv, Committed, Open
<1>3. \A r \in Open' : tx'[r].expected \in Nat /\ tx'[r].expected < revision'
  BY <1>2 DEF FreshInv, Committed
<1> QED
  BY <1>1, <1>3 DEF FreshInv, FreshLedger, Committed

LEMMA RouteKeepsFresh ==
  ASSUME FreshInv, NEW review, RouteAction(review)
  PROVE  FreshInv'
<1>1. \A r \in Open' : tx'[r].expected \in Nat /\ tx'[r].expected < revision'
  BY DEF FreshInv, RouteAction, Open
<1> QED
  BY <1>1 DEF FreshInv, FreshLedger, RouteAction

LEMMA StepKeepsFresh == FreshInv /\ [Next]_vars => FreshInv'
<1> SUFFICES ASSUME FreshInv, [Next]_vars PROVE FreshInv'
  OBVIOUS
<1>1. ASSUME NEW s \in Sessions, NEW key \in Keys, Begin(s, key) PROVE FreshInv'
  <2>1. \A r \in Open' : \/ r \in Open /\ tx'[r] = tx[r]
                         \/ tx'[r] = [key |-> key, expected |-> revision,
                                      ledger |-> ledger, recorded |-> recorded]
    BY <1>1 DEF FreshInv, Begin, Open
  <2> QED
    BY <1>1, <2>1 DEF FreshInv, FreshLedger, Begin
<1>2. ASSUME NEW s \in Sessions, End(s) PROVE FreshInv'
  <2>1. \A r \in Open' : r \in Open /\ tx'[r] = tx[r]
    BY <1>2 DEF FreshInv, End, Open
  <2>2. recorded' \subseteq recorded /\ UNCHANGED <<revision, ledger>>
    BY <1>2 DEF End
  <2>3. DOMAIN tx' = Sessions
    BY <1>2 DEF FreshInv, End
  <2> QED
    BY <2>1, <2>2, <2>3 DEF FreshInv, FreshLedger
<1>3. ASSUME NEW s \in Sessions, Operation(s) PROVE FreshInv'
  BY <1>3, OperationCommits, CommitKeepsFresh
<1>4. ASSUME NEW n \in DOMAIN needs, Procure(n) PROVE FreshInv'
  BY <1>4 DEF Procure, FreshInv, FreshLedger, Open
<1>5. CASE Route
  <2>1. CASE ExternalJob
    BY <2>1 DEF ExternalJob, FreshInv, FreshLedger, Open
  <2> QED
    BY <1>5, <2>1, RouteKeepsFresh DEF Route, ReturnExternalRoute, DecideExternalRoute
<1>6. CASE UNCHANGED vars
  BY <1>6 DEF vars, FreshInv, FreshLedger, Open
<1> QED
  BY <1>1, <1>2, <1>3, <1>4, <1>5, <1>6 DEF Next, Operation

LEMMA InitFresh == Init => FreshInv
BY DEF Init, FreshInv, FreshLedger, Open

LEMMA FreshCorrect == Spec => []FreshInv
BY InitFresh, StepKeepsFresh, PTL DEF Spec

(* An operation that passes the check of the revision has seen the latest    *)
(* ledger, and its own key if it is recorded (command in service.ts).        *)
THEOREM LedgerIsFresh == Spec => []FreshLedger
<1>1. FreshInv => FreshLedger
  BY DEF FreshInv
<1> QED
  BY <1>1, FreshCorrect, PTL

(* So what an admitted operation sees is what there is.                      *)
LEMMA SeenIsLedger ==
  ASSUME FreshInv, NEW s \in Sessions, Admitted(s)
  PROVE  Seen(s) = ledger
BY DEF FreshInv, FreshLedger, Admitted, Seen

-----------------------------------------------------------------------------
(* Types.                                                                    *)
ControlTyped ==
  /\ department \in Departments
  /\ revision \in Nat
  /\ ledger \in Ledgers
  /\ recorded \subseteq KeysOf(Open)
  /\ DOMAIN tx = Sessions /\ \A s \in Open : tx[s] \in Transactions

Tickets == [path : {"A", "B", "C", None},
            status : {"under_inspection", "work_approved", "out_for_repair",
                      "received_warehouse", "ready_for_closure", "closed"},
            job : JobStatuses \cup {"none"}, steps : SUBSET DOMAIN NextOfJob]

LEMMA NoteTyped ==
  ASSUME TypeOK, NEW s \in Open, NEW l \in Ledgers, Note(s, l)
  PROVE  ControlTyped' /\ ledger' = l
<1>1. Open' = Open \ {s} /\ DOMAIN tx' = Sessions
  BY DEF TypeOK, Note, Open
<1>2. \A r \in Open' : tx'[r] = tx[r]
  BY DEF TypeOK, Note, Open
<1>3. recorded' \subseteq KeysOf(Open)'
  BY <1>1, <1>2 DEF Note, KeysOf
<1>4. \A r \in Open' : tx'[r] \in Transactions
  BY <1>1, <1>2 DEF TypeOK
<1>5. department' \in Departments /\ revision' \in Nat /\ ledger' = l
  BY DEF TypeOK, Note
<1> QED
  BY <1>1, <1>3, <1>4, <1>5 DEF ControlTyped

LEMMA StoppedTyped == TypeOK => Stopped \in Ledgers /\ Stopped.routes = ledger.routes
BY DEF TypeOK, Stopped, Ledgers

LEMMA SeqOf ==
  ASSUME NEW S, NEW m \in Nat, NEW f \in [1..m -> S]
  PROVE  f \in Seq(S) /\ Len(f) = m
BY SeqDef

LEMMA PartTyped ==
  ASSUME NEW x \in Parts, NEW y \in Nat, NEW z \in Int
  PROVE  [x EXCEPT !.used = z] \in Parts /\ [x EXCEPT !.returned = y, !.used = z] \in Parts
BY DEF Parts

LEMMA LotsTyped ==
  ASSUME NEW q \in Nat \ {0}, NEW parts \in Lots(q)
  PROVE  parts \in Seq(Parts) /\ parts # <<>>
<1> DEFINE Part(n) == [quantity |-> n, returned |-> 0, used |-> None]
<1>1. \/ parts = <<Part(q)>>
      \/ \E n \in {q - 1} \ {0} : parts = <<Part(1), Part(n)>>
  BY DEF Lots
<1>2. ASSUME NEW n \in Nat PROVE Part(n) \in Parts
  BY DEF Parts
<1>3. CASE parts = <<Part(q)>>
  <2>1. Part(q) \in Parts
    BY <1>2
  <2> QED
    BY <1>3, <2>1
<1>4. ASSUME NEW n \in {q - 1} \ {0}, parts = <<Part(1), Part(n)>>
      PROVE  parts \in Seq(Parts) /\ parts # <<>>
  <2>1. Part(1) \in Parts /\ Part(n) \in Parts
    BY <1>2, <1>4
  <2> QED
    BY <1>4, <2>1
<1> QED
  BY <1>1, <1>3, <1>4

(* One need changes, and remains a need.                                     *)
LEMMA NeedChanged ==
  ASSUME NEW ns \in Seq(Needs), NEW n \in DOMAIN ns, NEW x \in Needs
  PROVE  [ns EXCEPT ![n] = x] \in Seq(Needs) /\ Len([ns EXCEPT ![n] = x]) = Len(ns)
BY ExceptSeq

LEMMA NeedTyped ==
  ASSUME TypeOK, NEW n \in DOMAIN needs
  PROVE  needs[n] \in Needs /\ needs[n].requested \in Nat \ {0}
<1>1. needs[n] \in Needs
  BY DEF TypeOK
<1> QED
  BY <1>1, QuantitiesAssumption DEF Needs

LEMMA UseTyped ==
  ASSUME NEW need \in Needs, NEW used \in Nat
  PROVE  Use(need, used) \in Needs
<1> DEFINE n == [need EXCEPT !.used = used]
           parts == [p \in DOMAIN n.parts |->
                       [n.parts[p] EXCEPT !.used = n.parts[p].quantity - n.parts[p].returned]]
<1>1. n \in Needs /\ n.parts \in Seq(Parts)
  BY DEF Needs
<1>2. DOMAIN n.parts = 1..Len(n.parts) /\ Len(n.parts) \in Nat
  BY <1>1
<1>3. ASSUME NEW p \in DOMAIN n.parts PROVE parts[p] \in Parts
  <2>1. n.parts[p] \in Parts
    BY <1>1, <1>3
  <2>2. n.parts[p].quantity - n.parts[p].returned \in Int
    BY <2>1 DEF Parts
  <2> QED
    BY <1>3, <2>1, <2>2, PartTyped
<1>4. parts \in Seq(Parts)
  BY <1>2, <1>3, SeqOf
<1>5. Use(need, used) \in {n, [n EXCEPT !.parts = parts]}
  BY DEF Use
<1> QED
  BY <1>1, <1>4, <1>5 DEF Needs

LEMMA GiveBackTyped ==
  ASSUME NEW need \in Needs, NEW back \in [DOMAIN need.parts -> 0..need.requested],
         need.requested \in Nat
  PROVE  GiveBack(need, back) \in Needs
<1> DEFINE parts == [p \in DOMAIN need.parts |->
              [need.parts[p] EXCEPT
                 !.returned = need.parts[p].returned + back[p],
                 !.used = need.parts[p].quantity - need.parts[p].returned - back[p]]]
<1>1. need.parts \in Seq(Parts)
  BY DEF Needs
<1>2. DOMAIN need.parts = 1..Len(need.parts) /\ Len(need.parts) \in Nat
  BY <1>1
<1>3. ASSUME NEW p \in DOMAIN need.parts PROVE parts[p] \in Parts
  <2>1. need.parts[p] \in Parts /\ back[p] \in Nat
    BY <1>1, <1>3
  <2>2. /\ need.parts[p].returned + back[p] \in Nat
        /\ need.parts[p].quantity - need.parts[p].returned - back[p] \in Int
    BY <2>1 DEF Parts
  <2> QED
    BY <1>3, <2>1, <2>2, PartTyped
<1>4. parts \in Seq(Parts)
  BY <1>2, <1>3, SeqOf
<1>5. GiveBack(need, back) = [need EXCEPT !.parts = parts]
  BY DEF GiveBack
<1> QED
  BY <1>4, <1>5 DEF Needs

(* The rest of the types: what the operations choose themselves.             *)
WorkTyped ==
  /\ stage \in Stages /\ outcome \in Outcomes \cup {None}
  /\ round \in Nat
  /\ needs \in Seq(Needs) /\ Len(ledger.routes) = Len(needs)
  /\ ticket \in Tickets

LEMMA TypeParts == TypeOK <=> ControlTyped /\ WorkTyped
BY DEF TypeOK, ControlTyped, WorkTyped, Tickets

LEMMA FinishTyped ==
  ASSUME TypeOK, Finish
  PROVE  stage' \in Stages /\ ticket' \in Tickets
BY DEF TypeOK, Finish, Stages, Tickets

LEMMA SubmitTyped ==
  ASSUME TypeOK, NEW s \in Sessions, NEW m \in Members, NEW result \in Outcomes,
         Submit(s, m, result)
  PROVE  ControlTyped' /\ outcome' \in Outcomes /\ round' \in Nat
         /\ ledger'.routes = ledger.routes
<1>1. s \in Open /\ Note(s, Stopped) /\ outcome' = result /\ round' = round
  BY DEF Submit, Admitted
<1> QED
  BY <1>1, NoteTyped, StoppedTyped DEF TypeOK

LEMMA StartTyped ==
  ASSUME TypeOK, NEW s \in Sessions, NEW m \in Members, NEW resume \in BOOLEAN,
         StartExecution(s, m, resume)
  PROVE  TypeOK'
<1>1. s \in Open /\ Seen(s) \in Ledgers
  BY DEF StartExecution, Admitted, TypeOK, Transactions, Seen
<1>2. PICK l : /\ Note(s, l)
               /\ \/ l = [ledger EXCEPT !.working = TRUE,
                            !.visits = @ \cup {[at |-> revision, leader |-> m, members |-> {m}]}]
                  \/ \E v \in Seen(s).visits :
                       l = [ledger EXCEPT !.working = ~Working(Seen(s)) \/ @,
                              !.visits = Joined(@, v.at, m)]
  BY DEF StartExecution
<1>3. ASSUME NEW at PROVE Joined(ledger.visits, at, m) \in SUBSET Visits
  BY DEF Joined, TypeOK, Ledgers, Visits
<1>4. [at |-> revision, leader |-> m, members |-> {m}] \in Visits
  BY DEF TypeOK, Visits
<1>5. l \in Ledgers /\ l.routes = ledger.routes
  <2>1. CASE l = [ledger EXCEPT !.working = TRUE,
                    !.visits = @ \cup {[at |-> revision, leader |-> m, members |-> {m}]}]
    BY <1>4, <2>1 DEF TypeOK, Ledgers
  <2>2. ASSUME NEW v \in Seen(s).visits,
               l = [ledger EXCEPT !.working = ~Working(Seen(s)) \/ @,
                      !.visits = Joined(@, v.at, m)]
        PROVE  l \in Ledgers /\ l.routes = ledger.routes
    <3>1. (~Working(Seen(s)) \/ ledger.working) \in BOOLEAN
      OBVIOUS
    <3>2. Joined(ledger.visits, v.at, m) \in SUBSET Visits
      BY <1>3
    <3> QED
      BY <2>2, <3>1, <3>2 DEF TypeOK, Ledgers
  <2> QED
    BY <1>2, <2>1, <2>2
<1>6. ControlTyped' /\ ledger' = l
  BY <1>1, <1>2, <1>5, NoteTyped
<1>7. WorkTyped'
  BY <1>5, <1>6 DEF TypeOK, WorkTyped, StartExecution, Tickets
<1> QED
  BY <1>6, <1>7, TypeParts, PTL

LEMMA EndVisitTyped ==
  ASSUME TypeOK, NEW s \in Sessions, NEW m \in Members, EndVisit(s, m)
  PROVE  TypeOK'
<1>1. PICK v : Note(s, [Stopped EXCEPT !.visits = {w \in @ : w.at # v.at}])
  BY DEF EndVisit
<1> DEFINE l == [Stopped EXCEPT !.visits = {w \in @ : w.at # v.at}]
<1>2. l \in Ledgers /\ l.routes = ledger.routes
  BY StoppedTyped DEF Ledgers
<1> HIDE DEF l
<1>3. ControlTyped' /\ ledger' = l
  BY <1>1, <1>2, NoteTyped DEF EndVisit, Admitted, l
<1>4. WorkTyped'
  BY <1>2, <1>3 DEF TypeOK, WorkTyped, EndVisit, Tickets
<1> QED
  BY <1>3, <1>4, TypeParts, PTL

LEMMA ResultTyped ==
  ASSUME TypeOK, NEW s \in Sessions, NEW m \in Members,
         \/ SubmitOk(s, m) \/ SubmitFixed(s, m)
         \/ \E result \in Reasons : SubmitReferral(s, m, result)
  PROVE  TypeOK'
<1>1. CASE SubmitOk(s, m)
  <2>1. "ok" \in Outcomes
    BY DEF Outcomes
  <2>2. WorkTyped' /\ ControlTyped'
    BY <1>1, <2>1, SubmitTyped, FinishTyped DEF SubmitOk, TypeOK, WorkTyped
  <2> QED
    BY <2>2, TypeParts, PTL
<1>2. CASE SubmitFixed(s, m)
  <2>1. "fixed" \in Outcomes
    BY DEF Outcomes
  <2>2. PICK used \in [Current -> UNION {0..needs[n].requested : n \in Current}] :
          needs' = [n \in DOMAIN needs |->
                      IF n \in Current THEN Use(needs[n], used[n]) ELSE needs[n]]
    BY <1>2 DEF SubmitFixed
  <2>3. ASSUME NEW n \in DOMAIN needs PROVE needs'[n] \in Needs
    <3>1. CASE n \in Current
      <4>1. used[n] \in Nat
        BY <3>1, NeedTyped DEF Current, CurrentOf
      <4> QED
        BY <2>2, <3>1, <4>1, NeedTyped, UseTyped
    <3> QED
      BY <2>2, <3>1, NeedTyped
  <2>4. needs' \in Seq(Needs) /\ Len(needs') = Len(needs)
    <3>1. DOMAIN needs = 1..Len(needs) /\ Len(needs) \in Nat
      BY DEF TypeOK
    <3>2. needs' \in [1..Len(needs) -> Needs]
      BY <2>2, <2>3, <3>1
    <3> QED
      BY <3>1, <3>2, SeqOf
  <2>5. WorkTyped' /\ ControlTyped'
    BY <1>2, <2>1, <2>4, SubmitTyped, FinishTyped DEF SubmitFixed, TypeOK, WorkTyped
  <2> QED
    BY <2>5, TypeParts, PTL
<1>3. ASSUME NEW result \in Reasons, SubmitReferral(s, m, result) PROVE TypeOK'
  <2>1. result \in Outcomes /\ stage' \in Stages
    BY <1>3 DEF SubmitReferral, Outcomes, Stages
  <2>2. WorkTyped' /\ ControlTyped'
    BY <1>3, <2>1, SubmitTyped DEF SubmitReferral, TypeOK, WorkTyped, Tickets
  <2> QED
    BY <2>2, TypeParts, PTL
<1> QED
  BY <1>1, <1>2, <1>3

(* New needs with their routes.                                              *)
LEMMA AddedTyped ==
  ASSUME TypeOK, NEW ns \in Seq(Needs), Added(ns), ticket' = ticket, round' = round,
         NEW s \in Sessions, Admitted(s),
         NEW routes \in Seq(Nat \cup {None}), Len(routes) = Len(ns),
         Note(s, [Stopped EXCEPT !.routes = @ \o routes])
  PROVE  TypeOK'
<1> DEFINE l == [Stopped EXCEPT !.routes = @ \o routes]
<1>1. /\ ledger.routes \in Seq(Nat \cup {None}) /\ needs \in Seq(Needs)
      /\ Len(ledger.routes) = Len(needs)
  BY DEF TypeOK, Ledgers
<1>2. /\ ledger.routes \o routes \in Seq(Nat \cup {None})
      /\ needs \o ns \in Seq(Needs)
      /\ Len(ledger.routes \o routes) = Len(needs \o ns)
  <2>1. /\ ledger.routes \o routes \in Seq(Nat \cup {None})
        /\ Len(ledger.routes \o routes) = Len(ledger.routes) + Len(routes)
    BY <1>1, ConcatProperties
  <2>2. needs \o ns \in Seq(Needs) /\ Len(needs \o ns) = Len(needs) + Len(ns)
    BY <1>1, ConcatProperties
  <2> QED
    BY <1>1, <2>1, <2>2
<1>3. l \in Ledgers /\ l.routes = ledger.routes \o routes
  BY <1>2, StoppedTyped DEF Ledgers
<1>4. ControlTyped' /\ ledger' = l
  BY <1>3, NoteTyped DEF Admitted
<1>5. stage' \in Stages /\ outcome' \in Outcomes /\ needs' = needs \o ns
  BY DEF Added, Stages, Outcomes
<1>6. WorkTyped'
  BY <1>2, <1>3, <1>4, <1>5 DEF TypeOK, WorkTyped, Tickets
<1> QED
  BY <1>4, <1>6, TypeParts, PTL

LEMMA NewNeedTyped ==
  ASSUME TypeOK, NEW q \in Quantities, NEW item \in Items \cup {None},
         NEW parts \in Lots(q) \cup {<<>>}
  PROVE  [Need(item, q, round) EXCEPT !.parts = parts] \in Needs
<1>1. q \in Nat \ {0}
  BY QuantitiesAssumption
<1>2. <<>> \in Seq(Parts)
  OBVIOUS
<1>3. parts \in Seq(Parts)
  BY <1>1, <1>2, LotsTyped
<1> QED
  BY <1>1, <1>3 DEF Need, Needs, TypeOK

LEMMA RequestTyped ==
  ASSUME TypeOK, NEW s \in Sessions, NEW m \in Members, RequestMaterials(s, m)
  PROVE  TypeOK'
<1>1. PICK k \in 1..(MaxNeeds - Len(needs)), q \in Quantities :
      \E inputs \in [1..k -> [item : Items \cup {None}, parts : Lots(q) \cup {<<>>}]] :
         /\ Added([i \in 1..k |->
                     [Need(inputs[i].item, q, round) EXCEPT !.parts = inputs[i].parts]])
         /\ Note(s, [Stopped EXCEPT !.routes = @ \o [i \in 1..k |-> None]])
  BY DEF RequestMaterials
<1>2. PICK inputs \in [1..k -> [item : Items \cup {None}, parts : Lots(q) \cup {<<>>}]] :
         /\ Added([i \in 1..k |->
                     [Need(inputs[i].item, q, round) EXCEPT !.parts = inputs[i].parts]])
         /\ Note(s, [Stopped EXCEPT !.routes = @ \o [i \in 1..k |-> None]])
  BY <1>1
<1> DEFINE ns == [i \in 1..k |->
                    [Need(inputs[i].item, q, round) EXCEPT !.parts = inputs[i].parts]]
           routes == [i \in 1..k |-> None]
<1>3. k \in Nat
  BY BoundsAssumption DEF TypeOK
<1>4. ASSUME NEW i \in 1..k PROVE ns[i] \in Needs
  <2>1. inputs[i].item \in Items \cup {None} /\ inputs[i].parts \in Lots(q) \cup {<<>>}
    BY <1>4
  <2> QED
    BY <1>4, <2>1, NewNeedTyped
<1>5. ns \in Seq(Needs) /\ Len(ns) = k
  <2>1. ns \in [1..k -> Needs]
    BY <1>4
  <2> HIDE DEF ns
  <2> QED
    BY <1>3, <2>1, SeqOf
<1>6. routes \in Seq(Nat \cup {None}) /\ Len(routes) = k
  <2>1. routes \in [1..k -> Nat \cup {None}]
    OBVIOUS
  <2> HIDE DEF routes
  <2> QED
    BY <1>3, <2>1, SeqOf
<1>7. Admitted(s) /\ ticket' = ticket /\ round' = round
  BY DEF RequestMaterials
<1>8. Added(ns) /\ Note(s, [Stopped EXCEPT !.routes = @ \o routes])
  BY <1>2
<1> HIDE DEF ns, routes
<1> QED
  BY <1>5, <1>6, <1>7, <1>8, AddedTyped

LEMMA RegisterTyped ==
  ASSUME TypeOK, NEW s \in Sessions, NEW m \in Members, NEW item \in Items \cup {None},
         NEW q \in Quantities, RegisterNeed(s, m, item, q)
  PROVE  TypeOK'
<1>1. PICK shortage \in (IF item = None THEN {q} ELSE 0..q) :
      \E parts \in (IF shortage = 0 THEN Lots(q) ELSE {}) \cup {<<>>} :
       /\ Added(<<[Need(item, q, round) EXCEPT !.parts = parts]>>)
       /\ Note(s, [Stopped EXCEPT !.routes = Append(@, shortage)])
  BY DEF RegisterNeed
<1>2. PICK parts \in (IF shortage = 0 THEN Lots(q) ELSE {}) \cup {<<>>} :
       /\ Added(<<[Need(item, q, round) EXCEPT !.parts = parts]>>)
       /\ Note(s, [Stopped EXCEPT !.routes = Append(@, shortage)])
  BY <1>1
<1> DEFINE need == [Need(item, q, round) EXCEPT !.parts = parts]
<1>3. need \in Needs
  BY NewNeedTyped
<1>4. shortage \in Nat
  BY QuantitiesAssumption
<1>5. <<need>> \in Seq(Needs) /\ Len(<<need>>) = 1
  BY <1>3
<1>6. <<shortage>> \in Seq(Nat \cup {None}) /\ Len(<<shortage>>) = 1
  BY <1>4
<1>7. Note(s, [Stopped EXCEPT !.routes = @ \o <<shortage>>])
  <2>1. ledger.routes \in Seq(Nat \cup {None}) /\ Stopped.routes = ledger.routes
    BY StoppedTyped DEF TypeOK, Ledgers
  <2>2. Append(Stopped.routes, shortage) = Stopped.routes \o <<shortage>>
    BY <1>4, <2>1
  <2> QED
    BY <1>2, <2>2
<1>8. Admitted(s) /\ ticket' = ticket /\ round' = round
  BY DEF RegisterNeed
<1> HIDE DEF need
<1>9. Added(<<need>>)
  BY <1>2 DEF need
<1> QED
  BY <1>5, <1>6, <1>7, <1>8, <1>9, AddedTyped

LEMMA BeginNeedTyped ==
  ASSUME TypeOK, NEW s \in Sessions, NEW m \in Members, BeginMaterialNeed(s, m)
  PROVE  TypeOK'
<1>1. ControlTyped' /\ ledger' = Stopped
  BY NoteTyped, StoppedTyped DEF BeginMaterialNeed, Admitted
<1>2. stage' \in Stages /\ outcome' \in Outcomes
  BY DEF BeginMaterialNeed, NeedsMaterial, Stages, Outcomes
<1>3. WorkTyped'
  BY <1>1, <1>2, StoppedTyped DEF TypeOK, WorkTyped, BeginMaterialNeed, Tickets
<1> QED
  BY <1>1, <1>3, TypeParts, PTL

(* An operation that changes one need, and maybe its route.                  *)
LEMMA OneNeedTyped ==
  ASSUME TypeOK, NEW s \in Sessions, Admitted(s), NEW n \in DOMAIN needs, NEW x \in Needs,
         needs' = [needs EXCEPT ![n] = x], NEW l \in Ledgers, Note(s, l),
         Len(l.routes) = Len(ledger.routes),
         stage' \in Stages, UNCHANGED <<outcome, round, ticket>>
  PROVE  TypeOK'
<1>1. ControlTyped' /\ ledger' = l
  BY NoteTyped DEF Admitted
<1>2. needs' \in Seq(Needs) /\ Len(needs') = Len(needs)
  BY NeedChanged DEF TypeOK
<1>3. WorkTyped'
  BY <1>1, <1>2 DEF TypeOK, WorkTyped, Tickets
<1> QED
  BY <1>1, <1>3, TypeParts, PTL

LEMMA MinOfTwo ==
  ASSUME NEW i \in Nat, NEW j \in Nat
  PROVE  Min({i, j}) \in Nat /\ (Min({i, j}) = i \/ Min({i, j}) = j)
         /\ Min({i, j}) <= i /\ Min({i, j}) <= j
BY DEF Min

LEMMA MaterialsTyped ==
  ASSUME TypeOK, NEW s \in Sessions, Materials(s)
  PROVE  TypeOK'
<1> PICK n \in DOMAIN needs :
      \/ \E item \in Items : ResolveMaterial(s, n, item)
      \/ HandOver(s, n) \/ Transfer(s, n) \/ Purchase(s, n)
      \/ ConfirmReturn(s, n)
  BY DEF Materials
<1>0. /\ needs[n] \in Needs /\ needs[n].requested \in Nat \ {0}
      /\ ledger \in Ledgers /\ stage \in Stages
  BY NeedTyped DEF TypeOK
<1>1. ASSUME NEW item \in Items, ResolveMaterial(s, n, item) PROVE TypeOK'
  <2>1. PICK fits \in BOOLEAN, shortage \in 0..needs[n].requested :
          /\ needs' = [needs EXCEPT ![n] = [@ EXCEPT !.item = item, !.fits = fits]]
          /\ Note(s, [ledger EXCEPT !.routes[n] =
                        IF Seen(s).routes[n] = None THEN None ELSE shortage])
    BY <1>1 DEF ResolveMaterial
  <2> DEFINE x == [needs[n] EXCEPT !.item = item, !.fits = fits]
             route == IF Seen(s).routes[n] = None THEN None ELSE shortage
             l == [ledger EXCEPT !.routes[n] = route]
  <2>2. x \in Needs
    BY <1>0 DEF Needs
  <2>3. ledger.routes \in Seq(Nat \cup {None}) /\ n \in DOMAIN ledger.routes
    BY DEF TypeOK, Ledgers
  <2>4. route \in Nat \cup {None}
    BY <1>0
  <2> HIDE DEF route
  <2>5. /\ [ledger.routes EXCEPT ![n] = route] \in Seq(Nat \cup {None})
        /\ Len([ledger.routes EXCEPT ![n] = route]) = Len(ledger.routes)
    BY <2>3, <2>4, ExceptSeq
  <2>6. l \in Ledgers /\ Len(l.routes) = Len(ledger.routes)
    BY <1>0, <2>5 DEF Ledgers
  <2>7. Note(s, l) /\ needs' = [needs EXCEPT ![n] = x]
    BY <2>1 DEF route
  <2>8. Admitted(s) /\ stage' \in Stages /\ UNCHANGED <<outcome, round, ticket>>
    BY <1>0, <1>1 DEF ResolveMaterial
  <2> HIDE DEF x, l
  <2> QED
    BY <2>2, <2>6, <2>7, <2>8, OneNeedTyped
<1>2. CASE HandOver(s, n)
  <2>1. PICK parts \in Lots(needs[n].requested) :
          needs' = [needs EXCEPT ![n] = [@ EXCEPT !.parts = parts]]
    BY <1>2 DEF HandOver
  <2>2. [needs[n] EXCEPT !.parts = parts] \in Needs
    BY <1>0, LotsTyped DEF Needs
  <2>3. /\ Admitted(s) /\ stage' \in Stages /\ UNCHANGED <<outcome, round, ticket>>
        /\ Note(s, ledger)
    BY <1>0, <1>2 DEF HandOver, Stages
  <2> QED
    BY <1>0, <2>1, <2>2, <2>3, OneNeedTyped
<1>3. CASE Transfer(s, n)
  <2>1. PICK q \in 1..needs[n].requested :
          needs' = [needs EXCEPT ![n] =
                      [@ EXCEPT !.transferred = Min({needs[n].requested, needs[n].transferred + q})]]
    BY <1>3 DEF Transfer
  <2>2. needs[n].transferred \in Nat /\ q \in Nat
    BY <1>0 DEF Needs
  <2>7. needs[n].requested \in Nat /\ needs[n].transferred + q \in Nat
    BY <1>0, <2>2 DEF Needs
  <2>3. Min({needs[n].requested, needs[n].transferred + q}) \in Nat
    BY ONLY <2>7, MinOfTwo
  <2> DEFINE x == [needs[n] EXCEPT
                     !.transferred = Min({needs[n].requested, needs[n].transferred + q})]
  <2>4. x \in Needs
    BY <1>0, <2>3 DEF Needs
  <2>6. needs' = [needs EXCEPT ![n] = x]
    BY <2>1
  <2>5. /\ Admitted(s) /\ stage' \in Stages /\ UNCHANGED <<outcome, round, ticket>>
        /\ Note(s, ledger)
    BY <1>0, <1>3 DEF Transfer, Supply
  <2> HIDE DEF x
  <2> QED
    BY <1>0, <2>4, <2>5, <2>6, OneNeedTyped
<1>4. CASE Purchase(s, n)
  <2>1. PICK q \in 1..needs[n].requested : \E bought \in 1..(q - needs[n].ordered) :
          needs' = [needs EXCEPT ![n] = [@ EXCEPT !.ordered = needs[n].ordered + bought]]
    BY <1>4 DEF Purchase
  <2>2. PICK bought \in 1..(q - needs[n].ordered) :
          needs' = [needs EXCEPT ![n] = [@ EXCEPT !.ordered = needs[n].ordered + bought]]
    BY <2>1
  <2>3. needs[n].ordered \in Nat /\ q \in Nat
    BY <1>0 DEF Needs
  <2>4. needs[n].ordered + bought \in Nat
    BY <2>3
  <2> DEFINE x == [needs[n] EXCEPT !.ordered = needs[n].ordered + bought]
  <2>5. x \in Needs
    BY <1>0, <2>4 DEF Needs
  <2>7. needs' = [needs EXCEPT ![n] = x]
    BY <2>2
  <2>6. /\ Admitted(s) /\ stage' \in Stages /\ UNCHANGED <<outcome, round, ticket>>
        /\ Note(s, ledger)
    BY <1>0, <1>4 DEF Purchase, Supply
  <2> HIDE DEF x
  <2> QED
    BY <1>0, <2>5, <2>6, <2>7, OneNeedTyped
<1>5. CASE ConfirmReturn(s, n)
  <2>1. PICK back \in [DOMAIN needs[n].parts -> 0..needs[n].requested] :
          needs' = [needs EXCEPT ![n] = GiveBack(@, back)]
    BY <1>5 DEF ConfirmReturn
  <2>2. GiveBack(needs[n], back) \in Needs
    BY <1>0, GiveBackTyped
  <2>3. /\ Admitted(s) /\ stage' \in Stages /\ UNCHANGED <<outcome, round, ticket>>
        /\ Note(s, ledger)
    BY <1>0, <1>5 DEF ConfirmReturn
  <2> QED
    BY <1>0, <2>1, <2>2, <2>3, OneNeedTyped
<1> QED
  BY <1>1, <1>2, <1>3, <1>4, <1>5

LEMMA ReviewTyped ==
  ASSUME TypeOK, NEW s \in Sessions, Review(s)
  PROVE  TypeOK'
<1>1. \E l \in {ledger, Stopped} : Note(s, l)
  BY DEF Review, ReturnToTeam, ApproveExternal, ExternalHandover, ApproveResult
<1>2. s \in Open
  BY DEF Review, ReturnToTeam, ApproveExternal, ExternalHandover, ApproveResult, MayReview,
         Admitted
<1>3. ControlTyped' /\ ledger'.routes = ledger.routes
  BY <1>1, <1>2, NoteTyped, StoppedTyped DEF TypeOK
<1>4. stage' \in Stages
  BY DEF Review, ReturnToTeam, ApproveExternal, ExternalHandover, ApproveResult, AfterReturn,
         Stages
<1>5. outcome' \in Outcomes \cup {None} /\ round' \in Nat
  BY DEF Review, ReturnToTeam, ApproveExternal, ExternalHandover, ApproveResult,
         RoundAfterReview, TypeOK
<1>6. ticket' \in Tickets
  BY DEF Review, ReturnToTeam, ApproveExternal, ExternalHandover, HandOverAsset, ApproveResult,
         TypeOK, Tickets, JobStatuses
<1>7. UNCHANGED needs
  BY DEF Review, ReturnToTeam, ApproveExternal, ExternalHandover, ApproveResult
<1>8. WorkTyped'
  BY <1>3, <1>4, <1>5, <1>6, <1>7 DEF TypeOK, WorkTyped
<1> QED
  BY <1>3, <1>8, TypeParts, PTL

LEMMA StepsOfJob ==
  /\ DOMAIN NextOfJob = {"waiting_gate_exit", "purchase_cycle", "waiting_gate_entry",
                          "waiting_warehouse_receipt"}
  /\ \A from \in DOMAIN NextOfJob :
       NextOfJob[from] \in {"purchase_cycle", "waiting_gate_entry", "waiting_warehouse_receipt",
                           "waiting_technician_handover"}
BY DEF NextOfJob

LEMMA StepEnds ==
  ASSUME ticket \in Tickets, NEW from \in DOMAIN NextOfJob, EndJobStep(from)
  PROVE  /\ ticket' \in Tickets /\ ticket'.path = ticket.path
         /\ ticket'.job \notin {"none", "waiting_gate_exit"}
<1> DEFINE status == IF from = "waiting_gate_exit" THEN "out_for_repair" ELSE ticket.status
<1>1. PICK steps \in SUBSET DOMAIN NextOfJob :
        ticket' = [ticket EXCEPT !.job = NextOfJob[from], !.status = status, !.steps = steps]
  BY StepsOfJob DEF EndJobStep, Tickets
<1>2. status \in {"under_inspection", "work_approved", "out_for_repair", "received_warehouse",
                  "ready_for_closure", "closed"}
  BY DEF Tickets
<1>3. /\ NextOfJob[from] \in JobStatuses
      /\ NextOfJob[from] \notin {"none", "waiting_gate_exit"}
  BY StepsOfJob DEF JobStatuses
<1> HIDE DEF status
<1> QED
  BY <1>1, <1>2, <1>3 DEF Tickets

LEMMA ExternalJobTyped ==
  ASSUME ticket \in Tickets, ExternalJob
  PROVE  ticket' \in Tickets
<1>1. CASE PrepareExternalJob \/ HandOverAsset
  BY <1>1, StepsOfJob DEF PrepareExternalJob, HandOverAsset, Tickets, JobStatuses
<1>2. ASSUME NEW from \in DOMAIN NextOfJob, BeginJobStep(from) PROVE ticket' \in Tickets
  BY <1>2 DEF BeginJobStep, Tickets
<1> QED
  BY <1>1, <1>2, StepEnds DEF ExternalJob

LEMMA RouteTyped ==
  ASSUME TypeOK, Route
  PROVE  TypeOK'
<1>1. CASE ExternalJob
  <2>1. ticket' \in Tickets
    BY <1>1, ExternalJobTyped DEF TypeOK, Tickets
  <2> QED
    BY <1>1, <2>1 DEF ExternalJob, TypeOK, Tickets, Open, KeysOf
<1>2. ASSUME NEW review \in {"returned", "decided"}, RouteAction(review),
             stage' \in Stages, outcome' \in Outcomes \cup {None}, ticket' \in Tickets
      PROVE  TypeOK'
  <2>1. ledger' \in Ledgers /\ ledger'.routes = ledger.routes
    BY <1>2 DEF RouteAction, TypeOK, Ledgers
  <2>2. Open' = Open /\ KeysOf(Open)' = KeysOf(Open)
    BY <1>2 DEF RouteAction, Open, KeysOf
  <2> QED
    BY <1>2, <2>1, <2>2 DEF RouteAction, TypeOK, Tickets
<1>3. CASE ReturnExternalRoute
  <2>1. /\ RouteAction("returned") /\ stage' \in Stages
        /\ outcome' \in Outcomes \cup {None} /\ ticket' \in Tickets
    BY <1>3 DEF ReturnExternalRoute, Stages, Tickets, TypeOK
  <2> QED
    BY <1>2, <2>1
<1>4. ASSUME NEW path \in {"A", "B", "C"}, DecideExternalRoute(path) PROVE TypeOK'
  <2>1. RouteAction("decided") /\ ticket' \in Tickets
    BY <1>4 DEF DecideExternalRoute, Tickets, TypeOK
  <2>2. stage' \in Stages /\ outcome' \in Outcomes \cup {None}
    BY <1>4 DEF DecideExternalRoute, Stages, Outcomes
  <2> QED
    BY <1>2, <2>1, <2>2
<1> QED
  BY <1>1, <1>3, <1>4 DEF Route

LEMMA StepTyped == TypeOK /\ [Next]_vars => TypeOK'
<1> SUFFICES ASSUME TypeOK, [Next]_vars PROVE TypeOK'
  OBVIOUS
<1>1. ASSUME NEW s \in Sessions, NEW key \in Keys, Begin(s, key) PROVE TypeOK'
  <2> DEFINE new == [key |-> key, expected |-> revision, ledger |-> ledger,
                     recorded |-> recorded]
  <2>1. recorded \subseteq Keys
    BY DEF TypeOK, KeysOf, Transactions
  <2>2. new \in Transactions
    BY <2>1 DEF TypeOK, Transactions
  <2> HIDE DEF new
  <2>3. DOMAIN tx' = Sessions /\ \A r \in Open' : \/ r \in Open /\ tx'[r] = tx[r]
                                                  \/ tx'[r] = new
    BY <1>1 DEF TypeOK, Begin, Open, new
  <2>4. \A r \in Open' : tx'[r] \in Transactions
    BY <2>2, <2>3 DEF TypeOK
  <2>5. \A r \in Open : r \in Open' /\ tx'[r] = tx[r]
    BY <1>1 DEF TypeOK, Begin, Open
  <2>6. recorded' \subseteq KeysOf(Open)'
    BY <1>1, <2>5 DEF TypeOK, Begin, KeysOf
  <2> QED
    BY <1>1, <2>3, <2>4, <2>6 DEF TypeOK, Begin
<1>2. ASSUME NEW s \in Sessions, End(s) PROVE TypeOK'
  <2>1. DOMAIN tx' = Sessions /\ Open' = Open \ {s} /\ \A r \in Open' : tx'[r] = tx[r]
    BY <1>2 DEF TypeOK, End, Open
  <2>2. recorded' \subseteq KeysOf(Open)'
    BY <1>2, <2>1 DEF End, KeysOf
  <2>3. \A r \in Open' : tx'[r] \in Transactions
    BY <2>1 DEF TypeOK
  <2> QED
    BY <1>2, <2>1, <2>2, <2>3 DEF TypeOK, End
<1>3. ASSUME NEW s \in Sessions, Execution(s) PROVE TypeOK'
  BY <1>3, StartTyped, EndVisitTyped, ResultTyped, BeginNeedTyped, RequestTyped, RegisterTyped
     DEF Execution
<1>4. ASSUME NEW n \in DOMAIN needs, Procure(n) PROVE TypeOK'
  <2>1. needs[n] \in Needs
    BY NeedTyped
  <2>2. [needs[n] EXCEPT !.ordered = 0] \in Needs
    BY <2>1 DEF Needs
  <2>3. needs' \in Seq(Needs) /\ Len(needs') = Len(needs)
    BY <1>4, <2>2, NeedChanged DEF TypeOK, Procure
  <2> QED
    BY <1>4, <2>3 DEF Procure, TypeOK, Open, KeysOf
<1>5. CASE UNCHANGED vars
  BY <1>5 DEF vars, TypeOK, Open, KeysOf
<1> QED
  BY <1>1, <1>2, <1>3, <1>4, <1>5, MaterialsTyped, ReviewTyped, RouteTyped DEF Next

LEMMA InitTyped == Init => TypeOK
<1> SUFFICES ASSUME Init PROVE TypeOK
  OBVIOUS
<1>1. needs \in Seq(Needs)
  <2>1. ASSUME NEW i \in Items \cup {None}, NEW q \in Quantities PROVE Need(i, q, 1) \in Needs
    BY DEF Need, Needs
  <2>2. needs = <<>> \/ \E need \in Needs : needs = <<need>>
    BY <2>1 DEF Init
  <2>3. <<>> \in Seq(Needs) /\ \A need \in Needs : <<need>> \in Seq(Needs)
    OBVIOUS
  <2> QED
    BY <2>2, <2>3
<1>2. DOMAIN needs = 1..Len(needs) /\ Len(needs) \in Nat
  BY <1>1
<1>3. ledger.routes \in [1..Len(needs) -> Nat \cup {None}]
  BY <1>2 DEF Init
<1>4. ledger.routes \in Seq(Nat \cup {None}) /\ Len(ledger.routes) = Len(needs)
  BY <1>2, <1>3, SeqOf
<1>5. ledger \in Ledgers
  BY <1>4 DEF Init, Ledgers
<1>6. Open = {}
  BY DEF Init, Open
<1>7. department \in Departments /\ stage \in Stages /\ outcome \in Outcomes \cup {None}
  BY DEF Init, Stages, Outcomes
<1>8. revision \in Nat /\ round \in Nat /\ recorded = {} /\ DOMAIN tx = Sessions
  BY DEF Init
<1>9. ticket \in Tickets
  <2>1. \/ ticket = [path |-> None, status |-> "under_inspection", job |-> "none", steps |-> {}]
        \/ ticket = [path |-> "B", status |-> "work_approved", job |-> "none", steps |-> {}]
    BY DEF Init
  <2>2. /\ [path |-> None, status |-> "under_inspection", job |-> "none", steps |-> {}] \in Tickets
        /\ [path |-> "B", status |-> "work_approved", job |-> "none", steps |-> {}] \in Tickets
    BY DEF Tickets
  <2> QED
    BY <2>1, <2>2, Zenon
<1> QED
  BY <1>1, <1>4, <1>5, <1>6, <1>7, <1>8, <1>9 DEF TypeOK, Tickets

(* Assignment, needs, ledger and transactions are always well-formed.        *)
THEOREM TypeCorrect == Spec => []TypeOK
BY InitTyped, StepTyped, PTL DEF Spec

-----------------------------------------------------------------------------
(* Visits.                                                                   *)
VisitInv ==
  /\ \A v, w \in ledger.visits : v = w
  /\ \A v \in ledger.visits : v.leader \in v.members
  /\ ledger.working => ledger.visits # {}

(* Operations other than starting and ending a visit leave the visits, at    *)
(* most stop the work, and none of all touches the route reviews.            *)
KeepsVisits ==
  ledger'.visits = ledger.visits /\ (ledger'.working => ledger.working)
KeepsReview == ledger'.review = ledger.review

LEMMA StoppedKeeps ==
  ASSUME TypeOK
  PROVE  /\ Stopped.visits = ledger.visits /\ Stopped.review = ledger.review
         /\ Stopped.working = FALSE
BY DEF TypeOK, Stopped, Ledgers

LEMMA ExecutionKeeps ==
  ASSUME TypeOK, NEW s \in Sessions, NEW m \in Members,
         \/ SubmitOk(s, m)
         \/ SubmitFixed(s, m)
         \/ \E result \in Reasons : SubmitReferral(s, m, result)
         \/ BeginMaterialNeed(s, m)
         \/ RequestMaterials(s, m)
         \/ \E item \in Items \cup {None}, q \in Quantities : RegisterNeed(s, m, item, q)
  PROVE  KeepsVisits /\ KeepsReview
<1>1. \/ ledger' = Stopped
      \/ \E routes : ledger' = [Stopped EXCEPT !.routes = routes]
  <2>1. CASE RequestMaterials(s, m)
    BY <2>1 DEF RequestMaterials, Note
  <2>2. ASSUME NEW item \in Items \cup {None}, NEW q \in Quantities, RegisterNeed(s, m, item, q)
        PROVE  \E routes : ledger' = [Stopped EXCEPT !.routes = routes]
    BY <2>2 DEF RegisterNeed, Note
  <2>3. CASE \/ SubmitOk(s, m) \/ SubmitFixed(s, m) \/ BeginMaterialNeed(s, m)
             \/ \E result \in Reasons : SubmitReferral(s, m, result)
    BY <2>3 DEF SubmitOk, SubmitFixed, SubmitReferral, Submit, BeginMaterialNeed, Note
  <2> QED
    BY <2>1, <2>2, <2>3
<1>2. Stopped \in Ledgers
  BY StoppedTyped
<1> QED
  BY <1>1, <1>2, StoppedKeeps DEF Ledgers, KeepsVisits, KeepsReview

LEMMA MaterialsKeep ==
  ASSUME TypeOK, NEW s \in Sessions, Materials(s)
  PROVE  KeepsVisits /\ KeepsReview
<1>1. ledger' = ledger \/ \E n, route : ledger' = [ledger EXCEPT !.routes[n] = route]
  <2>1. ASSUME NEW n \in DOMAIN needs, NEW item \in Items, ResolveMaterial(s, n, item)
        PROVE  \E route : ledger' = [ledger EXCEPT !.routes[n] = route]
    BY <2>1 DEF ResolveMaterial, Note
  <2>2. ASSUME NEW n \in DOMAIN needs,
               HandOver(s, n) \/ Transfer(s, n) \/ Purchase(s, n) \/ ConfirmReturn(s, n)
        PROVE  ledger' = ledger
    BY <2>2 DEF HandOver, Transfer, Purchase, Supply, ConfirmReturn, Note
  <2> QED
    BY <2>1, <2>2 DEF Materials
<1> QED
  BY <1>1 DEF TypeOK, Ledgers, KeepsVisits, KeepsReview

LEMMA ReviewKeeps ==
  ASSUME TypeOK, NEW s \in Sessions, Review(s)
  PROVE  KeepsVisits /\ KeepsReview
<1>1. ledger' \in {ledger, Stopped}
  BY DEF Review, ReturnToTeam, ApproveExternal, ExternalHandover, ApproveResult, Note
<1> QED
  BY <1>1, StoppedKeeps DEF KeepsVisits, KeepsReview

LEMMA StartKeepsVisits ==
  ASSUME TypeOK, FreshInv, VisitInv, NEW s \in Sessions, NEW m \in Members,
         NEW resume \in BOOLEAN, StartExecution(s, m, resume)
  PROVE  VisitInv' /\ KeepsReview
<1>1. Seen(s) = ledger
  BY SeenIsLedger DEF StartExecution
<1>2. ledger \in Ledgers
  BY DEF TypeOK
<1>3. CASE ledger.visits = {}
  <2>1. ledger' = [ledger EXCEPT !.working = TRUE,
            !.visits = @ \cup {[at |-> revision, leader |-> m, members |-> {m}]}]
    BY <1>1, <1>3 DEF StartExecution, Note
  <2>2. /\ ledger'.visits = {[at |-> revision, leader |-> m, members |-> {m}]}
        /\ ledger'.review = ledger.review
    BY <1>2, <1>3, <2>1 DEF Ledgers
  <2> QED
    BY <2>2 DEF VisitInv, KeepsReview
<1>4. ASSUME NEW v \in ledger.visits, ledger.visits = {v} PROVE VisitInv' /\ KeepsReview
  <2>1. ledger' = [ledger EXCEPT !.working = ~Working(ledger) \/ @,
                     !.visits = Joined(@, v.at, m)]
    BY <1>1, <1>4 DEF StartExecution, Note
  <2>2. ledger'.visits = {[v EXCEPT !.members = @ \cup {m}]} /\ KeepsReview
    BY <1>2, <1>4, <2>1 DEF Ledgers, Joined, KeepsReview
  <2>3. v \in Visits
    BY <1>2 DEF Ledgers
  <2>4. [v EXCEPT !.members = @ \cup {m}].leader \in [v EXCEPT !.members = @ \cup {m}].members
    BY <2>3 DEF VisitInv, Visits
  <2> QED
    BY <2>2, <2>4 DEF VisitInv
<1> QED
  BY <1>1, <1>3, <1>4 DEF StartExecution

LEMMA EndKeepsVisits ==
  ASSUME TypeOK, VisitInv, NEW s \in Sessions, NEW m \in Members, EndVisit(s, m)
  PROVE  VisitInv' /\ KeepsReview
<1>1. PICK v : ledger' = [Stopped EXCEPT !.visits = {w \in @ : w.at # v.at}]
  BY DEF EndVisit, Note
<1>2. Stopped \in Ledgers
  BY StoppedTyped
<1>3. /\ ledger'.visits \subseteq ledger.visits /\ ledger'.working = FALSE
      /\ ledger'.review = ledger.review
  BY <1>1, <1>2, StoppedKeeps DEF Ledgers
<1> QED
  BY <1>3 DEF VisitInv, KeepsReview

LEMMA KeptVisits ==
  ASSUME VisitInv, KeepsVisits
  PROVE  VisitInv'
BY DEF VisitInv, KeepsVisits

LEMMA OperationKeepsVisits ==
  ASSUME TypeOK, FreshInv, VisitInv, NEW s \in Sessions, Operation(s)
  PROVE  VisitInv' /\ KeepsReview
BY StartKeepsVisits, EndKeepsVisits, ExecutionKeeps, MaterialsKeep, ReviewKeeps, KeptVisits
   DEF Operation, Execution

LEMMA RouteKeepsVisits ==
  ASSUME TypeOK, Route
  PROVE  KeepsVisits
<1>1. UNCHANGED ledger \/ \E review : ledger' = [ledger EXCEPT !.review = review]
  BY DEF Route, ExternalJob, ReturnExternalRoute, DecideExternalRoute, RouteAction
<1> QED
  BY <1>1 DEF TypeOK, Ledgers, KeepsVisits

LEMMA StepKeepsVisits == TypeOK /\ FreshInv /\ VisitInv /\ [Next]_vars => VisitInv'
<1> SUFFICES ASSUME TypeOK, FreshInv, VisitInv, [Next]_vars PROVE VisitInv'
  OBVIOUS
<1>1. ASSUME NEW s \in Sessions, Operation(s) PROVE VisitInv'
  BY <1>1, OperationKeepsVisits
<1>2. CASE \/ \E s \in Sessions : End(s) \/ \E key \in Keys : Begin(s, key)
           \/ \E n \in DOMAIN needs : Procure(n)
           \/ UNCHANGED vars
  BY <1>2 DEF Begin, End, Procure, vars, VisitInv
<1>3. CASE Route
  BY <1>3, RouteKeepsVisits, KeptVisits
<1> QED
  BY <1>1, <1>2, <1>3 DEF Next, Operation

LEMMA VisitsCorrect == Spec => []VisitInv
<1>1. Init => VisitInv
  BY DEF Init, VisitInv
<1> QED
  BY <1>1, StepKeepsVisits, FreshCorrect, TypeCorrect, PTL DEF Spec

(* One visit is open at most, however many members press start at once: the  *)
(* one whose revision is still current has seen the visit of the other.      *)
THEOREM SingleVisit == Spec => []OneOpenVisit
<1>1. VisitInv => OneOpenVisit
  BY DEF VisitInv, OneOpenVisit, Working
<1> QED
  BY <1>1, VisitsCorrect, PTL

-----------------------------------------------------------------------------
(* The external route.  A step of an external job is under way only where    *)
(* there is a job.                                                           *)
RouteInv == RouteConsistent /\ (ticket.steps # {} => ticket.job # "none")

LEMMA OperationKeepsRoute ==
  ASSUME TypeOK, FreshInv, VisitInv, RouteInv, NEW s \in Sessions, Operation(s)
  PROVE  RouteInv'
<1>1. KeepsReview
  BY OperationKeepsVisits
<1>2. ASSUME NEW m \in Members, NEW result, Submit(s, m, result),
             Finish \/ (stage' \in {"blocked", "external_requested"} /\ UNCHANGED ticket)
      PROVE  RouteInv'
  <2>1. stage \in WorkStages
    BY <1>2 DEF Submit, InWork, Working
  <2>2. ledger'.review # "returned"
    BY <1>1, <2>1 DEF KeepsReview, RouteInv, RouteConsistent, WorkStages
  <2> QED
    BY <1>2, <2>1, <2>2 DEF RouteInv, RouteConsistent, NotLeft, Finish, WorkStages, TypeOK
<1>3. CASE Execution(s)
  <2>1. PICK m \in Members :
      \/ \E resume \in BOOLEAN : StartExecution(s, m, resume)
      \/ EndVisit(s, m)
      \/ "ok" \in Reasons /\ SubmitOk(s, m)
      \/ "fixed" \in Reasons /\ SubmitFixed(s, m)
      \/ \E result \in Reasons : SubmitReferral(s, m, result)
      \/ BeginMaterialNeed(s, m)
      \/ RequestMaterials(s, m)
      \/ \E item \in Items \cup {None}, q \in Quantities : RegisterNeed(s, m, item, q)
    BY <1>3 DEF Execution
  <2>2. CASE \/ EndVisit(s, m) \/ \E resume \in BOOLEAN : StartExecution(s, m, resume)
    BY <1>1, <2>2 DEF EndVisit, StartExecution, KeepsReview, RouteInv, RouteConsistent, NotLeft
  <2>3. CASE SubmitOk(s, m) \/ SubmitFixed(s, m)
    BY <1>2, <2>3 DEF SubmitOk, SubmitFixed
  <2>4. ASSUME NEW result \in Reasons, SubmitReferral(s, m, result) PROVE RouteInv'
    BY <1>2, <2>4 DEF SubmitReferral
  <2>5. CASE \/ BeginMaterialNeed(s, m) \/ RequestMaterials(s, m)
             \/ \E item \in Items \cup {None}, q \in Quantities : RegisterNeed(s, m, item, q)
    <3>1. /\ stage \in {"action_required", "reinstall_required", "waiting_material"}
          /\ stage' \in {"ready_to_repair", "waiting_material"} /\ UNCHANGED ticket
      BY <2>5 DEF BeginMaterialNeed, NeedsMaterial, RequestMaterials, RegisterNeed, Added
    <3> QED
      BY <1>1, <3>1 DEF KeepsReview, RouteInv, RouteConsistent, NotLeft
  <2> QED
    BY <2>1, <2>2, <2>3, <2>4, <2>5
<1>4. CASE Materials(s)
  <2>1. PICK n \in DOMAIN needs :
      \/ \E item \in Items : ResolveMaterial(s, n, item)
      \/ HandOver(s, n) \/ Transfer(s, n) \/ Purchase(s, n)
      \/ ConfirmReturn(s, n)
    BY <1>4 DEF Materials
  <2>2. \/ UNCHANGED <<stage, ticket>>
        \/ stage = "waiting_material" /\ stage' \in {"ready_to_repair", stage} /\ UNCHANGED ticket
    BY <2>1 DEF ResolveMaterial, HandOver, Transfer, Purchase, Supply, ConfirmReturn
  <2> QED
    BY <1>1, <2>2 DEF KeepsReview, RouteInv, RouteConsistent, NotLeft
<1>5. CASE Review(s)
  <2>1. Admitted(s) /\ Seen(s).review # "returned"
    BY <1>5 DEF Review, ReturnToTeam, ApproveExternal, ExternalHandover, ApproveResult, MayReview
  <2>2. ledger'.review # "returned"
    BY <1>1, <2>1, SeenIsLedger DEF KeepsReview
  <2>3. CASE ReturnToTeam(s)
    <3>1. /\ stage # "closed" /\ stage' \notin {"external_in_progress", "reinstall_required"}
          /\ UNCHANGED ticket
      BY <2>3 DEF ReturnToTeam, AfterReturn
    <3> QED
      BY <2>2, <3>1 DEF RouteInv, RouteConsistent, NotLeft
  <2>4. CASE ApproveExternal(s)
    <3>1. /\ stage = "external_requested" /\ stage' = "external_in_progress"
          /\ ticket'.path = "C" /\ ticket'.status = "work_approved"
          /\ ticket'.job = ticket.job /\ ticket'.steps = ticket.steps
      BY <2>4 DEF ApproveExternal, TypeOK
    <3> QED
      BY <2>2, <3>1 DEF RouteInv, RouteConsistent, NotLeft
  <2>5. CASE ExternalHandover(s)
    <3>1. /\ stage = "external_in_progress" /\ stage' = "reinstall_required"
          /\ ticket.job \in {"waiting_technician_handover", "delivered_for_reinstall"}
          /\ ticket'.job = "delivered_for_reinstall"
          /\ ticket'.path = ticket.path /\ ticket'.steps = ticket.steps
      BY <2>5 DEF ExternalHandover, HandOverAsset, TypeOK
    <3> QED
      BY <2>2, <3>1 DEF RouteInv, RouteConsistent, NotLeft
  <2>6. CASE ApproveResult(s)
    <3>1. /\ stage' = "closed" /\ ticket'.steps = ticket.steps
          /\ ticket'.job \in {ticket.job, "ready_for_closure"}
      BY <2>6 DEF ApproveResult, TypeOK
    <3> QED
      BY <2>2, <3>1 DEF RouteInv, RouteConsistent
  <2> QED
    BY <1>5, <2>3, <2>4, <2>5, <2>6 DEF Review
<1> QED
  BY <1>3, <1>4, <1>5 DEF Operation

LEMMA RouteKeepsRoute ==
  ASSUME TypeOK, RouteInv, Route
  PROVE  RouteInv'
<1>t. ticket \in Tickets
  BY DEF TypeOK, Tickets
<1>u. UNCHANGED <<stage, ledger>> /\ ticket'.path = ticket.path /\ ticket.job # "none"
        /\ ticket'.job \notin {"none", "waiting_gate_exit"}
      => RouteInv'
  BY DEF RouteInv, RouteConsistent, NotLeft
<1>1. CASE ExternalJob
  <2>1. UNCHANGED <<stage, ledger>>
    BY <1>1 DEF ExternalJob
  <2>2. CASE PrepareExternalJob
    <3>1. /\ ticket.path = "C" /\ ticket.status = "work_approved" /\ ticket.job = "none"
          /\ ticket'.path = "C" /\ ticket'.status = "work_approved"
          /\ ticket'.job = "waiting_gate_exit"
      BY <1>t, <2>2 DEF PrepareExternalJob, Tickets
    <3> QED
      BY <2>1, <3>1 DEF RouteInv, RouteConsistent, NotLeft
  <2>3. CASE HandOverAsset
    <3>1. /\ ticket.job = "waiting_technician_handover" /\ ticket'.path = ticket.path
          /\ ticket'.job = "delivered_for_reinstall"
      BY <1>t, <2>3 DEF HandOverAsset, Tickets
    <3> QED
      BY <1>u, <2>1, <3>1
  <2>4. ASSUME NEW from \in DOMAIN NextOfJob, BeginJobStep(from) PROVE RouteInv'
    <3>1. /\ ticket.job = from /\ ticket'.job = ticket.job /\ ticket'.path = ticket.path
          /\ ticket'.status = ticket.status
      BY <1>t, <2>4 DEF BeginJobStep, Tickets
    <3>2. from # "none"
      BY StepsOfJob
    <3> QED
      BY <2>1, <3>1, <3>2 DEF RouteInv, RouteConsistent, NotLeft
  <2>5. ASSUME NEW from \in DOMAIN NextOfJob, EndJobStep(from) PROVE RouteInv'
    <3>1. ticket.job # "none"
      BY <2>5 DEF EndJobStep, RouteInv
    <3> QED
      BY <1>t, <1>u, <2>1, <2>5, <3>1, StepEnds
  <2> QED
    BY <1>1, <2>2, <2>3, <2>4, <2>5 DEF ExternalJob
<1>2. CASE ReturnExternalRoute
  <2>1. ledger'.review = "returned"
    BY <1>2 DEF ReturnExternalRoute, RouteAction, TypeOK, Ledgers
  <2> QED
    BY <1>2, <1>t, <2>1 DEF ReturnExternalRoute, Tickets, RouteInv, RouteConsistent
<1>3. ASSUME NEW path \in {"A", "B", "C"}, DecideExternalRoute(path) PROVE RouteInv'
  <2>1. ledger'.review = "decided"
    BY <1>3 DEF DecideExternalRoute, RouteAction, TypeOK, Ledgers
  <2>2. /\ stage' = "external_in_progress" => path = "C"
        /\ stage' # "reinstall_required"
    BY <1>3 DEF DecideExternalRoute
  <2>3. /\ ticket'.path = path /\ ticket'.status = "work_approved" /\ ticket'.job = "none"
        /\ ticket'.steps = ticket.steps /\ ticket.job = "none"
    BY <1>3, <1>t DEF DecideExternalRoute, Tickets
  <2> QED
    BY <2>1, <2>2, <2>3 DEF RouteInv, RouteConsistent
<1> QED
  BY <1>1, <1>2, <1>3 DEF Route

LEMMA StepKeepsRoute ==
  TypeOK /\ FreshInv /\ VisitInv /\ RouteInv /\ [Next]_vars => RouteInv'
<1> SUFFICES ASSUME TypeOK, FreshInv, VisitInv, RouteInv, [Next]_vars
             PROVE  RouteInv'
  OBVIOUS
<1>1. CASE \/ \E s \in Sessions : End(s) \/ \E key \in Keys : Begin(s, key)
           \/ \E n \in DOMAIN needs : Procure(n)
           \/ UNCHANGED vars
  BY <1>1 DEF Begin, End, Procure, vars, RouteInv, RouteConsistent, NotLeft
<1> QED
  BY <1>1, OperationKeepsRoute, RouteKeepsRoute DEF Next, Operation

(* A request that the warehouse returned stays blocked, under inspection and *)
(* without a job until the manager decides its route again; only path C has  *)
(* a job; the item stays approved until its asset leaves, and what is        *)
(* reinstalled has left, however late the gates write what they have read.   *)
THEOREM ReturnedStaysBlocked == Spec => []RouteConsistent
<1>1. Init => RouteInv
  BY DEF Init, RouteInv, RouteConsistent
<1>2. RouteInv => RouteConsistent
  BY DEF RouteInv
<1> QED
  BY <1>1, <1>2, StepKeepsRoute, FreshCorrect, TypeCorrect, VisitsCorrect, PTL DEF Spec

-----------------------------------------------------------------------------
(* Supply.                                                                   *)
Covered(need, route) ==
  /\ need.parts # <<>> => need.item # None
  /\ need.parts # <<>> /\ route # None => need.transferred >= route
  /\ need.transferred <= need.requested

SupplyInv == \A n \in DOMAIN needs : Covered(needs[n], ledger.routes[n])

LEMMA RoutesKept ==
  ASSUME TypeOK, NEW s \in Sessions, Operation(s),
         ~\E n \in DOMAIN needs, item \in Items : ResolveMaterial(s, n, item),
         NEW n \in DOMAIN needs
  PROVE  ledger'.routes[n] = ledger.routes[n]
<1>1. ledger \in Ledgers /\ Stopped \in Ledgers /\ Stopped.routes = ledger.routes
  BY StoppedTyped DEF TypeOK
<1>2. n \in 1..Len(ledger.routes) /\ ledger.routes \in Seq(Nat \cup {None})
  BY <1>1 DEF TypeOK, Ledgers
<1>3. \/ ledger'.routes = ledger.routes
      \/ \E more \in Seq(Nat \cup {None}) : ledger'.routes = ledger.routes \o more
  <2>1. CASE Review(s)
    BY <1>1, <2>1
       DEF Review, ReturnToTeam, ApproveExternal, ExternalHandover, ApproveResult, Note
  <2>2. CASE Materials(s)
    BY <2>2 DEF Materials, HandOver, Transfer, Purchase, Supply, ConfirmReturn, Note
  <2>3. ASSUME NEW m \in Members, RequestMaterials(s, m)
        PROVE  \E more \in Seq(Nat \cup {None}) : ledger'.routes = ledger.routes \o more
    <3>1. PICK k \in 1..(MaxNeeds - Len(needs)) :
            ledger' = [Stopped EXCEPT !.routes = @ \o [i \in 1..k |-> None]]
      BY <2>3 DEF RequestMaterials, Note
    <3>2. k \in Nat
      BY BoundsAssumption DEF TypeOK
    <3>3. [i \in 1..k |-> None] \in [1..k -> Nat \cup {None}]
      OBVIOUS
    <3>4. [i \in 1..k |-> None] \in Seq(Nat \cup {None})
      BY <3>2, <3>3, SeqOf
    <3>5. ledger'.routes = ledger.routes \o [i \in 1..k |-> None]
      BY <1>1, <3>1 DEF Ledgers
    <3> QED
      BY <3>4, <3>5
  <2>4. ASSUME NEW m \in Members, NEW item \in Items \cup {None}, NEW q \in Quantities,
               RegisterNeed(s, m, item, q)
        PROVE  \E more \in Seq(Nat \cup {None}) : ledger'.routes = ledger.routes \o more
    <3>1. PICK shortage \in (IF item = None THEN {q} ELSE 0..q) :
            ledger' = [Stopped EXCEPT !.routes = Append(@, shortage)]
      BY <2>4 DEF RegisterNeed, Note
    <3>2. shortage \in Nat
      BY QuantitiesAssumption
    <3>3. ledger'.routes = Append(ledger.routes, shortage)
      BY <1>1, <3>1 DEF Ledgers
    <3>4. /\ Append(ledger.routes, shortage) = ledger.routes \o <<shortage>>
          /\ <<shortage>> \in Seq(Nat \cup {None})
      BY <1>2, <3>2
    <3> QED
      BY <3>3, <3>4
  <2>5. ASSUME NEW m \in Members,
               \/ \E resume \in BOOLEAN : StartExecution(s, m, resume)
               \/ EndVisit(s, m)
               \/ SubmitOk(s, m) \/ SubmitFixed(s, m)
               \/ \E result \in Reasons : SubmitReferral(s, m, result)
               \/ BeginMaterialNeed(s, m)
        PROVE  ledger'.routes = ledger.routes
    <3>1. CASE EndVisit(s, m) \/ \E resume \in BOOLEAN : StartExecution(s, m, resume)
      <4>1. \/ \E w, x : ledger' = [ledger EXCEPT !.working = w, !.visits = x]
            \/ \E x : ledger' = [Stopped EXCEPT !.visits = x]
        BY <3>1 DEF EndVisit, StartExecution, Note
      <4> QED
        BY <1>1, <4>1 DEF Ledgers
    <3>2. CASE \/ SubmitOk(s, m) \/ SubmitFixed(s, m) \/ BeginMaterialNeed(s, m)
               \/ \E result \in Reasons : SubmitReferral(s, m, result)
      BY <1>1, <3>2 DEF SubmitOk, SubmitFixed, SubmitReferral, Submit, BeginMaterialNeed, Note
    <3> QED
      BY <2>5, <3>1, <3>2
  <2> QED
    BY <2>1, <2>2, <2>3, <2>4, <2>5 DEF Operation, Execution
<1>4. ASSUME NEW more \in Seq(Nat \cup {None}) 
      PROVE  (ledger.routes \o more)[n] = ledger.routes[n]
  BY <1>2, ConcatProperties
<1> QED
  BY <1>3, <1>4

(* Parts are only given, never taken: their attributes change.               *)
LEMMA SamePartsCovered ==
  ASSUME NEW need \in Needs, NEW x \in Needs, NEW route,
         need.parts = <<>> => x.parts = <<>>,
         x.item = need.item, x.transferred = need.transferred, x.requested = need.requested,
         Covered(need, route)
  PROVE  Covered(x, route)
BY DEF Covered

LEMMA UseKeepsCovered ==
  ASSUME NEW need \in Needs, NEW used, NEW route, Covered(need, route)
  PROVE  Covered(Use(need, used), route)
<1>1. CASE need.parts # <<>>
  BY <1>1 DEF Use, Covered, Needs
<1>2. CASE need.parts = <<>>
  <2>1. Use(need, used).parts = <<>>
    BY <1>2 DEF Use, Needs
  <2> QED
    BY <2>1 DEF Use, Covered, Needs
<1> QED
  BY <1>1, <1>2

LEMMA AddedCovered ==
  ASSUME TypeOK, TypeOK', SupplyInv, NEW ns \in Seq(Needs), needs' = needs \o ns,
         NEW routes \in Seq(Nat \cup {None}), Len(routes) = Len(ns),
         ledger'.routes = ledger.routes \o routes,
         \A i \in 1..Len(ns) : Covered(ns[i], routes[i])
  PROVE  SupplyInv'
<1>1. /\ needs \in Seq(Needs) /\ ledger.routes \in Seq(Nat \cup {None})
      /\ Len(ledger.routes) = Len(needs) /\ Len(needs) \in Nat
  BY DEF TypeOK, Ledgers
<1>2. ASSUME NEW n \in DOMAIN needs' PROVE Covered(needs'[n], ledger'.routes[n])
  <2>1. n \in 1..(Len(needs) + Len(ns))
    BY <1>1, ConcatProperties
  <2>2. /\ needs'[n] = IF n <= Len(needs) THEN needs[n] ELSE ns[n - Len(needs)]
        /\ ledger'.routes[n] = IF n <= Len(needs) THEN ledger.routes[n]
                                                  ELSE routes[n - Len(needs)]
    BY <1>1, <2>1, ConcatProperties
  <2>3. CASE n <= Len(needs)
    BY <1>1, <2>1, <2>2, <2>3 DEF SupplyInv
  <2>4. CASE ~(n <= Len(needs))
    <3>1. n - Len(needs) \in 1..Len(ns)
      BY <1>1, <2>1, <2>4
    <3> QED
      BY <2>2, <2>4, <3>1
  <2> QED
    BY <2>3, <2>4
<1> QED
  BY <1>2 DEF SupplyInv

LEMMA OneNeedCovered ==
  ASSUME TypeOK, SupplyInv, NEW n \in DOMAIN needs, NEW x,
         needs' = [needs EXCEPT ![n] = x],
         \A i \in DOMAIN needs : i # n => ledger'.routes[i] = ledger.routes[i],
         Covered(x, ledger'.routes[n])
  PROVE  SupplyInv'
BY DEF SupplyInv, TypeOK

LEMMA RequestCovers ==
  ASSUME TypeOK, TypeOK', SupplyInv, NEW s \in Sessions, NEW m \in Members,
         RequestMaterials(s, m)
  PROVE  SupplyInv'
<1>1. PICK k \in 1..(MaxNeeds - Len(needs)), q \in Quantities :
      \E inputs \in [1..k -> [item : Items \cup {None}, parts : Lots(q) \cup {<<>>}]] :
         /\ \A i \in 1..k : inputs[i].item = None => inputs[i].parts = <<>>
         /\ needs' = needs \o [i \in 1..k |->
                     [Need(inputs[i].item, q, round) EXCEPT !.parts = inputs[i].parts]]
         /\ ledger' = [Stopped EXCEPT !.routes = @ \o [i \in 1..k |-> None]]
  BY DEF RequestMaterials, Added, Note
<1>2. PICK inputs \in [1..k -> [item : Items \cup {None}, parts : Lots(q) \cup {<<>>}]] :
         /\ \A i \in 1..k : inputs[i].item = None => inputs[i].parts = <<>>
         /\ needs' = needs \o [i \in 1..k |->
                     [Need(inputs[i].item, q, round) EXCEPT !.parts = inputs[i].parts]]
         /\ ledger' = [Stopped EXCEPT !.routes = @ \o [i \in 1..k |-> None]]
  BY <1>1
<1> DEFINE new(i) == [Need(inputs[i].item, q, round) EXCEPT !.parts = inputs[i].parts]
           ns == [i \in 1..k |-> new(i)]
           routes == [i \in 1..k |-> None]
<1>3. k \in Nat
  BY BoundsAssumption DEF TypeOK
<1>4. ASSUME NEW i \in 1..k PROVE new(i) \in Needs
  <2>1. inputs[i] \in [item : Items \cup {None}, parts : Lots(q) \cup {<<>>}]
    BY <1>2, <1>4
  <2>2. inputs[i].item \in Items \cup {None} /\ inputs[i].parts \in Lots(q) \cup {<<>>}
    BY <2>1
  <2> QED
    BY <2>2, NewNeedTyped
<1>5. ASSUME NEW i \in 1..k PROVE Covered(new(i), None)
  <2>1. q \in Nat
    BY QuantitiesAssumption
  <2>2. /\ new(i).item = inputs[i].item /\ new(i).parts = inputs[i].parts
        /\ new(i).transferred = 0 /\ new(i).requested = q
    BY DEF Need
  <2> HIDE DEF new
  <2>3. inputs[i].item = None => inputs[i].parts = <<>>
    BY <1>2, <1>5
  <2> QED
    BY <2>1, <2>2, <2>3 DEF Covered
<1> HIDE DEF new
<1>6. ns \in Seq(Needs) /\ Len(ns) = k
  BY <1>3, <1>4, SeqOf
<1>7. routes \in Seq(Nat \cup {None}) /\ Len(routes) = k
  <2>1. \A i \in 1..k : routes[i] \in Nat \cup {None}
    OBVIOUS
  <2> QED
    BY <1>3, <2>1, SeqOf
<1>8. \A i \in 1..Len(ns) : Covered(ns[i], routes[i])
  BY <1>5, <1>6
<1>9. needs' = needs \o ns
  BY <1>2 DEF new
<1>10. ledger'.routes = ledger.routes \o routes
  <2>1. Stopped \in Ledgers /\ Stopped.routes = ledger.routes
    BY StoppedTyped
  <2> QED
    BY <1>2, <2>1 DEF Ledgers
<1> HIDE DEF ns, routes
<1> QED
  BY <1>6, <1>7, <1>8, <1>9, <1>10, AddedCovered

LEMMA RegisterCovers ==
  ASSUME TypeOK, TypeOK', SupplyInv, NEW s \in Sessions, NEW m \in Members,
         NEW item \in Items \cup {None}, NEW q \in Quantities, RegisterNeed(s, m, item, q)
  PROVE  SupplyInv'
<1>1. PICK shortage \in (IF item = None THEN {q} ELSE 0..q) :
      \E parts \in (IF shortage = 0 THEN Lots(q) ELSE {}) \cup {<<>>} :
        /\ needs' = needs \o <<[Need(item, q, round) EXCEPT !.parts = parts]>>
        /\ ledger' = [Stopped EXCEPT !.routes = Append(@, shortage)]
  BY DEF RegisterNeed, Added, Note
<1>2. PICK parts \in (IF shortage = 0 THEN Lots(q) ELSE {}) \cup {<<>>} :
        /\ needs' = needs \o <<[Need(item, q, round) EXCEPT !.parts = parts]>>
        /\ ledger' = [Stopped EXCEPT !.routes = Append(@, shortage)]
  BY <1>1
<1> DEFINE new == [Need(item, q, round) EXCEPT !.parts = parts]
<1>3. q \in Nat \ {0} /\ shortage \in Nat
  BY QuantitiesAssumption
<1>4. new \in Needs
  BY NewNeedTyped
<1>5. Covered(new, shortage)
  <2>1. /\ new.item = item /\ new.parts = parts
        /\ new.transferred = 0 /\ new.requested = q
    BY DEF Need
  <2>2. parts # <<>> => shortage = 0
    OBVIOUS
  <2>3. item = None => shortage = q
    OBVIOUS
  <2> HIDE DEF new
  <2> QED
    BY <1>3, <2>1, <2>2, <2>3 DEF Covered
<1> HIDE DEF new
<1>6. <<new>> \in Seq(Needs) /\ <<shortage>> \in Seq(Nat \cup {None})
  BY <1>3, <1>4
<1>7. ledger'.routes = ledger.routes \o <<shortage>>
  <2>1. Stopped \in Ledgers /\ Stopped.routes = ledger.routes
    BY StoppedTyped
  <2>2. ledger.routes \in Seq(Nat \cup {None})
    BY DEF TypeOK, Ledgers
  <2>3. ledger'.routes = Append(ledger.routes, shortage)
    BY <1>2, <2>1 DEF Ledgers
  <2> QED
    BY <1>3, <2>2, <2>3
<1>8. needs' = needs \o <<new>>
  BY <1>2 DEF new
<1>9. \A i \in 1..Len(<<new>>) : Covered(<<new>>[i], <<shortage>>[i])
  BY <1>5
<1>10. Len(<<shortage>>) = Len(<<new>>)
  OBVIOUS
<1> QED
  BY <1>6, <1>7, <1>8, <1>9, <1>10, AddedCovered

LEMMA FixedCovers ==
  ASSUME TypeOK, SupplyInv, NEW s \in Sessions, NEW m \in Members, SubmitFixed(s, m),
         \A n \in DOMAIN needs : ledger'.routes[n] = ledger.routes[n]
  PROVE  SupplyInv'
<1>1. PICK used : needs' = [n \in DOMAIN needs |->
                    IF n \in Current THEN Use(needs[n], used[n]) ELSE needs[n]]
  BY DEF SubmitFixed
<1>2. ASSUME NEW n \in DOMAIN needs PROVE Covered(needs'[n], ledger'.routes[n])
  <2>1. needs[n] \in Needs /\ Covered(needs[n], ledger.routes[n])
    BY NeedTyped DEF SupplyInv
  <2> QED
    BY <1>1, <2>1, UseKeepsCovered
<1>3. DOMAIN needs' = DOMAIN needs
  BY <1>1
<1> QED
  BY <1>2, <1>3 DEF SupplyInv

LEMMA MaterialsCover ==
  ASSUME TypeOK, FreshInv, SupplyInv, NEW s \in Sessions, Materials(s)
  PROVE  SupplyInv'
<1> PICK n \in DOMAIN needs :
      \/ \E item \in Items : ResolveMaterial(s, n, item)
      \/ HandOver(s, n) \/ Transfer(s, n) \/ Purchase(s, n)
      \/ ConfirmReturn(s, n)
  BY DEF Materials
<1>0. /\ needs[n] \in Needs /\ needs[n].requested \in Nat \ {0}
      /\ Covered(needs[n], ledger.routes[n])
      /\ ledger \in Ledgers /\ ledger.routes \in Seq(Nat \cup {None})
      /\ n \in DOMAIN ledger.routes
      /\ ledger.routes[n] \in Nat \cup {None}
      /\ needs[n].transferred \in Nat
  BY NeedTyped DEF TypeOK, Ledgers, Needs, SupplyInv
<1>1. ASSUME NEW item \in Items, ResolveMaterial(s, n, item) PROVE SupplyInv'
  <2>1. PICK fits \in BOOLEAN, shortage \in 0..needs[n].requested :
          /\ needs' = [needs EXCEPT ![n] = [@ EXCEPT !.item = item, !.fits = fits]]
          /\ ledger' = [ledger EXCEPT !.routes[n] =
                          IF Seen(s).routes[n] = None THEN None ELSE shortage]
    BY <1>1 DEF ResolveMaterial, Note
  <2>2. needs[n].parts = <<>>
    BY <1>0, <1>1 DEF ResolveMaterial, Covered
  <2> DEFINE x == [needs[n] EXCEPT !.item = item, !.fits = fits]
  <2>3. Covered(x, ledger'.routes[n])
    BY <1>0, <2>2 DEF Covered, Needs
  <2>4. \A i \in DOMAIN needs : i # n => ledger'.routes[i] = ledger.routes[i]
    BY <1>0, <2>1 DEF Ledgers, TypeOK
  <2> QED
    BY <2>1, <2>3, <2>4, OneNeedCovered
<1>2. CASE HandOver(s, n)
  <2>1. PICK parts \in Lots(needs[n].requested) :
          needs' = [needs EXCEPT ![n] = [@ EXCEPT !.parts = parts]]
    BY <1>2 DEF HandOver
  <2>2. ledger' = ledger /\ needs[n].item # None /\ SupplyRemaining(Seen(s), n) = 0
        /\ Admitted(s)
    BY <1>2 DEF HandOver, Note
  <2>3. SupplyRemaining(ledger, n) = 0
    BY <2>2, SeenIsLedger
  <2>4. ledger.routes[n] # None => needs[n].transferred >= ledger.routes[n]
    BY <1>0, <2>3 DEF SupplyRemaining
  <2>5. Covered([needs[n] EXCEPT !.parts = parts], ledger'.routes[n])
    BY <1>0, <2>2, <2>4 DEF Covered, Needs
  <2> QED
    BY <2>1, <2>2, <2>5, OneNeedCovered
<1>3. CASE Transfer(s, n)
  <2>1. PICK q \in 1..needs[n].requested :
          needs' = [needs EXCEPT ![n] =
                      [@ EXCEPT !.transferred = Min({needs[n].requested, needs[n].transferred + q})]]
    BY <1>3 DEF Transfer
  <2> DEFINE sum == Min({needs[n].requested, needs[n].transferred + q})
             x == [needs[n] EXCEPT !.transferred = sum]
  <2>2. sum \in Nat /\ sum <= needs[n].requested /\ sum >= needs[n].transferred
    BY <1>0, MinOfTwo DEF Covered
  <2>3. ledger' = ledger
    BY <1>3 DEF Transfer, Supply, Note
  <2>4. needs' = [needs EXCEPT ![n] = x]
    BY <2>1
  <2> HIDE DEF sum
  <2>5. Covered(x, ledger'.routes[n])
    BY <1>0, <2>2, <2>3 DEF Covered, Needs
  <2> HIDE DEF x
  <2> QED
    BY <2>3, <2>4, <2>5, OneNeedCovered
<1>4. CASE Purchase(s, n)
  <2>1. PICK ordered : needs' = [needs EXCEPT ![n] = [@ EXCEPT !.ordered = ordered]]
    BY <1>4 DEF Purchase
  <2>2. ledger' = ledger
    BY <1>4 DEF Purchase, Supply, Note
  <2>3. Covered([needs[n] EXCEPT !.ordered = ordered], ledger'.routes[n])
    BY <1>0, <2>2 DEF Covered, Needs
  <2> QED
    BY <2>1, <2>2, <2>3, OneNeedCovered
<1>5. CASE ConfirmReturn(s, n)
  <2>1. PICK back \in [DOMAIN needs[n].parts -> 0..needs[n].requested] :
          needs' = [needs EXCEPT ![n] = GiveBack(@, back)]
    BY <1>5 DEF ConfirmReturn
  <2> DEFINE x == GiveBack(needs[n], back)
  <2>2. ledger' = ledger
    BY <1>5 DEF ConfirmReturn, Note
  <2>3. x \in Needs
    BY <1>0, GiveBackTyped
  <2>4. /\ x.item = needs[n].item /\ x.transferred = needs[n].transferred
        /\ x.requested = needs[n].requested
        /\ needs[n].parts = <<>> => x.parts = <<>>
    <3>1. x = [needs[n] EXCEPT !.parts = x.parts]
      BY <1>0 DEF GiveBack, Needs
    <3>2. CASE needs[n].parts = <<>>
      BY <1>0, <3>2 DEF GiveBack, Needs
    <3> HIDE DEF x
    <3> QED
      BY <1>0, <3>1, <3>2 DEF Needs
  <2>5. needs' = [needs EXCEPT ![n] = x]
    BY <2>1
  <2> HIDE DEF x
  <2>6. Covered(x, ledger'.routes[n])
    BY <1>0, <2>2, <2>3, <2>4, SamePartsCovered
  <2> QED
    BY <2>2, <2>5, <2>6, OneNeedCovered
<1> QED
  BY <1>1, <1>2, <1>3, <1>4, <1>5

LEMMA OperationCovers ==
  ASSUME TypeOK, TypeOK', FreshInv, SupplyInv, NEW s \in Sessions, Operation(s)
  PROVE  SupplyInv'
<1>1. CASE Materials(s)
  BY <1>1, MaterialsCover
<1>2. ASSUME NEW m \in Members, RequestMaterials(s, m) PROVE SupplyInv'
  BY <1>2, RequestCovers
<1>3. ASSUME NEW m \in Members, NEW item \in Items \cup {None}, NEW q \in Quantities,
             RegisterNeed(s, m, item, q)
      PROVE  SupplyInv'
  BY <1>3, RegisterCovers
<1>4. ASSUME ~\E n \in DOMAIN needs, item \in Items : ResolveMaterial(s, n, item),
             NEW n \in DOMAIN needs
      PROVE  ledger'.routes[n] = ledger.routes[n]
  BY <1>4, RoutesKept
<1>5. ASSUME NEW m \in Members, SubmitFixed(s, m), ~Materials(s) PROVE SupplyInv'
  <2>1. ~\E n \in DOMAIN needs, item \in Items : ResolveMaterial(s, n, item)
    BY <1>5 DEF Materials
  <2> QED
    BY <1>4, <1>5, <2>1, FixedCovers
<1>6. CASE UNCHANGED needs /\ ~Materials(s)
  <2>1. ~\E n \in DOMAIN needs, item \in Items : ResolveMaterial(s, n, item)
    BY <1>6 DEF Materials
  <2> QED
    BY <1>4, <1>6, <2>1 DEF SupplyInv
<1>7. CASE Review(s)
  BY <1>1, <1>6, <1>7 DEF Review, ReturnToTeam, ApproveExternal, ExternalHandover, ApproveResult
<1>8. ASSUME NEW m \in Members,
             \/ \E resume \in BOOLEAN : StartExecution(s, m, resume)
             \/ EndVisit(s, m)
             \/ SubmitOk(s, m)
             \/ \E result \in Reasons : SubmitReferral(s, m, result)
             \/ BeginMaterialNeed(s, m)
      PROVE  SupplyInv'
  <2>1. UNCHANGED needs
    BY <1>8 DEF StartExecution, EndVisit, SubmitOk, SubmitReferral, BeginMaterialNeed
  <2> QED
    BY <1>1, <1>6, <2>1
<1> QED
  BY <1>1, <1>2, <1>3, <1>5, <1>7, <1>8 DEF Operation, Execution

LEMMA StepKeepsSupply ==
  TypeOK /\ TypeOK' /\ FreshInv /\ SupplyInv /\ [Next]_vars => SupplyInv'
<1> SUFFICES ASSUME TypeOK, TypeOK', FreshInv, SupplyInv, [Next]_vars PROVE SupplyInv'
  OBVIOUS
<1>1. CASE \/ \E s \in Sessions : End(s) \/ \E key \in Keys : Begin(s, key)
           \/ ExternalJob
           \/ UNCHANGED vars
  BY <1>1 DEF Begin, End, ExternalJob, vars, SupplyInv
<1>2. ASSUME NEW review, RouteAction(review) PROVE SupplyInv'
  <2>1. ledger'.routes = ledger.routes /\ needs' = needs
    BY <1>2 DEF RouteAction, TypeOK, Ledgers
  <2> QED
    BY <2>1 DEF SupplyInv
<1>3. ASSUME NEW n \in DOMAIN needs, Procure(n) PROVE SupplyInv'
  <2>1. /\ needs' = [needs EXCEPT ![n] = [@ EXCEPT !.ordered = 0]] /\ ledger' = ledger
        /\ needs[n] \in Needs /\ Covered(needs[n], ledger.routes[n])
    BY <1>3, NeedTyped DEF Procure, SupplyInv
  <2>2. Covered([needs[n] EXCEPT !.ordered = 0], ledger'.routes[n])
    BY <2>1 DEF Covered, Needs
  <2> QED
    BY <2>1, <2>2, OneNeedCovered
<1>4. CASE Route
  BY <1>1, <1>2, <1>4 DEF Route, ReturnExternalRoute, DecideExternalRoute
<1> QED
  BY <1>1, <1>3, <1>4, OperationCovers DEF Next, Operation

LEMMA SupplyCorrect == Spec => []SupplyInv
<1>1. Init => SupplyInv
  <2> SUFFICES ASSUME Init PROVE SupplyInv
    OBVIOUS
  <2>1. \A n \in DOMAIN needs : needs[n].parts = <<>> /\ needs[n].transferred = 0
                                /\ needs[n].requested \in Nat
    <3>1. CASE needs = <<>>
      BY <3>1
    <3>2. CASE \E i \in Items \cup {None}, q \in Quantities : needs = <<Need(i, q, 1)>>
      BY <3>2, QuantitiesAssumption DEF Need
    <3> QED
      BY <3>1, <3>2 DEF Init
  <2> QED
    BY <2>1 DEF SupplyInv, Covered
<1> QED
  BY <1>1, StepKeepsSupply, FreshCorrect, TypeCorrect, PTL DEF Spec

(* Nothing is handed over for a need before the shortage that was recorded   *)
(* for it has been transferred: materialSupplyRemaining is read in a fresh   *)
(* ledger, and what is transferred only grows.                               *)
THEOREM SupplyCovers == Spec => []TransferCoversShortage
<1>1. SupplyInv => TransferCoversShortage
  BY DEF SupplyInv, Covered, TransferCoversShortage
<1> QED
  BY <1>1, SupplyCorrect, PTL

-----------------------------------------------------------------------------
(* The materials of a need.  Its life has three phases: nothing is declared; *)
(* more was handed over than used, and the rest is owed to the warehouse; or *)
(* all of it is used or returned, and each lot's consumption is known.       *)
NothingKnown(need) == \A p \in DOMAIN need.parts : need.parts[p].used = None

Unused(need) == need.used = None /\ Returned(need) = 0 /\ NothingKnown(need)

Owed(need) ==
  /\ need.used \in Nat /\ need.parts # <<>>
  /\ need.used + Returned(need) < Issued(need) /\ NothingKnown(need)

Settled(need) ==
  /\ need.used \in Nat /\ need.parts # <<>>
  /\ need.used + Returned(need) = Issued(need)
  /\ \A p \in DOMAIN need.parts : need.parts[p].used \in Int
  /\ TotalOf(need.parts, "used") = need.used

Sound(need) ==
  /\ need.parts = <<>> \/ Issued(need) = need.requested
  /\ Unused(need) \/ Owed(need) \/ Settled(need)

(* Each column of the parts is summable, and its sum as the model takes it.  *)
LEMMA ColumnTotals ==
  ASSUME NEW parts \in Seq(Parts)
  PROVE  /\ TotalOf(parts, "quantity") \in Nat /\ TotalOf(parts, "returned") \in Nat
         /\ Summable([p \in DOMAIN parts |-> parts[p].quantity], Len(parts))
         /\ Summable([p \in DOMAIN parts |-> parts[p].returned], Len(parts))
<1> DEFINE f == [p \in DOMAIN parts |-> parts[p].quantity]
           g == [p \in DOMAIN parts |-> parts[p].returned]
<1>1. DOMAIN parts = 1..Len(parts) /\ Len(parts) \in Nat
  OBVIOUS
<1>2. ASSUME NEW p \in 1..Len(parts) PROVE f[p] \in Nat /\ g[p] \in Nat
  <2>1. parts[p] \in Parts /\ p \in DOMAIN parts
    BY <1>1, <1>2
  <2> QED
    BY <2>1 DEF Parts
<1>3. TotalOf(parts, "quantity") = Total(f, Len(parts))
      /\ TotalOf(parts, "returned") = Total(g, Len(parts))
  BY DEF TotalOf
<1> HIDE DEF f, g
<1>4. Summable(f, Len(parts)) /\ Summable(g, Len(parts))
  BY <1>2 DEF Summable
<1>5. Total(f, Len(parts)) \in Nat /\ Total(g, Len(parts)) \in Nat
  BY <1>1, <1>2, TotalNat
<1> QED
  BY <1>3, <1>4, <1>5 DEF f, g

LEMMA IssuedTyped ==
  ASSUME NEW need \in Needs
  PROVE  /\ Issued(need) \in Nat /\ Returned(need) \in Nat
         /\ need.parts = <<>> => Issued(need) = 0 /\ Returned(need) = 0
<1>1. need.parts \in Seq(Parts)
  BY DEF Needs
<1>2. ASSUME NEW field PROVE TotalOf(<<>>, field) = 0
  <2>1. Len(<<>>) = 0
    OBVIOUS
  <2> QED
    BY <2>1, TotalOfNothing DEF TotalOf
<1> QED
  BY <1>1, <1>2, ColumnTotals DEF Issued, Returned

LEMMA OnlyOne ==
  ASSUME NEW f, f[1] \in Int
  PROVE  Total(f, 1) = f[1]
<1>1. Summable(f, 0 + 1)
  BY DEF Summable
<1>2. Total(f, 0 + 1) = Total(f, 0) + f[0 + 1]
  BY <1>1, TotalOfNext
<1> QED
  BY <1>2, TotalOfNothing

LEMMA OnlyTwo ==
  ASSUME NEW f, f[1] \in Int, f[2] \in Int
  PROVE  Total(f, 2) = f[1] + f[2]
<1>1. Summable(f, 1 + 1)
  BY DEF Summable
<1>2. Total(f, 1 + 1) = Total(f, 1) + f[1 + 1]
  BY <1>1, TotalOfNext
<1> QED
  BY <1>2, OnlyOne

(* However the warehouse splits a quantity over lots, it hands over all.     *)
LEMMA LotsTotals ==
  ASSUME NEW q \in Nat \ {0}, NEW parts \in Lots(q)
  PROVE  /\ TotalOf(parts, "quantity") = q /\ TotalOf(parts, "returned") = 0
         /\ \A p \in DOMAIN parts : parts[p].used = None
<1> DEFINE Part(n) == [quantity |-> n, returned |-> 0, used |-> None]
<1>1. \/ parts = <<Part(q)>>
      \/ \E n \in {q - 1} \ {0} : parts = <<Part(1), Part(n)>>
  BY DEF Lots
<1>2. CASE parts = <<Part(q)>>
  <2> DEFINE f == [p \in DOMAIN parts |-> parts[p].quantity]
             g == [p \in DOMAIN parts |-> parts[p].returned]
  <2>1. Len(parts) = 1 /\ DOMAIN parts = {1} /\ f[1] = q /\ g[1] = 0
        /\ \A p \in DOMAIN parts : parts[p].used = None
    BY <1>2
  <2>2. TotalOf(parts, "quantity") = Total(f, 1) /\ TotalOf(parts, "returned") = Total(g, 1)
    BY <2>1 DEF TotalOf
  <2> HIDE DEF f, g
  <2> QED
    BY <2>1, <2>2, OnlyOne
<1>3. ASSUME NEW n \in {q - 1} \ {0}, parts = <<Part(1), Part(n)>>
      PROVE  /\ TotalOf(parts, "quantity") = q /\ TotalOf(parts, "returned") = 0
             /\ \A p \in DOMAIN parts : parts[p].used = None
  <2> DEFINE f == [p \in DOMAIN parts |-> parts[p].quantity]
             g == [p \in DOMAIN parts |-> parts[p].returned]
  <2>1. Len(parts) = 2 /\ DOMAIN parts = {1, 2} /\ f[1] = 1 /\ f[2] = n
        /\ g[1] = 0 /\ g[2] = 0 /\ \A p \in DOMAIN parts : parts[p].used = None
    BY <1>3
  <2>2. TotalOf(parts, "quantity") = Total(f, 2) /\ TotalOf(parts, "returned") = Total(g, 2)
    BY <2>1 DEF TotalOf
  <2>3. n \in Int /\ 1 + n = q
    OBVIOUS
  <2> HIDE DEF f, g
  <2> QED
    BY <2>1, <2>2, <2>3, OnlyTwo
<1> QED
  BY <1>1, <1>2, <1>3

LEMMA HandedOverSound ==
  ASSUME NEW need \in Needs, NEW x \in Needs, need.used = None,
         x.used = None, x.requested \in Nat \ {0}, x.parts \in Lots(x.requested) \cup {<<>>}
  PROVE  Sound(x)
<1>1. CASE x.parts = <<>>
  BY <1>1, IssuedTyped DEF Sound, Unused, NothingKnown
<1>2. CASE x.parts \in Lots(x.requested)
  BY <1>2, LotsTotals DEF Sound, Unused, NothingKnown, Issued, Returned
<1> QED
  BY <1>1, <1>2

(* Sound depends on no more than these fields.                               *)
LEMMA SameStockSound ==
  ASSUME NEW need \in Needs, NEW x \in Needs, Sound(need),
         x.parts = need.parts, x.used = need.used, x.requested = need.requested
  PROVE  Sound(x) /\ Issued(x) = Issued(need)
BY DEF Sound, Unused, Owed, Settled, NothingKnown, Issued, Returned

(* The technician declares what was used: the rest is owed, or there is none.*)
LEMMA UseSound ==
  ASSUME NEW need \in Needs, Sound(need), Unused(need), need.parts # <<>>,
         NEW used \in Nat, used <= Issued(need) - Returned(need)
  PROVE  Sound(Use(need, used)) /\ Issued(Use(need, used)) = Issued(need)
<1> DEFINE n == [need EXCEPT !.used = used]
           parts == [p \in DOMAIN n.parts |->
                       [n.parts[p] EXCEPT !.used = n.parts[p].quantity - n.parts[p].returned]]
           x == [n EXCEPT !.parts = parts]
<1>1. n \in Needs /\ n.parts = need.parts /\ n.used = used /\ n.requested = need.requested
      /\ need.parts \in Seq(Parts)
  BY DEF Needs
<1>2. Issued(n) = Issued(need) /\ Returned(n) = Returned(need)
  BY <1>1 DEF Issued, Returned
<1>3. Use(need, used) = IF RemainingReturn(n) # 0 THEN n ELSE x
  BY DEF Use
<1>4. RemainingReturn(n) = Issued(need) - used - Returned(need)
  BY <1>1, <1>2, QuantitiesAssumption DEF RemainingReturn
<1>5. Issued(need) \in Nat /\ Returned(need) \in Nat
  BY IssuedTyped
<1>6. CASE RemainingReturn(n) # 0
  <2>1. NothingKnown(n)
    BY <1>1 DEF Unused, NothingKnown
  <2>2. used + Returned(need) < Issued(need)
    BY <1>4, <1>5, <1>6
  <2>3. Owed(n)
    BY <1>1, <1>2, <2>1, <2>2 DEF Owed
  <2>4. n.parts = <<>> \/ Issued(n) = n.requested
    BY <1>1, <1>2 DEF Sound
  <2> QED
    BY <1>2, <1>3, <1>6, <2>3, <2>4 DEF Sound
<1>7. CASE RemainingReturn(n) = 0
  <2>0. DOMAIN need.parts = 1..Len(need.parts) /\ Len(need.parts) \in Nat
    BY <1>1
  <2>1. x.parts = parts /\ x.used = used /\ x.requested = need.requested
    BY <1>1 DEF Needs
  <2>2. ASSUME NEW p \in DOMAIN need.parts
        PROVE  /\ parts[p].quantity = need.parts[p].quantity
               /\ parts[p].returned = need.parts[p].returned
               /\ parts[p].used = need.parts[p].quantity - need.parts[p].returned
               /\ need.parts[p] \in Parts
    <3>1. need.parts[p] \in Parts /\ n.parts[p] = need.parts[p]
      BY <1>1, <2>2
    <3>2. parts[p] = [n.parts[p] EXCEPT !.used = n.parts[p].quantity - n.parts[p].returned]
      BY <1>1, <2>2
    <3> QED
      BY <3>1, <3>2 DEF Parts
  <2>3. DOMAIN parts = DOMAIN need.parts /\ Len(parts) = Len(need.parts) /\ parts # <<>>
    <3>1. DOMAIN parts = 1..Len(need.parts)
      BY <1>1, <2>0
    <3>2. parts \in Seq(Parts)
      <4>1. x \in Needs
        BY <1>3, <1>7, UseTyped
      <4> HIDE DEF x
      <4> QED
        BY <2>1, <4>1 DEF Needs
    <3>3. Len(need.parts) # 0
      BY <1>1
    <3> QED
      BY <2>0, <3>1, <3>2, <3>3
  <2> HIDE DEF parts
  <2> DEFINE f == [p \in DOMAIN need.parts |-> need.parts[p].quantity]
             g == [p \in DOMAIN need.parts |-> need.parts[p].returned]
             h == [p \in DOMAIN need.parts |-> parts[p].used]
  <2>4. Issued(x) = Issued(need) /\ Returned(x) = Returned(need)
    <3>1. [p \in DOMAIN parts |-> parts[p].quantity] = f
      BY <2>2, <2>3
    <3>2. [p \in DOMAIN parts |-> parts[p].returned] = g
      BY <2>2, <2>3
    <3>3. TotalOf(parts, "quantity") = TotalOf(need.parts, "quantity")
          /\ TotalOf(parts, "returned") = TotalOf(need.parts, "returned")
      BY <2>3, <3>1, <3>2 DEF TotalOf
    <3> HIDE DEF x
    <3> QED
      BY <2>1, <3>3 DEF Issued, Returned
  <2>5. TotalOf(parts, "used") = Issued(need) - Returned(need)
    <3>1. Issued(need) = Total(f, Len(need.parts)) /\ Returned(need) = Total(g, Len(need.parts))
          /\ TotalOf(parts, "used") = Total(h, Len(need.parts))
      BY <2>3 DEF Issued, Returned, TotalOf
    <3>2. Summable(f, Len(need.parts)) /\ Summable(g, Len(need.parts))
      BY <1>1, ColumnTotals
    <3>3. \A p \in 1..Len(need.parts) : h[p] \in Int /\ f[p] = h[p] + g[p]
      BY <2>0, <2>2 DEF Parts
    <3>4. Summable(h, Len(need.parts))
      BY <3>3 DEF Summable
    <3> HIDE DEF f, g, h
    <3>5. Total(f, Len(need.parts)) = Total(h, Len(need.parts)) + Total(g, Len(need.parts))
      BY <2>0, <3>2, <3>3, <3>4, TotalAdds
    <3>6. Total(h, Len(need.parts)) \in Int
      BY <2>0, <3>4, TotalInt
    <3> QED
      BY <1>5, <3>1, <3>5, <3>6
  <2>6. \A p \in DOMAIN parts : parts[p].used \in Int
    BY <2>2, <2>3 DEF Parts
  <2>7. Settled(x)
    <3>1. used + Returned(need) = Issued(need) /\ Issued(need) - Returned(need) = used
      BY <1>4, <1>5, <1>7
    <3> HIDE DEF x
    <3> QED
      BY <2>1, <2>3, <2>4, <2>5, <2>6, <3>1 DEF Settled
  <2>8. Issued(x) = x.requested
    BY <2>1, <2>4 DEF Sound
  <2> HIDE DEF x
  <2> QED
    BY <1>3, <1>7, <2>4, <2>7, <2>8 DEF Sound
<1> QED
  BY <1>6, <1>7
(* The warehouse confirms the return of all that is owed.                    *)
LEMMA GiveBackSound ==
  ASSUME NEW need \in Needs, Sound(need), Owed(need), need.requested \in Nat,
         NEW back \in [DOMAIN need.parts -> 0..need.requested],
         Total(back, Len(need.parts)) = RemainingReturn(need)
  PROVE  Sound(GiveBack(need, back)) /\ Issued(GiveBack(need, back)) = Issued(need)
<1> DEFINE parts == [p \in DOMAIN need.parts |->
              [need.parts[p] EXCEPT
                 !.returned = need.parts[p].returned + back[p],
                 !.used = need.parts[p].quantity - need.parts[p].returned - back[p]]]
           x == GiveBack(need, back)
           f == [p \in DOMAIN need.parts |-> need.parts[p].quantity]
           g == [p \in DOMAIN need.parts |-> need.parts[p].returned]
           r == [p \in DOMAIN need.parts |-> parts[p].returned]
           h == [p \in DOMAIN need.parts |-> parts[p].used]
           m == Len(need.parts)
<1>1. need.parts \in Seq(Parts) /\ DOMAIN need.parts = 1..m /\ m \in Nat
  BY DEF Needs
<1>2. x \in Needs
  BY GiveBackTyped
<1>3. x.parts = parts /\ x.used = need.used /\ x.requested = need.requested
  BY DEF GiveBack, Needs
<1>4. parts \in Seq(Parts)
  <2> HIDE DEF x, parts
  <2> QED
    BY <1>2, <1>3 DEF Needs
<1>5. ASSUME NEW p \in DOMAIN need.parts
      PROVE  /\ parts[p].quantity = need.parts[p].quantity
             /\ parts[p].returned = need.parts[p].returned + back[p]
             /\ parts[p].used = need.parts[p].quantity - need.parts[p].returned - back[p]
             /\ need.parts[p] \in Parts /\ back[p] \in Nat
  <2>1. need.parts[p] \in Parts /\ back[p] \in Nat
    BY <1>1, <1>5
  <2>2. parts[p] = [need.parts[p] EXCEPT
           !.returned = need.parts[p].returned + back[p],
           !.used = need.parts[p].quantity - need.parts[p].returned - back[p]]
    BY <1>5
  <2> HIDE DEF parts
  <2> QED
    BY <2>1, <2>2 DEF Parts
<1>6. DOMAIN parts = DOMAIN need.parts /\ Len(parts) = m /\ parts # <<>>
  <2>1. DOMAIN parts = 1..m
    BY <1>1
  <2>2. m # 0
    BY <1>1 DEF Owed
  <2> HIDE DEF parts, m
  <2> QED
    BY <1>1, <1>4, <2>1, <2>2
<1> HIDE DEF parts, x
<1>7. Issued(x) = Issued(need) /\ Returned(x) = Total(r, m) /\ Returned(need) = Total(g, m)
      /\ Issued(need) = Total(f, m) /\ TotalOf(x.parts, "used") = Total(h, m)
  <2>1. [p \in DOMAIN parts |-> parts[p].quantity] = f
        /\ [p \in DOMAIN parts |-> parts[p].returned] = r
        /\ [p \in DOMAIN parts |-> parts[p].used] = h
    BY <1>5, <1>6
  <2> QED
    BY <1>3, <1>6, <2>1 DEF Issued, Returned, TotalOf
<1>8. \A p \in 1..m : /\ f[p] \in Int /\ g[p] \in Int /\ back[p] \in Int
                      /\ r[p] = g[p] + back[p] /\ f[p] = h[p] + r[p]
                      /\ r[p] \in Int /\ h[p] \in Int
  <2> SUFFICES ASSUME NEW p \in DOMAIN need.parts
               PROVE  /\ f[p] \in Int /\ g[p] \in Int /\ back[p] \in Int
                      /\ r[p] = g[p] + back[p] /\ f[p] = h[p] + r[p]
                      /\ r[p] \in Int /\ h[p] \in Int
    BY <1>1
  <2>1. need.parts[p].quantity \in Nat /\ need.parts[p].returned \in Nat /\ back[p] \in Nat
    BY <1>5 DEF Parts
  <2>2. f[p] = need.parts[p].quantity /\ g[p] = need.parts[p].returned
        /\ r[p] = need.parts[p].returned + back[p]
        /\ h[p] = need.parts[p].quantity - need.parts[p].returned - back[p]
    BY <1>5
  <2> HIDE DEF f, g, r, h
  <2> QED
    BY <2>1, <2>2
<1>9. \A p \in DOMAIN parts : parts[p].used \in Int
  BY <1>5, <1>6 DEF Parts
<1> HIDE DEF f, g, r, h, m
<1>10. /\ Summable(f, m) /\ Summable(g, m) /\ Summable(back, m)
       /\ Summable(r, m) /\ Summable(h, m)
  BY <1>8 DEF Summable
<1>11. Total(r, m) = Total(g, m) + Total(back, m)
  BY <1>1, <1>8, <1>10, TotalAdds
<1>12. Total(f, m) = Total(h, m) + Total(r, m)
  BY <1>1, <1>8, <1>10, TotalAdds
<1>13. RemainingReturn(need) = Issued(need) - need.used - Returned(need)
  BY QuantitiesAssumption DEF RemainingReturn, Owed
<1>14. Issued(need) \in Nat /\ Returned(need) \in Nat /\ Total(h, m) \in Int
  BY <1>1, <1>10, IssuedTyped, TotalInt
<1>15. Settled(x)
  <2>1. need.used \in Nat /\ Total(back, m) = RemainingReturn(need)
    BY DEF Owed, m
  <2>2. Returned(x) = Issued(need) - need.used
    BY <1>7, <1>11, <1>13, <1>14, <2>1
  <2>3. Total(h, m) = need.used
    BY <1>7, <1>12, <1>14, <2>1, <2>2
  <2> QED
    BY <1>3, <1>6, <1>7, <1>9, <1>14, <2>1, <2>2, <2>3 DEF Settled
<1>16. Issued(x) = x.requested
  BY <1>3, <1>7 DEF Sound, Owed
<1>17. Sound(x)
  BY <1>15, <1>16 DEF Sound
<1> QED
  BY <1>7, <1>17 DEF x

(* A return leaves what was handed over as it was.                           *)
LEMMA GiveBackIssues ==
  ASSUME NEW need \in Needs, need.requested \in Nat,
         NEW back \in [DOMAIN need.parts -> 0..need.requested]
  PROVE  Issued(GiveBack(need, back)) = Issued(need)
<1> DEFINE parts == [p \in DOMAIN need.parts |->
              [need.parts[p] EXCEPT
                 !.returned = need.parts[p].returned + back[p],
                 !.used = need.parts[p].quantity - need.parts[p].returned - back[p]]]
<1>1. need.parts \in Seq(Parts) /\ DOMAIN need.parts = 1..Len(need.parts)
      /\ Len(need.parts) \in Nat
  BY DEF Needs
<1>2. GiveBack(need, back).parts = parts /\ parts \in Seq(Parts)
  <2>1. GiveBack(need, back) \in Needs /\ GiveBack(need, back).parts = parts
    BY GiveBackTyped DEF GiveBack, Needs
  <2> HIDE DEF parts
  <2> QED
    BY <2>1 DEF Needs
<1>3. DOMAIN parts = DOMAIN need.parts
      /\ \A p \in DOMAIN need.parts : parts[p].quantity = need.parts[p].quantity
  <2>1. \A p \in DOMAIN need.parts : need.parts[p] \in Parts
    BY <1>1
  <2> QED
    BY <2>1 DEF Parts
<1> HIDE DEF parts
<1>4. Len(parts) = Len(need.parts)
  BY <1>1, <1>2, <1>3
<1>5. [p \in DOMAIN parts |-> parts[p].quantity]
        = [p \in DOMAIN need.parts |-> need.parts[p].quantity]
  BY <1>3
<1> QED
  BY <1>2, <1>4, <1>5 DEF Issued, TotalOf

(* Whatever its phase, a sound need is accounted for.                        *)
LEMMA SoundAccounted ==
  ASSUME NEW need \in Needs, Sound(need), need.requested \in Nat
  PROVE  Accounted(need)
<1> DEFINE known == {p \in DOMAIN need.parts : need.parts[p].used # None}
<1>1. Issued(need) \in Nat /\ Returned(need) \in Nat
      /\ (need.parts = <<>> => Issued(need) = 0 /\ Returned(need) = 0)
  BY IssuedTyped
<1>2. Issued(need) \in {0, need.requested}
  BY <1>1 DEF Sound
<1>3. need.parts \in Seq(Parts) /\ (need.parts # <<>> => DOMAIN need.parts # {})
  <2>1. need.parts \in Seq(Parts)
    BY DEF Needs
  <2>2. need.parts # <<>> => 1 \in DOMAIN need.parts
    BY <2>1
  <2> QED
    BY <2>1, <2>2
<1>4. CASE Unused(need)
  <2>1. known = {} /\ need.used = None
    BY <1>4 DEF Unused, NothingKnown
  <2> QED
    BY <1>2, <2>1 DEF Accounted
<1>5. CASE Owed(need)
  <2>1. known = {} /\ need.used \in Nat /\ need.used # None
    BY <1>5, QuantitiesAssumption DEF Owed, NothingKnown
  <2>2. RemainingReturn(need) # 0 /\ need.used + Returned(need) <= Issued(need)
    BY <1>1, <1>5, <2>1 DEF Owed, RemainingReturn
  <2> QED
    BY <1>2, <2>1, <2>2 DEF Accounted
<1>6. CASE Settled(need)
  <2>1. known = DOMAIN need.parts /\ known # {} /\ need.used \in Nat /\ need.used # None
    BY <1>3, <1>6, QuantitiesAssumption DEF Settled
  <2>2. RemainingReturn(need) = 0 /\ need.used + Returned(need) <= Issued(need)
    BY <1>1, <1>6, <2>1 DEF Settled, RemainingReturn
  <2>3. TotalOf(need.parts, "used") = need.used /\ need.parts # <<>>
    BY <1>6 DEF Settled
  <2> QED
    BY <1>2, <2>1, <2>2, <2>3 DEF Accounted
<1> QED
  BY <1>4, <1>5, <1>6 DEF Sound
-----------------------------------------------------------------------------
(* Every need is sound, and those of the round are unused until the repair is *)
(* finished; what comes after that is another round.                          *)
Finished == {"awaiting_review", "closed"}

UseInv ==
  /\ \A n \in DOMAIN needs : Sound(needs[n]) /\ needs[n].round <= round
  /\ stage \notin Finished => \A n \in Current : needs[n].used = None

(* The round and the use of every need are kept.                             *)
LEMMA UseKept ==
  ASSUME TypeOK, UseInv, DOMAIN needs' = DOMAIN needs, round' = round,
         stage \in Finished => stage' \in Finished,
         \A n \in DOMAIN needs : /\ Sound(needs'[n])
                                 /\ needs'[n].round = needs[n].round
                                 /\ needs'[n].used = needs[n].used
  PROVE  UseInv'
BY DEF UseInv, Current, CurrentOf

LEMMA OneNeedKept ==
  ASSUME TypeOK, UseInv, NEW n \in DOMAIN needs, NEW x, needs' = [needs EXCEPT ![n] = x],
         round' = round, stage \in Finished => stage' \in Finished,
         Sound(x), x.round = needs[n].round, x.used = needs[n].used
  PROVE  UseInv'
<1>1. needs \in Seq(Needs)
  BY DEF TypeOK
<1>2. /\ DOMAIN needs' = DOMAIN needs
      /\ \A i \in DOMAIN needs : needs'[i] = IF i = n THEN x ELSE needs[i]
  BY <1>1
<1>3. \A i \in DOMAIN needs : /\ Sound(needs'[i])
                              /\ needs'[i].round = needs[i].round
                              /\ needs'[i].used = needs[i].used
  BY <1>2 DEF UseInv
<1> QED
  BY <1>2, <1>3, UseKept

(* New needs join the round, unused.                                         *)
LEMMA AddedSound ==
  ASSUME TypeOK, UseInv, NEW ns \in Seq(Needs), needs' = needs \o ns, round' = round,
         stage \notin Finished,
         \A i \in 1..Len(ns) : Sound(ns[i]) /\ ns[i].round = round /\ ns[i].used = None
  PROVE  UseInv'
<1>1. needs \in Seq(Needs) /\ Len(needs) \in Nat /\ round \in Nat
  BY DEF TypeOK
<1>2. ASSUME NEW n \in DOMAIN needs'
      PROVE  /\ Sound(needs'[n]) /\ needs'[n].round <= round
             /\ needs'[n].round = round => needs'[n].used = None
  <2>1. n \in 1..(Len(needs) + Len(ns))
    BY <1>1, ConcatProperties
  <2>2. needs'[n] = IF n <= Len(needs) THEN needs[n] ELSE ns[n - Len(needs)]
    BY <1>1, <2>1, ConcatProperties
  <2>3. CASE n <= Len(needs)
    <3>1. n \in DOMAIN needs /\ needs'[n] = needs[n]
      BY <1>1, <2>1, <2>2, <2>3
    <3> QED
      BY <3>1 DEF UseInv, Current, CurrentOf
  <2>4. CASE ~(n <= Len(needs))
    <3>1. n - Len(needs) \in 1..Len(ns)
      BY <1>1, <2>1, <2>4
    <3>2. needs'[n] = ns[n - Len(needs)]
      BY <2>2, <2>4
    <3> QED
      BY <1>1, <3>1, <3>2
  <2> QED
    BY <2>3, <2>4
<1> QED
  BY <1>2 DEF UseInv, Current, CurrentOf

LEMMA RequestSound ==
  ASSUME TypeOK, UseInv, NEW s \in Sessions, NEW m \in Members, RequestMaterials(s, m)
  PROVE  UseInv'
<1>1. PICK k \in 1..(MaxNeeds - Len(needs)), q \in Quantities :
      \E inputs \in [1..k -> [item : Items \cup {None}, parts : Lots(q) \cup {<<>>}]] :
         needs' = needs \o [i \in 1..k |->
                     [Need(inputs[i].item, q, round) EXCEPT !.parts = inputs[i].parts]]
  BY DEF RequestMaterials, Added
<1>2. PICK inputs \in [1..k -> [item : Items \cup {None}, parts : Lots(q) \cup {<<>>}]] :
         needs' = needs \o [i \in 1..k |->
                     [Need(inputs[i].item, q, round) EXCEPT !.parts = inputs[i].parts]]
  BY <1>1
<1> DEFINE new(i) == [Need(inputs[i].item, q, round) EXCEPT !.parts = inputs[i].parts]
           ns == [i \in 1..k |-> new(i)]
<1>3. k \in Nat
  BY BoundsAssumption DEF TypeOK
<1>4. ASSUME NEW i \in 1..k
      PROVE  new(i) \in Needs /\ Sound(new(i)) /\ new(i).round = round /\ new(i).used = None
  <2>1. inputs[i] \in [item : Items \cup {None}, parts : Lots(q) \cup {<<>>}]
    BY <1>2, <1>4
  <2>2. inputs[i].item \in Items \cup {None} /\ inputs[i].parts \in Lots(q) \cup {<<>>}
    BY <2>1
  <2>3. new(i) \in Needs
    BY <2>2, NewNeedTyped
  <2>4. /\ new(i).round = round /\ new(i).used = None /\ new(i).requested = q
        /\ new(i).parts = inputs[i].parts
    BY DEF Need
  <2> HIDE DEF new
  <2>5. q \in Nat \ {0}
    BY QuantitiesAssumption
  <2> QED
    BY <2>2, <2>3, <2>4, <2>5, HandedOverSound
<1>5. needs' = needs \o ns
  BY <1>2
<1> HIDE DEF new
<1>6. ns \in Seq(Needs) /\ Len(ns) = k
  BY <1>3, <1>4, SeqOf
<1>7. \A i \in 1..Len(ns) : Sound(ns[i]) /\ ns[i].round = round /\ ns[i].used = None
  BY <1>4, <1>6
<1>8. round' = round /\ stage \notin Finished
  BY DEF RequestMaterials, Finished
<1> HIDE DEF ns
<1> QED
  BY <1>5, <1>6, <1>7, <1>8, AddedSound

LEMMA RegisterSound ==
  ASSUME TypeOK, UseInv, NEW s \in Sessions, NEW m \in Members,
         NEW item \in Items \cup {None}, NEW q \in Quantities, RegisterNeed(s, m, item, q)
  PROVE  UseInv'
<1>1. PICK parts \in Lots(q) \cup {<<>>} :
        needs' = needs \o <<[Need(item, q, round) EXCEPT !.parts = parts]>>
  BY DEF RegisterNeed, Added
<1> DEFINE new == [Need(item, q, round) EXCEPT !.parts = parts]
<1>2. new \in Needs
  BY NewNeedTyped
<1>3. /\ new.round = round /\ new.used = None /\ new.requested = q /\ new.parts = parts
  BY DEF Need
<1>4. needs' = needs \o <<new>>
  BY <1>1
<1> HIDE DEF new
<1>5. Sound(new)
  <2>1. q \in Nat \ {0}
    BY QuantitiesAssumption
  <2> QED
    BY <1>2, <1>3, <2>1, HandedOverSound
<1>6. <<new>> \in Seq(Needs) /\ Len(<<new>>) = 1 /\ <<new>>[1] = new
  BY <1>2
<1>7. round' = round /\ stage \notin Finished
  BY DEF RegisterNeed, Finished
<1>8. \A i \in 1..Len(<<new>>) :
        Sound(<<new>>[i]) /\ <<new>>[i].round = round /\ <<new>>[i].used = None
  <2>1. \A i \in 1..Len(<<new>>) : <<new>>[i] = new
    BY <1>6
  <2> QED
    BY <1>3, <1>5, <2>1
<1> QED
  BY <1>4, <1>6, <1>7, <1>8, AddedSound

(* A declared use is not beyond what was handed over, and only of needs that *)
(* were all received.                                                        *)
LEMMA FixedSound ==
  ASSUME TypeOK, UseInv, NEW s \in Sessions, NEW m \in Members, SubmitFixed(s, m)
  PROVE  /\ UseInv'
         /\ DOMAIN needs' = DOMAIN needs /\ round' = round
         /\ \A n \in DOMAIN needs : /\ needs'[n].round = needs[n].round
                                    /\ needs'[n].item = needs[n].item
                                    /\ needs'[n].requested = needs[n].requested
                                    /\ Issued(needs'[n]) = Issued(needs[n])
<1>1. PICK used \in [Current -> UNION {0..needs[n].requested : n \in Current}] :
       /\ \A n \in Current : used[n] <= Issued(needs[n]) - Returned(needs[n])
       /\ needs' = [n \in DOMAIN needs |->
                      IF n \in Current THEN Use(needs[n], used[n]) ELSE needs[n]]
  BY DEF SubmitFixed
<1>2. stage \notin Finished /\ stage' \in Finished /\ round' = round
  BY DEF SubmitFixed, Submit, Finish, InWork, Working, WorkStages, Finished
<1>3. ASSUME NEW n \in DOMAIN needs
      PROVE  /\ Sound(needs'[n]) /\ needs'[n].round = needs[n].round
             /\ needs'[n].item = needs[n].item
             /\ needs'[n].requested = needs[n].requested
             /\ Issued(needs'[n]) = Issued(needs[n])
  <2>1. needs[n] \in Needs /\ needs[n].requested \in Nat \ {0} /\ Sound(needs[n])
    BY NeedTyped DEF UseInv
  <2>2. CASE n \in Current
    <3>1. used[n] \in Nat
      BY <2>2, NeedTyped DEF Current, CurrentOf
    <3>2. AllReceived(needs, round)
      BY <2>2 DEF SubmitFixed
    <3>3. Issued(needs[n]) = needs[n].requested
      BY <2>2, <3>2 DEF AllReceived, Delivered, Current
    <3>4. needs[n].parts # <<>>
      BY <2>1, <3>3, IssuedTyped
    <3>5. needs[n].used = None
      BY <1>2, <2>2 DEF UseInv
    <3>6. Unused(needs[n])
      BY <2>1, <3>5, QuantitiesAssumption DEF Sound, Owed, Settled
    <3>7. needs'[n] = Use(needs[n], used[n])
      BY <1>1, <2>2
    <3>8. Sound(needs'[n]) /\ Issued(needs'[n]) = Issued(needs[n])
      BY <1>1, <2>1, <2>2, <3>1, <3>4, <3>6, <3>7, UseSound
    <3>9. /\ Use(needs[n], used[n]).round = needs[n].round
          /\ Use(needs[n], used[n]).item = needs[n].item
          /\ Use(needs[n], used[n]).requested = needs[n].requested
      BY <2>1 DEF Use, Needs
    <3> QED
      BY <3>7, <3>8, <3>9
  <2>3. CASE n \notin Current
    BY <1>1, <2>1, <2>3
  <2> QED
    BY <2>2, <2>3
<1>4. DOMAIN needs' = DOMAIN needs
  BY <1>1
<1>5. UseInv'
  <2>1. \A n \in DOMAIN needs' : Sound(needs'[n]) /\ needs'[n].round <= round'
    BY <1>2, <1>3, <1>4 DEF UseInv
  <2>2. stage' \in Finished
    BY <1>2
  <2> QED
    BY <2>1, <2>2 DEF UseInv, Finished
<1> QED
  BY <1>2, <1>3, <1>4, <1>5
LEMMA MaterialsSound ==
  ASSUME TypeOK, UseInv, SupplyInv, NEW s \in Sessions, NEW n \in DOMAIN needs,
         \/ \E item \in Items : ResolveMaterial(s, n, item)
         \/ HandOver(s, n) \/ Transfer(s, n) \/ Purchase(s, n) \/ ConfirmReturn(s, n)
  PROVE  UseInv'
<1>0. /\ needs[n] \in Needs /\ needs[n].requested \in Nat \ {0} /\ Sound(needs[n])
      /\ n \in DOMAIN needs
  BY NeedTyped DEF UseInv
<1>1. ASSUME NEW x, needs' = [needs EXCEPT ![n] = x], round' = round,
             stage \in Finished => stage' \in Finished, x \in Needs,
             x.round = needs[n].round, x.used = needs[n].used,
             x.parts = needs[n].parts, x.requested = needs[n].requested
      PROVE  UseInv'
  BY <1>0, <1>1, SameStockSound, OneNeedKept
<1>2. ASSUME NEW item \in Items, ResolveMaterial(s, n, item) PROVE UseInv'
  <2>1. PICK fits \in BOOLEAN :
          needs' = [needs EXCEPT ![n] = [@ EXCEPT !.item = item, !.fits = fits]]
    BY <1>2 DEF ResolveMaterial
  <2> DEFINE x == [needs[n] EXCEPT !.item = item, !.fits = fits]
  <2>2. /\ x \in Needs /\ x.round = needs[n].round /\ x.used = needs[n].used
        /\ x.parts = needs[n].parts /\ x.requested = needs[n].requested
    BY <1>0 DEF Needs
  <2>3. needs' = [needs EXCEPT ![n] = x]
    BY <2>1
  <2> HIDE DEF x
  <2> QED
    BY <1>1, <1>2, <2>2, <2>3 DEF ResolveMaterial, Finished
<1>3. CASE HandOver(s, n)
  <2>1. PICK parts \in Lots(needs[n].requested) :
          needs' = [needs EXCEPT ![n] = [@ EXCEPT !.parts = parts]]
    BY <1>3 DEF HandOver
  <2> DEFINE x == [needs[n] EXCEPT !.parts = parts]
  <2>2. stage \notin Finished /\ round' = round /\ n \in Current
    BY <1>3 DEF HandOver, Finished
  <2>3. needs[n].used = None
    BY <2>2 DEF UseInv
  <2>4. parts \in Seq(Parts)
    BY <1>0, <2>1, LotsTyped
  <2>5. /\ x \in Needs /\ x.round = needs[n].round /\ x.used = needs[n].used
        /\ x.parts = parts /\ x.requested = needs[n].requested
    BY <1>0, <2>4 DEF Needs
  <2>6. needs' = [needs EXCEPT ![n] = x]
    BY <2>1
  <2> HIDE DEF x
  <2>7. Sound(x)
    BY <1>0, <2>1, <2>3, <2>5, HandedOverSound
  <2> QED
    BY <1>0, <2>2, <2>5, <2>6, <2>7, OneNeedKept
<1>4. CASE Transfer(s, n)
  <2>1. PICK q \in 1..needs[n].requested :
          needs' = [needs EXCEPT ![n] =
                      [@ EXCEPT !.transferred = Min({needs[n].requested, needs[n].transferred + q})]]
    BY <1>4 DEF Transfer
  <2> DEFINE sum == Min({needs[n].requested, needs[n].transferred + q})
             x == [needs[n] EXCEPT !.transferred = sum]
  <2>2. sum \in Nat
    BY <1>0, MinOfTwo DEF Needs
  <2>3. needs' = [needs EXCEPT ![n] = x]
    BY <2>1
  <2> HIDE DEF sum
  <2>4. /\ x \in Needs /\ x.round = needs[n].round /\ x.used = needs[n].used
        /\ x.parts = needs[n].parts /\ x.requested = needs[n].requested
    BY <1>0, <2>2 DEF Needs
  <2> HIDE DEF x
  <2> QED
    BY <1>1, <1>4, <2>3, <2>4 DEF Transfer, Supply, Finished
<1>5. ASSUME NEW ordered \in Nat, round' = round, stage \in Finished => stage' \in Finished,
             needs' = [needs EXCEPT ![n] = [@ EXCEPT !.ordered = ordered]]
      PROVE  UseInv'
  <2> DEFINE x == [needs[n] EXCEPT !.ordered = ordered]
  <2>1. /\ x \in Needs /\ x.round = needs[n].round /\ x.used = needs[n].used
        /\ x.parts = needs[n].parts /\ x.requested = needs[n].requested
    BY <1>0 DEF Needs
  <2>2. needs' = [needs EXCEPT ![n] = x]
    BY <1>5
  <2> HIDE DEF x
  <2> QED
    BY <1>1, <1>5, <2>1, <2>2
<1>6. CASE Purchase(s, n)
  <2>1. PICK q \in 1..needs[n].requested :
        \E bought \in 1..(q - needs[n].ordered) :
            needs' = [needs EXCEPT ![n] = [@ EXCEPT !.ordered = needs[n].ordered + bought]]
    BY <1>6 DEF Purchase
  <2>2. PICK bought \in 1..(q - needs[n].ordered) :
            needs' = [needs EXCEPT ![n] = [@ EXCEPT !.ordered = needs[n].ordered + bought]]
    BY <2>1
  <2>3. needs[n].ordered + bought \in Nat
    <3>1. needs[n].ordered \in Nat
      BY <1>0 DEF Needs
    <3> QED
      BY <2>2, <3>1
  <2>4. round' = round /\ (stage \in Finished => stage' \in Finished)
    BY <1>6 DEF Purchase, Supply, Finished
  <2> QED
    BY <1>5, <2>2, <2>3, <2>4
<1>7. CASE ConfirmReturn(s, n)
  <2>1. PICK back \in [DOMAIN needs[n].parts -> 0..needs[n].requested] :
          /\ Total(back, Len(needs[n].parts)) = RemainingReturn(needs[n])
          /\ needs' = [needs EXCEPT ![n] = GiveBack(@, back)]
    BY <1>7 DEF ConfirmReturn
  <2> DEFINE x == GiveBack(needs[n], back)
  <2>2. RemainingReturn(needs[n]) > 0
    BY <1>7 DEF ConfirmReturn
  <2>3. Owed(needs[n])
    <3>1. Issued(needs[n]) \in Nat /\ Returned(needs[n]) \in Nat
      BY <1>0, IssuedTyped
    <3> QED
      BY <1>0, <2>2, <3>1 DEF Sound, Unused, Settled, RemainingReturn
  <2>4. Sound(x)
    BY <1>0, <2>1, <2>3, GiveBackSound
  <2>5. x.round = needs[n].round /\ x.used = needs[n].used
    BY <1>0 DEF GiveBack, Needs
  <2>6. needs' = [needs EXCEPT ![n] = x]
    BY <2>1
  <2> HIDE DEF x
  <2>7. round' = round /\ (stage \in Finished => stage' \in Finished)
    BY <1>7 DEF ConfirmReturn, Finished
  <2> QED
    BY <1>0, <2>4, <2>5, <2>6, <2>7, OneNeedKept
<1> QED
  BY <1>2, <1>3, <1>4, <1>6, <1>7

(* What leaves the needs alone.                                              *)
LEMMA StageMoves ==
  ASSUME TypeOK, UseInv, UNCHANGED <<needs, round>>,
         stage \in Finished => stage' \in Finished
  PROVE  UseInv'
BY DEF UseInv, Current, CurrentOf

LEMMA ReturnSound ==
  ASSUME TypeOK, UseInv, NEW s \in Sessions, ReturnToTeam(s)
  PROVE  UseInv'
<1>1. needs' = needs
  BY DEF ReturnToTeam
<1>2. CASE stage = "awaiting_review"
  <2>1. round' = round + 1
    BY <1>2 DEF ReturnToTeam, RoundAfterReview
  <2>2. \A n \in DOMAIN needs : needs[n].round \in Nat /\ needs[n].round <= round
    BY NeedTyped DEF UseInv, Needs
  <2>3. round \in Nat
    BY DEF TypeOK
  <2>4. \A n \in DOMAIN needs : needs[n].round <= round' /\ needs[n].round # round'
    BY <2>1, <2>2, <2>3
  <2> QED
    BY <1>1, <2>4 DEF UseInv, Current, CurrentOf
<1>3. CASE stage # "awaiting_review"
  <2>1. round' = round /\ stage \notin Finished
    BY <1>3 DEF ReturnToTeam, RoundAfterReview, Finished
  <2> QED
    BY <1>1, <2>1, StageMoves
<1> QED
  BY <1>2, <1>3

LEMMA StepKeepsUse ==
  TypeOK /\ SupplyInv /\ UseInv /\ [Next]_vars => UseInv'
<1> SUFFICES ASSUME TypeOK, SupplyInv, UseInv, [Next]_vars PROVE UseInv'
  OBVIOUS
<1>1. ASSUME NEW s \in Sessions, End(s) \/ \E key \in Keys : Begin(s, key) PROVE UseInv'
  BY <1>1, StageMoves DEF Begin, End
<1>2. CASE UNCHANGED vars
  BY <1>2, StageMoves DEF vars
<1>3. CASE Route
  <2>1. UNCHANGED <<needs, round>> /\ (stage \notin Finished \/ stage' = stage)
    BY <1>3 DEF Route, ReturnExternalRoute, DecideExternalRoute, ExternalJob,
                RouteAction, Finished
  <2> QED
    BY <2>1, StageMoves
<1>4. ASSUME NEW n \in DOMAIN needs, Procure(n) PROVE UseInv'
  <2>1. needs' = [needs EXCEPT ![n] = [@ EXCEPT !.ordered = 0]]
        /\ round' = round /\ stage' = stage
    BY <1>4 DEF Procure
  <2>2. needs[n] \in Needs /\ Sound(needs[n])
    BY NeedTyped DEF UseInv
  <2> DEFINE x == [needs[n] EXCEPT !.ordered = 0]
  <2>3. /\ x \in Needs /\ x.round = needs[n].round /\ x.used = needs[n].used
        /\ x.parts = needs[n].parts /\ x.requested = needs[n].requested
    BY <2>2 DEF Needs
  <2>4. needs' = [needs EXCEPT ![n] = x]
    BY <2>1
  <2> HIDE DEF x
  <2> QED
    BY <2>1, <2>2, <2>3, <2>4, SameStockSound, OneNeedKept
<1>5. ASSUME NEW s \in Sessions, Review(s) PROVE UseInv'
  <2>1. CASE ReturnToTeam(s)
    BY <2>1, ReturnSound
  <2>2. CASE ApproveExternal(s) \/ ExternalHandover(s) \/ ApproveResult(s)
    <3>1. UNCHANGED <<needs, round>> /\ (stage \in Finished => stage' \in Finished)
      BY <2>2 DEF ApproveExternal, ExternalHandover, ApproveResult, Finished
    <3> QED
      BY <3>1, StageMoves
  <2> QED
    BY <1>5, <2>1, <2>2 DEF Review
<1>6. ASSUME NEW s \in Sessions, Materials(s) PROVE UseInv'
  BY <1>6, MaterialsSound DEF Materials
<1>7. ASSUME NEW s \in Sessions, Execution(s) PROVE UseInv'
  <2> PICK m \in Members :
      \/ \E resume \in BOOLEAN : StartExecution(s, m, resume)
      \/ EndVisit(s, m)
      \/ SubmitOk(s, m) \/ SubmitFixed(s, m)
      \/ \E result \in Reasons : SubmitReferral(s, m, result)
      \/ BeginMaterialNeed(s, m)
      \/ RequestMaterials(s, m)
      \/ \E item \in Items \cup {None}, q \in Quantities : RegisterNeed(s, m, item, q)
    BY <1>7 DEF Execution
  <2>1. CASE \/ \E resume \in BOOLEAN : StartExecution(s, m, resume)
             \/ EndVisit(s, m)
    <3>1. UNCHANGED <<needs, round, stage>>
      BY <2>1 DEF StartExecution, EndVisit
    <3> QED
      BY <3>1, StageMoves
  <2>2. CASE \/ SubmitOk(s, m) \/ BeginMaterialNeed(s, m)
             \/ \E result \in Reasons : SubmitReferral(s, m, result)
    <3>1. UNCHANGED <<needs, round>> /\ stage \notin Finished
      BY <2>2 DEF SubmitOk, SubmitReferral, BeginMaterialNeed, Submit, InWork, Working,
                  WorkStages, Finished
    <3> QED
      BY <3>1, StageMoves
  <2> QED
    BY <2>1, <2>2, FixedSound, RequestSound, RegisterSound
<1> QED
  BY <1>1, <1>2, <1>3, <1>4, <1>5, <1>6, <1>7 DEF Next

LEMMA InitUse == Init => UseInv
<1> SUFFICES ASSUME Init PROVE UseInv
  OBVIOUS
<1>1. CASE needs = <<>>
  BY <1>1 DEF UseInv, Current, CurrentOf
<1>2. ASSUME NEW i \in Items \cup {None}, NEW q \in Quantities, needs = <<Need(i, q, 1)>>
      PROVE  UseInv
  <2> DEFINE x == Need(i, q, 1)
  <2>1. q \in Nat \ {0} /\ <<>> \in Seq(Parts)
    BY QuantitiesAssumption
  <2>2. /\ x \in Needs /\ x.used = None /\ x.requested = q /\ x.parts = <<>> /\ x.round = 1
    BY <2>1 DEF Need, Needs
  <2>3. DOMAIN needs = {1} /\ needs[1] = x /\ round = 1
    BY <1>2 DEF Init
  <2> HIDE DEF x
  <2>4. Sound(x)
    BY <2>1, <2>2, HandedOverSound
  <2> QED
    BY <2>2, <2>3, <2>4 DEF UseInv, Current, CurrentOf
<1> QED
  BY <1>1, <1>2 DEF Init

LEMMA UseCorrect == Spec => []UseInv
<1>1. SupplyInv /\ TypeOK /\ UseInv /\ [Next]_vars => UseInv'
  BY StepKeepsUse
<1> QED
  BY <1>1, InitUse, SupplyCorrect, TypeCorrect, PTL DEF Spec

(* Nothing is used or returned beyond what was handed over, whoever declares *)
(* and returns in whichever order, and however often the repair is repeated; *)
(* and once all is accounted for, the lots' consumption is what was declared.*)
THEOREM MaterialsBalance == Spec => []MaterialsAccounted
<1>1. TypeOK /\ UseInv => MaterialsAccounted
  BY NeedTyped, SoundAccounted DEF UseInv, MaterialsAccounted
<1> QED
  BY <1>1, UseCorrect, TypeCorrect, PTL
-----------------------------------------------------------------------------
(* The stage and the receipts.  With work not begun the round has no needs;  *)
(* otherwise a later request for material could start with all received.     *)
StageInv == ReceiptDrivesStage /\ (stage = "action_required" => Current = {})

(* Steps that deliver nothing and start no round.                            *)
SameReceipts ==
  /\ DOMAIN needs' = DOMAIN needs /\ round' = round
  /\ \A n \in DOMAIN needs : /\ needs'[n].round = needs[n].round
                             /\ Delivered(needs'[n]) <=> Delivered(needs[n])

LEMMA StageKept ==
  ASSUME StageInv, SameReceipts,
         \/ stage' = stage
         \/ /\ stage # "waiting_material"
            /\ stage' \notin {"waiting_material", "ready_to_repair", "action_required"}
  PROVE  StageInv'
<1>1. /\ DOMAIN needs' = DOMAIN needs /\ round' = round
      /\ \A n \in DOMAIN needs : /\ needs'[n].round = needs[n].round
                                 /\ Delivered(needs'[n]) <=> Delivered(needs[n])
  BY DEF SameReceipts
<1>2. Current' = Current
  BY <1>1 DEF Current, CurrentOf
<1>3. \A n \in Current : n \in DOMAIN needs
  BY DEF Current, CurrentOf
<1>4. AllReceived(needs', round') <=> AllReceived(needs, round)
  <2>1. CurrentOf(needs', round') = CurrentOf(needs, round)
    BY <1>2 DEF Current
  <2>2. \A n \in CurrentOf(needs, round) : Delivered(needs'[n]) <=> Delivered(needs[n])
    BY <1>1 DEF CurrentOf
  <2> QED
    BY <2>1, <2>2 DEF AllReceived
<1>5. \A n \in Current' : Delivered(needs'[n]) <=> Delivered(needs[n])
  BY <1>1, <1>2, <1>3
<1> QED
  BY <1>2, <1>4, <1>5 DEF StageInv, ReceiptDrivesStage

LEMMA StageUntouched ==
  ASSUME StageInv, UNCHANGED <<needs, round>>,
         \/ stage' = stage
         \/ /\ stage # "waiting_material"
            /\ stage' \notin {"waiting_material", "ready_to_repair", "action_required"}
  PROVE  StageInv'
<1>1. SameReceipts
  BY DEF SameReceipts
<1> QED
  BY <1>1, StageKept

LEMMA OneNeedReceipt ==
  ASSUME TypeOK, NEW n \in DOMAIN needs, NEW x, needs' = [needs EXCEPT ![n] = x],
         round' = round, x.round = needs[n].round,
         Delivered(x) <=> Delivered(needs[n])
  PROVE  SameReceipts
BY DEF SameReceipts, TypeOK

(* The stage is computed from the receipts.                                  *)
LEMMA StageComputed ==
  ASSUME stage' = IF AllReceived(needs', round') THEN "ready_to_repair"
                                                 ELSE "waiting_material"
  PROVE  StageInv'
<1>1. CASE AllReceived(needs', round')
  <2>1. Current' # {} /\ \A n \in Current' : Delivered(needs'[n])
    BY <1>1 DEF AllReceived, Current
  <2>2. stage' = "ready_to_repair"
    BY <1>1
  <2> QED
    BY <2>1, <2>2 DEF StageInv, ReceiptDrivesStage
<1>2. CASE ~AllReceived(needs', round')
  <2>1. stage' = "waiting_material"
    BY <1>2
  <2> QED
    BY <1>2, <2>1 DEF StageInv, ReceiptDrivesStage
<1> QED
  BY <1>1, <1>2

LEMMA MaterialsDriveStage ==
  ASSUME TypeOK, SupplyInv, StageInv, NEW s \in Sessions, Materials(s)
  PROVE  StageInv'
<1> PICK n \in DOMAIN needs :
      \/ \E item \in Items : ResolveMaterial(s, n, item)
      \/ HandOver(s, n) \/ Transfer(s, n) \/ Purchase(s, n)
      \/ ConfirmReturn(s, n)
  BY DEF Materials
<1>0. /\ needs[n] \in Needs /\ needs[n].requested \in Nat \ {0}
      /\ needs \in Seq(Needs)
  BY NeedTyped DEF TypeOK
<1>1. ASSUME NEW x \in Needs, needs' = [needs EXCEPT ![n] = x], round' = round,
             stage' = stage, x.round = needs[n].round, x.item = needs[n].item,
             x.requested = needs[n].requested, Issued(x) = Issued(needs[n])
      PROVE  StageInv'
  <2>1. Delivered(x) <=> Delivered(needs[n])
    BY <1>1 DEF Delivered
  <2> QED
    BY <1>1, <2>1, OneNeedReceipt, StageKept
<1>2. ASSUME NEW item \in Items, ResolveMaterial(s, n, item) PROVE StageInv'
  <2>1. PICK fits \in BOOLEAN :
          needs' = [needs EXCEPT ![n] = [@ EXCEPT !.item = item, !.fits = fits]]
    BY <1>2 DEF ResolveMaterial
  <2> DEFINE x == [needs[n] EXCEPT !.item = item, !.fits = fits]
  <2>2. needs[n].parts = <<>>
    BY <1>2 DEF ResolveMaterial, SupplyInv, Covered
  <2>3. /\ x \in Needs /\ x.round = needs[n].round /\ x.parts = <<>>
        /\ x.requested = needs[n].requested
    BY <1>0, <2>2 DEF Needs
  <2>4. needs' = [needs EXCEPT ![n] = x]
    BY <2>1
  <2> HIDE DEF x
  <2>5. ~Delivered(x) /\ ~Delivered(needs[n])
    BY <1>0, <2>2, <2>3, IssuedTyped DEF Delivered
  <2>6. round' = round /\ stage' = stage
    BY <1>2 DEF ResolveMaterial
  <2> QED
    BY <2>3, <2>4, <2>5, <2>6, OneNeedReceipt, StageKept
<1>3. CASE HandOver(s, n)
  BY <1>3, StageComputed DEF HandOver
<1>4. CASE Transfer(s, n) \/ Purchase(s, n)
  <2>1. PICK x : /\ needs' = [needs EXCEPT ![n] = x]
                 /\ \/ \E q : x = [needs[n] EXCEPT !.transferred = q]
                    \/ \E q : x = [needs[n] EXCEPT !.ordered = q]
    BY <1>4 DEF Transfer, Purchase
  <2>2. /\ x.round = needs[n].round /\ x.item = needs[n].item
        /\ x.requested = needs[n].requested /\ x.parts = needs[n].parts
    BY <1>0, <2>1 DEF Needs
  <2>3. Delivered(x) <=> Delivered(needs[n])
    BY <2>2 DEF Delivered, Issued
  <2>4. round' = round /\ stage' = stage
    BY <1>4 DEF Transfer, Purchase, Supply
  <2> QED
    BY <2>1, <2>2, <2>3, <2>4, OneNeedReceipt, StageKept
<1>5. CASE ConfirmReturn(s, n)
  <2>1. PICK back \in [DOMAIN needs[n].parts -> 0..needs[n].requested] :
          needs' = [needs EXCEPT ![n] = GiveBack(@, back)]
    BY <1>5 DEF ConfirmReturn
  <2> DEFINE x == GiveBack(needs[n], back)
  <2>2. x \in Needs /\ Issued(x) = Issued(needs[n])
    BY <1>0, GiveBackTyped, GiveBackIssues
  <2>3. x.round = needs[n].round /\ x.item = needs[n].item /\ x.requested = needs[n].requested
    BY <1>0 DEF GiveBack, Needs
  <2>4. needs' = [needs EXCEPT ![n] = x]
    BY <2>1
  <2> HIDE DEF x
  <2>5. round' = round /\ stage' = stage
    BY <1>5 DEF ConfirmReturn
  <2> QED
    BY <1>1, <2>2, <2>3, <2>4, <2>5
<1> QED
  BY <1>2, <1>3, <1>4, <1>5

LEMMA ExecutionDrivesStage ==
  ASSUME TypeOK, UseInv, StageInv, NEW s \in Sessions, Execution(s)
  PROVE  StageInv'
<1> PICK m \in Members :
      \/ \E resume \in BOOLEAN : StartExecution(s, m, resume)
      \/ EndVisit(s, m)
      \/ SubmitOk(s, m) \/ SubmitFixed(s, m)
      \/ \E result \in Reasons : SubmitReferral(s, m, result)
      \/ BeginMaterialNeed(s, m)
      \/ RequestMaterials(s, m)
      \/ \E item \in Items \cup {None}, q \in Quantities : RegisterNeed(s, m, item, q)
  BY DEF Execution
<1>1. CASE \/ \E resume \in BOOLEAN : StartExecution(s, m, resume)
           \/ EndVisit(s, m)
  BY <1>1, StageUntouched DEF StartExecution, EndVisit
<1>2. CASE SubmitOk(s, m) \/ \E result \in Reasons : SubmitReferral(s, m, result)
  <2>1. /\ UNCHANGED <<needs, round>> /\ stage # "waiting_material"
        /\ stage' \notin {"waiting_material", "ready_to_repair", "action_required"}
    BY <1>2 DEF SubmitOk, SubmitReferral, Submit, Finish, InWork, Working, WorkStages
  <2> QED
    BY <2>1, StageUntouched
<1>3. CASE SubmitFixed(s, m)
  <2>1. /\ stage # "waiting_material"
        /\ stage' \notin {"waiting_material", "ready_to_repair", "action_required"}
    BY <1>3 DEF SubmitFixed, Submit, Finish, InWork, Working, WorkStages
  <2>2. SameReceipts
    BY <1>3, FixedSound DEF SameReceipts, Delivered
  <2> QED
    BY <2>1, <2>2, StageKept
<1>4. CASE BeginMaterialNeed(s, m)
  <2>1. Current = {} /\ stage' = "waiting_material" /\ UNCHANGED <<needs, round>>
    BY <1>4 DEF BeginMaterialNeed, NeedsMaterial, StageInv
  <2>2. ~AllReceived(needs', round')
    BY <2>1 DEF AllReceived, Current
  <2> QED
    BY <2>1, <2>2 DEF StageInv, ReceiptDrivesStage
<1>5. CASE RequestMaterials(s, m)
  BY <1>5, StageComputed DEF RequestMaterials, Added
<1>6. CASE \E item \in Items \cup {None}, q \in Quantities : RegisterNeed(s, m, item, q)
  BY <1>6, StageComputed DEF RegisterNeed, Added
<1> QED
  BY <1>1, <1>2, <1>3, <1>4, <1>5, <1>6

LEMMA ReviewDrivesStage ==
  ASSUME TypeOK, StageInv, NEW s \in Sessions, Review(s)
  PROVE  StageInv'
<1>1. CASE ReturnToTeam(s)
  <2>1. needs' = needs /\ stage' = AfterReturn(round')
    BY <1>1 DEF ReturnToTeam
  <2>2. CASE CurrentOf(needs', round') = {}
    <3>1. stage' = "action_required" /\ Current' = {}
      BY <2>1, <2>2 DEF AfterReturn, Current
    <3> QED
      BY <3>1 DEF StageInv, ReceiptDrivesStage
  <2>3. CASE CurrentOf(needs', round') # {}
    BY <2>1, <2>3, StageComputed DEF AfterReturn
  <2> QED
    BY <2>2, <2>3
<1>2. CASE ApproveExternal(s) \/ ExternalHandover(s) \/ ApproveResult(s)
  <2>1. /\ UNCHANGED <<needs, round>> /\ stage # "waiting_material"
        /\ stage' \notin {"waiting_material", "ready_to_repair", "action_required"}
    BY <1>2 DEF ApproveExternal, ExternalHandover, ApproveResult
  <2> QED
    BY <2>1, StageUntouched
<1> QED
  BY <1>1, <1>2 DEF Review

(* The manager's new decision.  The needs of a blocked ticket are unused, so *)
(* path A finds none of them met, and path B nothing returned.               *)
LEMMA DecisionDrivesStage ==
  ASSUME TypeOK, UseInv, StageInv, NEW path \in {"A", "B", "C"}, DecideExternalRoute(path)
  PROVE  StageInv'
<1>1. UNCHANGED <<needs, round>> /\ stage = "blocked"
  BY DEF DecideExternalRoute, RouteAction
<1>2. ASSUME NEW n \in Current
      PROVE  /\ needs[n].used = None /\ Returned(needs[n]) = 0
             /\ Issued(needs[n]) = needs[n].requested
             /\ needs[n].requested \in Nat \ {0}
  <2>1. n \in DOMAIN needs
    BY <1>2 DEF Current, CurrentOf
  <2>2. needs[n].used = None /\ Sound(needs[n])
    BY <1>1, <1>2, <2>1 DEF UseInv, Finished
  <2>3. Unused(needs[n])
    BY <2>2, QuantitiesAssumption DEF Sound, Owed, Settled
  <2>4. Issued(needs[n]) = needs[n].requested
    BY <1>1, <1>2 DEF StageInv, ReceiptDrivesStage, Delivered
  <2> QED
    BY <2>1, <2>3, <2>4, NeedTyped DEF Unused
<1>3. CASE path = "A"
  <2>1. stage' = "action_required" /\ \A n \in Current : needs[n].used = needs[n].requested
    BY <1>3 DEF DecideExternalRoute
  <2>2. Current = {}
    BY <1>2, <2>1, QuantitiesAssumption
  <2>3. Current' = {}
    BY <1>1, <2>2 DEF Current
  <2> QED
    BY <2>1, <2>3 DEF StageInv, ReceiptDrivesStage
<1>4. CASE path = "B"
  <2>1. (/\ Current # {}
         /\ \A n \in Current : Issued(needs[n]) - Returned(needs[n]) >= needs[n].requested)
        <=> AllReceived(needs, round)
    <3>1. \A n \in Current : Delivered(needs[n])
      BY <1>1 DEF StageInv, ReceiptDrivesStage
    <3>2. \A n \in Current : Issued(needs[n]) - Returned(needs[n]) >= needs[n].requested
      BY <1>2
    <3> QED
      BY <3>1, <3>2 DEF AllReceived, Current
  <2>2. stage' = IF AllReceived(needs, round) THEN "ready_to_repair" ELSE "waiting_material"
    BY <1>4, <2>1 DEF DecideExternalRoute
  <2> QED
    BY <1>1, <2>2, StageComputed
<1>5. CASE path = "C"
  <2>1. stage' = "external_in_progress"
    BY <1>5 DEF DecideExternalRoute
  <2> QED
    BY <1>1, <2>1, StageUntouched
<1> QED
  BY <1>3, <1>4, <1>5

LEMMA StepKeepsStage ==
  TypeOK /\ UseInv /\ SupplyInv /\ StageInv /\ [Next]_vars => StageInv'
<1> SUFFICES ASSUME TypeOK, UseInv, SupplyInv, StageInv, [Next]_vars PROVE StageInv'
  OBVIOUS
<1>1. CASE \/ \E s \in Sessions : End(s) \/ \E key \in Keys : Begin(s, key)
           \/ ExternalJob \/ UNCHANGED vars
  <2>1. UNCHANGED <<needs, round, stage>>
    BY <1>1 DEF Begin, End, ExternalJob, vars
  <2> QED
    BY <2>1, StageUntouched
<1>2. ASSUME NEW n \in DOMAIN needs, Procure(n) PROVE StageInv'
  <2> DEFINE x == [needs[n] EXCEPT !.ordered = 0]
  <2>1. needs' = [needs EXCEPT ![n] = x] /\ round' = round /\ stage' = stage
    BY <1>2 DEF Procure
  <2>2. /\ x.round = needs[n].round /\ x.item = needs[n].item
        /\ x.requested = needs[n].requested /\ x.parts = needs[n].parts
    BY NeedTyped DEF Needs
  <2> HIDE DEF x
  <2>3. Delivered(x) <=> Delivered(needs[n])
    BY <2>2 DEF Delivered, Issued
  <2> QED
    BY <2>1, <2>2, <2>3, OneNeedReceipt, StageKept
<1>3. CASE Route
  <2>1. CASE ReturnExternalRoute
    BY <2>1, StageUntouched DEF ReturnExternalRoute, RouteAction
  <2> QED
    BY <1>1, <1>3, <2>1, DecisionDrivesStage DEF Route
<1> QED
  BY <1>1, <1>2, <1>3, ExecutionDrivesStage, MaterialsDriveStage, ReviewDrivesStage DEF Next

LEMMA InitStage == Init => StageInv
<1> SUFFICES ASSUME Init PROVE StageInv
  OBVIOUS
<1>1. CASE needs = <<>> /\ stage = "action_required"
  BY <1>1 DEF StageInv, ReceiptDrivesStage, Current, CurrentOf
<1>2. ASSUME NEW i \in Items \cup {None}, NEW q \in Quantities, needs = <<Need(i, q, 1)>>,
             stage = "waiting_material"
      PROVE  StageInv
  <2> DEFINE x == Need(i, q, 1)
  <2>1. q \in Nat \ {0} /\ <<>> \in Seq(Parts)
    BY QuantitiesAssumption
  <2>2. x \in Needs /\ x.requested = q /\ x.parts = <<>> /\ x.round = 1
    BY <2>1 DEF Need, Needs
  <2>3. DOMAIN needs = {1} /\ needs[1] = x /\ round = 1
    BY <1>2 DEF Init
  <2> HIDE DEF x
  <2>4. ~Delivered(x)
    BY <2>1, <2>2, IssuedTyped DEF Delivered
  <2>5. ~AllReceived(needs, round)
    BY <2>2, <2>3, <2>4 DEF AllReceived, CurrentOf
  <2> QED
    BY <1>2, <2>5 DEF StageInv, ReceiptDrivesStage
<1> QED
  BY <1>1, <1>2 DEF Init

(* The stage, which is computed at four places, follows the receipts: a      *)
(* ticket waits for material exactly as long as a need of the round is not   *)
(* handed over, through repeats, returned requests and late deliveries.      *)
THEOREM StageFollowsReceipts == Spec => []ReceiptDrivesStage
<1>1. Init => StageInv
  BY InitStage
<1>2. UseInv /\ SupplyInv /\ TypeOK /\ StageInv /\ [Next]_vars => StageInv'
  BY StepKeepsStage
<1>3. StageInv => ReceiptDrivesStage
  BY DEF StageInv
<1> QED
  BY <1>1, <1>2, <1>3, UseCorrect, SupplyCorrect, TypeCorrect, PTL DEF Spec
===============================================================================
