------------------------ MODULE SettlementReviewProofs ------------------------
(* Proofs about SettlementReview, for any users, items, quantities and costs. *)
(*                                                                            *)
(* An approval trusts events and items read in a view that may be older than  *)
(* the locks.  It may, because it compares versions: every step that adds an  *)
(* event or changes a counted quantity also bumps the version, so a request   *)
(* that still names the version of the draft has seen all of them.  The       *)
(* inductive invariant says that.                                             *)
EXTENDS SettlementReview, FiniteSetTheorems, TLAPS

(* The version of a request is one the draft has had; its view holds every   *)
(* event up to that version, and the count as it is if it is still current.  *)
ViewsFollowVersions ==
  \A r \in open :
    /\ r.expected <= draft.version
    /\ \A e \in events : e.version <= r.expected => e \in r.view.events
    /\ r.expected = draft.version => r.view.counted = counted

EventsFollowVersions == \A e \in events : e.version <= draft.version

IInv ==
  /\ TypeOK
  /\ EventsFollowVersions
  /\ ViewsFollowVersions
  /\ SegregationOfDuties
  /\ PostedOnce
  /\ PostedAsReviewed

-----------------------------------------------------------------------------
LEMMA InitInv == Init => IInv
  BY RolesAssumption, BoundsAssumption
  DEF Init, IInv, TypeOK, EventsFollowVersions, ViewsFollowVersions,
      SegregationOfDuties, PostedOnce, PostedAsReviewed, NoDraft, Draft, Statuses,
      Person, Facts

(* What Change does to the draft and to the events.                          *)
LEMMA ChangeFacts ==
  ASSUME TypeOK, NEW r \in open, NEW action \in Actions, NEW fields \in Draft,
         Change(r, action, fields)
  PROVE  /\ draft' = [fields EXCEPT !.version = draft.version + 1]
         /\ draft' \in Draft
         /\ events' \subseteq Event
         /\ draft'.version = draft.version + 1
         /\ draft'.status = fields.status /\ draft'.print = fields.print
         /\ draft'.preparedBy = fields.preparedBy
         /\ draft'.submittedBy = fields.submittedBy
         /\ draft'.approvedBy = fields.approvedBy
<1>1. draft.version \in 0..MaxVersion /\ draft.version < MaxVersion /\ MaxVersion \in Nat
  BY BoundsAssumption DEF TypeOK, Draft, Change
<1>2. draft.version + 1 \in 1..MaxVersion
  BY <1>1
<1>3. r.user \in Users
  BY DEF TypeOK
<1>4. draft' = [fields EXCEPT !.version = draft.version + 1]
  BY DEF Change
<1>5. events' \subseteq Event
  BY <1>2, <1>3 DEF Change, TypeOK, Event
<1> QED
  BY <1>2, <1>4, <1>5 DEF Draft

(* A change keeps the requests behind the versions.                          *)
LEMMA ChangeFollows ==
  ASSUME TypeOK, EventsFollowVersions, ViewsFollowVersions, open' = open,
         NEW r \in open, NEW action \in Actions, NEW fields \in Draft,
         Change(r, action, fields)
  PROVE  EventsFollowVersions' /\ ViewsFollowVersions'
<1>1. draft'.version = draft.version + 1 /\ draft.version \in Nat
  BY ChangeFacts DEF TypeOK, Draft
<1>2. events' = events \cup {[version |-> draft.version + 1, action |-> action,
                              actor |-> r.user]}
  BY DEF Change
<1>3. \A e \in events : e.version \in Nat
  BY DEF TypeOK, Event
<1>4. \A q \in open : q.expected \in Nat
  BY DEF TypeOK
<1>5. EventsFollowVersions'
  BY <1>1, <1>2, <1>3 DEF EventsFollowVersions
<1>6. ASSUME NEW q \in open
      PROVE  /\ q.expected < draft'.version
             /\ \A e \in events' : e.version <= q.expected => e \in q.view.events
  <2>1. q.expected <= draft.version
    BY DEF ViewsFollowVersions
  <2>2. ASSUME NEW e \in events', e.version <= q.expected
        PROVE  e \in q.view.events
    <3>1. e \in events
      BY <1>1, <1>2, <1>4, <2>1, <2>2
    <3> QED
      BY <2>2, <3>1 DEF ViewsFollowVersions
  <2> QED
    BY <1>1, <1>4, <2>1, <2>2
<1> QED
  BY <1>1, <1>4, <1>5, <1>6 DEF ViewsFollowVersions

(* Until a settlement is posted or found needless, nothing is claimed of it. *)
LEMMA BeforePosting ==
  ASSUME settlements' = {}, draft'.status \notin {"applied", "no_adjustment"}
  PROVE  SegregationOfDuties' /\ PostedOnce' /\ PostedAsReviewed'
BY DEF SegregationOfDuties, PostedOnce, PostedAsReviewed

(* A request that names the version of the draft has seen every event and    *)
(* the count.                                                                *)
LEMMA CurrentView ==
  ASSUME TypeOK, EventsFollowVersions, ViewsFollowVersions, NEW r \in open, VersionMatches(r)
  PROVE  events \subseteq r.view.events /\ r.view.counted = counted
BY DEF EventsFollowVersions, ViewsFollowVersions, VersionMatches

LEMMA PrintsTyped ==
  ASSUME NEW facts \in Facts, NEW value \in Costs
  PROVE  Fingerprint(facts, value) \in Prints
BY DEF Fingerprint, Prints

-----------------------------------------------------------------------------
LEMMA SendKeeps ==
  ASSUME IInv, NEW u \in Users, NEW op \in Operations, Send(u, op)
  PROVE  IInv'
<1> DEFINE r == [user |-> u, op |-> op, expected |-> draft.version, view |-> Rows]
<1> USE DEF IInv
<1>1. open' = open \cup {r}
  BY DEF Send
<1>2. TypeOK'
  <2>1. Rows \in View
    BY DEF TypeOK, Rows, View
  <2>2. r \in [user : Users, op : Operations, expected : 0..MaxVersion, view : View]
    BY <2>1 DEF TypeOK, Draft
  <2> QED
    BY <1>1, <2>2 DEF Send, TypeOK
<1>3. EventsFollowVersions'
  BY DEF Send, EventsFollowVersions
<1>4. ViewsFollowVersions'
  <2>1. draft.version \in Nat
    BY DEF TypeOK, Draft
  <2>2. r.expected <= draft.version /\ r.view.events = events /\ r.view.counted = counted
    BY <2>1 DEF Rows
  <2> QED
    BY <1>1, <2>2 DEF Send, ViewsFollowVersions
<1>5. SegregationOfDuties' /\ PostedOnce' /\ PostedAsReviewed'
  BY DEF Send, SegregationOfDuties, PostedOnce, PostedAsReviewed, Contributed
<1> QED
  BY <1>2, <1>3, <1>4, <1>5

LEMMA CloseKeeps ==
  ASSUME IInv, NEW r \in open, Close(r)
  PROVE  IInv'
BY DEF IInv, Close, TypeOK, EventsFollowVersions, ViewsFollowVersions,
       SegregationOfDuties, PostedOnce, PostedAsReviewed, Contributed

LEMMA CostMovesKeeps ==
  ASSUME IInv, CostMoves
  PROVE  IInv'
BY DEF IInv, CostMoves, TypeOK, EventsFollowVersions, ViewsFollowVersions,
       SegregationOfDuties, PostedOnce, PostedAsReviewed, Contributed
-----------------------------------------------------------------------------
(* The steps of the review before a posting.                                 *)
LEMMA CreateDraftKeeps ==
  ASSUME IInv, NEW r \in open, CreateDraft(r)
  PROVE  IInv'
<1> DEFINE fields == [NoDraft EXCEPT !.status = "draft", !.preparedBy = r.user]
<1> USE DEF IInv
<1>1. fields \in Draft /\ fields.status \notin {"applied", "no_adjustment"}
  <2>1. NoDraft \in Draft
    BY BoundsAssumption DEF NoDraft, Draft, Statuses, Person
  <2>2. r.user \in Person
    BY DEF TypeOK, Person
  <2> QED
    BY <2>1, <2>2 DEF Draft, Statuses
<1>2. Change(r, "created", fields) /\ open' = open /\ settlements' = {} /\ settlements = {}
  BY DEF CreateDraft, NoPostedSettlement
<1>3. "created" \in Actions
  BY DEF Actions, Contributions
<1>4. draft' \in Draft /\ events' \subseteq Event /\ draft'.status = fields.status
  BY <1>1, <1>2, <1>3, ChangeFacts
<1>5. TypeOK'
  BY <1>2, <1>4 DEF TypeOK, CreateDraft
<1>7. EventsFollowVersions' /\ ViewsFollowVersions'
  BY <1>1, <1>2, <1>3, ChangeFollows
<1> QED
  BY <1>1, <1>2, <1>4, <1>5, <1>7, BeforePosting

LEMMA EditDraftKeeps ==
  ASSUME IInv, NEW r \in open, EditDraft(r)
  PROVE  IInv'
<1> DEFINE fields == draft
<1> USE DEF IInv
<1>1. fields \in Draft /\ fields.status \notin {"applied", "no_adjustment"}
  BY DEF TypeOK, EditDraft, Editable
<1>2. Change(r, "edited", fields) /\ open' = open /\ settlements' = {} /\ settlements = {}
  BY DEF EditDraft, NoPostedSettlement
<1>3. "edited" \in Actions
  BY DEF Actions, Contributions
<1>4. draft' \in Draft /\ events' \subseteq Event /\ draft'.status = fields.status
  BY <1>1, <1>2, <1>3, ChangeFacts
<1>5. TypeOK'
  BY <1>2, <1>4 DEF TypeOK, EditDraft
<1>7. EventsFollowVersions' /\ ViewsFollowVersions'
  BY <1>1, <1>2, <1>3, ChangeFollows
<1> QED
  BY <1>1, <1>2, <1>4, <1>5, <1>7, BeforePosting

LEMMA SubmitDraftKeeps ==
  ASSUME IInv, NEW r \in open, SubmitDraft(r)
  PROVE  IInv'
<1> DEFINE fields == [draft EXCEPT
              !.status = "pending_review", !.submittedBy = r.user,
              !.print = Fingerprint(r.view.counted, r.view.cost)]
<1> USE DEF IInv
<1>1. fields \in Draft /\ fields.status \notin {"applied", "no_adjustment"}
  <2>1. Fingerprint(r.view.counted, r.view.cost) \in Prints
    BY PrintsTyped DEF TypeOK, View
  <2>2. r.user \in Person
    BY DEF TypeOK, Person
  <2> QED
    BY <2>1, <2>2 DEF TypeOK, Draft, Statuses
<1>2. Change(r, "submitted", fields) /\ open' = open /\ settlements' = {} /\ settlements = {}
  BY DEF SubmitDraft, NoPostedSettlement
<1>3. "submitted" \in Actions
  BY DEF Actions, Contributions
<1>4. draft' \in Draft /\ events' \subseteq Event /\ draft'.status = fields.status
  BY <1>1, <1>2, <1>3, ChangeFacts
<1>5. TypeOK'
  BY <1>2, <1>4 DEF TypeOK, SubmitDraft
<1>7. EventsFollowVersions' /\ ViewsFollowVersions'
  BY <1>1, <1>2, <1>3, ChangeFollows
<1> QED
  BY <1>1, <1>2, <1>4, <1>5, <1>7, BeforePosting

LEMMA ReturnDraftKeeps ==
  ASSUME IInv, NEW r \in open, ReturnDraft(r)
  PROVE  IInv'
<1> DEFINE fields == [draft EXCEPT !.status = "returned"]
<1> USE DEF IInv
<1>1. fields \in Draft /\ fields.status \notin {"applied", "no_adjustment"}
  BY DEF TypeOK, Draft, Statuses
<1>2. Change(r, "returned", fields) /\ open' = open /\ settlements' = {} /\ settlements = {}
  BY DEF ReturnDraft, NoPostedSettlement
<1>3. "returned" \in Actions
  BY DEF Actions, Contributions
<1>4. draft' \in Draft /\ events' \subseteq Event /\ draft'.status = fields.status
  BY <1>1, <1>2, <1>3, ChangeFacts
<1>5. TypeOK'
  BY <1>2, <1>4 DEF TypeOK, ReturnDraft
<1>7. EventsFollowVersions' /\ ViewsFollowVersions'
  BY <1>1, <1>2, <1>3, ChangeFollows
<1> QED
  BY <1>1, <1>2, <1>4, <1>5, <1>7, BeforePosting

LEMMA RequestCorrectionKeeps ==
  ASSUME IInv, NEW r \in open, NEW items \in SUBSET Items,
         RequestCorrection(r, items)
  PROVE  IInv'
<1> DEFINE fields == [draft EXCEPT !.status = "returned"]
<1> USE DEF IInv
<1>1. fields \in Draft /\ fields.status \notin {"applied", "no_adjustment"}
  BY DEF TypeOK, Draft, Statuses
<1>2. /\ Change(r, "correction_requested", fields) /\ open' = open
      /\ settlements' = {} /\ settlements = {}
  BY DEF RequestCorrection, NoPostedSettlement
<1>3. "correction_requested" \in Actions
  BY DEF Actions, Contributions
<1>4. draft' \in Draft /\ events' \subseteq Event /\ draft'.status = fields.status
  BY <1>1, <1>2, <1>3, ChangeFacts
<1>6. corrections' \subseteq [version : 1..MaxVersion, status : {"pending", "corrected"},
                              allowed : SUBSET Items, print : Prints]
  <2>1. Fingerprint(r.view.counted, r.view.cost) \in Prints
    BY PrintsTyped DEF TypeOK, View
  <2>2. draft.version + 1 \in 1..MaxVersion
    BY <1>2, BoundsAssumption DEF Change, TypeOK, Draft
  <2> QED
    BY <2>1, <2>2 DEF TypeOK, RequestCorrection
<1>5. TypeOK'
  BY <1>2, <1>4, <1>6 DEF TypeOK, RequestCorrection
<1>7. EventsFollowVersions' /\ ViewsFollowVersions'
  BY <1>1, <1>2, <1>3, ChangeFollows
<1> QED
  BY <1>1, <1>2, <1>4, <1>5, <1>7, BeforePosting

LEMMA SaveCorrectionKeeps ==
  ASSUME IInv, NEW r \in open, NEW items \in SUBSET Items,
         NEW found \in [items -> Quantities], SaveCorrection(r, found)
  PROVE  IInv'
<1> USE DEF IInv
<1>1. draft \in Draft /\ draft.status = "returned"
  BY DEF SaveCorrection, TypeOK
<1>2. /\ Change(r, "count_corrected", draft) /\ open' = open
      /\ settlements' = {} /\ settlements = {} /\ cost' = cost
  BY DEF SaveCorrection, NoPostedSettlement
<1>3. "count_corrected" \in Actions
  BY DEF Actions, Contributions
<1>4. draft' \in Draft /\ events' \subseteq Event /\ draft'.status = draft.status
  BY <1>1, <1>2, <1>3, ChangeFacts
<1>5. counted' \in Facts
  BY DEF SaveCorrection, TypeOK, Facts
<1>6. corrections' \subseteq [version : 1..MaxVersion, status : {"pending", "corrected"},
                              allowed : SUBSET Items, print : Prints]
  <2>1. PICK c \in corrections :
          corrections' = (corrections \ {c}) \cup {[c EXCEPT !.status = "corrected"]}
    BY DEF SaveCorrection
  <2> QED
    BY <2>1 DEF TypeOK
<1>7. TypeOK'
  BY <1>2, <1>4, <1>5, <1>6 DEF TypeOK
<1>8. EventsFollowVersions' /\ ViewsFollowVersions'
  BY <1>1, <1>2, <1>3, ChangeFollows
<1> QED
  BY <1>1, <1>2, <1>4, <1>7, <1>8, BeforePosting

-----------------------------------------------------------------------------
(* An approval.  By CurrentView its view holds every event, so the approver  *)
(* contributed to none of them; its own event is not a contribution.         *)
LEMMA ApproverIsClean ==
  ASSUME IInv, NEW r \in open, MayApprove(r), NEW action \in {"applied", "no_adjustment"},
         NEW fields \in Draft, Change(r, action, fields),
         fields.approvedBy = r.user, fields.preparedBy = draft.preparedBy,
         fields.submittedBy = draft.submittedBy
  PROVE  SegregationOfDuties'
<1> USE DEF IInv
<1>1. action \in Actions /\ action \notin Contributions
  BY DEF Actions, Contributions
<1>2. /\ draft'.approvedBy = r.user /\ draft'.preparedBy = draft.preparedBy
      /\ draft'.submittedBy = draft.submittedBy
  BY <1>1, ChangeFacts
<1>3. ~ Contributed(r.user, events)
  BY CurrentView DEF MayApprove, Contributed
<1>4. ~ Contributed(r.user, events')
  BY <1>1, <1>3 DEF Contributed, Change
<1> QED
  BY <1>2, <1>4 DEF SegregationOfDuties, MayApprove

LEMMA ApproveNoAdjustmentKeeps ==
  ASSUME IInv, NEW r \in open, ApproveNoAdjustment(r)
  PROVE  IInv'
<1> DEFINE fields == [draft EXCEPT !.status = "no_adjustment", !.approvedBy = r.user]
<1> USE DEF IInv
<1>1. /\ fields \in Draft /\ fields.status = "no_adjustment" /\ fields.approvedBy = r.user
      /\ fields.preparedBy = draft.preparedBy /\ fields.submittedBy = draft.submittedBy
  BY DEF TypeOK, Draft, Statuses, Person
<1>2. /\ MayApprove(r) /\ Change(r, "no_adjustment", fields) /\ open' = open
      /\ settlements' = {}
  BY DEF ApproveNoAdjustment, MayApprove, NoPostedSettlement
<1>3. "no_adjustment" \in Actions
  BY DEF Actions
<1>4. draft' \in Draft /\ events' \subseteq Event /\ draft'.status = "no_adjustment"
  BY <1>1, <1>2, <1>3, ChangeFacts
<1>5. TypeOK'
  BY <1>4 DEF TypeOK, ApproveNoAdjustment
<1>6. EventsFollowVersions' /\ ViewsFollowVersions'
  BY <1>1, <1>2, <1>3, ChangeFollows
<1>7. SegregationOfDuties'
  BY <1>1, <1>2, ApproverIsClean
<1>8. PostedOnce' /\ PostedAsReviewed'
  BY <1>2, <1>4 DEF PostedOnce, PostedAsReviewed
<1> QED
  BY <1>5, <1>6, <1>7, <1>8

LEMMA ApproveAndPostKeeps ==
  ASSUME IInv, NEW r \in open, ApproveAndPost(r)
  PROVE  IInv'
<1> DEFINE fields == [draft EXCEPT !.status = "applied", !.approvedBy = r.user]
           posted == [via |-> "review", by |-> r.user,
                      print |-> Fingerprint(r.view.counted, cost)]
<1> USE DEF IInv
<1>1. /\ fields \in Draft /\ fields.status = "applied" /\ fields.approvedBy = r.user
      /\ fields.preparedBy = draft.preparedBy /\ fields.submittedBy = draft.submittedBy
      /\ fields.print = draft.print
  BY DEF TypeOK, Draft, Statuses, Person
<1>2. /\ MayApprove(r) /\ Change(r, "applied", fields) /\ open' = open
      /\ settlements' = {posted} /\ counted' = counted
  BY DEF ApproveAndPost, MayApprove, NoPostedSettlement
<1>3. "applied" \in Actions
  BY DEF Actions
<1>4. /\ draft' \in Draft /\ events' \subseteq Event /\ draft'.status = "applied"
      /\ draft'.print = draft.print
  BY <1>1, <1>2, <1>3, ChangeFacts
<1>5. TypeOK'
  <2>1. posted.print \in Prints
    BY PrintsTyped DEF TypeOK, View
  <2>2. r.user \in Users
    BY DEF TypeOK
  <2>3. settlements' \subseteq [via : {"review", "direct"}, by : Users, print : Prints]
    BY <1>2, <2>1, <2>2
  <2> QED
    BY <1>4, <2>3 DEF TypeOK, ApproveAndPost
<1>6. EventsFollowVersions' /\ ViewsFollowVersions'
  BY <1>1, <1>2, <1>3, ChangeFollows
<1>7. SegregationOfDuties'
  BY <1>1, <1>2, ApproverIsClean
<1>8. PostedOnce'
  BY <1>2, <1>4 DEF PostedOnce
<1>9. PostedAsReviewed'
  <2>1. r.view.counted = counted
    BY <1>2, CurrentView DEF MayApprove
  <2>2. posted.print = draft.print /\ posted.print.counted = counted
    BY <1>2, <2>1 DEF MayApprove, Fingerprint
  <2> QED
    BY <1>2, <1>4, <2>2 DEF PostedAsReviewed
<1> QED
  BY <1>5, <1>6, <1>7, <1>8, <1>9

LEMMA DirectApplyKeeps ==
  ASSUME IInv, NEW r \in open, DirectApply(r)
  PROVE  IInv'
<1> DEFINE posted == [via |-> "direct", by |-> r.user,
                      print |-> Fingerprint(r.view.counted, cost)]
<1> USE DEF IInv
<1>1. settlements = {} /\ settlements' = {posted} /\ draft' = draft /\ draft.status = "none"
  BY DEF DirectApply, NoPostedSettlement, PostedOnce
<1>2. TypeOK'
  <2>1. posted.print \in Prints
    BY PrintsTyped DEF TypeOK, View
  <2>2. r.user \in Users
    BY DEF TypeOK
  <2>3. settlements' \subseteq [via : {"review", "direct"}, by : Users, print : Prints]
    BY <1>1, <2>1, <2>2
  <2> QED
    BY <2>3 DEF TypeOK, DirectApply
<1>3. EventsFollowVersions' /\ ViewsFollowVersions' /\ SegregationOfDuties'
  BY DEF DirectApply, EventsFollowVersions, ViewsFollowVersions, SegregationOfDuties,
         Contributed
<1>4. PostedOnce' /\ PostedAsReviewed'
  BY <1>1 DEF PostedOnce, PostedAsReviewed
<1> QED
  BY <1>2, <1>3, <1>4

-----------------------------------------------------------------------------
LEMMA NextKeeps == IInv /\ [Next]_vars => IInv'
<1> SUFFICES ASSUME IInv, [Next]_vars
             PROVE  IInv'
  OBVIOUS
<1>1. CASE UNCHANGED vars
  BY <1>1 DEF vars, IInv, TypeOK, EventsFollowVersions, ViewsFollowVersions,
              SegregationOfDuties, PostedOnce, PostedAsReviewed, Contributed
<1>2. CASE CostMoves
  BY <1>2, CostMovesKeeps
<1>3. ASSUME NEW u \in Users, NEW op \in Operations, Send(u, op)
      PROVE  IInv'
  BY <1>3, SendKeeps
<1>4. ASSUME NEW r \in open, Close(r) \/ ApproveAgain(r)
      PROVE  IInv'
  BY <1>4, CloseKeeps DEF ApproveAgain
<1>5. ASSUME NEW r \in open,
             CreateDraft(r) \/ EditDraft(r) \/ SubmitDraft(r) \/ ReturnDraft(r)
      PROVE  IInv'
  BY <1>5, CreateDraftKeeps, EditDraftKeeps, SubmitDraftKeeps, ReturnDraftKeeps
<1>6. ASSUME NEW r \in open, NEW items \in SUBSET Items, RequestCorrection(r, items)
      PROVE  IInv'
  BY <1>6, RequestCorrectionKeeps
<1>7. ASSUME NEW r \in open, NEW items \in SUBSET Items,
             NEW found \in [items -> Quantities], SaveCorrection(r, found)
      PROVE  IInv'
  BY <1>7, SaveCorrectionKeeps
<1>8. ASSUME NEW r \in open,
             ApproveNoAdjustment(r) \/ ApproveAndPost(r) \/ DirectApply(r)
      PROVE  IInv'
  BY <1>8, ApproveNoAdjustmentKeeps, ApproveAndPostKeeps, DirectApplyKeeps
<1> QED
  BY <1>1, <1>2, <1>3, <1>4, <1>5, <1>6, <1>7, <1>8 DEF Next

LEMMA Invariant == Spec => []IInv
<1>1. Init => IInv
  BY InitInv
<1>2. IInv /\ [Next]_vars => IInv'
  BY NextKeeps
<1> QED
  BY <1>1, <1>2, PTL DEF Spec

(* Drafts, events, corrections and requests are always well-formed.          *)
THEOREM TypeCorrect == Spec => []TypeOK
<1>1. IInv => TypeOK
  BY DEF IInv
<1> QED
  BY <1>1, Invariant, PTL

(* Whoever the users are and however their requests interleave, the approver *)
(* of a settlement contributed nothing to it.                                *)
THEOREM ApproverNeverContributed == Spec => []SegregationOfDuties
<1>1. IInv => SegregationOfDuties
  BY DEF IInv
<1> QED
  BY <1>1, Invariant, PTL

(* A count is posted at most once, by the review or directly, never both.    *)
THEOREM CountPostedOnce == Spec => []PostedOnce
<1>1. IInv => PostedOnce
  BY DEF IInv
<1> QED
  BY <1>1, Invariant, PTL

(* A reviewed settlement posts the quantities and cost that were submitted,  *)
(* and they are still the quantities of the count.                           *)
THEOREM PostedWhatWasReviewed == Spec => []PostedAsReviewed
<1>1. IInv => PostedAsReviewed
  BY DEF IInv
<1> QED
  BY <1>1, Invariant, PTL

-----------------------------------------------------------------------------
(* The corrections.  One is asked for only in review, which ends with it, and *)
(* what returns a draft to review looks for it first.                         *)
OnePending ==
  Pending # {} => draft.status = "returned" /\ \E c \in corrections : Pending = {c}

(* A step that leaves the corrections alone, and takes no draft with a        *)
(* pending one out of its status.                                             *)
LEMMA SamePending ==
  ASSUME OnePending, corrections' = corrections,
         Pending = {} \/ draft'.status = draft.status
  PROVE  OnePending'
<1>1. Pending' = Pending
  BY DEF Pending
<1> QED
  BY <1>1 DEF OnePending

LEMMA RequestKeepsOne ==
  ASSUME TypeOK, OnePending, NEW r \in open, NEW items \in SUBSET Items,
         RequestCorrection(r, items)
  PROVE  /\ OnePending'
         /\ \E c : Pending' = {c} /\ c.print = Fingerprint(r.view.counted, r.view.cost)
<1> DEFINE c == [version |-> draft.version + 1, status |-> "pending", allowed |-> items,
                 print |-> Fingerprint(r.view.counted, r.view.cost)]
<1>1. corrections' = corrections \cup {c} /\ Pending = {}
  BY DEF RequestCorrection
<1>2. Pending' = {c}
  <2>1. c.status = "pending"
    OBVIOUS
  <2>2. \A x \in corrections : x.status # "pending"
    BY <1>1 DEF Pending
  <2> HIDE DEF c
  <2>3. Pending' = {x \in corrections' : x.status = "pending"}
    BY DEF Pending
  <2> QED
    BY <1>1, <2>1, <2>2, <2>3
<1>3. draft'.status = "returned"
  <2>1. Change(r, "correction_requested", [draft EXCEPT !.status = "returned"])
    BY DEF RequestCorrection
  <2> QED
    BY <2>1 DEF Change, TypeOK, Draft
<1>4. c.print = Fingerprint(r.view.counted, r.view.cost)
  OBVIOUS
<1> HIDE DEF c
<1> QED
  BY <1>1, <1>2, <1>3, <1>4 DEF OnePending

LEMMA SaveEndsPending ==
  ASSUME TypeOK, NEW r \in open, NEW found, SaveCorrection(r, found)
  PROVE  Pending' = {}
<1>1. PICK c \in corrections :
        /\ Pending = {c}
        /\ corrections' = (corrections \ {c}) \cup {[c EXCEPT !.status = "corrected"]}
  BY DEF SaveCorrection
<1> DEFINE done == [c EXCEPT !.status = "corrected"]
<1>2. done.status = "corrected"
  BY DEF TypeOK
<1> HIDE DEF done
<1>3. \A x \in corrections' : x.status # "pending"
  BY <1>1, <1>2 DEF Pending, done
<1> QED
  BY <1>3 DEF Pending

(* Every other request finds no pending correction, or leaves the status.     *)
LEMMA OtherKeepsOne ==
  ASSUME TypeOK, OnePending, NEW r \in open,
         \/ Close(r) \/ CreateDraft(r) \/ EditDraft(r) \/ SubmitDraft(r) \/ ReturnDraft(r)
         \/ ApproveNoAdjustment(r) \/ ApproveAndPost(r) \/ ApproveAgain(r) \/ DirectApply(r)
  PROVE  OnePending' /\ counted' = counted /\ corrections' = corrections
<1>1. CASE Close(r) \/ ApproveAgain(r) \/ DirectApply(r)
  BY <1>1, SamePending DEF Close, ApproveAgain, DirectApply
<1>2. CASE CreateDraft(r) \/ ReturnDraft(r)
  <2>1. draft.status # "returned"
    BY <1>2 DEF CreateDraft, ReturnDraft
  <2>2. Pending = {}
    BY <2>1 DEF OnePending
  <2> QED
    BY <1>2, <2>2, SamePending DEF CreateDraft, ReturnDraft
<1>3. CASE EditDraft(r) \/ SubmitDraft(r)
  BY <1>3, SamePending DEF EditDraft, SubmitDraft
<1>4. CASE ApproveNoAdjustment(r) \/ ApproveAndPost(r)
  BY <1>4, SamePending DEF ApproveNoAdjustment, ApproveAndPost, MayApprove
<1> QED
  BY <1>1, <1>2, <1>3, <1>4

LEMMA NextKeepsOne == TypeOK /\ OnePending /\ [Next]_vars => OnePending'
<1> SUFFICES ASSUME TypeOK, OnePending, [Next]_vars PROVE OnePending'
  OBVIOUS
<1>1. CASE (\E u \in Users, op \in Operations : Send(u, op)) \/ CostMoves \/ UNCHANGED vars
  <2>1. corrections' = corrections /\ draft' = draft
    BY <1>1 DEF Send, CostMoves, vars
  <2> QED
    BY <2>1, SamePending
<1>2. ASSUME NEW r \in open, NEW items \in SUBSET Items, RequestCorrection(r, items)
      PROVE  OnePending'
  BY <1>2, RequestKeepsOne
<1>3. ASSUME NEW r \in open, NEW items \in SUBSET Items,
             NEW found \in [items -> Quantities], SaveCorrection(r, found)
      PROVE  OnePending'
  BY <1>3, SaveEndsPending DEF OnePending
<1> QED
  BY <1>1, <1>2, <1>3, OtherKeepsOne DEF Next

LEMMA OneCorrect == Spec => []OnePending
<1>1. Init => OnePending
  BY DEF Init, OnePending, Pending
<1> QED
  BY <1>1, NextKeepsOne, TypeCorrect, PTL DEF Spec

(* While a correction is asked for the settlement is out of review, and no    *)
(* second one is asked for: by no interleaving of requests, old or repeated.  *)
THEOREM PendingOnlyReturned == Spec => []PendingMeansReturned
<1>1. OnePending => PendingMeansReturned
  BY FS_Singleton DEF OnePending, PendingMeansReturned
<1> QED
  BY <1>1, OneCorrect, PTL

-----------------------------------------------------------------------------
(* What a periodic count is fingerprinted by: its cost does not enter.        *)
LEMMA PeriodicPrint ==
  ASSUME OpeningBalance = FALSE, NEW facts, NEW value, NEW other
  PROVE  Fingerprint(facts, value) = Fingerprint(facts, other)
BY DEF Fingerprint

LEMMA NextKeepsCompletable ==
  OpeningBalance = FALSE /\ IInv /\ OnePending /\ PendingIsCompletable /\ [Next]_vars
    => PendingIsCompletable'
<1> SUFFICES ASSUME OpeningBalance = FALSE, IInv, OnePending, PendingIsCompletable,
                    [Next]_vars
             PROVE  PendingIsCompletable'
  OBVIOUS
<1>0. ASSUME corrections' = corrections, counted' = counted
      PROVE  PendingIsCompletable'
  <2>1. Pending' = Pending
    BY <1>0 DEF Pending
  <2>2. Fingerprint(counted, cost)' = Fingerprint(counted, cost)
    BY <1>0, PeriodicPrint DEF Fingerprint
  <2> QED
    BY <2>1, <2>2 DEF PendingIsCompletable
<1>1. CASE (\E u \in Users, op \in Operations : Send(u, op)) \/ CostMoves \/ UNCHANGED vars
  BY <1>0, <1>1 DEF Send, CostMoves, vars
<1>2. ASSUME NEW r \in open, NEW items \in SUBSET Items, RequestCorrection(r, items)
      PROVE  PendingIsCompletable'
  <2>1. r.view.counted = counted
    BY <1>2, CurrentView DEF RequestCorrection, IInv
  <2>2. PICK c : Pending' = {c} /\ c.print = Fingerprint(r.view.counted, r.view.cost)
    BY <1>2, RequestKeepsOne DEF IInv
  <2>3. counted' = counted /\ cost' = cost
    BY <1>2 DEF RequestCorrection
  <2>4. Fingerprint(counted, r.view.cost) = Fingerprint(counted, cost)
    BY PeriodicPrint
  <2>5. Fingerprint(counted, cost)' = Fingerprint(counted, cost)
    BY <2>3 DEF Fingerprint
  <2> QED
    BY <2>1, <2>2, <2>4, <2>5 DEF PendingIsCompletable
<1>3. ASSUME NEW r \in open, NEW items \in SUBSET Items,
             NEW found \in [items -> Quantities], SaveCorrection(r, found)
      PROVE  PendingIsCompletable'
  BY <1>3, SaveEndsPending DEF PendingIsCompletable, IInv
<1> QED
  BY <1>0, <1>1, <1>2, <1>3, OtherKeepsOne DEF Next, IInv

(* Of a periodic count, a correction that was asked for can be saved as long  *)
(* as it is pending: the facts it was asked about, read in a view, are those  *)
(* of the count now.  (Of an opening balance the cost enters, and moves.)     *)
THEOREM PeriodicCorrectionSaves ==
  ASSUME OpeningBalance = FALSE
  PROVE  Spec => []PendingIsCompletable
<1>1. Init => PendingIsCompletable
  BY DEF Init, PendingIsCompletable, Pending
<1> QED
  BY <1>1, NextKeepsCompletable, Invariant, OneCorrect, PTL DEF Spec
==============================================================================
