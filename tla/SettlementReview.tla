--------------------------- MODULE SettlementReview ---------------------------
(* The review of the settlement of one completed count.                       *)
(*                                                                            *)
(* A preparer drafts and submits the settlement; a reviewer returns it, asks  *)
(* for some items to be counted again, or approves it, which posts it.  The   *)
(* administrator's direct endpoint posts the same count without a review.     *)
(* Every mutation is one transaction that locks the count, then the draft;    *)
(* most carry the version of the draft that the user had on the screen.       *)
(* Locking reads see the latest rows; plain reads (count items, events) see   *)
(* the read view of the transaction, which is at the oldest the one of BEGIN. *)
(*                                                                            *)
(* StockLedger says what a posting does to the stock; here it is a row of     *)
(* inventory_settlements, with the facts it was computed from.                *)
EXTENDS Integers, FiniteSets

CONSTANTS
  Preparers, Reviewers,  \* users whose role may prepare, may review
  Privileged,            \* administrators and owners: both of them
  Null,                  \* the value of a column that is not set
  Items,                 \* the items of the count
  Quantities,            \* what counting an item may find
  System,                \* the quantity the count expects of each item
  Costs,                 \* the average costs of the counted records
  OpeningBalance,        \* TRUE: an opening balance, valued at the current cost
  MaxVersion,            \* bound: versions of the draft
  MaxOpen                \* bound: requests in flight at once

ASSUME RolesAssumption ==
  Privileged \subseteq Preparers \cap Reviewers /\ Null \notin Preparers \cup Reviewers
ASSUME SystemAssumption == System \in [Items -> Quantities]
ASSUME BoundsAssumption ==
  OpeningBalance \in BOOLEAN /\ MaxVersion \in Nat /\ MaxOpen \in Nat

VARIABLES
  counted,      \* inventory_count_items.countedQuantity
  cost,         \* inventory.averageCost of the counted records
  draft,        \* the inventory_settlement_drafts row of the count
  events,       \* inventory_settlement_draft_events
  corrections,  \* inventory_count_corrections
  settlements,  \* inventory_settlements of the count
  open          \* the requests in flight, each with its read view

vars == <<counted, cost, draft, events, corrections, settlements, open>>

Users == Preparers \cup Reviewers

-----------------------------------------------------------------------------
NoDraft == [status |-> "none", version |-> 0, preparedBy |-> Null,
            submittedBy |-> Null, print |-> Null, approvedBy |-> Null]

Contributions == {"created", "edited", "submitted", "count_corrected"}
Actions == Contributions \cup {"returned", "correction_requested", "applied",
                               "no_adjustment"}
Operations == {"create", "edit", "submit", "correct", "return", "request",
               "approve", "direct"}

(* Who may call each procedure.                                              *)
Allowed(op) == CASE op \in {"create", "edit", "submit", "correct"} -> Preparers
                 [] op \in {"return", "request", "approve"} -> Reviewers
                 [] OTHER -> Privileged

(* sourceFingerprint: the frozen facts of the count, and for an opening      *)
(* balance the cost it will be valued at.                                    *)
Fingerprint(facts, value) ==
  [counted |-> facts, cost |-> IF OpeningBalance THEN value ELSE Null]

Rows == [counted |-> counted, cost |-> cost, events |-> events]

Init ==
  /\ counted \in [Items -> Quantities]
  /\ cost \in Costs
  /\ draft = NoDraft
  /\ events = {}
  /\ corrections = {}
  /\ settlements = {}
  /\ open = {}

-----------------------------------------------------------------------------
(* A request reaches the server and its transaction begins.  It names the    *)
(* version on the screen (a correction, the request of that version); one    *)
(* with an older version is one sent earlier.                                *)
Send(u, op) ==
  /\ u \in Allowed(op)
  /\ Cardinality(open) < MaxOpen
  /\ open' = open \cup {[user |-> u, op |-> op, expected |-> draft.version,
                         view |-> Rows]}
  /\ UNCHANGED <<counted, cost, draft, events, corrections, settlements>>

(* A refusal, an error or an answer that arrives.  Until then the request    *)
(* may be handled again: it was repeated, or its answer was lost.            *)
Close(r) ==
  /\ open' = open \ {r}
  /\ UNCHANGED <<counted, cost, draft, events, corrections, settlements>>

(* Receipts and edits of the records move their average cost.                *)
CostMoves ==
  /\ OpeningBalance
  /\ cost' \in Costs \ {cost}
  /\ UNCHANGED <<counted, draft, events, corrections, settlements, open>>

-----------------------------------------------------------------------------
Editable == draft.status \in {"draft", "returned"}
Owns(u) == u \in Privileged \/ draft.preparedBy = u
NoPostedSettlement == settlements = {}
Pending == {c \in corrections : c.status = "pending"}

(* The transaction has the locks and finds the draft; and the version that   *)
(* the user saw.                                                             *)
Handling(r, op) == r.op = op /\ draft.status # "none"
VersionMatches(r) == r.expected = draft.version

(* Each change of the draft bumps its version and records one event.         *)
Change(r, action, fields) ==
  /\ draft.version < MaxVersion
  /\ draft' = [fields EXCEPT !.version = draft.version + 1]
  /\ events' = events \cup {[version |-> draft.version + 1, action |-> action,
                             actor |-> r.user]}

CreateDraft(r) ==
  /\ r.op = "create"
  /\ draft.status = "none"          \* the unique index on the source count
  /\ NoPostedSettlement
  /\ Change(r, "created", [NoDraft EXCEPT !.status = "draft", !.preparedBy = r.user])
  /\ UNCHANGED <<counted, cost, corrections, settlements, open>>

EditDraft(r) ==
  /\ Handling(r, "edit")
  /\ Owns(r.user) /\ VersionMatches(r) /\ Editable
  /\ Pending = {} /\ NoPostedSettlement
  /\ Change(r, "edited", draft)
  /\ UNCHANGED <<counted, cost, corrections, settlements, open>>

SubmitDraft(r) ==
  /\ Handling(r, "submit")
  /\ Owns(r.user) /\ VersionMatches(r) /\ Editable
  /\ Pending = {} /\ NoPostedSettlement
  /\ Change(r, "submitted",
            [draft EXCEPT !.status = "pending_review", !.submittedBy = r.user,
                          !.print = Fingerprint(r.view.counted, r.view.cost)])
  /\ UNCHANGED <<counted, cost, corrections, settlements, open>>

ReturnDraft(r) ==
  /\ Handling(r, "return")
  /\ VersionMatches(r) /\ draft.status = "pending_review" /\ NoPostedSettlement
  /\ Change(r, "returned", [draft EXCEPT !.status = "returned"])
  /\ UNCHANGED <<counted, cost, corrections, settlements, open>>

(* A plausible bug: the draft stays in review while its count is corrected.  *)
RequestCorrectionInReview(r, items) ==
  /\ Handling(r, "request")
  /\ VersionMatches(r) /\ draft.status = "pending_review"
  /\ NoPostedSettlement /\ Pending = {}
  /\ items # {}
  /\ corrections' = corrections \cup
       {[version |-> draft.version + 1, status |-> "pending", allowed |-> items,
         print |-> Fingerprint(r.view.counted, r.view.cost)]}
  /\ Change(r, "correction_requested", draft)
  /\ UNCHANGED <<counted, cost, settlements, open>>

RequestCorrection(r, items) ==
  /\ Handling(r, "request")
  /\ VersionMatches(r) /\ draft.status = "pending_review"
  /\ NoPostedSettlement /\ Pending = {}
  /\ items # {}
  /\ corrections' = corrections \cup
       {[version |-> draft.version + 1, status |-> "pending", allowed |-> items,
         print |-> Fingerprint(r.view.counted, r.view.cost)]}
  /\ Change(r, "correction_requested", [draft EXCEPT !.status = "returned"])
  /\ UNCHANGED <<counted, cost, settlements, open>>

(* A plausible bug: the request is not closed when the items are saved.      *)
SaveCorrectionLeftOpen(r, found) ==
  /\ Handling(r, "correct")
  /\ Owns(r.user) /\ draft.status = "returned" /\ NoPostedSettlement
  /\ \E c \in Pending :
       /\ c.version = r.expected
       /\ DOMAIN found = c.allowed
       /\ c.print = Fingerprint(r.view.counted, r.view.cost)
  /\ counted' = [i \in Items |-> IF i \in DOMAIN found THEN found[i] ELSE counted[i]]
  /\ Change(r, "count_corrected", draft)
  /\ UNCHANGED <<cost, corrections, settlements, open>>

(* It names the request it answers instead of a version.                     *)
SaveCorrection(r, found) ==
  /\ Handling(r, "correct")
  /\ Owns(r.user) /\ draft.status = "returned" /\ NoPostedSettlement
  /\ \E c \in corrections :
       /\ Pending = {c} /\ c.version = r.expected
       /\ DOMAIN found = c.allowed
       /\ c.print = Fingerprint(r.view.counted, r.view.cost)
       /\ corrections' = (corrections \ {c}) \cup {[c EXCEPT !.status = "corrected"]}
  /\ counted' = [i \in Items |-> IF i \in DOMAIN found THEN found[i] ELSE counted[i]]
  /\ Change(r, "count_corrected", draft)
  /\ UNCHANGED <<cost, settlements, open>>

(* Approval reads the events and the items in its view, and the cost of an   *)
(* opening balance under a lock.                                             *)
Contributed(u, log) == \E e \in log : e.actor = u /\ e.action \in Contributions

(* Plausible bugs: the version is not compared; the cost is read in the view.*)
MayApproveAnyVersion(r) ==
  /\ Handling(r, "approve")
  /\ draft.status = "pending_review"
  /\ r.user \notin {draft.preparedBy, draft.submittedBy}
  /\ ~ Contributed(r.user, r.view.events)
  /\ NoPostedSettlement /\ Pending = {}
  /\ draft.print = Fingerprint(r.view.counted, cost)

MayApproveAtOldCost(r) ==
  /\ Handling(r, "approve")
  /\ VersionMatches(r) /\ draft.status = "pending_review"
  /\ r.user \notin {draft.preparedBy, draft.submittedBy}
  /\ ~ Contributed(r.user, r.view.events)
  /\ NoPostedSettlement /\ Pending = {}
  /\ draft.print = Fingerprint(r.view.counted, r.view.cost)

MayApprove(r) ==
  /\ Handling(r, "approve")
  /\ VersionMatches(r) /\ draft.status = "pending_review"
  /\ r.user \notin {draft.preparedBy, draft.submittedBy}
  /\ ~ Contributed(r.user, r.view.events)
  /\ NoPostedSettlement /\ Pending = {}
  /\ draft.print = Fingerprint(r.view.counted, cost)

ApproveNoAdjustment(r) ==
  /\ MayApprove(r)
  /\ r.view.counted = System
  /\ Change(r, "no_adjustment",
            [draft EXCEPT !.status = "no_adjustment", !.approvedBy = r.user])
  /\ UNCHANGED <<counted, cost, corrections, settlements, open>>

ApproveAndPost(r) ==
  /\ MayApprove(r)
  /\ r.view.counted # System
  /\ settlements' = settlements \cup
       {[via |-> "review", by |-> r.user, print |-> Fingerprint(r.view.counted, cost)]}
  /\ Change(r, "applied", [draft EXCEPT !.status = "applied", !.approvedBy = r.user])
  /\ UNCHANGED <<counted, cost, corrections, open>>

(* The exact retry of an approval whose answer was lost is answered again.   *)
ApproveAgain(r) ==
  /\ Handling(r, "approve")
  /\ draft.status \in {"applied", "no_adjustment"} /\ draft.approvedBy = r.user
  /\ r.expected = draft.version - 1
  /\ Close(r)

(* A plausible bug: the direct endpoint does not look for a review.          *)
DirectApplyDuringReview(r) ==
  /\ r.op = "direct"
  /\ NoPostedSettlement
  /\ r.view.counted # System
  /\ settlements' = settlements \cup
       {[via |-> "direct", by |-> r.user, print |-> Fingerprint(r.view.counted, cost)]}
  /\ UNCHANGED <<counted, cost, draft, events, corrections, open>>

(* applySettlement called directly: refused as soon as a review exists.      *)
DirectApply(r) ==
  /\ r.op = "direct"
  /\ draft.status \in {"none", "applied"} /\ Pending = {}
  /\ NoPostedSettlement
  /\ r.view.counted # System
  /\ settlements' = settlements \cup
       {[via |-> "direct", by |-> r.user, print |-> Fingerprint(r.view.counted, cost)]}
  /\ UNCHANGED <<counted, cost, draft, events, corrections, open>>

Next ==
  \/ \E u \in Users, op \in Operations : Send(u, op)
  \/ \E r \in open :
       \/ Close(r)
       \/ CreateDraft(r) \/ EditDraft(r) \/ SubmitDraft(r) \/ ReturnDraft(r)
       \/ \E items \in SUBSET Items : RequestCorrection(r, items)
       \/ \E items \in SUBSET Items : \E found \in [items -> Quantities] :
             SaveCorrection(r, found)
       \/ ApproveNoAdjustment(r) \/ ApproveAndPost(r) \/ ApproveAgain(r)
       \/ DirectApply(r)
  \/ CostMoves

Spec == Init /\ [][Next]_vars

-----------------------------------------------------------------------------
Statuses == {"none", "draft", "pending_review", "returned", "applied", "no_adjustment"}

Person == Users \cup {Null}
Facts  == [Items -> Quantities]
Prints == [counted : Facts, cost : Costs \cup {Null}]
Draft  == [status : Statuses, version : 0..MaxVersion, preparedBy : Person,
           submittedBy : Person, print : Prints \cup {Null}, approvedBy : Person]
Event  == [version : 1..MaxVersion, action : Actions, actor : Users]
View   == [counted : Facts, cost : Costs, events : SUBSET Event]

(* Every row has the shape of its table, and every request that of its call. *)
TypeOK ==
  /\ counted \in Facts
  /\ cost \in Costs
  /\ draft \in Draft
  /\ events \subseteq Event
  /\ corrections \subseteq [version : 1..MaxVersion, status : {"pending", "corrected"},
                            allowed : SUBSET Items, print : Prints]
  /\ settlements \subseteq [via : {"review", "direct"}, by : Users, print : Prints]
  /\ open \subseteq [user : Users, op : Operations, expected : 0..MaxVersion, view : View]

(* Nobody approves a settlement that he prepared, edited, submitted or whose *)
(* count he corrected, although the events are read from a view that may be  *)
(* older than the draft.                                                     *)
SegregationOfDuties ==
  draft.status \in {"applied", "no_adjustment"} =>
    /\ draft.approvedBy \notin {draft.preparedBy, draft.submittedBy}
    /\ ~ Contributed(draft.approvedBy, events)

(* A count is posted at most once, by either path, whatever requests race or *)
(* are repeated; and the two paths exclude each other.                       *)
PostedOnce ==
  /\ \A s1, s2 \in settlements : s1 = s2
  /\ \A s \in settlements : IF s.via = "review" THEN draft.status = "applied"
                                                ELSE draft.status = "none"
  /\ draft.status = "applied" => settlements # {}

(* What an approval posts is what the preparer submitted and the reviewer    *)
(* saw: the same quantities, at the same cost, and the count still says so.  *)
PostedAsReviewed ==
  \A s \in settlements : s.via = "review" =>
    s.print = draft.print /\ s.print.counted = counted

(* While a correction is asked for, the draft is out of review, and it is    *)
(* the only one.                                                             *)
PendingMeansReturned ==
  Pending # {} => draft.status = "returned" /\ Cardinality(Pending) = 1

(* A correction that was asked for can still be saved: the facts it was      *)
(* asked about have not changed.  Nothing else ends it, and until it ends    *)
(* the draft can be neither edited, submitted nor replaced.                  *)
PendingIsCompletable == \A c \in Pending : c.print = Fingerprint(counted, cost)
==============================================================================
