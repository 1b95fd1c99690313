------------------------------- MODULE LotBook -------------------------------
(* What the stock tables promise, without transactions, locks or read views: *)
(* a book with one cell per lot and inventory record.  Every movement takes  *)
(* effect on the book as it is at that moment, all at once; only a cell that *)
(* is under a count is corrected; and what a recipient brings back is part   *)
(* of what was delivered from that cell.                                     *)
EXTENDS Integers

CONSTANTS Lots, Invs,
          Quantities   \* the quantities one movement may carry

VARIABLES
  exists,      \* exists[l]: lot l has been created
  cell,        \* cell[l][i]: quantity of lot l in inventory record i
  delivered,   \* delivered[l][i]: quantity delivered from the cell, not returned
  underCount   \* the pairs <<l, i>> some count holds

bookVars == <<exists, cell, delivered, underCount>>

Add(m, l, i, q) == [m EXCEPT ![l][i] = @ + q]

BookInit ==
  /\ exists     = [l \in Lots |-> FALSE]
  /\ cell       = [l \in Lots |-> [i \in Invs |-> 0]]
  /\ delivered  = [l \in Lots |-> [i \in Invs |-> 0]]
  /\ underCount = {}

(* A lot enters the book once, into one record.                              *)
Enter(l, i, q) ==
  /\ ~ exists[l]
  /\ exists' = [exists EXCEPT ![l] = TRUE]
  /\ cell' = Add(cell, l, i, q)
  /\ UNCHANGED <<delivered, underCount>>

(* q units leave the cell for good (disposal, return to the supplier).       *)
Remove(l, i, q) ==
  /\ exists[l] /\ q <= cell[l][i]
  /\ cell' = Add(cell, l, i, -q)
  /\ UNCHANGED <<exists, delivered, underCount>>

(* q units are delivered to a recipient, who may bring some of them back.    *)
Deliver(l, i, q) ==
  /\ exists[l] /\ q <= cell[l][i]
  /\ cell' = Add(cell, l, i, -q)
  /\ delivered' = Add(delivered, l, i, q)
  /\ UNCHANGED <<exists, underCount>>

TakeBack(l, i, q) ==
  /\ exists[l] /\ q <= delivered[l][i]
  /\ cell' = Add(cell, l, i, q)
  /\ delivered' = Add(delivered, l, i, -q)
  /\ UNCHANGED <<exists, underCount>>

Move(l, i, j, q) ==
  /\ exists[l] /\ i # j /\ q <= cell[l][i]
  /\ cell' = Add(Add(cell, l, i, -q), l, j, q)
  /\ UNCHANGED <<exists, delivered, underCount>>

(* Counts take hold of cells of existing lots and let go of them; a          *)
(* settlement corrects cells it lets go of or that other counts still hold.  *)
Count ==
  /\ \A p \in underCount' \ underCount : exists[p[1]]
  /\ \A l \in Lots, i \in Invs :
        /\ cell'[l][i] >= 0
        /\ <<l, i>> \notin underCount => cell'[l][i] = cell[l][i]
  /\ UNCHANGED <<exists, delivered>>

BookNext ==
  \/ \E l \in Lots, i \in Invs, q \in Quantities :
        \/ Enter(l, i, q) \/ Remove(l, i, q)
        \/ Deliver(l, i, q) \/ TakeBack(l, i, q)
  \/ \E l \in Lots, i, j \in Invs, q \in Quantities : Move(l, i, j, q)
  \/ Count

BookSpec == BookInit /\ [][BookNext]_bookVars
==============================================================================
