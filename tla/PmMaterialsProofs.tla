--------------------------- MODULE PmMaterialsProofs ---------------------------
(* Theorems about PmMaterials, for any number of requests, materials, lots    *)
(* and quantities.                                                            *)
EXTENDS PmMaterials, RunningTotalsTheorems, FiniteSetTheorems

-----------------------------------------------------------------------------
(* What the operators on quantities return.                                  *)
LEMMA LeastNat == \A a, b \in Nat : Least(a, b) \in Nat /\ Least(a, b) <= a /\ Least(a, b) <= b
  BY DEF Least

LEMMA PositiveNat == \A a \in Int : Positive(a) \in Nat /\ Positive(a) >= a
  BY DEF Positive

LEMMA GreedyNat ==
  ASSUME NEW n \in Nat, NEW a, \A k \in 1..n : a[k] \in Nat, NEW q \in Nat, NEW p \in 1..n
  PROVE  Greedy(a, q, p) \in Nat /\ Greedy(a, q, p) <= a[p]
<1>1. Total(a, p - 1) \in Nat
  <2>1. p - 1 \in Nat /\ \A k \in 1..(p-1) : a[k] \in Nat
    OBVIOUS
  <2> QED
    BY <2>1, TotalNat
<1>2. Positive(q - Total(a, p - 1)) \in Nat /\ a[p] \in Nat
  BY <1>1, PositiveNat
<1> QED
  BY <1>2, LeastNat DEF Greedy

(* Taking greedily takes all that is asked for, or all there is.             *)
LEMMA GreedyTotal ==
  ASSUME NEW n \in Nat, NEW a, \A k \in 1..n : a[k] \in Nat, NEW q \in Nat
  PROVE  Total([k \in 1..n |-> Greedy(a, q, k)], n) = Least(q, Total(a, n))
<1> DEFINE g == [k \in 1..n |-> Greedy(a, q, k)]
           Bad == {m \in 0..n : Total(g, m) # Least(q, Total(a, m))}
<1>1. /\ \A k \in 1..n : g[k] = Greedy(a, q, k) /\ g[k] \in Int
      /\ \A m \in 0..n : Summable(g, m) /\ Summable(a, m) /\ Total(a, m) \in Nat
  <2>1. \A k \in 1..n : g[k] = Greedy(a, q, k) /\ g[k] \in Nat
    BY GreedyNat
  <2>2. ASSUME NEW m \in 0..n
        PROVE  Summable(g, m) /\ Summable(a, m) /\ Total(a, m) \in Nat
    <3>1. m \in Nat /\ 1..m \subseteq 1..n
      OBVIOUS
    <3>2. (\A k \in 1..m : a[k] \in Nat) /\ (\A k \in 1..m : g[k] \in Int)
      BY <3>1, <2>1
    <3>3. Total(a, m) \in Nat
      BY <3>1, <3>2, TotalNat
    <3> QED
      BY <3>2, <3>3 DEF Summable
  <2> HIDE DEF g
  <2> QED
    BY <2>1, <2>2
<1> HIDE DEF g
<1>2. ASSUME Bad # {}
      PROVE  FALSE
  <2>1. PICK m \in Bad : \A k \in Bad : m <= k
    <3>1. Bad \in SUBSET Nat
      OBVIOUS
    <3> QED
      BY <3>1, <1>2, LeastElement
  <2>2. m # 0
    <3>1. Total(g, 0) = 0 /\ Total(a, 0) = 0
      BY TotalOfNothing
    <3> QED
      BY <2>1, <3>1 DEF Least
  <2>3. m - 1 \in 0..n /\ m - 1 \notin Bad /\ m \in 1..n
    BY <2>1, <2>2
  <2>4. Total(g, m - 1) = Least(q, Total(a, m - 1))
    BY <2>3
  <2>5. Total(g, m) = Total(g, m - 1) + g[m] /\ Total(a, m) = Total(a, m - 1) + a[m]
    <3>1. (m - 1) + 1 = m /\ m - 1 \in Nat
      BY <2>3
    <3>2. Summable(g, m) /\ Summable(a, m)
      BY <2>3, <1>1
    <3> QED
      BY <3>1, <3>2, TotalOfNext
  <2>6. g[m] = Greedy(a, q, m) /\ Total(a, m - 1) \in Nat /\ a[m] \in Nat
    BY <2>3, <1>1
  <2>7. Total(g, m) = Least(q, Total(a, m))
    BY <2>4, <2>5, <2>6 DEF Greedy, Least, Positive
  <2> QED
    BY <2>1, <2>7
<1>3. n \notin Bad /\ n \in 0..n
  BY <1>2
<1> QED
  BY <1>3 DEF g

-----------------------------------------------------------------------------
(* The types.                                                                *)

(* What a request remembers at each of its steps refers to what exists.      *)
RequestOK(p, R, D) ==
  /\ p.at # "mark" => p.route \in R
  /\ p.at = "plan" => p.quantity \in Nat
  /\ p.at = "issue" => p.plan \in [Lots -> Nat]
  /\ p.at \in {"read", "link", "late"} => p.delivery \in D /\ p.plan \in [Lots -> Nat]
  /\ p.at = "mark" => p.delivery \in D
  /\ p.at = "planReturn" => p.lots \in [Lots -> Nat]
  /\ p.at \in {"return", "record"} =>
       DOMAIN p.plan \subseteq D /\ p.plan \in [DOMAIN p.plan -> Nat]
  /\ p.at = "record" => p.delivery \in DOMAIN p.plan
  /\ p.at = "finalize" => p.net \in Nat

RequestsOK ==
  \A c \in Clerks : proc[c] # None => RequestOK(proc[c], DOMAIN routes, DOMAIN deliveries)

Types ==
  /\ TypeOK
  /\ RequestsOK
  /\ \A d \in DOMAIN deliveries : deliveries[d].quantity > 0

(* One request goes on, and what the others refer to is still there.         *)
LEMMA RequestsGoOn ==
  ASSUME TypeOK, RequestsOK, NEW c \in Clerks, NEW p, Continue(c, p),
         DOMAIN routes \subseteq DOMAIN routes',
         DOMAIN deliveries \subseteq DOMAIN deliveries',
         p # None => RequestOK(p, DOMAIN routes', DOMAIN deliveries')
  PROVE  RequestsOK' /\ DOMAIN proc' = Clerks
<1>1. /\ DOMAIN proc' = Clerks
      /\ proc'[c] = p
      /\ \A e \in Clerks : e # c => proc'[e] = proc[e]
  BY DEF TypeOK, Continue
<1>2. ASSUME NEW e \in Clerks, proc'[e] # None
      PROVE  RequestOK(proc'[e], DOMAIN routes', DOMAIN deliveries')
  <2>1. CASE e = c
    BY <2>1, <1>1, <1>2
  <2>2. CASE e # c
    <3>1. RequestOK(proc[e], DOMAIN routes, DOMAIN deliveries) /\ proc'[e] = proc[e]
      BY <2>2, <1>1, <1>2 DEF RequestsOK
    <3> QED
      BY <3>1 DEF RequestOK
  <2> QED
    BY <2>1, <2>2
<1> QED
  BY <1>1, <1>2 DEF RequestsOK

(* Goods move: what happens to stock and deliveries.                         *)
LEMMA StockOf ==
  ASSUME TypeOK, NEW item \in Items, NEW l \in Lots, NEW v \in Nat,
         stock' = [stock EXCEPT ![item][l] = v]
  PROVE  stock' \in [Items -> [Lots -> Nat]]
  BY DEF TypeOK

LEMMA GiveBackEffect ==
  ASSUME TypeOK, NEW d \in DOMAIN deliveries, NEW item \in Items, NEW q \in Nat,
         GiveBack(d, item, q)
  PROVE  /\ deliveries' \in Seq(Deliveries) /\ stock' \in [Items -> [Lots -> Nat]]
         /\ Len(deliveries') = Len(deliveries) /\ DOMAIN deliveries' = DOMAIN deliveries
         /\ \A e \in DOMAIN deliveries :
              /\ deliveries'[e].quantity = deliveries[e].quantity
              /\ deliveries'[e].returned = deliveries[e].returned + (IF e = d THEN q ELSE 0)
<1>1. deliveries[d] \in Deliveries /\ deliveries \in Seq(Deliveries)
  BY DEF TypeOK
<1> DEFINE x == [deliveries[d] EXCEPT !.returned = @ + q]
<1>2. x \in Deliveries /\ x.quantity = deliveries[d].quantity
      /\ x.returned = deliveries[d].returned + q
  <2>1. /\ deliveries[d].route \in Nat /\ deliveries[d].lot \in Lots
        /\ deliveries[d].quantity \in Nat /\ deliveries[d].marked \in BOOLEAN
        /\ deliveries[d].returned \in Nat
    BY <1>1 DEF Deliveries
  <2>2. deliveries[d] = [route |-> deliveries[d].route, lot |-> deliveries[d].lot,
                         quantity |-> deliveries[d].quantity, marked |-> deliveries[d].marked,
                         returned |-> deliveries[d].returned]
    BY <1>1 DEF Deliveries
  <2>3. x = [route |-> deliveries[d].route, lot |-> deliveries[d].lot,
             quantity |-> deliveries[d].quantity, marked |-> deliveries[d].marked,
             returned |-> deliveries[d].returned + q]
    BY <2>2
  <2> QED
    BY <2>1, <2>3 DEF Deliveries
<1>3. deliveries' = [deliveries EXCEPT ![d] = x]
  BY DEF GiveBack
<1> HIDE DEF x
<1>4. deliveries' \in Seq(Deliveries) /\ Len(deliveries') = Len(deliveries)
      /\ DOMAIN deliveries' = DOMAIN deliveries
      /\ \A e \in DOMAIN deliveries : deliveries'[e] = IF e = d THEN x ELSE deliveries[e]
  BY <1>1, <1>2, <1>3
<1>5. \A e \in DOMAIN deliveries : deliveries[e].returned \in Nat
  <2>1. \A e \in DOMAIN deliveries : deliveries[e] \in Deliveries
    BY <1>1
  <2> QED
    BY <2>1 DEF Deliveries
<1>6. stock' \in [Items -> [Lots -> Nat]]
  <2>1. deliveries[d].lot \in Lots
    BY <1>1 DEF Deliveries
  <2>2. stock[item][deliveries[d].lot] \in Nat
    BY <2>1 DEF TypeOK
  <2> QED
    BY <2>1, <2>2 DEF TypeOK, GiveBack
<1> QED
  BY <1>2, <1>4, <1>5, <1>6

(* Nothing but requests goes on.                                             *)
OnlyRequests ==
  UNCHANGED <<status, asked, stock, routes, deliveries, links, declared, parts, usages>>

LEMMA TypesGoOn ==
  ASSUME Types, NEW c \in Clerks, NEW p, Continue(c, p), OnlyRequests,
         p # None => RequestOK(p, DOMAIN routes, DOMAIN deliveries)
  PROVE  Types'
<1>1. RequestsOK' /\ DOMAIN proc' = Clerks
  BY RequestsGoOn DEF Types, OnlyRequests
<1> QED
  BY <1>1 DEF Types, TypeOK, OnlyRequests

(* A member of a sequence is of the sequence's kind.                         *)
LEMMA InSeq == \A S : \A s \in Seq(S) : \A i \in DOMAIN s : s[i] \in S
  OBVIOUS

LEMMA SeqGrows == \A S, T : S \subseteq T => Seq(S) \subseteq Seq(T)
  OBVIOUS

(* What links and parts refer to is still there when more is.                *)
LEMMA ReferencesStay ==
  ASSUME NEW R, NEW R2, NEW D, NEW D2, R \subseteq R2, D \subseteq D2
  PROVE  /\ Seq([delivery : D, route : R]) \subseteq Seq([delivery : D2, route : R2])
         /\ Seq([route : R, delivery : D, quantity : Nat])
              \subseteq Seq([route : R2, delivery : D2, quantity : Nat])
<1>1. [delivery : D, route : R] \subseteq [delivery : D2, route : R2]
  OBVIOUS
<1>2. [route : R, delivery : D, quantity : Nat]
        \subseteq [route : R2, delivery : D2, quantity : Nat]
  OBVIOUS
<1> QED
  BY <1>1, <1>2, SeqGrows

LEMMA LinkedToNat ==
  ASSUME Types, NEW r
  PROVE  LinkedTo(links, r) \in Nat
<1> DEFINE f == [i \in DOMAIN links |->
                   IF links[i].route = r THEN deliveries[links[i].delivery].quantity ELSE 0]
<1>1. Len(links) \in Nat /\ DOMAIN links = 1..Len(links)
  BY DEF Types, TypeOK
<1>2. ASSUME NEW i \in 1..Len(links)
      PROVE  f[i] \in Nat
  <2>1. links[i] \in [delivery : DOMAIN deliveries, route : DOMAIN routes]
    BY <1>1, InSeq, Zenon DEF Types, TypeOK
  <2>2. links[i].delivery \in DOMAIN deliveries
    BY <2>1
  <2>3. deliveries[links[i].delivery] \in Deliveries
    BY <2>2 DEF Types, TypeOK
  <2> QED
    BY <1>1, <2>3 DEF Deliveries
<1> HIDE DEF f
<1>3. Total(f, Len(links)) \in Nat
  BY <1>1, <1>2, TotalNat
<1> QED
  BY <1>3 DEF LinkedTo, f

LEMMA RecordsOf ==
  ASSUME Types
  PROVE  /\ \A r \in DOMAIN routes : routes[r].item \in Items /\ routes[r].required \in Nat
         /\ \A d \in DOMAIN deliveries :
              /\ deliveries[d].quantity \in Nat /\ deliveries[d].returned \in Nat
              /\ deliveries[d].lot \in Lots /\ deliveries[d].route \in Nat
         /\ \A i \in DOMAIN links :
              links[i].delivery \in DOMAIN deliveries /\ links[i].route \in DOMAIN routes
         /\ \A i \in DOMAIN parts :
              /\ parts[i].delivery \in DOMAIN deliveries /\ parts[i].route \in DOMAIN routes
              /\ parts[i].quantity \in Nat
         /\ \A r \in DOMAIN routes : declared[r] # None =>
              declared[r].used \in Nat /\ declared[r].toReturn \in Nat
<1>1. \A r \in DOMAIN routes : routes[r] \in Routes
  BY DEF Types, TypeOK
<1>2. \A d \in DOMAIN deliveries : deliveries[d] \in Deliveries
  BY DEF Types, TypeOK
<1>3. \A i \in DOMAIN links : links[i] \in [delivery : DOMAIN deliveries, route : DOMAIN routes]
  BY InSeq, Zenon DEF Types, TypeOK
<1>4. \A i \in DOMAIN parts :
        parts[i] \in [route : DOMAIN routes, delivery : DOMAIN deliveries, quantity : Nat]
  BY InSeq, Zenon DEF Types, TypeOK
<1>5. \A r \in DOMAIN routes : declared[r] # None => declared[r] \in [used : Nat, toReturn : Nat]
  <2>1. DOMAIN declared = DOMAIN routes
    BY DEF Types, TypeOK
  <2> QED
    BY <2>1 DEF Types, TypeOK
<1> QED
  BY <1>1, <1>2, <1>3, <1>4, <1>5 DEF Routes, Deliveries

(* One more row adds its value.                                              *)
LEMMA TotalOfMore ==
  ASSUME NEW n \in Nat, NEW f, NEW h, Summable(f, n), h[n + 1] \in Int,
         \A k \in 1..n : h[k] = f[k]
  PROVE  Total(h, n + 1) = Total(f, n) + h[n + 1]
<1>1. Summable(h, n + 1)
  BY DEF Summable
<1>2. Total(h, n + 1) = Total(h, n) + h[n + 1]
  BY <1>1, TotalOfNext
<1>3. Total(h, n) = Total(f, n)
  BY TotalOfEqual
<1> QED
  BY <1>2, <1>3

(* What is recorded is a quantity; on a delivery at least what is recorded   *)
(* for a requirement on it.                                                  *)
LEMMA RecordedNat ==
  ASSUME Types, NEW r, NEW d
  PROVE  /\ Recorded(r, d) \in Nat /\ RecordedFor(r) \in Nat /\ RecordedOn(d) \in Nat
         /\ Recorded(r, d) <= RecordedOn(d)
<1> DEFINE both == [i \in DOMAIN parts |->
                      IF parts[i].route = r /\ parts[i].delivery = d
                      THEN parts[i].quantity ELSE 0]
           for == [i \in DOMAIN parts |->
                     IF parts[i].route = r THEN parts[i].quantity ELSE 0]
           on == [i \in DOMAIN parts |->
                    IF parts[i].delivery = d THEN parts[i].quantity ELSE 0]
<1>1. Len(parts) \in Nat /\ DOMAIN parts = 1..Len(parts)
  BY DEF Types, TypeOK
<1>2. \A i \in 1..Len(parts) :
        both[i] \in Nat /\ for[i] \in Nat /\ on[i] \in Nat /\ both[i] <= on[i]
  BY <1>1, RecordsOf
<1>3. /\ Recorded(r, d) = Total(both, Len(parts))
      /\ RecordedFor(r) = Total(for, Len(parts))
      /\ RecordedOn(d) = Total(on, Len(parts))
  BY DEF Recorded, RecordedFor, RecordedOn, TotalOf
<1> HIDE DEF both, for, on
<1>4. /\ \A i \in 1..Len(parts) : both[i] \in Nat
      /\ \A i \in 1..Len(parts) : for[i] \in Nat
      /\ \A i \in 1..Len(parts) : on[i] \in Nat
      /\ \A i \in 1..Len(parts) : both[i] <= on[i]
      /\ Summable(both, Len(parts)) /\ Summable(on, Len(parts))
  BY <1>2 DEF Summable
<1>5. Total(both, Len(parts)) \in Nat
  BY <1>1, <1>4, TotalNat
<1>6. Total(for, Len(parts)) \in Nat
  BY <1>1, <1>4, TotalNat
<1>7. Total(on, Len(parts)) \in Nat
  BY <1>1, <1>4, TotalNat
<1>8. Total(both, Len(parts)) <= Total(on, Len(parts))
  BY <1>1, <1>4, TotalMonotone
<1> QED
  BY <1>3, <1>5, <1>6, <1>7, <1>8

(* Nothing is recorded on a delivery that is not there.                      *)
LEMMA NothingRecorded ==
  ASSUME Types, NEW d, d \notin DOMAIN deliveries
  PROVE  RecordedOn(d) = 0
<1> DEFINE on == [i \in DOMAIN parts |->
                    IF parts[i].delivery = d THEN parts[i].quantity ELSE 0]
<1>1. Len(parts) \in Nat /\ DOMAIN parts = 1..Len(parts)
  BY DEF Types, TypeOK
<1>2. \A i \in 1..Len(parts) : on[i] = 0
  BY <1>1, RecordsOf
<1>3. RecordedOn(d) = Total(on, Len(parts))
  BY DEF RecordedOn, TotalOf
<1> HIDE DEF on
<1> QED
  BY <1>1, <1>2, <1>3, TotalOfZeros

(* A part adds to what is recorded for its requirement and on its delivery.  *)
LEMMA RecordedAdds ==
  ASSUME Types, NEW p \in [route : DOMAIN routes, delivery : DOMAIN deliveries, quantity : Nat],
         parts' = Append(parts, p), NEW r, NEW d
  PROVE  /\ Recorded(r, d)' = Recorded(r, d) + IF p.route = r /\ p.delivery = d
                                               THEN p.quantity ELSE 0
         /\ RecordedFor(r)' = RecordedFor(r) + IF p.route = r THEN p.quantity ELSE 0
         /\ RecordedOn(d)' = RecordedOn(d) + IF p.delivery = d THEN p.quantity ELSE 0
<1> DEFINE both == [i \in DOMAIN parts |->
                      IF parts[i].route = r /\ parts[i].delivery = d
                      THEN parts[i].quantity ELSE 0]
           for == [i \in DOMAIN parts |->
                     IF parts[i].route = r THEN parts[i].quantity ELSE 0]
           on == [i \in DOMAIN parts |->
                    IF parts[i].delivery = d THEN parts[i].quantity ELSE 0]
           both2 == [i \in DOMAIN parts' |->
                       IF parts'[i].route = r /\ parts'[i].delivery = d
                       THEN parts'[i].quantity ELSE 0]
           for2 == [i \in DOMAIN parts' |->
                      IF parts'[i].route = r THEN parts'[i].quantity ELSE 0]
           on2 == [i \in DOMAIN parts' |->
                     IF parts'[i].delivery = d THEN parts'[i].quantity ELSE 0]
           n == Len(parts)
<1>1. n \in Nat /\ DOMAIN parts = 1..n
  BY DEF Types, TypeOK
<1>2. /\ Len(parts') = n + 1 /\ DOMAIN parts' = 1..(n + 1) /\ parts'[n + 1] = p
      /\ \A i \in 1..n : parts'[i] = parts[i]
  BY <1>1 DEF Types, TypeOK
<1>3. \A i \in 1..n : both[i] \in Int /\ for[i] \in Int /\ on[i] \in Int
  BY <1>1, RecordsOf
<1>4. \A i \in 1..n : both2[i] = both[i] /\ for2[i] = for[i] /\ on2[i] = on[i]
  BY <1>1, <1>2
<1>5. /\ both2[n + 1] = IF p.route = r /\ p.delivery = d THEN p.quantity ELSE 0
      /\ for2[n + 1] = IF p.route = r THEN p.quantity ELSE 0
      /\ on2[n + 1] = IF p.delivery = d THEN p.quantity ELSE 0
      /\ both2[n + 1] \in Int /\ for2[n + 1] \in Int /\ on2[n + 1] \in Int
  BY <1>1, <1>2
<1>6. /\ Recorded(r, d) = Total(both, n) /\ Recorded(r, d)' = Total(both2, n + 1)
      /\ RecordedFor(r) = Total(for, n) /\ RecordedFor(r)' = Total(for2, n + 1)
      /\ RecordedOn(d) = Total(on, n) /\ RecordedOn(d)' = Total(on2, n + 1)
  BY <1>2 DEF Recorded, RecordedFor, RecordedOn, TotalOf
<1> HIDE DEF both, for, on, both2, for2, on2
<1>7. /\ Summable(both, n) /\ Summable(for, n) /\ Summable(on, n)
      /\ \A i \in 1..n : both2[i] = both[i]
      /\ \A i \in 1..n : for2[i] = for[i]
      /\ \A i \in 1..n : on2[i] = on[i]
  BY <1>3, <1>4 DEF Summable
<1>8. Total(both2, n + 1) = Total(both, n) + both2[n + 1]
  BY <1>1, <1>5, <1>7, TotalOfMore
<1>9. Total(for2, n + 1) = Total(for, n) + for2[n + 1]
  BY <1>1, <1>5, <1>7, TotalOfMore
<1>10. Total(on2, n + 1) = Total(on, n) + on2[n + 1]
  BY <1>1, <1>5, <1>7, TotalOfMore
<1> QED
  BY <1>5, <1>6, <1>8, <1>9, <1>10

(* A link adds what was delivered; nothing else changes what is linked.      *)
LEMMA LinkedToAdds ==
  ASSUME Types, NEW d \in DOMAIN deliveries, NEW q \in DOMAIN routes, NEW r,
         links' = Append(links, [delivery |-> d, route |-> q]), deliveries' = deliveries
  PROVE  /\ LinkedTo(links', r)
              = LinkedTo(links, r) + IF q = r THEN deliveries[d].quantity ELSE 0
         /\ LinkedTo(links, r)' = LinkedTo(links', r)
<1> DEFINE f == [i \in DOMAIN links |->
                   IF links[i].route = r THEN deliveries[links[i].delivery].quantity ELSE 0]
           h == [i \in DOMAIN links' |->
                   IF links'[i].route = r THEN deliveries[links'[i].delivery].quantity ELSE 0]
           n == Len(links)
<1>1. n \in Nat /\ DOMAIN links = 1..n
  BY DEF Types, TypeOK
<1>2. /\ Len(links') = n + 1 /\ DOMAIN links' = 1..(n + 1)
      /\ links'[n + 1] = [delivery |-> d, route |-> q]
      /\ \A i \in 1..n : links'[i] = links[i]
  BY <1>1 DEF Types, TypeOK
<1>3. \A i \in 1..n : f[i] \in Int
  BY <1>1, RecordsOf
<1>4. \A i \in 1..n : h[i] = f[i]
  BY <1>1, <1>2
<1>5. /\ h[n + 1] = IF q = r THEN deliveries[d].quantity ELSE 0
      /\ h[n + 1] \in Int
  BY <1>1, <1>2, RecordsOf
<1>6. LinkedTo(links, r) = Total(f, n) /\ LinkedTo(links', r) = Total(h, n + 1)
  BY <1>2 DEF LinkedTo
<1>7. LinkedTo(links, r)' = LinkedTo(links', r)
  BY DEF LinkedTo
<1> HIDE DEF f, h
<1>8. Summable(f, n)
  BY <1>3 DEF Summable
<1>9. Total(h, n + 1) = Total(f, n) + h[n + 1]
  BY <1>1, <1>4, <1>5, <1>8, TotalOfMore
<1> QED
  BY <1>5, <1>6, <1>7, <1>9

LEMMA LinkedToStays ==
  ASSUME Types, links' = links, NEW r,
         \A d \in DOMAIN deliveries : deliveries'[d].quantity = deliveries[d].quantity
  PROVE  LinkedTo(links, r)' = LinkedTo(links, r)
<1>1. \A i \in DOMAIN links :
        deliveries'[links[i].delivery].quantity = deliveries[links[i].delivery].quantity
  BY RecordsOf
<1>2. [i \in DOMAIN links |->
         IF links[i].route = r THEN deliveries'[links[i].delivery].quantity ELSE 0]
    = [i \in DOMAIN links |->
         IF links[i].route = r THEN deliveries[links[i].delivery].quantity ELSE 0]
  BY <1>1
<1> QED
  BY <1>2 DEF LinkedTo

LEMMA TypesIssuing ==
  ASSUME Types, NEW c \in Clerks
  PROVE  /\ \A r \in DOMAIN routes : BeginIssue(c, r) => Types'
         /\ PlanIssue(c) => Types'
         /\ \A d \in DOMAIN deliveries, r \in DOMAIN routes : BeginRelink(c, d, r) => Types'
         /\ ReadRequirement(c) => Types'
         /\ LinkAgain(c) => Types'
         /\ LinkFails(c) => Types'
         /\ Fail(c) => Types'
<1>1. proc[c] # None => RequestOK(proc[c], DOMAIN routes, DOMAIN deliveries)
  BY DEF Types, RequestsOK
<1>2. ASSUME NEW r \in DOMAIN routes, BeginIssue(c, r)
      PROVE  Types'
  <2> DEFINE p == [at |-> "plan", route |-> r, quantity |-> Missing(r)]
  <2>1. LinkedTo(links, r) \in Nat /\ routes[r].required \in Nat
    BY LinkedToNat, RecordsOf
  <2>2. Missing(r) \in Nat
    BY <1>2, <2>1 DEF BeginIssue, Missing
  <2>3. RequestOK(p, DOMAIN routes, DOMAIN deliveries)
    BY <2>2 DEF RequestOK
  <2>4. Continue(c, p) /\ OnlyRequests
    BY <1>2 DEF BeginIssue, OnlyRequests
  <2> QED
    BY <2>3, <2>4, TypesGoOn
<1>3. ASSUME PlanIssue(c)
      PROVE  Types'
  <2> DEFINE available == stock[routes[proc[c].route].item]
             plan == [l \in Lots |-> Greedy(available, proc[c].quantity, l)]
             p == [at |-> "issue", route |-> proc[c].route, plan |-> plan]
  <2>1. proc[c].at = "plan" /\ proc[c].route \in DOMAIN routes /\ proc[c].quantity \in Nat
    BY <1>1, <1>3 DEF PlanIssue, At, RequestOK
  <2>2. available \in [Lots -> Nat]
    BY <2>1, RecordsOf DEF Types, TypeOK
  <2>3. plan \in [Lots -> Nat]
    <3>1. NumLots \in Nat /\ \A l \in 1..NumLots : available[l] \in Nat
      BY <2>2, MaterialBounds DEF Lots
    <3> HIDE DEF available
    <3>2. \A l \in Lots : Greedy(available, proc[c].quantity, l) \in Nat
      BY <2>1, <3>1, GreedyNat DEF Lots
    <3> QED
      BY <3>2
  <2>4. Continue(c, p) /\ OnlyRequests
    BY <1>3 DEF PlanIssue, OnlyRequests
  <2> HIDE DEF plan
  <2>5. RequestOK(p, DOMAIN routes, DOMAIN deliveries)
    BY <2>1, <2>3 DEF RequestOK
  <2> QED
    BY <2>4, <2>5, TypesGoOn
<1>4. ASSUME NEW d \in DOMAIN deliveries, NEW r \in DOMAIN routes, BeginRelink(c, d, r)
      PROVE  Types'
  <2> DEFINE p == [at |-> "read", route |-> r, delivery |-> d,
                   plan |-> [l \in Lots |-> 0], issuing |-> FALSE]
  <2>1. Continue(c, p) /\ OnlyRequests
    BY <1>4 DEF BeginRelink, OnlyRequests
  <2>2. RequestOK(p, DOMAIN routes, DOMAIN deliveries)
    BY DEF RequestOK
  <2> QED
    BY <2>1, <2>2, TypesGoOn
<1>5. ASSUME ReadRequirement(c)
      PROVE  Types'
  <2> DEFINE p == [at |-> IF status = "waiting_material" THEN "link" ELSE "late",
                   route |-> proc[c].route, delivery |-> proc[c].delivery,
                   plan |-> proc[c].plan, issuing |-> proc[c].issuing]
  <2>1. Continue(c, p) /\ OnlyRequests
    BY <1>5 DEF ReadRequirement, OnlyRequests
  <2>2. RequestOK(p, DOMAIN routes, DOMAIN deliveries)
    BY <1>1, <1>5 DEF RequestOK, ReadRequirement, At
  <2> QED
    BY <2>1, <2>2, TypesGoOn
<1>6. ASSUME LinkAgain(c)
      PROVE  Types'
  <2>1. Continue(c, AfterLink(proc[c])) /\ OnlyRequests
    BY <1>6 DEF LinkAgain, OnlyRequests
  <2>2. AfterLink(proc[c]) # None =>
          RequestOK(AfterLink(proc[c]), DOMAIN routes, DOMAIN deliveries)
    BY <1>1, <1>6 DEF RequestOK, LinkAgain, At, AfterLink
  <2> QED
    BY <2>1, <2>2, TypesGoOn
<1>7. ASSUME LinkFails(c)
      PROVE  Types'
  <2> DEFINE p == IF proc[c].issuing THEN [at |-> "mark", delivery |-> proc[c].delivery] ELSE None
  <2>1. Continue(c, p) /\ OnlyRequests
    BY <1>7 DEF LinkFails, OnlyRequests
  <2>2. p # None => RequestOK(p, DOMAIN routes, DOMAIN deliveries)
    BY <1>1, <1>7 DEF RequestOK, LinkFails, At
  <2> QED
    BY <2>1, <2>2, TypesGoOn
<1>8. ASSUME Fail(c)
      PROVE  Types'
  BY <1>8, TypesGoOn DEF Fail, OnlyRequests
<1> QED
  BY <1>2, <1>3, <1>4, <1>5, <1>6, <1>7, <1>8

LEMMA TypesIssue ==
  ASSUME Types, NEW c \in Clerks, IssueDelivery(c)
  PROVE  /\ Types'
         /\ links' = links /\ parts' = parts /\ routes' = routes
         /\ Len(deliveries') = Len(deliveries) + 1
         /\ \A d \in DOMAIN deliveries : d \in DOMAIN deliveries' /\ deliveries'[d] = deliveries[d]
<1>1. /\ proc[c].at = "issue" /\ proc[c] # None
      /\ proc[c].route \in DOMAIN routes /\ proc[c].plan \in [Lots -> Nat]
  BY DEF IssueDelivery, At, Types, RequestsOK, RequestOK
<1>2. PICK l \in Lots : /\ IsNextLot(proc[c], l)
                        /\ stock[routes[proc[c].route].item][l] >= proc[c].plan[l]
                        /\ Deliver(c, l, proc[c].plan[l])
  BY DEF IssueDelivery
<1> DEFINE q == proc[c].plan[l]
           item == routes[proc[c].route].item
           new == [route |-> proc[c].route, lot |-> l, quantity |-> q,
                   marked |-> FALSE, returned |-> 0]
           plan == [proc[c].plan EXCEPT ![l] = 0]
           p == [at |-> "read", route |-> proc[c].route, delivery |-> Len(deliveries) + 1,
                 plan |-> plan, issuing |-> TRUE]
<1>3. q \in Nat /\ q > 0 /\ item \in Items /\ proc[c].route \in Nat /\ plan \in [Lots -> Nat]
  <2>1. q > 0
    BY <1>2 DEF IsNextLot
  <2>2. proc[c].route \in Nat
    BY <1>1 DEF Types, TypeOK
  <2> QED
    BY <1>1, <2>1, <2>2, RecordsOf
<1>4. stock' = [stock EXCEPT ![item][l] = stock[item][l] - q]
      /\ deliveries' = Append(deliveries, new) /\ Continue(c, p)
      /\ UNCHANGED <<status, asked, routes, links, declared, parts, usages>>
  BY <1>2 DEF Deliver
<1>5. stock' \in [Items -> [Lots -> Nat]]
  <2>1. stock[item] \in [Lots -> Nat]
    BY <1>3 DEF Types, TypeOK
  <2>2. stock[item][l] - q \in Nat
    BY <1>2, <1>3, <2>1
  <2> HIDE DEF item, q
  <2> QED
    BY <1>3, <1>4, <2>2, StockOf DEF Types
<1>6. new \in Deliveries /\ new.quantity = q
  BY <1>3 DEF Deliveries
<1> HIDE DEF new, plan
<1>7. /\ deliveries' \in Seq(Deliveries) /\ Len(deliveries) \in Nat
      /\ Len(deliveries') = Len(deliveries) + 1
      /\ deliveries'[Len(deliveries) + 1] = new
      /\ DOMAIN deliveries = 1..Len(deliveries)
      /\ DOMAIN deliveries' = 1..(Len(deliveries) + 1)
      /\ \A d \in DOMAIN deliveries : d \in DOMAIN deliveries' /\ deliveries'[d] = deliveries[d]
  BY <1>4, <1>6 DEF Types, TypeOK
<1>8. DOMAIN deliveries \subseteq DOMAIN deliveries'
  BY <1>7
<1>9. RequestOK(p, DOMAIN routes', DOMAIN deliveries')
  BY <1>1, <1>3, <1>4, <1>7 DEF RequestOK
<1> HIDE DEF p
<1>10. RequestsOK' /\ DOMAIN proc' = Clerks
  BY <1>4, <1>8, <1>9, RequestsGoOn DEF Types
<1>11. /\ links \in Seq([delivery : DOMAIN deliveries', route : DOMAIN routes])
       /\ parts \in Seq([route : DOMAIN routes, delivery : DOMAIN deliveries', quantity : Nat])
  <2>1. /\ links \in Seq([delivery : DOMAIN deliveries, route : DOMAIN routes])
        /\ parts \in Seq([route : DOMAIN routes, delivery : DOMAIN deliveries, quantity : Nat])
    BY DEF Types, TypeOK
  <2> QED
    BY <1>8, <2>1, ReferencesStay, Zenon
<1>12. TypeOK'
  BY <1>4, <1>5, <1>7, <1>10, <1>11 DEF Types, TypeOK
<1>13. \A d \in DOMAIN deliveries' : deliveries'[d].quantity > 0
  <2>1. \A d \in DOMAIN deliveries' : d \in DOMAIN deliveries \/ d = Len(deliveries) + 1
    BY <1>7
  <2> QED
    BY <1>3, <1>6, <1>7, <2>1 DEF Types
<1> QED
  BY <1>4, <1>7, <1>10, <1>12, <1>13 DEF Types

LEMMA TypesLink ==
  ASSUME Types, NEW c \in Clerks, At(c, "link"), AddLink(c)
  PROVE  Types'
<1>1. /\ proc[c] # None /\ proc[c].delivery \in DOMAIN deliveries
      /\ proc[c].route \in DOMAIN routes /\ proc[c].plan \in [Lots -> Nat]
  BY DEF At, Types, RequestsOK, RequestOK
<1> DEFINE new == [delivery |-> proc[c].delivery, route |-> proc[c].route]
<1>2. links' = Append(links, new) /\ Continue(c, AfterLink(proc[c]))
      /\ UNCHANGED <<asked, stock, routes, deliveries, declared, parts, usages>>
      /\ status' \in {"ready_to_complete", status}
  BY DEF AddLink
<1>3. AfterLink(proc[c]) # None => RequestOK(AfterLink(proc[c]), DOMAIN routes, DOMAIN deliveries)
  BY <1>1 DEF AfterLink, RequestOK
<1>4. RequestsOK' /\ DOMAIN proc' = Clerks
  BY <1>2, <1>3, RequestsGoOn DEF Types
<1>5. links' \in Seq([delivery : DOMAIN deliveries, route : DOMAIN routes])
  BY <1>1, <1>2 DEF Types, TypeOK
<1> QED
  BY <1>2, <1>4, <1>5 DEF Types, TypeOK

LEMMA TypesMark ==
  ASSUME Types, NEW c \in Clerks, RecordPendingIssueLink(c)
  PROVE  /\ Types'
         /\ Len(deliveries') = Len(deliveries) /\ DOMAIN deliveries' = DOMAIN deliveries
         /\ \A d \in DOMAIN deliveries :
              /\ deliveries'[d].quantity = deliveries[d].quantity
              /\ deliveries'[d].returned = deliveries[d].returned
<1>1. proc[c] # None /\ proc[c].delivery \in DOMAIN deliveries
  BY DEF RecordPendingIssueLink, At, Types, RequestsOK, RequestOK
<1> DEFINE d == proc[c].delivery
           x == [deliveries[d] EXCEPT !.marked = TRUE]
<1>2. deliveries[d] \in Deliveries /\ deliveries \in Seq(Deliveries)
  BY <1>1 DEF Types, TypeOK
<1>3. x \in Deliveries /\ x.quantity = deliveries[d].quantity
      /\ x.returned = deliveries[d].returned
  BY <1>2 DEF Deliveries
<1>4. deliveries' = [deliveries EXCEPT ![d] = x] /\ Continue(c, None)
      /\ UNCHANGED <<status, asked, stock, routes, links, declared, parts, usages>>
  BY DEF RecordPendingIssueLink
<1> HIDE DEF x
<1>5. deliveries' \in Seq(Deliveries) /\ Len(deliveries') = Len(deliveries)
      /\ DOMAIN deliveries' = DOMAIN deliveries
      /\ \A e \in DOMAIN deliveries : deliveries'[e] = IF e = d THEN x ELSE deliveries[e]
  BY <1>1, <1>2, <1>3, <1>4
<1>6. RequestsOK' /\ DOMAIN proc' = Clerks
  BY <1>4, <1>5, RequestsGoOn DEF Types
<1>7. \A e \in DOMAIN deliveries :
        /\ deliveries'[e].quantity = deliveries[e].quantity
        /\ deliveries'[e].returned = deliveries[e].returned
  BY <1>3, <1>5
<1>8. TypeOK'
  BY <1>4, <1>5, <1>6 DEF Types, TypeOK
<1> QED
  BY <1>5, <1>6, <1>7, <1>8 DEF Types

LEMMA TypesOfItem ==
  ASSUME Types
  PROVE  /\ \A item \in Items, q \in Required : SubmitMaterialNeed(item, q) => Types'
         /\ NeedMore => Types'
         /\ \A item \in Items, lot \in Shared : TakeStock(item, lot) => Types'
         /\ DeclareConsumption => Types'
<1>1. ASSUME NEW item \in Items, NEW q \in Required, SubmitMaterialNeed(item, q)
      PROVE  Types'
  <2>1. q \in Nat
    BY MaterialBounds
  <2>2. [item |-> item, required |-> q] \in Routes
    BY <2>1 DEF Routes
  <2>3. /\ routes' = Append(routes, [item |-> item, required |-> q])
        /\ declared' = Append(declared, None) /\ usages' = Append(usages, <<>>)
        /\ UNCHANGED <<status, asked, stock, deliveries, links, parts, proc>>
    BY <1>1 DEF SubmitMaterialNeed
  <2> DEFINE new == [item |-> item, required |-> q]
  <2> HIDE DEF new
  <2>4. routes' \in Seq(Routes) /\ Len(routes') = Len(routes) + 1
        /\ DOMAIN routes \subseteq DOMAIN routes'
    BY <2>2, <2>3 DEF new, Types, TypeOK
  <2>5. /\ declared' \in Seq([used : Nat, toReturn : Nat] \cup {None})
        /\ Len(declared') = Len(routes')
    BY <2>3, <2>4 DEF Types, TypeOK
  <2>6. usages' \in Seq(Seq(Nat)) /\ Len(usages') = Len(routes')
    BY <2>3, <2>4 DEF Types, TypeOK
  <2>7. /\ links \in Seq([delivery : DOMAIN deliveries, route : DOMAIN routes'])
        /\ parts \in Seq([route : DOMAIN routes', delivery : DOMAIN deliveries, quantity : Nat])
    <3>1. /\ links \in Seq([delivery : DOMAIN deliveries, route : DOMAIN routes])
          /\ parts \in Seq([route : DOMAIN routes, delivery : DOMAIN deliveries, quantity : Nat])
      BY DEF Types, TypeOK
    <3> QED
      BY <2>4, <3>1, ReferencesStay, Zenon
  <2>8. TypeOK'
    BY <2>3, <2>4, <2>5, <2>6, <2>7 DEF Types, TypeOK
  <2>9. RequestsOK'
    <3>1. ASSUME NEW e \in Clerks, proc[e] # None
          PROVE  RequestOK(proc[e], DOMAIN routes', DOMAIN deliveries)
      <4>1. RequestOK(proc[e], DOMAIN routes, DOMAIN deliveries)
        BY <3>1 DEF Types, RequestsOK
      <4> QED
        BY <2>4, <4>1 DEF RequestOK
    <3> QED
      BY <2>3, <3>1 DEF RequestsOK
  <2> QED
    BY <2>3, <2>8, <2>9 DEF Types
<1>2. ASSUME NeedMore
      PROVE  Types'
  <2>1. asked' \in Nat
    BY <1>2 DEF NeedMore, Types, TypeOK
  <2> QED
    BY <1>2, <2>1 DEF NeedMore, Types, TypeOK, RequestsOK
<1>3. ASSUME NEW item \in Items, NEW lot \in Shared, TakeStock(item, lot)
      PROVE  Types'
  <2>1. lot \in Lots
    BY MaterialBounds
  <2>2. stock[item] \in [Lots -> Nat] /\ stock[item][lot] > 0
    BY <1>3 DEF TakeStock, Types, TypeOK
  <2>3. stock[item][lot] - 1 \in Nat
    BY <2>1, <2>2
  <2>4. stock' = [stock EXCEPT ![item][lot] = stock[item][lot] - 1]
    BY <1>3 DEF TakeStock
  <2>5. stock' \in [Items -> [Lots -> Nat]]
    BY <2>1, <2>3, <2>4, StockOf DEF Types
  <2> QED
    BY <1>3, <2>5 DEF TakeStock, Types, TypeOK, RequestsOK
<1>4. ASSUME DeclareConsumption
      PROVE  Types'
  <2>1. PICK used \in [Latest -> UNION {0..LinkedTo(links, r) : r \in Latest}] :
          /\ \A r \in Latest : used[r] <= LinkedTo(links, r)
          /\ declared' = [r \in DOMAIN routes |->
               IF r \notin Latest THEN None
               ELSE [used |-> used[r], toReturn |-> LinkedTo(links, r) - used[r]]]
          /\ usages' = [r \in DOMAIN routes |->
               IF r \in Latest /\ used[r] = LinkedTo(links, r) THEN <<used[r]>> ELSE <<>>]
    BY <1>4 DEF DeclareConsumption
  <2>2. \A r \in Latest : used[r] \in Nat /\ LinkedTo(links, r) - used[r] \in Nat
    <3>1. ASSUME NEW r \in Latest
          PROVE  used[r] \in Nat /\ LinkedTo(links, r) - used[r] \in Nat
      <4>1. PICK q \in Latest : used[r] \in 0..LinkedTo(links, q)
        BY <2>1
      <4>2. LinkedTo(links, q) \in Nat /\ LinkedTo(links, r) \in Nat
        BY LinkedToNat
      <4> QED
        BY <2>1, <4>1, <4>2
    <3> QED
      BY <3>1
  <2>3. Len(routes) \in Nat /\ DOMAIN routes = 1..Len(routes)
    BY DEF Types, TypeOK
  <2>4. declared' \in Seq([used : Nat, toReturn : Nat] \cup {None}) /\ Len(declared') = Len(routes)
    <3> DEFINE D == [used : Nat, toReturn : Nat] \cup {None}
    <3>1. \A r \in 1..Len(routes) : declared'[r] \in D
      BY <2>1, <2>2, <2>3
    <3>2. declared' \in [1..Len(routes) -> D]
      BY <2>1, <2>3, <3>1
    <3> HIDE DEF D
    <3>3. declared' \in Seq(D) /\ Len(declared') = Len(routes)
      BY <2>3, <3>2
    <3> QED
      BY <3>3 DEF D
  <2>5. usages' \in Seq(Seq(Nat)) /\ Len(usages') = Len(routes)
    <3>1. \A r \in 1..Len(routes) : usages'[r] \in Seq(Nat)
      BY <2>1, <2>2, <2>3
    <3>2. usages' \in [1..Len(routes) -> Seq(Nat)]
      BY <2>1, <2>3, <3>1
    <3> QED
      BY <2>3, <3>2
  <2>6. UNCHANGED <<asked, stock, routes, deliveries, links, parts, proc>> /\ status' = "completed"
    BY <1>4 DEF DeclareConsumption
  <2> QED
    BY <2>4, <2>5, <2>6 DEF Types, TypeOK, RequestsOK
<1> QED
  BY <1>1, <1>2, <1>3, <1>4

(* What is left of deliveries is a quantity each.                            *)
LEMMA LeftNat ==
  ASSUME Types, NEW r, NEW ds
  PROVE  /\ \A d \in 1..Len(deliveries) : LeftOf(r, ds)[d] \in Nat
         /\ Total(LeftOf(r, ds), Len(deliveries)) \in Nat
<1>1. Len(deliveries) \in Nat /\ DOMAIN deliveries = 1..Len(deliveries)
  BY DEF Types, TypeOK
<1>2. ASSUME NEW d \in 1..Len(deliveries)
      PROVE  LeftOf(r, ds)[d] \in Nat
  <2>1. deliveries[d].quantity \in Nat /\ Recorded(r, d) \in Nat
    BY <1>1, RecordsOf, RecordedNat
  <2>2. deliveries[d].quantity - Recorded(r, d) \in Int
    BY <2>1
  <2>3. Positive(deliveries[d].quantity - Recorded(r, d)) \in Nat
    BY <2>2, PositiveNat, Zenon
  <2> QED
    BY <1>1, <2>3 DEF LeftOf
<1> QED
  BY <1>1, <1>2, TotalNat

LEMMA LinkedAreDeliveries ==
  ASSUME Types, NEW r
  PROVE  LinkedDeliveries(r) \subseteq DOMAIN deliveries
  BY RecordsOf DEF LinkedDeliveries

(* What a request plans to give back on each delivery.                       *)
PlannedReturn(r, lots) ==
  [d \in LinkedDeliveries(r) |->
     Greedy(LeftOf(r, FromLot(r, deliveries[d].lot)), lots[deliveries[d].lot], d)]

LEMMA PlannedNat ==
  ASSUME Types, NEW r, NEW lots \in [Lots -> Nat]
  PROVE  PlannedReturn(r, lots) \in [LinkedDeliveries(r) -> Nat]
<1>1. Len(deliveries) \in Nat /\ DOMAIN deliveries = 1..Len(deliveries)
  BY DEF Types, TypeOK
<1>2. ASSUME NEW d \in LinkedDeliveries(r)
      PROVE  Greedy(LeftOf(r, FromLot(r, deliveries[d].lot)), lots[deliveries[d].lot], d) \in Nat
  <2> DEFINE a == LeftOf(r, FromLot(r, deliveries[d].lot))
             q == lots[deliveries[d].lot]
  <2>1. d \in 1..Len(deliveries) /\ q \in Nat
    BY <1>1, LinkedAreDeliveries, RecordsOf
  <2>2. \A k \in 1..Len(deliveries) : a[k] \in Nat
    BY LeftNat
  <2> HIDE DEF a, q
  <2>3. Greedy(a, q, d) \in Nat
    BY <1>1, <2>1, <2>2, GreedyNat
  <2> QED
    BY <2>3 DEF a, q
<1> QED
  BY <1>2 DEF PlannedReturn

LEMMA TypesReturning ==
  ASSUME Types, NEW c \in Clerks
  PROVE  /\ \A r \in DOMAIN routes : BeginReturn(c, r) => Types'
         /\ PlanReturn(c) => Types'
         /\ BeginFinalize(c) => Types'
         /\ FinalizeConsumption(c) => Types'
<1>1. proc[c] # None => RequestOK(proc[c], DOMAIN routes, DOMAIN deliveries)
  BY DEF Types, RequestsOK
<1>2. ASSUME NEW r \in DOMAIN routes, BeginReturn(c, r)
      PROVE  Types'
  <2>1. PICK lots \in [Lots -> 0..PendingReturn(r)] :
          Continue(c, [at |-> "planReturn", route |-> r, lots |-> lots])
    BY <1>2 DEF BeginReturn
  <2>2. PendingReturn(r) \in Int
    <3>1. ToReturn(r) \in Nat
      BY RecordsOf DEF ToReturn
    <3> QED
      BY <3>1, RecordedNat DEF PendingReturn
  <2>3. lots \in [Lots -> Nat]
    BY <2>1, <2>2
  <2>4. RequestOK([at |-> "planReturn", route |-> r, lots |-> lots],
                  DOMAIN routes, DOMAIN deliveries)
    BY <2>3 DEF RequestOK
  <2>5. OnlyRequests
    BY <1>2 DEF BeginReturn, OnlyRequests
  <2> QED
    BY <2>1, <2>4, <2>5, TypesGoOn
<1>3. ASSUME PlanReturn(c)
      PROVE  Types'
  <2> DEFINE r == proc[c].route
             fits == \A l \in Lots :
                       Total(LeftOf(r, FromLot(r, l)), Len(deliveries)) >= proc[c].lots[l]
             p == [at |-> "return", route |-> r, plan |-> PlannedReturn(r, proc[c].lots),
                   fits |-> fits]
  <2>1. proc[c].at = "planReturn" /\ r \in DOMAIN routes /\ proc[c].lots \in [Lots -> Nat]
    BY <1>1, <1>3 DEF PlanReturn, At, RequestOK
  <2>2. PlannedReturn(r, proc[c].lots) \in [LinkedDeliveries(r) -> Nat]
    BY <2>1, PlannedNat
  <2>3. LinkedDeliveries(r) \subseteq DOMAIN deliveries
    BY LinkedAreDeliveries
  <2>4. Continue(c, p) /\ OnlyRequests
    BY <1>3 DEF PlanReturn, OnlyRequests, PlannedReturn
  <2>5. RequestOK(p, DOMAIN routes, DOMAIN deliveries)
    BY <2>1, <2>2, <2>3 DEF RequestOK
  <2> QED
    BY <2>4, <2>5, TypesGoOn
<1>4. ASSUME BeginFinalize(c)
      PROVE  Types'
  <2> DEFINE p == [at |-> "finalize", route |-> proc[c].route,
                   net |-> Net(proc[c].route), already |-> usages[proc[c].route] # <<>>]
  <2>1. proc[c].route \in DOMAIN routes
    BY <1>1, <1>4 DEF BeginFinalize, At, RequestOK
  <2>2. Net(proc[c].route) \in Nat
    BY LeftNat DEF Net
  <2>3. RequestOK(p, DOMAIN routes, DOMAIN deliveries)
    BY <2>1, <2>2 DEF RequestOK
  <2>4. Continue(c, p) /\ OnlyRequests
    BY <1>4 DEF BeginFinalize, OnlyRequests
  <2> QED
    BY <2>3, <2>4, TypesGoOn
<1>5. ASSUME FinalizeConsumption(c)
      PROVE  Types'
  <2>1. /\ proc[c].at = "finalize" /\ proc[c].route \in DOMAIN routes /\ proc[c].net \in Nat
    BY <1>1, <1>5 DEF FinalizeConsumption, At, RequestOK
  <2> DEFINE u == Append(usages[proc[c].route], proc[c].net)
  <2>2. usages' = [usages EXCEPT ![proc[c].route] = u] /\ Continue(c, None)
        /\ UNCHANGED <<status, asked, stock, routes, deliveries, links, declared, parts>>
    BY <1>5 DEF FinalizeConsumption
  <2>3. u \in Seq(Nat)
    BY <2>1 DEF Types, TypeOK
  <2> HIDE DEF u
  <2>4. usages' \in Seq(Seq(Nat)) /\ Len(usages') = Len(usages)
    BY <2>1, <2>2, <2>3 DEF Types, TypeOK
  <2>5. RequestsOK' /\ DOMAIN proc' = Clerks
    BY <2>2, RequestsGoOn DEF Types
  <2> QED
    BY <2>2, <2>4, <2>5 DEF Types, TypeOK
<1> QED
  BY <1>2, <1>3, <1>4, <1>5

LEMMA TypesGiveBack ==
  ASSUME Types, NEW c \in Clerks, CreateReturn(c)
  PROVE  /\ Types'
         /\ Len(deliveries') = Len(deliveries) /\ DOMAIN deliveries' = DOMAIN deliveries
         /\ \E d \in DOMAIN proc[c].plan :
              /\ d \in DOMAIN deliveries /\ proc[c].plan[d] \in Nat /\ proc[c].plan[d] > 0
              /\ deliveries[d].returned + proc[c].plan[d] <= deliveries[d].quantity
              /\ \A e \in DOMAIN deliveries :
                   /\ deliveries'[e].quantity = deliveries[e].quantity
                   /\ deliveries'[e].returned
                        = deliveries[e].returned + (IF e = d THEN proc[c].plan[d] ELSE 0)
              /\ Continue(c, [at |-> "record", route |-> proc[c].route, delivery |-> d,
                              plan |-> proc[c].plan, fits |-> proc[c].fits])
<1>1. /\ proc[c] # None /\ proc[c].at = "return" /\ proc[c].route \in DOMAIN routes
      /\ DOMAIN proc[c].plan \subseteq DOMAIN deliveries
      /\ proc[c].plan \in [DOMAIN proc[c].plan -> Nat]
  BY DEF CreateReturn, At, Types, RequestsOK, RequestOK
<1>2. PICK d \in DOMAIN proc[c].plan :
        /\ proc[c].plan[d] > 0 /\ Returnable(d, proc[c].plan[d])
        /\ GiveBack(d, routes[proc[c].route].item, proc[c].plan[d])
        /\ ToRecord(c, d)
  BY DEF CreateReturn
<1> DEFINE p == [at |-> "record", route |-> proc[c].route, delivery |-> d,
                 plan |-> proc[c].plan, fits |-> proc[c].fits]
<1>3. d \in DOMAIN deliveries /\ proc[c].plan[d] \in Nat /\ routes[proc[c].route].item \in Items
  BY <1>1, RecordsOf
<1>4. Continue(c, p) /\ UNCHANGED <<status, asked, routes, links, declared, parts, usages>>
  BY <1>2 DEF ToRecord
<1>5. /\ deliveries' \in Seq(Deliveries) /\ stock' \in [Items -> [Lots -> Nat]]
      /\ Len(deliveries') = Len(deliveries) /\ DOMAIN deliveries' = DOMAIN deliveries
      /\ \A e \in DOMAIN deliveries :
           /\ deliveries'[e].quantity = deliveries[e].quantity
           /\ deliveries'[e].returned
                = deliveries[e].returned + (IF e = d THEN proc[c].plan[d] ELSE 0)
  BY <1>2, <1>3, GiveBackEffect DEF Types
<1>6. RequestOK(p, DOMAIN routes, DOMAIN deliveries)
  BY <1>1 DEF RequestOK
<1>7. RequestsOK' /\ DOMAIN proc' = Clerks
  BY <1>4, <1>5, <1>6, RequestsGoOn DEF Types
<1>8. TypeOK'
  BY <1>4, <1>5, <1>7 DEF Types, TypeOK
<1>9. Types'
  BY <1>5, <1>7, <1>8 DEF Types
<1>10. deliveries[d].returned + proc[c].plan[d] <= deliveries[d].quantity
  BY <1>2 DEF Returnable
<1> QED
  BY <1>2, <1>3, <1>4, <1>5, <1>9, <1>10

LEMMA TypesRecord ==
  ASSUME Types, NEW c \in Clerks, RecordPart(c)
  PROVE  Types'
<1>1. /\ proc[c] # None /\ proc[c].at = "record" /\ proc[c].route \in DOMAIN routes
      /\ DOMAIN proc[c].plan \subseteq DOMAIN deliveries
      /\ proc[c].plan \in [DOMAIN proc[c].plan -> Nat]
      /\ proc[c].delivery \in DOMAIN proc[c].plan
  BY DEF RecordPart, At, Types, RequestsOK, RequestOK
<1> DEFINE part == [route |-> proc[c].route, delivery |-> proc[c].delivery,
                    quantity |-> proc[c].plan[proc[c].delivery]]
           plan == [proc[c].plan EXCEPT ![proc[c].delivery] = 0]
           p == IF \E d \in DOMAIN plan : plan[d] > 0
                THEN [at |-> "return", route |-> proc[c].route, plan |-> plan,
                      fits |-> proc[c].fits]
                ELSE IF proc[c].fits THEN [at |-> "refresh", route |-> proc[c].route] ELSE None
<1>2. parts' = Append(parts, part) /\ Continue(c, p)
      /\ UNCHANGED <<status, asked, stock, routes, deliveries, links, declared, usages>>
  BY DEF RecordPart
<1>3. part \in [route : DOMAIN routes, delivery : DOMAIN deliveries, quantity : Nat]
  BY <1>1
<1>4. plan \in [DOMAIN proc[c].plan -> Nat] /\ DOMAIN plan = DOMAIN proc[c].plan
  BY <1>1
<1> HIDE DEF plan, part
<1>5. p # None => RequestOK(p, DOMAIN routes, DOMAIN deliveries)
  BY <1>1, <1>4 DEF RequestOK
<1> HIDE DEF p
<1>6. RequestsOK' /\ DOMAIN proc' = Clerks
  BY <1>2, <1>5, RequestsGoOn DEF Types
<1>7. parts' \in Seq([route : DOMAIN routes, delivery : DOMAIN deliveries, quantity : Nat])
  BY <1>2, <1>3 DEF Types, TypeOK
<1> QED
  BY <1>2, <1>6, <1>7 DEF Types, TypeOK

LEMMA TypesStart == Init => Types
<1> SUFFICES ASSUME Init PROVE Types
  OBVIOUS
<1>1. stock \in [Items -> [Lots -> Nat]]
  BY MaterialBounds DEF Init
<1>2. /\ routes = <<>> /\ deliveries = <<>> /\ links = <<>> /\ declared = <<>> /\ parts = <<>>
      /\ usages = <<>> /\ DOMAIN proc = Clerks /\ \A c \in Clerks : proc[c] = None
      /\ status = "waiting_material" /\ asked = 0
  BY DEF Init
<1> QED
  BY <1>1, <1>2 DEF Types, TypeOK, RequestsOK

LEMMA TypesStep ==
  ASSUME Types, [Next]_vars
  PROVE  Types'
<1>1. ASSUME NEW item \in Items, NEW q \in Required, SubmitMaterialNeed(item, q)
      PROVE  Types'
  BY <1>1, TypesOfItem
<1>2. ASSUME NEW item \in Items, NEW lot \in Shared, TakeStock(item, lot)
      PROVE  Types'
  BY <1>2, TypesOfItem
<1>3. CASE NeedMore \/ DeclareConsumption
  BY <1>3, TypesOfItem
<1>4. ASSUME NEW c \in Clerks, Issuing(c) \/ Returning(c) \/ Fail(c)
      PROVE  Types'
  <2>1. CASE \/ \E r \in DOMAIN routes : BeginIssue(c, r)
             \/ PlanIssue(c)
             \/ \E d \in DOMAIN deliveries, r \in DOMAIN routes : BeginRelink(c, d, r)
             \/ ReadRequirement(c) \/ LinkAgain(c) \/ LinkFails(c) \/ Fail(c)
    BY <2>1, TypesIssuing
  <2>2. CASE IssueDelivery(c)
    BY <2>2, TypesIssue
  <2>3. CASE Link(c)
    BY <2>3, TypesLink DEF Link
  <2>4. CASE RecordPendingIssueLink(c)
    BY <2>4, TypesMark
  <2>5. CASE \/ \E r \in DOMAIN routes : BeginReturn(c, r)
             \/ PlanReturn(c) \/ BeginFinalize(c) \/ FinalizeConsumption(c)
    BY <2>5, TypesReturning
  <2>6. CASE CreateReturn(c)
    BY <2>6, TypesGiveBack
  <2>7. CASE RecordPart(c)
    BY <2>7, TypesRecord
  <2> QED
    BY <1>4, <2>1, <2>2, <2>3, <2>4, <2>5, <2>6, <2>7 DEF Issuing, Returning
<1>5. CASE UNCHANGED vars
  BY <1>5 DEF vars, Types, TypeOK, RequestsOK
<1> QED
  BY <1>1, <1>2, <1>3, <1>4, <1>5 DEF Next

(* The types of the materials hold, and with them: a request never moves     *)
(* more of a lot than there is of it.                                        *)
THEOREM TypeCorrect == Spec => []TypeOK
<1>1. Init => Types
  BY TypesStart
<1>2. Types /\ [Next]_vars => Types'
  BY TypesStep
<1>3. Types => TypeOK
  BY DEF Types
<1> QED
  BY <1>1, <1>2, <1>3, PTL DEF Spec
-----------------------------------------------------------------------------
(* Links.                                                                    *)

(* Only linking links, and what was delivered stays what it was.             *)
LEMMA QuietLinks ==
  ASSUME Types, [Next]_vars, ~\E c \in Clerks : Link(c)
  PROVE  /\ links' = links
         /\ \A d \in DOMAIN deliveries :
              d \in DOMAIN deliveries' /\ deliveries'[d].quantity = deliveries[d].quantity
<1>1. CASE \/ \E item \in Items, q \in Required : SubmitMaterialNeed(item, q)
           \/ \E item \in Items, lot \in Shared : TakeStock(item, lot)
           \/ NeedMore \/ DeclareConsumption \/ UNCHANGED vars
  BY <1>1 DEF SubmitMaterialNeed, TakeStock, NeedMore, DeclareConsumption, vars
<1>2. ASSUME NEW c \in Clerks, Issuing(c) \/ Returning(c) \/ Fail(c)
      PROVE  /\ links' = links
             /\ \A d \in DOMAIN deliveries :
                  d \in DOMAIN deliveries' /\ deliveries'[d].quantity = deliveries[d].quantity
  <2>1. CASE \/ \E r \in DOMAIN routes : BeginIssue(c, r)
             \/ PlanIssue(c)
             \/ \E d \in DOMAIN deliveries, r \in DOMAIN routes : BeginRelink(c, d, r)
             \/ ReadRequirement(c) \/ LinkAgain(c) \/ LinkFails(c) \/ Fail(c)
    BY <2>1 DEF BeginIssue, PlanIssue, BeginRelink, ReadRequirement, LinkAgain, LinkFails, Fail
  <2>2. CASE IssueDelivery(c)
    BY <2>2, TypesIssue
  <2>3. CASE RecordPendingIssueLink(c)
    BY <2>3, TypesMark DEF RecordPendingIssueLink
  <2>4. CASE \/ \E r \in DOMAIN routes : BeginReturn(c, r)
             \/ PlanReturn(c) \/ BeginFinalize(c) \/ FinalizeConsumption(c) \/ RecordPart(c)
    BY <2>4 DEF BeginReturn, PlanReturn, BeginFinalize, FinalizeConsumption, RecordPart
  <2>5. CASE CreateReturn(c)
    <3>1. links' = links
      BY <2>5 DEF CreateReturn, ToRecord
    <3> QED
      BY <2>5, <3>1, TypesGiveBack
  <2> QED
    BY <1>2, <2>1, <2>2, <2>3, <2>4, <2>5 DEF Issuing, Returning
<1> QED
  BY <1>1, <1>2 DEF Next

(* A decision that is new counts, and nothing is linked to it.               *)
LEMMA NewRoute ==
  ASSUME Types, NEW item \in Items, NEW q \in Required, SubmitMaterialNeed(item, q)
  PROVE  /\ \A r \in DOMAIN routes : routes'[r] = routes[r] /\ Missing(r)' = Missing(r)
         /\ q \in Nat /\ q > 0
         /\ \E n \in Nat :
              /\ n + 1 = Len(routes') /\ DOMAIN routes = 1..n /\ DOMAIN routes' = 1..(n + 1)
              /\ n + 1 \in Latest' /\ Missing(n + 1)' = q
              /\ LinkedTo(links, n + 1) = 0
<1>1. PICK n \in Nat : n = Len(routes) /\ DOMAIN routes = 1..n
  BY DEF Types, TypeOK
<1>2. /\ routes' = Append(routes, [item |-> item, required |-> q])
      /\ links' = links /\ deliveries' = deliveries
  BY DEF SubmitMaterialNeed
<1>3. /\ Len(routes') = n + 1 /\ DOMAIN routes' = 1..(n + 1)
      /\ routes'[n + 1] = [item |-> item, required |-> q]
      /\ \A r \in 1..n : routes'[r] = routes[r]
  BY <1>1, <1>2 DEF Types, TypeOK
<1>4. \A r : LinkedTo(links, r)' = LinkedTo(links, r)
  BY <1>2 DEF LinkedTo
<1>5. LinkedTo(links, n + 1) = 0
  <2> DEFINE f == [i \in DOMAIN links |-> IF links[i].route = n + 1
                     THEN deliveries[links[i].delivery].quantity ELSE 0]
  <2>1. Len(links) \in Nat /\ DOMAIN links = 1..Len(links)
    BY DEF Types, TypeOK
  <2>2. n + 1 \notin DOMAIN routes
    BY <1>1
  <2>3. \A i \in 1..Len(links) : links[i].route # n + 1
    BY <2>1, <2>2, RecordsOf
  <2>4. \A i \in 1..Len(links) : f[i] = 0
    BY <2>1, <2>3
  <2> HIDE DEF f
  <2>5. Total(f, Len(links)) = 0
    BY <2>1, <2>4, TotalOfZeros
  <2> QED
    BY <2>5 DEF LinkedTo, f
<1>6. q \in Nat /\ q > 0
  BY MaterialBounds
<1>7. n + 1 \in Latest'
  <2>1. \A k \in DOMAIN routes' : k <= n + 1
    BY <1>1, <1>3
  <2> QED
    BY <1>3, <2>1 DEF Latest
<1>8. \A r : Missing(r)' = routes'[r].required - LinkedTo(links, r)
  BY <1>4 DEF Missing
<1>9. \A r \in DOMAIN routes : Missing(r)' = Missing(r)
  BY <1>1, <1>3, <1>8 DEF Missing
<1>10. Missing(n + 1)' = q
  <2>1. Missing(n + 1)' = routes'[n + 1].required - LinkedTo(links, n + 1)
    BY <1>4 DEF Missing
  <2> QED
    BY <1>3, <1>5, <1>6, <2>1
<1> QED
  BY <1>1, <1>3, <1>5, <1>6, <1>7, <1>9, <1>10

(* Otherwise decisions stay what they are.                                   *)
LEMMA RoutesStay ==
  ASSUME [Next]_vars, ~\E item \in Items, q \in Required : SubmitMaterialNeed(item, q)
  PROVE  routes' = routes /\ Latest' = Latest
<1>1. routes' = routes
  BY DEF Next, Issuing, Returning, TakeStock, NeedMore, DeclareConsumption, vars,
         BeginIssue, PlanIssue, BeginRelink, ReadRequirement, LinkAgain, LinkFails, Fail,
         IssueDelivery, Deliver, Link, AddLink, RecordPendingIssueLink, BeginReturn, PlanReturn,
         CreateReturn, ToRecord, RecordPart, BeginFinalize, FinalizeConsumption
<1> QED
  BY <1>1 DEF Latest

LEMMA LinkAdds ==
  ASSUME Types, NEW c \in Clerks, Link(c)
  PROVE  /\ proc[c].delivery \in DOMAIN deliveries /\ proc[c].route \in DOMAIN routes
         /\ links' = Append(links, [delivery |-> proc[c].delivery, route |-> proc[c].route])
         /\ deliveries' = deliveries /\ routes' = routes
         /\ \A r : LinkedTo(links, r)' = LinkedTo(links', r) /\ LinkedTo(links', r) \in Nat
         /\ routes # <<>>
         /\ \A r \in DOMAIN routes : Missing(r) \in Int
              /\ Missing(r)' = Missing(r) - IF r = proc[c].route
                                            THEN deliveries[proc[c].delivery].quantity ELSE 0
<1> DEFINE d == proc[c].delivery
           q == proc[c].route
<1>1. d \in DOMAIN deliveries /\ q \in DOMAIN routes
  BY DEF Link, At, Types, RequestsOK, RequestOK
<1>2. /\ links' = Append(links, [delivery |-> d, route |-> q])
      /\ deliveries' = deliveries /\ routes' = routes
  BY DEF Link, AddLink
<1> HIDE DEF d, q
<1>3. ASSUME NEW r
      PROVE  /\ LinkedTo(links, r)' = LinkedTo(links', r)
             /\ LinkedTo(links', r)
                  = LinkedTo(links, r) + IF q = r THEN deliveries[d].quantity ELSE 0
  BY <1>1, <1>2, LinkedToAdds
<1>4. ASSUME NEW r
      PROVE  LinkedTo(links', r) \in Nat
  BY <1>1, <1>3, LinkedToNat, RecordsOf
<1>5. routes # <<>>
  BY <1>1 DEF Types, TypeOK
<1>6. ASSUME NEW r \in DOMAIN routes
      PROVE  /\ Missing(r) \in Int
             /\ Missing(r)' = Missing(r) - IF r = q THEN deliveries[d].quantity ELSE 0
  <2>1. routes[r].required \in Nat /\ LinkedTo(links, r) \in Nat /\ deliveries[d].quantity \in Nat
    BY <1>1, RecordsOf, LinkedToNat
  <2>2. Missing(r)' = routes[r].required - LinkedTo(links', r)
    BY <1>2, <1>3 DEF Missing
  <2> QED
    BY <1>3, <2>1, <2>2 DEF Missing
<1> QED
  BY <1>1, <1>2, <1>3, <1>4, <1>5, <1>6 DEF d, q

(* Without a new link or decision as much is missing as before.              *)
LEMMA MissingStays ==
  ASSUME Types, [Next]_vars, ~\E c \in Clerks : Link(c),
         ~\E item \in Items, q \in Required : SubmitMaterialNeed(item, q), NEW r
  PROVE  Missing(r)' = Missing(r) /\ LinkedTo(links, r)' = LinkedTo(links, r)
<1>1. LinkedTo(links, r)' = LinkedTo(links, r)
  BY QuietLinks, LinkedToStays
<1> QED
  BY <1>1, RoutesStay DEF Missing

LEMMA LinkedOnceStep ==
  ASSUME Types, LinkedOnce, [Next]_vars
  PROVE  LinkedOnce'
<1>1. ASSUME NEW c \in Clerks, Link(c)
      PROVE  LinkedOnce'
  <2> DEFINE new == [delivery |-> proc[c].delivery, route |-> proc[c].route]
             n == Len(links)
  <2>1. /\ n \in Nat /\ DOMAIN links = 1..n /\ DOMAIN links' = 1..(n + 1)
        /\ links'[n + 1] = new /\ \A i \in 1..n : links'[i] = links[i]
    <3>1. links' = Append(links, new)
      BY <1>1, LinkAdds
    <3> HIDE DEF new
    <3> QED
      BY <3>1 DEF Types, TypeOK
  <2>2. \A i \in 1..n : links[i].delivery # proc[c].delivery
    BY <1>1, <2>1 DEF Link, IsLinked
  <2>3. \A i, j \in DOMAIN links' : links'[i].delivery = links'[j].delivery => i = j
    BY <2>1, <2>2 DEF LinkedOnce
  <2>4. deliveries[proc[c].delivery].quantity <= Missing(proc[c].route)
    BY <1>1 DEF Link
  <2>5. \A r \in DOMAIN routes : Missing(r)' >= 0
    <3>1. ASSUME NEW r \in DOMAIN routes
          PROVE  Missing(r)' >= 0
      <4>1. deliveries[proc[c].delivery].quantity \in Nat
        BY <1>1, LinkAdds, RecordsOf
      <4>2. Missing(r) \in Int
              /\ Missing(r)' = Missing(r) - IF r = proc[c].route
                                   THEN deliveries[proc[c].delivery].quantity ELSE 0
        BY <1>1, LinkAdds
      <4>3. Missing(r) >= 0
        BY DEF LinkedOnce
      <4> QED
        BY <2>4, <4>1, <4>2, <4>3
    <3> QED
      BY <3>1
  <2>6. routes' = routes
    BY <1>1, LinkAdds
  <2> QED
    BY <2>3, <2>5, <2>6 DEF LinkedOnce
<1>2. ASSUME NEW item \in Items, NEW q \in Required, SubmitMaterialNeed(item, q)
      PROVE  LinkedOnce'
  <2>1. links' = links
    BY <1>2 DEF SubmitMaterialNeed
  <2>2. \A r \in DOMAIN routes' : Missing(r)' >= 0
    <3>1. PICK n \in Nat : /\ DOMAIN routes = 1..n /\ DOMAIN routes' = 1..(n + 1)
                           /\ Missing(n + 1)' = q
      BY <1>2, NewRoute
    <3>2. q \in Nat /\ \A r \in DOMAIN routes : Missing(r)' = Missing(r)
      BY <1>2, NewRoute
    <3>3. \A r \in 1..(n + 1) : r \in 1..n \/ r = n + 1
      OBVIOUS
    <3> QED
      BY <3>1, <3>2, <3>3 DEF LinkedOnce
  <2> QED
    BY <2>1, <2>2 DEF LinkedOnce
<1>3. CASE /\ ~\E c \in Clerks : Link(c)
           /\ ~\E item \in Items, q \in Required : SubmitMaterialNeed(item, q)
  <2>1. routes' = routes /\ links' = links /\ \A r : Missing(r)' = Missing(r)
    BY <1>3, RoutesStay, QuietLinks, MissingStays
  <2> QED
    BY <2>1 DEF LinkedOnce
<1> QED
  BY <1>1, <1>2, <1>3

(* However the request that issued a delivery, one that repeats it and the   *)
(* warehouse race for linking it, it is linked once, for one requirement,    *)
(* and no requirement gets more than it asked for: the lookup and the amount *)
(* are read under the lock of the delivery.                                  *)
THEOREM DeliveriesLinkedOnce == Spec => []LinkedOnce
<1>1. Init => Types /\ LinkedOnce
  BY TypesStart DEF Init, LinkedOnce
<1>2. Types /\ LinkedOnce /\ [Next]_vars => Types' /\ LinkedOnce'
  BY TypesStep, LinkedOnceStep
<1> QED
  BY <1>1, <1>2, PTL DEF Spec

(* In a sequence that is not empty the last decision counts.                 *)
LEMMA LastIsLatest ==
  ASSUME Types, routes # <<>>
  PROVE  Len(routes) \in Latest
<1>1. Len(routes) \in Nat /\ Len(routes) # 0 /\ DOMAIN routes = 1..Len(routes)
  BY DEF Types, TypeOK
<1>2. \A k \in DOMAIN routes : k <= Len(routes)
  BY <1>1
<1>3. Len(routes) \in DOMAIN routes
  BY <1>1
<1> QED
  BY <1>2, <1>3 DEF Latest

LEMMA ReadyStep ==
  ASSUME Types, ReadyMeansIssued, [Next]_vars
  PROVE  ReadyMeansIssued'
<1>1. ASSUME NEW c \in Clerks, Link(c)
      PROVE  ReadyMeansIssued'
  <2>1. routes' = routes /\ Latest' = Latest /\ asked' = asked
        /\ status' = IF status = "waiting_material" /\ AllIssued(links')
                     THEN "ready_to_complete" ELSE status
    BY <1>1 DEF Link, AddLink, Latest
  <2>2. \A r \in DOMAIN routes : /\ Missing(r) \in Int /\ Missing(r)' \in Int
                                 /\ Missing(r)' <= Missing(r)
                                 /\ Missing(r)' = routes[r].required - LinkedTo(links', r)
                                 /\ LinkedTo(links', r) \in Int /\ routes[r].required \in Int
    <3>1. deliveries[proc[c].delivery].quantity \in Nat
      BY <1>1, LinkAdds, RecordsOf
    <3>2. ASSUME NEW r \in DOMAIN routes
          PROVE  /\ Missing(r) \in Int /\ Missing(r)' \in Int /\ Missing(r)' <= Missing(r)
      <4>1. /\ Missing(r) \in Int
            /\ Missing(r)' = Missing(r) - IF r = proc[c].route
                                 THEN deliveries[proc[c].delivery].quantity ELSE 0
        BY <1>1, LinkAdds
      <4> QED
        BY <3>1, <4>1
    <3>3. ASSUME NEW r \in DOMAIN routes
          PROVE  /\ Missing(r)' = routes[r].required - LinkedTo(links', r)
                 /\ LinkedTo(links', r) \in Int /\ routes[r].required \in Int
      <4>1. LinkedTo(links, r)' = LinkedTo(links', r) /\ LinkedTo(links', r) \in Nat
        BY <1>1, LinkAdds
      <4> QED
        BY <2>1, <4>1, RecordsOf DEF Missing
    <3> QED
      BY <3>2, <3>3
  <2>3. Latest \subseteq DOMAIN routes /\ Latest # {}
    <3>1. routes # <<>>
      BY <1>1, LinkAdds
    <3> QED
      BY <3>1, LastIsLatest DEF Latest
  <2>4. AllIssued(links') <=> ~\E r \in Latest : Missing(r)' > 0
    BY <2>2, <2>3 DEF AllIssued
  <2>5. (\E r \in Latest : Missing(r) > 0)' <=> \E r \in Latest : Missing(r)' > 0
    BY <2>1
  <2>6. routes # <<>>
    BY <1>1, LinkAdds
  <2>7. CASE status = "waiting_material"
    BY <2>1, <2>4, <2>5, <2>6, <2>7 DEF ReadyMeansIssued
  <2>8. CASE status # "waiting_material"
    <3>1. ~\E r \in Latest : Missing(r) > 0
      BY <2>8 DEF ReadyMeansIssued
    <3>2. ~\E r \in Latest : Missing(r)' > 0
      BY <2>2, <2>3, <3>1
    <3> QED
      BY <2>1, <2>5, <2>6, <2>8, <3>2 DEF ReadyMeansIssued
  <2> QED
    BY <2>7, <2>8
<1>2. ASSUME NEW item \in Items, NEW q \in Required, SubmitMaterialNeed(item, q)
      PROVE  ReadyMeansIssued'
  <2>1. status' = "waiting_material"
    BY <1>2 DEF SubmitMaterialNeed
  <2>2. (\E r \in Latest : Missing(r) > 0)'
    BY <1>2, NewRoute
  <2> QED
    BY <2>1, <2>2 DEF ReadyMeansIssued
<1>3. CASE /\ ~\E c \in Clerks : Link(c)
           /\ ~\E item \in Items, q \in Required : SubmitMaterialNeed(item, q)
  <2>1. routes' = routes /\ Latest' = Latest /\ \A r : Missing(r)' = Missing(r)
    BY <1>3, RoutesStay, MissingStays
  <2>2. CASE NeedMore
    BY <2>1, <2>2 DEF NeedMore, ReadyMeansIssued
  <2>3. CASE DeclareConsumption
    BY <2>1, <2>3 DEF DeclareConsumption, ReadyMeansIssued
  <2>4. CASE ~NeedMore /\ ~DeclareConsumption
    <3>1. status' = status /\ asked' = asked
      BY <1>3, <2>4 DEF Next, Issuing, Returning, TakeStock, vars,
         BeginIssue, PlanIssue, BeginRelink, ReadRequirement, LinkAgain, LinkFails, Fail,
         IssueDelivery, Deliver, RecordPendingIssueLink, BeginReturn, PlanReturn,
         CreateReturn, ToRecord, RecordPart, BeginFinalize, FinalizeConsumption
    <3> QED
      BY <2>1, <3>1 DEF ReadyMeansIssued
  <2> QED
    BY <2>2, <2>3, <2>4
<1> QED
  BY <1>1, <1>2, <1>3

(* However requirements, links and returns interleave, the item stops        *)
(* waiting exactly when its last requirements are met, and what was met      *)
(* stays met.                                                                *)
THEOREM WaitsForMaterial == Spec => []ReadyMeansIssued
<1>1. Init => Types /\ ReadyMeansIssued
  BY TypesStart DEF Init, ReadyMeansIssued
<1>2. Types /\ ReadyMeansIssued /\ [Next]_vars => Types' /\ ReadyMeansIssued'
  BY TypesStep, ReadyStep
<1> QED
  BY <1>1, <1>2, PTL DEF Spec
-----------------------------------------------------------------------------
(* Records of returns.                                                       *)

(* What the request p has in hand of delivery d: given back, not recorded.   *)
Hand(p, d) == IF p # None /\ p.at = "record" /\ p.delivery = d THEN p.plan[d] ELSE 0

(* The requests are numbered by f; what they have in hand together.          *)
Numbers(f, n) ==
  f \in [1..n -> Clerks] /\ \A c \in Clerks :
    \E k \in 1..n : f[k] = c /\ \A j \in 1..n : f[j] = c => j = k

InHand(f, n, d) == Total([k \in 1..n |-> Hand(proc[f[k]], d)], n)

(* What was recorded or is in hand was given back.                           *)
HandsCovered(f, n) ==
  \A d \in DOMAIN deliveries :
    /\ deliveries[d].returned <= deliveries[d].quantity
    /\ RecordedOn(d) + InHand(f, n, d) <= deliveries[d].returned

LEMMA HandNat ==
  ASSUME Types, NEW c \in Clerks, NEW d
  PROVE  /\ Hand(proc[c], d) \in Nat
         /\ d \notin DOMAIN deliveries => Hand(proc[c], d) = 0
<1>1. CASE proc[c] # None /\ proc[c].at = "record"
  <2>1. /\ proc[c].delivery \in DOMAIN proc[c].plan
        /\ DOMAIN proc[c].plan \subseteq DOMAIN deliveries
        /\ proc[c].plan \in [DOMAIN proc[c].plan -> Nat]
    BY <1>1 DEF Types, RequestsOK, RequestOK
  <2> QED
    BY <1>1, <2>1 DEF Hand
<1>2. CASE ~(proc[c] # None /\ proc[c].at = "record")
  BY <1>2 DEF Hand
<1> QED
  BY <1>1, <1>2

LEMMA InHandNat ==
  ASSUME Types, NEW n \in Nat, NEW f, Numbers(f, n), NEW d
  PROVE  /\ InHand(f, n, d) \in Nat
         /\ d \notin DOMAIN deliveries => InHand(f, n, d) = 0
<1> DEFINE h == [k \in 1..n |-> Hand(proc[f[k]], d)]
<1>1. \A k \in 1..n : f[k] \in Clerks
  BY DEF Numbers
<1>2. \A k \in 1..n : h[k] \in Nat /\ (d \notin DOMAIN deliveries => h[k] = 0)
  BY <1>1, HandNat
<1>3. InHand(f, n, d) = Total(h, n)
  BY DEF InHand
<1> HIDE DEF h
<1>4. Total(h, n) \in Nat
  BY <1>2, TotalNat
<1>5. d \notin DOMAIN deliveries => Total(h, n) = 0
  BY <1>2, TotalOfZeros
<1> QED
  BY <1>3, <1>4, <1>5

(* One request goes on, and what all have in hand changes by what it has.    *)
LEMMA InHandGoesOn ==
  ASSUME Types, NEW n \in Nat, NEW f, Numbers(f, n), NEW c \in Clerks, NEW p,
         Continue(c, p), NEW d, Hand(p, d) \in Nat
  PROVE  InHand(f, n, d)' = InHand(f, n, d) + (Hand(p, d) - Hand(proc[c], d))
<1> DEFINE h == [k \in 1..n |-> Hand(proc[f[k]], d)]
           h2 == [k \in 1..n |-> Hand(proc'[f[k]], d)]
           by == Hand(p, d) - Hand(proc[c], d)
<1>1. /\ proc'[c] = p /\ \A e \in Clerks : e # c => proc'[e] = proc[e]
  BY DEF Types, TypeOK, Continue
<1>2. PICK i \in 1..n : f[i] = c /\ \A j \in 1..n : f[j] = c => j = i
  BY DEF Numbers
<1>3. \A k \in 1..n : f[k] \in Clerks
  BY DEF Numbers
<1>4. \A k \in 1..n : h[k] \in Int
  BY <1>3, HandNat
<1>5. by \in Int /\ Hand(proc[c], d) \in Int
  BY HandNat
<1>6. h2[i] = Hand(p, d) /\ h[i] = Hand(proc[c], d)
  BY <1>1, <1>2
<1>7. \A k \in 1..n : k # i => h2[k] = h[k]
  BY <1>1, <1>2, <1>3
<1>8. InHand(f, n, d) = Total(h, n) /\ InHand(f, n, d)' = Total(h2, n)
  BY DEF InHand, Hand
<1>9. h2[i] = h[i] + by
  BY <1>5, <1>6
<1> HIDE DEF h, h2, by
<1>10. Summable(h, n)
  BY <1>4 DEF Summable
<1>11. Total(h2, n) = Total(h, n) + by
  BY <1>5, <1>7, <1>9, <1>10, TotalOfUpdate
<1> QED
  BY <1>8, <1>11 DEF by

LEMMA HandsQuiet ==
  ASSUME Types, NEW n \in Nat, NEW f, Numbers(f, n), HandsCovered(f, n),
         NEW c \in Clerks, NEW p, Continue(c, p), p = None \/ p.at # "record",
         parts' = parts, DOMAIN deliveries' = DOMAIN deliveries,
         \A d \in DOMAIN deliveries : /\ deliveries'[d].quantity = deliveries[d].quantity
                                      /\ deliveries'[d].returned = deliveries[d].returned
  PROVE  HandsCovered(f, n)'
<1>1. ASSUME NEW d \in DOMAIN deliveries
      PROVE  RecordedOn(d)' + InHand(f, n, d)' <= deliveries[d].returned
  <2>1. Hand(p, d) = 0
    BY DEF Hand
  <2>2. InHand(f, n, d)' = InHand(f, n, d) + (0 - Hand(proc[c], d))
    BY <2>1, InHandGoesOn
  <2>3. RecordedOn(d)' = RecordedOn(d)
    BY DEF RecordedOn, TotalOf
  <2>4. /\ InHand(f, n, d) \in Nat /\ Hand(proc[c], d) \in Nat /\ RecordedOn(d) \in Nat
        /\ deliveries[d].returned \in Nat
    BY InHandNat, HandNat, RecordedNat, RecordsOf
  <2> QED
    BY <2>2, <2>3, <2>4 DEF HandsCovered
<1> QED
  BY <1>1 DEF HandsCovered

LEMMA HandsStep ==
  ASSUME Types, NEW n \in Nat, NEW f, Numbers(f, n), HandsCovered(f, n), [Next]_vars
  PROVE  HandsCovered(f, n)'
<1>1. CASE \/ \E item \in Items, q \in Required : SubmitMaterialNeed(item, q)
           \/ \E item \in Items, lot \in Shared : TakeStock(item, lot)
           \/ NeedMore \/ DeclareConsumption \/ UNCHANGED vars
  <2>1. deliveries' = deliveries /\ parts' = parts /\ proc' = proc
    BY <1>1 DEF SubmitMaterialNeed, TakeStock, NeedMore, DeclareConsumption, vars
  <2> QED
    BY <2>1 DEF HandsCovered, InHand, Hand, RecordedOn, TotalOf
<1>2. ASSUME NEW c \in Clerks, Issuing(c) \/ Returning(c) \/ Fail(c)
      PROVE  HandsCovered(f, n)'
  <2>1. CASE \/ \E r \in DOMAIN routes : BeginIssue(c, r)
             \/ PlanIssue(c)
             \/ \E d \in DOMAIN deliveries, r \in DOMAIN routes : BeginRelink(c, d, r)
             \/ ReadRequirement(c) \/ Link(c) \/ LinkAgain(c) \/ LinkFails(c) \/ Fail(c)
             \/ \E r \in DOMAIN routes : BeginReturn(c, r)
             \/ PlanReturn(c) \/ BeginFinalize(c) \/ FinalizeConsumption(c)
    <3>1. deliveries' = deliveries /\ parts' = parts
      BY <2>1 DEF BeginIssue, PlanIssue, BeginRelink, ReadRequirement, Link, AddLink, LinkAgain,
           LinkFails, Fail, BeginReturn, PlanReturn, BeginFinalize, FinalizeConsumption
    <3>2. \E p : Continue(c, p) /\ (p = None \/ p.at # "record")
      <4>1. CASE \E r \in DOMAIN routes : BeginIssue(c, r)
        BY <4>1 DEF BeginIssue
      <4>2. CASE PlanIssue(c)
        BY <4>2 DEF PlanIssue
      <4>3. CASE \E d \in DOMAIN deliveries, r \in DOMAIN routes : BeginRelink(c, d, r)
        BY <4>3 DEF BeginRelink
      <4>4. CASE ReadRequirement(c)
        <5> DEFINE p == [at |-> IF status = "waiting_material" THEN "link" ELSE "late",
                         route |-> proc[c].route, delivery |-> proc[c].delivery,
                         plan |-> proc[c].plan, issuing |-> proc[c].issuing]
        <5>1. Continue(c, p) /\ p.at # "record"
          BY <4>4 DEF ReadRequirement
        <5> QED
          BY <5>1
      <4>5. CASE Link(c) \/ LinkAgain(c)
        <5>1. AfterLink(proc[c]) = None \/ AfterLink(proc[c]).at # "record"
          BY DEF AfterLink
        <5> QED
          BY <4>5, <5>1 DEF Link, AddLink, LinkAgain
      <4>6. CASE LinkFails(c)
        <5> DEFINE p == IF proc[c].issuing THEN [at |-> "mark", delivery |-> proc[c].delivery]
                                           ELSE None
        <5>1. Continue(c, p) /\ (p = None \/ p.at # "record")
          BY <4>6 DEF LinkFails
        <5> QED
          BY <5>1
      <4>7. CASE Fail(c) \/ FinalizeConsumption(c)
        BY <4>7 DEF Fail, FinalizeConsumption
      <4>8. CASE \E r \in DOMAIN routes : BeginReturn(c, r)
        BY <4>8 DEF BeginReturn
      <4>9. CASE PlanReturn(c)
        BY <4>9 DEF PlanReturn
      <4>10. CASE BeginFinalize(c)
        BY <4>10 DEF BeginFinalize
      <4> QED
        BY <2>1, <4>1, <4>2, <4>3, <4>4, <4>5, <4>6, <4>7, <4>8, <4>9, <4>10
    <3>3. PICK p : Continue(c, p) /\ (p = None \/ p.at # "record")
      BY <3>2
    <3> QED
      BY <3>1, <3>3, HandsQuiet
  <2>2. CASE RecordPendingIssueLink(c)
    BY <2>2, TypesMark, HandsQuiet DEF RecordPendingIssueLink
  <2>3. CASE IssueDelivery(c)
    <3>1. /\ parts' = parts /\ Len(deliveries) \in Nat /\ DOMAIN deliveries = 1..Len(deliveries)
          /\ \A d \in DOMAIN deliveries : deliveries'[d] = deliveries[d]
      BY <2>3, TypesIssue DEF Types, TypeOK
    <3>2. PICK l \in Lots : Deliver(c, l, proc[c].plan[l])
      BY <2>3 DEF IssueDelivery
    <3> DEFINE p == [at |-> "read", route |-> proc[c].route, delivery |-> Len(deliveries) + 1,
                     plan |-> [proc[c].plan EXCEPT ![l] = 0], issuing |-> TRUE]
               new == [route |-> proc[c].route, lot |-> l, quantity |-> proc[c].plan[l],
                       marked |-> FALSE, returned |-> 0]
    <3>3. Continue(c, p) /\ deliveries' = Append(deliveries, new)
      BY <3>2 DEF Deliver
    <3>4. p.at # "record" /\ new.returned = 0
      OBVIOUS
    <3> HIDE DEF p, new
    <3>5. PICK m \in Nat : /\ m \notin DOMAIN deliveries
                           /\ DOMAIN deliveries' = DOMAIN deliveries \cup {m}
                           /\ deliveries'[m] = new
      <4>1. /\ Len(deliveries) + 1 \in Nat /\ Len(deliveries) + 1 \notin DOMAIN deliveries
            /\ DOMAIN deliveries' = DOMAIN deliveries \cup {Len(deliveries) + 1}
            /\ deliveries'[Len(deliveries) + 1] = new
        BY <3>1, <3>3 DEF Types, TypeOK
      <4> QED
        BY <4>1
    <3>6. ASSUME NEW d
          PROVE  /\ InHand(f, n, d)' <= InHand(f, n, d) /\ InHand(f, n, d)' \in Int
                 /\ InHand(f, n, d) \in Nat
                 /\ RecordedOn(d)' = RecordedOn(d) /\ RecordedOn(d) \in Nat
      <4>1. Hand(p, d) = 0
        BY <3>4 DEF Hand
      <4>2. InHand(f, n, d)' = InHand(f, n, d) + (0 - Hand(proc[c], d))
        BY <3>3, <4>1, InHandGoesOn
      <4>3. RecordedOn(d)' = RecordedOn(d)
        BY <3>1 DEF RecordedOn, TotalOf
      <4>4. InHand(f, n, d) \in Nat /\ Hand(proc[c], d) \in Nat /\ RecordedOn(d) \in Nat
        BY InHandNat, HandNat, RecordedNat
      <4> QED
        BY <4>2, <4>3, <4>4
    <3>7. new.quantity \in Nat
      BY <2>3 DEF new, IssueDelivery, At, Types, RequestsOK, RequestOK
    <3>8. /\ deliveries'[m].returned <= deliveries'[m].quantity
          /\ RecordedOn(m)' + InHand(f, n, m)' <= deliveries'[m].returned
      <4>1. InHand(f, n, m) = 0 /\ RecordedOn(m) = 0
        BY <3>5, InHandNat, NothingRecorded
      <4>2. InHand(f, n, m)' <= 0 /\ RecordedOn(m)' = 0 /\ InHand(f, n, m)' \in Int
        BY <3>6, <4>1
      <4> QED
        BY <3>4, <3>5, <3>7, <4>2
    <3>9. ASSUME NEW d \in DOMAIN deliveries
          PROVE  /\ deliveries'[d].returned <= deliveries'[d].quantity
                 /\ RecordedOn(d)' + InHand(f, n, d)' <= deliveries'[d].returned
      <4>1. deliveries'[d] = deliveries[d] /\ deliveries[d].returned \in Nat
        BY <3>1, RecordsOf
      <4>2. RecordedOn(d) + InHand(f, n, d) <= deliveries[d].returned
            /\ deliveries[d].returned <= deliveries[d].quantity
        BY DEF HandsCovered
      <4>3. RecordedOn(d)' + InHand(f, n, d)' <= RecordedOn(d) + InHand(f, n, d)
        BY <3>6
      <4>4. RecordedOn(d)' + InHand(f, n, d)' \in Int /\ RecordedOn(d) + InHand(f, n, d) \in Int
        BY <3>6
      <4> QED
        BY <4>1, <4>2, <4>3, <4>4
    <3> QED
      BY <3>5, <3>8, <3>9 DEF HandsCovered
  <2>4. CASE CreateReturn(c)
    <3>1. PICK d \in DOMAIN deliveries :
            /\ proc[c].plan[d] \in Nat
            /\ deliveries[d].returned + proc[c].plan[d] <= deliveries[d].quantity
            /\ \A e \in DOMAIN deliveries :
                 /\ deliveries'[e].quantity = deliveries[e].quantity
                 /\ deliveries'[e].returned
                      = deliveries[e].returned + (IF e = d THEN proc[c].plan[d] ELSE 0)
            /\ Continue(c, [at |-> "record", route |-> proc[c].route, delivery |-> d,
                            plan |-> proc[c].plan, fits |-> proc[c].fits])
      BY <2>4, TypesGiveBack
    <3> DEFINE p == [at |-> "record", route |-> proc[c].route, delivery |-> d,
                     plan |-> proc[c].plan, fits |-> proc[c].fits]
               q == proc[c].plan[d]
    <3>2. Types' /\ DOMAIN deliveries' = DOMAIN deliveries
      BY <2>4, TypesGiveBack
    <3>3. parts' = parts
      BY <2>4 DEF CreateReturn, ToRecord
    <3>4. p.at = "record" /\ p.delivery = d /\ p.plan[d] = q
      OBVIOUS
    <3>5. Continue(c, p)
      BY <3>1
    <3>6. q \in Nat
      BY <3>1
    <3> HIDE DEF p
    <3>7. ASSUME NEW e \in DOMAIN deliveries
          PROVE  /\ deliveries'[e].returned <= deliveries'[e].quantity
                 /\ RecordedOn(e)' + InHand(f, n, e)' <= deliveries'[e].returned
      <4>1. Hand(p, e) \in Nat /\ Hand(p, e) <= IF e = d THEN q ELSE 0
        BY <3>4, <3>6 DEF Hand
      <4>2. Hand(proc[c], e) = 0
        BY <2>4 DEF CreateReturn, At, Hand
      <4>3. InHand(f, n, e)' = InHand(f, n, e) + (Hand(p, e) - Hand(proc[c], e))
        <5>1. Hand(p, e) \in Nat
          BY <4>1
        <5> QED
          BY ONLY Types, n \in Nat, Numbers(f, n), c \in Clerks, <3>5, <5>1, InHandGoesOn
      <4>4. RecordedOn(e)' = RecordedOn(e)
        BY <3>3 DEF RecordedOn, TotalOf
      <4>5. /\ RecordedOn(e) + InHand(f, n, e) <= deliveries[e].returned
            /\ deliveries[e].returned <= deliveries[e].quantity
        BY DEF HandsCovered
      <4>6. RecordedOn(e) \in Nat /\ InHand(f, n, e) \in Nat /\ deliveries[e].returned \in Nat
            /\ deliveries[e].quantity \in Nat
        BY InHandNat, RecordedNat, RecordsOf
      <4>7. /\ deliveries'[e].quantity = deliveries[e].quantity
            /\ deliveries'[e].returned = deliveries[e].returned + (IF e = d THEN q ELSE 0)
        BY <3>1
      <4>8. deliveries[d].returned + q <= deliveries[d].quantity
        BY <3>1
      <4> HIDE DEF q
      <4> QED
        BY <3>6, <4>1, <4>2, <4>3, <4>4, <4>5, <4>6, <4>7, <4>8
    <3> QED
      BY <3>2, <3>7 DEF HandsCovered
  <2>5. CASE RecordPart(c)
    <3> DEFINE q == proc[c].plan[proc[c].delivery]
               part == [route |-> proc[c].route, delivery |-> proc[c].delivery, quantity |-> q]
               plan == [proc[c].plan EXCEPT ![proc[c].delivery] = 0]
               p == IF \E d \in DOMAIN plan : plan[d] > 0
                    THEN [at |-> "return", route |-> proc[c].route, plan |-> plan,
                          fits |-> proc[c].fits]
                    ELSE IF proc[c].fits THEN [at |-> "refresh", route |-> proc[c].route]
                    ELSE None
    <3>1. /\ parts' = Append(parts, part) /\ Continue(c, p) /\ deliveries' = deliveries
          /\ proc[c] # None /\ proc[c].at = "record"
      BY <2>5 DEF RecordPart, At
    <3>2. p = None \/ p.at # "record"
      OBVIOUS
    <3>3. part \in [route : DOMAIN routes, delivery : DOMAIN deliveries, quantity : Nat]
      BY <3>1 DEF Types, RequestsOK, RequestOK
    <3>4. part.delivery = proc[c].delivery /\ part.quantity = q
      OBVIOUS
    <3> HIDE DEF p, part
    <3>5. ASSUME NEW e \in DOMAIN deliveries
          PROVE  RecordedOn(e)' + InHand(f, n, e)' <= deliveries[e].returned
      <4>1. Hand(p, e) = 0 /\ Hand(p, e) \in Nat
        BY <3>2 DEF Hand
      <4>2. Hand(proc[c], e) = IF e = proc[c].delivery THEN q ELSE 0
        BY <3>1 DEF Hand
      <4>3. InHand(f, n, e)' = InHand(f, n, e) + (Hand(p, e) - Hand(proc[c], e))
        BY <3>1, <4>1, InHandGoesOn
      <4>4. RecordedOn(e)' = RecordedOn(e) + IF part.delivery = e THEN part.quantity ELSE 0
        BY <3>1, <3>3, RecordedAdds
      <4>5. RecordedOn(e) + InHand(f, n, e) <= deliveries[e].returned
        BY DEF HandsCovered
      <4>6. RecordedOn(e) \in Nat /\ InHand(f, n, e) \in Nat /\ Hand(proc[c], e) \in Nat
        BY InHandNat, RecordedNat, HandNat
      <4> HIDE DEF q
      <4>7. RecordedOn(e)' + InHand(f, n, e)' = RecordedOn(e) + InHand(f, n, e)
        BY <3>4, <4>1, <4>2, <4>3, <4>4, <4>6
      <4> QED
        BY <4>5, <4>7
    <3> QED
      BY <3>1, <3>5 DEF HandsCovered
  <2> QED
    BY <1>2, <2>1, <2>2, <2>3, <2>4, <2>5 DEF Issuing, Returning
<1> QED
  BY <1>1, <1>2 DEF Next

LEMMA HandsHold ==
  ASSUME NEW n \in Nat, NEW f, Numbers(f, n)
  PROVE  Spec => [](Types /\ HandsCovered(f, n))
<1>1. Init => Types /\ HandsCovered(f, n)
  BY TypesStart DEF Init, HandsCovered
<1>2. Types /\ HandsCovered(f, n) /\ [Next]_vars => Types' /\ HandsCovered(f, n)'
  BY TypesStep, HandsStep
<1> QED
  BY <1>1, <1>2, PTL DEF Spec

LEMMA RequestsNumbered == \E n \in Nat : \E f : Numbers(f, n)
<1>1. PICK n \in Nat : ExistsBijection(1..n, Clerks)
  BY MaterialBounds, FS_NatBijection
<1>2. PICK f : f \in Bijection(1..n, Clerks)
  BY <1>1 DEF ExistsBijection
<1>3. Numbers(f, n)
  BY <1>2 DEF Bijection, Injection, Surjection, IsInjective, Numbers
<1> QED
  BY <1>3

LEMMA HandsReturned ==
  ASSUME Types, NEW n \in Nat, NEW f, Numbers(f, n), HandsCovered(f, n)
  PROVE  RecordedWasReturned
<1>1. ASSUME NEW d \in DOMAIN deliveries
      PROVE  /\ deliveries[d].returned <= deliveries[d].quantity
             /\ RecordedOn(d) <= deliveries[d].returned
  <2>1. /\ deliveries[d].returned <= deliveries[d].quantity
        /\ RecordedOn(d) + InHand(f, n, d) <= deliveries[d].returned
    BY DEF HandsCovered
  <2>2. RecordedOn(d) \in Nat /\ InHand(f, n, d) \in Nat /\ deliveries[d].returned \in Nat
    BY InHandNat, RecordedNat, RecordsOf
  <2> QED
    BY <2>1, <2>2
<1> QED
  BY <1>1 DEF RecordedWasReturned

(* A recorded part of a return was given back before, and no more of a       *)
(* delivery than was issued: whatever requests race, and wherever they stop  *)
(* between the return and its record.                                        *)
THEOREM RecordsFollowReturns == Spec => []RecordedWasReturned
<1>1. PICK n \in Nat : \E f : Numbers(f, n)
  BY RequestsNumbered
<1>2. PICK f : Numbers(f, n)
  BY <1>1
<1>3. Spec => [](Types /\ HandsCovered(f, n))
  BY <1>2, HandsHold
<1>4. Types /\ HandsCovered(f, n) => RecordedWasReturned
  BY <1>2, HandsReturned
<1> QED
  BY <1>3, <1>4, PTL
-----------------------------------------------------------------------------
(* Use.                                                                      *)

(* What the plan of a return gives back from the first m lots.               *)
PlannedFrom(r, lots, m) ==
  [d \in DOMAIN deliveries |->
     IF d \in LinkedDeliveries(r) /\ deliveries[d].lot <= m
     THEN PlannedReturn(r, lots)[d] ELSE 0]

(* A plan that fits gives back what the warehouse asked for.                 *)
LEMMA PlannedTotal ==
  ASSUME Types, NEW r, NEW lots \in [Lots -> Nat],
         \A l \in Lots : Total(LeftOf(r, FromLot(r, l)), Len(deliveries)) >= lots[l]
  PROVE  Total(PlannedFrom(r, lots, NumLots), Len(deliveries)) = Total(lots, NumLots)
<1> DEFINE N == Len(deliveries)
           Bad == {m \in 0..NumLots : Total(PlannedFrom(r, lots, m), N) # Total(lots, m)}
<1>1. NumLots \in Nat /\ N \in Nat /\ DOMAIN deliveries = 1..N
  BY MaterialBounds DEF Types, TypeOK
<1>2. ASSUME NEW m \in 0..NumLots
      PROVE  /\ \A d \in 1..N : PlannedFrom(r, lots, m)[d] \in Nat
             /\ Summable(PlannedFrom(r, lots, m), N) /\ Summable(lots, m)
  <2>1. \A d \in 1..N : PlannedFrom(r, lots, m)[d] \in Nat
    BY <1>1, PlannedNat DEF PlannedFrom
  <2>2. \A l \in 1..m : lots[l] \in Int
    BY <1>1 DEF Lots
  <2> QED
    BY <2>1, <2>2 DEF Summable
<1>3. ASSUME NEW m \in 1..NumLots
      PROVE  Total(PlannedFrom(r, lots, m), N)
               = Total(PlannedFrom(r, lots, m - 1), N) + lots[m]
  <2> DEFINE a == LeftOf(r, FromLot(r, m))
             g == [d \in 1..N |-> Greedy(a, lots[m], d)]
             before == PlannedFrom(r, lots, m - 1)
             now == PlannedFrom(r, lots, m)
  <2>1. m \in Lots /\ lots[m] \in Nat /\ m - 1 \in 0..NumLots /\ m \in 0..NumLots
    BY <1>1 DEF Lots
  <2>2. (\A d \in 1..N : a[d] \in Nat) /\ Total(a, N) \in Nat
    BY LeftNat
  <2>3. \A d \in 1..N : g[d] = Greedy(a, lots[m], d) /\ g[d] \in Nat
    <3> HIDE DEF a
    <3> QED
      BY <1>1, <2>1, <2>2, GreedyNat
  <2>4. Total(g, N) = lots[m]
    <3>1. Total(a, N) >= lots[m]
      BY <2>1
    <3> HIDE DEF a
    <3>2. Total(g, N) = Least(lots[m], Total(a, N))
      BY <1>1, <2>1, <2>2, GreedyTotal
    <3> QED
      BY <2>1, <2>2, <3>1, <3>2 DEF Least
  <2>5. ASSUME NEW d \in 1..N
        PROVE  now[d] = before[d] + g[d]
    <3>0. deliveries[d].lot \in Nat /\ m \in Nat
      BY <1>1, RecordsOf DEF Lots
    <3>1. CASE d \in LinkedDeliveries(r) /\ deliveries[d].lot = m
      <4>1. PlannedReturn(r, lots)[d] = g[d]
        BY <2>3, <3>1 DEF PlannedReturn
      <4>2. now[d] = PlannedReturn(r, lots)[d] /\ before[d] = 0
        BY <1>1, <3>0, <3>1 DEF PlannedFrom
      <4> QED
        BY <2>3, <4>1, <4>2
    <3>2. CASE ~(d \in LinkedDeliveries(r) /\ deliveries[d].lot = m)
      <4>1. a[d] = 0
        BY <1>1, <3>2 DEF LeftOf, FromLot
      <4>2. g[d] = 0
        <5>1. g[d] <= a[d]
          <6> HIDE DEF a
          <6> QED
            BY <1>1, <2>1, <2>2, GreedyNat
        <5> QED
          BY <2>3, <4>1, <5>1
      <4>3. now[d] = before[d] /\ before[d] \in Nat
        <5>1. before[d] \in Nat
          BY <1>2, <2>1
        <5> QED
          BY <1>1, <3>0, <3>2, <5>1 DEF PlannedFrom
      <4> QED
        BY <4>2, <4>3
    <3> QED
      BY <3>1, <3>2
  <2>6. Summable(before, N) /\ Summable(g, N)
    BY <1>2, <2>1, <2>3 DEF Summable
  <2> HIDE DEF a, g, before, now
  <2>7. Total(now, N) = Total(before, N) + Total(g, N)
    BY <1>1, <2>5, <2>6, TotalAdds
  <2> QED
    BY <2>4, <2>7 DEF now, before
<1>4. ASSUME Bad # {}
      PROVE  FALSE
  <2>1. PICK m \in Bad : \A k \in Bad : m <= k
    <3>1. Bad \in SUBSET Nat
      BY <1>1
    <3> QED
      BY <3>1, <1>4, LeastElement
  <2>2. CASE m = 0
    <3>1. \A d \in 1..N : PlannedFrom(r, lots, 0)[d] = 0
      <4>1. \A d \in 1..N : ~(deliveries[d].lot <= 0)
        BY <1>1, RecordsOf DEF Lots
      <4> QED
        BY <1>1, <4>1 DEF PlannedFrom
    <3>2. Total(PlannedFrom(r, lots, 0), N) = 0
      BY <1>1, <3>1, TotalOfZeros
    <3> QED
      BY <2>1, <2>2, <3>2, TotalOfNothing
  <2>3. CASE m # 0
    <3>1. m \in 1..NumLots /\ m - 1 \in 0..NumLots /\ m - 1 \notin Bad
      BY <1>1, <2>1, <2>3
    <3>2. Total(PlannedFrom(r, lots, m - 1), N) = Total(lots, m - 1)
      BY <3>1
    <3>3. Total(lots, m) = Total(lots, m - 1) + lots[m]
      <4>1. (m - 1) + 1 = m /\ m - 1 \in Nat /\ Summable(lots, m)
        BY <1>2, <2>1, <3>1
      <4> QED
        BY <4>1, TotalOfNext
    <3>4. Total(PlannedFrom(r, lots, m), N)
            = Total(PlannedFrom(r, lots, m - 1), N) + lots[m]
      BY <3>1, <1>3
    <3> QED
      BY <2>1, <3>2, <3>3, <3>4
  <2> QED
    BY <2>2, <2>3
<1> QED
  BY <1>1, <1>4

(* Issuing, or the end of a request, is not about returns.                   *)
LEMMA IssuingStep ==
  ASSUME Types, NEW c \in Clerks, Issuing(c) \/ Fail(c)
  PROVE  /\ UNCHANGED <<routes, declared, parts, usages>>
         /\ DOMAIN deliveries \subseteq DOMAIN deliveries' /\ Len(deliveries') \in Nat
         /\ Len(deliveries) <= Len(deliveries')
         /\ \E p : Continue(c, p) /\ (p = None \/
              p.at \in {"plan", "issue", "read", "link", "late", "mark"})
<1>1. CASE \E r \in DOMAIN routes : BeginIssue(c, r)
  BY <1>1 DEF BeginIssue, Types, TypeOK
<1>2. CASE PlanIssue(c)
  BY <1>2 DEF PlanIssue, Types, TypeOK
<1>3. CASE IssueDelivery(c)
  <2>1. PICK l \in Lots : Deliver(c, l, proc[c].plan[l])
    BY <1>3 DEF IssueDelivery
  <2> DEFINE p == [at |-> "read", route |-> proc[c].route, delivery |-> Len(deliveries) + 1,
                   plan |-> [proc[c].plan EXCEPT ![l] = 0], issuing |-> TRUE]
  <2>2. Continue(c, p) /\ p.at = "read" /\ UNCHANGED <<routes, declared, parts, usages>>
    BY <2>1 DEF Deliver
  <2>3. Len(deliveries') = Len(deliveries) + 1 /\ DOMAIN deliveries \subseteq DOMAIN deliveries'
        /\ Len(deliveries) \in Nat
    BY <1>3, TypesIssue DEF Types, TypeOK
  <2> HIDE DEF p
  <2> QED
    BY <2>2, <2>3
<1>4. CASE \E d \in DOMAIN deliveries, r \in DOMAIN routes : BeginRelink(c, d, r)
  BY <1>4 DEF BeginRelink, Types, TypeOK
<1>5. CASE ReadRequirement(c)
  <2> DEFINE p == [at |-> IF status = "waiting_material" THEN "link" ELSE "late",
                   route |-> proc[c].route, delivery |-> proc[c].delivery,
                   plan |-> proc[c].plan, issuing |-> proc[c].issuing]
  <2>1. Continue(c, p) /\ p.at \in {"link", "late"}
        /\ UNCHANGED <<routes, declared, parts, usages, deliveries>>
    BY <1>5 DEF ReadRequirement
  <2> HIDE DEF p
  <2> QED
    BY <2>1 DEF Types, TypeOK
<1>6. CASE Link(c) \/ LinkAgain(c)
  <2>1. AfterLink(proc[c]) = None \/ AfterLink(proc[c]).at = "issue"
    BY DEF AfterLink
  <2>2. /\ Continue(c, AfterLink(proc[c]))
        /\ UNCHANGED <<routes, declared, parts, usages, deliveries>>
    BY <1>6 DEF Link, AddLink, LinkAgain
  <2> QED
    BY <2>1, <2>2 DEF Types, TypeOK
<1>7. CASE LinkFails(c)
  <2> DEFINE p == IF proc[c].issuing THEN [at |-> "mark", delivery |-> proc[c].delivery]
                                     ELSE None
  <2>1. Continue(c, p) /\ (p = None \/ p.at = "mark")
        /\ UNCHANGED <<routes, declared, parts, usages, deliveries>>
    BY <1>7 DEF LinkFails
  <2> HIDE DEF p
  <2> QED
    BY <2>1 DEF Types, TypeOK
<1>8. CASE RecordPendingIssueLink(c)
  <2>1. Continue(c, None) /\ UNCHANGED <<routes, declared, parts, usages>>
    BY <1>8 DEF RecordPendingIssueLink
  <2> QED
    BY <1>8, <2>1, TypesMark DEF Types, TypeOK
<1>9. CASE Fail(c)
  BY <1>9 DEF Fail, Types, TypeOK
<1> QED
  BY <1>1, <1>2, <1>3, <1>4, <1>5, <1>6, <1>7, <1>8, <1>9 DEF Issuing

(* What a delivery is linked to stays.                                       *)
LEMMA LinkedGrows ==
  ASSUME Types, [Next]_vars
  PROVE  \A i \in DOMAIN links : i \in DOMAIN links' /\ links'[i] = links[i]
<1>1. ASSUME NEW c \in Clerks, Link(c)
      PROVE  \A i \in DOMAIN links : i \in DOMAIN links' /\ links'[i] = links[i]
  <2> DEFINE new == [delivery |-> proc[c].delivery, route |-> proc[c].route]
  <2>1. links' = Append(links, new)
    BY <1>1, LinkAdds
  <2> HIDE DEF new
  <2> QED
    BY <2>1 DEF Types, TypeOK
<1>2. ASSUME ~\E c \in Clerks : Link(c)
      PROVE  \A i \in DOMAIN links : i \in DOMAIN links' /\ links'[i] = links[i]
  BY <1>2, QuietLinks
<1> QED
  BY <1>1, <1>2

(* Parts of returns, recorded or planned, are on deliveries that are linked  *)
(* to the requirement.                                                       *)
LinkedFor(d, r) == \E i \in DOMAIN links : links[i].delivery = d /\ links[i].route = r

PartsLinked ==
  /\ \A i \in DOMAIN parts : LinkedFor(parts[i].delivery, parts[i].route)
  /\ \A c \in Clerks : proc[c] # None /\ proc[c].at \in {"return", "record"} =>
       \A d \in DOMAIN proc[c].plan : LinkedFor(d, proc[c].route)

LEMMA LinkedForStays ==
  ASSUME Types, [Next]_vars
  PROVE  \A d, r : LinkedFor(d, r) =>
           \E i \in DOMAIN links' : links'[i].delivery = d /\ links'[i].route = r
  BY LinkedGrows DEF LinkedFor

LEMMA PartsLinkedGoOn ==
  ASSUME Types, PartsLinked, [Next]_vars, NEW c \in Clerks, NEW p, Continue(c, p),
         p # None /\ p.at \in {"return", "record"} =>
           \A d \in DOMAIN p.plan : LinkedFor(d, p.route),
         \A i \in DOMAIN parts' :
           \/ i \in DOMAIN parts /\ parts'[i] = parts[i]
           \/ LinkedFor(parts'[i].delivery, parts'[i].route)
  PROVE  PartsLinked'
<1>1. /\ proc'[c] = p /\ \A e \in Clerks : e # c => proc'[e] = proc[e]
  BY DEF Types, TypeOK, Continue
<1>2. ASSUME NEW i \in DOMAIN parts'
      PROVE  LinkedFor(parts'[i].delivery, parts'[i].route)
  BY DEF PartsLinked
<1>3. ASSUME NEW e \in Clerks, proc'[e] # None, proc'[e].at \in {"return", "record"},
             NEW d \in DOMAIN proc'[e].plan
      PROVE  LinkedFor(d, proc'[e].route)
  BY <1>1, <1>3 DEF PartsLinked
<1>4. ASSUME NEW i \in DOMAIN parts'
      PROVE  \E j \in DOMAIN links' : /\ links'[j].delivery = parts'[i].delivery
                                      /\ links'[j].route = parts'[i].route
  BY <1>2, LinkedForStays
<1>5. ASSUME NEW e \in Clerks, proc'[e] # None, proc'[e].at \in {"return", "record"},
             NEW d \in DOMAIN proc'[e].plan
      PROVE  \E j \in DOMAIN links' : links'[j].delivery = d /\ links'[j].route = proc'[e].route
  BY <1>3, <1>5, LinkedForStays
<1> QED
  BY <1>4, <1>5 DEF PartsLinked, LinkedFor

LEMMA PartsLinkedStep ==
  ASSUME Types, PartsLinked, [Next]_vars
  PROVE  PartsLinked'
<1>1. CASE \/ \E item \in Items, q \in Required : SubmitMaterialNeed(item, q)
           \/ \E item \in Items, lot \in Shared : TakeStock(item, lot)
           \/ NeedMore \/ DeclareConsumption \/ UNCHANGED vars
  <2>1. links' = links /\ parts' = parts /\ proc' = proc
    BY <1>1 DEF SubmitMaterialNeed, TakeStock, NeedMore, DeclareConsumption, vars
  <2> QED
    BY <2>1 DEF PartsLinked, LinkedFor
<1>2. ASSUME NEW c \in Clerks, Issuing(c) \/ Returning(c) \/ Fail(c)
      PROVE  PartsLinked'
  <2>1. CASE Issuing(c) \/ Fail(c)
    <3>1. PICK p : Continue(c, p) /\ (p = None \/
                     p.at \in {"plan", "issue", "read", "link", "late", "mark"})
      BY <2>1, IssuingStep
    <3>2. parts' = parts
      BY <2>1, IssuingStep
    <3> QED
      BY <3>1, <3>2, PartsLinkedGoOn
  <2>2. ASSUME NEW r \in DOMAIN routes, BeginReturn(c, r)
        PROVE  PartsLinked'
    <3>1. PICK lots : Continue(c, [at |-> "planReturn", route |-> r, lots |-> lots])
      BY <2>2 DEF BeginReturn
    <3>2. parts' = parts
      BY <2>2 DEF BeginReturn
    <3> QED
      BY <3>1, <3>2, PartsLinkedGoOn
  <2>3. CASE PlanReturn(c)
    <3> DEFINE r == proc[c].route
               fits == \A l \in Lots :
                         Total(LeftOf(r, FromLot(r, l)), Len(deliveries)) >= proc[c].lots[l]
               p == [at |-> "return", route |-> r, plan |-> PlannedReturn(r, proc[c].lots),
                     fits |-> fits]
    <3>1. Continue(c, p) /\ parts' = parts
      BY <2>3 DEF PlanReturn, PlannedReturn
    <3>2. \A d \in DOMAIN p.plan : LinkedFor(d, p.route)
      BY DEF PlannedReturn, LinkedDeliveries, LinkedFor
    <3> HIDE DEF p
    <3> QED
      BY <3>1, <3>2, PartsLinkedGoOn
  <2>4. CASE CreateReturn(c)
    <3>1. PICK d : Continue(c, [at |-> "record", route |-> proc[c].route, delivery |-> d,
                                plan |-> proc[c].plan, fits |-> proc[c].fits])
      BY <2>4, TypesGiveBack
    <3> DEFINE p == [at |-> "record", route |-> proc[c].route, delivery |-> d,
                     plan |-> proc[c].plan, fits |-> proc[c].fits]
    <3>2. parts' = parts /\ proc[c] # None /\ proc[c].at = "return"
      BY <2>4 DEF CreateReturn, ToRecord, At
    <3>3. \A e \in DOMAIN p.plan : LinkedFor(e, p.route)
      BY <3>2 DEF PartsLinked
    <3>4. Continue(c, p)
      BY <3>1
    <3> HIDE DEF p
    <3> QED
      BY <3>2, <3>3, <3>4, PartsLinkedGoOn
  <2>5. CASE RecordPart(c)
    <3> DEFINE part == [route |-> proc[c].route, delivery |-> proc[c].delivery,
                        quantity |-> proc[c].plan[proc[c].delivery]]
               plan == [proc[c].plan EXCEPT ![proc[c].delivery] = 0]
               p == IF \E d \in DOMAIN plan : plan[d] > 0
                    THEN [at |-> "return", route |-> proc[c].route, plan |-> plan,
                          fits |-> proc[c].fits]
                    ELSE IF proc[c].fits THEN [at |-> "refresh", route |-> proc[c].route]
                    ELSE None
    <3>1. /\ parts' = Append(parts, part) /\ Continue(c, p)
          /\ proc[c] # None /\ proc[c].at = "record"
      BY <2>5 DEF RecordPart, At
    <3>2. \A d \in DOMAIN proc[c].plan : LinkedFor(d, proc[c].route)
      BY <3>1 DEF PartsLinked
    <3>3. DOMAIN plan = DOMAIN proc[c].plan
      OBVIOUS
    <3> HIDE DEF plan
    <3>4. p # None /\ p.at \in {"return", "record"} =>
            \A d \in DOMAIN p.plan : LinkedFor(d, p.route)
      BY <3>2, <3>3
    <3>5. LinkedFor(part.delivery, part.route)
      BY <3>1, <3>2 DEF Types, RequestsOK, RequestOK
    <3> HIDE DEF p, part
    <3>6. \A i \in DOMAIN parts' :
            \/ i \in DOMAIN parts /\ parts'[i] = parts[i]
            \/ parts'[i] = part
      <4>1. PICK n \in Nat : n = Len(parts) /\ DOMAIN parts = 1..n
        BY DEF Types, TypeOK
      <4>2. /\ DOMAIN parts' = 1..(n + 1) /\ parts'[n + 1] = part
            /\ \A i \in 1..n : parts'[i] = parts[i]
        BY <3>1, <4>1 DEF Types, TypeOK
      <4>3. \A i \in 1..(n + 1) : i \in 1..n \/ i = n + 1
        OBVIOUS
      <4> QED
        BY <4>1, <4>2, <4>3
    <3>7. \A i \in DOMAIN parts' :
            \/ i \in DOMAIN parts /\ parts'[i] = parts[i]
            \/ LinkedFor(parts'[i].delivery, parts'[i].route)
      <4>1. ASSUME NEW i \in DOMAIN parts', parts'[i] = part
            PROVE  LinkedFor(parts'[i].delivery, parts'[i].route)
        <5>1. parts'[i].delivery = part.delivery /\ parts'[i].route = part.route
          BY <4>1
        <5> QED
          BY <3>5, <5>1, Zenon
      <4> QED
        BY <3>6, <4>1
    <3> QED
      BY <3>1, <3>4, <3>7, PartsLinkedGoOn
  <2>6. CASE BeginFinalize(c)
    <3> DEFINE p == [at |-> "finalize", route |-> proc[c].route,
                     net |-> Net(proc[c].route), already |-> usages[proc[c].route] # <<>>]
    <3>1. Continue(c, p) /\ p.at = "finalize" /\ parts' = parts
      BY <2>6 DEF BeginFinalize
    <3> HIDE DEF p
    <3> QED
      BY <3>1, PartsLinkedGoOn
  <2>7. CASE FinalizeConsumption(c)
    <3>1. Continue(c, None) /\ parts' = parts
      BY <2>7 DEF FinalizeConsumption
    <3> QED
      BY <3>1, PartsLinkedGoOn
  <2> QED
    BY <1>2, <2>1, <2>2, <2>3, <2>4, <2>5, <2>6, <2>7 DEF Returning
<1> QED
  BY <1>1, <1>2 DEF Next

(* The net consumption is what was linked, without what was given back: none *)
(* of it is lost by taking deliveries one by one.                            *)
NetFollows == \A r \in DOMAIN routes : Net(r) = LinkedTo(links, r) - RecordedFor(r)

Left(r) == LeftOf(r, LinkedDeliveries(r))

LEMMA LeftRow ==
  ASSUME Types, NEW r, NEW d \in DOMAIN deliveries
  PROVE  Left(r)[d] = IF LinkedFor(d, r) THEN Positive(deliveries[d].quantity - Recorded(r, d))
                      ELSE 0
<1>1. d \in LinkedDeliveries(r) <=> LinkedFor(d, r)
  BY DEF LinkedDeliveries, LinkedFor
<1> QED
  BY <1>1 DEF Left, LeftOf

LEMMA NetStays ==
  ASSUME Types, NEW r, links' = links, parts' = parts,
         DOMAIN deliveries' = DOMAIN deliveries,
         \A d \in DOMAIN deliveries : deliveries'[d].quantity = deliveries[d].quantity
  PROVE  /\ Net(r)' = Net(r) /\ RecordedFor(r)' = RecordedFor(r)
         /\ LinkedTo(links, r)' = LinkedTo(links, r)
<1>1. Len(deliveries') = Len(deliveries)
  OBVIOUS
<1>2. LinkedDeliveries(r)' = LinkedDeliveries(r) /\ \A d : Recorded(r, d)' = Recorded(r, d)
  BY DEF LinkedDeliveries, Recorded, TotalOf
<1>3. [d \in DOMAIN deliveries' |-> IF d \in LinkedDeliveries(r)
          THEN Positive(deliveries'[d].quantity - Recorded(r, d)) ELSE 0]
    = [d \in DOMAIN deliveries |-> IF d \in LinkedDeliveries(r)
          THEN Positive(deliveries[d].quantity - Recorded(r, d)) ELSE 0]
  OBVIOUS
<1>4. LeftOf(r, LinkedDeliveries(r))' = LeftOf(r, LinkedDeliveries(r))
  BY <1>2, <1>3 DEF LeftOf
<1> QED
  BY <1>4, LinkedToStays DEF Net, RecordedFor, TotalOf

LEMMA LeftRows ==
  ASSUME Types, NEW r
  PROVE  /\ Len(deliveries) \in Nat /\ DOMAIN deliveries = 1..Len(deliveries)
         /\ \A d \in 1..Len(deliveries) : Left(r)[d] \in Nat
         /\ Summable(Left(r), Len(deliveries))
         /\ Net(r) = Total(Left(r), Len(deliveries)) /\ Net(r) \in Nat
  BY LeftNat DEF Left, Net, Summable, Types, TypeOK

(* A link adds all of its delivery: nothing was given back of it yet.        *)
LEMMA NetLinks ==
  ASSUME Types, PartsLinked, NEW c \in Clerks, Link(c), NEW r \in DOMAIN routes,
         Net(r) = LinkedTo(links, r) - RecordedFor(r)
  PROVE  Net(r)' = LinkedTo(links, r)' - RecordedFor(r)'
<1> DEFINE N == Len(deliveries)
<1>1. PICK d \in DOMAIN deliveries, q \in DOMAIN routes :
        d = proc[c].delivery /\ q = proc[c].route
  BY LinkAdds
<1>2. /\ links' = Append(links, [delivery |-> d, route |-> q]) /\ deliveries' = deliveries
      /\ parts' = parts /\ ~IsLinked(d)
  BY <1>1 DEF Link, AddLink
<1>3. \A e : LinkedFor(e, r)' <=> LinkedFor(e, r) \/ (e = d /\ q = r)
  <2> DEFINE new == [delivery |-> d, route |-> q]
  <2>1. PICK n \in Nat : n = Len(links) /\ DOMAIN links = 1..n
    <3>1. Len(links) \in Nat /\ DOMAIN links = 1..Len(links)
      BY DEF Types, TypeOK
    <3> QED
      BY <3>1
  <2>2. links' = Append(links, new) /\ new.delivery = d /\ new.route = q
    BY <1>2
  <2> HIDE DEF new
  <2>3. /\ DOMAIN links' = 1..(n + 1) /\ links'[n + 1] = new
        /\ \A i \in 1..n : links'[i] = links[i]
    BY <2>1, <2>2 DEF Types, TypeOK
  <2>4. \A i \in 1..(n + 1) : i \in 1..n \/ i = n + 1
    OBVIOUS
  <2>5. n + 1 \in 1..(n + 1) /\ \A i \in 1..n : i \in 1..(n + 1)
    OBVIOUS
  <2> QED
    BY <2>1, <2>2, <2>3, <2>4, <2>5 DEF LinkedFor
<1>4. RecordedFor(r)' = RecordedFor(r) /\ \A e : Recorded(r, e)' = Recorded(r, e)
  BY <1>2 DEF RecordedFor, Recorded, TotalOf
<1>5. Recorded(r, d) = 0
  <2> DEFINE f == [i \in DOMAIN parts |-> IF parts[i].route = r /\ parts[i].delivery = d
                                          THEN parts[i].quantity ELSE 0]
  <2>1. Len(parts) \in Nat /\ DOMAIN parts = 1..Len(parts)
    BY DEF Types, TypeOK
  <2>2. \A i \in DOMAIN parts : parts[i].delivery # d
    BY <1>2 DEF PartsLinked, LinkedFor, IsLinked
  <2>3. \A i \in 1..Len(parts) : f[i] = 0
    BY <2>1, <2>2
  <2>4. Recorded(r, d) = Total(f, Len(parts))
    BY DEF Recorded, TotalOf
  <2> HIDE DEF f
  <2> QED
    BY <2>1, <2>3, <2>4, TotalOfZeros
<1>6. /\ LinkedTo(links, r)' = LinkedTo(links', r)
      /\ LinkedTo(links', r) = LinkedTo(links, r) + IF q = r THEN deliveries[d].quantity ELSE 0
  BY <1>2, LinkedToAdds
<1> DEFINE more == IF q = r THEN deliveries[d].quantity ELSE 0
<1>7. more \in Nat /\ deliveries[d].quantity \in Nat
  BY RecordsOf
<1>8. \A e \in 1..N : Left(r)'[e] = IF LinkedFor(e, r)'
                                    THEN Positive(deliveries[e].quantity - Recorded(r, e))
                                    ELSE 0
  <2>1. \A e \in DOMAIN deliveries : e \in LinkedDeliveries(r)' <=> LinkedFor(e, r)'
    BY DEF LinkedDeliveries, LinkedFor
  <2>2. Left(r)' = [e \in DOMAIN deliveries |-> IF e \in LinkedDeliveries(r)'
                      THEN Positive(deliveries[e].quantity - Recorded(r, e)) ELSE 0]
    BY <1>2, <1>4 DEF Left, LeftOf
  <2> QED
    BY <2>1, <2>2, LeftRows
<1>9. \A e \in 1..N : e # d => Left(r)'[e] = Left(r)[e]
  BY <1>3, <1>8, LeftRow, LeftRows
<1>10. Left(r)'[d] = Left(r)[d] + more
  <2>1. d \in 1..N /\ ~LinkedFor(d, r)
    BY <1>2, LeftRows DEF IsLinked, LinkedFor
  <2>2. Left(r)[d] = 0
    BY <2>1, LeftRow
  <2>3. Positive(deliveries[d].quantity - Recorded(r, d)) = deliveries[d].quantity
    BY <1>5, <1>7 DEF Positive
  <2>4. LinkedFor(d, r)' <=> q = r
    BY <1>3, <2>1
  <2> QED
    BY <1>7, <1>8, <2>1, <2>2, <2>3, <2>4
<1>11. Net(r)' = Total(Left(r)', N)
  BY <1>2 DEF Net, Left
<1> HIDE DEF more
<1>12. Total(Left(r)', N) = Total(Left(r), N) + more
  <2> DEFINE now == Left(r)'
             before == Left(r)
  <2>1. /\ N \in Nat /\ d \in 1..N /\ Summable(before, N) /\ now[d] = before[d] + more
        /\ more \in Int
        /\ \A e \in 1..N : e # d => now[e] = before[e]
    <3>1. N \in Nat /\ d \in 1..N /\ Summable(before, N)
      BY <1>2, LeftRows
    <3>2. now[d] = before[d] + more /\ more \in Int
      BY <1>7, <1>10
    <3>3. \A e \in 1..N : e # d => now[e] = before[e]
      BY <1>9
    <3> HIDE DEF now, before
    <3> QED
      BY <3>1, <3>2, <3>3
  <2> HIDE DEF now, before
  <2>2. Total(now, N) = Total(before, N) + more
    BY <2>1, TotalOfUpdate
  <2> QED
    BY <2>2 DEF now, before
<1>13. LinkedTo(links, r) \in Nat /\ RecordedFor(r) \in Nat /\ Net(r) = Total(Left(r), N)
  BY LinkedToNat, RecordedNat, LeftRows
<1> QED
  BY <1>4, <1>6, <1>7, <1>11, <1>12, <1>13 DEF more

(* A new delivery is not linked yet.                                         *)
LEMMA NetIssued ==
  ASSUME Types, NEW c \in Clerks, IssueDelivery(c), NEW r \in DOMAIN routes
  PROVE  /\ Net(r)' = Net(r) /\ RecordedFor(r)' = RecordedFor(r)
         /\ LinkedTo(links, r)' = LinkedTo(links, r)
<1>1. PICK n \in Nat : n = Len(deliveries) /\ DOMAIN deliveries = 1..n
  BY LeftRows
<1>2. /\ Types' /\ links' = links /\ parts' = parts /\ Len(deliveries') = n + 1
      /\ \A d \in 1..n : deliveries'[d] = deliveries[d]
  BY <1>1, TypesIssue
<1>3. DOMAIN deliveries' = 1..(n + 1)
  BY <1>2 DEF Types, TypeOK
<1>4. RecordedFor(r)' = RecordedFor(r) /\ (\A d : Recorded(r, d)' = Recorded(r, d))
      /\ LinkedDeliveries(r)' = LinkedDeliveries(r)
  BY <1>2 DEF RecordedFor, Recorded, TotalOf, LinkedDeliveries
<1>5. Left(r)' = [d \in 1..(n + 1) |-> IF d \in LinkedDeliveries(r)
                    THEN Positive(deliveries'[d].quantity - Recorded(r, d)) ELSE 0]
  BY <1>3, <1>4 DEF Left, LeftOf
<1>6. Left(r) = [d \in 1..n |-> IF d \in LinkedDeliveries(r)
                    THEN Positive(deliveries[d].quantity - Recorded(r, d)) ELSE 0]
  BY <1>1 DEF Left, LeftOf
<1>7. n + 1 \notin LinkedDeliveries(r)
  <2>1. n + 1 \notin DOMAIN deliveries
    BY <1>1
  <2> QED
    BY <2>1, LinkedAreDeliveries
<1> DEFINE now == Left(r)'
           before == Left(r)
<1>8. \A d \in 1..n : now[d] = before[d]
  BY <1>2, <1>5, <1>6
<1>9. now[n + 1] = 0
  BY <1>5, <1>7
<1>10. Summable(before, n) /\ Net(r) = Total(before, n) /\ Net(r) \in Nat
  BY <1>1, LeftRows
<1>11. Net(r)' = Total(now, n + 1)
  BY <1>2 DEF Net, Left
<1> HIDE DEF now, before
<1>12. Total(now, n + 1) = Total(before, n) + now[n + 1]
  <2>1. now[n + 1] \in Int
    BY <1>9
  <2> QED
    BY <1>8, <1>10, <2>1, TotalOfMore
<1>13. LinkedTo(links, r)' = LinkedTo(links, r)
  BY <1>1, <1>2, LinkedToStays
<1> QED
  BY <1>4, <1>9, <1>10, <1>11, <1>12, <1>13

(* A recorded part is all taken off its delivery: there was as much left.    *)
LEMMA NetRecorded ==
  ASSUME Types, PartsLinked, RecordedWasReturned', NEW c \in Clerks, RecordPart(c),
         NEW r \in DOMAIN routes, Net(r) = LinkedTo(links, r) - RecordedFor(r)
  PROVE  Net(r)' = LinkedTo(links, r)' - RecordedFor(r)'
<1> DEFINE N == Len(deliveries)
<1>1. PICK d \in DOMAIN deliveries, k \in DOMAIN routes, q \in Nat :
        /\ d = proc[c].delivery /\ k = proc[c].route /\ q = proc[c].plan[d]
        /\ d \in DOMAIN proc[c].plan
  BY DEF RecordPart, At, Types, RequestsOK, RequestOK
<1> DEFINE part == [route |-> k, delivery |-> d, quantity |-> q]
           less == IF k = r THEN q ELSE 0
<1>2. /\ parts' = Append(parts, part) /\ links' = links /\ deliveries' = deliveries
      /\ proc[c] # None /\ proc[c].at = "record"
  BY <1>1 DEF RecordPart, At
<1>3. LinkedFor(d, k)
  BY <1>1, <1>2 DEF PartsLinked
<1>4. part \in [route : DOMAIN routes, delivery : DOMAIN deliveries, quantity : Nat]
      /\ part.route = k /\ part.delivery = d /\ part.quantity = q
  OBVIOUS
<1> HIDE DEF part
<1>5. /\ RecordedFor(r)' = RecordedFor(r) + less
      /\ \A e : Recorded(r, e)' = Recorded(r, e) + IF e = d THEN less ELSE 0
      /\ RecordedOn(d)' = RecordedOn(d) + q
  <2>1. ASSUME NEW e
        PROVE  /\ Recorded(r, e)' = Recorded(r, e) + IF part.route = r /\ part.delivery = e
                                                     THEN part.quantity ELSE 0
               /\ RecordedFor(r)' = RecordedFor(r) + IF part.route = r THEN part.quantity ELSE 0
               /\ RecordedOn(e)' = RecordedOn(e) + IF part.delivery = e THEN part.quantity ELSE 0
    BY <1>2, <1>4, RecordedAdds
  <2>2. \A e : Recorded(r, e) \in Nat
    BY RecordedNat
  <2> QED
    BY <1>4, <2>1, <2>2
<1>6. less \in Nat
  OBVIOUS
<1>7. LinkedDeliveries(r)' = LinkedDeliveries(r)
  BY <1>2 DEF LinkedDeliveries
<1>8. \A e \in 1..N : Left(r)'[e] = IF LinkedFor(e, r)
                                    THEN Positive(deliveries[e].quantity - Recorded(r, e)')
                                    ELSE 0
  <2>1. \A e \in DOMAIN deliveries : e \in LinkedDeliveries(r) <=> LinkedFor(e, r)
    BY DEF LinkedDeliveries, LinkedFor
  <2>2. Left(r)' = [e \in DOMAIN deliveries |-> IF e \in LinkedDeliveries(r)
                      THEN Positive(deliveries[e].quantity - Recorded(r, e)') ELSE 0]
    BY <1>2, <1>7 DEF Left, LeftOf
  <2> QED
    BY <2>1, <2>2, LeftRows
<1>9. \A e \in 1..N : e # d => Left(r)'[e] = Left(r)[e]
  <2>1. ASSUME NEW e \in 1..N, e # d
        PROVE  Left(r)'[e] = Left(r)[e]
    <3>1. Recorded(r, e)' = Recorded(r, e)
      BY <1>5, <2>1, RecordedNat
    <3>2. e \in DOMAIN deliveries
      BY LeftRows
    <3> QED
      BY <1>8, <3>1, <3>2, LeftRow
  <2> QED
    BY <2>1
<1>10. Left(r)'[d] = Left(r)[d] + (0 - less)
  <2>1. d \in 1..N
    BY LeftRows
  <2>2. CASE k = r
    <3>1. /\ Recorded(r, d) \in Nat /\ RecordedOn(d) \in Nat /\ Recorded(r, d) <= RecordedOn(d)
          /\ deliveries[d].quantity \in Nat /\ deliveries[d].returned \in Nat
      BY RecordedNat, RecordsOf
    <3>2. Recorded(r, d)' = Recorded(r, d) + q
      BY <1>5, <2>2
    <3>3. /\ RecordedOn(d)' <= deliveries[d].returned
          /\ deliveries[d].returned <= deliveries[d].quantity
      BY <1>2 DEF RecordedWasReturned
    <3>4. Recorded(r, d) + q <= deliveries[d].quantity
      BY <1>5, <3>1, <3>3
    <3>5. Left(r)[d] = deliveries[d].quantity - Recorded(r, d)
      <4>1. Left(r)[d] = Positive(deliveries[d].quantity - Recorded(r, d))
        BY <1>3, <2>2, LeftRow
      <4> QED
        BY <3>1, <3>4, <4>1 DEF Positive
    <3>6. Left(r)'[d] = deliveries[d].quantity - (Recorded(r, d) + q)
      <4>1. Left(r)'[d] = Positive(deliveries[d].quantity - (Recorded(r, d) + q))
        BY <1>3, <1>8, <2>1, <2>2, <3>2
      <4> QED
        BY <3>1, <3>4, <4>1 DEF Positive
    <3> QED
      BY <2>2, <3>1, <3>5, <3>6
  <2>3. CASE k # r
    <3>1. Recorded(r, d)' = Recorded(r, d)
      BY <1>5, <2>3, RecordedNat
    <3>2. Left(r)'[d] = Left(r)[d]
      BY <1>8, <2>1, <3>1, LeftRow
    <3>3. Left(r)[d] \in Nat
      BY <2>1, LeftRows
    <3> QED
      BY <2>3, <3>2, <3>3
  <2> QED
    BY <2>2, <2>3
<1>11. Net(r)' = Total(Left(r)', N)
  BY <1>2 DEF Net, Left
<1> HIDE DEF less
<1>12. Total(Left(r)', N) = Total(Left(r), N) + (0 - less)
  <2> DEFINE now == Left(r)'
             before == Left(r)
             by == 0 - less
  <2>1. /\ N \in Nat /\ d \in 1..N /\ Summable(before, N) /\ now[d] = before[d] + by
        /\ by \in Int
        /\ \A e \in 1..N : e # d => now[e] = before[e]
    BY <1>6, <1>9, <1>10, LeftRows
  <2> HIDE DEF now, before, by
  <2>2. Total(now, N) = Total(before, N) + by
    BY <2>1, TotalOfUpdate
  <2> QED
    BY <2>2 DEF now, before, by
<1>13. LinkedTo(links, r) \in Nat /\ RecordedFor(r) \in Nat /\ Net(r) = Total(Left(r), N)
  BY LinkedToNat, RecordedNat, LeftRows
<1>14. LinkedTo(links, r)' = LinkedTo(links, r)
  BY <1>2, LinkedToStays
<1> QED
  BY <1>5, <1>6, <1>11, <1>12, <1>13, <1>14

(* A decision that is new has no links, no parts and no consumption.         *)
LEMMA NetNew ==
  ASSUME Types, NEW item \in Items, NEW q \in Required, SubmitMaterialNeed(item, q),
         NEW r, r \notin DOMAIN routes, LinkedTo(links, r) = 0
  PROVE  Net(r)' = LinkedTo(links, r)' - RecordedFor(r)'
<1>1. deliveries' = deliveries /\ links' = links /\ parts' = parts
  BY DEF SubmitMaterialNeed
<1>2. /\ Net(r)' = Net(r) /\ RecordedFor(r)' = RecordedFor(r)
      /\ LinkedTo(links, r)' = LinkedTo(links, r)
  BY <1>1, NetStays
<1>3. RecordedFor(r) = 0
  <2> DEFINE f == [i \in DOMAIN parts |-> IF parts[i].route = r THEN parts[i].quantity ELSE 0]
  <2>1. Len(parts) \in Nat /\ DOMAIN parts = 1..Len(parts)
    BY DEF Types, TypeOK
  <2>2. \A i \in 1..Len(parts) : f[i] = 0
    BY <2>1, RecordsOf
  <2>3. RecordedFor(r) = Total(f, Len(parts))
    BY DEF RecordedFor, TotalOf
  <2> HIDE DEF f
  <2> QED
    BY <2>1, <2>2, <2>3, TotalOfZeros
<1>4. Net(r) = 0
  <2>1. \A d \in DOMAIN deliveries : ~LinkedFor(d, r)
    BY RecordsOf DEF LinkedFor
  <2>2. \A d \in 1..Len(deliveries) : Left(r)[d] = 0
    BY <2>1, LeftRow, LeftRows
  <2> QED
    BY <2>2, LeftRows, TotalOfZeros
<1> QED
  BY <1>2, <1>3, <1>4

LEMMA NetStep ==
  ASSUME Types, PartsLinked, NetFollows, RecordedWasReturned', [Next]_vars
  PROVE  NetFollows'
<1>1. ASSUME NEW item \in Items, NEW q \in Required, SubmitMaterialNeed(item, q)
      PROVE  NetFollows'
  <2>1. PICK n \in Nat : /\ DOMAIN routes = 1..n /\ DOMAIN routes' = 1..(n + 1)
                         /\ LinkedTo(links, n + 1) = 0
    BY <1>1, NewRoute
  <2>2. deliveries' = deliveries /\ links' = links /\ parts' = parts
    BY <1>1 DEF SubmitMaterialNeed
  <2>3. ASSUME NEW r \in 1..n
        PROVE  Net(r)' = LinkedTo(links, r)' - RecordedFor(r)'
    <3>1. /\ Net(r)' = Net(r) /\ RecordedFor(r)' = RecordedFor(r)
          /\ LinkedTo(links, r)' = LinkedTo(links, r)
      BY <2>2, NetStays
    <3> QED
      BY <2>1, <3>1 DEF NetFollows
  <2>4. ASSUME NEW r, r = n + 1
        PROVE  Net(r)' = LinkedTo(links, r)' - RecordedFor(r)'
    <3>1. r \notin DOMAIN routes /\ LinkedTo(links, r) = 0
      BY <2>1, <2>4
    <3> QED
      BY <1>1, <3>1, NetNew
  <2>5. \A r \in 1..(n + 1) : r \in 1..n \/ r = n + 1
    OBVIOUS
  <2> QED
    BY <2>1, <2>3, <2>4, <2>5 DEF NetFollows
<1>2. ASSUME ~\E item \in Items, q \in Required : SubmitMaterialNeed(item, q),
             NEW r \in DOMAIN routes
      PROVE  Net(r)' = LinkedTo(links, r)' - RecordedFor(r)'
  <2>0. Net(r) = LinkedTo(links, r) - RecordedFor(r)
    BY DEF NetFollows
  <2>1. ASSUME NEW c \in Clerks, Link(c)
        PROVE  Net(r)' = LinkedTo(links, r)' - RecordedFor(r)'
    BY <2>0, <2>1, NetLinks
  <2>2. ASSUME NEW c \in Clerks, IssueDelivery(c)
        PROVE  Net(r)' = LinkedTo(links, r)' - RecordedFor(r)'
    BY <2>0, <2>2, NetIssued
  <2>3. ASSUME NEW c \in Clerks, RecordPart(c)
        PROVE  Net(r)' = LinkedTo(links, r)' - RecordedFor(r)'
    BY <2>0, <2>3, NetRecorded
  <2>4. ASSUME ~\E c \in Clerks : Link(c) \/ IssueDelivery(c) \/ RecordPart(c)
        PROVE  Net(r)' = LinkedTo(links, r)' - RecordedFor(r)'
    <3>1. /\ links' = links /\ parts' = parts /\ DOMAIN deliveries' = DOMAIN deliveries
          /\ \A d \in DOMAIN deliveries : deliveries'[d].quantity = deliveries[d].quantity
      <4>1. links' = links /\
            \A d \in DOMAIN deliveries : deliveries'[d].quantity = deliveries[d].quantity
        BY <2>4, QuietLinks
      <4>2. parts' = parts
        BY <1>2, <2>4 DEF Next, Issuing, Returning, TakeStock, NeedMore, DeclareConsumption,
           vars, BeginIssue, PlanIssue, BeginRelink, ReadRequirement, LinkAgain, LinkFails, Fail,
           RecordPendingIssueLink, BeginReturn, PlanReturn, CreateReturn, ToRecord,
           BeginFinalize, FinalizeConsumption
      <4>3. ASSUME NEW c \in Clerks, CreateReturn(c) \/ RecordPendingIssueLink(c)
            PROVE  DOMAIN deliveries' = DOMAIN deliveries
        BY <4>3, TypesMark, TypesGiveBack
      <4>4. ASSUME ~\E c \in Clerks : CreateReturn(c) \/ RecordPendingIssueLink(c)
            PROVE  deliveries' = deliveries
        BY <1>2, <2>4, <4>4 DEF Next, Issuing, Returning, TakeStock, NeedMore,
           DeclareConsumption, vars, BeginIssue, PlanIssue, BeginRelink, ReadRequirement,
           LinkAgain, LinkFails, Fail, BeginReturn, PlanReturn, BeginFinalize,
           FinalizeConsumption
      <4> QED
        BY <4>1, <4>2, <4>3, <4>4
    <3>2. /\ Net(r)' = Net(r) /\ RecordedFor(r)' = RecordedFor(r)
          /\ LinkedTo(links, r)' = LinkedTo(links, r)
      BY <3>1, NetStays
    <3> QED
      BY <2>0, <3>2
  <2> QED
    BY <2>1, <2>2, <2>3, <2>4
<1>3. CASE ~\E item \in Items, q \in Required : SubmitMaterialNeed(item, q)
  BY <1>2, <1>3, RoutesStay DEF NetFollows
<1> QED
  BY <1>1, <1>3

(* What a declaration says of a requirement, and when it is made.            *)
DeclarationsHold ==
  /\ status # "completed" => \A r \in DOMAIN routes : declared[r] = None /\ usages[r] = <<>>
  /\ \A r \in DOMAIN routes :
       /\ declared[r] # None =>
            /\ r \in Latest
            /\ declared[r].used + declared[r].toReturn = LinkedTo(links, r)
       /\ usages[r] # <<>> => declared[r] # None

LEMMA DeclarationsStep ==
  ASSUME Types, LinkedOnce, ReadyMeansIssued, DeclarationsHold, [Next]_vars,
         \A c \in Clerks : FinalizeConsumption(c) => declared[proc[c].route] # None
  PROVE  DeclarationsHold'
<1>1. ASSUME NEW item \in Items, NEW q \in Required, SubmitMaterialNeed(item, q)
      PROVE  DeclarationsHold'
  <2>1. PICK n \in Nat : n + 1 = Len(routes') /\ DOMAIN routes = 1..n
                         /\ DOMAIN routes' = 1..(n + 1)
    BY <1>1, NewRoute
  <2>2. /\ declared' = Append(declared, None) /\ usages' = Append(usages, <<>>)
        /\ status = "waiting_material" /\ status' = status
    BY <1>1 DEF SubmitMaterialNeed
  <2>3. /\ Len(declared) = n /\ Len(usages) = n
        /\ declared' \in Seq([used : Nat, toReturn : Nat] \cup {None})
    BY <1>1, <2>1, TypesOfItem DEF Types, TypeOK
  <2>4. \A r \in 1..(n + 1) : declared'[r] = None /\ usages'[r] = <<>>
    <3>1. /\ declared'[n + 1] = None /\ usages'[n + 1] = <<>>
          /\ \A r \in 1..n : declared'[r] = declared[r] /\ usages'[r] = usages[r]
      BY <2>2, <2>3 DEF Types, TypeOK
    <3>2. \A r \in 1..n : declared[r] = None /\ usages[r] = <<>>
      BY <2>1, <2>2 DEF DeclarationsHold
    <3>3. \A r \in 1..(n + 1) : r \in 1..n \/ r = n + 1
      OBVIOUS
    <3> QED
      BY <3>1, <3>2, <3>3
  <2> QED
    BY <2>1, <2>4 DEF DeclarationsHold
<1>2. CASE DeclareConsumption
  <2>1. PICK used \in [Latest -> UNION {0..LinkedTo(links, r) : r \in Latest}] :
          /\ \A r \in Latest : used[r] <= LinkedTo(links, r)
          /\ declared' = [r \in DOMAIN routes |->
               IF r \notin Latest THEN None
               ELSE [used |-> used[r], toReturn |-> LinkedTo(links, r) - used[r]]]
          /\ usages' = [r \in DOMAIN routes |->
               IF r \in Latest /\ used[r] = LinkedTo(links, r) THEN <<used[r]>> ELSE <<>>]
    BY <1>2 DEF DeclareConsumption
  <2>2. ASSUME NEW r \in Latest
        PROVE  /\ used[r] \in Int /\ LinkedTo(links, r) \in Nat
               /\ LinkedTo(links, r) - used[r] \in Nat
    <3>1. PICK k \in Latest : used[r] \in 0..LinkedTo(links, k)
      BY <2>1
    <3>2. LinkedTo(links, k) \in Nat /\ LinkedTo(links, r) \in Nat
      BY LinkedToNat
    <3> QED
      BY <2>1, <3>1, <3>2
  <2>3. /\ status' = "completed" /\ routes' = routes /\ links' = links /\ deliveries' = deliveries
        /\ Latest' = Latest
    BY <1>2 DEF DeclareConsumption, Latest
  <2>4. \A r : LinkedTo(links, r)' = LinkedTo(links, r)
    BY <2>3 DEF LinkedTo
  <2>5. ASSUME NEW r \in DOMAIN routes
        PROVE  /\ declared'[r] # None =>
                    /\ r \in Latest
                    /\ declared'[r].used + declared'[r].toReturn = LinkedTo(links, r)
               /\ usages'[r] # <<>> => declared'[r] # None
    <3>1. CASE r \in Latest
      <4>1. declared'[r] = [used |-> used[r], toReturn |-> LinkedTo(links, r) - used[r]]
        BY <2>1, <3>1
      <4>2. declared'[r] # None
        <5>1. used[r] \in Nat
          BY <2>1, <2>2, <3>1
        <5>2. declared'[r] \in [used : Nat, toReturn : Nat]
          BY <2>2, <3>1, <4>1, <5>1
        <5> QED
          BY <5>2, MaterialBounds
      <4> QED
        BY <2>2, <3>1, <4>1, <4>2
    <3>2. CASE r \notin Latest
      BY <2>1, <3>2
    <3> QED
      BY <3>1, <3>2
  <2> QED
    BY <2>3, <2>4, <2>5 DEF DeclarationsHold
<1>3. ASSUME NEW c \in Clerks, Link(c)
      PROVE  DeclarationsHold'
  <2>1. /\ routes' = routes /\ declared' = declared /\ usages' = usages
        /\ Latest' = Latest /\ (status = "completed" => status' = "completed")
        /\ (status # "completed" => status' # "completed")
    BY <1>3 DEF Link, AddLink, Latest
  <2>2. ASSUME NEW r \in DOMAIN routes, declared[r] # None
        PROVE  LinkedTo(links, r)' = LinkedTo(links, r)
    <3>1. status = "completed" /\ r \in Latest
      BY <2>2 DEF DeclarationsHold
    <3>2. Missing(r) <= 0
      <4>1. ~(Missing(r) > 0) /\ Missing(r) \in Int
        BY <1>3, <3>1, LinkAdds DEF ReadyMeansIssued
      <4> QED
        BY <4>1
    <3>3. PICK d \in DOMAIN deliveries, q \in DOMAIN routes :
            /\ d = proc[c].delivery /\ q = proc[c].route
            /\ links' = Append(links, [delivery |-> d, route |-> q])
            /\ deliveries' = deliveries /\ deliveries[d].quantity <= Missing(q)
      BY <1>3, LinkAdds DEF Link
    <3>4. deliveries[d].quantity > 0 /\ deliveries[d].quantity \in Nat /\ Missing(r) \in Int
      BY <1>3, RecordsOf, LinkAdds DEF Types
    <3>5. q # r
      BY <3>2, <3>3, <3>4
    <3>6. /\ LinkedTo(links, r)' = LinkedTo(links', r)
          /\ LinkedTo(links', r) = LinkedTo(links, r) + IF q = r THEN deliveries[d].quantity ELSE 0
      BY <3>3, LinkedToAdds
    <3> QED
      BY <3>5, <3>6, LinkedToNat
  <2> QED
    BY <2>1, <2>2 DEF DeclarationsHold
<1>4. ASSUME NEW c \in Clerks, FinalizeConsumption(c)
      PROVE  DeclarationsHold'
  <2>1. /\ routes' = routes /\ declared' = declared /\ links' = links /\ deliveries' = deliveries
        /\ status' = status /\ Latest' = Latest /\ proc[c].route \in DOMAIN routes
    BY <1>4 DEF FinalizeConsumption, Latest, At, Types, RequestsOK, RequestOK
  <2>2. \A r : LinkedTo(links, r)' = LinkedTo(links, r)
    BY <2>1 DEF LinkedTo
  <2>3. declared[proc[c].route] # None
    BY <1>4
  <2>4. status = "completed"
    BY <2>1, <2>3 DEF DeclarationsHold
  <2>5. \A r \in DOMAIN routes : r # proc[c].route => usages'[r] = usages[r]
    <3>1. usages' = [usages EXCEPT ![proc[c].route] =
                       Append(usages[proc[c].route], proc[c].net)]
      BY <1>4 DEF FinalizeConsumption
    <3>2. DOMAIN usages = DOMAIN routes
      BY DEF Types, TypeOK
    <3> QED
      BY <3>1, <3>2
  <2> QED
    BY <2>1, <2>2, <2>3, <2>4, <2>5 DEF DeclarationsHold
<1>5. CASE /\ ~\E c \in Clerks : Link(c) \/ FinalizeConsumption(c)
           /\ ~\E item \in Items, q \in Required : SubmitMaterialNeed(item, q)
           /\ ~DeclareConsumption
  <2>1. routes' = routes /\ Latest' = Latest /\ \A r : LinkedTo(links, r)' = LinkedTo(links, r)
    BY <1>5, RoutesStay, MissingStays
  <2>2. /\ declared' = declared /\ usages' = usages
        /\ (status = "completed" <=> status' = "completed")
    BY <1>5 DEF Next, Issuing, Returning, TakeStock, NeedMore, vars,
         BeginIssue, PlanIssue, BeginRelink, ReadRequirement, LinkAgain, LinkFails, Fail,
         IssueDelivery, Deliver, RecordPendingIssueLink, BeginReturn, PlanReturn,
         CreateReturn, ToRecord, RecordPart, BeginFinalize
  <2> QED
    BY <2>1, <2>2 DEF DeclarationsHold
<1> QED
  BY <1>1, <1>2, <1>3, <1>4, <1>5

(* The request p returns what is pending of requirement r, and gets to the   *)
(* end; what it has still to record.                                         *)
Returns(p, r) ==
  /\ p # None /\ p.at \in {"planReturn", "return", "record", "refresh", "finalize"}
  /\ p.route = r /\ (p.at \in {"return", "record"} => p.fits)

Planned(plan, n) == Total([d \in 1..n |-> IF d \in DOMAIN plan THEN plan[d] ELSE 0], n)

Out(p, n) ==
  IF p.at = "planReturn" THEN Total(p.lots, NumLots)
  ELSE IF p.at \in {"return", "record"} THEN Planned(p.plan, n) ELSE 0

(* Requests that return the same together record more than there is to give  *)
(* back: a second one begins only while the first has something to record.   *)
ReturnsCover == \A r \in DOMAIN routes, c \in Clerks : Returns(proc[c], r) =>
  /\ ToReturn(r) > 0
  /\ proc[c].at \in {"planReturn", "return", "record"} => Out(proc[c], Len(deliveries)) > 0
  /\ RecordedFor(r) + Out(proc[c], Len(deliveries)) >= ToReturn(r)
  /\ \A e \in Clerks : e # c /\ Returns(proc[e], r) =>
       RecordedFor(r) + Out(proc[c], Len(deliveries)) + Out(proc[e], Len(deliveries))
         > ToReturn(r)
  /\ usages[r] # <<>> => RecordedFor(r) + Out(proc[c], Len(deliveries)) > ToReturn(r)

LEMMA PlannedIsNat ==
  ASSUME NEW D, NEW plan \in [D -> Nat], NEW n \in Nat
  PROVE  Planned(plan, n) \in Nat
         /\ \A d \in 1..n : d \in D => plan[d] <= Planned(plan, n)
<1> DEFINE f == [d \in 1..n |-> IF d \in DOMAIN plan THEN plan[d] ELSE 0]
<1>1. \A d \in 1..n : f[d] \in Nat /\ (d \in D => f[d] = plan[d])
  OBVIOUS
<1>2. Planned(plan, n) = Total(f, n)
  BY DEF Planned
<1> HIDE DEF f
<1>3. Total(f, n) \in Nat /\ \A d \in 1..n : f[d] <= Total(f, n)
  BY <1>1, TotalNat
<1> QED
  BY <1>1, <1>2, <1>3

(* More deliveries do not change what is planned for those that were there.  *)
LEMMA PlannedStays ==
  ASSUME NEW n \in Nat, NEW m \in Nat, n <= m, NEW plan, DOMAIN plan \subseteq 1..n,
         plan \in [DOMAIN plan -> Nat]
  PROVE  Planned(plan, m) = Planned(plan, n)
<1> DEFINE f == [d \in 1..m |-> IF d \in DOMAIN plan THEN plan[d] ELSE 0]
           g == [d \in 1..n |-> IF d \in DOMAIN plan THEN plan[d] ELSE 0]
           Bad == {k \in n..m : Total(f, k) # Total(g, n)}
<1>1. /\ \A d \in 1..m : f[d] \in Int /\ (d \notin 1..n => f[d] = 0)
      /\ \A d \in 1..n : g[d] = f[d] /\ g[d] \in Int
  OBVIOUS
<1>2. Planned(plan, m) = Total(f, m) /\ Planned(plan, n) = Total(g, n)
  BY DEF Planned
<1> HIDE DEF f, g
<1>3. Total(f, n) = Total(g, n)
  BY <1>1, TotalOfEqual DEF Summable
<1>4. ASSUME Bad # {}
      PROVE  FALSE
  <2>1. PICK k \in Bad : \A j \in Bad : k <= j
    <3>1. Bad \in SUBSET Nat
      OBVIOUS
    <3> QED
      BY <3>1, <1>4, LeastElement
  <2>2. k # n
    BY <1>3, <2>1
  <2>3. k - 1 \in n..m /\ k - 1 \notin Bad /\ k \in 1..m /\ k \notin 1..n
    BY <2>1, <2>2
  <2>4. Total(f, k - 1) = Total(g, n)
    BY <2>3
  <2>5. Total(f, k) = Total(f, k - 1) + f[k]
    <3>1. (k - 1) + 1 = k /\ k - 1 \in Nat
      BY <2>3
    <3>2. Summable(f, k)
      BY <1>1, <2>3 DEF Summable
    <3> QED
      BY <3>1, <3>2, TotalOfNext
  <2>6. Total(g, n) \in Int
    BY <1>1, TotalInt DEF Summable
  <2>7. f[k] = 0
    BY <1>1, <2>3
  <2> QED
    BY <2>1, <2>4, <2>5, <2>6, <2>7
<1>5. m \in n..m /\ m \notin Bad
  BY <1>4
<1> QED
  BY <1>2, <1>5

LEMMA OutNat ==
  ASSUME Types, NEW c \in Clerks, NEW r, Returns(proc[c], r)
  PROVE  /\ r \in DOMAIN routes
         /\ Out(proc[c], Len(deliveries)) \in Nat
         /\ \A m \in Nat : Len(deliveries) <= m =>
              Out(proc[c], m) = Out(proc[c], Len(deliveries))
<1>1. /\ proc[c] # None /\ proc[c].at \in {"planReturn", "return", "record", "refresh", "finalize"}
      /\ RequestOK(proc[c], DOMAIN routes, DOMAIN deliveries) /\ proc[c].route = r
  BY DEF Returns, Types, RequestsOK
<1>2. Len(deliveries) \in Nat /\ DOMAIN deliveries = 1..Len(deliveries)
  BY DEF Types, TypeOK
<1>3. r \in DOMAIN routes
  BY <1>1 DEF RequestOK
<1>4. CASE proc[c].at = "planReturn"
  <2>1. proc[c].lots \in [Lots -> Nat] /\ NumLots \in Nat
    BY <1>1, <1>4, MaterialBounds DEF RequestOK
  <2>2. Total(proc[c].lots, NumLots) \in Nat
    BY <2>1, TotalNat DEF Lots
  <2> QED
    BY <1>3, <1>4, <2>2 DEF Out
<1>5. CASE proc[c].at \in {"return", "record"}
  <2>1. DOMAIN proc[c].plan \subseteq 1..Len(deliveries)
        /\ proc[c].plan \in [DOMAIN proc[c].plan -> Nat]
    BY <1>1, <1>2, <1>5 DEF RequestOK
  <2>2. Planned(proc[c].plan, Len(deliveries)) \in Nat
    BY <1>2, <2>1, PlannedIsNat
  <2>3. \A m \in Nat : Len(deliveries) <= m =>
          Planned(proc[c].plan, m) = Planned(proc[c].plan, Len(deliveries))
    BY <1>2, <2>1, PlannedStays
  <2> QED
    BY <1>3, <1>5, <2>2, <2>3 DEF Out
<1>6. CASE proc[c].at \in {"refresh", "finalize"}
  BY <1>3, <1>6 DEF Out
<1> QED
  BY <1>1, <1>4, <1>5, <1>6

LEMMA ToReturnNat ==
  ASSUME Types, NEW r \in DOMAIN routes
  PROVE  ToReturn(r) \in Nat /\ RecordedFor(r) \in Nat
  BY RecordsOf, RecordedNat DEF ToReturn

(* One request goes on: what it no longer has to record, it has recorded.     *)
LEMMA CoverGoesOn ==
  ASSUME Types, ReturnsCover, NEW c \in Clerks, NEW p, Continue(c, p),
         routes' = routes, declared' = declared, usages' = usages,
         Len(deliveries') \in Nat, Len(deliveries) <= Len(deliveries'),
         NEW r \in DOMAIN routes,
         RecordedFor(r)' \in Nat, RecordedFor(r) <= RecordedFor(r)',
         Returns(p, r) =>
           /\ Returns(proc[c], r)
           /\ Out(p, Len(deliveries')) \in Nat
           /\ p.at \in {"planReturn", "return", "record"} => Out(p, Len(deliveries')) > 0
           /\ RecordedFor(r)' + Out(p, Len(deliveries'))
                >= RecordedFor(r) + Out(proc[c], Len(deliveries)),
         NEW e \in Clerks, Returns(proc'[e], r)
  PROVE  /\ ToReturn(r)' > 0
         /\ proc'[e].at \in {"planReturn", "return", "record"}
              => Out(proc'[e], Len(deliveries')) > 0
         /\ RecordedFor(r)' + Out(proc'[e], Len(deliveries')) >= ToReturn(r)'
         /\ \A k \in Clerks : k # e /\ Returns(proc'[k], r) =>
              RecordedFor(r)' + Out(proc'[e], Len(deliveries')) + Out(proc'[k], Len(deliveries'))
                > ToReturn(r)'
         /\ usages'[r] # <<>> =>
              RecordedFor(r)' + Out(proc'[e], Len(deliveries')) > ToReturn(r)'
<1> DEFINE n == Len(deliveries)
           m == Len(deliveries')
<1>1. /\ proc'[c] = p /\ \A k \in Clerks : k # c => proc'[k] = proc[k]
  BY DEF Types, TypeOK, Continue
<1>2. ToReturn(r)' = ToReturn(r) /\ ToReturn(r) \in Nat /\ RecordedFor(r) \in Nat
  BY ToReturnNat DEF ToReturn
<1>3. ASSUME NEW k \in Clerks, Returns(proc'[k], r)
      PROVE  /\ Returns(proc[k], r) /\ Out(proc[k], n) \in Nat /\ Out(proc'[k], m) \in Nat
             /\ proc'[k].at \in {"planReturn", "return", "record"} => Out(proc'[k], m) > 0
             /\ RecordedFor(r)' + Out(proc'[k], m) >= RecordedFor(r) + Out(proc[k], n)
             /\ k # c => Out(proc'[k], m) = Out(proc[k], n)
  <2>1. CASE k = c
    BY <1>1, <1>3, <2>1, OutNat
  <2>2. CASE k # c
    <3>1. proc'[k] = proc[k] /\ Returns(proc[k], r)
      BY <1>1, <1>3, <2>2
    <3>2. Out(proc[k], n) \in Nat /\ Out(proc[k], m) = Out(proc[k], n)
      BY <3>1, OutNat
    <3>3. proc[k].at \in {"planReturn", "return", "record"} => Out(proc[k], n) > 0
      BY <3>1 DEF ReturnsCover
    <3> QED
      BY <1>2, <3>1, <3>2, <3>3
  <2> QED
    BY <2>1, <2>2
<1>4. /\ ToReturn(r) > 0
      /\ RecordedFor(r) + Out(proc[e], n) >= ToReturn(r)
      /\ \A k \in Clerks : k # e /\ Returns(proc[k], r) =>
           RecordedFor(r) + Out(proc[e], n) + Out(proc[k], n) > ToReturn(r)
      /\ usages[r] # <<>> => RecordedFor(r) + Out(proc[e], n) > ToReturn(r)
  BY <1>3 DEF ReturnsCover
<1>5. /\ Out(proc[e], n) \in Nat /\ Out(proc'[e], m) \in Nat
      /\ proc'[e].at \in {"planReturn", "return", "record"} => Out(proc'[e], m) > 0
      /\ RecordedFor(r)' + Out(proc'[e], m) >= RecordedFor(r) + Out(proc[e], n)
      /\ e # c => Out(proc'[e], m) = Out(proc[e], n)
  BY <1>3
<1>6. ASSUME NEW k \in Clerks, k # e, Returns(proc'[k], r)
      PROVE  RecordedFor(r)' + Out(proc'[e], m) + Out(proc'[k], m) > ToReturn(r)
  <2>1. /\ Returns(proc[k], r) /\ Out(proc[k], n) \in Nat /\ Out(proc'[k], m) \in Nat
        /\ RecordedFor(r)' + Out(proc'[k], m) >= RecordedFor(r) + Out(proc[k], n)
        /\ k # c => Out(proc'[k], m) = Out(proc[k], n)
    BY <1>3, <1>6
  <2>2. RecordedFor(r) + Out(proc[e], n) + Out(proc[k], n) > ToReturn(r)
    BY <1>4, <1>6, <2>1
  <2>3. e # c \/ k # c
    BY <1>6
  <2> QED
    BY <1>2, <1>5, <2>1, <2>2, <2>3
<1> QED
  BY <1>2, <1>4, <1>5, <1>6

(* So the requests together cover what is to be returned.                    *)
LEMMA CoverKept ==
  ASSUME Types, ReturnsCover, NEW c \in Clerks, NEW p, Continue(c, p),
         routes' = routes, declared' = declared, usages' = usages,
         Len(deliveries') \in Nat, Len(deliveries) <= Len(deliveries'),
         \A r \in DOMAIN routes :
           /\ RecordedFor(r)' \in Nat /\ RecordedFor(r) <= RecordedFor(r)'
           /\ Returns(p, r) =>
                /\ Returns(proc[c], r)
                /\ Out(p, Len(deliveries')) \in Nat
                /\ p.at \in {"planReturn", "return", "record"} => Out(p, Len(deliveries')) > 0
                /\ RecordedFor(r)' + Out(p, Len(deliveries'))
                     >= RecordedFor(r) + Out(proc[c], Len(deliveries))
  PROVE  ReturnsCover'
<1>1. ASSUME NEW r \in DOMAIN routes, NEW e \in Clerks, Returns(proc'[e], r)
      PROVE  /\ ToReturn(r)' > 0
             /\ proc'[e].at \in {"planReturn", "return", "record"}
                  => Out(proc'[e], Len(deliveries')) > 0
             /\ RecordedFor(r)' + Out(proc'[e], Len(deliveries')) >= ToReturn(r)'
             /\ \A k \in Clerks : k # e /\ Returns(proc'[k], r) =>
                  RecordedFor(r)' + Out(proc'[e], Len(deliveries'))
                    + Out(proc'[k], Len(deliveries')) > ToReturn(r)'
             /\ usages'[r] # <<>> =>
                  RecordedFor(r)' + Out(proc'[e], Len(deliveries')) > ToReturn(r)'
  BY <1>1, CoverGoesOn
<1> QED
  BY <1>1 DEF ReturnsCover

(* Before the work is declared nothing is returned.                          *)
LEMMA NothingReturnsYet ==
  ASSUME Types, DeclarationsHold, ReturnsCover, status # "completed", NEW c \in Clerks, NEW r
  PROVE  ~Returns(proc[c], r)
<1> SUFFICES ASSUME Returns(proc[c], r) PROVE FALSE
  OBVIOUS
<1>1. r \in DOMAIN routes
  BY OutNat
<1>2. ToReturn(r) > 0
  BY <1>1 DEF ReturnsCover
<1>3. ToReturn(r) = 0
  BY <1>1 DEF DeclarationsHold, ToReturn
<1> QED
  BY <1>2, <1>3

LEMMA CoverIssuing ==
  ASSUME Types, ReturnsCover, NEW c \in Clerks, Issuing(c) \/ Fail(c)
  PROVE  ReturnsCover'
<1>1. PICK p : Continue(c, p) /\ (p = None \/
                 p.at \in {"plan", "issue", "read", "link", "late", "mark"})
  BY IssuingStep
<1>2. /\ routes' = routes /\ declared' = declared /\ usages' = usages /\ parts' = parts
      /\ Len(deliveries') \in Nat /\ Len(deliveries) <= Len(deliveries')
  BY IssuingStep
<1>3. \A r : ~Returns(p, r)
  BY <1>1 DEF Returns
<1>4. ASSUME NEW r \in DOMAIN routes
      PROVE  RecordedFor(r)' \in Nat /\ RecordedFor(r) <= RecordedFor(r)'
  <2>1. RecordedFor(r)' = RecordedFor(r)
    BY <1>2 DEF RecordedFor, TotalOf
  <2>2. RecordedFor(r) \in Nat
    BY RecordedNat
  <2> QED
    BY <2>1, <2>2
<1> QED
  BY <1>1, <1>2, <1>3, <1>4, CoverKept

LEMMA CoverPlan ==
  ASSUME Types, ReturnsCover, NEW c \in Clerks, PlanReturn(c)
  PROVE  ReturnsCover'
<1> DEFINE k == proc[c].route
           lots == proc[c].lots
           N == Len(deliveries)
           fits == \A l \in Lots : Total(LeftOf(k, FromLot(k, l)), N) >= lots[l]
           p == [at |-> "return", route |-> k, plan |-> PlannedReturn(k, lots), fits |-> fits]
<1>1. /\ proc[c] # None /\ proc[c].at = "planReturn" /\ k \in DOMAIN routes
      /\ lots \in [Lots -> Nat]
  BY DEF PlanReturn, At, Types, RequestsOK, RequestOK
<1>2. Continue(c, p) /\ UNCHANGED <<routes, declared, usages, parts, deliveries>>
  BY DEF PlanReturn, PlannedReturn
<1>3. N \in Nat /\ DOMAIN deliveries = 1..N
  BY DEF Types, TypeOK
<1>4. fits => Planned(PlannedReturn(k, lots), N) = Total(lots, NumLots)
  <2> SUFFICES ASSUME fits PROVE Planned(PlannedReturn(k, lots), N) = Total(lots, NumLots)
    OBVIOUS
  <2>1. Total(PlannedFrom(k, lots, NumLots), N) = Total(lots, NumLots)
    BY <1>1, PlannedTotal
  <2>2. DOMAIN PlannedReturn(k, lots) = LinkedDeliveries(k)
    BY DEF PlannedReturn
  <2>3. \A d \in 1..N : deliveries[d].lot <= NumLots
    BY <1>3, RecordsOf DEF Lots
  <2>4. PlannedFrom(k, lots, NumLots)
          = [d \in 1..N |-> IF d \in DOMAIN PlannedReturn(k, lots)
                            THEN PlannedReturn(k, lots)[d] ELSE 0]
    BY <1>3, <2>2, <2>3 DEF PlannedFrom
  <2> QED
    BY <2>1, <2>4 DEF Planned
<1>5. /\ p.at = "return" /\ p.route = k /\ p.plan = PlannedReturn(k, lots)
      /\ p.fits <=> fits
  OBVIOUS
<1> HIDE DEF p, fits
<1>6. \A r \in DOMAIN routes : RecordedFor(r)' = RecordedFor(r) /\ RecordedFor(r) \in Nat
  BY <1>2, RecordedNat DEF RecordedFor, TotalOf
<1>7. ASSUME NEW r \in DOMAIN routes, Returns(p, r)
      PROVE  /\ Returns(proc[c], r) /\ Out(p, N) = Out(proc[c], N)
             /\ Out(p, N) \in Nat /\ Out(p, N) > 0
  <2>1. fits /\ r = k /\ p.at = "return" /\ p.plan = PlannedReturn(k, lots)
    BY <1>5, <1>7 DEF Returns
  <2>2. Returns(proc[c], r)
    BY <1>1, <2>1 DEF Returns
  <2>3. Out(proc[c], N) = Total(lots, NumLots) /\ Out(p, N) = Planned(PlannedReturn(k, lots), N)
    BY <1>1, <2>1 DEF Out
  <2>4. Out(proc[c], N) > 0 /\ Out(proc[c], N) \in Nat
    BY <1>1, <2>2, OutNat DEF ReturnsCover
  <2> QED
    BY <1>4, <2>1, <2>2, <2>3, <2>4
<1>8. Len(deliveries') = N
  BY <1>2
<1>9. \A r \in DOMAIN routes :
        /\ RecordedFor(r)' \in Nat /\ RecordedFor(r) <= RecordedFor(r)'
        /\ Returns(p, r) =>
             /\ Returns(proc[c], r) /\ Out(p, Len(deliveries')) \in Nat
             /\ p.at \in {"planReturn", "return", "record"} => Out(p, Len(deliveries')) > 0
             /\ RecordedFor(r)' + Out(p, Len(deliveries')) >= RecordedFor(r) + Out(proc[c], N)
  BY <1>6, <1>7, <1>8
<1> QED
  BY <1>2, <1>3, <1>8, <1>9, CoverKept

LEMMA CoverGiveBack ==
  ASSUME Types, ReturnsCover, NEW c \in Clerks, CreateReturn(c)
  PROVE  ReturnsCover'
<1>1. PICK d : Continue(c, [at |-> "record", route |-> proc[c].route, delivery |-> d,
                            plan |-> proc[c].plan, fits |-> proc[c].fits])
  BY TypesGiveBack
<1> DEFINE p == [at |-> "record", route |-> proc[c].route, delivery |-> d,
                 plan |-> proc[c].plan, fits |-> proc[c].fits]
           N == Len(deliveries)
<1>2. Continue(c, p) /\ UNCHANGED <<routes, declared, usages, parts>>
      /\ proc[c] # None /\ proc[c].at = "return"
  BY <1>1 DEF CreateReturn, ToRecord, At
<1>3. N \in Nat /\ Len(deliveries') = N
  BY TypesGiveBack DEF Types, TypeOK
<1>4. /\ p.at = "record" /\ p.route = proc[c].route /\ p.plan = proc[c].plan
      /\ p.fits = proc[c].fits
  OBVIOUS
<1> HIDE DEF p
<1>5. \A r \in DOMAIN routes : RecordedFor(r)' = RecordedFor(r) /\ RecordedFor(r) \in Nat
  BY <1>2, RecordedNat DEF RecordedFor, TotalOf
<1>6. ASSUME NEW r \in DOMAIN routes, Returns(p, r)
      PROVE  /\ Returns(proc[c], r) /\ Out(p, N) = Out(proc[c], N)
             /\ Out(p, N) \in Nat /\ Out(p, N) > 0
  <2>1. Returns(proc[c], r)
    BY <1>2, <1>4, <1>6 DEF Returns
  <2>2. Out(p, N) = Out(proc[c], N)
    BY <1>2, <1>4 DEF Out
  <2> QED
    BY <1>2, <2>1, <2>2, OutNat DEF ReturnsCover
<1>7. \A r \in DOMAIN routes :
        /\ RecordedFor(r)' \in Nat /\ RecordedFor(r) <= RecordedFor(r)'
        /\ Returns(p, r) =>
             /\ Returns(proc[c], r) /\ Out(p, Len(deliveries')) \in Nat
             /\ p.at \in {"planReturn", "return", "record"} => Out(p, Len(deliveries')) > 0
             /\ RecordedFor(r)' + Out(p, Len(deliveries')) >= RecordedFor(r) + Out(proc[c], N)
  <2>1. ASSUME NEW r \in DOMAIN routes, Returns(p, r)
        PROVE  /\ Returns(proc[c], r) /\ Out(p, N) \in Nat
               /\ p.at \in {"planReturn", "return", "record"} => Out(p, N) > 0
               /\ RecordedFor(r)' + Out(p, N) >= RecordedFor(r) + Out(proc[c], N)
    BY <1>5, <1>6, <2>1
  <2>2. ASSUME NEW r \in DOMAIN routes
        PROVE  RecordedFor(r)' \in Nat /\ RecordedFor(r) <= RecordedFor(r)'
    BY <1>5
  <2> QED
    BY <1>3, <2>1, <2>2
<1> QED
  BY <1>2, <1>3, <1>7, CoverKept

LEMMA CoverRecord ==
  ASSUME Types, ReturnsCover, NEW c \in Clerks, RecordPart(c)
  PROVE  ReturnsCover'
<1> DEFINE N == Len(deliveries)
           plan == [proc[c].plan EXCEPT ![proc[c].delivery] = 0]
           p == IF \E d \in DOMAIN plan : plan[d] > 0
                THEN [at |-> "return", route |-> proc[c].route, plan |-> plan,
                      fits |-> proc[c].fits]
                ELSE IF proc[c].fits THEN [at |-> "refresh", route |-> proc[c].route] ELSE None
<1>1. PICK d \in DOMAIN deliveries, k \in DOMAIN routes, q \in Nat :
        /\ d = proc[c].delivery /\ k = proc[c].route /\ q = proc[c].plan[d]
        /\ d \in DOMAIN proc[c].plan
  BY DEF RecordPart, At, Types, RequestsOK, RequestOK
<1> DEFINE part == [route |-> k, delivery |-> d, quantity |-> q]
<1>2. /\ parts' = Append(parts, part) /\ Continue(c, p)
      /\ UNCHANGED <<routes, declared, usages, deliveries>>
      /\ proc[c] # None /\ proc[c].at = "record"
  BY <1>1 DEF RecordPart, At
<1>3. part \in [route : DOMAIN routes, delivery : DOMAIN deliveries, quantity : Nat]
      /\ part.route = k /\ part.quantity = q
  OBVIOUS
<1> HIDE DEF part
<1>4. N \in Nat /\ DOMAIN deliveries = 1..N /\ Len(deliveries') = N
  BY <1>2 DEF Types, TypeOK
<1>5. DOMAIN proc[c].plan \subseteq 1..N /\ proc[c].plan \in [DOMAIN proc[c].plan -> Nat]
  BY <1>2, <1>4 DEF Types, RequestsOK, RequestOK
<1>6. /\ DOMAIN plan = DOMAIN proc[c].plan /\ plan \in [DOMAIN plan -> Nat] /\ plan[d] = 0
      /\ \A e \in DOMAIN plan : e # d => plan[e] = proc[c].plan[e]
  BY <1>1, <1>5
<1> HIDE DEF plan
<1>7. /\ Planned(plan, N) = Planned(proc[c].plan, N) + (0 - q)
      /\ Planned(plan, N) \in Nat
      /\ (\A e \in DOMAIN plan : ~(plan[e] > 0)) => Planned(plan, N) = 0
      /\ (\E e \in DOMAIN plan : plan[e] > 0) => Planned(plan, N) > 0
  <2> DEFINE f == [e \in 1..N |-> IF e \in DOMAIN proc[c].plan THEN proc[c].plan[e] ELSE 0]
             h == [e \in 1..N |-> IF e \in DOMAIN plan THEN plan[e] ELSE 0]
  <2>1. \A e \in 1..N : f[e] \in Int
    BY <1>5
  <2>2. d \in 1..N /\ h[d] = f[d] + (0 - q) /\ \A e \in 1..N : e # d => h[e] = f[e]
    BY <1>1, <1>4, <1>6
  <2>3. Planned(proc[c].plan, N) = Total(f, N) /\ Planned(plan, N) = Total(h, N)
    BY DEF Planned
  <2>4. (\A e \in DOMAIN plan : ~(plan[e] > 0)) => \A e \in 1..N : h[e] = 0
    BY <1>6
  <2>5. \A e \in DOMAIN plan : e \in 1..N /\ plan[e] \in Nat
    BY <1>5, <1>6
  <2> HIDE DEF f, h
  <2>6. Summable(f, N) /\ 0 - q \in Int
    BY <2>1 DEF Summable
  <2>7. Total(h, N) = Total(f, N) + (0 - q)
    BY <1>4, <2>2, <2>6, TotalOfUpdate
  <2>8. (\A e \in DOMAIN plan : ~(plan[e] > 0)) => Total(h, N) = 0
    BY <1>4, <2>4, TotalOfZeros
  <2>9. /\ Planned(plan, N) \in Nat
        /\ \A e \in 1..N : e \in DOMAIN plan => plan[e] <= Planned(plan, N)
    BY <1>4, <1>6, PlannedIsNat
  <2> QED
    BY <2>3, <2>5, <2>7, <2>8, <2>9
<1>8. \/ p = [at |-> "return", route |-> k, plan |-> plan, fits |-> proc[c].fits]
         /\ \E e \in DOMAIN plan : plan[e] > 0
      \/ p = [at |-> "refresh", route |-> k] /\ proc[c].fits
         /\ \A e \in DOMAIN plan : ~(plan[e] > 0)
      \/ p = None
  BY <1>1
<1> HIDE DEF p
<1>9. ASSUME NEW r \in DOMAIN routes
      PROVE  /\ RecordedFor(r)' = RecordedFor(r) + IF k = r THEN q ELSE 0
             /\ RecordedFor(r) \in Nat
  BY <1>2, <1>3, RecordedAdds, RecordedNat
<1>10. Planned(proc[c].plan, N) \in Nat
  BY <1>4, <1>5, PlannedIsNat
<1>11. ASSUME NEW r \in DOMAIN routes, Returns(p, r)
       PROVE  /\ Returns(proc[c], r) /\ Out(p, N) = Planned(plan, N)
              /\ p.at \in {"planReturn", "return", "record"} => Out(p, N) > 0
              /\ Out(proc[c], N) = Planned(proc[c].plan, N) /\ r = k
  <2>1. Out(proc[c], N) = Planned(proc[c].plan, N)
    BY <1>2 DEF Out
  <2>2. CASE p = [at |-> "return", route |-> k, plan |-> plan, fits |-> proc[c].fits]
             /\ \E e \in DOMAIN plan : plan[e] > 0
    <3>1. p.at = "return" /\ p.route = k /\ p.plan = plan /\ p.fits = proc[c].fits
      BY <2>2
    <3>2. Out(p, N) = Planned(plan, N)
      BY <3>1 DEF Out
    <3>3. Returns(proc[c], r) /\ r = k
      BY <1>1, <1>2, <1>11, <3>1 DEF Returns
    <3> QED
      BY <1>7, <2>1, <2>2, <3>2, <3>3
  <2>3. CASE p = [at |-> "refresh", route |-> k] /\ proc[c].fits
             /\ \A e \in DOMAIN plan : ~(plan[e] > 0)
    <3>1. p.at = "refresh" /\ p.route = k
      BY <2>3
    <3>2. Out(p, N) = 0
      BY <3>1 DEF Out
    <3>3. Returns(proc[c], r) /\ r = k
      BY <1>1, <1>2, <1>11, <2>3, <3>1 DEF Returns
    <3> QED
      BY <1>7, <2>1, <2>3, <3>1, <3>2, <3>3
  <2> QED
    BY <1>8, <1>11, <2>2, <2>3 DEF Returns
<1>12. \A r \in DOMAIN routes :
         /\ RecordedFor(r)' \in Nat /\ RecordedFor(r) <= RecordedFor(r)'
         /\ Returns(p, r) =>
              /\ Returns(proc[c], r) /\ Out(p, Len(deliveries')) \in Nat
              /\ p.at \in {"planReturn", "return", "record"} => Out(p, Len(deliveries')) > 0
              /\ RecordedFor(r)' + Out(p, Len(deliveries')) >= RecordedFor(r) + Out(proc[c], N)
  <2> SUFFICES ASSUME NEW r \in DOMAIN routes
        PROVE  /\ RecordedFor(r)' \in Nat /\ RecordedFor(r) <= RecordedFor(r)'
               /\ Returns(p, r) =>
                    /\ Returns(proc[c], r) /\ Out(p, N) \in Nat
                    /\ p.at \in {"planReturn", "return", "record"} => Out(p, N) > 0
                    /\ RecordedFor(r)' + Out(p, N) >= RecordedFor(r) + Out(proc[c], N)
    BY <1>4
  <2>1. RecordedFor(r)' \in Nat /\ RecordedFor(r) <= RecordedFor(r)'
    BY <1>9
  <2>2. ASSUME Returns(p, r)
        PROVE  /\ Returns(proc[c], r) /\ Out(p, N) \in Nat
               /\ p.at \in {"planReturn", "return", "record"} => Out(p, N) > 0
               /\ RecordedFor(r)' + Out(p, N) >= RecordedFor(r) + Out(proc[c], N)
    BY <1>7, <1>9, <1>10, <1>11, <2>2
  <2> QED
    BY <2>1, <2>2
<1> QED
  BY <1>2, <1>4, <1>12, CoverKept

LEMMA CoverFinalizeBegin ==
  ASSUME Types, ReturnsCover, NEW c \in Clerks, BeginFinalize(c)
  PROVE  ReturnsCover'
<1> DEFINE p == [at |-> "finalize", route |-> proc[c].route, net |-> Net(proc[c].route),
                 already |-> usages[proc[c].route] # <<>>]
           N == Len(deliveries)
<1>1. Continue(c, p) /\ UNCHANGED <<routes, declared, usages, parts, deliveries>>
      /\ proc[c] # None /\ proc[c].at = "refresh"
  BY DEF BeginFinalize, At
<1>2. N \in Nat /\ Len(deliveries') = N
  BY <1>1 DEF Types, TypeOK
<1>3. p.at = "finalize" /\ p.route = proc[c].route
  OBVIOUS
<1> HIDE DEF p
<1>4. Out(p, N) = 0 /\ Out(proc[c], N) = 0
  BY <1>1, <1>3 DEF Out
<1>5. \A r : Returns(p, r) => Returns(proc[c], r)
  BY <1>1, <1>3 DEF Returns
<1>6. ASSUME NEW r \in DOMAIN routes
      PROVE  RecordedFor(r)' = RecordedFor(r) /\ RecordedFor(r) \in Nat
  <2>1. RecordedFor(r)' = RecordedFor(r)
    BY <1>1 DEF RecordedFor, TotalOf
  <2> QED
    BY <2>1, RecordedNat
<1>7. \A r \in DOMAIN routes :
        /\ RecordedFor(r)' \in Nat /\ RecordedFor(r) <= RecordedFor(r)'
        /\ Returns(p, r) =>
             /\ Returns(proc[c], r) /\ Out(p, Len(deliveries')) \in Nat
             /\ p.at \in {"planReturn", "return", "record"} => Out(p, Len(deliveries')) > 0
             /\ RecordedFor(r)' + Out(p, Len(deliveries')) >= RecordedFor(r) + Out(proc[c], N)
  BY <1>2, <1>3, <1>4, <1>5, <1>6
<1> QED
  BY <1>1, <1>2, <1>7, CoverKept

(* Use is written by one request at a time, as it was declared, when all is  *)
(* recorded that was to be returned.                                         *)
Writes(p) ==
  p # None /\ p.at = "finalize" /\ ~p.already /\ p.net = declared[p.route].used

WrittenOnce ==
  /\ \A c \in Clerks : Writes(proc[c]) =>
       /\ usages[proc[c].route] = <<>>
       /\ \A e \in Clerks : e # c /\ Writes(proc[e]) => proc[e].route # proc[c].route
  /\ \A r \in DOMAIN routes : usages[r] # <<>> =>
       usages[r] = <<declared[r].used>> /\ RecordedFor(r) >= ToReturn(r)

(* A return begins, while nobody else is past what is to be returned.        *)
LEMMA CoverBegin ==
  ASSUME Types, ReturnsCover, WrittenOnce, NEW c \in Clerks, NEW k \in DOMAIN routes,
         BeginReturn(c, k)
  PROVE  ReturnsCover'
<1> DEFINE N == Len(deliveries)
<1>1. PICK lots \in [Lots -> 0..PendingReturn(k)] :
        /\ Total(lots, NumLots) = PendingReturn(k)
        /\ Continue(c, [at |-> "planReturn", route |-> k, lots |-> lots])
  BY DEF BeginReturn
<1> DEFINE p == [at |-> "planReturn", route |-> k, lots |-> lots]
<1>2. /\ PendingReturn(k) > 0 /\ UNCHANGED <<routes, declared, usages, parts, deliveries>>
  BY DEF BeginReturn
<1>3. /\ proc'[c] = p /\ \A e \in Clerks : e # c => proc'[e] = proc[e]
  BY <1>1 DEF Types, TypeOK, Continue
<1>4. p.at = "planReturn" /\ p.route = k /\ Out(p, N) = PendingReturn(k)
  BY <1>1 DEF Out
<1> HIDE DEF p
<1>5. ASSUME NEW r \in DOMAIN routes
      PROVE  /\ RecordedFor(r)' = RecordedFor(r) /\ RecordedFor(r) \in Nat
             /\ ToReturn(r)' = ToReturn(r) /\ ToReturn(r) \in Nat
  <2>1. RecordedFor(r)' = RecordedFor(r) /\ ToReturn(r)' = ToReturn(r)
    BY <1>2 DEF RecordedFor, TotalOf, ToReturn
  <2> QED
    BY <2>1, ToReturnNat
<1>6. ToReturn(k) > 0 /\ RecordedFor(k) + PendingReturn(k) = ToReturn(k)
      /\ RecordedFor(k) < ToReturn(k) /\ PendingReturn(k) \in Int
  BY <1>2, <1>5 DEF PendingReturn
<1>7. usages[k] = <<>>
  BY <1>5, <1>6 DEF WrittenOnce
<1>8. ASSUME NEW e \in Clerks, Returns(proc[e], k)
      PROVE  Out(proc[e], N) > 0 /\ Out(proc[e], N) \in Nat
  <2>1. /\ RecordedFor(k) + Out(proc[e], N) >= ToReturn(k)
        /\ proc[e].at \in {"planReturn", "return", "record"} => Out(proc[e], N) > 0
    BY <1>8 DEF ReturnsCover
  <2>2. proc[e].at \in {"planReturn", "return", "record"} \/ Out(proc[e], N) = 0
    BY DEF Out
  <2> QED
    BY <1>5, <1>6, <1>8, <2>1, <2>2, OutNat
<1>9. ASSUME NEW r \in DOMAIN routes, NEW e \in Clerks, Returns(proc'[e], r)
      PROVE  /\ ToReturn(r) > 0
             /\ proc'[e].at \in {"planReturn", "return", "record"} => Out(proc'[e], N) > 0
             /\ RecordedFor(r) + Out(proc'[e], N) >= ToReturn(r)
             /\ \A j \in Clerks : j # e /\ Returns(proc'[j], r) =>
                  RecordedFor(r) + Out(proc'[e], N) + Out(proc'[j], N) > ToReturn(r)
             /\ usages[r] # <<>> => RecordedFor(r) + Out(proc'[e], N) > ToReturn(r)
  <2>1. CASE e = c
    <3>1. r = k /\ proc'[e] = p
      BY <1>3, <1>4, <1>9, <2>1 DEF Returns
    <3>2. ASSUME NEW j \in Clerks, j # e, Returns(proc'[j], r)
          PROVE  RecordedFor(r) + Out(proc'[e], N) + Out(proc'[j], N) > ToReturn(r)
      <4>1. proc'[j] = proc[j] /\ Out(proc[j], N) > 0 /\ Out(proc[j], N) \in Nat
        BY <1>3, <1>8, <2>1, <3>1, <3>2
      <4> QED
        BY <1>4, <1>5, <1>6, <3>1, <4>1
    <3> QED
      BY <1>2, <1>4, <1>5, <1>6, <1>7, <3>1, <3>2
  <2>2. CASE e # c
    <3>1. proc'[e] = proc[e] /\ Returns(proc[e], r)
      BY <1>3, <1>9, <2>2
    <3>2. /\ ToReturn(r) > 0
          /\ proc[e].at \in {"planReturn", "return", "record"} => Out(proc[e], N) > 0
          /\ RecordedFor(r) + Out(proc[e], N) >= ToReturn(r)
          /\ \A j \in Clerks : j # e /\ Returns(proc[j], r) =>
               RecordedFor(r) + Out(proc[e], N) + Out(proc[j], N) > ToReturn(r)
          /\ usages[r] # <<>> => RecordedFor(r) + Out(proc[e], N) > ToReturn(r)
      BY <3>1 DEF ReturnsCover
    <3>3. ASSUME NEW j \in Clerks, j # e, Returns(proc'[j], r)
          PROVE  RecordedFor(r) + Out(proc'[e], N) + Out(proc'[j], N) > ToReturn(r)
      <4>1. CASE j = c
        <5>1. r = k /\ proc'[j] = p
          BY <1>3, <1>4, <3>3, <4>1 DEF Returns
        <5>2. Out(proc[e], N) > 0 /\ Out(proc[e], N) \in Nat
          BY <1>8, <3>1, <5>1
        <5> QED
          BY <1>4, <1>5, <1>6, <3>1, <5>1, <5>2
      <4>2. CASE j # c
        BY <1>3, <3>1, <3>2, <3>3, <4>2
      <4> QED
        BY <4>1, <4>2
    <3> QED
      BY <3>1, <3>2, <3>3
  <2> QED
    BY <2>1, <2>2
<1>10. Len(deliveries') = N /\ routes' = routes /\ usages' = usages
  BY <1>2
<1>11. ASSUME NEW r \in DOMAIN routes', NEW e \in Clerks, Returns(proc'[e], r)
       PROVE  /\ ToReturn(r)' > 0
              /\ proc'[e].at \in {"planReturn", "return", "record"}
                   => Out(proc'[e], Len(deliveries')) > 0
              /\ RecordedFor(r)' + Out(proc'[e], Len(deliveries')) >= ToReturn(r)'
              /\ \A j \in Clerks : j # e /\ Returns(proc'[j], r) =>
                   RecordedFor(r)' + Out(proc'[e], Len(deliveries'))
                     + Out(proc'[j], Len(deliveries')) > ToReturn(r)'
              /\ usages'[r] # <<>> =>
                   RecordedFor(r)' + Out(proc'[e], Len(deliveries')) > ToReturn(r)'
  BY <1>5, <1>9, <1>10, <1>11
<1> QED
  BY <1>11 DEF ReturnsCover

(* Who finalizes has returned what it was to return.                         *)
LEMMA FinalizingReturns ==
  ASSUME Types, ReturnsCover, NEW c \in Clerks, proc[c] # None, proc[c].at = "finalize"
  PROVE  LET k == proc[c].route IN
         /\ Returns(proc[c], k) /\ k \in DOMAIN routes
         /\ ToReturn(k) > 0 /\ declared[k] # None
         /\ RecordedFor(k) >= ToReturn(k)
         /\ \A e \in Clerks : e # c /\ Returns(proc[e], k) =>
              RecordedFor(k) + Out(proc[e], Len(deliveries)) > ToReturn(k)
<1> DEFINE k == proc[c].route
           N == Len(deliveries)
<1>1. Returns(proc[c], k)
  BY DEF Returns
<1>2. k \in DOMAIN routes
  BY <1>1, OutNat
<1>3. Out(proc[c], N) = 0
  BY DEF Out
<1>4. /\ ToReturn(k) > 0 /\ RecordedFor(k) + Out(proc[c], N) >= ToReturn(k)
      /\ \A e \in Clerks : e # c /\ Returns(proc[e], k) =>
           RecordedFor(k) + Out(proc[c], N) + Out(proc[e], N) > ToReturn(k)
  BY <1>1, <1>2 DEF ReturnsCover
<1>5. ToReturn(k) \in Nat /\ RecordedFor(k) \in Nat
  BY <1>2, ToReturnNat
<1>6. RecordedFor(k) + 0 = RecordedFor(k)
  BY <1>5
<1>7. declared[k] # None
  BY <1>4 DEF ToReturn
<1> QED
  BY <1>1, <1>2, <1>3, <1>4, <1>6, <1>7

LEMMA CoverFinalize ==
  ASSUME Types, ReturnsCover, NEW c \in Clerks, FinalizeConsumption(c)
  PROVE  ReturnsCover'
<1> DEFINE N == Len(deliveries)
           k == proc[c].route
<1>1. /\ Continue(c, None) /\ UNCHANGED <<routes, declared, parts, deliveries>>
      /\ proc[c] # None /\ proc[c].at = "finalize"
      /\ usages' = [usages EXCEPT ![k] = Append(usages[k], proc[c].net)]
  BY DEF FinalizeConsumption, At
<1>2. /\ proc'[c] = None /\ \A e \in Clerks : e # c => proc'[e] = proc[e]
  BY <1>1 DEF Types, TypeOK, Continue
<1>3. \A r \in DOMAIN routes : r # k => usages'[r] = usages[r]
  BY <1>1 DEF Types, TypeOK
<1>4. \A e \in Clerks : e # c /\ Returns(proc[e], k) =>
        RecordedFor(k) + Out(proc[e], N) > ToReturn(k)
  BY <1>1, FinalizingReturns
<1>5. ASSUME NEW r \in DOMAIN routes, NEW e \in Clerks, Returns(proc'[e], r)
      PROVE  /\ e # c /\ proc'[e] = proc[e] /\ Returns(proc[e], r)
             /\ ToReturn(r) > 0
             /\ proc[e].at \in {"planReturn", "return", "record"} => Out(proc[e], N) > 0
             /\ RecordedFor(r) + Out(proc[e], N) >= ToReturn(r)
             /\ \A j \in Clerks : j # e /\ Returns(proc[j], r) =>
                  RecordedFor(r) + Out(proc[e], N) + Out(proc[j], N) > ToReturn(r)
             /\ usages'[r] # <<>> => RecordedFor(r) + Out(proc[e], N) > ToReturn(r)
  <2>1. e # c /\ proc'[e] = proc[e] /\ Returns(proc[e], r)
    BY <1>2, <1>5 DEF Returns
  <2>2. /\ ToReturn(r) > 0
        /\ proc[e].at \in {"planReturn", "return", "record"} => Out(proc[e], N) > 0
        /\ RecordedFor(r) + Out(proc[e], N) >= ToReturn(r)
        /\ \A j \in Clerks : j # e /\ Returns(proc[j], r) =>
             RecordedFor(r) + Out(proc[e], N) + Out(proc[j], N) > ToReturn(r)
        /\ usages[r] # <<>> => RecordedFor(r) + Out(proc[e], N) > ToReturn(r)
    BY <2>1 DEF ReturnsCover
  <2>3. usages'[r] # <<>> => RecordedFor(r) + Out(proc[e], N) > ToReturn(r)
    BY <1>3, <1>4, <2>1, <2>2
  <2> QED
    BY <2>1, <2>2, <2>3
<1>6. \A r : RecordedFor(r)' = RecordedFor(r) /\ ToReturn(r)' = ToReturn(r)
  BY <1>1 DEF RecordedFor, TotalOf, ToReturn
<1>7. Len(deliveries') = N /\ routes' = routes
  BY <1>1
<1>8. ASSUME NEW j \in Clerks, NEW r, Returns(proc'[j], r)
      PROVE  proc'[j] = proc[j]
  BY <1>2, <1>8 DEF Returns
<1>9. ASSUME NEW r \in DOMAIN routes', NEW e \in Clerks, Returns(proc'[e], r)
      PROVE  /\ ToReturn(r)' > 0
             /\ proc'[e].at \in {"planReturn", "return", "record"}
                  => Out(proc'[e], Len(deliveries')) > 0
             /\ RecordedFor(r)' + Out(proc'[e], Len(deliveries')) >= ToReturn(r)'
             /\ \A j \in Clerks : j # e /\ Returns(proc'[j], r) =>
                  RecordedFor(r)' + Out(proc'[e], Len(deliveries'))
                    + Out(proc'[j], Len(deliveries')) > ToReturn(r)'
             /\ usages'[r] # <<>> =>
                  RecordedFor(r)' + Out(proc'[e], Len(deliveries')) > ToReturn(r)'
  <2>1. r \in DOMAIN routes
    BY <1>7, <1>9
  <2>2. ASSUME NEW j \in Clerks, j # e, Returns(proc'[j], r)
        PROVE  RecordedFor(r) + Out(proc[e], N) + Out(proc'[j], N) > ToReturn(r)
    BY <1>5, <1>8, <1>9, <2>1, <2>2
  <2> QED
    BY <1>5, <1>6, <1>7, <1>9, <2>1, <2>2
<1> QED
  BY <1>9 DEF ReturnsCover

(* Requests that do not come to write, and records that only grow.           *)
LEMMA WrittenKept ==
  ASSUME Types, WrittenOnce, routes' = routes, declared' = declared, usages' = usages,
         \A c \in Clerks : \/ proc'[c] = proc[c] \/ proc'[c] = None
                           \/ proc'[c].at # "finalize",
         \A r \in DOMAIN routes : RecordedFor(r)' \in Nat /\ RecordedFor(r) <= RecordedFor(r)'
  PROVE  WrittenOnce'
<1>1. ASSUME NEW c \in Clerks, Writes(proc'[c])
      PROVE  proc'[c] = proc[c] /\ Writes(proc[c])
  BY <1>1 DEF Writes
<1>2. ASSUME NEW r \in DOMAIN routes, usages[r] # <<>>
      PROVE  usages[r] = <<declared[r].used>> /\ RecordedFor(r)' >= ToReturn(r)'
  <2>1. usages[r] = <<declared[r].used>> /\ RecordedFor(r) >= ToReturn(r)
    BY <1>2 DEF WrittenOnce
  <2>2. ToReturn(r)' = ToReturn(r) /\ ToReturn(r) \in Nat /\ RecordedFor(r) \in Nat
    BY ToReturnNat DEF ToReturn
  <2> QED
    BY <2>1, <2>2
<1>3. \A c \in Clerks : Writes(proc'[c]) =>
        /\ usages[proc'[c].route] = <<>>
        /\ \A e \in Clerks : e # c /\ Writes(proc'[e]) => proc'[e].route # proc'[c].route
  BY <1>1 DEF WrittenOnce
<1>4. \A c \in Clerks : Writes(proc[c])' <=> Writes(proc'[c])
  BY DEF Writes
<1> QED
  BY <1>2, <1>3, <1>4 DEF WrittenOnce

LEMMA WrittenFinalize ==
  ASSUME Types, ReturnsCover, WrittenOnce, NEW c \in Clerks, FinalizeConsumption(c)
  PROVE  WrittenOnce'
<1> DEFINE k == proc[c].route
<1>1. /\ Continue(c, None) /\ UNCHANGED <<routes, declared, parts>>
      /\ proc[c] # None /\ proc[c].at = "finalize" /\ Writes(proc[c])
      /\ proc[c].net = declared[k].used
      /\ usages' = [usages EXCEPT ![k] = Append(usages[k], proc[c].net)]
  BY DEF FinalizeConsumption, At, Writes
<1>2. /\ proc'[c] = None /\ \A e \in Clerks : e # c => proc'[e] = proc[e]
  BY <1>1 DEF Types, TypeOK, Continue
<1>3. k \in DOMAIN routes /\ RecordedFor(k) >= ToReturn(k)
  BY <1>1, FinalizingReturns
<1>4. /\ \A r \in DOMAIN routes : r # k => usages'[r] = usages[r]
      /\ usages'[k] = Append(usages[k], proc[c].net)
  BY <1>1, <1>3 DEF Types, TypeOK
<1>5. usages[k] = <<>>
  BY <1>1 DEF WrittenOnce
<1>6. usages'[k] = <<declared[k].used>>
  BY <1>1, <1>4, <1>5
<1>7. \A e \in Clerks : Writes(proc'[e]) => e # c /\ proc'[e] = proc[e] /\ Writes(proc[e])
  BY <1>2 DEF Writes
<1>8. ASSUME NEW e \in Clerks, Writes(proc'[e])
      PROVE  /\ usages'[proc'[e].route] = <<>>
             /\ \A j \in Clerks : j # e /\ Writes(proc'[j]) => proc'[j].route # proc'[e].route
  <2>1. /\ proc[e].route # k /\ usages[proc[e].route] = <<>>
        /\ \A j \in Clerks : j # e /\ Writes(proc[j]) => proc[j].route # proc[e].route
    BY <1>1, <1>7, <1>8 DEF WrittenOnce
  <2>2. proc[e].route \in DOMAIN routes
    BY <1>7, <1>8 DEF Writes, Types, RequestsOK, RequestOK
  <2> QED
    BY <1>4, <1>7, <1>8, <2>1, <2>2
<1>9. \A r : RecordedFor(r)' = RecordedFor(r) /\ ToReturn(r)' = ToReturn(r)
  BY <1>1 DEF RecordedFor, TotalOf, ToReturn
<1>10. ASSUME NEW r \in DOMAIN routes, usages'[r] # <<>>
       PROVE  usages'[r] = <<declared[r].used>> /\ RecordedFor(r) >= ToReturn(r)
  <2>1. CASE r = k
    BY <1>3, <1>6, <2>1
  <2>2. CASE r # k
    BY <1>4, <1>10, <2>2 DEF WrittenOnce
  <2> QED
    BY <2>1, <2>2
<1>11. \A e \in Clerks : Writes(proc[e])' <=> Writes(proc'[e])
  BY <1>1 DEF Writes
<1> QED
  BY <1>1, <1>8, <1>9, <1>10, <1>11 DEF WrittenOnce

(* A request that finds use unwritten and as declared finds nobody else that *)
(* does: what they recorded together would be more than was given back.      *)
LEMMA WrittenBegin ==
  ASSUME Types, NetFollows, DeclarationsHold, ReturnsCover, WrittenOnce,
         NEW c \in Clerks, BeginFinalize(c)
  PROVE  WrittenOnce'
<1> DEFINE k == proc[c].route
           N == Len(deliveries)
           p == [at |-> "finalize", route |-> k, net |-> Net(k), already |-> usages[k] # <<>>]
<1>1. /\ Continue(c, p) /\ UNCHANGED <<routes, declared, parts, usages>>
      /\ proc[c] # None /\ proc[c].at = "refresh"
  BY DEF BeginFinalize, At
<1>2. p.at = "finalize" /\ p.route = k /\ p.net = Net(k) /\ (p.already <=> usages[k] # <<>>)
  OBVIOUS
<1> HIDE DEF p
<1>3. /\ proc'[c] = p /\ \A e \in Clerks : e # c => proc'[e] = proc[e]
  BY <1>1 DEF Types, TypeOK, Continue
<1>4. Returns(proc[c], k) /\ Out(proc[c], N) = 0
  BY <1>1 DEF Returns, Out
<1>5. k \in DOMAIN routes
  BY <1>4, OutNat
<1>6. ASSUME NEW e \in Clerks, e # c, Writes(proc[e]), Writes(p), proc[e].route = k
      PROVE  FALSE
  <2>1. /\ Returns(proc[e], k) /\ declared[k] # None
        /\ RecordedFor(k) + Out(proc[c], N) > ToReturn(k)
    BY <1>4, <1>6, FinalizingReturns DEF Writes
  <2>2. RecordedFor(k) \in Nat /\ ToReturn(k) \in Nat /\ LinkedTo(links, k) \in Nat
    BY <1>5, ToReturnNat, LinkedToNat
  <2>3. declared[k].used + declared[k].toReturn = LinkedTo(links, k)
    BY <1>5, <2>1 DEF DeclarationsHold
  <2>4. Net(k) = LinkedTo(links, k) - RecordedFor(k) /\ Net(k) = declared[k].used
    BY <1>2, <1>5, <1>6 DEF NetFollows, Writes
  <2>5. ToReturn(k) = declared[k].toReturn
    BY <2>1 DEF ToReturn
  <2>6. declared[k].used \in Nat /\ declared[k].toReturn \in Nat
    BY <1>5, <2>1, RecordsOf
  <2> QED
    BY <1>4, <2>1, <2>2, <2>3, <2>4, <2>5, <2>6
<1>7. Writes(p) => usages[k] = <<>>
  BY <1>2 DEF Writes
<1>8. ASSUME NEW e \in Clerks, Writes(proc'[e])
      PROVE  /\ usages[proc'[e].route] = <<>>
             /\ \A j \in Clerks : j # e /\ Writes(proc'[j]) => proc'[j].route # proc'[e].route
  <2>1. CASE e = c
    BY <1>2, <1>3, <1>6, <1>7, <1>8, <2>1
  <2>2. CASE e # c
    <3>1. proc'[e] = proc[e] /\ usages[proc[e].route] = <<>>
      BY <1>3, <1>8, <2>2 DEF WrittenOnce
    <3>2. ASSUME NEW j \in Clerks, j # e, Writes(proc'[j])
          PROVE  proc'[j].route # proc[e].route
      <4>1. CASE j = c
        BY <1>2, <1>3, <1>6, <1>8, <2>2, <3>1, <3>2, <4>1
      <4>2. CASE j # c
        BY <1>3, <1>8, <3>1, <3>2, <4>2 DEF WrittenOnce
      <4> QED
        BY <4>1, <4>2
    <3> QED
      BY <3>1, <3>2
  <2> QED
    BY <2>1, <2>2
<1>9. \A r : RecordedFor(r)' = RecordedFor(r) /\ ToReturn(r)' = ToReturn(r)
  BY <1>1 DEF RecordedFor, TotalOf, ToReturn
<1>10. \A e \in Clerks : Writes(proc[e])' <=> Writes(proc'[e])
  BY <1>1 DEF Writes
<1>11. \A r \in DOMAIN routes : usages[r] # <<>> =>
         usages[r] = <<declared[r].used>> /\ RecordedFor(r) >= ToReturn(r)
  BY DEF WrittenOnce
<1> QED
  BY <1>1, <1>8, <1>9, <1>10, <1>11 DEF WrittenOnce

(* Before the work is declared nobody returns, and afterwards what was       *)
(* declared starts with nothing recorded.                                    *)
LEMMA UsageOfItem ==
  ASSUME Types, DeclarationsHold, ReturnsCover, WrittenOnce,
         \/ \E item \in Items, q \in Required : SubmitMaterialNeed(item, q)
         \/ \E item \in Items, lot \in Shared : TakeStock(item, lot)
         \/ NeedMore \/ DeclareConsumption \/ UNCHANGED vars
  PROVE  ReturnsCover' /\ WrittenOnce'
<1>1. CASE \/ \E item \in Items, lot \in Shared : TakeStock(item, lot)
           \/ NeedMore \/ UNCHANGED vars
  <2>1. UNCHANGED <<routes, deliveries, declared, parts, usages, proc>>
    BY <1>1 DEF TakeStock, NeedMore, vars
  <2> QED
    BY <2>1 DEF ReturnsCover, WrittenOnce, Writes, ToReturn, RecordedFor, TotalOf
<1>2. CASE \/ \E item \in Items, q \in Required : SubmitMaterialNeed(item, q)
           \/ DeclareConsumption
  <2>1. status # "completed" /\ proc' = proc /\ parts' = parts
    BY <1>2 DEF SubmitMaterialNeed, DeclareConsumption
  <2>2. \A c \in Clerks : \A r : ~Returns(proc'[c], r)
    BY <2>1, NothingReturnsYet
  <2>3. \A c \in Clerks : ~(proc'[c] # None /\ proc'[c].at = "finalize")
    BY <2>2 DEF Returns
  <2>4. ReturnsCover'
    BY <2>2 DEF ReturnsCover
  <2>5. ASSUME NEW r \in DOMAIN routes', usages'[r] # <<>>
        PROVE  usages'[r] = <<declared'[r].used>> /\ RecordedFor(r)' >= ToReturn(r)'
    <3>1. RecordedFor(r)' = RecordedFor(r) /\ RecordedFor(r) \in Nat
      <4>1. RecordedFor(r)' = RecordedFor(r)
        BY <2>1 DEF RecordedFor, TotalOf
      <4> QED
        BY <4>1, RecordedNat
    <3>2. CASE DeclareConsumption
      <4>1. PICK used :
              /\ declared' = [q \in DOMAIN routes |->
                   IF q \notin Latest THEN None
                   ELSE [used |-> used[q], toReturn |-> LinkedTo(links, q) - used[q]]]
              /\ usages' = [q \in DOMAIN routes |->
                   IF q \in Latest /\ used[q] = LinkedTo(links, q) THEN <<used[q]>> ELSE <<>>]
              /\ routes' = routes
        BY <3>2 DEF DeclareConsumption
      <4>2. r \in DOMAIN routes /\ r \in Latest /\ used[r] = LinkedTo(links, r)
            /\ usages'[r] = <<used[r]>>
        BY <2>5, <4>1
      <4>3. declared'[r].used = used[r]
            /\ declared'[r].toReturn = LinkedTo(links, r) - LinkedTo(links, r)
        BY <4>1, <4>2
      <4>4. declared'[r].toReturn = 0
        BY <4>3, LinkedToNat
      <4>5. ToReturn(r)' = 0
        BY <4>4 DEF ToReturn
      <4> QED
        BY <3>1, <4>2, <4>3, <4>5
    <3>3. CASE \E item \in Items, q \in Required : SubmitMaterialNeed(item, q)
      <4>1. /\ \A k \in DOMAIN routes : usages[k] = <<>>
            /\ Len(usages) = Len(routes) /\ Len(usages) \in Nat
            /\ usages' = Append(usages, <<>>)
            /\ \E x : routes' = Append(routes, x)
        BY <2>1, <3>3 DEF DeclarationsHold, SubmitMaterialNeed, Types, TypeOK
      <4>2. DOMAIN routes' = 1..(Len(routes) + 1) /\ DOMAIN routes = 1..Len(routes)
        BY <4>1 DEF Types, TypeOK
      <4>3. /\ usages'[Len(usages) + 1] = <<>>
            /\ \A k \in 1..Len(usages) : usages'[k] = usages[k]
        BY <4>1 DEF Types, TypeOK
      <4>4. r = Len(usages) + 1 \/ r \in 1..Len(usages)
        BY <2>5, <4>1, <4>2
      <4> QED
        BY <2>5, <4>1, <4>2, <4>3, <4>4
    <3> QED
      BY <1>2, <3>2, <3>3
  <2>6. WrittenOnce'
    BY <2>3, <2>5 DEF WrittenOnce, Writes
  <2> QED
    BY <2>4, <2>6
<1> QED
  BY <1>1, <1>2

LEMMA WrittenReturning ==
  ASSUME Types, WrittenOnce, NEW c \in Clerks,
         \/ \E r \in DOMAIN routes : BeginReturn(c, r)
         \/ PlanReturn(c) \/ CreateReturn(c) \/ RecordPart(c) \/ Issuing(c) \/ Fail(c)
  PROVE  WrittenOnce'
<1>1. UNCHANGED <<routes, declared, usages>>
      /\ \E p : Continue(c, p) /\ (p = None \/ p.at # "finalize")
  <2>1. CASE \E r \in DOMAIN routes : BeginReturn(c, r)
    BY <2>1 DEF BeginReturn
  <2>2. CASE PlanReturn(c)
    <3>1. PICK plan, fits :
            Continue(c, [at |-> "return", route |-> proc[c].route, plan |-> plan, fits |-> fits])
      BY <2>2 DEF PlanReturn
    <3> QED
      BY <2>2, <3>1 DEF PlanReturn
  <2>3. CASE CreateReturn(c)
    <3>1. PICK d : ToRecord(c, d)
      BY <2>3 DEF CreateReturn
    <3> QED
      BY <3>1 DEF ToRecord
  <2>4. CASE RecordPart(c)
    <3> DEFINE plan == [proc[c].plan EXCEPT ![proc[c].delivery] = 0]
               p == IF \E d \in DOMAIN plan : plan[d] > 0
                    THEN [at |-> "return", route |-> proc[c].route, plan |-> plan,
                          fits |-> proc[c].fits]
                    ELSE IF proc[c].fits THEN [at |-> "refresh", route |-> proc[c].route]
                    ELSE None
    <3>1. Continue(c, p) /\ UNCHANGED <<routes, declared, usages>>
      BY <2>4 DEF RecordPart
    <3>2. p = None \/ p.at # "finalize"
      OBVIOUS
    <3> HIDE DEF p
    <3> QED
      BY <3>1, <3>2
  <2>5. CASE Issuing(c) \/ Fail(c)
    <3>1. PICK p : Continue(c, p) /\ (p = None \/
                     p.at \in {"plan", "issue", "read", "link", "late", "mark"})
      BY <2>5, IssuingStep
    <3>2. UNCHANGED <<routes, declared, usages>>
      BY <2>5, IssuingStep
    <3> QED
      BY <3>1, <3>2
  <2> QED
    BY <2>1, <2>2, <2>3, <2>4, <2>5
<1>2. PICK p : Continue(c, p) /\ (p = None \/ p.at # "finalize")
  BY <1>1
<1>3. /\ proc'[c] = p /\ \A e \in Clerks : e # c => proc'[e] = proc[e]
  BY <1>2 DEF Types, TypeOK, Continue
<1>4. ASSUME NEW r \in DOMAIN routes
      PROVE  RecordedFor(r)' \in Nat /\ RecordedFor(r) <= RecordedFor(r)'
  <2>1. RecordedFor(r) \in Nat
    BY RecordedNat
  <2>2. CASE RecordPart(c)
    <3>1. PICK part \in [route : DOMAIN routes, delivery : DOMAIN deliveries, quantity : Nat] :
            parts' = Append(parts, part)
      <4> DEFINE part == [route |-> proc[c].route, delivery |-> proc[c].delivery,
                          quantity |-> proc[c].plan[proc[c].delivery]]
      <4>1. RequestOK(proc[c], DOMAIN routes, DOMAIN deliveries) /\ proc[c].at = "record"
        BY <2>2 DEF RecordPart, At, Types, RequestsOK
      <4>2. part \in [route : DOMAIN routes, delivery : DOMAIN deliveries, quantity : Nat]
        BY <4>1 DEF RequestOK
      <4>3. parts' = Append(parts, part)
        BY <2>2 DEF RecordPart
      <4> QED
        BY <4>2, <4>3
    <3>2. RecordedFor(r)' = RecordedFor(r) + IF part.route = r THEN part.quantity ELSE 0
      BY <3>1, RecordedAdds
    <3>3. part.quantity \in Nat
      BY <3>1
    <3> QED
      BY <2>1, <3>2, <3>3
  <2>3. CASE ~RecordPart(c)
    <3>1. parts' = parts
      BY <2>3, IssuingStep DEF BeginReturn, PlanReturn, CreateReturn, ToRecord
    <3>2. RecordedFor(r)' = RecordedFor(r)
      BY <3>1 DEF RecordedFor, TotalOf
    <3> QED
      BY <2>1, <3>2
  <2> QED
    BY <2>2, <2>3
<1>5. \A e \in Clerks : proc'[e] = proc[e] \/ proc'[e] = None \/ proc'[e].at # "finalize"
  BY <1>2, <1>3
<1> QED
  BY <1>1, <1>4, <1>5, WrittenKept

LEMMA UsageStep ==
  ASSUME Types, NetFollows, DeclarationsHold, ReturnsCover, WrittenOnce, [Next]_vars
  PROVE  ReturnsCover' /\ WrittenOnce'
<1>1. CASE \/ \E item \in Items, q \in Required : SubmitMaterialNeed(item, q)
           \/ \E item \in Items, lot \in Shared : TakeStock(item, lot)
           \/ NeedMore \/ DeclareConsumption \/ UNCHANGED vars
  BY <1>1, UsageOfItem
<1>2. ASSUME NEW c \in Clerks, Issuing(c) \/ Returning(c) \/ Fail(c)
      PROVE  ReturnsCover' /\ WrittenOnce'
  <2>1. CASE Issuing(c) \/ Fail(c)
    BY <2>1, CoverIssuing, WrittenReturning
  <2>2. CASE \E r \in DOMAIN routes : BeginReturn(c, r)
    BY <2>2, CoverBegin, WrittenReturning
  <2>3. CASE PlanReturn(c)
    BY <2>3, CoverPlan, WrittenReturning
  <2>4. CASE CreateReturn(c)
    BY <2>4, CoverGiveBack, WrittenReturning
  <2>5. CASE RecordPart(c)
    BY <2>5, CoverRecord, WrittenReturning
  <2>6. CASE BeginFinalize(c)
    BY <2>6, CoverFinalizeBegin, WrittenBegin
  <2>7. CASE FinalizeConsumption(c)
    BY <2>7, CoverFinalize, WrittenFinalize
  <2> QED
    BY <1>2, <2>1, <2>2, <2>3, <2>4, <2>5, <2>6, <2>7 DEF Returning
<1> QED
  BY <1>1, <1>2 DEF Next

(* The net consumption of a requirement is what was linked to it without     *)
(* what was recorded of it.                                                  *)
Usage == PartsLinked /\ NetFollows /\ DeclarationsHold /\ ReturnsCover /\ WrittenOnce

(* Two clerks may confirm one return, and nothing locks the declaration:     *)
(* use is written at most once for each requirement, and as declared.        *)
THEOREM ConsumptionWrittenOnce == Spec => []UsageWrittenOnce
<1>1. Init => Types /\ LinkedOnce /\ ReadyMeansIssued
  BY TypesStart DEF Init, LinkedOnce, ReadyMeansIssued
<1>2. Init => Usage
  BY DEF Init, Usage, PartsLinked, NetFollows, DeclarationsHold, ReturnsCover, WrittenOnce,
         Returns, Writes
<1>3. Types /\ LinkedOnce /\ ReadyMeansIssued /\ Usage /\ [Next]_vars /\ RecordedWasReturned'
        => Usage'
  <2> SUFFICES ASSUME Types, LinkedOnce, ReadyMeansIssued, Usage, [Next]_vars,
                      RecordedWasReturned'
               PROVE  Usage'
    OBVIOUS
  <2>1. \A c \in Clerks : FinalizeConsumption(c) => declared[proc[c].route] # None
    BY FinalizingReturns DEF FinalizeConsumption, At, Usage
  <2>2. PartsLinked' /\ NetFollows'
    BY PartsLinkedStep, NetStep DEF Usage
  <2>3. DeclarationsHold'
    BY <2>1, DeclarationsStep DEF Usage
  <2>4. ReturnsCover' /\ WrittenOnce'
    BY UsageStep DEF Usage
  <2> QED
    BY <2>2, <2>3, <2>4 DEF Usage
<1>4. Types /\ [Next]_vars => Types'
  BY TypesStep
<1>5. Usage => UsageWrittenOnce
  BY DEF Usage, WrittenOnce, UsageWrittenOnce
<1> QED
  BY <1>1, <1>2, <1>3, <1>4, <1>5, DeliveriesLinkedOnce, WaitsForMaterial, RecordsFollowReturns,
     PTL DEF Spec
===============================================================================
