----------------------- MODULE RunningTotalsTheorems -------------------------
(* What Total returns: for every number of rows, by the least-element        *)
(* principle of the naturals.  Nothing here is bounded.                      *)
EXTENDS RunningTotals, TLAPS, WellFoundedInduction

(* p is the sequence of running totals of f up to n.                         *)
IsRunning(p, f, n) ==
  /\ p \in [0..n -> Int]
  /\ p[0] = 0
  /\ \A k \in 1..n : p[k] = p[k-1] + f[k]

Summable(f, n) == \A k \in 1..n : f[k] \in Int

-----------------------------------------------------------------------------
(* A set of naturals that holds no least element is empty: the form of       *)
(* induction every lemma below uses.                                         *)
LEMMA LeastElement ==
  ASSUME NEW S \in SUBSET Nat, S # {}
  PROVE  \E m \in S : \A k \in S : m <= k
<1>1. IsWellFoundedOn(OpToRel(<, Nat), Nat)
  BY NatLessThanWellFounded
<1>2. PICK m \in S : \A y \in S : ~ (<<y, m>> \in OpToRel(<, Nat))
  BY <1>1, WFMin
<1>3. \A y \in S : ~ (y < m)
  BY <1>2 DEF OpToRel
<1> QED BY <1>3

(* Running totals exist for every summable f.                                *)
LEMMA RunningExists ==
  ASSUME NEW n \in Nat, NEW f, Summable(f, n)
  PROVE  \E p : IsRunning(p, f, n)
<1> DEFINE Bad == {m \in 0..n : ~ \E p : IsRunning(p, f, m)}
<1>1. SUFFICES ASSUME Bad # {} PROVE FALSE
  OBVIOUS
<1>0. Bad \in SUBSET Nat
  OBVIOUS
<1>2. PICK m \in Bad : \A k \in Bad : m <= k
  <2> HIDE DEF Bad
  <2> QED BY <1>0, <1>1, LeastElement
<1>3. CASE m = 0
  <2>1. IsRunning([k \in 0..0 |-> 0], f, 0)
    BY DEF IsRunning
  <2> QED BY <1>3, <2>1, <1>2
<1>4. CASE m # 0
  <2>1. m - 1 \in 0..n /\ m - 1 \notin Bad /\ m \in 1..n
    BY <1>2, <1>4
  <2>2. PICK p : IsRunning(p, f, m-1)
    BY <2>1
  <2> DEFINE r == [k \in 0..m |-> IF k = m THEN p[m-1] + f[m] ELSE p[k]]
  <2>3. f[m] \in Int /\ p[m-1] \in Int
    BY <2>1, <2>2 DEF Summable, IsRunning
  <2>4. r \in [0..m -> Int]
    BY <2>1, <2>2, <2>3 DEF IsRunning
  <2>5. r[0] = 0
    BY <2>1, <2>2 DEF IsRunning
  <2>6. ASSUME NEW k \in 1..m PROVE r[k] = r[k-1] + f[k]
    <3>1. CASE k = m
      BY <3>1, <2>1
    <3>2. CASE k # m
      <4>1. k \in 1..(m-1) /\ k \in 0..m /\ k-1 \in 0..m /\ k-1 # m
        BY <3>2, <2>1
      <4>2. p[k] = p[k-1] + f[k]
        BY <4>1, <2>2 DEF IsRunning
      <4> QED BY <4>1, <4>2, <3>2
    <3> QED BY <3>1, <3>2
  <2>7. IsRunning(r, f, m)
    BY <2>4, <2>5, <2>6 DEF IsRunning
  <2> QED BY <2>7, <1>2
<1> QED BY <1>3, <1>4

(* Total returns the last running total.                                     *)
LEMMA TotalIsRunning ==
  ASSUME NEW n \in Nat, NEW f, Summable(f, n)
  PROVE  \E p : IsRunning(p, f, n) /\ Total(f, n) = p[n]
<1> DEFINE Step(p) == [k \in 0..n |-> IF k = 0 THEN 0 ELSE p[k-1] + f[k]]
           C == CHOOSE p : p = Step(p)
<1>1. PICK p : IsRunning(p, f, n)
  BY RunningExists
<1>2. p = Step(p)
  <2>1. \A k \in 0..n : p[k] = Step(p)[k]
    BY <1>1 DEF IsRunning
  <2> QED BY <2>1, <1>1 DEF IsRunning
<1>3. C = Step(C)
  BY <1>2
<1>4. Total(f, n) = C[n]
  BY DEF Total
<1> HIDE DEF C
<1>5. /\ DOMAIN C = 0..n
      /\ C = [k \in 0..n |-> C[k]]
      /\ C[0] = 0
      /\ \A k \in 1..n : C[k] = C[k-1] + f[k]
  BY <1>3
<1>6. \A k \in 0..n : C[k] = p[k]
  <2> DEFINE Bad == {k \in 0..n : C[k] # p[k]}
  <2>1. SUFFICES ASSUME Bad # {} PROVE FALSE
    OBVIOUS
  <2>0. Bad \in SUBSET Nat
    OBVIOUS
  <2>2. PICK m \in Bad : \A k \in Bad : m <= k
    <3> HIDE DEF Bad
    <3> QED BY <2>0, <2>1, LeastElement
  <2>3. m # 0
    BY <2>2, <1>5, <1>1 DEF IsRunning
  <2>4. m \in 1..n /\ m-1 \in 0..n /\ m-1 \notin Bad
    BY <2>2, <2>3
  <2>5. C[m-1] = p[m-1]
    BY <2>4
  <2>6. C[m] = p[m]
    BY <2>4, <2>5, <1>5, <1>1 DEF IsRunning
  <2> QED BY <2>6, <2>2
<1>7. C = p
  BY <1>5, <1>6, <1>1 DEF IsRunning
<1> QED BY <1>1, <1>4, <1>7

(* The total of integers is an integer, of naturals a natural that bounds    *)
(* each of them.                                                             *)
LEMMA TotalInt ==
  ASSUME NEW n \in Nat, NEW f, Summable(f, n)
  PROVE  Total(f, n) \in Int
<1>1. PICK p : IsRunning(p, f, n) /\ Total(f, n) = p[n]
  BY TotalIsRunning
<1> QED BY <1>1 DEF IsRunning

LEMMA TotalNat ==
  ASSUME NEW n \in Nat, NEW f, \A k \in 1..n : f[k] \in Nat
  PROVE  /\ Total(f, n) \in Nat
         /\ \A k \in 1..n : f[k] <= Total(f, n)
<1>1. Summable(f, n)
  BY DEF Summable
<1>2. PICK p : IsRunning(p, f, n) /\ Total(f, n) = p[n]
  BY <1>1, TotalIsRunning
<1> DEFINE Ok(m) == p[m] >= 0 /\ \A k \in 1..m : f[k] <= p[m]
           Bad == {m \in 0..n : ~ Ok(m)}
<1>3. Bad = {}
  <2>1. SUFFICES ASSUME Bad # {} PROVE FALSE
    OBVIOUS
  <2>2. Bad \in SUBSET Nat
    OBVIOUS
  <2>3. PICK m \in Bad : \A k \in Bad : m <= k
    <3> HIDE DEF Bad
    <3> QED BY <2>1, <2>2, LeastElement
  <2>4. m # 0
    BY <2>3, <1>2 DEF IsRunning
  <2>5. m \in 1..n /\ m-1 \in 0..n /\ m-1 \notin Bad
    BY <2>3, <2>4
  <2>6. Ok(m-1)
    BY <2>5
  <2>7. p[m] = p[m-1] + f[m] /\ p[m-1] \in Int /\ f[m] \in Nat
    BY <2>5, <1>2 DEF IsRunning
  <2>8. \A k \in 1..m : k = m \/ k \in 1..(m-1)
    BY <2>5
  <2>9. \A k \in 1..m : f[k] \in Nat
    BY <2>5
  <2>10. Ok(m)
    <3>1. p[m] >= 0
      BY <2>6, <2>7
    <3>2. \A k \in 1..m : f[k] <= p[m]
      BY <2>6, <2>7, <2>8, <2>9
    <3> QED BY <3>1, <3>2
  <2> QED BY <2>10, <2>3
<1>4. Ok(n)
  <2>1. n \in 0..n /\ n \notin Bad
    BY <1>3
  <2> QED BY <2>1
<1>5. p[n] \in Int
  BY <1>2 DEF IsRunning
<1> QED BY <1>4, <1>5, <1>2

(* Totals are additive, so a change of some of the rows changes the total by *)
(* the total of the changes.                                                 *)
LEMMA TotalAdds ==
  ASSUME NEW n \in Nat, NEW f, NEW g, NEW h, Summable(f, n), Summable(g, n),
         \A k \in 1..n : h[k] = f[k] + g[k]
  PROVE  Total(h, n) = Total(f, n) + Total(g, n)
<1>1. Summable(h, n)
  BY DEF Summable
<1>2. PICK p : IsRunning(p, f, n) /\ Total(f, n) = p[n]
  BY TotalIsRunning
<1>3. PICK q : IsRunning(q, g, n) /\ Total(g, n) = q[n]
  BY TotalIsRunning
<1>4. PICK r : IsRunning(r, h, n) /\ Total(h, n) = r[n]
  BY <1>1, TotalIsRunning
<1> DEFINE Bad == {m \in 0..n : r[m] # p[m] + q[m]}
<1>5. Bad = {}
  <2>1. SUFFICES ASSUME Bad # {} PROVE FALSE
    OBVIOUS
  <2>2. Bad \in SUBSET Nat
    OBVIOUS
  <2>3. PICK m \in Bad : \A k \in Bad : m <= k
    <3> HIDE DEF Bad
    <3> QED BY <2>1, <2>2, LeastElement
  <2>4. m # 0
    BY <2>3, <1>2, <1>3, <1>4 DEF IsRunning
  <2>5. m \in 1..n /\ m-1 \in 0..n /\ m-1 \notin Bad
    BY <2>3, <2>4
  <2>6. r[m-1] = p[m-1] + q[m-1]
    BY <2>5
  <2>7. /\ p[m-1] \in Int /\ q[m-1] \in Int
        /\ p[m] = p[m-1] + f[m] /\ q[m] = q[m-1] + g[m]
        /\ r[m] = r[m-1] + h[m] /\ h[m] = f[m] + g[m]
        /\ f[m] \in Int /\ g[m] \in Int
    BY <2>5, <1>2, <1>3, <1>4 DEF IsRunning, Summable
  <2> QED BY <2>3, <2>6, <2>7
<1> QED BY <1>2, <1>3, <1>4, <1>5

(* The total of a single row.                                                *)
LEMMA TotalOfOne ==
  ASSUME NEW n \in Nat, NEW i \in 1..n, NEW d \in Int
  PROVE  Total([k \in 1..n |-> IF k = i THEN d ELSE 0], n) = d
<1> DEFINE g == [k \in 1..n |-> IF k = i THEN d ELSE 0]
<1>1. Summable(g, n)
  BY DEF Summable
<1>2. PICK p : IsRunning(p, g, n) /\ Total(g, n) = p[n]
  BY <1>1, TotalIsRunning
<1> DEFINE Bad == {m \in 0..n : p[m] # IF m < i THEN 0 ELSE d}
<1>3. Bad = {}
  <2>1. SUFFICES ASSUME Bad # {} PROVE FALSE
    OBVIOUS
  <2>2. Bad \in SUBSET Nat
    OBVIOUS
  <2>3. PICK m \in Bad : \A k \in Bad : m <= k
    <3> HIDE DEF Bad
    <3> QED BY <2>1, <2>2, LeastElement
  <2>4. m # 0
    BY <2>3, <1>2 DEF IsRunning
  <2>5. m \in 1..n /\ m-1 \in 0..n /\ m-1 \notin Bad
    BY <2>3, <2>4
  <2>6. p[m] = p[m-1] + g[m] /\ g[m] = IF m = i THEN d ELSE 0
    BY <2>5, <1>2 DEF IsRunning
  <2>7. p[m-1] = IF m-1 < i THEN 0 ELSE d
    BY <2>5
  <2> QED BY <2>3, <2>5, <2>6, <2>7
<1>4. p[n] = d
  BY <1>3
<1> QED BY <1>2, <1>4

(* Changing one row by d changes the total by d.                             *)
LEMMA TotalOfUpdate ==
  ASSUME NEW n \in Nat, NEW f, NEW h, NEW i \in 1..n, NEW d \in Int,
         Summable(f, n),
         h[i] = f[i] + d, \A k \in 1..n : k # i => h[k] = f[k]
  PROVE  Total(h, n) = Total(f, n) + d
<1> DEFINE g == [k \in 1..n |-> IF k = i THEN d ELSE 0]
<1>1. Summable(g, n) /\ \A k \in 1..n : h[k] = f[k] + g[k]
  BY DEF Summable
<1>2. Total(g, n) = d
  BY TotalOfOne
<1> HIDE DEF g
<1> QED BY <1>1, <1>2, TotalAdds

(* Equal rows have equal totals; rows of zeros total zero.                   *)
LEMMA TotalOfEqual ==
  ASSUME NEW n \in Nat, NEW f, NEW h, Summable(f, n),
         \A k \in 1..n : h[k] = f[k]
  PROVE  Total(h, n) = Total(f, n)
<1>1. CASE n = 0
  <2>1. \A u : Total(u, 0) = 0
    <3> TAKE u
    <3>1. Summable(u, 0)
      BY DEF Summable
    <3>2. PICK p : IsRunning(p, u, 0) /\ Total(u, 0) = p[0]
      BY <3>1, TotalIsRunning
    <3> QED BY <3>2 DEF IsRunning
  <2> QED BY <1>1, <2>1
<1>2. CASE n # 0
  <2>1. 1 \in 1..n /\ f[1] \in Int /\ h[1] = f[1] + 0
    BY <1>2 DEF Summable
  <2>2. Total(h, n) = Total(f, n) + 0
    BY <2>1, TotalOfUpdate
  <2> QED BY <2>2, TotalInt
<1> QED BY <1>1, <1>2

LEMMA TotalOfZeros ==
  ASSUME NEW n \in Nat, NEW f, \A k \in 1..n : f[k] = 0
  PROVE  Total(f, n) = 0
<1>1. Summable(f, n) /\ \A k \in 1..n : f[k] = f[k] + f[k]
  BY DEF Summable
<1>2. Total(f, n) = Total(f, n) + Total(f, n)
  BY <1>1, TotalAdds
<1> QED BY <1>1, <1>2, TotalInt

LEMMA TotalOfNothing == \A f : Total(f, 0) = 0
<1> TAKE f
<1> QED
  BY TotalOfZeros

(* One more row adds its value.                                              *)
LEMMA TotalOfNext ==
  ASSUME NEW n \in Nat, NEW f, Summable(f, n + 1)
  PROVE  Total(f, n + 1) = Total(f, n) + f[n + 1]
<1>1. Summable(f, n)
  BY DEF Summable
<1>2. PICK p : IsRunning(p, f, n) /\ Total(f, n) = p[n]
  BY <1>1, TotalIsRunning
<1>3. PICK q : IsRunning(q, f, n + 1) /\ Total(f, n + 1) = q[n + 1]
  BY TotalIsRunning
<1> DEFINE Bad == {m \in 0..n : q[m] # p[m]}
<1>4. Bad = {}
  <2>1. SUFFICES ASSUME Bad # {} PROVE FALSE
    OBVIOUS
  <2>2. Bad \in SUBSET Nat
    OBVIOUS
  <2>3. PICK m \in Bad : \A k \in Bad : m <= k
    <3> HIDE DEF Bad
    <3> QED BY <2>1, <2>2, LeastElement
  <2>4. m # 0
    BY <2>3, <1>2, <1>3 DEF IsRunning
  <2>5. m \in 1..n /\ m \in 1..(n+1) /\ m-1 \in 0..n /\ m-1 \notin Bad
    BY <2>3, <2>4
  <2>6. q[m-1] = p[m-1]
    BY <2>5
  <2>7. p[m] = p[m-1] + f[m] /\ q[m] = q[m-1] + f[m]
    BY <2>5, <1>2, <1>3 DEF IsRunning
  <2> QED BY <2>3, <2>6, <2>7
<1>5. q[n] = p[n]
  BY <1>4
<1>6. q[n + 1] = q[(n + 1) - 1] + f[n + 1]
  BY <1>3 DEF IsRunning
<1> QED BY <1>2, <1>3, <1>5, <1>6

(* Larger rows have a larger total.                                          *)
LEMMA TotalMonotone ==
  ASSUME NEW n \in Nat, NEW f, NEW h, Summable(f, n), Summable(h, n),
         \A k \in 1..n : f[k] <= h[k]
  PROVE  Total(f, n) <= Total(h, n)
<1> DEFINE g == [k \in 1..n |-> h[k] - f[k]]
<1>1. \A k \in 1..n : g[k] \in Nat /\ h[k] = f[k] + g[k]
  BY DEF Summable
<1>2. Summable(g, n)
  BY <1>1 DEF Summable
<1> HIDE DEF g
<1>3. Total(h, n) = Total(f, n) + Total(g, n)
  BY <1>1, <1>2, TotalAdds
<1>4. Total(g, n) \in Nat
  BY <1>1, TotalNat
<1> QED BY <1>3, <1>4, TotalInt
==============================================================================
