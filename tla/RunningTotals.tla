---------------------------- MODULE RunningTotals ----------------------------
(* The sums of the stock tables.  The code sums quantities in SQL           *)
(* (SELECT COALESCE(SUM(quantity), 0) ...) over the rows of one lot or of    *)
(* one inventory record; rows are numbered 1..n here and Total(f, n) is the  *)
(* sum of f[1], ..., f[n], computed as its sequence of running totals.       *)
EXTENDS Integers

Total(f, n) ==
  LET P[k \in 0..n] == IF k = 0 THEN 0 ELSE P[k-1] + f[k]
  IN  P[n]
==============================================================================
