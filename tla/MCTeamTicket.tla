----------------------------- MODULE MCTeamTicket -----------------------------
(* Instances of TeamTicket for TLC.                                           *)
EXTENDS TeamTicket, TLC

CONSTANTS s1, s2, k1, k2, m1, m2, a

TwoSessions == {s1, s2}
TwoKeys == {k1, k2}
TwoMembers == {m1, m2}
OneItem == {a}

(* Sessions, keys and members are interchangeable, and only invariants are   *)
(* checked.                                                                  *)
Interchangeable == Permutations(TwoSessions) \cup Permutations(TwoKeys)
                     \cup Permutations(TwoMembers)

(* A transaction whose page is outdated can only be refused: what it has     *)
(* seen, apart from its key, does not tell two states apart.                 *)
Relevant ==
  <<department, stage, outcome, revision, round, ledger, needs, ticket, recorded,
    [s \in Sessions |-> IF tx[s] # None /\ tx[s].expected # revision
                         THEN [key |-> tx[s].key] ELSE tx[s]]>>
===============================================================================
