------------------------------- MODULE MCPmTask -------------------------------
(* Instances of PmTask for TLC.                                               *)
EXTENDS PmTask

CONSTANTS i1, i2, m1, m2, job, manual

TwoItems == {i1, i2}
LateItem == {i2}
NoItems == {}
OneMember == {m1}
TwoMembers == {m1, m2}
OneRunner == {job}
TwoRunners == {job, manual}
===============================================================================
