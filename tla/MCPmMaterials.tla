----------------------------- MODULE MCPmMaterials ----------------------------
(* Instances of PmMaterials for model checking.                              *)
EXTENDS PmMaterials, TLC

CONSTANTS c1, c2, i1, i2

Stocks == {<<1, 2>>}
Interchangeable == Permutations(Clerks) \cup Permutations(Items)
===============================================================================
