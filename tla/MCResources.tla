----------------------------- MODULE MCResources ------------------------------
(* Small instances of Resources for TLC. *)
EXTENDS Resources, TLC

OneHandle == [r \in Res |-> 1]
TwoOfPd == [r \in Res |-> IF r \in Pd THEN 2 ELSE 1]

\* Addresses of one kind are interchangeable.
Interchangeable == Permutations(Ctx) \cup Permutations(Pd)
===============================================================================
