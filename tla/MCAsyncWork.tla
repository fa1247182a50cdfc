----------------------------- MODULE MCAsyncWork ------------------------------
(* Small instances of AsyncWork for TLC. *)
EXTENDS AsyncWork, TLC

\* Addresses are interchangeable; used with safety properties only.
Interchangeable == Permutations(Work)
===============================================================================
