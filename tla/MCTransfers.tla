----------------------------- MODULE MCTransfers ------------------------------
\* A small instance of Transfers for TLC.
EXTENDS Transfers

\* Addresses and tasks are interchangeable.
Interchangeable == Permutations(Buf) \cup Permutations(Task)
===============================================================================
