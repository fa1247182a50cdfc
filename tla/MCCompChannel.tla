---------------------------- MODULE MCCompChannel -----------------------------
(* Small instances of CompChannel for TLC. *)
EXTENDS CompChannel
===============================================================================
