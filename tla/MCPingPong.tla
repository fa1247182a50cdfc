------------------------------ MODULE MCPingPong ------------------------------
(* Small instances of PingPong for TLC. *)
EXTENDS PingPong
===============================================================================
