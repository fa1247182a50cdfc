------------------------------- MODULE Exchange -------------------------------
(***************************************************************************)
(* What the RPC example promises its callers: the requests of a client are  *)
(* handled once each, in order, and a response is the answer to the request *)
(* the client is waiting on.  A client has one request open at a time.      *)
(***************************************************************************)
EXTENDS Naturals

CONSTANTS Client, Iters

VARIABLES
  asked,      \* asked[c]: requests made by c
  served,     \* served[c]: requests of c the server has handled
  answered    \* answered[c]: responses c has received

vars == <<asked, served, answered>>

Init == /\ asked = [c \in Client |-> 0]
        /\ served = asked
        /\ answered = asked

Ask(c) ==
  /\ asked[c] = answered[c] /\ asked[c] < Iters[c]
  /\ asked' = [asked EXCEPT ![c] = @ + 1]
  /\ UNCHANGED <<served, answered>>

Serve(c) ==
  /\ served[c] < asked[c]
  /\ served' = [served EXCEPT ![c] = @ + 1]
  /\ UNCHANGED <<asked, answered>>

Answer(c) ==
  /\ answered[c] < served[c]
  /\ answered' = [answered EXCEPT ![c] = @ + 1]
  /\ UNCHANGED <<asked, served>>

Next == \E c \in Client : Ask(c) \/ Serve(c) \/ Answer(c)

Spec == Init /\ [][Next]_vars
===============================================================================
