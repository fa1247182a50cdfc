----------------------------- MODULE VerbsObjects -----------------------------
(***************************************************************************)
(* What libibverbs demands of its caller, for one table of verbs objects    *)
(* (contexts, protection domains, queues, regions ...).  An object is       *)
(* created from objects that exist, keeps C pointers to them, and may be    *)
(* destroyed only when no object that exists points to it: ibv_destroy_* /  *)
(* ibv_dealloc_* answer EBUSY, or leave dangling pointers, otherwise.       *)
(* The reference-counted Rust wrappers (module Resources) implement this.   *)
(***************************************************************************)
CONSTANT Res        \* identities (addresses) of verbs objects

VARIABLES
  kobj,             \* the objects that exist
  kdep              \* kdep[r]: the objects the C struct of r points to

vars == <<kobj, kdep>>

Init == kobj = {} /\ kdep = [r \in Res |-> {}]

Create(r) ==
  /\ r \notin kobj
  /\ kobj' = kobj \cup {r}
  /\ \E deps \in SUBSET kobj : kdep' = [kdep EXCEPT ![r] = deps]

Destroy(r) ==
  /\ r \in kobj
  /\ \A x \in kobj : r \notin kdep[x]
  /\ kobj' = kobj \ {r}
  /\ kdep' = [kdep EXCEPT ![r] = {}]

Next == \E r \in Res : Create(r) \/ Destroy(r)

Spec == Init /\ [][Next]_vars
===============================================================================
