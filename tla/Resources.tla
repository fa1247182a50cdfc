------------------------------- MODULE Resources ------------------------------
(***************************************************************************)
(* The reference-counted resource handles of crates/rdma.                   *)
(*                                                                          *)
(* Every resource is an `Arc<Owner>`; an Owner keeps the verbs object and   *)
(* clones of the handles of the resources it was made from.  When the last  *)
(* strong reference goes, Owner::drop destroys the verbs object, then the   *)
(* fields of the Owner are dropped one by one in declaration order, which   *)
(* may start the same for other resources, on whatever thread it happens.   *)
(* An identity is the address of the Owner and is reused after it is freed. *)
(***************************************************************************)
EXTENDS Naturals, FiniteSets

CONSTANTS
  Ctx, Pd, Cc, Cq, Srq, Qp, Mr, Mw, Ah, Dm,  \* addresses of each kind of Owner
  None,                                      \* Option::None / a null pointer
  MaxHandles                                 \* MaxHandles[r]: bound on the handles of r in the program

OfPd == Mr \cup Mw \cup Ah                   \* made from a protection domain alone
Res  == Ctx \cup Pd \cup Cc \cup Cq \cup Srq \cup Qp \cup OfPd \cup Dm

ASSUME NoneAssumption == None \notin Res
ASSUME HandlesAssumption == MaxHandles \in [Res -> Nat \ {0}]
\* An address belongs to one kind: the kinds whose pointers are told apart below.
ASSUME KindsAssumption ==
  /\ Pd \cap (Ctx \cup Cc \cup Cq \cup Srq \cup Qp \cup OfPd \cup Dm) = {}
  /\ Cq \cap (Ctx \cup Cc \cup Srq \cup Qp \cup OfPd \cup Dm) = {}
  /\ Ctx \cap (Cc \cup Srq \cup Qp \cup OfPd \cup Dm) = {}
  /\ Qp \cap (Cc \cup Srq) = {}

VARIABLES
  phase,     \* "absent" -> "live" -> "finalizing" (count is 0) -> "unwinding" (fields drop) -> "absent"
  handles,   \* handles[r]: clones of r in the hands of the program
  field,     \* field[r][f]: the handle that the Owner of r keeps in field f
  raw,       \* raw[b][f]: C pointer stored in the attribute struct of builder b
  own,       \* own[b][f]: handle kept by builder b
  kobj,      \* the verbs objects that exist
  kdep,      \* kdep[r]: the verbs objects the C struct of r points to
  cqref,     \* cqref[c]: the WeakSet of the completion channel c
  panicked   \* an assertion of the library failed

vars == <<phase, handles, field, raw, own, kobj, kdep, cqref, panicked>>
verbs == <<kobj, kdep>>
builders == <<raw, own>>

Field   == {"cc", "ctx", "pd", "send_cq", "recv_cq", "srq"}
Builder == {"cq", "srq", "qp"}
Phase   == {"absent", "live", "finalizing", "unwinding"}
NoFields == [f \in Field |-> None]

\* Fields of every Owner are dropped in this order: it is the declaration order
\* of each of them (cq: cc, _ctx; srq: _ctx, _pd; qp: _pd, send_cq, recv_cq, _srq).
DropRank == [cc |-> 1, ctx |-> 2, pd |-> 3, send_cq |-> 4, recv_cq |-> 5, srq |-> 6]

TypeOK ==
  /\ phase \in [Res -> Phase]
  /\ handles \in [Res -> Nat]
  /\ \A r \in Res : handles[r] <= MaxHandles[r]
  /\ field \in [Res -> [Field -> Res \cup {None}]]
  /\ raw \in [Builder -> [Field -> Res \cup {None}]]
  /\ own \in [Builder -> [Field -> Res \cup {None}]]
  /\ kobj \in SUBSET Res
  /\ kdep \in [Res -> SUBSET Res]
  /\ cqref \in [Cc -> SUBSET Cq]
  /\ panicked \in BOOLEAN

Init ==
  /\ phase = [r \in Res |-> "absent"]
  /\ handles = [r \in Res |-> 0]
  /\ field = [r \in Res |-> NoFields]
  /\ raw = [b \in Builder |-> NoFields]
  /\ own = [b \in Builder |-> NoFields]
  /\ kobj = {}
  /\ kdep = [r \in Res |-> {}]
  /\ cqref = [c \in Cc |-> {}]
  /\ panicked = FALSE

-------------------------------------------------------------------------------
(***************************************************************************)
(* Strong references.  A weak reference in a WeakSet is not one.            *)
(*                                                                          *)
(* A definition whose name ends in Mut is the one after it with a plausible *)
(* bug; no action uses it.  It serves to show that a property can fail.     *)
(***************************************************************************)
HeldMut(hs, fs, os, r) ==      \* the WeakSet keeps Arc instead of Weak
  \/ hs[r] > 0
  \/ \E x \in Res, f \in Field : fs[x][f] = r
  \/ \E b \in Builder, f \in Field : os[b][f] = r
  \/ \E c \in Cc : r \in cqref[c]

Held(hs, fs, os, r) ==
  \/ hs[r] > 0
  \/ \E x \in Res, f \in Field : fs[x][f] = r
  \/ \E b \in Builder, f \in Field : os[b][f] = r

\* The phases after a step that released handles: an Owner whose strong count
\* became zero in that very step begins its drop.
Settled ==
  [r \in Res |-> IF phase[r] = "live" /\ ~Held(handles', field', own', r)
                 THEN "finalizing" ELSE phase[r]]

Usable(r) == handles[r] > 0

\* A new Owner at address r, returned to the program as one handle, around a
\* verbs object whose C struct points to deps.
Born(r, fields, deps) ==
  /\ phase[r] = "absent"
  /\ phase' = [phase EXCEPT ![r] = "live"]
  /\ handles' = [handles EXCEPT ![r] = 1]
  /\ field' = [field EXCEPT ![r] = fields]
  /\ kobj' = kobj \cup {r}
  /\ kdep' = [kdep EXCEPT ![r] = deps]
  /\ UNCHANGED panicked

-------------------------------------------------------------------------------
(***************************************************************************)
(* Creation.  A creation that the library refuses (create_resource returns  *)
(* Err) changes nothing, but drops the builder passed by value: DropOptions.*)
(***************************************************************************)
OpenCtx(c) == Born(c, NoFields, {}) /\ UNCHANGED <<builders, cqref>>

OfCtxMut(r, c) ==              \* the Owner keeps no clone of the context
  /\ Usable(c)
  /\ Born(r, NoFields, {c})
  /\ UNCHANGED <<builders, cqref>>

OfCtx(r, c) ==
  /\ Usable(c)
  /\ Born(r, [NoFields EXCEPT !["ctx"] = c], {c})
  /\ UNCHANGED <<builders, cqref>>

AllocPd(p, c)  == OfCtx(p, c)
CreateCc(k, c) == OfCtx(k, c)
AllocDm(d, c)  == OfCtx(d, c)

MadeOfPdMut(r, p) ==           \* the Owner keeps no clone of the domain
  /\ Usable(p)
  /\ Born(r, NoFields, {p} \cup kdep[p])
  /\ UNCHANGED <<builders, cqref>>

MadeOfPd(r, p) ==
  /\ Usable(p)
  /\ Born(r, [NoFields EXCEPT !["pd"] = p], {p} \cup kdep[p])
  /\ UNCHANGED <<builders, cqref>>

RegisterMr(m, p) == MadeOfPd(m, p)
AllocMw(m, p)    == MadeOfPd(m, p)
CreateAh(a, p)   == MadeOfPd(a, p)

Clear(builder, b) == [builder EXCEPT ![b] = NoFields]

CreateCqMut(q, c) ==           \* the Owner keeps no clone of the context
  LET cc == own["cq"]["cc"] IN
  /\ Usable(c)
  /\ cc # None => kdep[cc] = {c}
  /\ Born(q, [NoFields EXCEPT !["cc"] = cc], {c} \cup ({cc} \ {None}))
  /\ cqref' = [k \in Cc |-> IF k = cc THEN cqref[k] \cup {q} ELSE cqref[k]]
  /\ own' = Clear(own, "cq")
  /\ UNCHANGED raw

\* The kernel refuses a channel opened through another context.
CreateCq(q, c) ==
  LET cc == own["cq"]["cc"] IN
  /\ Usable(c)
  /\ cc # None => kdep[cc] = {c}
  /\ Born(q, [NoFields EXCEPT !["cc"] = cc, !["ctx"] = c], {c} \cup ({cc} \ {None}))
  /\ cqref' = [k \in Cc |-> IF k = cc THEN cqref[k] \cup {q} ELSE cqref[k]]
  /\ own' = Clear(own, "cq")
  /\ UNCHANGED raw

CreateSrqMut(s, c) ==          \* no check of the domain's context
  /\ Usable(c)
  /\ Born(s, [NoFields EXCEPT !["ctx"] = c, !["pd"] = own["srq"]["pd"]],
          {c} \cup UNION {{p} \cup kdep[p] : p \in {raw["srq"]["pd"]} \ {None}})
  /\ own' = Clear(own, "srq")
  /\ raw' = Clear(raw, "srq")
  /\ UNCHANGED cqref

CreateSrq(s, c) ==
  LET pd == own["srq"]["pd"] IN
  /\ Usable(c)
  /\ pd # None => kdep[pd] = {c}               \* assert_eq!: "context mismatch"
  /\ Born(s, [NoFields EXCEPT !["ctx"] = c, !["pd"] = pd],
          {c} \cup UNION {{p} \cup kdep[p] : p \in {raw["srq"]["pd"]} \ {None}})
  /\ own' = Clear(own, "srq")
  /\ raw' = Clear(raw, "srq")
  /\ UNCHANGED cqref

CreateQpMut(q, c) ==           \* the Owner keeps no clone of the shared receive queue
  LET ptr == {raw["qp"][f] : f \in Field} \ {None}
      pd  == raw["qp"]["pd"]
  IN
  /\ Usable(c)
  /\ pd # None
  /\ \A x \in ptr : kdep[pd] \subseteq kdep[x]
  /\ Born(q, [own["qp"] EXCEPT !["srq"] = None], ptr \cup kdep[pd])
  /\ own' = Clear(own, "qp")
  /\ raw' = Clear(raw, "qp")
  /\ UNCHANGED cqref

\* ibv_create_qp_ex makes the queue pair in the context of attr.pd, and refuses
\* queues of another context.  The Owner takes over the handles of the builder.
CreateQp(q, c) ==
  LET ptr == {raw["qp"][f] : f \in Field} \ {None}
      pd  == raw["qp"]["pd"]
  IN
  /\ Usable(c)
  /\ pd # None
  /\ \A x \in ptr : kdep[pd] \subseteq kdep[x]
  /\ Born(q, own["qp"], ptr \cup kdep[pd])
  /\ own' = Clear(own, "qp")
  /\ raw' = Clear(raw, "qp")
  /\ UNCHANGED cqref

-------------------------------------------------------------------------------
(***************************************************************************)
(* The builders.  A setter stores the C pointer and a clone of the handle,  *)
(* replacing (and so dropping) what was there.                              *)
(***************************************************************************)
SetOption(b, newRaw, newOwn) ==
  /\ raw' = [raw EXCEPT ![b] = newRaw]
  /\ own' = [own EXCEPT ![b] = newOwn]
  /\ UNCHANGED <<handles, field, verbs, cqref, panicked>>
  /\ phase' = Settled

CqChannel(c) ==
  /\ Usable(c)
  /\ SetOption("cq", raw["cq"], [own["cq"] EXCEPT !["cc"] = c])

SrqProtectionDomain(p) ==
  /\ Usable(p)
  /\ SetOption("srq", [raw["srq"] EXCEPT !["pd"] = p], [own["srq"] EXCEPT !["pd"] = p])

QpSendCq(q) ==
  /\ Usable(q)
  /\ SetOption("qp", [raw["qp"] EXCEPT !["send_cq"] = q], [own["qp"] EXCEPT !["send_cq"] = q])

QpRecvCqMut(q) ==              \* the pointer to the shared receive queue stays
  /\ Usable(q)
  /\ SetOption("qp", [raw["qp"] EXCEPT !["recv_cq"] = q],
                     [own["qp"] EXCEPT !["recv_cq"] = q, !["srq"] = None])

\* recv_cq and srq exclude each other: each setter takes the other handle out
\* and, if there was one, nulls the other C pointer.
QpRecvCq(q) ==
  LET srq == IF own["qp"]["srq"] # None THEN None ELSE raw["qp"]["srq"] IN
  /\ Usable(q)
  /\ SetOption("qp", [raw["qp"] EXCEPT !["recv_cq"] = q, !["srq"] = srq],
                     [own["qp"] EXCEPT !["recv_cq"] = q, !["srq"] = None])

QpSrq(s) ==
  LET cq == IF own["qp"]["recv_cq"] # None THEN None ELSE raw["qp"]["recv_cq"] IN
  /\ Usable(s)
  /\ SetOption("qp", [raw["qp"] EXCEPT !["srq"] = s, !["recv_cq"] = cq],
                     [own["qp"] EXCEPT !["srq"] = s, !["recv_cq"] = None])

QpPd(p) ==
  /\ Usable(p)
  /\ SetOption("qp", [raw["qp"] EXCEPT !["pd"] = p], [own["qp"] EXCEPT !["pd"] = p])

\* A builder is dropped unused, or by a creation that failed or panicked.
DropOptions(b) ==
  /\ own[b] # NoFields
  /\ SetOption(b, NoFields, NoFields)

-------------------------------------------------------------------------------
(***************************************************************************)
(* Handles                                                                  *)
(***************************************************************************)
AddHandle(r) ==
  /\ handles[r] < MaxHandles[r]
  /\ handles' = [handles EXCEPT ![r] = @ + 1]
  /\ UNCHANGED <<phase, field, builders, verbs, cqref, panicked>>

Clone(r) == Usable(r) /\ AddHandle(r)

\* QueuePair::send_cq() and recv_cq() lend the queue pair's handle, to be cloned.
QpCq(q, f) ==
  /\ Usable(q)
  /\ field[q][f] # None
  /\ AddHandle(field[q][f])

\* CompChannel::wait_cq_event upgrades the weak reference of a queue that
\* raised an event (module CompChannel has the event and the race).
WaitCqEvent(c, q) ==
  /\ Usable(c)
  /\ q \in cqref[c]
  /\ phase[q] = "live"
  /\ AddHandle(q)

DropHandleMut(r) ==            \* a count released twice
  /\ phase[r] # "absent"
  /\ handles' = [handles EXCEPT ![r] = @ - 1]
  /\ UNCHANGED <<field, builders, verbs, cqref, panicked>>
  /\ phase' = Settled

DropHandle(r) ==
  /\ Usable(r)
  /\ handles' = [handles EXCEPT ![r] = @ - 1]
  /\ UNCHANGED <<field, builders, verbs, cqref, panicked>>
  /\ phase' = Settled

-------------------------------------------------------------------------------
(***************************************************************************)
(* Owner::drop, then the fields                                             *)
(***************************************************************************)
InUse(r) == \E x \in kobj : r \in kdep[x]

\* ibv_destroy_* / ibv_dealloc_* and the assertion on its result.
Finalize(r, fails) ==
  /\ phase[r] = "finalizing"
  /\ phase' = [phase EXCEPT ![r] = "unwinding"]
  /\ kobj' = IF fails THEN kobj ELSE kobj \ {r}
  /\ kdep' = IF fails THEN kdep ELSE [kdep EXCEPT ![r] = {}]
  /\ panicked' = (panicked \/ fails)
  /\ UNCHANGED <<handles, field, builders>>

DropCtx(c) == Finalize(c, FALSE) /\ UNCHANGED cqref   \* ibv_close_device does not look
DropPd(p)  == Finalize(p, InUse(p)) /\ UNCHANGED cqref
DropSrq(s) == Finalize(s, InUse(s)) /\ UNCHANGED cqref
DropQp(q)  == Finalize(q, InUse(q)) /\ UNCHANGED cqref
DropMr(m)  == Finalize(m, InUse(m)) /\ UNCHANGED cqref
DropMw(m)  == Finalize(m, InUse(m)) /\ UNCHANGED cqref
DropAh(a)  == Finalize(a, InUse(a)) /\ UNCHANGED cqref
DropDm(d)  == Finalize(d, InUse(d)) /\ UNCHANGED cqref

\* The first field of the Owner of a channel is the WeakSet: it is drained.
DropCc(c) ==
  /\ Finalize(c, InUse(c))
  /\ cqref' = [cqref EXCEPT ![c] = {}]

DropCqMut(q) ==                \* the weak reference stays in the channel's set
  /\ Finalize(q, InUse(q))
  /\ UNCHANGED cqref

\* assert!(cc.del_cq_ref(self)) precedes the destruction.
DropCq(q) ==
  LET cc == field[q]["cc"] IN
  /\ Finalize(q, (cc # None /\ q \notin cqref[cc]) \/ InUse(q))
  /\ cqref' = [k \in Cc |-> IF k = cc THEN cqref[k] \ {q} ELSE cqref[k]]

\* The next field of an Owner whose drop() has returned.
ReleaseField(r) ==
  \E f \in Field :
    /\ phase[r] = "unwinding"
    /\ field[r][f] # None
    /\ \A g \in Field : DropRank[g] < DropRank[f] => field[r][g] = None
    /\ field' = [field EXCEPT ![r][f] = None]
    /\ UNCHANGED <<handles, builders, verbs, cqref, panicked>>
    /\ phase' = Settled

\* The allocation is freed when no weak reference is left.
Deallocate(r) ==
  /\ phase[r] = "unwinding"
  /\ field[r] = NoFields
  /\ \A c \in Cc : r \notin cqref[c]
  /\ phase' = [phase EXCEPT ![r] = "absent"]
  /\ UNCHANGED <<handles, field, builders, verbs, cqref, panicked>>

-------------------------------------------------------------------------------
Create ==
  \/ \E c \in Ctx : OpenCtx(c)
  \/ \E c \in Ctx, p \in Pd : AllocPd(p, c)
  \/ \E c \in Ctx, k \in Cc : CreateCc(k, c)
  \/ \E c \in Ctx, d \in Dm : AllocDm(d, c)
  \/ \E p \in Pd, m \in Mr : RegisterMr(m, p)
  \/ \E p \in Pd, m \in Mw : AllocMw(m, p)
  \/ \E p \in Pd, a \in Ah : CreateAh(a, p)
  \/ \E c \in Ctx, q \in Cq : CreateCq(q, c)
  \/ \E c \in Ctx, s \in Srq : CreateSrq(s, c)
  \/ \E c \in Ctx, q \in Qp : CreateQp(q, c)

Build ==
  \/ \E c \in Cc : CqChannel(c)
  \/ \E p \in Pd : SrqProtectionDomain(p) \/ QpPd(p)
  \/ \E q \in Cq : QpSendCq(q) \/ QpRecvCq(q)
  \/ \E s \in Srq : QpSrq(s)
  \/ \E b \in Builder : DropOptions(b)

Handle ==
  \/ \E r \in Res : Clone(r) \/ DropHandle(r)
  \/ \E q \in Qp, f \in {"send_cq", "recv_cq"} : QpCq(q, f)
  \/ \E c \in Cc, q \in Cq : WaitCqEvent(c, q)

Drop ==
  \/ \E c \in Ctx : DropCtx(c)
  \/ \E p \in Pd : DropPd(p)
  \/ \E c \in Cc : DropCc(c)
  \/ \E q \in Cq : DropCq(q)
  \/ \E s \in Srq : DropSrq(s)
  \/ \E q \in Qp : DropQp(q)
  \/ \E m \in Mr : DropMr(m)
  \/ \E m \in Mw : DropMw(m)
  \/ \E a \in Ah : DropAh(a)
  \/ \E d \in Dm : DropDm(d)
  \/ \E r \in Res : ReleaseField(r) \/ Deallocate(r)

Next == Create \/ Build \/ Handle \/ Drop

Spec == Init /\ [][Next]_vars

-------------------------------------------------------------------------------
(***************************************************************************)
(* Properties                                                               *)
(***************************************************************************)
\* No assertion of the library fails: every ibv_destroy_* returns 0 in
\* Owner::drop, and del_cq_ref always finds the queue in its channel's WeakSet.
NoFailedAssert == ~panicked

\* A pointer in the attribute struct of a builder is to an existing object when
\* the create call hands it to the library, whatever setters ran before.
BuilderBacked ==
  \A b \in Builder, f \in Field : raw[b][f] # None => raw[b][f] \in kobj

\* The C structs reachable from a handle (`(*qp).qp_num`, `(*pd.ffi_ptr()).context`)
\* exist: the object of the handle, and what any existing object points to.
UsableBacked ==
  /\ \A r \in Res : Usable(r) => r \in kobj
  /\ \A x \in kobj : kdep[x] \subseteq kobj

\* A channel's WeakSet holds exactly its existing queues, so that the address
\* given to a new queue is never still in a set, and the set is empty when the
\* channel is dropped.
CqRefExact ==
  \A c \in Cc : cqref[c] = {q \in Cq : q \in kobj /\ field[q]["cc"] = c}

\* All the objects an object was made from belong to one context, although
\* SharedReceiveQueue::create takes the context and the domain separately.
OneContext ==
  \A x \in kobj \ Ctx : Cardinality(kdep[x] \cap Ctx) = 1

\* The guards of Drop: an Owner::drop to run, a field to release, memory to free.
CanDrop(r) ==
  \/ phase[r] = "finalizing"
  \/ /\ phase[r] = "unwinding"
     /\ \E f \in Field : /\ field[r][f] # None
                         /\ \A g \in Field : DropRank[g] < DropRank[f] => field[r][g] = None
  \/ /\ phase[r] = "unwinding" /\ field[r] = NoFields
     /\ \A c \in Cc : r \notin cqref[c]

\* When the program holds no handle and no builder and every thread has finished
\* its drops, every Owner is freed: the Owners form no strong cycle (channel and
\* queue know each other) and no weak reference keeps memory.
Idle == /\ \A r \in Res : handles[r] = 0
        /\ \A b \in Builder : own[b] = NoFields
NoLeak == Idle /\ (\A r \in Res : ~CanDrop(r)) => \A r \in Res : phase[r] = "absent"

\* The wrappers use libibverbs as it demands: module VerbsObjects.
VerbsContract == INSTANCE VerbsObjects WITH Res <- Res, kobj <- kobj, kdep <- kdep
VerbsSpec == VerbsContract!Spec
===============================================================================
