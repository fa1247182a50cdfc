------------------------------ MODULE CompChannel -----------------------------
(***************************************************************************)
(* One completion channel, the completion queues attached to it, the        *)
(* threads that wait for its events, and the drop of a queue's last handle  *)
(* racing with them.                                                        *)
(*                                                                          *)
(* An event carries `cq_context`, the address of the Owner of its queue.    *)
(* wait_cq_event turns it into a handle by upgrading a weak reference it    *)
(* does not own, in a step after the event was taken from the channel.      *)
(* Between the two steps the queue's last handle may be dropped.            *)
(***************************************************************************)
EXTENDS Naturals, FiniteSets

CONSTANTS
  Addr,         \* addresses where the Owner of a queue may be allocated, and reused
  Waiter,       \* threads that loop on wait_cq_event
  None,         \* no address
  M,            \* modulus of the event counters (2^32 in the code)
  MaxHandles,   \* bound: handles to one queue in the hands of the program
  MaxEvents     \* bound: undelivered events of one queue

ASSUME CounterAssumption == M \in Nat \ {0} /\ IsFiniteSet(Waiter) /\ Cardinality(Waiter) < M
ASSUME NoneAssumption == None \notin Addr
ASSUME BoundsAssumption == MaxHandles \in Nat \ {0} /\ MaxEvents \in Nat \ {0}

VARIABLES
  owner,        \* owner[a]: "absent", "live", then the steps of Owner::drop
  user,         \* user[a]: handles of the program
  cqref,        \* the WeakSet of the channel
  armed,        \* armed[a]: ibv_req_notify_cq is in force
  pending,      \* pending[a]: events of a queued in the channel
  reported,     \* reported[a]: events delivered by ibv_get_cq_event, mod M
  completed,    \* completed[a]: Owner::comp_events_completed, mod M
  pc,           \* pc[w]: where the waiting thread is
  tgt,          \* tgt[w]: the cq_context it was given, until it is done with the queue
  panicked      \* assert!(cc.del_cq_ref(self)) failed

vars == <<owner, user, cqref, armed, pending, reported, completed, pc, tgt, panicked>>
queue == <<owner, user, cqref, armed, pending, reported, completed, panicked>>

Phase == {"absent", "live", "del_cq_ref", "destroy_cq", "drain"}
Step  == {"idle", "get_event", "upgrade", "ack", "release", "dead"}

TypeOK ==
  /\ owner \in [Addr -> Phase]
  /\ user \in [Addr -> 0..MaxHandles]
  /\ cqref \in SUBSET Addr
  /\ armed \in [Addr -> BOOLEAN]
  /\ pending \in [Addr -> 0..MaxEvents]
  /\ reported \in [Addr -> 0..(M - 1)]
  /\ completed \in [Addr -> 0..(M - 1)]
  /\ pc \in [Waiter -> Step]
  /\ tgt \in [Waiter -> Addr \cup {None}]
  /\ panicked \in BOOLEAN

Init ==
  /\ owner = [a \in Addr |-> "absent"]
  /\ user = [a \in Addr |-> 0]
  /\ cqref = {}
  /\ armed = [a \in Addr |-> FALSE]
  /\ pending = [a \in Addr |-> 0]
  /\ reported = [a \in Addr |-> 0]
  /\ completed = [a \in Addr |-> 0]
  /\ pc = [w \in Waiter |-> "idle"]
  /\ tgt = [w \in Waiter |-> None]
  /\ panicked = FALSE

\* Waiters that hold a strong reference to the queue at a.
Holders(a) == {w \in Waiter : pc[w] \in {"ack", "release"} /\ tgt[w] = a}

\* Waiters that took an event of a that is not acknowledged yet.
Unacked(a) == {w \in Waiter : pc[w] \in {"upgrade", "ack", "dead"} /\ tgt[w] = a}

-------------------------------------------------------------------------------
(***************************************************************************)
(* The program: CompletionQueue::create with a channel, clones, drops.      *)
(* A definition whose name ends in Mut is a plausible bug in another one;   *)
(* no action uses it.                                                       *)
(***************************************************************************)
Create(a) ==
  /\ owner[a] = "absent"
  /\ a \notin cqref
  /\ owner' = [owner EXCEPT ![a] = "live"]
  /\ user' = [user EXCEPT ![a] = 1]
  /\ cqref' = cqref \cup {a}                 \* add_cq_ref(Arc::downgrade(&owner))
  /\ reported' = [reported EXCEPT ![a] = 0]
  /\ completed' = [completed EXCEPT ![a] = 0]
  /\ UNCHANGED <<armed, pending, pc, tgt, panicked>>

Clone(a) ==
  /\ user[a] \in 1..(MaxHandles - 1)
  /\ user' = [user EXCEPT ![a] = @ + 1]
  /\ UNCHANGED <<owner, cqref, armed, pending, reported, completed, pc, tgt, panicked>>

ReqNotify(a) ==
  /\ user[a] > 0
  /\ ~armed[a]
  /\ armed' = [armed EXCEPT ![a] = TRUE]
  /\ UNCHANGED <<owner, user, cqref, pending, reported, completed, pc, tgt, panicked>>

\* The device completes a work request of an armed queue.
Event(a) ==
  /\ armed[a]
  /\ pending[a] < MaxEvents
  /\ armed' = [armed EXCEPT ![a] = FALSE]
  /\ pending' = [pending EXCEPT ![a] = @ + 1]
  /\ UNCHANGED <<owner, user, cqref, reported, completed, pc, tgt, panicked>>

\* What becomes of the Owner at a when n strong references to it are left.
AfterRelease(a, n) == [owner EXCEPT ![a] = IF n = 0 THEN "del_cq_ref" ELSE @]

DropHandle(a) ==
  /\ user[a] > 0
  /\ user' = [user EXCEPT ![a] = @ - 1]
  /\ owner' = AfterRelease(a, user[a] - 1 + Cardinality(Holders(a)))
  /\ UNCHANGED <<cqref, armed, pending, reported, completed, pc, tgt, panicked>>

-------------------------------------------------------------------------------
(***************************************************************************)
(* Owner::drop of a queue                                                   *)
(***************************************************************************)
DelCqRefMut(a) ==              \* the reference is looked up but not removed
  /\ owner[a] = "del_cq_ref"
  /\ panicked' = (panicked \/ a \notin cqref)
  /\ owner' = [owner EXCEPT ![a] = "destroy_cq"]
  /\ UNCHANGED <<user, cqref, armed, pending, reported, completed, pc, tgt>>

DelCqRef(a) ==
  /\ owner[a] = "del_cq_ref"
  /\ panicked' = (panicked \/ a \notin cqref)
  /\ cqref' = cqref \ {a}
  /\ owner' = [owner EXCEPT ![a] = "destroy_cq"]
  /\ UNCHANGED <<user, armed, pending, reported, completed, pc, tgt>>

DestroyCqMut(a) ==             \* destroyed without waiting for acknowledgements
  /\ owner[a] = "destroy_cq"
  /\ armed' = [armed EXCEPT ![a] = FALSE]
  /\ pending' = [pending EXCEPT ![a] = 0]
  /\ owner' = [owner EXCEPT ![a] = "absent"]
  /\ UNCHANGED <<user, cqref, reported, completed, pc, tgt, panicked>>

\* ibv_ack_cq_events(completed), then ibv_destroy_cq: the kernel forgets the
\* queue and its undelivered events ...
DestroyCq(a) ==
  /\ owner[a] = "destroy_cq"
  /\ armed' = [armed EXCEPT ![a] = FALSE]
  /\ pending' = [pending EXCEPT ![a] = 0]
  /\ owner' = [owner EXCEPT ![a] = "drain"]
  /\ UNCHANGED <<user, cqref, reported, completed, pc, tgt, panicked>>

\* ... and the call returns when every delivered event has been acknowledged.
\* Then the fields are dropped and the allocation is freed.
DestroyReturns(a) ==
  /\ owner[a] = "drain"
  /\ completed[a] = reported[a]
  /\ owner' = [owner EXCEPT ![a] = "absent"]
  /\ UNCHANGED <<user, cqref, armed, pending, reported, completed, pc, tgt, panicked>>

-------------------------------------------------------------------------------
(***************************************************************************)
(* A thread in wait_cq_event, and what it does with the queue it gets.      *)
(***************************************************************************)
BeginWait(w) ==
  /\ pc[w] = "idle"
  /\ pc' = [pc EXCEPT ![w] = "get_event"]
  /\ UNCHANGED <<queue, tgt>>

\* ibv_get_cq_event; it blocks while the channel has no event.
GetCqEvent(w, a) ==
  /\ pc[w] = "get_event"
  /\ pending[a] > 0
  /\ pending' = [pending EXCEPT ![a] = @ - 1]
  /\ reported' = [reported EXCEPT ![a] = (@ + 1) % M]
  /\ tgt' = [tgt EXCEPT ![w] = a]
  /\ pc' = [pc EXCEPT ![w] = "upgrade"]
  /\ UNCHANGED <<owner, user, cqref, armed, completed, panicked>>

\* from_cq_context: Weak::upgrade, which fails once the strong count was zero:
\* "the completion queue has been destroyed".
FromCqContext(w) ==
  /\ pc[w] = "upgrade"
  /\ pc' = [pc EXCEPT ![w] = IF owner[tgt[w]] = "live" THEN "ack" ELSE "dead"]
  /\ UNCHANGED <<queue, tgt>>

AckCqEventsMut(w) ==           \* a saturating counter
  /\ pc[w] = "ack"
  /\ completed' = [completed EXCEPT ![tgt[w]] = IF @ = M - 1 THEN @ ELSE @ + 1]
  /\ pc' = [pc EXCEPT ![w] = "release"]
  /\ UNCHANGED <<owner, user, cqref, armed, pending, reported, tgt, panicked>>

AckCqEventsLostMut(w) ==       \* an update lost by an addition that is not atomic
  /\ pc[w] = "ack"
  /\ completed' \in {completed, [completed EXCEPT ![tgt[w]] = (@ + 1) % M]}
  /\ pc' = [pc EXCEPT ![w] = "release"]
  /\ UNCHANGED <<owner, user, cqref, armed, pending, reported, tgt, panicked>>

AckCqEventsWideMut(w) ==       \* a counter wider than the library's
  /\ pc[w] = "ack"
  /\ completed' = [completed EXCEPT ![tgt[w]] = @ + 1]
  /\ pc' = [pc EXCEPT ![w] = "release"]
  /\ UNCHANGED <<owner, user, cqref, armed, pending, reported, tgt, panicked>>

AckCqEvents(w) ==
  /\ pc[w] = "ack"
  /\ completed' = [completed EXCEPT ![tgt[w]] = (@ + 1) % M]
  /\ pc' = [pc EXCEPT ![w] = "release"]
  /\ UNCHANGED <<owner, user, cqref, armed, pending, reported, tgt, panicked>>

Release(w) ==
  /\ pc[w] = "release"
  /\ owner' = AfterRelease(tgt[w], user[tgt[w]] + Cardinality(Holders(tgt[w]) \ {w}))
  /\ pc' = [pc EXCEPT ![w] = "idle"]
  /\ tgt' = [tgt EXCEPT ![w] = None]
  /\ UNCHANGED <<user, cqref, armed, pending, reported, completed, panicked>>

-------------------------------------------------------------------------------
Program(a) == Create(a) \/ Clone(a) \/ ReqNotify(a) \/ Event(a) \/ DropHandle(a)
OwnerDrop(a) == DelCqRef(a) \/ DestroyCq(a) \/ DestroyReturns(a)
HandleEvent(w) == FromCqContext(w) \/ AckCqEvents(w) \/ Release(w)

Next ==
  \/ \E a \in Addr : Program(a) \/ OwnerDrop(a)
  \/ \E w \in Waiter : BeginWait(w) \/ HandleEvent(w) \/ \E a \in Addr : GetCqEvent(w, a)

\* A thread inside Owner::drop and one that has an event keep running; nothing
\* is assumed of the device, of waiting, and of when the program drops handles.
Spec ==
  /\ Init
  /\ [][Next]_vars
  /\ \A a \in Addr : WF_vars(OwnerDrop(a))
  /\ \A w \in Waiter : WF_vars(HandleEvent(w))

-------------------------------------------------------------------------------
(***************************************************************************)
(* Properties                                                               *)
(***************************************************************************)
\* A thread between ibv_get_cq_event and Weak::upgrade has an address whose
\* memory is allocated: the drop of the queue cannot get past ibv_destroy_cq,
\* and to the reuse of the address, while an event is not acknowledged.
NoUseAfterFree ==
  \A w \in Waiter : pc[w] = "upgrade" => owner[tgt[w]] # "absent"

\* The difference of the two counters is the number of events in flight, across
\* any number of wraps of the 32-bit counters.  The comment in Owner::drop (cq.rs:172)
\* says otherwise, "if the number overflows, the behavior is unspecified": fetch_add
\* wraps, and so does the library's sum, an unsigned int of the same width, so the
\* behaviour is defined, and the drop returns after an overflow as before it.
AckExact ==
  \A a \in Addr : owner[a] # "absent" =>
    reported[a] = (completed[a] + Cardinality(Unacked(a))) % M

\* `assert!(cc.del_cq_ref(self))` holds, and an address given to a new queue is
\* not in the set any more.
DelCqRefFinds == ~panicked /\ \A a \in cqref : owner[a] \in {"live", "del_cq_ref"}

\* The drop of a last handle returns (ibv_destroy_cq does not wait for ever, in
\* spite of counters that wrap), unless a waiter panicked with an event of the
\* queue in its hands.
DropCompletes ==
  \A a \in Addr :
    owner[a] = "del_cq_ref" ~> (owner[a] = "absent" \/ \E w \in Waiter : pc[w] = "dead" /\ tgt[w] = a)

\* The documented panic of from_cq_context is the one of a queue that has been
\* destroyed: the thread that panics does not itself keep it from being so.
PanicMeansDestroyed ==
  \A w \in Waiter, a \in Addr : (pc[w] = "dead" /\ tgt[w] = a) ~> owner[a] = "absent"
===============================================================================
