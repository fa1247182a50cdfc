-------------------------- MODULE CompChannel_proofs --------------------------
(***************************************************************************)
(* Proofs about CompChannel, for any number of queues and waiting threads   *)
(* and for every modulus M of the counters that is larger than the number   *)
(* of threads.                                                              *)
(*                                                                          *)
(* The inductive invariant Sound says what keeps an Owner's memory in       *)
(* place: a strong reference keeps it live, and an event that is not        *)
(* acknowledged keeps ibv_destroy_cq from returning.                        *)
(***************************************************************************)
EXTENDS CompChannel, FiniteSetTheorems, TLAPS

\* A thread has an address exactly while it handles an event.
Targets == \A w \in Waiter : tgt[w] = None <=> pc[w] \in {"idle", "get_event"}

\* A strong reference, of the program or of a thread, is to a live Owner.
RefsLive ==
  /\ \A a \in Addr : user[a] > 0 => owner[a] = "live"
  /\ \A w \in Waiter : pc[w] \in {"ack", "release"} => owner[tgt[w]] = "live"

\* The Owner of an event that is not acknowledged is allocated.
UnackedAllocated ==
  \A w \in Waiter : pc[w] \in {"upgrade", "ack", "dead"} => owner[tgt[w]] # "absent"

\* A destroyed queue has no events left to deliver.
Quiet ==
  \A a \in Addr : owner[a] \in {"absent", "drain"} => ~armed[a] /\ pending[a] = 0

\* The weak set holds the queues whose reference was not removed yet.
CqRefSet == \A a \in Addr : a \in cqref <=> owner[a] \in {"live", "del_cq_ref"}

Sound ==
  /\ TypeOK
  /\ Targets
  /\ RefsLive
  /\ UnackedAllocated
  /\ Quiet
  /\ CqRefSet
  /\ AckExact
  /\ ~panicked

-------------------------------------------------------------------------------
(***************************************************************************)
(* Arithmetic and cardinality                                               *)
(***************************************************************************)

\* The counters' additions stay below 2 * M, where the remainder is one
\* subtraction at most.
LEMMA ModTwice ==
  ASSUME NEW x \in Nat, x < 2 * M
  PROVE  x % M = IF x < M THEN x ELSE x - M
BY CounterAssumption DEF CounterAssumption

\* Counting one acknowledgement moves it from the pending ones to the counter,
\* whether or not the counter wraps.
LEMMA CountOne ==
  ASSUME NEW k \in 0..(M - 1), NEW n \in Nat, n + 1 < M
  PROVE  (((k + 1) % M) + n) % M = (k + (n + 1)) % M
<1>0. M \in Nat /\ M > 0 /\ k \in Nat /\ k < M
  BY CounterAssumption DEF CounterAssumption
<1> DEFINE c == (k + 1) % M
<1>1. c = IF k + 1 < M THEN k + 1 ELSE k + 1 - M BY <1>0, ModTwice
<1>2. (k + (n + 1)) % M = IF k + (n + 1) < M THEN k + (n + 1) ELSE k + (n + 1) - M
  BY <1>0, ModTwice
<1>3. c \in Nat /\ c < M BY <1>0, <1>1
<1> HIDE DEF c
<1> DEFINE x == c + n
<1>4. x \in Nat /\ x < 2 * M BY <1>0, <1>3
<1> HIDE DEF x
<1>5. x % M = IF x < M THEN x ELSE x - M BY <1>4, ModTwice
<1>6. x % M = (k + (n + 1)) % M BY <1>0, <1>1, <1>2, <1>3, <1>5 DEF x
<1> QED BY <1>6 DEF x, c

\* Any set of waiting threads is finite, and smaller than M.
LEMMA Waiters ==
  ASSUME NEW S \in SUBSET Waiter
  PROVE  /\ IsFiniteSet(S)
         /\ Cardinality(S) \in Nat
         /\ Cardinality(S) < M
         /\ Cardinality(S) = 0 <=> S = {}
<1>1. IsFiniteSet(S) /\ Cardinality(S) <= Cardinality(Waiter)
  BY CounterAssumption, FS_Subset DEF CounterAssumption
<1>2. Cardinality(S) \in Nat /\ Cardinality(Waiter) \in Nat
  BY <1>1, CounterAssumption, FS_CardinalityType DEF CounterAssumption
<1>3. Cardinality(S) = 0 <=> S = {}
  BY <1>1, FS_EmptySet
<1> QED BY <1>1, <1>2, <1>3, CounterAssumption DEF CounterAssumption

\* Equal counters mean that no event is in flight, although the counters wrap.
LEMMA EqualCountersQuiet ==
  ASSUME Sound, NEW a \in Addr, owner[a] # "absent", completed[a] = reported[a]
  PROVE  Unacked(a) = {}
<1>1. Unacked(a) \in SUBSET Waiter BY DEF Unacked
<1> DEFINE n == Cardinality(Unacked(a))
<1>2. n \in Nat /\ n < M /\ (n = 0 <=> Unacked(a) = {}) BY <1>1, Waiters
<1>3. completed[a] \in 0..(M - 1) BY DEF Sound, TypeOK
<1>4. completed[a] = (completed[a] + n) % M BY DEF Sound, AckExact
<1> HIDE DEF n
<1>5. (completed[a] + n) % M = IF completed[a] + n < M THEN completed[a] + n ELSE completed[a] + n - M
  BY <1>2, <1>3, ModTwice, CounterAssumption DEF CounterAssumption
<1>6. n = 0 BY <1>2, <1>3, <1>4, <1>5, CounterAssumption DEF CounterAssumption
<1> QED BY <1>2, <1>6

-------------------------------------------------------------------------------
(***************************************************************************)
(* The initial state and one lemma for each action                          *)
(***************************************************************************)
LEMMA InitSound == Init => Sound
<1> SUFFICES ASSUME Init PROVE Sound OBVIOUS
<1> USE DEF Init
<1>1. TypeOK
  <2>1. 0 \in 0..MaxHandles /\ 0 \in 0..MaxEvents /\ 0 \in 0..(M - 1)
    BY CounterAssumption, BoundsAssumption DEF CounterAssumption, BoundsAssumption
  <2> QED BY <2>1 DEF TypeOK, Phase, Step
<1>2. Targets /\ RefsLive /\ UnackedAllocated /\ Quiet /\ CqRefSet /\ AckExact /\ ~panicked
  BY DEF Targets, RefsLive, UnackedAllocated, Quiet, CqRefSet, AckExact
<1> QED BY <1>1, <1>2 DEF Sound

\* The steps that leave the threads and the counters alone keep the counters
\* exact, as long as they give no address to a new Owner.
LEMMA AckExactFrame ==
  ASSUME AckExact, UNCHANGED <<reported, completed, pc, tgt>>,
         \A a \in Addr : owner'[a] # "absent" => owner[a] # "absent"
  PROVE  AckExact'
<1> \A a \in Addr : Unacked(a)' = Unacked(a) BY DEF Unacked
<1> QED BY DEF AckExact

LEMMA CreateSound == ASSUME Sound, NEW a \in Addr, Create(a) PROVE Sound'
<1> USE DEF Sound, Create
<1>1. TypeOK'
  <2>1. 1 \in 0..MaxHandles /\ 0 \in 0..(M - 1)
    BY CounterAssumption, BoundsAssumption DEF CounterAssumption, BoundsAssumption
  <2> QED BY <2>1 DEF TypeOK, Phase
<1>2. Targets' BY DEF Targets
<1>3. RefsLive' BY DEF RefsLive, TypeOK
<1>4. UnackedAllocated' BY DEF UnackedAllocated, TypeOK
<1>5. Quiet' BY DEF Quiet, TypeOK
<1>6. CqRefSet' BY DEF CqRefSet, TypeOK
<1>7. AckExact'
  <2>1. \A b \in Addr : Unacked(b)' = Unacked(b) BY DEF Unacked
  <2>2. Unacked(a) = {} BY DEF Unacked, UnackedAllocated
  <2>3. (0 + Cardinality({})) % M = 0
    BY FS_EmptySet, ModTwice, CounterAssumption DEF CounterAssumption
  <2>4. ASSUME NEW b \in Addr, owner'[b] # "absent"
        PROVE  reported'[b] = (completed'[b] + Cardinality(Unacked(b)')) % M
    <3>1. CASE b = a BY <3>1, <2>1, <2>2, <2>3 DEF TypeOK
    <3>2. CASE b # a
      <4>1. owner[b] # "absent" /\ reported'[b] = reported[b] /\ completed'[b] = completed[b]
        BY <3>2, <2>4 DEF TypeOK
      <4> QED BY <4>1, <2>1 DEF AckExact
    <3> QED BY <3>1, <3>2
  <2> QED BY <2>4 DEF AckExact
<1> QED BY <1>1, <1>2, <1>3, <1>4, <1>5, <1>6, <1>7

LEMMA CloneSound == ASSUME Sound, NEW a \in Addr, Clone(a) PROVE Sound'
<1> USE DEF Sound, Clone
<1>1. TypeOK' BY BoundsAssumption DEF BoundsAssumption, TypeOK
<1>2. RefsLive' BY DEF RefsLive, TypeOK
<1>3. Targets' /\ UnackedAllocated' /\ Quiet' /\ CqRefSet'
  BY DEF Targets, UnackedAllocated, Quiet, CqRefSet
<1>4. AckExact' BY AckExactFrame
<1> QED BY <1>1, <1>2, <1>3, <1>4

LEMMA ReqNotifySound == ASSUME Sound, NEW a \in Addr, ReqNotify(a) PROVE Sound'
<1> USE DEF Sound, ReqNotify
<1>1. TypeOK' BY DEF TypeOK
<1>2. Targets' /\ RefsLive' /\ UnackedAllocated' /\ CqRefSet'
  BY DEF Targets, RefsLive, UnackedAllocated, CqRefSet
<1>3. Quiet' BY DEF Quiet, TypeOK, RefsLive
<1>4. AckExact' BY AckExactFrame
<1> QED BY <1>1, <1>2, <1>3, <1>4

LEMMA EventSound == ASSUME Sound, NEW a \in Addr, Event(a) PROVE Sound'
<1> USE DEF Sound, Event
<1>1. TypeOK'
  <2>1. pending' \in [Addr -> 0..MaxEvents] BY BoundsAssumption DEF BoundsAssumption, TypeOK
  <2>2. armed' \in [Addr -> BOOLEAN] BY DEF TypeOK
  <2> QED BY <2>1, <2>2 DEF TypeOK
<1>2. Targets' /\ RefsLive' /\ UnackedAllocated' /\ CqRefSet'
  BY DEF Targets, RefsLive, UnackedAllocated, CqRefSet
<1>3. Quiet' BY DEF Quiet, TypeOK
<1>4. AckExact' BY AckExactFrame
<1> QED BY <1>1, <1>2, <1>3, <1>4

\* AfterRelease begins Owner::drop exactly when no reference is left.
LEMMA DropHandleSound == ASSUME Sound, NEW a \in Addr, DropHandle(a) PROVE Sound'
<1> USE DEF Sound, DropHandle, AfterRelease
<1>1. TypeOK'
  <2>1. user' \in [Addr -> 0..MaxHandles] BY BoundsAssumption DEF BoundsAssumption, TypeOK
  <2>2. owner' \in [Addr -> Phase] BY DEF TypeOK, Phase
  <2> QED BY <2>1, <2>2 DEF TypeOK
<1>2. owner[a] = "live" BY DEF RefsLive
<1>3. user'[a] > 0 \/ Holders(a) # {} => owner' = owner
  <2>1. Holders(a) \in SUBSET Waiter BY DEF Holders
  <2>2. Cardinality(Holders(a)) \in Nat /\ (Cardinality(Holders(a)) = 0 <=> Holders(a) = {})
    BY <2>1, Waiters
  <2>3. user[a] \in Nat /\ user'[a] = user[a] - 1 BY DEF TypeOK
  <2> QED BY <2>2, <2>3 DEF TypeOK
<1>4. RefsLive'
  <2>1. \A b \in Addr : b # a => owner'[b] = owner[b] /\ user'[b] = user[b] BY DEF TypeOK
  <2>2. ASSUME NEW w \in Waiter, pc[w] \in {"ack", "release"} PROVE owner'[tgt[w]] = "live"
    <3>1. tgt[w] \in Addr /\ owner[tgt[w]] = "live" BY <2>2 DEF Targets, RefsLive, TypeOK
    <3>2. CASE tgt[w] = a
      <4>1. w \in Holders(a) BY <3>2, <2>2 DEF Holders
      <4> QED BY <4>1, <3>1, <1>3
    <3> QED BY <3>1, <3>2, <2>1
  <2>3. ASSUME NEW b \in Addr, user'[b] > 0 PROVE owner'[b] = "live"
    BY <2>1, <2>3, <1>2, <1>3 DEF RefsLive
  <2> QED BY <2>2, <2>3 DEF RefsLive
<1>5. owner'[a] \in {"live", "del_cq_ref"} /\ \A b \in Addr : b # a => owner'[b] = owner[b]
  BY <1>2 DEF TypeOK
<1>6. Targets' /\ UnackedAllocated' /\ Quiet' /\ CqRefSet'
  BY <1>2, <1>5 DEF Targets, UnackedAllocated, Quiet, CqRefSet, TypeOK
<1>7. AckExact' BY <1>2, <1>5, AckExactFrame
<1> QED BY <1>1, <1>4, <1>6, <1>7

LEMMA DelCqRefSound == ASSUME Sound, NEW a \in Addr, DelCqRef(a) PROVE Sound'
<1> USE DEF Sound, DelCqRef
<1>1. ~panicked' BY DEF CqRefSet
<1>2. TypeOK' BY <1>1 DEF TypeOK, Phase
<1>3. Targets' /\ RefsLive' /\ UnackedAllocated' /\ Quiet' /\ CqRefSet'
  BY DEF Targets, RefsLive, UnackedAllocated, Quiet, CqRefSet, TypeOK
<1>4. AckExact'
  <2>1. \A b \in Addr : owner'[b] # "absent" => owner[b] # "absent" BY DEF TypeOK
  <2> QED BY <2>1, AckExactFrame
<1> QED BY <1>1, <1>2, <1>3, <1>4

LEMMA DestroyCqSound == ASSUME Sound, NEW a \in Addr, DestroyCq(a) PROVE Sound'
<1> USE DEF Sound, DestroyCq
<1>1. TypeOK'
  <2>1. 0 \in 0..MaxEvents BY BoundsAssumption DEF BoundsAssumption
  <2>2. armed' \in [Addr -> BOOLEAN] BY DEF TypeOK
  <2> QED BY <2>1, <2>2 DEF TypeOK, Phase
<1>2. Targets' /\ RefsLive' /\ UnackedAllocated' /\ CqRefSet'
  BY DEF Targets, RefsLive, UnackedAllocated, CqRefSet, TypeOK
<1>3. Quiet' BY DEF Quiet, TypeOK
<1>4. AckExact'
  <2>1. \A b \in Addr : owner'[b] # "absent" => owner[b] # "absent" BY DEF TypeOK
  <2> QED BY <2>1, AckExactFrame
<1> QED BY <1>1, <1>2, <1>3, <1>4

\* The step that frees the memory: no thread is between its event and the
\* acknowledgement of it.
LEMMA DestroyReturnsSound == ASSUME Sound, NEW a \in Addr, DestroyReturns(a) PROVE Sound'
<1> USE DEF Sound, DestroyReturns
<1>1. TypeOK' BY DEF TypeOK, Phase
<1>2. Unacked(a) = {} BY EqualCountersQuiet
<1>3. UnackedAllocated' BY <1>2 DEF UnackedAllocated, Unacked, TypeOK
<1>4. Targets' /\ RefsLive' /\ Quiet' /\ CqRefSet'
  BY DEF Targets, RefsLive, Quiet, CqRefSet, TypeOK
<1>5. AckExact'
  <2>1. \A b \in Addr : owner'[b] # "absent" => owner[b] # "absent" BY DEF TypeOK
  <2> QED BY <2>1, AckExactFrame
<1> QED BY <1>1, <1>3, <1>4, <1>5

LEMMA BeginWaitSound == ASSUME Sound, NEW w \in Waiter, BeginWait(w) PROVE Sound'
<1> USE DEF Sound, BeginWait, queue
<1>1. TypeOK' BY DEF TypeOK, Step
<1>2. Targets' /\ RefsLive' /\ UnackedAllocated' /\ Quiet' /\ CqRefSet'
  BY DEF Targets, RefsLive, UnackedAllocated, Quiet, CqRefSet, TypeOK
<1>3. \A a \in Addr : Unacked(a)' = Unacked(a) BY DEF Unacked, TypeOK
<1>4. AckExact' BY <1>3 DEF AckExact
<1> QED BY <1>1, <1>2, <1>4

LEMMA GetCqEventSound ==
  ASSUME Sound, NEW w \in Waiter, NEW a \in Addr, GetCqEvent(w, a)
  PROVE  Sound'
<1> USE DEF Sound, GetCqEvent
<1>1. reported[a] \in 0..(M - 1) /\ completed[a] \in 0..(M - 1) BY DEF TypeOK
<1>2. (reported[a] + 1) % M = IF reported[a] + 1 < M THEN reported[a] + 1 ELSE reported[a] + 1 - M
  BY <1>1, ModTwice, CounterAssumption DEF CounterAssumption
<1>3. TypeOK'
  <2>1. (reported[a] + 1) % M \in 0..(M - 1)
    BY <1>1, <1>2, CounterAssumption DEF CounterAssumption
  <2>2. pending' \in [Addr -> 0..MaxEvents] BY BoundsAssumption DEF BoundsAssumption, TypeOK
  <2> QED BY <2>1, <2>2 DEF TypeOK, Step
<1>4. owner[a] \notin {"absent", "drain"} BY DEF Quiet, TypeOK
<1>5. Targets' BY NoneAssumption DEF NoneAssumption, Targets, TypeOK
<1>6. RefsLive' /\ UnackedAllocated' /\ Quiet' /\ CqRefSet'
  BY <1>4 DEF RefsLive, UnackedAllocated, Quiet, CqRefSet, TypeOK
<1>7. AckExact'
  <2>1. w \notin Unacked(a) /\ Unacked(a)' = Unacked(a) \cup {w} BY DEF Unacked, TypeOK
  <2>2. \A b \in Addr \ {a} : Unacked(b)' = Unacked(b) BY DEF Unacked, TypeOK
  <2> DEFINE n == Cardinality(Unacked(a))
  <2>3. Unacked(a) \in SUBSET Waiter /\ Unacked(a)' \in SUBSET Waiter BY DEF Unacked
  <2>4. n \in Nat /\ Cardinality(Unacked(a)') = n + 1 /\ n + 1 < M
    BY <2>1, <2>3, Waiters, FS_AddElement
  <2>5. reported[a] = (completed[a] + n) % M BY <1>4 DEF AckExact
  <2> HIDE DEF n
  <2>6. (completed[a] + n) % M = IF completed[a] + n < M THEN completed[a] + n ELSE completed[a] + n - M
    BY <1>1, <2>4, ModTwice, CounterAssumption DEF CounterAssumption
  <2>7. (completed[a] + (n + 1)) % M
          = IF completed[a] + n + 1 < M THEN completed[a] + n + 1 ELSE completed[a] + n + 1 - M
    BY <1>1, <2>4, ModTwice, CounterAssumption DEF CounterAssumption
  <2>8. (reported[a] + 1) % M = (completed[a] + (n + 1)) % M
    BY <1>1, <1>2, <2>4, <2>5, <2>6, <2>7, CounterAssumption DEF CounterAssumption
  <2>9. ASSUME NEW b \in Addr, owner'[b] # "absent"
        PROVE  reported'[b] = (completed'[b] + Cardinality(Unacked(b)')) % M
    <3>1. CASE b = a BY <3>1, <2>4, <2>8 DEF TypeOK
    <3>2. CASE b # a BY <3>2, <2>2, <2>9 DEF AckExact, TypeOK
    <3> QED BY <3>1, <3>2
  <2> QED BY <2>9 DEF AckExact
<1> QED BY <1>3, <1>5, <1>6, <1>7

LEMMA FromCqContextSound == ASSUME Sound, NEW w \in Waiter, FromCqContext(w) PROVE Sound'
<1> USE DEF Sound, FromCqContext, queue
<1>1. TypeOK' BY DEF TypeOK, Step
<1>2. Targets' /\ RefsLive' /\ UnackedAllocated' /\ Quiet' /\ CqRefSet'
  BY DEF Targets, RefsLive, UnackedAllocated, Quiet, CqRefSet, TypeOK
<1>3. \A a \in Addr : Unacked(a)' = Unacked(a) BY DEF Unacked, TypeOK
<1>4. AckExact' BY <1>3 DEF AckExact
<1> QED BY <1>1, <1>2, <1>4

LEMMA AckCqEventsSound == ASSUME Sound, NEW w \in Waiter, AckCqEvents(w) PROVE Sound'
<1> USE DEF Sound, AckCqEvents
<1> DEFINE a == tgt[w]
<1>0. a \in Addr /\ owner[a] = "live" BY DEF Targets, RefsLive, TypeOK
<1>1. reported[a] \in 0..(M - 1) /\ completed[a] \in 0..(M - 1) BY <1>0 DEF TypeOK
<1>2. (completed[a] + 1) % M = IF completed[a] + 1 < M THEN completed[a] + 1 ELSE completed[a] + 1 - M
  BY <1>1, ModTwice, CounterAssumption DEF CounterAssumption
<1>3. (completed[a] + 1) % M \in 0..(M - 1)
  BY <1>1, <1>2, CounterAssumption DEF CounterAssumption
<1>4. TypeOK' BY <1>3 DEF TypeOK, Step
<1>5. Targets' /\ RefsLive' /\ UnackedAllocated' /\ Quiet' /\ CqRefSet'
  BY DEF Targets, RefsLive, UnackedAllocated, Quiet, CqRefSet, TypeOK
<1>6. AckExact'
  <2>1. w \in Unacked(a) /\ Unacked(a)' = Unacked(a) \ {w} BY DEF Unacked, TypeOK
  <2>2. \A b \in Addr \ {a} : Unacked(b)' = Unacked(b) BY DEF Unacked, TypeOK
  <2> DEFINE n == Cardinality(Unacked(a)')
  <2>3. Unacked(a) \in SUBSET Waiter /\ Unacked(a)' \in SUBSET Waiter BY DEF Unacked
  <2>4. n \in Nat /\ Cardinality(Unacked(a)) = n + 1 /\ n + 1 < M
    BY <2>1, <2>3, Waiters, FS_RemoveElement
  <2>5. reported[a] = (completed[a] + (n + 1)) % M BY <1>0, <2>4 DEF AckExact
  <2>6. completed'[a] = (completed[a] + 1) % M /\ reported'[a] = reported[a] BY <1>0 DEF TypeOK
  <2>7. \A b \in Addr \ {a} : completed'[b] = completed[b] BY DEF TypeOK
  <2> HIDE DEF n
  <2>8. (((completed[a] + 1) % M) + n) % M = (completed[a] + (n + 1)) % M
    BY <1>1, <2>4, CountOne, CounterAssumption DEF CounterAssumption
  <2>9. ASSUME NEW b \in Addr, owner'[b] # "absent"
         PROVE  reported'[b] = (completed'[b] + Cardinality(Unacked(b)')) % M
    <3>1. CASE b = a BY <3>1, <2>5, <2>6, <2>8 DEF n
    <3>2. CASE b # a BY <3>2, <2>2, <2>7, <2>9 DEF AckExact
    <3> QED BY <3>1, <3>2
  <2> QED BY <2>9 DEF AckExact
<1> QED BY <1>4, <1>5, <1>6

LEMMA ReleaseSound == ASSUME Sound, NEW w \in Waiter, Release(w) PROVE Sound'
<1> USE DEF Sound, Release, AfterRelease
<1> DEFINE a == tgt[w]
<1>1. a \in Addr /\ owner[a] = "live" BY DEF Targets, RefsLive, TypeOK
<1>2. TypeOK' BY DEF TypeOK, Phase, Step
<1>3. user[a] > 0 \/ Holders(a) \ {w} # {} => owner' = owner
  <2>1. Holders(a) \ {w} \in SUBSET Waiter BY DEF Holders
  <2>2. /\ Cardinality(Holders(a) \ {w}) \in Nat
        /\ Cardinality(Holders(a) \ {w}) = 0 <=> Holders(a) \ {w} = {}
    BY <2>1, Waiters
  <2>3. user[a] \in Nat BY <1>1 DEF TypeOK
  <2> QED BY <2>2, <2>3, <1>1 DEF TypeOK
<1>4. owner'[a] \in {"live", "del_cq_ref"} /\ \A b \in Addr : b # a => owner'[b] = owner[b]
  BY <1>1 DEF TypeOK
<1>5. RefsLive'
  <2>1. ASSUME NEW v \in Waiter, pc'[v] \in {"ack", "release"} PROVE owner'[tgt'[v]] = "live"
    <3>1. v # w /\ pc[v] = pc'[v] /\ tgt'[v] = tgt[v] BY <2>1 DEF TypeOK
    <3>2. tgt[v] \in Addr /\ owner[tgt[v]] = "live" BY <3>1, <2>1 DEF Targets, RefsLive, TypeOK
    <3>3. CASE tgt[v] = a
      <4>1. v \in Holders(a) \ {w} BY <3>1, <3>3, <2>1 DEF Holders
      <4> QED BY <4>1, <3>1, <3>2, <1>3
    <3> QED BY <3>1, <3>2, <3>3, <1>4
  <2>2. ASSUME NEW b \in Addr, user'[b] > 0 PROVE owner'[b] = "live"
    BY <2>2, <1>3, <1>4 DEF RefsLive
  <2> QED BY <2>1, <2>2 DEF RefsLive
<1>6. Targets' /\ UnackedAllocated' /\ Quiet' /\ CqRefSet'
  BY <1>1, <1>4 DEF Targets, UnackedAllocated, Quiet, CqRefSet, TypeOK
<1>7. AckExact'
  <2>1. \A b \in Addr : Unacked(b)' = Unacked(b) BY DEF Unacked, TypeOK
  <2>2. \A b \in Addr : owner'[b] # "absent" => owner[b] # "absent" BY <1>1, <1>4
  <2> QED BY <2>1, <2>2 DEF AckExact
<1> QED BY <1>2, <1>5, <1>6, <1>7

-------------------------------------------------------------------------------
LEMMA NextSound == Sound /\ [Next]_vars => Sound'
<1> SUFFICES ASSUME Sound, [Next]_vars PROVE Sound' OBVIOUS
<1>1. ASSUME NEW a \in Addr, Program(a) \/ OwnerDrop(a) PROVE Sound'
  BY <1>1, CreateSound, CloneSound, ReqNotifySound, EventSound, DropHandleSound,
     DelCqRefSound, DestroyCqSound, DestroyReturnsSound DEF Program, OwnerDrop
<1>2. ASSUME NEW w \in Waiter, BeginWait(w) \/ HandleEvent(w) \/ \E a \in Addr : GetCqEvent(w, a)
      PROVE  Sound'
  BY <1>2, BeginWaitSound, GetCqEventSound, FromCqContextSound, AckCqEventsSound, ReleaseSound
     DEF HandleEvent
<1>3. CASE UNCHANGED vars
  BY <1>3 DEF vars, Sound, TypeOK, Targets, RefsLive, UnackedAllocated, Quiet, CqRefSet, AckExact, Unacked
<1> QED BY <1>1, <1>2, <1>3 DEF Next

LEMMA SpecSound == Spec => []Sound
BY InitSound, NextSound, PTL DEF Spec

\* The state of a channel, its queues and its threads is well typed in every
\* reachable state: no counter leaves its width and no handle count its bound.
THEOREM TypeCorrect == Spec => []TypeOK
<1> Sound => TypeOK BY DEF Sound
<1> QED BY SpecSound, PTL

\* wait_cq_event upgrades a weak reference to memory that is still allocated:
\* Owner::drop of a queue does not get past ibv_destroy_cq, and its address is
\* not given to another Owner, while a thread has an unacknowledged event of it.
THEOREM UpgradeIsSafe == Spec => []NoUseAfterFree
<1> Sound => NoUseAfterFree BY DEF Sound, UnackedAllocated, NoUseAfterFree
<1> QED BY SpecSound, PTL

\* ack_cq_events counts exactly: the delivered and the acknowledged events of a
\* queue differ by those in the hands of threads, modulo the counters' width.
THEOREM AcknowledgedExactly == Spec => []AckExact
<1> Sound => AckExact BY DEF Sound
<1> QED BY SpecSound, PTL

\* assert!(cc.del_cq_ref(self)) never fails, and the weak set holds no address
\* that has been freed.
THEOREM DelCqRefSucceeds == Spec => []DelCqRefFinds
<1> Sound => DelCqRefFinds BY DEF Sound, CqRefSet, DelCqRefFinds, TypeOK
<1> QED BY SpecSound, PTL

-------------------------------------------------------------------------------
(***************************************************************************)
(* What the drop of a queue waits for                                       *)
(***************************************************************************)
\* Thread w has panicked in from_cq_context with an event of the queue at a.
DeadOn(w, a) == pc[w] = "dead" /\ tgt[w] = a

\* ibv_destroy_cq waits for the threads that owe an acknowledgement of the queue,
\* and for nothing else: the counters agree exactly when there is none, however
\* often they have wrapped.
THEOREM DestroyWaitsForAcks ==
  Spec => [](\A a \in Addr : owner[a] = "drain" =>
               (completed[a] = reported[a] <=> Unacked(a) = {}))
<1>1. ASSUME Sound, NEW a \in Addr, owner[a] = "drain"
      PROVE  completed[a] = reported[a] <=> Unacked(a) = {}
  <2>1. Unacked(a) \in SUBSET Waiter BY DEF Unacked
  <2>2. completed[a] \in 0..(M - 1) /\ reported[a] = (completed[a] + Cardinality(Unacked(a))) % M
    BY <1>1 DEF Sound, TypeOK, AckExact
  <2>3. completed[a] = reported[a] => Unacked(a) = {} BY <1>1, EqualCountersQuiet
  <2>4. ASSUME Unacked(a) = {} PROVE completed[a] = reported[a]
    <3>1. Cardinality(Unacked(a)) = 0 BY <2>4, FS_EmptySet
    <3>2. completed[a] % M = completed[a]
      BY <2>2, ModTwice, CounterAssumption DEF CounterAssumption
    <3> QED BY <2>2, <3>1, <3>2, CounterAssumption DEF CounterAssumption
  <2> QED BY <2>3, <2>4
<1>2. Sound => \A a \in Addr : owner[a] = "drain" => (completed[a] = reported[a] <=> Unacked(a) = {})
  BY <1>1
<1> QED BY <1>2, SpecSound, PTL

\* While ibv_destroy_cq waits, nobody comes to owe it another acknowledgement: the
\* threads it waits for only get fewer.
THEOREM NoNewDebts ==
  Spec => [][\A a \in Addr : owner[a] = "drain" /\ owner'[a] = "drain"
               => Unacked(a)' \subseteq Unacked(a)]_vars
<1>1. ASSUME Sound, Next, NEW a \in Addr, owner[a] = "drain" PROVE Unacked(a)' \subseteq Unacked(a)
  <2> USE <1>1 DEF Unacked
  <2>1. ASSUME NEW b \in Addr, Program(b) \/ OwnerDrop(b) PROVE UNCHANGED <<pc, tgt>>
    BY <2>1 DEF Program, OwnerDrop, Create, Clone, ReqNotify, Event, DropHandle,
               DelCqRef, DestroyCq, DestroyReturns
  <2>2. ASSUME NEW w \in Waiter, BeginWait(w) \/ HandleEvent(w) PROVE Unacked(a)' \subseteq Unacked(a)
    BY <2>2 DEF BeginWait, HandleEvent, FromCqContext, AckCqEvents, Release, Sound, TypeOK
  <2>3. ASSUME NEW w \in Waiter, NEW b \in Addr, GetCqEvent(w, b)
        PROVE  Unacked(a)' \subseteq Unacked(a)
    <3>1. b # a BY <2>3 DEF GetCqEvent, Sound, Quiet
    <3> QED BY <2>3, <3>1 DEF GetCqEvent, Sound, TypeOK
  <2> QED BY <2>1, <2>2, <2>3 DEF Next
<1>2. Sound /\ [Next]_vars => [\A a \in Addr : owner[a] = "drain" /\ owner'[a] = "drain"
                                 => Unacked(a)' \subseteq Unacked(a)]_vars
  BY <1>1
<1> QED BY <1>2, SpecSound, PTL DEF Spec

\* A thread that panicked with an event of a queue in its hands keeps that queue
\* from ever being destroyed, although the documented reason of the panic is that
\* it has been: this is why PanicMeansDestroyed fails, in every instance.
THEOREM PanicBlocksDrop ==
  ASSUME NEW w \in Waiter, NEW a \in Addr
  PROVE  Spec => [](DeadOn(w, a) => [](owner[a] # "absent"))
<1>1. Sound /\ DeadOn(w, a) => owner[a] # "absent" BY DEF Sound, UnackedAllocated, DeadOn
<1>2. Sound /\ DeadOn(w, a) /\ [Next]_vars => DeadOn(w, a)'
  <2> SUFFICES ASSUME Sound, DeadOn(w, a), [Next]_vars PROVE DeadOn(w, a)' OBVIOUS
  <2> USE DEF DeadOn
  <2>1. ASSUME NEW b \in Addr, Program(b) \/ OwnerDrop(b) PROVE UNCHANGED <<pc, tgt>>
    BY <2>1 DEF Program, OwnerDrop, Create, Clone, ReqNotify, Event, DropHandle,
               DelCqRef, DestroyCq, DestroyReturns
  <2>2. ASSUME NEW v \in Waiter, BeginWait(v) \/ HandleEvent(v) PROVE DeadOn(w, a)'
    BY <2>2 DEF BeginWait, HandleEvent, FromCqContext, AckCqEvents, Release, Sound, TypeOK
  <2>3. ASSUME NEW v \in Waiter, NEW b \in Addr, GetCqEvent(v, b) PROVE DeadOn(w, a)'
    BY <2>3 DEF GetCqEvent, Sound, TypeOK
  <2> QED BY <2>1, <2>2, <2>3 DEF Next, vars
<1> QED BY <1>1, <1>2, SpecSound, PTL DEF Spec
===============================================================================
