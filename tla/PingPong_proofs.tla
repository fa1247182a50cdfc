--------------------------- MODULE PingPong_proofs ----------------------------
(***************************************************************************)
(* Proofs about PingPong, for every rx_depth and number of exchanges, both  *)
(* services, and devices with any room.                                     *)
(*                                                                          *)
(* The inductive invariant Balanced has, for each process, that its counters*)
(* agree with its device and that it is armed when it must be (Local), and, *)
(* for the two together, that no more messages are received than were sent  *)
(* and neither wait to be delivered nor have failed (Flow), also once the   *)
(* sender is gone (Outcome).                                                *)
(***************************************************************************)
EXTENDS PingPong, FiniteSetTheorems, FunctionTheorems, TLAPS

Kind == {"recv", "send", "error"}
QpState == {"reset", "init", "rtr", "rts", "err", "gone"}
Types ==
  /\ qp_type \in QpTypes /\ rq_size \in RqSizes
  /\ pc \in [Peer -> Setup \cup Loop \cup {"done", "failed", "broken"}]
  /\ dest \in SUBSET Peer
  /\ qps \in [Peer -> QpState]
  /\ recv_comp \in [Peer -> Nat] /\ send_comp \in [Peer -> Nat]
  /\ recv_req \in [Peer -> Nat] /\ send_req \in [Peer -> Nat]
  /\ rq \in [Peer -> Nat]
  /\ sq \in [Peer -> {"none", "posted", "delivered"}]
  /\ cq \in [Peer -> Seq(Kind)]
  /\ armed \in [Peer -> BOOLEAN]
  /\ events \in [Peer -> Nat]

\* The counters of a process in the loop.
Counted(p) == pc[p] \in Loop =>
  /\ recv_req[p] = rq[p] + Count(cq[p], "recv")
  /\ send_req[p] = (IF sq[p] = "none" THEN 0 ELSE 1) + Count(cq[p], "send") + Count(cq[p], "error")

\* Before the loop and after it the device has nothing of the process.
Quiet(p) == pc[p] \notin Loop => rq[p] = 0 /\ sq[p] = "none" /\ cq[p] = <<>>
Fresh(p) == pc[p] \in Setup =>
  recv_comp[p] = 0 /\ send_comp[p] = 0 /\ recv_req[p] = 0 /\ send_req[p] = 0

Bounded(p) ==
  recv_req[p] <= RxDepth + 1 /\ send_req[p] <= 1 /\ send_comp[p] + send_req[p] <= Iters

\* Between req_notify_all and the event, the queue is armed or the event is there.
Arming(p) ==
  /\ pc[p] \notin Loop \ {"req_notify"} => ~armed[p] /\ events[p] = 0
  /\ pc[p] \in Loop \ {"req_notify"} => (armed[p] /\ events[p] = 0) \/ (~armed[p] /\ events[p] = 1)
  /\ pc[p] = "wait" /\ cq[p] # <<>> => events[p] = 1

Local(p) == Counted(p) /\ Quiet(p) /\ Fresh(p) /\ Bounded(p) /\ Arming(p)

\* Messages p has received; requests of p that were not and will not be delivered
\* so far; requests p has ever posted.
Received(p) == recv_comp[p] + Count(cq[p], "recv")
Undelivered(p) == (IF sq[p] = "posted" THEN 1 ELSE 0) + Count(cq[p], "error")
Sent(p) == send_comp[p] + send_req[p]

Flow(p) == Received(p) + Undelivered(Other(p)) <= Sent(Other(p))

Outcome(p) ==
  /\ pc[p] = "done" => recv_comp[p] >= Iters
  /\ Sound /\ pc[Other(p)] = "failed" => Received(p) < Iters

Balanced == Types /\ \A p \in Peer : Local(p) /\ Flow(p) /\ Outcome(p)

-------------------------------------------------------------------------------
(***************************************************************************)
(* Counting completions                                                     *)
(***************************************************************************)
Places(s, x) == {i \in DOMAIN s : s[i] = x}

LEMMA PlacesFinite ==
  ASSUME NEW s \in Seq(Kind), NEW x
  PROVE  /\ IsFiniteSet(Places(s, x)) /\ Count(s, x) = Cardinality(Places(s, x))
         /\ Count(s, x) \in Nat
<1>1. DOMAIN s = 1..Len(s) /\ Len(s) \in Nat OBVIOUS
<1>2. IsFiniteSet(1..Len(s)) BY <1>1, FS_Interval
<1>3. Places(s, x) \in SUBSET (1..Len(s)) BY <1>1 DEF Places
<1>4. IsFiniteSet(Places(s, x)) BY <1>2, <1>3, FS_Subset
<1>5. Cardinality(Places(s, x)) \in Nat BY <1>4, FS_CardinalityType
<1> QED BY <1>4, <1>5 DEF Count, Places

LEMMA DisjointUnion ==
  ASSUME NEW S, IsFiniteSet(S), NEW T, IsFiniteSet(T), S \cap T = {}
  PROVE  /\ IsFiniteSet(S \cup T)
         /\ Cardinality(S \cup T) = Cardinality(S) + Cardinality(T)
<1>1. Cardinality(S \cap T) = 0 BY FS_EmptySet
<1>2. Cardinality(S) \in Nat /\ Cardinality(T) \in Nat BY FS_CardinalityType
<1>3. /\ IsFiniteSet(S \cup T)
      /\ Cardinality(S \cup T) = Cardinality(S) + Cardinality(T) - Cardinality(S \cap T)
  BY FS_Union
<1> QED BY <1>1, <1>2, <1>3

LEMMA CountEmpty == \A x : Count(<<>>, x) = 0
<1> TAKE x
<1>1. {i \in DOMAIN <<>> : <<>>[i] = x} = {} OBVIOUS
<1> QED BY <1>1, FS_EmptySet DEF Count

LEMMA CountAppend ==
  ASSUME NEW s \in Seq(Kind), NEW e \in Kind, NEW x
  PROVE  Count(Append(s, e), x) = IF e = x THEN Count(s, x) + 1 ELSE Count(s, x)
<1> DEFINE a == Append(s, e)
           n == Len(s)
<1>1. n \in Nat /\ DOMAIN s = 1..n /\ DOMAIN a = 1..(n + 1) /\ a[n + 1] = e
      /\ (\A i \in 1..n : a[i] = s[i]) /\ a \in Seq(Kind)
  OBVIOUS
<1> HIDE DEF a, n
<1>2. n + 1 \notin 1..n /\ 1..(n + 1) = 1..n \cup {n + 1} BY <1>1
<1>3. n + 1 \notin Places(s, x) BY <1>1, <1>2 DEF Places
<1>4. CASE e = x
  <2>1. Places(a, x) = Places(s, x) \cup {n + 1} BY <1>1, <1>2, <1>4 DEF Places
  <2>2. Cardinality(Places(s, x) \cup {n + 1}) = Cardinality(Places(s, x)) + 1
    BY <1>3, PlacesFinite, FS_AddElement
  <2> QED BY <1>1, <1>4, <2>1, <2>2, PlacesFinite DEF a
<1>5. CASE e # x
  <2>1. Places(a, x) = Places(s, x) BY <1>1, <1>2, <1>5 DEF Places
  <2> QED BY <1>1, <1>5, <2>1, PlacesFinite DEF a
<1> QED BY <1>4, <1>5

\* What Batch takes and what it leaves.
LEMMA CountSplit ==
  ASSUME NEW s \in Seq(Kind), NEW n \in 0..Len(s), NEW x
  PROVE  /\ SubSeq(s, 1, n) \in Seq(Kind) /\ SubSeq(s, n + 1, Len(s)) \in Seq(Kind)
         /\ Count(s, x) = Count(SubSeq(s, 1, n), x) + Count(SubSeq(s, n + 1, Len(s)), x)
<1> DEFINE a == SubSeq(s, 1, n)
           z == SubSeq(s, n + 1, Len(s))
           m == Len(s)
<1>0. m \in Nat /\ n \in Nat /\ n <= m /\ DOMAIN s = 1..m OBVIOUS
<1>1. a \in Seq(Kind) /\ DOMAIN a = 1..n /\ \A i \in 1..n : a[i] = s[i] BY <1>0
<1>2. z \in Seq(Kind) /\ DOMAIN z = 1..(m - n) /\ \A i \in 1..(m - n) : z[i] = s[n + i] BY <1>0
<1> DEFINE rest == {i \in (n + 1)..m : s[i] = x}
<1> HIDE DEF a, z, m
<1>3. Places(s, x) = Places(a, x) \cup rest /\ Places(a, x) \cap rest = {}
  <2>1. 1..m = 1..n \cup ((n + 1)..m) /\ 1..n \cap ((n + 1)..m) = {} BY <1>0
  <2> QED BY <1>0, <1>1, <2>1 DEF Places
<1>4. IsFiniteSet(rest) /\ Cardinality(rest) = Cardinality(Places(z, x))
  <2> DEFINE f == [i \in Places(z, x) |-> n + i]
  <2>1. \A i \in Places(z, x) : n + i \in rest BY <1>0, <1>2 DEF Places
  <2>2. \A i \in rest : i - n \in Places(z, x) /\ n + (i - n) = i
    <3> TAKE i \in rest
    <3>1. i - n \in 1..(m - n) /\ n + (i - n) = i /\ s[i] = x BY <1>0
    <3> QED BY <1>2, <3>1 DEF Places
  <2>3. \A i, j \in Places(z, x) : n + i = n + j => i = j BY <1>0, <1>2 DEF Places
  <2>4. f \in [Places(z, x) -> rest] BY <2>1
  <2>5. \A i, j \in Places(z, x) : f[i] = f[j] => i = j BY <2>3
  <2>6. \A i \in rest : \E j \in Places(z, x) : f[j] = i BY <2>2
  <2>7. f \in Bijection(Places(z, x), rest) BY <2>4, <2>5, <2>6, Fun_IsBij
  <2>8. ExistsBijection(Places(z, x), rest) BY <2>7 DEF ExistsBijection
  <2> QED BY <1>2, <2>8, PlacesFinite, FS_Bijection
<1>5. Cardinality(Places(a, x) \cup rest) = Cardinality(Places(a, x)) + Cardinality(rest)
  <2>1. IsFiniteSet(Places(a, x)) BY <1>1, PlacesFinite
  <2> HIDE DEF rest
  <2> QED BY <1>3, <1>4, <2>1, DisjointUnion
<1>6. Count(s, x) = Count(a, x) + Count(z, x)
  <2> HIDE DEF rest
  <2> QED BY <1>1, <1>2, <1>3, <1>4, <1>5, PlacesFinite
<1> QED BY <1>1, <1>2, <1>6 DEF a, z, m

LEMMA CountPresent ==
  ASSUME NEW s \in Seq(Kind), NEW x, x \in ToSet(s)
  PROVE  Count(s, x) >= 1
<1>1. Places(s, x) # {} BY DEF Places, ToSet
<1>2. Cardinality(Places(s, x)) # 0 BY <1>1, PlacesFinite, FS_EmptySet
<1> QED BY <1>2, PlacesFinite

\* Every completion is of one of the three kinds.
LEMMA CountAll ==
  ASSUME NEW s \in Seq(Kind)
  PROVE  Len(s) = Count(s, "recv") + Count(s, "send") + Count(s, "error")
<1> DEFINE R == Places(s, "recv")
           S == Places(s, "send")
           E == Places(s, "error")
<1>1. IsFiniteSet(R) /\ IsFiniteSet(S) /\ IsFiniteSet(E) BY PlacesFinite
<1>2. R \cap S = {} /\ (R \cup S) \cap E = {} BY DEF Places
<1>3. R \cup S \cup E = 1..Len(s) /\ Len(s) \in Nat
  <2>1. DOMAIN s = 1..Len(s) /\ Len(s) \in Nat OBVIOUS
  <2>2. \A i \in DOMAIN s : s[i] \in Kind OBVIOUS
  <2> QED BY <2>1, <2>2 DEF Places, Kind
<1> HIDE DEF R, S, E
<1>4. IsFiniteSet(R \cup S) /\ Cardinality(R \cup S) = Cardinality(R) + Cardinality(S)
  BY <1>1, <1>2, DisjointUnion
<1>5. Cardinality((R \cup S) \cup E) = Cardinality(R \cup S) + Cardinality(E)
  BY <1>1, <1>2, <1>4, DisjointUnion
<1>6. Cardinality(1..Len(s)) = Len(s) BY <1>3, FS_Interval
<1> QED BY <1>3, <1>4, <1>5, <1>6, PlacesFinite DEF R, S, E

-------------------------------------------------------------------------------
(***************************************************************************)
(* What a step has to show                                                  *)
(***************************************************************************)
LEMMA Others ==
  ASSUME NEW p \in Peer
  PROVE  /\ Other(p) \in Peer /\ Other(p) # p /\ Other(Other(p)) = p
         /\ \A q \in Peer : q = p \/ q = Other(p)
<1>1. PICK a \in Peer, b \in Peer : a # b /\ Peer = {a, b} BY PeerAssumption DEF PeerAssumption
<1>2. \A r \in Peer : Other(r) \in Peer /\ Other(r) # r
  <2> TAKE r \in Peer
  <2>1. \E o \in Peer : o # r BY <1>1
  <2> QED BY <2>1 DEF Other
<1> QED BY <1>1, <1>2

\* What is counted is a number.
LEMMA Numbers ==
  ASSUME Types, NEW p \in Peer
  PROVE  Received(p) \in Nat /\ Undelivered(p) \in Nat /\ Sent(p) \in Nat
<1>1. cq[p] \in Seq(Kind) BY DEF Types
<1>2. Count(cq[p], "recv") \in Nat /\ Count(cq[p], "error") \in Nat BY <1>1, PlacesFinite
<1>3. recv_comp[p] \in Nat /\ send_comp[p] \in Nat /\ send_req[p] \in Nat BY DEF Types
<1> QED BY <1>2, <1>3 DEF Received, Undelivered, Sent

LEMMA NumbersNext ==
  ASSUME Types', NEW p \in Peer
  PROVE  Received(p)' \in Nat /\ Undelivered(p)' \in Nat /\ Sent(p)' \in Nat
<1>1. cq'[p] \in Seq(Kind) BY DEF Types
<1>2. Count(cq'[p], "recv") \in Nat /\ Count(cq'[p], "error") \in Nat BY <1>1, PlacesFinite
<1>3. recv_comp'[p] \in Nat /\ send_comp'[p] \in Nat /\ send_req'[p] \in Nat BY DEF Types
<1> QED BY <1>2, <1>3 DEF Received, Undelivered, Sent

\* Nothing of process q changes, but possibly the state of its queue pair.
Same(q) ==
  /\ pc'[q] = pc[q]
  /\ recv_comp'[q] = recv_comp[q] /\ send_comp'[q] = send_comp[q]
  /\ recv_req'[q] = recv_req[q] /\ send_req'[q] = send_req[q]
  /\ rq'[q] = rq[q] /\ sq'[q] = sq[q] /\ cq'[q] = cq[q]
  /\ armed'[q] = armed[q] /\ events'[q] = events[q]

LEMMA SameKept ==
  ASSUME NEW q \in Peer, Same(q), Local(q)
  PROVE  /\ Local(q)'
         /\ Received(q)' = Received(q) /\ Undelivered(q)' = Undelivered(q) /\ Sent(q)' = Sent(q)
<1>1. Counted(q)' BY DEF Same, Local, Counted
<1>2. Quiet(q)' /\ Fresh(q)' BY DEF Same, Local, Quiet, Fresh
<1>3. Bounded(q)' BY DEF Same, Local, Bounded
<1>4. Arming(q)' BY DEF Same, Local, Arming
<1>5. Received(q)' = Received(q) /\ Undelivered(q)' = Undelivered(q) /\ Sent(q)' = Sent(q)
  BY DEF Same, Received, Undelivered, Sent
<1> QED BY <1>1, <1>2, <1>3, <1>4, <1>5 DEF Local

\* A step of p alone: its own part is kept, it has received nothing, and a request
\* it posts is one more that is undelivered.
LEMMA OwnStep ==
  ASSUME Balanced, NEW p \in Peer, UNCHANGED args, Types', Local(p)', Same(Other(p)),
         Received(p)' <= Received(p),
         Sent(p) + Undelivered(p)' <= Sent(p)' + Undelivered(p),
         pc'[p] = "done" => recv_comp'[p] >= Iters,
         Sound /\ pc'[p] = "failed" => Received(Other(p)) < Iters
  PROVE  Balanced'
<1> DEFINE o == Other(p)
<1>0. o \in Peer /\ Other(o) = p /\ \A q \in Peer : q = p \/ q = o BY Others
<1> HIDE DEF o
<1>1. Types /\ Local(o) /\ Flow(p) /\ Flow(o) /\ Outcome(p) /\ Outcome(o) BY <1>0 DEF Balanced
<1>2. Same(o) /\ Local(o)' BY <1>0, <1>1, SameKept DEF o
<1>3. Received(o)' = Received(o) /\ Undelivered(o)' = Undelivered(o) /\ Sent(o)' = Sent(o)
  BY <1>0, <1>1, <1>2, SameKept
<1>4. /\ Received(p) \in Nat /\ Undelivered(p) \in Nat /\ Sent(p) \in Nat
      /\ Received(o) \in Nat /\ Undelivered(o) \in Nat /\ Sent(o) \in Nat
  BY <1>0, <1>1, Numbers
<1>5. Received(p)' \in Nat /\ Undelivered(p)' \in Nat /\ Sent(p)' \in Nat
  BY NumbersNext
<1>6. Flow(p)' BY <1>0, <1>1, <1>3, <1>4, <1>5 DEF Flow, o
<1>7. Flow(o)' BY <1>0, <1>1, <1>3, <1>4, <1>5 DEF Flow
<1>8. Sound' = Sound BY DEF Sound, args
<1>9. Outcome(p)'
  BY <1>0, <1>1, <1>2, <1>4, <1>5, <1>8, ArgsAssumption DEF Outcome, Same, ArgsAssumption, o
<1>10. Outcome(o)'
  BY <1>0, <1>1, <1>2, <1>3, <1>8 DEF Outcome, Same, o
<1> QED BY <1>0, <1>2, <1>6, <1>7, <1>9, <1>10 DEF Balanced

\* A step of p alone that leaves its counters, its requests and its completions.
LEMMA IdleStep ==
  ASSUME Balanced, NEW p \in Peer, UNCHANGED args, Types', Local(p)', Same(Other(p)),
         UNCHANGED <<sq, cq, counters>>, pc'[p] \notin {"done", "failed", "broken"}
  PROVE  Balanced'
<1>1. Received(p)' = Received(p) /\ Undelivered(p)' = Undelivered(p) /\ Sent(p)' = Sent(p)
  BY DEF Received, Undelivered, Sent, counters
<1>2. Received(p) \in Nat /\ Undelivered(p) \in Nat /\ Sent(p) \in Nat BY Numbers DEF Balanced
<1>3. Received(p)' <= Received(p) /\ Sent(p) + Undelivered(p)' <= Sent(p)' + Undelivered(p)
  BY <1>1, <1>2
<1> QED BY <1>3, OwnStep

-------------------------------------------------------------------------------
(***************************************************************************)
(* The steps of a process                                                   *)
(***************************************************************************)
LEMMA InitBalanced == Init => Balanced
<1> SUFFICES ASSUME Init PROVE Balanced OBVIOUS
<1>1. Types
  <2>1. <<>> \in Seq(Kind) OBVIOUS
  <2> QED BY <2>1 DEF Init, Types, QpState, Setup
<1>2. ASSUME NEW p \in Peer PROVE Local(p) /\ Flow(p) /\ Outcome(p)
  <2>0. Other(p) \in Peer /\ Setup \cap Loop = {} BY Others DEF Setup, Loop
  <2>1. Counted(p) /\ Quiet(p) /\ Fresh(p) BY <2>0 DEF Init, Counted, Quiet, Fresh, Setup, Loop
  <2>2. Bounded(p) BY ArgsAssumption DEF Init, Bounded, ArgsAssumption
  <2>3. Arming(p) BY DEF Init, Arming, Loop
  <2>4. Count(<<>>, "recv") = 0 /\ Count(<<>>, "error") = 0 BY CountEmpty
  <2>5. Flow(p) BY <2>0, <2>4 DEF Init, Flow, Received, Undelivered, Sent
  <2>6. Outcome(p) BY <2>0 DEF Init, Outcome
  <2> QED BY <2>1, <2>2, <2>3, <2>5, <2>6 DEF Local
<1> QED BY <1>1, <1>2 DEF Balanced

\* The next statement before the loop, and its first one.
LEMMA AdvanceLocal ==
  ASSUME Balanced, NEW p \in Peer, pc[p] \in Setup, pc'[p] \in Setup \cup {"req_notify"},
         UNCHANGED <<rq, sq, cq, armed, events, counters>>
  PROVE  Local(p)'
<1>1. Quiet(p) /\ Fresh(p) /\ Bounded(p) /\ Arming(p) BY DEF Balanced, Local
<1>2. Setup \cap Loop = {} /\ "wait" # "req_notify" /\ "wait" \notin Setup BY DEF Setup, Loop
<1>3. Count(cq'[p], "recv") = 0 /\ Count(cq'[p], "send") = 0 /\ Count(cq'[p], "error") = 0
  BY <1>1, <1>2, CountEmpty DEF Quiet
<1>4. Counted(p)' BY <1>1, <1>2, <1>3 DEF Counted, Quiet, Fresh, counters
<1>5. Quiet(p)' /\ Fresh(p)' BY <1>1, <1>2 DEF Quiet, Fresh, counters
<1>6. Bounded(p)' BY <1>1 DEF Bounded, counters
<1>7. Arming(p)' BY <1>1, <1>2 DEF Arming
<1> QED BY <1>4, <1>5, <1>6, <1>7 DEF Local

LEMMA AdvanceStep ==
  ASSUME Balanced, NEW p \in Peer, Types', pc[p] \in Setup, NEW s \in Setup \cup {"req_notify"},
         Goto(p, s), UNCHANGED <<args, rq, sq, cq, armed, events, counters>>
  PROVE  Balanced'
<1>1. pc'[p] = s /\ pc'[Other(p)] = pc[Other(p)] BY Others DEF Balanced, Types, Goto
<1>2. Same(Other(p)) BY <1>1 DEF Same, counters
<1>3. Local(p)' BY <1>1, AdvanceLocal
<1>4. s \notin {"done", "failed", "broken"} BY DEF Setup
<1> QED BY <1>1, <1>2, <1>3, <1>4, IdleStep

LEMMA SetupStep ==
  ASSUME Balanced, NEW p \in Peer,
         Initialize(p) \/ SendDest(p) \/ RecvDest(p) \/ ReadyToReceive(p) \/ ReadyToSend(p)
  PROVE  Balanced'
<1>1. ASSUME NEW a \in Setup, NEW s \in Setup \cup {"req_notify"}, NEW q \in {"init", "rtr", "rts"},
             Modify(p, a, s, q)
      PROVE  Balanced'
  <2>1. Types' BY <1>1 DEF Balanced, Types, QpState, Modify, Goto, args, counters, Loop
  <2> QED BY <1>1, <2>1, AdvanceStep DEF Modify
<1>2. CASE Initialize(p) BY <1>1, <1>2 DEF Initialize, Setup
<1>3. CASE ReadyToReceive(p) BY <1>1, <1>3 DEF ReadyToReceive, Setup
<1>4. CASE ReadyToSend(p) BY <1>1, <1>4 DEF ReadyToSend, Setup
<1>5. CASE SendDest(p)
  <2>1. Types' BY <1>5 DEF Balanced, Types, SendDest, Goto, args, device, counters, Setup
  <2> QED BY <1>5, <2>1, AdvanceStep DEF SendDest, device, Setup
<1>6. CASE RecvDest(p)
  <2>1. Types' BY <1>6 DEF Balanced, Types, RecvDest, Goto, args, device, counters, Setup
  <2> QED BY <1>6, <2>1, AdvanceStep DEF RecvDest, device, Setup
<1> QED BY <1>2, <1>3, <1>4, <1>5, <1>6

LEMMA ConnectStep == ASSUME Balanced, Connect PROVE Balanced'
<1>1. Types' BY DEF Balanced, Types, Connect, args, device, counters, Setup
<1>2. UNCHANGED <<args, rq, sq, cq, armed, events, counters>> BY DEF Connect, device
<1>3. \A p \in Peer : pc[p] = "connect" /\ pc'[p] = "send_dest" BY DEF Connect
<1>4. ASSUME NEW p \in Peer PROVE Local(p)' /\ Flow(p)' /\ Outcome(p)'
  <2>1. Local(p)' BY <1>2, <1>3, AdvanceLocal DEF Setup
  <2>2. Flow(p)' BY <1>2 DEF Balanced, Flow, Received, Undelivered, Sent, counters
  <2>3. Outcome(p)' BY <1>3, Others DEF Outcome
  <2> QED BY <2>1, <2>2, <2>3
<1> QED BY <1>1, <1>4 DEF Balanced

\* run() returns: the requests and completions of p are gone.  It reports success
\* after all receives, and a failure only when the other process misses a message,
\* or when a call of its own broke in the loop.
LEMMA ReturnStep ==
  ASSUME Balanced, NEW p \in Peer, NEW s \in {"done", "failed", "broken"}, Return(p, s),
         s = "done" => recv_comp[p] >= Iters,
         Sound /\ s = "failed" => Received(Other(p)) < Iters
  PROVE  Balanced'
<1>0. Types /\ Local(p) /\ s \notin Loop /\ s \notin Setup BY DEF Balanced, Setup, Loop
<1>1. Types'
  <2>1. <<>> \in Seq(Kind) OBVIOUS
  <2> QED BY <1>0, <2>1 DEF Types, QpState, Return, Goto, args, counters
<1>2. /\ pc'[p] = s /\ rq'[p] = 0 /\ sq'[p] = "none" /\ cq'[p] = <<>>
      /\ armed'[p] = FALSE /\ events'[p] = 0 /\ UNCHANGED counters
  BY <1>0 DEF Types, Return, Goto
<1>3. Same(Other(p)) BY <1>0, Others DEF Types, Return, Goto, Same, counters
<1>4. Local(p)'
  <2>1. Counted(p)' /\ Quiet(p)' /\ Fresh(p)' BY <1>0, <1>2 DEF Counted, Quiet, Fresh
  <2>2. Bounded(p)' BY <1>0, <1>2 DEF Local, Bounded, counters
  <2>3. Arming(p)' BY <1>0, <1>2 DEF Arming, Loop
  <2> QED BY <2>1, <2>2, <2>3 DEF Local
<1>5. Received(p)' <= Received(p) /\ Sent(p) + Undelivered(p)' <= Sent(p)' + Undelivered(p)
  <2>1. Count(cq'[p], "recv") = 0 /\ Count(cq'[p], "error") = 0 BY <1>2, CountEmpty
  <2>2. Received(p)' = recv_comp[p] /\ Undelivered(p)' = 0 /\ Sent(p)' = Sent(p)
    BY <1>0, <1>2, <2>1 DEF Types, Received, Undelivered, Sent, counters
  <2>3. Count(cq[p], "recv") \in Nat /\ recv_comp[p] \in Nat BY <1>0, PlacesFinite DEF Types
  <2>4. recv_comp[p] <= Received(p) BY <2>3 DEF Received
  <2>5. Sent(p) \in Nat /\ Undelivered(p) \in Nat BY <1>0, Numbers
  <2> QED BY <2>2, <2>4, <2>5
<1>6. UNCHANGED args /\ recv_comp' = recv_comp BY DEF Return, counters
<1> QED BY <1>1, <1>2, <1>3, <1>4, <1>5, <1>6, OwnStep

\* The requests of a process that were not delivered are missing at the other.
LEMMA Missing ==
  ASSUME Balanced, NEW p \in Peer
  PROVE  Received(Other(p)) + Undelivered(p) <= Sent(p) /\ Sent(p) <= Iters
<1>1. Flow(Other(p)) /\ Other(Other(p)) = p BY Others DEF Balanced
<1>2. Sent(p) <= Iters BY DEF Balanced, Local, Bounded, Sent
<1> QED BY <1>1, <1>2 DEF Flow

LEMMA FailStep ==
  ASSUME Balanced, NEW p \in Peer, SetupFails(p) \/ RecvDestFails(p) \/ PostRecvFails(p) \/ PollError(p)
  PROVE  Balanced'
<1>0. /\ Received(Other(p)) + Undelivered(p) <= Sent(p) /\ Sent(p) <= Iters
      /\ Received(Other(p)) \in Nat /\ Undelivered(p) \in Nat /\ Sent(p) \in Nat
      /\ Iters \in Nat /\ Iters # 0 /\ RxDepth \in Nat
  BY Missing, Numbers, Others, ArgsAssumption DEF Balanced, ArgsAssumption
<1>1. CASE SetupFails(p) \/ RecvDestFails(p)
  <2>1. pc[p] \in Setup BY <1>1 DEF SetupFails, RecvDestFails, Setup
  <2>2. Sent(p) = 0 BY <2>1 DEF Balanced, Local, Fresh, Sent
  <2>3. Received(Other(p)) < Iters BY <1>0, <2>2
  <2> QED BY <1>1, <2>3, ReturnStep DEF SetupFails, RecvDestFails
<1>2. CASE PostRecvFails(p)
  <2>1. recv_req[p] <= 1 /\ recv_req[p] \in Nat /\ recv_req[p] + RxDepth > rq_size
    BY <1>2 DEF PostRecvFails, Balanced, Types
  <2>2. rq_size \in Nat BY RqSizesAssumption DEF RqSizesAssumption, Balanced, Types
  <2>3. ~Sound BY <1>0, <2>1, <2>2 DEF Sound
  <2> QED BY <1>2, <2>3, ReturnStep DEF PostRecvFails
<1>3. CASE PollError(p)
  <2>1. cq[p] \in Seq(Kind) /\ "error" \in ToSet(Batch(cq[p])) BY <1>3 DEF PollError, Balanced, Types
  <2>2. "error" \in ToSet(cq[p]) BY <2>1 DEF Batch, ToSet, WcBuf
  <2>3. Count(cq[p], "error") >= 1 /\ Count(cq[p], "error") \in Nat BY <2>1, <2>2, CountPresent, PlacesFinite
  <2>4. Undelivered(p) >= 1 BY <2>3 DEF Undelivered
  <2>5. Received(Other(p)) < Iters BY <1>0, <2>4
  <2> QED BY <1>3, <2>5, ReturnStep DEF PollError
<1> QED BY <1>1, <1>2, <1>3

LEMMA DoneStep == ASSUME Balanced, NEW p \in Peer, PollDone(p) \/ LoopFails(p) PROVE Balanced'
BY ReturnStep DEF PollDone, LoopFails

\* The statements of the loop that only arm, wait or decide.
LEMMA LoopStep ==
  ASSUME Balanced, NEW p \in Peer, ReqNotifyAll(p) \/ PollEmpty(p) \/ WaitCqEvent(p)
  PROVE  Balanced'
<1>0. Types /\ Local(p) /\ Setup \cap Loop = {} BY DEF Balanced, Setup, Loop
<1>1. PICK s \in {"post_recv", "wait", "req_notify"} : Goto(p, s) /\ UNCHANGED <<args, rq, sq, cq, counters>>
  BY DEF ReqNotifyAll, PollEmpty, WaitCqEvent, device
<1>2. pc'[p] = s /\ s \in Loop /\ s \notin Setup /\ pc[p] \in Loop
  BY <1>0, <1>1 DEF Types, Goto, ReqNotifyAll, PollEmpty, WaitCqEvent, Setup, Loop
<1>3. Types'
  <2>1. armed' \in [Peer -> BOOLEAN] BY <1>0 DEF Types, ReqNotifyAll, PollEmpty, WaitCqEvent, device
  <2>2. events' \in [Peer -> Nat] BY <1>0 DEF Types, ReqNotifyAll, PollEmpty, WaitCqEvent, device
  <2>3. UNCHANGED <<dest, qps>> BY DEF ReqNotifyAll, PollEmpty, WaitCqEvent, device
  <2>4. pc' \in [Peer -> Setup \cup Loop \cup {"done", "failed", "broken"}] BY <1>0, <1>1, <1>2 DEF Types, Goto
  <2> QED BY <1>0, <1>1, <2>1, <2>2, <2>3, <2>4 DEF Types, args, counters
<1>4. Same(Other(p))
  BY <1>0, <1>1, Others DEF Types, Goto, ReqNotifyAll, PollEmpty, WaitCqEvent, Same, counters, device
<1>5. Local(p)'
  <2>1. Counted(p)' BY <1>0, <1>1, <1>2 DEF Local, Counted, counters
  <2>2. Quiet(p)' /\ Fresh(p)' BY <1>2 DEF Quiet, Fresh
  <2>3. Bounded(p)' BY <1>0, <1>1 DEF Local, Bounded, counters
  <2>4. Arming(p)'
    <3>1. CASE ReqNotifyAll(p)
      <4>1. pc[p] = "req_notify" /\ pc'[p] = "post_recv" /\ armed'[p] = TRUE /\ events'[p] = events[p]
        BY <1>0, <3>1 DEF Types, ReqNotifyAll, Goto
      <4> QED BY <1>0, <4>1 DEF Local, Arming, Loop
    <3>2. CASE PollEmpty(p)
      <4>1. /\ pc[p] = "poll" /\ pc'[p] = "wait" /\ armed'[p] = armed[p] /\ events'[p] = events[p]
            /\ cq'[p] = <<>>
        BY <1>0, <3>2 DEF Types, PollEmpty, Goto, device
      <4> QED BY <1>0, <4>1 DEF Local, Arming, Loop
    <3>3. CASE WaitCqEvent(p)
      <4>1. /\ pc[p] = "wait" /\ pc'[p] = "req_notify" /\ armed'[p] = armed[p] /\ events[p] > 0
            /\ events'[p] = events[p] - 1
        BY <1>0, <3>3 DEF Types, WaitCqEvent, Goto
      <4> QED BY <1>0, <4>1 DEF Local, Arming, Loop
    <3> QED BY <3>1, <3>2, <3>3
  <2> QED BY <2>1, <2>2, <2>3, <2>4 DEF Local
<1> QED BY <1>1, <1>2, <1>3, <1>4, <1>5, IdleStep

LEMMA PostRecvStep == ASSUME Balanced, NEW p \in Peer, PostRecv(p) PROVE Balanced'
<1>0. Types /\ Local(p) /\ RxDepth \in Nat BY ArgsAssumption DEF Balanced, ArgsAssumption
<1>1. PICK n \in {0, RxDepth} :
        /\ n = RxDepth => recv_req[p] <= 1 \/ n = 0
        /\ recv_req' = [recv_req EXCEPT ![p] = @ + n]
        /\ rq' = [rq EXCEPT ![p] = @ + n]
  BY DEF PostRecv
<1>2. /\ pc[p] = "post_recv" /\ Goto(p, "post_send")
      /\ UNCHANGED <<args, dest, qps, sq, cq, armed, events, recv_comp, send_comp, send_req>>
  BY DEF PostRecv
<1>3. /\ recv_req'[p] = recv_req[p] + n /\ rq'[p] = rq[p] + n /\ pc'[p] = "post_send"
      /\ recv_req[p] \in Nat /\ rq[p] \in Nat /\ n \in Nat
  BY <1>0, <1>1, <1>2 DEF Types, Goto
<1>4. Types'
  <2>1. recv_req' \in [Peer -> Nat] /\ rq' \in [Peer -> Nat] BY <1>0, <1>1, <1>3 DEF Types
  <2> QED BY <1>0, <1>2, <2>1 DEF Types, Goto, args, Loop
<1>5. Same(Other(p)) BY <1>0, <1>1, <1>2, Others DEF Types, Goto, Same
<1>6. Local(p)'
  <2>0. cq[p] \in Seq(Kind) /\ Count(cq[p], "recv") \in Nat BY <1>0, PlacesFinite DEF Types
  <2>1. Counted(p)' BY <1>0, <1>2, <1>3, <2>0 DEF Local, Counted, Loop
  <2>2. Quiet(p)' /\ Fresh(p)' BY <1>3 DEF Quiet, Fresh, Loop, Setup
  <2>3. Bounded(p)' BY <1>0, <1>1, <1>2, <1>3 DEF Local, Bounded
  <2>4. Arming(p)' BY <1>0, <1>2, <1>3 DEF Local, Arming, Loop
  <2> QED BY <2>1, <2>2, <2>3, <2>4 DEF Local
<1>7. Received(p)' = Received(p) /\ Undelivered(p)' = Undelivered(p) /\ Sent(p)' = Sent(p)
  BY <1>2 DEF Received, Undelivered, Sent
<1>8. Received(p)' <= Received(p) /\ Sent(p) + Undelivered(p)' <= Sent(p)' + Undelivered(p)
  BY <1>0, <1>7, Numbers
<1> QED BY <1>2, <1>3, <1>4, <1>5, <1>6, <1>8, OwnStep

LEMMA PostSendStep == ASSUME Balanced, NEW p \in Peer, PostSend(p) PROVE Balanced'
<1>0. Types /\ Local(p) /\ Iters \in Nat BY ArgsAssumption DEF Balanced, ArgsAssumption
<1>1. /\ pc[p] = "post_send" /\ Goto(p, "poll")
      /\ UNCHANGED <<args, dest, qps, rq, cq, armed, events, recv_comp, send_comp, recv_req>>
  BY DEF PostSend
<1>2. pc'[p] = "poll" /\ send_comp[p] \in Nat /\ send_req[p] \in Nat BY <1>0, <1>1 DEF Types, Goto
<1>3. Types'
  <2>1. send_req' \in [Peer -> Nat] BY <1>0 DEF Types, PostSend
  <2>2. sq' \in [Peer -> {"none", "posted", "delivered"}] BY <1>0 DEF Types, PostSend
  <2> QED BY <1>0, <1>1, <2>1, <2>2 DEF Types, Goto, args, Loop
<1>4. Same(Other(p)) BY <1>0, <1>1, Others DEF Types, Goto, Same, PostSend
<1>5. \/ send_req'[p] = send_req[p] /\ sq'[p] = sq[p]
      \/ send_req[p] = 0 /\ send_comp[p] < Iters /\ send_req'[p] = 1 /\ sq'[p] = "posted"
  BY <1>0, <1>2 DEF Types, PostSend
<1>6. /\ Count(cq[p], "recv") \in Nat /\ Count(cq[p], "send") \in Nat /\ Count(cq[p], "error") \in Nat
  BY <1>0, PlacesFinite DEF Types
<1>7. send_req[p] = (IF sq[p] = "none" THEN 0 ELSE 1) + Count(cq[p], "send") + Count(cq[p], "error")
  BY <1>0, <1>1 DEF Local, Counted, Loop
<1>8. send_req[p] = 0 => sq[p] = "none" /\ Count(cq[p], "send") = 0 /\ Count(cq[p], "error") = 0
  BY <1>6, <1>7
<1>9. Local(p)'
  <2>1. Counted(p)' BY <1>0, <1>1, <1>5, <1>6, <1>7, <1>8 DEF Local, Counted, Loop
  <2>2. Quiet(p)' /\ Fresh(p)' BY <1>2 DEF Quiet, Fresh, Loop, Setup
  <2>3. Bounded(p)' BY <1>0, <1>1, <1>2, <1>5 DEF Local, Bounded
  <2>4. Arming(p)' BY <1>0, <1>1, <1>2 DEF Local, Arming, Loop
  <2> QED BY <2>1, <2>2, <2>3, <2>4 DEF Local
<1>10. Received(p)' <= Received(p) BY <1>0, <1>1, Numbers DEF Received
<1>11. Sent(p) + Undelivered(p)' <= Sent(p)' + Undelivered(p)
  BY <1>1, <1>2, <1>5, <1>6, <1>8 DEF Sent, Undelivered
<1> QED BY <1>1, <1>2, <1>3, <1>4, <1>9, <1>10, <1>11, OwnStep

\* What a poll takes from the queue and what it leaves add up.
LEMMA BatchCount ==
  ASSUME NEW s \in Seq(Kind), NEW x
  PROVE  LET b == Batch(s)
             z == SubSeq(s, Len(b) + 1, Len(s))
         IN  /\ b \in Seq(Kind) /\ z \in Seq(Kind)
             /\ Count(s, x) = Count(b, x) + Count(z, x)
             /\ Count(b, x) \in Nat /\ Count(z, x) \in Nat
<1> DEFINE b == Batch(s)
           z == SubSeq(s, Len(b) + 1, Len(s))
<1>1. PICK n \in 0..Len(s) : b = SubSeq(s, 1, n) /\ Len(b) = n
  <2>1. Len(s) \in Nat OBVIOUS
  <2>2. CASE Len(s) <= WcBuf
    <3>1. SubSeq(s, 1, Len(s)) = s OBVIOUS
    <3>2. b = s BY <2>2 DEF Batch
    <3>3. b = SubSeq(s, 1, Len(s)) /\ Len(b) = Len(s) /\ Len(s) \in 0..Len(s) BY <2>1, <3>1, <3>2
    <3> HIDE DEF b
    <3> QED BY <3>3
  <2>3. CASE ~(Len(s) <= WcBuf)
    <3>1. 2 \in 0..Len(s) /\ Len(SubSeq(s, 1, 2)) = 2 BY <2>1, <2>3 DEF WcBuf
    <3> QED BY <2>3, <3>1 DEF Batch, WcBuf
  <2> QED BY <2>2, <2>3
<1>2. b \in Seq(Kind) /\ z \in Seq(Kind) /\ Count(s, x) = Count(b, x) + Count(z, x)
  BY <1>1, CountSplit
<1>3. Count(b, x) \in Nat /\ Count(z, x) \in Nat BY <1>2, PlacesFinite
<1> QED BY <1>2, <1>3

LEMMA PollWcsStep == ASSUME Balanced, NEW p \in Peer, PollWcs(p) PROVE Balanced'
<1> DEFINE s == cq[p]
           b == Batch(s)
           z == SubSeq(s, Len(b) + 1, Len(s))
<1>0. Types /\ Local(p) /\ Iters \in Nat /\ s \in Seq(Kind)
  BY ArgsAssumption DEF Balanced, Types, ArgsAssumption
<1>1. /\ pc[p] = "poll" /\ "error" \notin ToSet(b)
      /\ cq' = [cq EXCEPT ![p] = z]
      /\ recv_comp' = [recv_comp EXCEPT ![p] = @ + Count(b, "recv")]
      /\ recv_req' = [recv_req EXCEPT ![p] = @ - Count(b, "recv")]
      /\ send_comp' = [send_comp EXCEPT ![p] = @ + Count(b, "send")]
      /\ send_req' = [send_req EXCEPT ![p] = @ - Count(b, "send")]
      /\ Goto(p, "post_recv")
      /\ UNCHANGED <<args, dest, qps, rq, sq, armed, events>>
  BY <1>0 DEF PollWcs, Types
<1>2. \A x : /\ b \in Seq(Kind) /\ z \in Seq(Kind)
             /\ Count(s, x) = Count(b, x) + Count(z, x)
             /\ Count(b, x) \in Nat /\ Count(z, x) \in Nat
  BY <1>0, BatchCount
<1>3. Count(b, "error") = 0
  <2>1. Places(b, "error") = {} BY <1>1 DEF Places, ToSet
  <2> QED BY <1>2, <2>1, PlacesFinite, FS_EmptySet
<1> HIDE DEF b, z
<1>a. /\ Count(s, "recv") = Count(b, "recv") + Count(z, "recv")
      /\ Count(b, "recv") \in Nat /\ Count(z, "recv") \in Nat
  BY <1>2
<1>b. /\ Count(s, "send") = Count(b, "send") + Count(z, "send")
      /\ Count(b, "send") \in Nat /\ Count(z, "send") \in Nat
  BY <1>2
<1>c. Count(s, "error") = Count(z, "error") /\ Count(z, "error") \in Nat
  BY <1>2, <1>3
<1>4. /\ recv_comp[p] \in Nat /\ send_comp[p] \in Nat /\ recv_req[p] \in Nat /\ send_req[p] \in Nat
      /\ rq[p] \in Nat
  BY <1>0 DEF Types
<1>5. /\ recv_req[p] = rq[p] + Count(s, "recv")
      /\ send_req[p] = (IF sq[p] = "none" THEN 0 ELSE 1) + Count(s, "send") + Count(s, "error")
  BY <1>0, <1>1 DEF Local, Counted, Loop
<1>6. /\ pc'[p] = "post_recv" /\ cq'[p] = z
      /\ recv_comp'[p] = recv_comp[p] + Count(b, "recv")
      /\ recv_req'[p] = recv_req[p] - Count(b, "recv")
      /\ send_comp'[p] = send_comp[p] + Count(b, "send")
      /\ send_req'[p] = send_req[p] - Count(b, "send")
      /\ rq'[p] = rq[p] /\ sq'[p] = sq[p] /\ armed'[p] = armed[p] /\ events'[p] = events[p]
  BY <1>0, <1>1 DEF Types, Goto
<1>7. recv_req[p] - Count(b, "recv") \in Nat /\ send_req[p] - Count(b, "send") \in Nat
  BY <1>a, <1>b, <1>c, <1>4, <1>5
<1>8. Types'
  <2>0. recv_comp[p] + Count(b, "recv") \in Nat /\ send_comp[p] + Count(b, "send") \in Nat
    BY <1>a, <1>b, <1>4
  <2>1. recv_comp' \in [Peer -> Nat] /\ send_comp' \in [Peer -> Nat] BY <1>0, <1>1, <2>0 DEF Types
  <2>2. recv_req' \in [Peer -> Nat] /\ send_req' \in [Peer -> Nat] BY <1>0, <1>1, <1>7 DEF Types
  <2>3. cq' \in [Peer -> Seq(Kind)] BY <1>0, <1>1, <1>2 DEF Types
  <2> QED BY <1>0, <1>1, <2>1, <2>2, <2>3 DEF Types, Goto, args, Loop
<1>9. Same(Other(p)) BY <1>0, <1>1, Others DEF Types, Goto, Same
<1>10. Local(p)'
  <2>1. Counted(p)'
    <3>1. recv_req'[p] = rq'[p] + Count(cq'[p], "recv") BY <1>a, <1>4, <1>5, <1>6
    <3>2. send_req'[p] = (IF sq'[p] = "none" THEN 0 ELSE 1) + Count(cq'[p], "send") + Count(cq'[p], "error")
      BY <1>b, <1>c, <1>4, <1>5, <1>6
    <3> QED BY <3>1, <3>2 DEF Counted
  <2>2. Quiet(p)' /\ Fresh(p)' BY <1>6 DEF Quiet, Fresh, Loop, Setup
  <2>3. Bounded(p)'
    <3>1. Bounded(p) /\ RxDepth \in Nat BY <1>0, ArgsAssumption DEF Local, ArgsAssumption
    <3>2. recv_req'[p] <= recv_req[p] /\ recv_req'[p] \in Nat BY <1>a, <1>4, <1>6, <1>7
    <3>3. send_req'[p] <= send_req[p] /\ send_req'[p] \in Nat BY <1>b, <1>4, <1>6, <1>7
    <3>4. send_comp'[p] + send_req'[p] = send_comp[p] + send_req[p] BY <1>b, <1>4, <1>6
    <3> QED BY <1>4, <3>1, <3>2, <3>3, <3>4 DEF Bounded
  <2>4. Arming(p)' BY <1>0, <1>1, <1>6 DEF Local, Arming, Loop
  <2> QED BY <2>1, <2>2, <2>3, <2>4 DEF Local
<1>11. Received(p)' <= Received(p) BY <1>a, <1>4, <1>6 DEF Received
<1>12. Sent(p) + Undelivered(p)' <= Sent(p)' + Undelivered(p)
  BY <1>b, <1>c, <1>4, <1>6 DEF Sent, Undelivered
<1> QED BY <1>1, <1>6, <1>8, <1>9, <1>10, <1>11, <1>12, OwnStep

-------------------------------------------------------------------------------
(***************************************************************************)
(* The steps of the devices                                                 *)
(***************************************************************************)
LEMMA CompleteTypes ==
  ASSUME Types, NEW C \in SUBSET Peer, NEW kind \in [Peer -> Kind], Complete(C, kind),
         rq' \in [Peer -> Nat], sq' \in [Peer -> {"none", "posted", "delivered"}],
         qps' \in [Peer -> QpState]
  PROVE  Types'
<1>1. cq' \in [Peer -> Seq(Kind)]
  <2>1. \A q \in Peer : cq[q] \in Seq(Kind) /\ Append(cq[q], kind[q]) \in Seq(Kind) BY DEF Types
  <2> QED BY <2>1 DEF Complete
<1>2. events' \in [Peer -> Nat]
  <2>1. \A q \in Peer : events[q] \in Nat /\ events[q] + 1 \in Nat BY DEF Types
  <2> QED BY <2>1 DEF Complete
<1>3. armed' \in [Peer -> BOOLEAN] BY DEF Complete
<1> QED BY <1>1, <1>2, <1>3 DEF Types, Complete, args, counters

\* The processes that get no completion keep their queues.
LEMMA NotCompleted ==
  ASSUME Types, NEW C \in SUBSET Peer, NEW kind, Complete(C, kind), NEW q \in Peer, q \notin C
  PROVE  /\ cq'[q] = cq[q] /\ events'[q] = events[q] /\ armed'[q] = armed[q]
         /\ UNCHANGED <<args, pc, counters>>
<1>1. armed'[q] = armed[q] BY DEF Types, Complete
<1>2. cq'[q] = cq[q] /\ events'[q] = events[q] BY DEF Complete
<1> QED BY <1>1, <1>2 DEF Complete

\* A completion of process q in the loop: it is counted once, and wakes q.
LEMMA Completed ==
  ASSUME Types, NEW C \in SUBSET Peer, NEW kind \in [Peer -> Kind], Complete(C, kind),
         NEW q \in C, Local(q), pc[q] \in Loop
  PROVE  /\ \A x : Count(cq'[q], x) = IF kind[q] = x THEN Count(cq[q], x) + 1 ELSE Count(cq[q], x)
         /\ Quiet(q)' /\ Fresh(q)' /\ Bounded(q)' /\ Arming(q)'
         /\ UNCHANGED <<args, pc, counters>>
<1>1. cq'[q] = Append(cq[q], kind[q]) /\ cq[q] \in Seq(Kind) /\ kind[q] \in Kind BY DEF Types, Complete
<1>2. UNCHANGED <<args, pc, counters>> BY DEF Complete
<1>3. Quiet(q)' /\ Fresh(q)' BY <1>2 DEF Quiet, Fresh, Loop, Setup
<1>4. Bounded(q)' BY <1>2 DEF Local, Bounded, counters
<1>5. armed'[q] = FALSE BY DEF Complete
<1>6. events'[q] = IF armed[q] THEN events[q] + 1 ELSE events[q] BY DEF Complete
<1>7. Arming(q)'
  <2>1. CASE pc[q] = "req_notify" BY <1>2, <1>5, <1>6, <2>1 DEF Local, Arming, Loop
  <2>2. CASE pc[q] # "req_notify" BY <1>2, <1>5, <1>6, <2>2 DEF Local, Arming, Loop
  <2> QED BY <2>1, <2>2
<1>8. \A x : Count(cq'[q], x) = IF kind[q] = x THEN Count(cq[q], x) + 1 ELSE Count(cq[q], x)
  BY <1>1, CountAppend
<1> QED BY <1>2, <1>3, <1>4, <1>7, <1>8

\* A receive request of q is completed.
LEMMA Arrived ==
  ASSUME Types, NEW C \in SUBSET Peer, NEW kind \in [Peer -> Kind], Complete(C, kind),
         NEW q \in C, Local(q), kind[q] = "recv", rq[q] > 0, rq'[q] = rq[q] - 1, sq'[q] = sq[q]
  PROVE  /\ Local(q)' /\ Received(q)' = Received(q) + 1
         /\ Undelivered(q)' = Undelivered(q)
<1>0. pc[q] \in Loop BY DEF Types, Local, Quiet
<1>1. /\ Count(cq'[q], "recv") = Count(cq[q], "recv") + 1
      /\ Count(cq'[q], "send") = Count(cq[q], "send") /\ Count(cq'[q], "error") = Count(cq[q], "error")
      /\ Quiet(q)' /\ Fresh(q)' /\ Bounded(q)' /\ Arming(q)' /\ UNCHANGED <<args, pc, counters>>
  BY <1>0, Completed
<1>2. Count(cq[q], "recv") \in Nat /\ rq[q] \in Nat /\ recv_comp[q] \in Nat BY PlacesFinite DEF Types
<1>3. Counted(q)' BY <1>0, <1>1, <1>2 DEF Local, Counted, counters
<1>4. Received(q)' = Received(q) + 1 /\ Undelivered(q)' = Undelivered(q)
  BY <1>1, <1>2 DEF Received, Undelivered, counters
<1> QED BY <1>1, <1>3, <1>4 DEF Local

\* The send request of q is completed, with success or with an error.
LEMMA Finished ==
  ASSUME Types, NEW C \in SUBSET Peer, NEW kind \in [Peer -> Kind], Complete(C, kind),
         NEW q \in C, Local(q), kind[q] # "recv", sq[q] # "none", sq'[q] = "none", rq'[q] = rq[q],
         kind[q] = "error" => sq[q] = "posted"
  PROVE  /\ Local(q)' /\ Received(q)' = Received(q) /\ Undelivered(q)' <= Undelivered(q)
         /\ kind[q] = "send" /\ sq[q] = "posted" => Undelivered(q)' + 1 = Undelivered(q)
<1>0. pc[q] \in Loop BY DEF Types, Local, Quiet
<1>1. /\ Count(cq'[q], "recv") = Count(cq[q], "recv")
      /\ Count(cq'[q], "send") = IF kind[q] = "send" THEN Count(cq[q], "send") + 1 ELSE Count(cq[q], "send")
      /\ Count(cq'[q], "error") = IF kind[q] = "error" THEN Count(cq[q], "error") + 1 ELSE Count(cq[q], "error")
      /\ Quiet(q)' /\ Fresh(q)' /\ Bounded(q)' /\ Arming(q)' /\ UNCHANGED <<args, pc, counters>>
  BY <1>0, Completed
<1>2. /\ Count(cq[q], "send") \in Nat /\ Count(cq[q], "error") \in Nat /\ kind[q] \in {"send", "error"}
      /\ Count(cq[q], "recv") \in Nat
  BY PlacesFinite DEF Types, Kind
<1>3. Counted(q)'
  <2>1. recv_req'[q] = rq'[q] + Count(cq'[q], "recv") BY <1>0, <1>1 DEF Local, Counted, counters
  <2>2. send_req[q] = 1 + Count(cq[q], "send") + Count(cq[q], "error") BY <1>0 DEF Local, Counted
  <2>3. send_req'[q] = Count(cq'[q], "send") + Count(cq'[q], "error") BY <1>1, <1>2, <2>2 DEF counters
  <2>4. Count(cq'[q], "send") \in Nat /\ Count(cq'[q], "error") \in Nat BY <1>1, <1>2
  <2> QED BY <2>1, <2>3, <2>4 DEF Counted
<1>4. Received(q)' = Received(q) BY <1>1 DEF Received, counters
<1>5. /\ Undelivered(q)' <= Undelivered(q)
      /\ kind[q] = "send" /\ sq[q] = "posted" => Undelivered(q)' + 1 = Undelivered(q)
  BY <1>1, <1>2 DEF Undelivered
<1> QED BY <1>1, <1>3, <1>4, <1>5 DEF Local

\* A step of the devices that takes a message from p to the other process, or ends
\* the request of p.
LEMMA DeviceStep ==
  ASSUME Balanced, NEW p \in Peer, Types', Local(p)', Local(Other(p))',
         UNCHANGED <<args, pc, counters>>, pc[p] \in Loop,
         Received(p)' = Received(p), Undelivered(Other(p))' = Undelivered(Other(p)),
         Received(Other(p))' + Undelivered(p)' <= Received(Other(p)) + Undelivered(p)
  PROVE  Balanced'
<1> DEFINE o == Other(p)
<1>0. o \in Peer /\ Other(o) = p /\ \A q \in Peer : q = p \/ q = o BY Others
<1>1. Types /\ Flow(p) /\ Flow(o) /\ Outcome(p) /\ Outcome(o) BY <1>0 DEF Balanced
<1>2. Sent(p)' = Sent(p) /\ Sent(o)' = Sent(o) /\ Sound' = Sound BY DEF Sent, Sound, args, counters
<1>3. Flow(p)' BY <1>1, <1>2 DEF Flow
<1> HIDE DEF o
<1>4. Flow(o)'
  <2>1. /\ Received(o) \in Nat /\ Undelivered(p) \in Nat /\ Sent(p) \in Nat
        /\ Received(o)' \in Nat /\ Undelivered(p)' \in Nat
    BY <1>0, <1>1, Numbers, NumbersNext
  <2> QED BY <1>0, <1>1, <1>2, <2>1 DEF Flow, o
<1>5. Outcome(p)' BY <1>0, <1>1, <1>2 DEF Outcome, counters, o
<1>6. Outcome(o)' BY <1>0, <1>1 DEF Outcome, counters, Loop
<1> QED BY <1>0, <1>3, <1>4, <1>5, <1>6 DEF Balanced, o

LEMMA DeliverStep == ASSUME Balanced, NEW p \in Peer, Deliver(p) PROVE Balanced'
<1> DEFINE o == Other(p)
           kind == [x \in Peer |-> "recv"]
<1>0. Types /\ Local(p) /\ Local(o) /\ o \in Peer /\ o # p BY Others DEF Balanced
<1>1. /\ sq[p] = "posted" /\ rq[o] > 0 /\ sq' = [sq EXCEPT ![p] = "delivered"]
      /\ rq' = [rq EXCEPT ![o] = @ - 1] /\ Complete({o}, kind) /\ UNCHANGED qps
  BY DEF Deliver
<1>2. kind \in [Peer -> Kind] /\ kind[o] = "recv" /\ {o} \in SUBSET Peer /\ o \in {o} /\ p \notin {o}
  BY <1>0 DEF Kind
<1> HIDE DEF o, kind
<1>3. /\ sq'[p] = "delivered" /\ sq'[o] = sq[o] /\ rq'[p] = rq[p] /\ rq'[o] = rq[o] - 1 /\ rq[o] \in Nat
  BY <1>0, <1>1 DEF Types
<1>4. Types'
  <2>1. rq' \in [Peer -> Nat] BY <1>0, <1>1, <1>3 DEF Types
  <2>2. sq' \in [Peer -> {"none", "posted", "delivered"}] BY <1>0, <1>1 DEF Types
  <2>3. qps' \in [Peer -> QpState] BY <1>0, <1>1 DEF Types
  <2> QED BY <1>0, <1>1, <1>2, <2>1, <2>2, <2>3, CompleteTypes
<1>5. /\ Local(o)' /\ Received(o)' = Received(o) + 1 /\ Undelivered(o)' = Undelivered(o)
  BY <1>0, <1>1, <1>2, <1>3, Arrived
<1>6. /\ cq'[p] = cq[p] /\ events'[p] = events[p] /\ armed'[p] = armed[p]
      /\ UNCHANGED <<args, pc, counters>>
  BY <1>0, <1>1, <1>2, NotCompleted
<1>7. pc[p] \in Loop BY <1>0, <1>1 DEF Local, Quiet
<1>8. Local(p)'
  <2>1. Counted(p)' BY <1>0, <1>1, <1>3, <1>6 DEF Local, Counted, counters
  <2>2. Quiet(p)' /\ Fresh(p)' BY <1>6, <1>7 DEF Quiet, Fresh, Setup, Loop
  <2>3. Bounded(p)' BY <1>0, <1>6 DEF Local, Bounded, counters
  <2>4. Arming(p)' BY <1>0, <1>6 DEF Local, Arming
  <2> QED BY <2>1, <2>2, <2>3, <2>4 DEF Local
<1>9. Received(p)' = Received(p) BY <1>6 DEF Received, counters
<1>10. Received(o)' + Undelivered(p)' <= Received(o) + Undelivered(p)
  <2>1. Count(cq[p], "error") \in Nat /\ Received(o) \in Nat BY <1>0, Numbers, PlacesFinite DEF Types
  <2> QED BY <1>1, <1>3, <1>5, <1>6, <2>1 DEF Undelivered
<1> QED BY <1>4, <1>5, <1>6, <1>7, <1>8, <1>9, <1>10, DeviceStep DEF o

\* The request of p ends, and nothing arrives at the other process.
LEMMA EndStep ==
  ASSUME Balanced, NEW p \in Peer, NEW kind \in [Peer -> Kind], Complete({p}, kind),
         kind[p] # "recv", sq[p] # "none", kind[p] = "error" => sq[p] = "posted",
         sq' = [sq EXCEPT ![p] = "none"], UNCHANGED rq, qps' \in [Peer -> QpState]
  PROVE  Balanced'
<1> DEFINE o == Other(p)
<1>0. Types /\ Local(p) /\ Local(o) /\ o \in Peer /\ o # p /\ {p} \in SUBSET Peer /\ o \notin {p}
  BY Others DEF Balanced
<1> HIDE DEF o
<1>1. sq'[p] = "none" /\ sq'[o] = sq[o] /\ rq'[p] = rq[p] /\ rq'[o] = rq[o] BY <1>0 DEF Types
<1>2. Types'
  <2>1. sq' \in [Peer -> {"none", "posted", "delivered"}] BY <1>0 DEF Types
  <2>2. rq' \in [Peer -> Nat] BY <1>0 DEF Types
  <2> QED BY <1>0, <2>1, <2>2, CompleteTypes
<1>3. Local(p)' /\ Received(p)' = Received(p) /\ Undelivered(p)' <= Undelivered(p)
  BY <1>0, <1>1, Finished
<1>4. /\ cq'[o] = cq[o] /\ events'[o] = events[o] /\ armed'[o] = armed[o]
      /\ UNCHANGED <<args, pc, counters>>
  BY <1>0, NotCompleted
<1>5. Same(o) BY <1>1, <1>4 DEF Same, counters
<1>6. Local(o)' /\ Received(o)' = Received(o) /\ Undelivered(o)' = Undelivered(o)
  BY <1>0, <1>5, SameKept
<1>7. pc[p] \in Loop BY <1>0 DEF Local, Quiet
<1>8. Received(o)' + Undelivered(p)' <= Received(o) + Undelivered(p)
  BY <1>0, <1>2, <1>3, <1>6, Numbers, NumbersNext
<1> QED BY <1>2, <1>3, <1>4, <1>6, <1>7, <1>8, DeviceStep DEF o

LEMMA DatagramStep == ASSUME Balanced, NEW p \in Peer, Datagram(p) PROVE Balanced'
<1> DEFINE o == Other(p)
           kind == [x \in Peer |-> IF x = p THEN "send" ELSE "recv"]
           arrives == Receiving(o) /\ rq[o] > 0
<1>0. Types /\ Local(p) /\ Local(o) /\ o \in Peer /\ o # p BY Others DEF Balanced
<1>1. /\ sq[p] = "posted" /\ sq' = [sq EXCEPT ![p] = "none"]
      /\ rq' = [rq EXCEPT ![o] = IF arrives THEN @ - 1 ELSE @]
      /\ Complete({p} \cup (IF arrives THEN {o} ELSE {}), kind) /\ UNCHANGED qps
  BY DEF Datagram
<1>2. kind \in [Peer -> Kind] /\ kind[o] = "recv" /\ kind[p] = "send" BY <1>0 DEF Kind
<1>q. qps' \in [Peer -> QpState] BY <1>0, <1>1 DEF Types
<1> HIDE DEF o, kind
<1>3. CASE ~arrives
  <2>1. Complete({p}, kind)
    <3>1. {p} \cup (IF arrives THEN {o} ELSE {}) = {p} BY <1>3
    <3> QED BY <1>1, <3>1
  <2>2. UNCHANGED rq BY <1>0, <1>1, <1>3 DEF Types
  <2> QED BY <1>q, <1>1, <1>2, <2>1, <2>2, EndStep
<1>4. CASE arrives
  <2> DEFINE C == {p, o}
  <2>1. Complete(C, kind)
    <3>1. {p} \cup (IF arrives THEN {o} ELSE {}) = C BY <1>4
    <3> HIDE DEF C
    <3> QED BY <1>1, <3>1
  <2>2. C \in SUBSET Peer /\ p \in C /\ o \in C BY <1>0
  <2> HIDE DEF C
  <2>3. rq' = [rq EXCEPT ![o] = @ - 1] /\ rq[o] > 0 BY <1>1, <1>4
  <2>4. /\ sq'[p] = "none" /\ sq'[o] = sq[o] /\ rq'[p] = rq[p] /\ rq'[o] = rq[o] - 1 /\ rq[o] \in Nat
    BY <1>0, <1>1, <2>3 DEF Types
  <2>5. Types'
    <3>1. rq' \in [Peer -> Nat] BY <1>0, <2>3, <2>4 DEF Types
    <3>2. sq' \in [Peer -> {"none", "posted", "delivered"}] BY <1>0, <1>1 DEF Types
    <3> QED BY <1>q, <1>0, <1>2, <2>1, <2>2, <3>1, <3>2, CompleteTypes
  <2>6. Local(o)' /\ Received(o)' = Received(o) + 1 /\ Undelivered(o)' = Undelivered(o)
    BY <1>0, <1>2, <2>1, <2>2, <2>3, <2>4, Arrived
  <2>7. Local(p)' /\ Received(p)' = Received(p) /\ Undelivered(p)' + 1 = Undelivered(p)
    BY <1>0, <1>1, <1>2, <2>1, <2>2, <2>4, Finished
  <2>8. pc[p] \in Loop BY <1>0, <1>1 DEF Local, Quiet
  <2>9. UNCHANGED <<args, pc, counters>> BY <2>1 DEF Complete
  <2>10. Received(o)' + Undelivered(p)' <= Received(o) + Undelivered(p)
    BY <1>0, <2>5, <2>6, <2>7, Numbers, NumbersNext
  <2> QED BY <2>5, <2>6, <2>7, <2>8, <2>9, <2>10, DeviceStep DEF o
<1> QED BY <1>3, <1>4

LEMMA NetworkStep == ASSUME Balanced, NEW p \in Peer, Network(p) PROVE Balanced'
<1> DEFINE K(k) == [x \in Peer |-> k]
<1>0. \A k \in Kind : K(k) \in [Peer -> Kind] /\ K(k)[p] = k OBVIOUS
<1> HIDE DEF K
<1>1. CASE Acknowledge(p)
  <2>1. Complete({p}, K("send")) /\ sq[p] # "none" /\ sq' = [sq EXCEPT ![p] = "none"] /\ UNCHANGED rq
    BY <1>1 DEF Acknowledge, K
  <2>2. K("send") \in [Peer -> Kind] /\ K("send")[p] = "send" BY <1>0 DEF Kind
  <2>3. qps' \in [Peer -> QpState] BY <1>1 DEF Acknowledge, Balanced, Types
  <2> QED BY <2>1, <2>2, <2>3, EndStep
<1>2. CASE RetryExceeded(p)
  <2>1. Complete({p}, K("error")) /\ sq[p] = "posted" /\ sq' = [sq EXCEPT ![p] = "none"] /\ UNCHANGED rq
    BY <1>2 DEF RetryExceeded, K
  <2>2. K("error") \in [Peer -> Kind] /\ K("error")[p] = "error" BY <1>0 DEF Kind
  <2>3. qps' \in [Peer -> QpState] BY <1>2 DEF RetryExceeded, Balanced, Types, QpState
  <2> QED BY <2>1, <2>2, <2>3, EndStep
<1> QED BY <1>1, <1>2, DeliverStep, DatagramStep DEF Network

-------------------------------------------------------------------------------
(***************************************************************************)
(* The theorems                                                             *)
(***************************************************************************)
LEMMA NextBalanced == Balanced /\ [Next]_vars => Balanced'
<1> SUFFICES ASSUME Balanced, [Next]_vars PROVE Balanced' OBVIOUS
<1>1. CASE UNCHANGED vars
  <2>1. UNCHANGED <<args, pc, dest, device, counters>> BY <1>1 DEF vars
  <2>2. Types' BY <2>1 DEF Balanced, Types, args, device, counters
  <2>3. ASSUME NEW p \in Peer PROVE Local(p)' /\ Flow(p)' /\ Outcome(p)'
    <3>1. Same(p) BY <2>1 DEF Same, device, counters
    <3>2. Local(p)' BY <3>1, SameKept DEF Balanced
    <3>3. Flow(p)' BY <2>1 DEF Balanced, Flow, Received, Undelivered, Sent, device, counters
    <3>4. Outcome(p)' BY <2>1 DEF Balanced, Outcome, Sound, Received, args, device, counters
    <3> QED BY <3>2, <3>3, <3>4
  <2> QED BY <2>2, <2>3 DEF Balanced
<1>2. CASE Connect BY <1>2, ConnectStep
<1>3. ASSUME NEW p \in Peer, Process(p) \/ Network(p) \/ SetupFails(p) \/ LoopFails(p) PROVE Balanced'
  <2>1. CASE SetupFails(p) \/ LoopFails(p) BY <2>1, FailStep, DoneStep
  <2>2. CASE Network(p) BY <2>2, NetworkStep
  <2>3. CASE Process(p)
    BY <2>3, SetupStep, FailStep, DoneStep, LoopStep, PostRecvStep, PostSendStep, PollWcsStep DEF Process
  <2> QED BY <1>3, <2>1, <2>2, <2>3
<1> QED BY <1>1, <1>2, <1>3 DEF Next

LEMMA SpecBalanced == Spec => []Balanced
BY InitBalanced, NextBalanced, PTL DEF Spec

\* The states of the two processes and of their devices are the ones the variables
\* are declared for; in particular no process counts more than `iters` messages,
\* has more than one send outstanding, or more than one event to acknowledge.
THEOREM TypeCorrect == Spec => []TypeOK
<1>1. Balanced => TypeOK
  <2> SUFFICES ASSUME Balanced PROVE TypeOK OBVIOUS
  <2>1. Types /\ Iters \in Nat BY ArgsAssumption DEF Balanced, ArgsAssumption
  <2>2. ASSUME NEW p \in Peer
        PROVE  /\ recv_comp[p] \in 0..Iters /\ send_comp[p] \in 0..Iters /\ send_req[p] \in 0..1
               /\ events[p] \in 0..1
    <3>0. Local(p) /\ Other(p) \in Peer /\ Other(Other(p)) = p BY Others DEF Balanced
    <3>1. recv_comp[p] \in Nat /\ send_comp[p] \in Nat /\ send_req[p] \in Nat /\ events[p] \in Nat
      BY <2>1 DEF Types
    <3>2. send_comp[p] \in 0..Iters /\ send_req[p] \in 0..1 BY <2>1, <3>0, <3>1 DEF Local, Bounded
    <3>3. events[p] \in 0..1 BY <3>0, <3>1 DEF Local, Arming
    <3>4. Received(p) <= Iters
      <4>1. Received(p) + Undelivered(Other(p)) <= Sent(Other(p)) /\ Sent(Other(p)) <= Iters
        BY <3>0, Missing
      <4>2. Received(p) \in Nat /\ Undelivered(Other(p)) \in Nat /\ Sent(Other(p)) \in Nat
        BY <2>1, <3>0, Numbers
      <4> QED BY <2>1, <4>1, <4>2
    <3>5. Count(cq[p], "recv") \in Nat BY <2>1, PlacesFinite DEF Types
    <3>6. recv_comp[p] \in 0..Iters BY <2>1, <3>1, <3>4, <3>5 DEF Received
    <3> QED BY <3>2, <3>3, <3>6
  <2>3. /\ recv_comp \in [Peer -> 0..Iters] /\ send_comp \in [Peer -> 0..Iters]
        /\ send_req \in [Peer -> 0..1] /\ events \in [Peer -> 0..1]
    BY <2>1, <2>2 DEF Types
  <2> QED BY <2>1, <2>3 DEF Types, TypeOK, Kind, QpState
<1> QED BY <1>1, SpecBalanced, PTL

\* The counters of the event loop are what the device has of the process, however
\* the completions of the two processes interleave with its polls.
THEOREM CountersExact == Spec => []CountsExact
<1>1. Balanced => CountsExact BY DEF Balanced, Local, Counted, CountsExact
<1> QED BY <1>1, SpecBalanced, PTL

\* At most rx_depth + 1 receives are outstanding and rx_depth + 2 completions are
\* in the queue: one of each more than run() asks the device for.
THEOREM QueuesStayBounded == Spec => []QueuesBounded
<1>1. Balanced => QueuesBounded
  <2> SUFFICES ASSUME Balanced, NEW p \in Peer
               PROVE  recv_req[p] <= RxDepth + 1 /\ Len(cq[p]) <= RxDepth + 2
    BY DEF QueuesBounded
  <2>0. Types /\ Local(p) /\ RxDepth \in Nat BY ArgsAssumption DEF Balanced, ArgsAssumption
  <2>1. recv_req[p] <= RxDepth + 1 /\ send_req[p] <= 1 BY <2>0 DEF Local, Bounded
  <2>2. Len(cq[p]) = Count(cq[p], "recv") + Count(cq[p], "send") + Count(cq[p], "error")
    BY <2>0, CountAll DEF Types
  <2>3. /\ Count(cq[p], "recv") \in Nat /\ Count(cq[p], "send") \in Nat /\ Count(cq[p], "error") \in Nat
        /\ rq[p] \in Nat
    BY <2>0, PlacesFinite DEF Types
  <2>4. CASE pc[p] \in Loop
    <3>1. /\ recv_req[p] = rq[p] + Count(cq[p], "recv")
          /\ send_req[p] = (IF sq[p] = "none" THEN 0 ELSE 1) + Count(cq[p], "send") + Count(cq[p], "error")
      BY <2>0, <2>4 DEF Local, Counted
    <3>2. send_req[p] \in Nat /\ recv_req[p] \in Nat BY <2>0 DEF Types
    <3>3. Count(cq[p], "recv") <= RxDepth + 1 BY <2>0, <2>1, <2>3, <3>1, <3>2
    <3>4. Count(cq[p], "send") + Count(cq[p], "error") <= 1 BY <2>1, <2>3, <3>1, <3>2
    <3> QED BY <2>0, <2>1, <2>2, <2>3, <3>3, <3>4
  <2>5. CASE pc[p] \notin Loop
    <3>1. cq[p] = <<>> BY <2>0, <2>5 DEF Local, Quiet
    <3>2. Len(cq[p]) = 0 BY <3>1
    <3> QED BY <2>0, <2>1, <3>2
  <2> QED BY <2>4, <2>5
<1> QED BY <1>1, SpecBalanced, PTL

\* A process that sleeps in wait_cq_event over a completion has an event to wake it.
THEOREM LoopAwake == Spec => []NoSleepOnCompletion
<1>1. Balanced => NoSleepOnCompletion
  BY DEF Balanced, Local, Arming, NoSleepOnCompletion
<1> QED BY <1>1, SpecBalanced, PTL

\* With RC and room for the receives, a process succeeds only when the other one
\* has posted all its messages, and the other fails then only by a call of its own
\* in the loop.
THEOREM BothSucceed == Spec => []BothOrNone
<1>1. Balanced => BothOrNone
  <2> SUFFICES ASSUME Balanced, Sound, NEW p \in Peer, pc[p] = "done"
               PROVE  /\ pc[Other(p)] # "failed"
                      /\ send_comp[Other(p)] + send_req[Other(p)] >= Iters
    BY DEF BothOrNone
  <2>0. Other(p) \in Peer /\ Other(Other(p)) = p BY Others
  <2>1. recv_comp[p] >= Iters BY DEF Balanced, Outcome
  <2>2. recv_comp[p] \in Nat /\ Count(cq[p], "recv") \in Nat /\ Iters \in Nat
    BY PlacesFinite, ArgsAssumption DEF Balanced, Types, ArgsAssumption
  <2>3. Received(p) >= Iters BY <2>1, <2>2 DEF Received
  <2>4. Received(p) \in Nat /\ Undelivered(Other(p)) \in Nat /\ Sent(Other(p)) \in Nat
    BY <2>0, Numbers DEF Balanced
  <2>5. Sent(Other(p)) >= Iters
    <3>1. Received(p) + Undelivered(Other(p)) <= Sent(Other(p)) BY DEF Balanced, Flow
    <3> QED BY <2>2, <2>3, <2>4, <3>1
  <2>6. pc[Other(p)] # "failed" BY <2>2, <2>3, <2>4 DEF Balanced, Outcome
  <2> QED BY <2>5, <2>6 DEF Sent
<1> QED BY <1>1, SpecBalanced, PTL

-------------------------------------------------------------------------------
(***************************************************************************)
(* The two are never at a loss together                                     *)
(*                                                                          *)
(* The invariant Moving: how far a process is and what its device has by    *)
(* then (Stage); nobody is past the connection alone (Handshake); what was  *)
(* delivered has arrived (Arrivals); and a process whose peer failed was    *)
(* never heard, so that it has an answer outstanding (Unheard).             *)
(***************************************************************************)
\* Messages of p that were delivered.
Acked(p) == send_comp[p] + Count(cq[p], "send") + (IF sq[p] = "delivered" THEN 1 ELSE 0)

QpStage(p) ==
  /\ pc[p] = "initialize" => qps[p] = "reset"
  /\ pc[p] \in {"connect", "send_dest", "recv_dest", "rtr"} => qps[p] = "init"
  /\ pc[p] = "rts" => qps[p] = "rtr"
  /\ pc[p] \in Loop => qps[p] = IF Count(cq[p], "error") = 0 THEN "rts" ELSE "err"
  /\ Returned(p) => qps[p] = "gone"
PostStage(p) ==
  /\ pc[p] \in {"post_send", "poll", "wait"} => recv_req[p] >= 1
  /\ pc[p] \in {"poll", "wait"} => send_req[p] = 1 \/ send_comp[p] >= Iters
  /\ pc[p] = "wait" => ~(recv_comp[p] >= Iters /\ send_comp[p] >= Iters)
  /\ pc[p] = "done" => send_comp[p] >= Iters
Wrote(p) == pc[p] \notin {"initialize", "connect", "send_dest", "failed"} => p \in dest
Stage(p) == QpStage(p) /\ PostStage(p) /\ Wrote(p)

Handshake(p) ==
  pc[p] \notin {"initialize", "connect", "failed"} => pc[Other(p)] \notin {"initialize", "connect"}

Arrivals(p) == Sound /\ ~Returned(Other(p)) => Acked(p) <= Received(Other(p))

Unheard(p) ==
  /\ Sound /\ (qps[Other(p)] = "err" \/ pc[Other(p)] = "failed")
  /\ ~Returned(p) /\ qps[p] # "err"
  => Acked(p) = 0

Moving == \A p \in Peer : Stage(p) /\ Handshake(p) /\ Arrivals(p) /\ Unheard(p)

LEMMA AckedNumber ==
  ASSUME Types, NEW p \in Peer
  PROVE  Acked(p) \in Nat /\ \A x : Count(cq[p], x) \in Nat
<1>1. cq[p] \in Seq(Kind) /\ send_comp[p] \in Nat BY DEF Types
<1>2. \A x : Count(cq[p], x) \in Nat BY <1>1, PlacesFinite
<1> QED BY <1>1, <1>2 DEF Acked

LEMMA AckedNumberNext ==
  ASSUME Types', NEW p \in Peer
  PROVE  Acked(p)' \in Nat /\ \A x : Count(cq'[p], x) \in Nat
<1>1. cq'[p] \in Seq(Kind) /\ send_comp'[p] \in Nat BY DEF Types
<1>2. \A x : Count(cq'[p], x) \in Nat BY <1>1, PlacesFinite
<1> QED BY <1>1, <1>2 DEF Acked

LEMMA KeptStage ==
  ASSUME NEW q \in Peer, Same(q), qps'[q] = qps[q], dest \subseteq dest', Stage(q)
  PROVE  Stage(q)' /\ Acked(q)' = Acked(q) /\ Received(q)' = Received(q)
<1>1. QpStage(q)' BY DEF Same, Stage, QpStage, Returned
<1>2. PostStage(q)' BY DEF Same, Stage, PostStage
<1>3. Wrote(q)' BY DEF Same, Stage, Wrote
<1> QED BY <1>1, <1>2, <1>3 DEF Stage, Same, Acked, Received

\* A statement of p leaves the other process and its device alone.
LEMMA ProcessSame ==
  ASSUME Types, NEW p \in Peer, Process(p) \/ SetupFails(p) \/ LoopFails(p)
  PROVE  Same(Other(p)) /\ qps'[Other(p)] = qps[Other(p)] /\ UNCHANGED args /\ dest \subseteq dest'
<1> DEFINE o == Other(p)
<1>0. o \in Peer /\ o # p BY Others
<1> HIDE DEF o
<1> DEFINE Goal == Same(o) /\ qps'[o] = qps[o] /\ UNCHANGED args /\ dest \subseteq dest'
<1>1. ASSUME NEW s, Return(p, s) PROVE Goal
  BY <1>0, <1>1 DEF Return, Goto, Types, Same, counters
<1>2. ASSUME NEW a, NEW s, NEW q, Modify(p, a, s, q) PROVE Goal
  BY <1>0, <1>2 DEF Modify, Goto, Types, Same, counters
<1>3. ASSUME SendDest(p) \/ RecvDest(p) PROVE Goal
  BY <1>0, <1>3 DEF SendDest, RecvDest, Goto, Types, Same, device, counters
<1>4. ASSUME ReqNotifyAll(p) PROVE Goal BY <1>0, <1>4 DEF ReqNotifyAll, Goto, Types, Same, counters
<1>5. ASSUME PollEmpty(p) \/ WaitCqEvent(p) PROVE Goal
  BY <1>0, <1>5 DEF PollEmpty, WaitCqEvent, Goto, Types, Same, device, counters
<1>6. ASSUME PostRecv(p) PROVE Goal BY <1>0, <1>6 DEF PostRecv, Goto, Types, Same
<1>7. ASSUME PostSend(p) PROVE Goal BY <1>0, <1>7 DEF PostSend, Goto, Types, Same
<1>8. ASSUME PollWcs(p) PROVE Goal BY <1>0, <1>8 DEF PollWcs, Goto, Types, Same
<1>9. Goal
  BY <1>1, <1>2, <1>3, <1>4, <1>5, <1>6, <1>7, <1>8
  DEF Process, SetupFails, LoopFails, RecvDestFails, PostRecvFails, PollError, PollDone,
      Initialize, ReadyToReceive, ReadyToSend
<1> QED BY <1>9 DEF o

\* What a statement of p has to show.
LEMMA OwnMoves ==
  ASSUME Balanced, Moving, NEW p \in Peer, Process(p) \/ SetupFails(p) \/ LoopFails(p), Types',
         Stage(p)', ~Returned(p),
         Acked(p)' <= Acked(p),
         ~Returned(p)' => Received(p)' = Received(p),
         qps[p] = "err" => qps'[p] = "err" \/ Returned(p)',
         qps'[p] = "err" => qps[p] = "err",
         Sound /\ pc'[p] = "failed" => qps[p] = "err" \/ pc[p] \in Setup,
         pc'[p] \in {"initialize", "connect"} => pc[p] \in {"initialize", "connect"},
         pc[p] \in {"initialize", "connect"} => pc'[p] \in {"initialize", "connect", "failed"}
  PROVE  Moving'
<1> DEFINE o == Other(p)
<1>0. o \in Peer /\ o # p /\ Other(o) = p /\ \A q \in Peer : q = p \/ q = o BY Others
<1>1. Types /\ Local(p) BY DEF Balanced
<1>2. Same(o) /\ qps'[o] = qps[o] /\ UNCHANGED args /\ dest \subseteq dest' BY <1>1, ProcessSame
<1> HIDE DEF o
<1>3. /\ Stage(p) /\ Handshake(p) /\ Arrivals(p) /\ Unheard(p)
      /\ Stage(o) /\ Handshake(o) /\ Arrivals(o) /\ Unheard(o)
  BY <1>0 DEF Moving
<1>4. Stage(o)' /\ Acked(o)' = Acked(o) /\ Received(o)' = Received(o) BY <1>0, <1>2, <1>3, KeptStage
<1>5. Sound' = Sound /\ pc'[o] = pc[o] /\ (Returned(o)' <=> Returned(o))
  BY <1>2 DEF Sound, args, Same, Returned
<1>6. /\ Acked(p) \in Nat /\ Acked(p)' \in Nat /\ Acked(o) \in Nat
      /\ Received(p) \in Nat /\ Received(o) \in Nat
  BY <1>0, <1>1, AckedNumber, AckedNumberNext, Numbers
<1>7. Handshake(p)' /\ Handshake(o)'
  <2>1. Handshake(p)' BY <1>3, <1>5 DEF Handshake, Returned, o
  <2>2. Handshake(o)' BY <1>0, <1>3, <1>5 DEF Handshake, Returned
  <2> QED BY <2>1, <2>2
<1>8. Arrivals(p)' BY <1>0, <1>3, <1>4, <1>5, <1>6 DEF Arrivals, o
<1>9. Arrivals(o)' BY <1>0, <1>3, <1>4, <1>5, <1>6 DEF Arrivals
<1>10. Unheard(p)'
  <2>1. Unheard(p) <=> (Sound /\ (qps[o] = "err" \/ pc[o] = "failed") /\ ~Returned(p) /\ qps[p] # "err"
                         => Acked(p) = 0)
    BY DEF Unheard, o
  <2>2. Unheard(p)' <=> (Sound' /\ (qps'[o] = "err" \/ pc'[o] = "failed") /\ ~Returned(p)' /\ qps'[p] # "err"
                          => Acked(p)' = 0)
    BY DEF Unheard, o
  <2> QED BY <1>2, <1>3, <1>5, <1>6, <2>1, <2>2
<1>11. Unheard(o)'
  <2>1. Unheard(o) <=> (Sound /\ (qps[p] = "err" \/ pc[p] = "failed") /\ ~Returned(o) /\ qps[o] # "err"
                         => Acked(o) = 0)
    BY <1>0 DEF Unheard
  <2>2. Unheard(o)' <=> (Sound' /\ (qps'[p] = "err" \/ pc'[p] = "failed") /\ ~Returned(o)' /\ qps'[o] # "err"
                          => Acked(o)' = 0)
    BY <1>0 DEF Unheard
  <2>3. Sound /\ pc[p] \in Setup => Acked(o) = 0
    <3> SUFFICES ASSUME Sound, pc[p] \in Setup PROVE Acked(o) = 0 OBVIOUS
    <3>1. recv_comp[p] = 0 /\ cq[p] = <<>> BY <1>1 DEF Local, Fresh, Quiet, Setup, Loop
    <3>2. Received(p) = 0 BY <3>1, CountEmpty DEF Received
    <3> QED BY <1>0, <1>3, <1>6, <3>2 DEF Arrivals
  <2> QED BY <1>2, <1>3, <1>4, <1>5, <2>1, <2>2, <2>3
<1> QED BY <1>0, <1>3, <1>4, <1>7, <1>8, <1>9, <1>10, <1>11 DEF Moving

\* The statements that leave the requests, the completions and the counters alone.
LEMMA IdleMoves ==
  ASSUME Balanced, Moving, NEW p \in Peer, Process(p), Types', Stage(p)',
         UNCHANGED <<sq, cq, counters>>, ~Returned(p), ~Returned(p)',
         qps'[p] = "err" <=> qps[p] = "err",
         pc'[p] \in {"initialize", "connect"} => pc[p] \in {"initialize", "connect"},
         pc[p] \in {"initialize", "connect"} => pc'[p] \in {"initialize", "connect", "failed"}
  PROVE  Moving'
<1>1. Acked(p)' = Acked(p) /\ Received(p)' = Received(p) BY DEF Acked, Received, counters
<1>2. Acked(p) \in Nat BY AckedNumber DEF Balanced
<1>3. pc'[p] # "failed" BY DEF Returned
<1> QED BY <1>1, <1>2, <1>3, OwnMoves

LEMMA SetupMoves ==
  ASSUME Balanced, Balanced', Moving, NEW p \in Peer,
         Initialize(p) \/ SendDest(p) \/ RecvDest(p) \/ ReadyToReceive(p) \/ ReadyToSend(p)
  PROVE  Moving'
<1>0. Types /\ Types' /\ Local(p) /\ Stage(p) /\ Process(p) BY DEF Balanced, Moving, Process
<1>1. UNCHANGED <<rq, sq, cq, counters>> /\ dest \subseteq dest'
  BY DEF Initialize, SendDest, RecvDest, ReadyToReceive, ReadyToSend, Modify, device
<1>2. \/ pc[p] = "initialize" /\ pc'[p] = "connect" /\ qps'[p] = "init"
      \/ pc[p] = "send_dest" /\ pc'[p] = "recv_dest" /\ qps'[p] = qps[p] /\ p \in dest'
      \/ pc[p] = "recv_dest" /\ pc'[p] = "rtr" /\ qps'[p] = qps[p]
      \/ pc[p] = "rtr" /\ pc'[p] = "rts" /\ qps'[p] = "rtr"
      \/ pc[p] = "rts" /\ pc'[p] = "req_notify" /\ qps'[p] = "rts"
  BY <1>0 DEF Types, Initialize, SendDest, RecvDest, ReadyToReceive, ReadyToSend, Modify, Goto, device
<1>3. cq'[p] = <<>> BY <1>0, <1>1, <1>2 DEF Local, Quiet, Loop
<1>4. Count(cq'[p], "error") = 0 BY <1>3, CountEmpty
<1>5. QpStage(p)' BY <1>0, <1>2, <1>4 DEF Stage, QpStage, Loop, Returned
<1>6. PostStage(p)' BY <1>2 DEF PostStage
<1>7. Wrote(p)' BY <1>0, <1>1, <1>2 DEF Stage, Wrote
<1>8. Stage(p)' BY <1>5, <1>6, <1>7 DEF Stage
<1>9. ~Returned(p) /\ ~Returned(p)' BY <1>2 DEF Returned
<1>10. qps[p] # "err" /\ qps'[p] # "err" BY <1>0, <1>2 DEF Stage, QpStage
<1> QED BY <1>0, <1>1, <1>2, <1>8, <1>9, <1>10, IdleMoves

LEMMA ConnectMoves == ASSUME Balanced, Moving, Connect PROVE Moving'
<1>0. /\ \A p \in Peer : pc[p] = "connect" /\ pc'[p] = "send_dest"
      /\ UNCHANGED <<args, dest, device, counters>>
  BY DEF Connect
<1>1. ASSUME NEW p \in Peer PROVE Stage(p)' /\ Handshake(p)' /\ Arrivals(p)' /\ Unheard(p)'
  <2>0. pc[p] = "connect" /\ pc'[p] = "send_dest" /\ Other(p) \in Peer BY <1>0, Others
  <2>1. QpStage(p)' BY <1>0, <2>0 DEF Moving, Stage, QpStage, Loop, Returned, device
  <2>2. PostStage(p)' /\ Wrote(p)' BY <2>0 DEF PostStage, Wrote
  <2>3. Handshake(p)' BY <1>0, <2>0 DEF Handshake
  <2>4. Acked(p)' = Acked(p) /\ Received(Other(p))' = Received(Other(p)) /\ Sound' = Sound
    BY <1>0 DEF Acked, Received, Sound, args, device, counters
  <2>5. Arrivals(p)' BY <1>0, <2>0, <2>4 DEF Moving, Arrivals, Returned
  <2>6. pc'[Other(p)] # "failed" /\ qps'[Other(p)] = "init"
    BY <1>0, <2>0 DEF Moving, Stage, QpStage, device
  <2>7. Unheard(p)' BY <2>6 DEF Unheard
  <2> QED BY <2>1, <2>2, <2>3, <2>5, <2>7 DEF Stage
<1> QED BY <1>1 DEF Moving

\* run() returns; with "failed", before the loop or after a completion in error.
LEMMA ReturnMoves ==
  ASSUME Balanced, Balanced', Moving, NEW p \in Peer, NEW s \in {"done", "failed", "broken"}, Return(p, s),
         Process(p) \/ SetupFails(p) \/ LoopFails(p), pc[p] \in Setup \cup Loop,
         s = "done" => send_comp[p] >= Iters, s # "failed" => pc[p] \in Loop,
         Sound /\ s = "failed" => qps[p] = "err" \/ pc[p] \in Setup
  PROVE  Moving'
<1>0. Types /\ Types' /\ Stage(p) BY DEF Balanced, Moving
<1>1. /\ pc'[p] = s /\ qps'[p] = "gone" /\ cq'[p] = <<>> /\ sq'[p] = "none"
      /\ UNCHANGED <<dest, counters>>
  BY <1>0 DEF Types, Return, Goto
<1>2. QpStage(p)' BY <1>1 DEF QpStage, Loop
<1>3. PostStage(p)' BY <1>1 DEF PostStage, counters
<1>4. Wrote(p)' BY <1>0, <1>1 DEF Stage, Wrote, Loop
<1>5. ~Returned(p) /\ Returned(p)' BY <1>1 DEF Returned, Setup, Loop
<1>6. Acked(p)' <= Acked(p)
  <2>1. Count(cq'[p], "send") = 0 BY <1>1, CountEmpty
  <2>2. Count(cq[p], "send") \in Nat /\ send_comp[p] \in Nat BY <1>0, AckedNumber DEF Types
  <2>3. Acked(p)' = send_comp[p] BY <1>1, <2>1, <2>2 DEF Acked, counters
  <2> QED BY <2>2, <2>3 DEF Acked
<1>7. pc[p] \in {"initialize", "connect"} => pc'[p] = "failed" BY <1>1 DEF Loop
<1>8. pc'[p] \notin {"initialize", "connect"} /\ qps'[p] # "err" BY <1>1
<1>9. Stage(p)' BY <1>2, <1>3, <1>4 DEF Stage
<1> QED BY <1>0, <1>1, <1>5, <1>6, <1>7, <1>8, <1>9, OwnMoves

LEMMA EndMoves ==
  ASSUME Balanced, Balanced', Moving, NEW p \in Peer,
         \/ SetupFails(p) \/ RecvDestFails(p) \/ PostRecvFails(p) \/ PollError(p) \/ PollDone(p)
         \/ LoopFails(p)
  PROVE  Moving'
<1>0. Types /\ Stage(p) BY DEF Balanced, Moving
<1>1. CASE SetupFails(p) \/ RecvDestFails(p)
  <2>1. pc[p] \in Setup BY <1>1 DEF SetupFails, RecvDestFails, Setup
  <2> QED BY <1>1, <2>1, ReturnMoves DEF SetupFails, RecvDestFails, Process
<1>2. CASE PostRecvFails(p)
  <2>1. recv_req[p] <= 1 /\ recv_req[p] \in Nat /\ recv_req[p] + RxDepth > rq_size
    BY <1>0, <1>2 DEF PostRecvFails, Types
  <2>2. rq_size \in Nat /\ RxDepth \in Nat
    BY <1>0, RqSizesAssumption, ArgsAssumption DEF RqSizesAssumption, ArgsAssumption, Types
  <2>3. ~Sound BY <2>1, <2>2 DEF Sound
  <2>4. pc[p] \in Loop BY <1>2 DEF PostRecvFails, Loop
  <2> QED BY <1>2, <2>3, <2>4, ReturnMoves DEF PostRecvFails, Process
<1>3. CASE PollError(p)
  <2>1. cq[p] \in Seq(Kind) /\ "error" \in ToSet(Batch(cq[p])) BY <1>0, <1>3 DEF PollError, Types
  <2>2. "error" \in ToSet(cq[p]) BY <2>1 DEF Batch, ToSet, WcBuf
  <2>3. Count(cq[p], "error") >= 1 /\ Count(cq[p], "error") \in Nat
    BY <2>1, <2>2, CountPresent, PlacesFinite
  <2>4. pc[p] \in Loop BY <1>3 DEF PollError, Loop
  <2>5. qps[p] = "err" BY <1>0, <2>3, <2>4 DEF Stage, QpStage
  <2> QED BY <1>3, <2>4, <2>5, ReturnMoves DEF PollError, Process
<1>4. CASE PollDone(p)
  <2>1. pc[p] \in Loop BY <1>4 DEF PollDone, Loop
  <2> QED BY <1>4, <2>1, ReturnMoves DEF PollDone, Process
<1>5. CASE LoopFails(p)
  <2>1. pc[p] \in Loop BY <1>5 DEF LoopFails, Loop
  <2> QED BY <1>5, <2>1, ReturnMoves DEF LoopFails
<1> QED BY <1>1, <1>2, <1>3, <1>4, <1>5

\* In the loop a step of p keeps the state of its queue pair, unless it counts.
LEMMA LoopMoves ==
  ASSUME Balanced, Balanced', Moving, NEW p \in Peer, ReqNotifyAll(p) \/ PollEmpty(p) \/ WaitCqEvent(p)
  PROVE  Moving'
<1>0. Types /\ Types' /\ Stage(p) /\ Process(p) BY DEF Balanced, Moving, Process
<1>1. UNCHANGED <<dest, qps, sq, cq, counters>>
  BY DEF ReqNotifyAll, PollEmpty, WaitCqEvent, device
<1>2. \/ pc[p] = "req_notify" /\ pc'[p] = "post_recv"
      \/ pc[p] = "poll" /\ pc'[p] = "wait" /\ ~(recv_comp[p] >= Iters /\ send_comp[p] >= Iters)
      \/ pc[p] = "wait" /\ pc'[p] = "req_notify"
  BY <1>0 DEF Types, ReqNotifyAll, PollEmpty, WaitCqEvent, Goto
<1>3. QpStage(p)' BY <1>0, <1>1, <1>2 DEF Stage, QpStage, Loop, Returned
<1>4. PostStage(p)' BY <1>0, <1>1, <1>2 DEF Stage, PostStage, counters
<1>5. Wrote(p)' BY <1>0, <1>1, <1>2 DEF Stage, Wrote
<1>6. ~Returned(p) /\ ~Returned(p)' BY <1>2 DEF Returned
<1> QED BY <1>0, <1>1, <1>2, <1>3, <1>4, <1>5, <1>6, IdleMoves DEF Stage

LEMMA PostRecvMoves ==
  ASSUME Balanced, Balanced', Moving, NEW p \in Peer, PostRecv(p)
  PROVE  Moving'
<1>0. Types /\ Types' /\ Stage(p) /\ Process(p) BY DEF Balanced, Moving, Process
<1>1. /\ pc[p] = "post_recv" /\ pc'[p] = "post_send"
      /\ UNCHANGED <<args, dest, qps, sq, cq, recv_comp, send_comp, send_req>>
  BY <1>0 DEF PostRecv, Types, Goto
<1>2. recv_req'[p] >= 1
  <2>1. RxDepth \in Nat /\ RxDepth # 0 /\ recv_req[p] \in Nat
    BY <1>0, ArgsAssumption DEF Types, ArgsAssumption
  <2>2. recv_req'[p] = recv_req[p] + (IF recv_req[p] <= 1 THEN RxDepth ELSE 0)
    BY <1>0 DEF Types, PostRecv
  <2> QED BY <2>1, <2>2
<1>3. QpStage(p)' BY <1>0, <1>1 DEF Stage, QpStage, Loop, Returned
<1>4. PostStage(p)' BY <1>1, <1>2 DEF PostStage
<1>5. Wrote(p)' BY <1>0, <1>1 DEF Stage, Wrote
<1>6. ~Returned(p) /\ ~Returned(p)' BY <1>1 DEF Returned
<1>7. Acked(p)' = Acked(p) /\ Received(p)' = Received(p) /\ Acked(p) \in Nat
  BY <1>0, <1>1, AckedNumber DEF Acked, Received
<1>8. Acked(p)' <= Acked(p) BY <1>7
<1> QED BY <1>0, <1>1, <1>3, <1>4, <1>5, <1>6, <1>7, <1>8, OwnMoves DEF Stage

LEMMA PostSendMoves ==
  ASSUME Balanced, Balanced', Moving, NEW p \in Peer, PostSend(p)
  PROVE  Moving'
<1>0. Types /\ Types' /\ Local(p) /\ Stage(p) /\ Process(p) BY DEF Balanced, Moving, Process
<1>1. /\ pc[p] = "post_send" /\ pc'[p] = "poll"
      /\ UNCHANGED <<args, dest, qps, cq, recv_comp, send_comp, recv_req>>
  BY <1>0 DEF PostSend, Types, Goto
<1>2. \/ ~(send_req[p] < 1 /\ send_comp[p] < Iters) /\ send_req'[p] = send_req[p] /\ sq'[p] = sq[p]
      \/ send_req[p] < 1 /\ send_req'[p] = 1 /\ sq'[p] = "posted"
  BY <1>0 DEF Types, PostSend
<1>3. send_req[p] \in Nat /\ send_req[p] <= 1 /\ send_comp[p] \in Nat /\ Iters \in Nat
  BY <1>0, ArgsAssumption DEF Types, Local, Bounded, ArgsAssumption
<1>4. QpStage(p)' BY <1>0, <1>1 DEF Stage, QpStage, Loop, Returned
<1>5. PostStage(p)' BY <1>0, <1>1, <1>2, <1>3 DEF Stage, PostStage
<1>6. Wrote(p)' BY <1>0, <1>1 DEF Stage, Wrote
<1>7. ~Returned(p) /\ ~Returned(p)' BY <1>1 DEF Returned
<1>8. Acked(p) \in Nat /\ Received(p)' = Received(p) /\ \A x : Count(cq[p], x) \in Nat
  BY <1>0, <1>1, AckedNumber DEF Received
<1>9. Acked(p)' <= Acked(p)
  BY <1>1, <1>2, <1>3, <1>8 DEF Acked
<1> QED BY <1>0, <1>1, <1>4, <1>5, <1>6, <1>7, <1>8, <1>9, OwnMoves DEF Stage

LEMMA PollWcsMoves ==
  ASSUME Balanced, Balanced', Moving, NEW p \in Peer, PollWcs(p)
  PROVE  Moving'
<1> DEFINE s == cq[p]
           b == Batch(s)
           z == SubSeq(s, Len(b) + 1, Len(s))
<1>0. Types /\ Types' /\ Stage(p) /\ Process(p) /\ s \in Seq(Kind)
  BY DEF Balanced, Moving, Process, Types
<1>1. /\ pc[p] = "poll" /\ pc'[p] = "post_recv" /\ "error" \notin ToSet(b) /\ cq'[p] = z
      /\ recv_comp'[p] = recv_comp[p] + Count(b, "recv")
      /\ send_comp'[p] = send_comp[p] + Count(b, "send")
      /\ UNCHANGED <<args, dest, qps, sq>>
  BY <1>0 DEF PollWcs, Types, Goto
<1>2. \A x : /\ b \in Seq(Kind) /\ z \in Seq(Kind)
             /\ Count(s, x) = Count(b, x) + Count(z, x)
             /\ Count(b, x) \in Nat /\ Count(z, x) \in Nat
  BY <1>0, BatchCount
<1>3. Count(b, "error") = 0
  <2>1. Places(b, "error") = {} BY <1>1 DEF Places, ToSet
  <2> QED BY <1>2, <2>1, PlacesFinite, FS_EmptySet
<1> HIDE DEF b, z
<1>4. /\ Count(s, "recv") = Count(b, "recv") + Count(z, "recv")
      /\ Count(b, "recv") \in Nat /\ Count(z, "recv") \in Nat
  BY <1>2
<1>5. /\ Count(s, "send") = Count(b, "send") + Count(z, "send")
      /\ Count(b, "send") \in Nat /\ Count(z, "send") \in Nat
  BY <1>2
<1>6. Count(s, "error") = Count(cq'[p], "error") BY <1>1, <1>2, <1>3
<1>7. QpStage(p)' BY <1>0, <1>1, <1>6 DEF Stage, QpStage, Loop, Returned
<1>8. PostStage(p)' /\ Wrote(p)' BY <1>0, <1>1 DEF Stage, PostStage, Wrote
<1>9. ~Returned(p) /\ ~Returned(p)' BY <1>1 DEF Returned
<1>10. recv_comp[p] \in Nat /\ send_comp[p] \in Nat BY <1>0 DEF Types
<1>11. Received(p)' = Received(p) BY <1>1, <1>4, <1>10 DEF Received
<1>12. Acked(p)' <= Acked(p) BY <1>1, <1>5, <1>10 DEF Acked
<1> QED BY <1>0, <1>1, <1>7, <1>8, <1>9, <1>11, <1>12, OwnMoves DEF Stage

\* A process with a request has a queue pair that is up, or in error.
LEMMA InLoop ==
  ASSUME Balanced, NEW q \in Peer, sq[q] # "none" \/ rq[q] > 0
  PROVE  pc[q] \in Loop
BY DEF Balanced, Types, Local, Quiet

\* A completion moves nobody.
LEMMA CompleteStage ==
  ASSUME NEW q \in Peer, Stage(q), UNCHANGED <<pc, dest, counters>>,
         pc[q] \notin Loop => qps'[q] = qps[q],
         pc[q] \in Loop => qps'[q] = IF Count(cq'[q], "error") = 0 THEN "rts" ELSE "err"
  PROVE  Stage(q)'
<1>1. QpStage(q)' BY DEF Stage, QpStage, Returned, Loop
<1>2. PostStage(q)' /\ Wrote(q)' BY DEF Stage, PostStage, Wrote, counters
<1> QED BY <1>1, <1>2 DEF Stage

\* What a step of the devices has to show: p is the process whose request it is.
LEMMA DeviceMoves ==
  ASSUME Balanced, Moving, NEW p \in Peer, UNCHANGED <<args, pc, dest, counters>>,
         Stage(p)', Stage(Other(p))',
         Sound => Arrivals(p)' /\ Arrivals(Other(p))' /\ Unheard(p)' /\ Unheard(Other(p))'
  PROVE  Moving'
<1> DEFINE o == Other(p)
<1>0. o \in Peer /\ \A q \in Peer : q = p \/ q = o BY Others
<1>1. Sound' = Sound BY DEF Sound, args
<1>2. Handshake(p)' /\ Handshake(o)' BY <1>0 DEF Moving, Handshake
<1>3. Arrivals(p)' /\ Arrivals(o)' /\ Unheard(p)' /\ Unheard(o)' BY <1>1 DEF Arrivals, Unheard
<1> QED BY <1>0, <1>2, <1>3 DEF Moving

LEMMA DeliverMoves ==
  ASSUME Balanced, Balanced', Moving, NEW p \in Peer, Deliver(p)
  PROVE  Moving'
<1> DEFINE o == Other(p)
           kind == [x \in Peer |-> "recv"]
<1>0. Types /\ Types' /\ Local(p) /\ Local(o) /\ o \in Peer /\ o # p /\ Other(o) = p
  BY Others DEF Balanced
<1>1. /\ sq[p] = "posted" /\ Receiving(o) /\ rq[o] > 0 /\ sq' = [sq EXCEPT ![p] = "delivered"]
      /\ Complete({o}, kind) /\ UNCHANGED <<qps, pc, dest, args, counters>>
  BY DEF Deliver, Complete
<1>2. kind \in [Peer -> Kind] /\ kind[o] = "recv" /\ {o} \in SUBSET Peer /\ o \in {o} /\ p \notin {o}
  BY <1>0 DEF Kind
<1> HIDE DEF o, kind
<1>3. /\ Stage(p) /\ Arrivals(p) /\ Stage(o) /\ Arrivals(o) /\ Unheard(o)
  BY <1>0 DEF Moving
<1>4. pc[p] \in Loop /\ pc[o] \in Loop BY <1>0, <1>1, InLoop
<1>5. cq'[p] = cq[p] BY <1>0, <1>1, <1>2, NotCompleted
<1>6. /\ Count(cq'[o], "recv") = Count(cq[o], "recv") + 1
      /\ Count(cq'[o], "send") = Count(cq[o], "send") /\ Count(cq'[o], "error") = Count(cq[o], "error")
  BY <1>0, <1>1, <1>2, <1>4, Completed
<1>7. Stage(p)' BY <1>0, <1>1, <1>3, <1>4, <1>5, CompleteStage DEF Stage, QpStage
<1>8. Stage(o)' BY <1>0, <1>1, <1>3, <1>4, <1>6, CompleteStage DEF Stage, QpStage
<1>9. sq'[p] = "delivered" /\ sq'[o] = sq[o] BY <1>0, <1>1 DEF Types
<1>10. /\ send_comp[p] \in Nat /\ recv_comp[o] \in Nat
       /\ Count(cq[p], "send") \in Nat /\ Count(cq[o], "recv") \in Nat
  BY <1>0, AckedNumber DEF Types
<1>11. /\ Acked(p)' = Acked(p) + 1 /\ Acked(o)' = Acked(o)
       /\ Received(o)' = Received(o) + 1 /\ Received(p)' = Received(p)
  BY <1>1, <1>5, <1>6, <1>9, <1>10 DEF Acked, Received, counters
<1>12. Acked(p) \in Nat /\ Received(o) \in Nat BY <1>0, AckedNumber, Numbers
<1>13. Arrivals(p)' BY <1>1, <1>3, <1>11, <1>12 DEF Arrivals, Returned, Sound, args, o
<1>14. Arrivals(o)' BY <1>0, <1>1, <1>3, <1>11 DEF Arrivals, Returned, Sound, args
<1>15. Unheard(p)'
  <2>1. qps'[o] # "err" /\ pc'[o] # "failed" BY <1>1, <1>4 DEF Receiving, Loop
  <2> QED BY <2>1 DEF Unheard, o
<1>16. Unheard(o)' BY <1>0, <1>1, <1>3, <1>11 DEF Unheard, Returned, Sound, args
<1> QED BY <1>1, <1>7, <1>8, <1>13, <1>14, <1>15, <1>16, DeviceMoves DEF o

\* The send of p ends, well or in error, and nothing arrives.
LEMMA EndSendMoves ==
  ASSUME Balanced, Balanced', Moving, NEW p \in Peer, Acknowledge(p) \/ RetryExceeded(p)
  PROVE  Moving'
<1> DEFINE o == Other(p)
           ok == sq[p] = "delivered"
           kind == [x \in Peer |-> IF ok THEN "send" ELSE "error"]
<1>0. Types /\ Types' /\ Local(p) /\ Local(o) /\ o \in Peer /\ o # p /\ Other(o) = p
  BY Others DEF Balanced
<1>1. /\ sq[p] \in {"posted", "delivered"} /\ sq' = [sq EXCEPT ![p] = "none"]
      /\ qps' = IF ok THEN qps ELSE [qps EXCEPT ![p] = "err"]
      /\ ~ok => ~Receiving(o)
  BY DEF Acknowledge, RetryExceeded
<1>2. Complete({p}, kind) BY DEF Acknowledge, RetryExceeded
<1>3. UNCHANGED <<pc, dest, args, counters>> BY <1>2 DEF Complete
<1>4. /\ kind \in [Peer -> Kind] /\ kind[p] = (IF ok THEN "send" ELSE "error")
      /\ {p} \in SUBSET Peer /\ p \in {p} /\ o \notin {p}
  BY <1>0 DEF Kind
<1> HIDE DEF o, kind, ok
<1>5. /\ Stage(p) /\ Arrivals(p) /\ Unheard(p) /\ Stage(o) /\ Arrivals(o) /\ Unheard(o)
  BY <1>0 DEF Moving
<1>6. pc[p] \in Loop BY <1>1, InLoop
<1>7. cq'[o] = cq[o] BY <1>0, <1>2, <1>4, NotCompleted
<1>8. \A x : Count(cq'[p], x) = IF kind[p] = x THEN Count(cq[p], x) + 1 ELSE Count(cq[p], x)
  BY <1>0, <1>2, <1>4, <1>6, Completed
<1>9. /\ send_comp[p] \in Nat /\ recv_comp[p] \in Nat
      /\ Count(cq[p], "send") \in Nat /\ Count(cq[p], "recv") \in Nat /\ Count(cq[p], "error") \in Nat
  BY <1>0, AckedNumber DEF Types
<1>10. /\ sq'[p] = "none" /\ sq'[o] = sq[o] /\ qps'[o] = qps[o]
       /\ qps'[p] = IF ok THEN qps[p] ELSE "err"
  BY <1>0, <1>1 DEF Types
<1>11. Stage(o)' BY <1>0, <1>3, <1>5, <1>7, <1>10, CompleteStage DEF Stage, QpStage
<1>12. qps'[p] = IF Count(cq'[p], "error") = 0 THEN "rts" ELSE "err"
  <2>1. qps[p] = IF Count(cq[p], "error") = 0 THEN "rts" ELSE "err" BY <1>5, <1>6 DEF Stage, QpStage
  <2>2. Count(cq'[p], "error") = IF ok THEN Count(cq[p], "error") ELSE Count(cq[p], "error") + 1
    BY <1>4, <1>8
  <2> QED BY <1>9, <1>10, <2>1, <2>2
<1>13. Stage(p)' BY <1>3, <1>5, <1>6, <1>12, CompleteStage
<1>14. /\ Acked(p)' = Acked(p) /\ Received(p)' = Received(p)
  <2>1. /\ Count(cq'[p], "send") = IF ok THEN Count(cq[p], "send") + 1 ELSE Count(cq[p], "send")
        /\ Count(cq'[p], "recv") = Count(cq[p], "recv")
    BY <1>4, <1>8
  <2> QED BY <1>3, <1>9, <1>10, <2>1 DEF Acked, Received, counters, ok
<1>15. Acked(o)' = Acked(o) /\ Received(o)' = Received(o)
  BY <1>3, <1>7, <1>10 DEF Acked, Received, counters
<1>16. Sound' = Sound /\ (Returned(p)' <=> Returned(p)) /\ (Returned(o)' <=> Returned(o))
  BY <1>3 DEF Sound, args, Returned
<1>17. Arrivals(p)' BY <1>5, <1>14, <1>15, <1>16 DEF Arrivals, o
<1>18. Arrivals(o)' BY <1>0, <1>5, <1>14, <1>15, <1>16 DEF Arrivals
<1>19. Unheard(p)'
  <2>1. qps'[p] # "err" => qps[p] # "err" BY <1>10
  <2> QED BY <1>3, <1>5, <1>10, <1>14, <1>16, <2>1 DEF Unheard, o
<1>20. Unheard(o)'
  <2>1. CASE ok BY <1>0, <1>3, <1>5, <1>10, <1>15, <1>16, <2>1 DEF Unheard
  <2>2. CASE ~ok
    <3>1. ~Receiving(o) /\ qps[o] \in QpState BY <1>0, <1>1, <2>2 DEF Types
    <3>2. ~Returned(o) /\ qps[o] # "err" => pc[o] \in Setup
      BY <1>0, <1>5, <3>1 DEF Types, Stage, QpStage, Returned, Receiving
    <3>3. pc[o] \in Setup => send_comp[o] = 0 /\ cq[o] = <<>> /\ sq[o] = "none"
      BY <1>0 DEF Local, Fresh, Quiet, Setup, Loop
    <3>4. pc[o] \in Setup => Acked(o) = 0 BY <3>3, CountEmpty DEF Acked
    <3> QED BY <1>0, <1>10, <1>15, <1>16, <3>2, <3>4 DEF Unheard
  <2> QED BY <2>1, <2>2
<1> QED BY <1>3, <1>11, <1>13, <1>17, <1>18, <1>19, <1>20, DeviceMoves DEF o

\* A datagram is no step of an RC exchange.
LEMMA DatagramMoves ==
  ASSUME Balanced, Balanced', Moving, NEW p \in Peer, Datagram(p)
  PROVE  Moving'
<1> DEFINE o == Other(p)
           kind == [x \in Peer |-> IF x = p THEN "send" ELSE "recv"]
<1>0. Types /\ Local(p) /\ Local(o) /\ o \in Peer /\ o # p /\ ~Sound BY Others DEF Balanced, Datagram, Sound
<1>1. PICK C \in SUBSET Peer : /\ Complete(C, kind) /\ C \in {{p}, {p, o}}
                               /\ o \in C => rq[o] > 0
  <2>1. CASE Receiving(o) /\ rq[o] > 0
    <3>1. {p} \cup (IF Receiving(o) /\ rq[o] > 0 THEN {o} ELSE {}) = {p, o} BY <2>1
    <3>2. Complete({p, o}, kind) BY <3>1 DEF Datagram
    <3> QED BY <1>0, <2>1, <3>2
  <2>2. CASE ~(Receiving(o) /\ rq[o] > 0)
    <3>1. {p} \cup (IF Receiving(o) /\ rq[o] > 0 THEN {o} ELSE {}) = {p} BY <2>2
    <3>2. Complete({p}, kind) BY <3>1 DEF Datagram
    <3> QED BY <1>0, <3>2
  <2> QED BY <2>1, <2>2
<1>2. sq[p] # "none" /\ UNCHANGED <<qps, pc, dest, args, counters>>
  BY <1>1 DEF Datagram, Complete
<1>3. kind \in [Peer -> Kind] /\ \A x \in Peer : kind[x] # "error" BY DEF Kind
<1> HIDE DEF kind
<1>4. ASSUME NEW q \in Peer, Local(q), q \in C => pc[q] \in Loop PROVE Stage(q)'
  <2>0. Stage(q) BY DEF Moving
  <2>1. Count(cq'[q], "error") = Count(cq[q], "error")
    <3>1. CASE q \in C BY <1>0, <1>1, <1>3, <1>4, <3>1, Completed
    <3>2. CASE q \notin C BY <1>0, <1>1, <3>2, NotCompleted
    <3> QED BY <3>1, <3>2
  <2> QED BY <1>2, <2>0, <2>1, CompleteStage DEF Stage, QpStage
<1>5. Stage(p)' BY <1>0, <1>2, <1>4, InLoop
<1>6. Stage(o)' BY <1>0, <1>1, <1>4, InLoop
<1> QED BY <1>0, <1>2, <1>5, <1>6, DeviceMoves

LEMMA NextMoving == Balanced /\ Moving /\ [Next]_vars => Moving'
<1> SUFFICES ASSUME Balanced, Moving, [Next]_vars PROVE Moving' OBVIOUS
<1>0. Balanced' BY NextBalanced
<1>1. CASE UNCHANGED vars
  <2>1. UNCHANGED <<args, pc, dest, device, counters>> BY <1>1 DEF vars
  <2>2. ASSUME NEW p \in Peer PROVE Stage(p)' /\ Handshake(p)' /\ Arrivals(p)' /\ Unheard(p)'
    <3>0. Other(p) \in Peer BY Others
    <3>1. \A q \in Peer : Same(q) /\ qps'[q] = qps[q] BY <2>1 DEF Same, device, counters
    <3>2. Stage(p)' BY <2>1, <3>1, KeptStage DEF Moving
    <3>3. Acked(p)' = Acked(p) /\ Received(Other(p))' = Received(Other(p)) /\ Sound' = Sound
      BY <2>1 DEF Acked, Received, Sound, args, device, counters
    <3>4. Handshake(p)' BY <2>1 DEF Moving, Handshake
    <3>5. Arrivals(p)' BY <2>1, <3>3 DEF Moving, Arrivals, Returned
    <3>6. Unheard(p)' BY <2>1, <3>3 DEF Moving, Unheard, Returned, device
    <3> QED BY <3>2, <3>4, <3>5, <3>6
  <2> QED BY <2>2 DEF Moving
<1>2. CASE Connect BY <1>2, ConnectMoves
<1>3. ASSUME NEW p \in Peer, Process(p) \/ Network(p) \/ SetupFails(p) \/ LoopFails(p) PROVE Moving'
  <2>1. CASE SetupFails(p) \/ LoopFails(p) BY <1>0, <2>1, EndMoves
  <2>2. CASE Network(p) BY <1>0, <2>2, DeliverMoves, EndSendMoves, DatagramMoves DEF Network
  <2>3. CASE Process(p)
    BY <1>0, <2>3, SetupMoves, EndMoves, LoopMoves, PostRecvMoves, PostSendMoves, PollWcsMoves DEF Process
  <2> QED BY <1>3, <2>1, <2>2, <2>3
<1> QED BY <1>1, <1>2, <1>3 DEF Next

LEMMA SpecMoving == Spec => []Moving
<1>1. Init => Moving
  <2> SUFFICES ASSUME Init, NEW p \in Peer PROVE Stage(p) /\ Handshake(p) /\ Arrivals(p) /\ Unheard(p)
    BY DEF Moving
  <2>0. Other(p) \in Peer BY Others
  <2>1. Stage(p) BY DEF Init, Stage, QpStage, PostStage, Wrote, Returned, Loop
  <2>2. Count(<<>>, "send") = 0 /\ Count(<<>>, "recv") = 0 BY CountEmpty
  <2>3. Acked(p) = 0 /\ Received(Other(p)) = 0 BY <2>0, <2>2 DEF Init, Acked, Received
  <2>4. Handshake(p) /\ Arrivals(p) /\ Unheard(p) BY <2>0, <2>3 DEF Init, Handshake, Arrivals, Unheard
  <2> QED BY <2>1, <2>4
<1>2. Balanced /\ Moving /\ [Next]_vars => Moving' BY NextMoving
<1> QED BY <1>1, <1>2, SpecBalanced, PTL DEF Spec

\* A process that sleeps without an event has a receive posted, its queue pair is up,
\* and it has a send outstanding until all its messages were delivered.
LEMMA Asleep ==
  ASSUME Balanced, Moving, NEW p \in Peer, pc[p] = "wait", events[p] = 0
  PROVE  /\ rq[p] > 0 /\ qps[p] = "rts" /\ Received(p) = recv_comp[p]
         /\ sq[p] = "none" => Acked(p) >= Iters /\ Received(p) < Iters
<1>0. Types /\ Local(p) /\ Stage(p) /\ pc[p] \in Loop /\ Iters \in Nat
  BY ArgsAssumption DEF Balanced, Moving, Loop, ArgsAssumption
<1>1. cq[p] = <<>> BY <1>0 DEF Local, Arming
<1>2. Count(cq[p], "recv") = 0 /\ Count(cq[p], "send") = 0 /\ Count(cq[p], "error") = 0
  BY <1>1, CountEmpty
<1>3. /\ recv_req[p] \in Nat /\ rq[p] \in Nat /\ send_req[p] \in Nat
      /\ send_comp[p] \in Nat /\ recv_comp[p] \in Nat
  BY <1>0 DEF Types
<1>4. recv_req[p] = rq[p] /\ send_req[p] = IF sq[p] = "none" THEN 0 ELSE 1
  BY <1>0, <1>2, <1>3 DEF Local, Counted
<1>5. /\ recv_req[p] >= 1
      /\ send_req[p] = 1 \/ send_comp[p] >= Iters
      /\ ~(recv_comp[p] >= Iters /\ send_comp[p] >= Iters)
  BY <1>0 DEF Stage, PostStage
<1>6. qps[p] = "rts" BY <1>0, <1>2 DEF Stage, QpStage
<1>7. Received(p) = recv_comp[p] BY <1>2, <1>3 DEF Received
<1>8. sq[p] = "none" => Acked(p) = send_comp[p] BY <1>2, <1>3 DEF Acked
<1>9. rq[p] > 0 BY <1>3, <1>4, <1>5, <1>0
<1> QED BY <1>0, <1>3, <1>4, <1>5, <1>6, <1>7, <1>8, <1>9

\* Then it has also counted them all.
LEMMA SentAll ==
  ASSUME Balanced, Moving, NEW p \in Peer, pc[p] = "wait", events[p] = 0, sq[p] = "none"
  PROVE  send_comp[p] >= Iters
<1>1. Types /\ Local(p) /\ Stage(p) /\ pc[p] \in Loop BY DEF Balanced, Moving, Loop
<1>2. cq[p] = <<>> BY <1>1 DEF Local, Arming
<1>3. Count(cq[p], "send") = 0 /\ Count(cq[p], "error") = 0 BY <1>2, CountEmpty
<1>4. send_req[p] = 0 BY <1>1, <1>3 DEF Local, Counted
<1> QED BY <1>1, <1>4 DEF Stage, PostStage

\* The event loop, the exchange over TCP and the retries of the queue pairs: no
\* interleaving of the two processes and of their failures leaves both waiting, but
\* for the process that has sent everything to one whose loop broke.
THEOREM ExchangeNeverStuck == Spec => []NeverStuck
<1>1. ASSUME Balanced, Moving PROVE NeverStuck
  <2> SUFFICES ASSUME Sound, NEW p \in Peer, pc[p] \notin {"initialize", "connect"}, ~Returned(p),
                      ~Orphaned(p), \A q \in Peer : Blocked(q) /\ ~Pending(q)
               PROVE  FALSE
    BY DEF NeverStuck
  <2> DEFINE o == Other(p)
  <2>0. /\ o \in Peer /\ o # p /\ Other(o) = p /\ Types
        /\ Stage(p) /\ Handshake(p) /\ Arrivals(p) /\ Unheard(p)
        /\ Stage(o) /\ Handshake(o) /\ Arrivals(o) /\ Unheard(o)
    BY <1>1, Others DEF Balanced, Moving
  <2>1. Blocked(p) /\ ~Pending(p) /\ Blocked(o) /\ ~Pending(o) BY <2>0
  <2> HIDE DEF o
  <2>2. pc[o] \notin {"initialize", "connect"} BY <2>0 DEF Handshake, Returned, o
  \* A process that waits for the Dest of the other.
  <2>3. CASE pc[p] = "recv_dest"
    <3>1. o \notin dest /\ ~Returned(o) BY <2>1, <2>3 DEF Blocked, Returned, o
    <3>2. pc[o] = "send_dest" BY <2>0, <2>2, <3>1 DEF Stage, Wrote, Returned
    <3> QED BY <2>1, <3>2 DEF Blocked, Returned
  \* A process that waits for a completion.
  <2>4. CASE pc[p] = "wait" /\ events[p] = 0
    <3>1. /\ rq[p] > 0 /\ qps[p] = "rts" /\ Received(p) = recv_comp[p]
          /\ sq[p] = "none" => Acked(p) >= Iters /\ Received(p) < Iters
      BY <1>1, <2>4, Asleep
    <3>2. p \in dest BY <2>0, <2>4 DEF Stage, Wrote
    <3>3. Returned(o) \/ (pc[o] = "wait" /\ events[o] = 0) BY <2>0, <2>1, <3>2 DEF Blocked
    <3>4. Iters \in Nat /\ Iters # 0 /\ Acked(p) \in Nat /\ Acked(o) \in Nat /\ Received(p) \in Nat
      BY <2>0, ArgsAssumption, AckedNumber, Numbers DEF ArgsAssumption
    <3>5. sq[o] # "posted" /\ sq[o] # "delivered"
      BY <2>0, <2>1, <3>1 DEF Pending, Receiving
    <3>6. sq[o] = "none" BY <2>0, <3>5 DEF Types
    <3>7. CASE sq[p] # "none"
      <4>1. sq[p] = "posted" /\ ~(Receiving(o) /\ rq[o] > 0) /\ qps[o] \notin {"err", "gone"}
        BY <2>0, <2>1, <3>7 DEF Pending, Types, o
      <4>2. ~Returned(o) BY <2>0, <4>1 DEF Stage, QpStage
      <4>3. rq[o] > 0 /\ qps[o] = "rts" BY <1>1, <2>0, <3>3, <4>2, Asleep
      <4> QED BY <4>1, <4>3 DEF Receiving
    <3>8. CASE sq[p] = "none"
      <4>1. Acked(p) >= Iters /\ Received(p) < Iters BY <3>1, <3>8
      <4>2. Acked(o) <= Received(p) BY <2>0 DEF Arrivals
      <4>3. Acked(o) < Iters BY <3>4, <4>1, <4>2
      <4>4. CASE pc[o] = "wait" /\ events[o] = 0
        <5>1. Acked(o) >= Iters BY <1>1, <2>0, <3>6, <4>4, Asleep
        <5> QED BY <3>4, <4>3, <5>1
      <4>5. CASE pc[o] = "done"
        <5>1. send_comp[o] >= Iters BY <2>0, <4>5 DEF Stage, PostStage
        <5>2. send_comp[o] \in Nat /\ Count(cq[o], "send") \in Nat BY <2>0, AckedNumber DEF Types
        <5>3. Acked(o) >= send_comp[o] BY <3>6, <5>2 DEF Acked
        <5> QED BY <3>4, <4>3, <5>1, <5>2, <5>3
      <4>6. CASE pc[o] = "failed"
        <5>1. Acked(p) = 0 BY <2>0, <3>1, <4>6 DEF Unheard, o
        <5> QED BY <3>4, <4>1, <5>1
      <4>7. CASE pc[o] = "broken"
        <5>1. send_comp[p] >= Iters /\ recv_comp[p] < Iters BY <1>1, <2>4, <3>8, <4>1, <3>1, SentAll
        <5> QED BY <2>4, <4>7, <5>1 DEF Orphaned, o
      <4> QED BY <3>3, <4>4, <4>5, <4>6, <4>7 DEF Returned
    <3> QED BY <3>7, <3>8
  <2> QED BY <2>1, <2>3, <2>4 DEF Blocked
<1>2. Balanced /\ Moving => NeverStuck BY <1>1
<1> QED BY <1>2, SpecBalanced, SpecMoving, PTL
===============================================================================
