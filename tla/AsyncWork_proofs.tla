--------------------------- MODULE AsyncWork_proofs ---------------------------
(***************************************************************************)
(* Proofs about AsyncWork, for any set of addresses, any window of works    *)
(* and all sizes of the queues.                                             *)
(*                                                                          *)
(* The inductive invariant Managed relates the places where a work is       *)
(* known: its step, the reference in the wr_id, the poll that submits it,   *)
(* the request in the device, and the driver that completes it.             *)
(***************************************************************************)
EXTENDS AsyncWork, FiniteSetTheorems, TLAPS

\* The request is out, and the wr_id holds a reference, from the post to
\* Work::complete, which is when the step is Running or is about to be.
Outstanding(w) ==
  /\ loc[w] # "none" <=> step[w] = "Running" \/ poller[w] = "finish"
  /\ raw[w] <=> step[w] = "Running" \/ poller[w] # "idle"

\* A poll that submits works for a future, on a Poisoned step; the driver
\* completes a work whose request came back.
Callers(w) ==
  /\ poller[w] # "idle" => step[w] = "Poisoned" /\ fut[w] /\ op[w] = "held"
  /\ cur = w => step[w] \in {"Completed", "Invalid", "Poisoned"} /\ poller[w] = "idle"

\* A work is allocated while somebody refers to it.
Referred(w) ==
  /\ fut[w] => step[w] # "Free"
  /\ step[w] # "Free" => fut[w] \/ raw[w] \/ cur = w
  /\ step[w] = "Pending" => fut[w]

\* The operation is in the state in the steps that drop it or give it out.
OpHeld(w) ==
  /\ step[w] \in {"Pending", "Running", "Completed"} => op[w] = "held"
  /\ ~Repoll /\ step[w] = "Poisoned" => op[w] = "held"

Lifecycle == \A w \in Work : Outstanding(w) /\ Callers(w) /\ Referred(w) /\ OpHeld(w)

\* Every work holds a clone of the queue pair.
QpHeld == conn \/ Allocated # {} => qp

\* The window of works.
WindowFits == IsFiniteSet(Allocated) /\ Cardinality(Allocated) =< Window

\* What the driver is doing.
DriverState == cur # None => driver = "complete"

\* A work at a time: the queue is armed from before the post to the completion,
\* which then leaves an event for a driver that is not polling.
OneAtATime ==
  Window = 1 =>
    /\ \A w \in Work : poller[w] = "post" \/ loc[w] = "hw" => armed
    /\ \A w \in Work : loc[w] = "cq" => events > 0 \/ driver \in {"poll", "dead"}

FaultFree == StepsInOrder /\ (~Repoll => OpDroppedOnce)

Managed ==
  /\ TypeOK
  /\ Lifecycle
  /\ QpHeld
  /\ WindowFits
  /\ DriverState
  /\ OneAtATime
  /\ FaultFree

-------------------------------------------------------------------------------
(***************************************************************************)
(* Facts about the sets of works, and the steps that leave them alone       *)
(***************************************************************************)
LEMMA OutstandingAllocated ==
  ASSUME Managed, NEW w \in Work, loc[w] # "none" \/ raw[w] \/ poller[w] # "idle" \/ fut[w] \/ cur = w
  PROVE  step[w] # "Free"
BY DEF Managed, Lifecycle, Outstanding, Callers, Referred, TypeOK

\* With a window of one, there is one work.
LEMMA OneWork ==
  ASSUME Managed, Window = 1, NEW v \in Allocated, NEW w \in Allocated
  PROVE  v = w
<1> SUFFICES ASSUME v # w PROVE FALSE OBVIOUS
<1>1. IsFiniteSet({v}) /\ Cardinality({v}) = 1 BY FS_Singleton
<1>2. Cardinality({v} \cup {w}) = 2
  <2>1. Cardinality({v} \cup {w}) = IF w \in {v} THEN Cardinality({v}) ELSE Cardinality({v}) + 1
    BY <1>1, FS_AddElement
  <2> QED BY <1>1, <2>1
<1>3. {v} \cup {w} \in SUBSET Allocated OBVIOUS
<1>4. Cardinality({v} \cup {w}) =< Cardinality(Allocated) BY <1>3, FS_Subset DEF Managed, WindowFits
<1>5. Cardinality(Allocated) \in Nat BY FS_CardinalityType DEF Managed, WindowFits
<1> QED BY <1>2, <1>4, <1>5 DEF Managed, WindowFits

LEMMA AllocatedFrame ==
  ASSUME Managed, UNCHANGED <<conn, qp>>, \A w \in Work : step'[w] = "Free" <=> step[w] = "Free"
  PROVE  QpHeld' /\ WindowFits'
<1> Allocated' = Allocated BY DEF Allocated
<1> QED BY DEF Managed, QpHeld, WindowFits

\* A step about one work leaves the others as they are.
SameWork(v) ==
  /\ step'[v] = step[v] /\ op'[v] = op[v]
  /\ fut'[v] = fut[v] /\ raw'[v] = raw[v]
  /\ poller'[v] = poller[v] /\ loc'[v] = loc[v]
  /\ cur' = v <=> cur = v

LEMMA LifecycleFrame ==
  ASSUME Managed, NEW w \in Work, \A v \in Work \ {w} : SameWork(v),
         (Outstanding(w) /\ Callers(w) /\ Referred(w) /\ OpHeld(w))'
  PROVE  Lifecycle'
<1> SUFFICES ASSUME NEW v \in Work \ {w}
             PROVE  (Outstanding(v) /\ Callers(v) /\ Referred(v) /\ OpHeld(v))'
  BY DEF Lifecycle
<1> SameWork(v) OBVIOUS
<1> Outstanding(v) /\ Callers(v) /\ Referred(v) /\ OpHeld(v) BY DEF Managed, Lifecycle
<1>1. Outstanding(v)' BY DEF Outstanding, SameWork
<1>2. Callers(v)' BY DEF Callers, SameWork
<1>3. Referred(v)' BY DEF Referred, SameWork
<1>4. OpHeld(v)' BY DEF OpHeld, SameWork
<1> QED BY <1>1, <1>2, <1>3, <1>4

LEMMA InitManaged == Init => Managed
<1> SUFFICES ASSUME Init PROVE Managed OBVIOUS
<1> USE DEF Init
<1>1. TypeOK
  <2>1. 0 \in 0..MaxEvents BY BoundsAssumption DEF BoundsAssumption
  <2> QED BY <2>1 DEF TypeOK, Step
<1>2. Lifecycle BY WorkAssumption DEF WorkAssumption, Lifecycle, Outstanding, Callers, Referred, OpHeld
<1>3. Allocated = {} BY DEF Allocated
<1>4. QpHeld BY DEF QpHeld
<1>5. WindowFits BY <1>3, FS_EmptySet, BoundsAssumption DEF BoundsAssumption, WindowFits
<1>6. DriverState /\ OneAtATime BY DEF DriverState, OneAtATime
<1>7. FaultFree BY DEF FaultFree, StepsInOrder, OpDroppedOnce
<1> QED BY <1>1, <1>2, <1>4, <1>5, <1>6, <1>7 DEF Managed

-------------------------------------------------------------------------------
(***************************************************************************)
(* Future::poll                                                             *)
(***************************************************************************)
LEMMA PollSubmitManaged == ASSUME Managed, NEW w \in Work, PollSubmit(w) PROVE Managed'
<1> USE DEF Managed, PollSubmit, CanPoll, queue
<1>1. TypeOK' BY DEF TypeOK, Step
<1>2. Lifecycle'
  <2>1. \A v \in Work \ {w} : SameWork(v) BY DEF SameWork, TypeOK
  <2>2. (Outstanding(w) /\ Callers(w) /\ Referred(w) /\ OpHeld(w))'
    BY DEF Lifecycle, Outstanding, Callers, Referred, OpHeld, TypeOK
  <2> QED BY <2>1, <2>2, LifecycleFrame
<1>3. QpHeld' /\ WindowFits'
  <2>1. \A v \in Work : step'[v] = "Free" <=> step[v] = "Free" BY DEF TypeOK
  <2> QED BY <2>1, AllocatedFrame
<1>4. OneAtATime' BY DEF OneAtATime, TypeOK
<1>5. DriverState' /\ FaultFree' BY DEF DriverState, FaultFree, StepsInOrder, OpDroppedOnce
<1> QED BY <1>1, <1>2, <1>3, <1>4, <1>5

LEMMA ReqNotifyManaged == ASSUME Managed, NEW w \in Work, ReqNotify(w) PROVE Managed'
<1> USE DEF Managed, ReqNotify, task
<1>1. TypeOK' BY DEF TypeOK
<1>2. Lifecycle'
  <2>1. \A v \in Work \ {w} : SameWork(v) BY DEF SameWork, TypeOK
  <2>2. (Outstanding(w) /\ Callers(w) /\ Referred(w) /\ OpHeld(w))'
    BY DEF Lifecycle, Outstanding, Callers, Referred, OpHeld, TypeOK
  <2> QED BY <2>1, <2>2, LifecycleFrame
<1>3. QpHeld' /\ WindowFits' BY AllocatedFrame
<1>4. OneAtATime' BY DEF OneAtATime, TypeOK
<1>5. DriverState' /\ FaultFree' BY DEF DriverState, FaultFree, StepsInOrder, OpDroppedOnce
<1> QED BY <1>1, <1>2, <1>3, <1>4, <1>5

LEMMA PostManaged == ASSUME Managed, NEW w \in Work, Post(w) PROVE Managed'
<1> USE DEF Managed, Post, task, queue
<1>1. TypeOK' BY DEF TypeOK
<1>2. Lifecycle'
  <2>1. \A v \in Work \ {w} : SameWork(v) BY DEF SameWork, TypeOK
  <2>2. (Outstanding(w) /\ Callers(w) /\ Referred(w) /\ OpHeld(w))'
    BY DEF Lifecycle, Outstanding, Callers, Referred, OpHeld, TypeOK
  <2> QED BY <2>1, <2>2, LifecycleFrame
<1>3. QpHeld' /\ WindowFits' BY AllocatedFrame
<1>4. OneAtATime' BY DEF OneAtATime, TypeOK
<1>5. DriverState' /\ FaultFree' BY DEF DriverState, FaultFree, StepsInOrder, OpDroppedOnce
<1> QED BY <1>1, <1>2, <1>3, <1>4, <1>5

LEMMA PollPendingManaged == ASSUME Managed, NEW w \in Work, PollPending(w) PROVE Managed'
<1> USE DEF Managed, PollPending, queue
<1>1. TypeOK' BY DEF TypeOK, Step
<1>2. Lifecycle'
  <2>1. \A v \in Work \ {w} : SameWork(v) BY DEF SameWork, TypeOK
  <2>2. (Outstanding(w) /\ Callers(w) /\ Referred(w) /\ OpHeld(w))'
    BY DEF Lifecycle, Outstanding, Callers, Referred, OpHeld, TypeOK
  <2> QED BY <2>1, <2>2, LifecycleFrame
<1>3. QpHeld' /\ WindowFits'
  <2>1. \A v \in Work : step'[v] = "Free" <=> step[v] = "Free" BY OutstandingAllocated DEF TypeOK
  <2> QED BY <2>1, AllocatedFrame
<1>4. OneAtATime' BY DEF OneAtATime, TypeOK
<1>5. DriverState' /\ FaultFree' BY DEF DriverState, FaultFree, StepsInOrder, OpDroppedOnce
<1> QED BY <1>1, <1>2, <1>3, <1>4, <1>5

LEMMA SubmitFailsManaged == ASSUME Managed, NEW w \in Work, SubmitFails(w) PROVE Managed'
<1> USE DEF Managed, SubmitFails, task, queue
<1>1. TypeOK' BY DEF TypeOK, Step
<1>2. Lifecycle'
  <2>1. \A v \in Work \ {w} : SameWork(v) BY DEF SameWork, TypeOK
  <2>2. (Outstanding(w) /\ Callers(w) /\ Referred(w) /\ OpHeld(w))'
    BY DEF Lifecycle, Outstanding, Callers, Referred, OpHeld, TypeOK
  <2> QED BY <2>1, <2>2, LifecycleFrame
<1>3. QpHeld' /\ WindowFits'
  <2>1. \A v \in Work : step'[v] = "Free" <=> step[v] = "Free" BY OutstandingAllocated DEF TypeOK
  <2> QED BY <2>1, AllocatedFrame
<1>4. OneAtATime' BY DEF OneAtATime, TypeOK
<1>5. DriverState' /\ FaultFree' BY DEF DriverState, FaultFree, StepsInOrder, OpDroppedOnce
<1> QED BY <1>1, <1>2, <1>3, <1>4, <1>5

LEMMA SubmitPanicsManaged == ASSUME Managed, NEW w \in Work, SubmitPanics(w) PROVE Managed'
<1> USE DEF Managed, SubmitPanics, task, queue
<1>1. TypeOK' BY DEF TypeOK
<1>2. Lifecycle'
  <2>1. \A v \in Work \ {w} : SameWork(v) BY DEF SameWork, TypeOK
  <2>2. (Outstanding(w) /\ Callers(w) /\ Referred(w) /\ OpHeld(w))'
    BY DEF Lifecycle, Outstanding, Callers, Referred, OpHeld, TypeOK
  <2> QED BY <2>1, <2>2, LifecycleFrame
<1>3. QpHeld' /\ WindowFits' BY AllocatedFrame
<1>4. OneAtATime' BY DEF OneAtATime, TypeOK
<1>5. DriverState' /\ FaultFree' BY DEF DriverState, FaultFree, StepsInOrder, OpDroppedOnce
<1> QED BY <1>1, <1>2, <1>3, <1>4, <1>5

LEMMA PollRunningManaged == ASSUME Managed, NEW w \in Work, PollRunning(w) PROVE Managed'
<1> USE DEF Managed, PollRunning, CanPoll, queue
<1>1. TypeOK' BY DEF TypeOK
<1>2. Lifecycle'
  <2>1. \A v \in Work \ {w} : SameWork(v) BY DEF SameWork, TypeOK
  <2>2. (Outstanding(w) /\ Callers(w) /\ Referred(w) /\ OpHeld(w))'
    BY DEF Lifecycle, Outstanding, Callers, Referred, OpHeld, TypeOK
  <2> QED BY <2>1, <2>2, LifecycleFrame
<1>3. QpHeld' /\ WindowFits' BY AllocatedFrame
<1>4. OneAtATime' BY DEF OneAtATime, TypeOK
<1>5. DriverState' /\ FaultFree' BY DEF DriverState, FaultFree, StepsInOrder, OpDroppedOnce
<1> QED BY <1>1, <1>2, <1>3, <1>4, <1>5

LEMMA PollReadyManaged == ASSUME Managed, NEW w \in Work, PollReady(w) PROVE Managed'
<1> USE DEF Managed, PollReady, CanPoll, queue
<1>1. TypeOK' BY DEF TypeOK, Step
<1>2. Lifecycle'
  <2>1. \A v \in Work \ {w} : SameWork(v) BY DEF SameWork, TypeOK
  <2>2. (Outstanding(w) /\ Callers(w) /\ Referred(w) /\ OpHeld(w))'
    BY DEF Lifecycle, Outstanding, Callers, Referred, OpHeld, TypeOK
  <2> QED BY <2>1, <2>2, LifecycleFrame
<1>3. QpHeld' /\ WindowFits'
  <2>1. \A v \in Work : step'[v] = "Free" <=> step[v] = "Free" BY DEF TypeOK
  <2> QED BY <2>1, AllocatedFrame
<1>4. OneAtATime' BY DEF OneAtATime, TypeOK
<1>5. DriverState' /\ FaultFree' BY DEF DriverState, FaultFree, StepsInOrder, OpDroppedOnce
<1> QED BY <1>1, <1>2, <1>3, <1>4, <1>5

LEMMA PollPanicsManaged == ASSUME Managed, NEW w \in Work, PollPanics(w) PROVE Managed'
<1> USE DEF Managed, PollPanics, CanPoll, queue
<1>1. TypeOK' BY DEF TypeOK, Step
<1>2. Lifecycle'
  <2>1. \A v \in Work \ {w} : SameWork(v) BY DEF SameWork, TypeOK
  <2>2. (Outstanding(w) /\ Callers(w) /\ Referred(w) /\ OpHeld(w))'
    BY DEF Lifecycle, Outstanding, Callers, Referred, OpHeld, TypeOK
  <2> QED BY <2>1, <2>2, LifecycleFrame
<1>3. QpHeld' /\ WindowFits'
  <2>1. \A v \in Work : step'[v] = "Free" <=> step[v] = "Free" BY DEF TypeOK
  <2> QED BY <2>1, AllocatedFrame
<1>4. OneAtATime' BY DEF OneAtATime, TypeOK
<1>5. DriverState' /\ FaultFree' BY DEF DriverState, FaultFree, StepsInOrder, OpDroppedOnce
<1> QED BY <1>1, <1>2, <1>3, <1>4, <1>5

-------------------------------------------------------------------------------
(***************************************************************************)
(* Making and dropping works                                                *)
(***************************************************************************)
LEMMA NewManaged ==
  ASSUME Managed, NEW w \in Work, NEW k \in {"send", "recv"}, New(w, k)
  PROVE  Managed'
<1> USE DEF Managed, New, queue
<1>1. TypeOK' BY DEF TypeOK, Step
<1>2. Lifecycle'
  <2>1. \A v \in Work \ {w} : SameWork(v) BY DEF SameWork, TypeOK
  <2>2. (Outstanding(w) /\ Callers(w) /\ Referred(w) /\ OpHeld(w))'
    BY DEF Lifecycle, Outstanding, Callers, Referred, OpHeld, TypeOK
  <2> QED BY <2>1, <2>2, LifecycleFrame
<1>3. QpHeld' BY DEF QpHeld
<1>4. WindowFits'
  <2>1. Allocated' = Allocated \cup {w} /\ w \notin Allocated BY DEF Allocated, TypeOK
  <2>2. IsFiniteSet(Allocated) BY DEF WindowFits
  <2>3. IsFiniteSet(Allocated') /\ Cardinality(Allocated') = Cardinality(Allocated) + 1
    BY <2>1, <2>2, FS_AddElement
  <2>4. Cardinality(Allocated) \in Nat BY <2>2, FS_CardinalityType
  <2> QED BY <2>3, <2>4, BoundsAssumption DEF BoundsAssumption, WindowFits
<1>5. OneAtATime' BY DEF OneAtATime, TypeOK
<1>6. DriverState' /\ FaultFree' BY DEF DriverState, FaultFree, StepsInOrder, OpDroppedOnce
<1> QED BY <1>1, <1>2, <1>3, <1>4, <1>5, <1>6

\* State::drop of a work whose request is not out: the queue pair goes with the
\* last one, and the operation is dropped once unless a future is polled again.
LEMMA DropStateParts ==
  ASSUME Managed, NEW w \in Work, DropState(w), UNCHANGED conn, ~raw[w]
  PROVE  QpHeld' /\ WindowFits' /\ FaultFree'
<1> USE DEF Managed
<1>1. Allocated' = Allocated \ {w} BY DEF DropState, Allocated, TypeOK
<1>2. QpHeld' BY <1>1 DEF DropState, QpHeld
<1>3. WindowFits'
  <2>1. Allocated' \in SUBSET Allocated /\ IsFiniteSet(Allocated) BY <1>1 DEF WindowFits
  <2>2. IsFiniteSet(Allocated') /\ Cardinality(Allocated') =< Cardinality(Allocated)
    BY <2>1, FS_Subset
  <2>3. Cardinality(Allocated) \in Nat /\ Cardinality(Allocated') \in Nat
    BY <2>1, <2>2, FS_CardinalityType
  <2> QED BY <2>2, <2>3, BoundsAssumption DEF BoundsAssumption, WindowFits
<1>4. FaultFree'
  <2>1. step[w] # "Running" BY DEF Lifecycle, Outstanding
  <2>2. ~Repoll /\ step[w] \in {"Pending", "Completed", "Poisoned"} => op[w] = "held"
    BY DEF Lifecycle, OpHeld
  <2> QED BY <2>1, <2>2 DEF DropState, FaultFree, StepsInOrder, OpDroppedOnce
<1> QED BY <1>2, <1>3, <1>4

LEMMA DropFutureManaged == ASSUME Managed, NEW w \in Work, DropFuture(w) PROVE Managed'
<1> USE DEF Managed, DropFuture, queue
<1>1. OneAtATime' /\ DriverState' BY DEF OneAtATime, DriverState
<1>2. CASE raw[w] \/ cur = w
  <2> USE <1>2 DEF Release, task
  <2>1. TypeOK' BY DEF TypeOK
  <2>2. Lifecycle'
    <3>1. \A v \in Work \ {w} : SameWork(v) BY DEF SameWork, TypeOK
    <3>2. (Outstanding(w) /\ Callers(w) /\ Referred(w) /\ OpHeld(w))'
      BY DEF Lifecycle, Outstanding, Callers, Referred, OpHeld, TypeOK
    <3> QED BY <3>1, <3>2, LifecycleFrame
  <2>3. QpHeld' /\ WindowFits' BY AllocatedFrame
  <2>4. FaultFree' BY DEF FaultFree, StepsInOrder, OpDroppedOnce
  <2> QED BY <1>1, <2>1, <2>2, <2>3, <2>4
<1>3. CASE ~(raw[w] \/ cur = w)
  <2>1. DropState(w) BY <1>3 DEF Release
  <2>2. TypeOK'
    <3>1. qp' \in BOOLEAN BY <2>1 DEF DropState
    <3>2. fault' \subseteq {"double drop", "dropped while running", "completed when not running"}
      BY <2>1 DEF DropState, TypeOK
    <3>3. fut' \in [Work -> BOOLEAN] /\ waker' \in [Work -> BOOLEAN] /\ sched' \in [Work -> BOOLEAN]
      BY <2>1 DEF DropState, TypeOK
    <3>4. step' \in [Work -> Step] /\ op' \in [Work -> {"none", "held", "taken"}]
      BY <2>1 DEF DropState, TypeOK, Step
    <3> QED BY <3>1, <3>2, <3>3, <3>4 DEF TypeOK
  <2>3. Lifecycle'
    <3>1. \A v \in Work \ {w} : SameWork(v) BY <2>1 DEF SameWork, TypeOK, DropState
    <3>2. (Outstanding(w) /\ Callers(w) /\ Referred(w) /\ OpHeld(w))'
      BY <1>3, <2>1 DEF DropState, Lifecycle, Outstanding, Callers, Referred, OpHeld, TypeOK
    <3> QED BY <3>1, <3>2, LifecycleFrame
  <2>4. QpHeld' /\ WindowFits' /\ FaultFree' BY <1>3, <2>1, DropStateParts
  <2> QED BY <1>1, <2>2, <2>3, <2>4
<1> QED BY <1>2, <1>3

LEMMA DropConnManaged == ASSUME Managed, DropConn PROVE Managed'
<1> USE DEF Managed, DropConn, queue, task
<1>1. TypeOK' BY DEF TypeOK
<1>2. Lifecycle' BY DEF Lifecycle, Outstanding, Callers, Referred, OpHeld
<1>3. Allocated' = Allocated BY DEF Allocated
<1>4. QpHeld' /\ WindowFits' BY <1>3 DEF QpHeld, WindowFits
<1>5. OneAtATime' /\ DriverState' /\ FaultFree'
  BY DEF OneAtATime, DriverState, FaultFree, StepsInOrder, OpDroppedOnce
<1> QED BY <1>1, <1>2, <1>4, <1>5

LEMMA ConnectManaged == ASSUME Managed, Connect PROVE Managed'
<1> USE DEF Managed, Connect, queue, task
<1>1. TypeOK' BY DEF TypeOK
<1>2. Lifecycle' BY DEF Lifecycle, Outstanding, Callers, Referred, OpHeld
<1>3. Allocated' = Allocated BY DEF Allocated
<1>4. QpHeld' /\ WindowFits' BY <1>3 DEF QpHeld, WindowFits
<1>5. OneAtATime' /\ DriverState' /\ FaultFree'
  BY DEF OneAtATime, DriverState, FaultFree, StepsInOrder, OpDroppedOnce
<1> QED BY <1>1, <1>2, <1>4, <1>5

-------------------------------------------------------------------------------
(***************************************************************************)
(* The device and the driver                                                *)
(***************************************************************************)
LEMMA NicCompleteManaged == ASSUME Managed, NEW w \in Work, NicComplete(w) PROVE Managed'
<1> USE DEF Managed, NicComplete, task
<1>1. TypeOK'
  <2>0. events \in 0..MaxEvents BY DEF TypeOK
  <2>1. events' \in 0..MaxEvents BY <2>0, BoundsAssumption DEF BoundsAssumption
  <2> QED BY <2>1 DEF TypeOK
<1>2. Lifecycle'
  <2>1. \A v \in Work \ {w} : SameWork(v) BY DEF SameWork, TypeOK
  <2>2. (Outstanding(w) /\ Callers(w) /\ Referred(w) /\ OpHeld(w))'
    BY DEF Lifecycle, Outstanding, Callers, Referred, OpHeld, TypeOK
  <2> QED BY <2>1, <2>2, LifecycleFrame
<1>3. QpHeld' /\ WindowFits' BY AllocatedFrame
<1>4. OneAtATime'
  <2> SUFFICES ASSUME Window = 1, NEW v \in Work
               PROVE  /\ ~(poller'[v] = "post" \/ loc'[v] = "hw")
                      /\ loc'[v] = "cq" => events' > 0
    BY DEF OneAtATime
  <2>1. loc[v] # "none" \/ poller[v] # "idle" => v = w
    BY OneWork, OutstandingAllocated DEF Allocated
  <2>2. poller[w] # "post" /\ loc'[w] = "cq" BY DEF Lifecycle, Outstanding, Callers, TypeOK
  <2>3. events' > 0
    <3>1. armed BY DEF OneAtATime
    <3>2. events \in 0..MaxEvents BY DEF TypeOK
    <3> QED BY <3>1, <3>2
  <2>4. loc'[v] # loc[v] => v = w BY DEF TypeOK
  <2> QED BY <2>1, <2>2, <2>3, <2>4
<1>5. DriverState' /\ FaultFree' BY DEF DriverState, FaultFree, StepsInOrder, OpDroppedOnce
<1> QED BY <1>1, <1>2, <1>3, <1>4, <1>5

LEMMA DriverWaitManaged == ASSUME Managed, DriverWait PROVE Managed'
<1> USE DEF Managed, DriverWait, task
<1>1. TypeOK'
  <2>0. events \in 0..MaxEvents BY DEF TypeOK
  <2>1. events' \in 0..MaxEvents BY <2>0, BoundsAssumption DEF BoundsAssumption
  <2> QED BY <2>1 DEF TypeOK
<1>2. Lifecycle' BY DEF Lifecycle, Outstanding, Callers, Referred, OpHeld
<1>3. QpHeld' /\ WindowFits' BY AllocatedFrame
<1>4. OneAtATime' /\ DriverState' BY DEF OneAtATime, DriverState
<1>5. FaultFree' BY DEF FaultFree, StepsInOrder, OpDroppedOnce
<1> QED BY <1>1, <1>2, <1>3, <1>4, <1>5

LEMMA DriverFailsManaged == ASSUME Managed, DriverFails PROVE Managed'
<1> USE DEF Managed, DriverFails, task, queue
<1>1. TypeOK' BY DEF TypeOK
<1>2. Lifecycle' BY DEF Lifecycle, Outstanding, Callers, Referred, OpHeld
<1>3. QpHeld' /\ WindowFits' BY AllocatedFrame
<1>4. OneAtATime' /\ DriverState' BY DEF OneAtATime, DriverState
<1>5. FaultFree' BY DEF FaultFree, StepsInOrder, OpDroppedOnce
<1> QED BY <1>1, <1>2, <1>3, <1>4, <1>5

LEMMA DriverPollManaged == ASSUME Managed, DriverPoll PROVE Managed'
<1> USE DEF Managed, DriverPoll, task, queue
<1>0. \A w \in Work : loc'[w] = IF loc[w] = "cq" THEN "batch" ELSE loc[w] OBVIOUS
<1>1. TypeOK'
  <2>1. loc' \in [Work -> {"none", "hw", "cq", "batch"}] BY DEF TypeOK
  <2>2. driver' \in {"wait", "poll", "complete", "dead"} OBVIOUS
  <2> QED BY <2>1, <2>2 DEF TypeOK
<1>2. Lifecycle'
  <2> SUFFICES ASSUME NEW w \in Work PROVE (Outstanding(w) /\ Callers(w) /\ Referred(w) /\ OpHeld(w))'
    BY DEF Lifecycle
  <2>1. loc'[w] # "none" <=> loc[w] # "none" BY <1>0
  <2>2. Outstanding(w)' BY <2>1 DEF Lifecycle, Outstanding
  <2>3. Callers(w)' /\ Referred(w)' /\ OpHeld(w)' BY DEF Lifecycle, Callers, Referred, OpHeld
  <2> QED BY <2>2, <2>3
<1>3. QpHeld' /\ WindowFits' BY AllocatedFrame
<1>4. OneAtATime' BY <1>0 DEF OneAtATime
<1>5. DriverState' BY DEF DriverState
<1>6. FaultFree' BY DEF FaultFree, StepsInOrder, OpDroppedOnce
<1> QED BY <1>1, <1>2, <1>3, <1>4, <1>5, <1>6

LEMMA CompleteManaged == ASSUME Managed, NEW w \in Work, Complete(w) PROVE Managed'
<1> USE DEF Managed, queue
<1>0. step[w] = "Running" /\ poller[w] = "idle"
  BY DEF Complete, Lifecycle, Outstanding
<1>1. /\ step' = [step EXCEPT ![w] = "Completed"]
      /\ fault' = fault /\ driver' = driver /\ driver = "complete"
      /\ loc' = [loc EXCEPT ![w] = "none"]
      /\ raw' = [raw EXCEPT ![w] = FALSE]
      /\ cur' = w /\ cur = None
      /\ sched' = [sched EXCEPT ![w] = @ \/ waker[w]]
      /\ UNCHANGED <<kind, op, fut, poller, waker, queue, conn, qp>>
  BY <1>0 DEF Complete, TypeOK
<1>2. TypeOK'
  <2>1. sched' \in [Work -> BOOLEAN] /\ raw' \in [Work -> BOOLEAN] BY <1>1 DEF TypeOK
  <2> QED BY <1>1, <2>1 DEF TypeOK, Step
<1>3. Lifecycle'
  <2>1. \A v \in Work \ {w} : SameWork(v)
    BY <1>1, WorkAssumption DEF WorkAssumption, SameWork, TypeOK
  <2>2. (Outstanding(w) /\ Callers(w) /\ Referred(w) /\ OpHeld(w))'
    BY <1>0, <1>1 DEF Lifecycle, Outstanding, Callers, Referred, OpHeld, TypeOK
  <2> QED BY <2>1, <2>2, LifecycleFrame
<1>4. QpHeld' /\ WindowFits'
  <2>1. \A v \in Work : step'[v] = "Free" <=> step[v] = "Free" BY <1>0, <1>1 DEF TypeOK
  <2> QED BY <1>1, <2>1, AllocatedFrame
<1>5. OneAtATime' BY <1>1 DEF OneAtATime, TypeOK
<1>6. DriverState' /\ FaultFree' BY <1>1 DEF DriverState, FaultFree, StepsInOrder, OpDroppedOnce
<1> QED BY <1>2, <1>3, <1>4, <1>5, <1>6

LEMMA CompleteReturnsManaged == ASSUME Managed, CompleteReturns PROVE Managed'
<1> USE DEF Managed, queue
<1> PICK w \in Work : w = cur BY DEF CompleteReturns, TypeOK
<1>0. /\ w # None /\ cur' = None /\ driver = "complete"
      /\ driver' \in {"complete", "poll"}
      /\ Release(w, fut[w])
      /\ UNCHANGED <<kind, fut, raw, poller, loc, queue, conn>>
  BY DEF CompleteReturns, TypeOK
<1>1. ~raw[w] /\ loc[w] = "none" /\ poller[w] = "idle"
  BY <1>0 DEF Lifecycle, Outstanding, Callers
<1>2. OneAtATime' /\ DriverState' BY <1>0 DEF OneAtATime, DriverState
<1>3. CASE fut[w]
  <2>1. UNCHANGED <<step, op, fault, waker, sched, qp>> BY <1>0, <1>3 DEF Release, task
  <2>2. TypeOK' BY <1>0, <2>1 DEF TypeOK
  <2>3. Lifecycle'
    <3>1. \A v \in Work \ {w} : SameWork(v)
      BY <1>0, <2>1, WorkAssumption DEF WorkAssumption, SameWork
    <3>2. (Outstanding(w) /\ Callers(w) /\ Referred(w) /\ OpHeld(w))'
      BY <1>0, <1>3, <2>1 DEF Lifecycle, Outstanding, Callers, Referred, OpHeld
    <3> QED BY <1>0, <3>1, <3>2, LifecycleFrame
  <2>4. QpHeld' /\ WindowFits' BY <1>0, <2>1, AllocatedFrame
  <2>5. FaultFree' BY <2>1 DEF FaultFree, StepsInOrder, OpDroppedOnce
  <2> QED BY <1>2, <2>2, <2>3, <2>4, <2>5
<1>4. CASE ~fut[w]
  <2>1. DropState(w) BY <1>0, <1>4 DEF Release
  <2>2. TypeOK'
    <3>1. qp' \in BOOLEAN BY <2>1 DEF DropState
    <3>2. fault' \subseteq {"double drop", "dropped while running", "completed when not running"}
      BY <2>1 DEF DropState, TypeOK
    <3>3. waker' \in [Work -> BOOLEAN] /\ sched' \in [Work -> BOOLEAN]
      BY <2>1 DEF DropState, TypeOK
    <3>4. step' \in [Work -> Step] /\ op' \in [Work -> {"none", "held", "taken"}]
      BY <2>1 DEF DropState, TypeOK, Step
    <3> QED BY <1>0, <3>1, <3>2, <3>3, <3>4 DEF TypeOK
  <2>3. Lifecycle'
    <3>0. /\ step' = [step EXCEPT ![w] = "Free"]
          /\ op' = [op EXCEPT ![w] = "none"]
      BY <2>1 DEF DropState
    <3>1. \A v \in Work \ {w} : SameWork(v)
      BY <1>0, <3>0, WorkAssumption DEF WorkAssumption, SameWork, TypeOK
    <3>2. (Outstanding(w) /\ Callers(w) /\ Referred(w) /\ OpHeld(w))'
      BY <1>0, <1>1, <1>4, <3>0, WorkAssumption DEF WorkAssumption, Outstanding, Callers, Referred, OpHeld, TypeOK
    <3> QED BY <1>0, <3>1, <3>2, LifecycleFrame
  <2>4. QpHeld' /\ WindowFits' /\ FaultFree' BY <1>0, <1>1, <2>1, DropStateParts
  <2> QED BY <1>2, <2>2, <2>3, <2>4
<1> QED BY <1>3, <1>4

-------------------------------------------------------------------------------
LEMMA NextManaged == Managed /\ [Next]_vars => Managed'
<1> SUFFICES ASSUME Managed, [Next]_vars PROVE Managed' OBVIOUS
<1>1. ASSUME NEW w \in Work, (\E k \in {"send", "recv"} : New(w, k)) \/ DropFuture(w)
      PROVE  Managed'
  BY <1>1, NewManaged, DropFutureManaged
<1>2. ASSUME NEW w \in Work, Submit(w) PROVE Managed'
  BY <1>2, ReqNotifyManaged, PostManaged, PollPendingManaged, SubmitFailsManaged,
     SubmitPanicsManaged DEF Submit
<1>3. ASSUME NEW w \in Work, Poll(w) PROVE Managed'
  BY <1>3, PollSubmitManaged, PollRunningManaged, PollReadyManaged, PollPanicsManaged DEF Poll
<1>4. ASSUME NEW w \in Work, NicComplete(w) PROVE Managed'
  BY <1>4, NicCompleteManaged
<1>5. CASE DropConn \/ Connect BY <1>5, DropConnManaged, ConnectManaged
<1>6. CASE Drive \/ DriverFails
  BY <1>6, DriverWaitManaged, DriverPollManaged, CompleteManaged, CompleteReturnsManaged,
     DriverFailsManaged DEF Drive
<1>7. CASE UNCHANGED vars
  <2> USE <1>7 DEF vars, task, queue, Managed
  <2>1. TypeOK' BY DEF TypeOK
  <2>2. Lifecycle' BY DEF Lifecycle, Outstanding, Callers, Referred, OpHeld
  <2>3. QpHeld' /\ WindowFits' BY AllocatedFrame
  <2>4. OneAtATime' /\ DriverState' BY DEF OneAtATime, DriverState
  <2>5. FaultFree' BY DEF FaultFree, StepsInOrder, OpDroppedOnce
  <2> QED BY <2>1, <2>2, <2>3, <2>4, <2>5
<1> QED BY <1>1, <1>2, <1>3, <1>4, <1>5, <1>6, <1>7 DEF Next

LEMMA SpecManaged == Spec => []Managed
BY InitManaged, NextManaged, PTL DEF Spec

\* Works, the completion queue and the driver keep their types; the events in
\* the channel stay within the bound.
THEOREM TypeCorrect == Spec => []TypeOK
<1> Managed => TypeOK BY DEF Managed
<1> QED BY SpecManaged, PTL

\* While the device may access the memory of a posted request, the operation
\* with its buffers is in the state, the state is allocated and the queue pair
\* exists: cancelling the future and dropping the connection change nothing.
THEOREM BuffersOutliveDevice == Spec => []DeviceHasBuffers
<1>1. ASSUME Managed PROVE DeviceHasBuffers
  <2> SUFFICES ASSUME NEW w \in Work, loc[w] = "hw" PROVE op[w] = "held" /\ step[w] # "Free" /\ qp
    BY DEF DeviceHasBuffers
  <2>1. step[w] # "Free" BY <1>1, OutstandingAllocated
  <2>2. op[w] = "held" BY <1>1 DEF Managed, Lifecycle, Outstanding, Callers, OpHeld
  <2>3. w \in Allocated BY <2>1 DEF Allocated
  <2>4. qp BY <1>1, <2>3 DEF Managed, QpHeld
  <2> QED BY <2>1, <2>2, <2>4
<1> QED BY <1>1, SpecManaged, PTL

\* The wr_id of every request that is posted, completed or polled carries the
\* reference of Arc::into_raw, so Arc::from_raw in Work::complete finds the work
\* it was made for.
THEOREM WrIdCarriesReference == Spec => []WrIdValid
<1> Managed => WrIdValid
  BY OutstandingAllocated DEF Managed, Lifecycle, Outstanding, WrIdValid
<1> QED BY SpecManaged, PTL

\* The assertion of Work::complete finds the step Running, and State::drop never
\* sees a Running step, whatever the order of polls, cancellations and
\* completions.
THEOREM StepsAreInOrder == Spec => []StepsInOrder
<1> Managed => StepsInOrder BY DEF Managed, FaultFree
<1> QED BY SpecManaged, PTL

\* A future that is not polled after it returned or panicked has its operation
\* dropped or given out once: State::drop and Poll::Ready never both take it.
THEOREM OperationDroppedOnce ==
  ASSUME ~Repoll
  PROVE  Spec => []OpDroppedOnce
<1> Managed => OpDroppedOnce BY DEF Managed, FaultFree
<1> QED BY SpecManaged, PTL

\* With one work in flight at a time, RdmaDriver::run never blocks in
\* wait_cq_event while a completion is in the queue: arming before the post is
\* enough.  (With more it is not: a completion of one work disarms the queue
\* between the arming and the post of another.)
THEOREM SequentialDriverAwake ==
  ASSUME Window = 1
  PROVE  Spec => []NoSleepOnCompletion
<1> Managed => NoSleepOnCompletion BY DEF Managed, OneAtATime, NoSleepOnCompletion
<1> QED BY SpecManaged, PTL

-------------------------------------------------------------------------------
(***************************************************************************)
(* Wake-ups.  What NobodyForgotten needs besides Managed: the batch is with  *)
(* the driver, and a task is scheduled or has left its waker.                *)
(***************************************************************************)
Attended ==
  /\ \A w \in Work : loc[w] = "batch" => driver = "complete"
  /\ \A w \in Work : fut[w] /\ step[w] \in {"Pending", "Completed"} => sched[w]
  /\ \A w \in Work : fut[w] /\ step[w] = "Running" => waker[w]

LEMMA ProgramAttended ==
  ASSUME Managed, Attended, NEW w \in Work,
         (\E k \in {"send", "recv"} : New(w, k)) \/ DropFuture(w) \/ NicComplete(w)
  PROVE  Attended'
<1>0. TypeOK BY DEF Managed
<1>1. ASSUME NEW k \in {"send", "recv"}, New(w, k) PROVE Attended'
  <2>1. /\ sched'[w] = TRUE /\ step'[w] = "Pending" /\ UNCHANGED <<loc, driver, waker>>
        /\ \A v \in Work \ {w} : step'[v] = step[v] /\ sched'[v] = sched[v] /\ fut'[v] = fut[v]
    BY <1>0, <1>1 DEF New, TypeOK
  <2> QED BY <2>1 DEF Attended
<1>2. CASE DropFuture(w)
  <2>1. /\ UNCHANGED <<loc, driver>>
        /\ \A v \in Work \ {w} : step'[v] = step[v] /\ sched'[v] = sched[v] /\ waker'[v] = waker[v]
    BY <1>0, <1>2 DEF DropFuture, Release, DropState, TypeOK, task
  <2>2. fut'[w] = FALSE /\ \A v \in Work \ {w} : fut'[v] = fut[v]
    BY <1>0, <1>2 DEF DropFuture, TypeOK
  <2>3. \A v \in Work : loc'[v] = "batch" => driver' = "complete" BY <2>1 DEF Attended
  <2>4. \A v \in Work : fut'[v] /\ step'[v] \in {"Pending", "Completed"} => sched'[v]
    BY <2>1, <2>2 DEF Attended
  <2>5. \A v \in Work : fut'[v] /\ step'[v] = "Running" => waker'[v] BY <2>1, <2>2 DEF Attended
  <2> QED BY <2>3, <2>4, <2>5 DEF Attended
<1>3. CASE NicComplete(w) BY <1>0, <1>3 DEF NicComplete, Attended, TypeOK, task
<1> QED BY <1>1, <1>2, <1>3

LEMMA PollAttended ==
  ASSUME Managed, Attended, NEW w \in Work, Submit(w) \/ Poll(w)
  PROVE  Attended'
<1> USE DEF Managed, Attended, TypeOK, task, queue
<1>1. CASE ReqNotify(w) BY <1>1 DEF ReqNotify
<1>2. CASE Post(w) BY <1>2 DEF Post
<1>3. CASE PollPending(w) BY <1>3 DEF PollPending
<1>4. CASE SubmitFails(w) BY <1>4 DEF SubmitFails
<1>5. CASE SubmitPanics(w) BY <1>5 DEF SubmitPanics
<1>6. CASE PollSubmit(w) BY <1>6 DEF PollSubmit, CanPoll
<1>7. CASE PollRunning(w) BY <1>7 DEF PollRunning, CanPoll
<1>8. CASE PollReady(w) BY <1>8 DEF PollReady, CanPoll
<1>9. CASE PollPanics(w) BY <1>9 DEF PollPanics
<1> QED BY <1>1, <1>2, <1>3, <1>4, <1>5, <1>6, <1>7, <1>8, <1>9 DEF Submit, Poll

LEMMA DriverAttended ==
  ASSUME Managed, Attended, Drive \/ DriverFails
  PROVE  Attended'
<1> USE DEF Managed, Attended, TypeOK, task, queue
<1>1. CASE DriverWait BY <1>1 DEF DriverWait
<1>2. CASE DriverPoll BY <1>2 DEF DriverPoll
<1>3. CASE DriverFails BY <1>3 DEF DriverFails
<1>4. ASSUME NEW w \in Work, Complete(w) PROVE Attended'
  <2>1. step[w] = "Running" BY <1>4 DEF Complete, Lifecycle, Outstanding
  <2> QED BY <1>4, <2>1 DEF Complete
<1>5. CASE CompleteReturns
  <2>1. cur \in Work BY <1>5 DEF CompleteReturns
  <2>2. UNCHANGED <<fut, loc>> /\ driver' = IF \E w \in Work : loc[w] = "batch" THEN "complete" ELSE "poll"
    BY <1>5 DEF CompleteReturns
  <2>3. \A v \in Work : fut[v] => step'[v] = step[v] /\ sched'[v] = sched[v] /\ waker'[v] = waker[v]
    BY <1>5, <2>1 DEF CompleteReturns, Release, DropState
  <2> QED BY <2>2, <2>3
<1> QED BY <1>1, <1>2, <1>3, <1>4, <1>5 DEF Drive

LEMMA SpecAttended == Spec => []Attended
<1>1. Init => Attended BY DEF Init, Attended
<1>2. Managed /\ Attended /\ [Next]_vars => Attended'
  <2> SUFFICES ASSUME Managed, Attended, [Next]_vars PROVE Attended' OBVIOUS
  <2>1. CASE DropConn \/ Connect BY <2>1 DEF DropConn, Connect, Attended, task
  <2>2. CASE UNCHANGED vars BY <2>2 DEF vars, Attended, task
  <2> QED BY <2>1, <2>2, ProgramAttended, PollAttended, DriverAttended DEF Next
<1> QED BY <1>1, <1>2, SpecManaged, PTL DEF Spec

\* Every future that has not ended is in somebody's hands, for any number of works
\* and however the driver fares: FutureResolves can only fail where a completion
\* waits in the queue and the driver sleeps or is dead.
THEOREM FuturesAttended == Spec => []NobodyForgotten
<1>1. ASSUME Managed, Attended PROVE NobodyForgotten
  <2> SUFFICES ASSUME NEW w \in Work, fut[w], poller[w] = "idle"
      PROVE  \/ step[w] \in {"Pending", "Completed"} /\ sched[w]
             \/ /\ step[w] = "Running" /\ waker[w]
                /\ loc[w] \in {"hw", "cq"} \/ (loc[w] = "batch" /\ driver = "complete")
             \/ step[w] \in {"Invalid", "Poisoned"}
    BY DEF NobodyForgotten
  <2>1. step[w] # "Free" BY <1>1, OutstandingAllocated
  <2>2. step[w] = "Running" => loc[w] \in {"hw", "cq", "batch"}
    BY <1>1 DEF Managed, Lifecycle, Outstanding, TypeOK
  <2> QED BY <1>1, <2>1, <2>2 DEF Managed, TypeOK, Step, Attended
<1> QED BY <1>1, SpecManaged, SpecAttended, PTL
===============================================================================
