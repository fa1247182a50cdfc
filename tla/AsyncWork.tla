------------------------------- MODULE AsyncWork ------------------------------
(***************************************************************************)
(* The asynchronous operations of examples/rdma-async: futures (`Work`)     *)
(* that submit one work request when first polled, the completion queue     *)
(* they all share, and the driver thread that completes and wakes them.     *)
(*                                                                          *)
(* A work's state is shared by the future and, through the wr_id given to   *)
(* the device, by the driver: `Arc::into_raw` at submission is undone by    *)
(* `Arc::from_raw` at completion.  The future may be dropped (cancelled) at *)
(* any time; then the state, with the buffers and a clone of the queue      *)
(* pair, lives on until the device is done.                                 *)
(***************************************************************************)
EXTENDS Naturals, FiniteSets

CONSTANTS
  Work,         \* addresses of WorkInner; the wr_id of a request is one of them
  None,
  Window,       \* bound: works alive at a time
  MaxSendWr, MaxRecvWr,   \* QueuePairCapacity: requests a work queue holds
  MaxEvents,    \* bound: events waiting in the completion channel
  Repoll,       \* a caller polls a future again after it returned or panicked
  DriverErrors  \* wait_cq_event or poll may fail in the driver

ASSUME WorkAssumption == None \notin Work
ASSUME BoundsAssumption == Window \in Nat \ {0} /\ MaxEvents \in Nat \ {0}
ASSUME CapacityAssumption == {MaxSendWr, MaxRecvWr} \subseteq Nat \ {0}
ASSUME SwitchAssumption == Repoll \in BOOLEAN /\ DriverErrors \in BOOLEAN

VARIABLES
  step,     \* step[w]: State::step, "Free" while nothing is allocated at w
  op,       \* op[w]: the ManuallyDrop operation and its buffers: "held", "taken" or "none"
  kind,     \* kind[w]: the queue it is posted to, "send" or "recv"
  fut,      \* fut[w]: the future exists
  raw,      \* raw[w]: the reference in the wr_id exists
  poller,   \* poller[w]: where a poll that is submitting is; it holds the mutex
  waker,    \* waker[w]: a waker is registered
  sched,    \* sched[w]: the task of w is scheduled to be polled
  loc,      \* loc[w]: where the work request is: "none", "hw", "cq" or "batch"
  armed,    \* the queue raises an event at the next completion
  events,   \* events in the completion channel
  driver,   \* where the driver thread is
  cur,      \* the work the driver is completing, or None
  conn,     \* the connection object, which keeps the queue pair, exists
  qp,       \* the queue pair exists
  fault     \* what went wrong, if anything

task == <<waker, sched>>
queue == <<armed, events>>
vars == <<step, op, kind, fut, raw, poller, task, loc, queue, driver, cur, conn, qp, fault>>

Step == {"Free", "Pending", "Running", "Completed", "Invalid", "Poisoned"}

TypeOK ==
  /\ step \in [Work -> Step]
  /\ op \in [Work -> {"none", "held", "taken"}]
  /\ kind \in [Work -> {"send", "recv"}]
  /\ fut \in [Work -> BOOLEAN]
  /\ raw \in [Work -> BOOLEAN]
  /\ poller \in [Work -> {"idle", "req_notify", "post", "finish"}]
  /\ waker \in [Work -> BOOLEAN]
  /\ sched \in [Work -> BOOLEAN]
  /\ loc \in [Work -> {"none", "hw", "cq", "batch"}]
  /\ armed \in BOOLEAN
  /\ events \in 0..MaxEvents
  /\ driver \in {"wait", "poll", "complete", "dead"}
  /\ cur \in Work \cup {None}
  /\ conn \in BOOLEAN
  /\ qp \in BOOLEAN
  /\ fault \subseteq {"double drop", "dropped while running", "completed when not running"}

Init ==
  /\ step = [w \in Work |-> "Free"]
  /\ op = [w \in Work |-> "none"]
  /\ kind = [w \in Work |-> "send"]
  /\ fut = [w \in Work |-> FALSE]
  /\ raw = [w \in Work |-> FALSE]
  /\ poller = [w \in Work |-> "idle"]
  /\ waker = [w \in Work |-> FALSE]
  /\ sched = [w \in Work |-> FALSE]
  /\ loc = [w \in Work |-> "none"]
  /\ armed = FALSE
  /\ events = 0
  /\ driver = "wait"
  /\ cur = None
  /\ conn = TRUE
  /\ qp = TRUE
  /\ fault = {}

Allocated == {w \in Work : step[w] # "Free"}

-------------------------------------------------------------------------------
(***************************************************************************)
(* The last reference to a work goes: State::drop, then its fields, the     *)
(* clone of the queue pair among them.  A definition whose name ends in Mut *)
(* is a plausible bug in another one; no action uses it.                    *)
(***************************************************************************)
DropState(w) ==
  /\ step' = [step EXCEPT ![w] = "Free"]
  /\ op' = [op EXCEPT ![w] = "none"]
  /\ fault' = fault
       \cup (IF step[w] \in {"Pending", "Completed", "Poisoned"} /\ op[w] # "held"
             THEN {"double drop"} ELSE {})
       \cup (IF step[w] = "Running" THEN {"dropped while running"} ELSE {})
  /\ waker' = [waker EXCEPT ![w] = FALSE]
  /\ sched' = [sched EXCEPT ![w] = FALSE]
  /\ qp' = (conn \/ Allocated \ {w} # {})

\* A reference to w is dropped; `others` says that there are more.
Release(w, others) ==
  IF others THEN UNCHANGED <<step, op, fault, task, qp>> ELSE DropState(w)

-------------------------------------------------------------------------------
(***************************************************************************)
(* The program                                                              *)
(***************************************************************************)
\* RdmaConnection::send, recv, write, read: Work::new with a clone of the
\* queue pair; awaiting it schedules the first poll.
New(w, k) ==
  /\ conn
  /\ step[w] = "Free"
  /\ Cardinality(Allocated) < Window
  /\ step' = [step EXCEPT ![w] = "Pending"]
  /\ op' = [op EXCEPT ![w] = "held"]
  /\ kind' = [kind EXCEPT ![w] = k]
  /\ fut' = [fut EXCEPT ![w] = TRUE]
  /\ sched' = [sched EXCEPT ![w] = TRUE]
  /\ UNCHANGED <<raw, poller, waker, loc, queue, driver, cur, conn, qp, fault>>

DropFutureMut(w) ==            \* cancellation frees the state
  /\ fut[w]
  /\ poller[w] = "idle"
  /\ fut' = [fut EXCEPT ![w] = FALSE]
  /\ Release(w, cur = w)
  /\ UNCHANGED <<kind, raw, poller, loc, queue, driver, cur, conn>>

\* The future is dropped: after it returned, or before (cancellation).
DropFuture(w) ==
  /\ fut[w]
  /\ poller[w] = "idle"
  /\ fut' = [fut EXCEPT ![w] = FALSE]
  /\ Release(w, raw[w] \/ cur = w)
  /\ UNCHANGED <<kind, raw, poller, loc, queue, driver, cur, conn>>

DropConn ==
  /\ conn
  /\ conn' = FALSE
  /\ qp' = (Allocated # {})
  /\ UNCHANGED <<kind, step, op, fut, raw, poller, task, loc, queue, driver, cur, fault>>

Connect ==
  /\ ~qp
  /\ conn' = TRUE
  /\ qp' = TRUE
  /\ UNCHANGED <<kind, step, op, fut, raw, poller, task, loc, queue, driver, cur, fault>>

-------------------------------------------------------------------------------
(***************************************************************************)
(* Future::poll.  It holds the mutex of the state from beginning to end.    *)
(***************************************************************************)
CanPoll(w, s) == fut[w] /\ poller[w] = "idle" /\ step[w] = s

PollSubmitMut(w) ==            \* the address is taken without a reference
  /\ CanPoll(w, "Pending")
  /\ step' = [step EXCEPT ![w] = "Poisoned"]
  /\ poller' = [poller EXCEPT ![w] = "req_notify"]
  /\ sched' = [sched EXCEPT ![w] = FALSE]
  /\ UNCHANGED <<kind, op, fut, raw, waker, loc, queue, driver, cur, conn, qp, fault>>

\* The reference for the wr_id is made, then Operation::submit runs.
PollSubmit(w) ==
  /\ CanPoll(w, "Pending")
  /\ step' = [step EXCEPT ![w] = "Poisoned"]
  /\ raw' = [raw EXCEPT ![w] = TRUE]
  /\ poller' = [poller EXCEPT ![w] = "req_notify"]
  /\ sched' = [sched EXCEPT ![w] = FALSE]
  /\ UNCHANGED <<kind, op, fut, waker, loc, queue, driver, cur, conn, qp, fault>>

ReqNotifyMut(w) ==             \* the queue is armed only if the driver sleeps
  /\ poller[w] = "req_notify"
  /\ armed' = (armed \/ driver = "wait")
  /\ poller' = [poller EXCEPT ![w] = "post"]
  /\ UNCHANGED <<kind, step, op, fut, raw, task, loc, events, driver, cur, conn, qp, fault>>

\* cq.req_notify_all()
ReqNotify(w) ==
  /\ poller[w] = "req_notify"
  /\ armed' = TRUE
  /\ poller' = [poller EXCEPT ![w] = "post"]
  /\ UNCHANGED <<kind, step, op, fut, raw, task, loc, events, driver, cur, conn, qp, fault>>

\* A work queue refuses a request (ENOMEM) while it is full; a completion frees its
\* slot when it is taken from the completion queue.  The slots are those of the one
\* queue pair; the completion queue, which the queue pairs of the process share, is
\* taken to have room.
Queued(k) == {v \in Work : kind[v] = k /\ loc[v] \in {"hw", "cq"}}
Slots(k) == IF k = "send" THEN MaxSendWr ELSE MaxRecvWr

\* qp.post_send / qp.post_recv: from here on the device uses the buffers.
Post(w) ==
  /\ poller[w] = "post"
  /\ Cardinality(Queued(kind[w])) < Slots(kind[w])
  /\ loc' = [loc EXCEPT ![w] = "hw"]
  /\ poller' = [poller EXCEPT ![w] = "finish"]
  /\ UNCHANGED <<kind, step, op, fut, raw, task, queue, driver, cur, conn, qp, fault>>

PollPendingMut(w) ==           \* no waker is stored at submission
  /\ poller[w] = "finish"
  /\ step' = [step EXCEPT ![w] = "Running"]
  /\ poller' = [poller EXCEPT ![w] = "idle"]
  /\ UNCHANGED <<kind, op, fut, raw, waker, sched, loc, queue, driver, cur, conn, qp, fault>>

\* The reference is left to the wr_id; Poll::Pending.
PollPending(w) ==
  /\ poller[w] = "finish"
  /\ step' = [step EXCEPT ![w] = "Running"]
  /\ waker' = [waker EXCEPT ![w] = TRUE]
  /\ poller' = [poller EXCEPT ![w] = "idle"]
  /\ UNCHANGED <<kind, op, fut, raw, sched, loc, queue, driver, cur, conn, qp, fault>>

SubmitFailsMut(w) ==           \* the step is not made Invalid
  /\ poller[w] \in {"req_notify", "post"}
  /\ raw' = [raw EXCEPT ![w] = FALSE]
  /\ op' = [op EXCEPT ![w] = "taken"]
  /\ poller' = [poller EXCEPT ![w] = "idle"]
  /\ UNCHANGED <<kind, step, fut, task, loc, queue, driver, cur, conn, qp, fault>>

\* Arming or posting returned an error: the reference is taken back and the
\* operation is given to the caller with the error.
SubmitFails(w) ==
  /\ poller[w] \in {"req_notify", "post"}
  /\ raw' = [raw EXCEPT ![w] = FALSE]
  /\ step' = [step EXCEPT ![w] = "Invalid"]
  /\ op' = [op EXCEPT ![w] = "taken"]
  /\ poller' = [poller EXCEPT ![w] = "idle"]
  /\ UNCHANGED <<kind, fut, task, loc, queue, driver, cur, conn, qp, fault>>

\* ScatterList::fill panics before the post (a length above u32::MAX): the
\* reference is taken back while unwinding, and the step stays Poisoned.
SubmitPanics(w) ==
  /\ poller[w] = "post"
  /\ raw' = [raw EXCEPT ![w] = FALSE]
  /\ poller' = [poller EXCEPT ![w] = "idle"]
  /\ UNCHANGED <<kind, step, op, fut, task, loc, queue, driver, cur, conn, qp, fault>>

PollRunning(w) ==
  /\ CanPoll(w, "Running")
  /\ waker' = [waker EXCEPT ![w] = TRUE]
  /\ sched' = [sched EXCEPT ![w] = FALSE]
  /\ UNCHANGED <<kind, step, op, fut, raw, poller, loc, queue, driver, cur, conn, qp, fault>>

\* Poll::Ready: the operation is taken out for the caller.
PollReady(w) ==
  /\ CanPoll(w, "Completed")
  /\ step' = [step EXCEPT ![w] = "Invalid"]
  /\ op' = [op EXCEPT ![w] = "taken"]
  /\ sched' = [sched EXCEPT ![w] = FALSE]
  /\ UNCHANGED <<kind, fut, raw, poller, waker, loc, queue, driver, cur, conn, qp, fault>>

\* A poll after the end panics, but not before mem::replace made the step
\* Poisoned.
PollPanics(w) ==
  /\ Repoll
  /\ CanPoll(w, "Invalid") \/ CanPoll(w, "Poisoned")
  /\ step' = [step EXCEPT ![w] = "Poisoned"]
  /\ sched' = [sched EXCEPT ![w] = FALSE]
  /\ UNCHANGED <<kind, op, fut, raw, poller, waker, loc, queue, driver, cur, conn, qp, fault>>

-------------------------------------------------------------------------------
(***************************************************************************)
(* The device and the completion queue (external)                           *)
(***************************************************************************)
\* A completion is written; an armed queue raises one event and is disarmed.
NicComplete(w) ==
  /\ loc[w] = "hw"
  /\ armed => events < MaxEvents
  /\ loc' = [loc EXCEPT ![w] = "cq"]
  /\ armed' = FALSE
  /\ events' = IF armed THEN events + 1 ELSE events
  /\ UNCHANGED <<kind, step, op, fut, raw, poller, task, driver, cur, conn, qp, fault>>

-------------------------------------------------------------------------------
(***************************************************************************)
(* RdmaDriver::run and work::complete                                       *)
(***************************************************************************)
\* wait_cq_event, ack_cq_events(1)
DriverWait ==
  /\ driver = "wait"
  /\ events > 0
  /\ events' = events - 1
  /\ driver' = "poll"
  /\ UNCHANGED <<kind, step, op, fut, raw, poller, task, loc, armed, cur, conn, qp, fault>>

\* cq.poll into wc_buf; an empty result ends the inner loop.
DriverPoll ==
  LET found == {w \in Work : loc[w] = "cq"} IN
  /\ driver = "poll"
  /\ loc' = [w \in Work |-> IF w \in found THEN "batch" ELSE loc[w]]
  /\ driver' = IF found = {} THEN "wait" ELSE "complete"
  /\ UNCHANGED <<kind, step, op, fut, raw, poller, task, queue, cur, conn, qp, fault>>

CompleteMut(w) ==              \* the mutex is not taken
  /\ driver = "complete" /\ cur = None
  /\ loc[w] = "batch"
  /\ loc' = [loc EXCEPT ![w] = "none"]
  /\ raw' = [raw EXCEPT ![w] = FALSE]
  /\ cur' = w
  /\ step' = [step EXCEPT ![w] = IF @ = "Running" THEN "Completed" ELSE @]
  /\ sched' = [sched EXCEPT ![w] = @ \/ waker[w]]
  /\ fault' = fault \cup (IF step[w] = "Running" THEN {} ELSE {"completed when not running"})
  /\ driver' = IF step[w] = "Running" THEN driver ELSE "dead"
  /\ UNCHANGED <<kind, op, fut, poller, waker, queue, conn, qp>>

\* Work::complete: Arc::from_raw takes the reference of the wr_id over; under
\* the mutex it asserts Running, makes the step Completed and wakes the task.
Complete(w) ==
  /\ driver = "complete" /\ cur = None
  /\ loc[w] = "batch"
  /\ poller[w] = "idle"
  /\ loc' = [loc EXCEPT ![w] = "none"]
  /\ raw' = [raw EXCEPT ![w] = FALSE]
  /\ cur' = w
  /\ step' = [step EXCEPT ![w] = IF @ = "Running" THEN "Completed" ELSE @]
  /\ sched' = [sched EXCEPT ![w] = @ \/ waker[w]]
  /\ fault' = fault \cup (IF step[w] = "Running" THEN {} ELSE {"completed when not running"})
  /\ driver' = IF step[w] = "Running" THEN driver ELSE "dead"
  /\ UNCHANGED <<kind, op, fut, poller, waker, queue, conn, qp>>

\* The mutex is released and `inner` goes out of scope; the next completion of
\* the batch, or another poll.
CompleteReturns ==
  /\ driver = "complete" /\ cur # None
  /\ cur' = None
  /\ Release(cur, fut[cur])
  /\ driver' = IF \E w \in Work : loc[w] = "batch" THEN "complete" ELSE "poll"
  /\ UNCHANGED <<kind, fut, raw, poller, loc, queue, conn>>

\* `?` on an error of wait_cq_event or poll: the thread panics and is gone.
DriverFails ==
  /\ DriverErrors
  /\ driver \in {"wait", "poll"}
  /\ driver' = "dead"
  /\ UNCHANGED <<kind, step, op, fut, raw, poller, task, loc, queue, cur, conn, qp, fault>>

-------------------------------------------------------------------------------
Submit(w) == ReqNotify(w) \/ Post(w) \/ PollPending(w) \/ SubmitFails(w) \/ SubmitPanics(w)
Poll(w) == PollSubmit(w) \/ PollRunning(w) \/ PollReady(w) \/ PollPanics(w)
Drive == DriverWait \/ DriverPoll \/ CompleteReturns \/ \E w \in Work : Complete(w)

Next ==
  \/ \E w \in Work : (\E k \in {"send", "recv"} : New(w, k)) \/ DropFuture(w) \/ Submit(w) \/ Poll(w) \/ NicComplete(w)
  \/ DropConn \/ Connect
  \/ Drive \/ DriverFails

\* The executor polls what is scheduled, a poll returns, the driver thread runs.
\* Nothing is assumed of the device or of when futures are made and dropped.
Spec ==
  /\ Init
  /\ [][Next]_vars
  /\ WF_vars(Drive)
  /\ \A w \in Work : WF_vars(Submit(w)) /\ WF_vars(sched[w] /\ Poll(w))

-------------------------------------------------------------------------------
(***************************************************************************)
(* Properties                                                               *)
(***************************************************************************)
\* While the device may access the memory of a request, the operation and its
\* buffers are in the state, the state is allocated and the queue pair exists,
\* even if the future was cancelled and the connection dropped.
DeviceHasBuffers ==
  \A w \in Work : loc[w] = "hw" => op[w] = "held" /\ step[w] # "Free" /\ qp

\* A wr_id on its way to the driver is the address of the work it was made for:
\* it carries a reference, so the address is not freed and reused before.
WrIdValid ==
  \A w \in Work : loc[w] # "none" => raw[w] /\ step[w] # "Free"

\* "managed state machine": the operation is dropped or given out once.
OpDroppedOnce == "double drop" \notin fault

\* The assertions of the state machine hold: complete finds Running, and a
\* state is not dropped while Running.
StepsInOrder ==
  fault \cap {"completed when not running", "dropped while running"} = {}

\* The driver does not go to sleep on a completion: when it blocks in
\* wait_cq_event and a completion is in the queue, an event is in the channel.
NoSleepOnCompletion ==
  \A w \in Work : loc[w] = "cq" /\ driver = "wait" => events > 0

\* No future is forgotten between poll, submit, device and driver: one that has not
\* ended is being submitted, is scheduled to be polled, or has its waker stored and
\* its request on the way, at the latest in a batch the driver is working on.
NobodyForgotten ==
  \A w \in Work : fut[w] /\ poller[w] = "idle" =>
    \/ step[w] \in {"Pending", "Completed"} /\ sched[w]
    \/ /\ step[w] = "Running" /\ waker[w]
       /\ loc[w] \in {"hw", "cq"} \/ (loc[w] = "batch" /\ driver = "complete")
    \/ step[w] \in {"Invalid", "Poisoned"}

\* A completion in the queue makes its future return, unless it is dropped.
FutureResolves ==
  \A w \in Work : (loc[w] = "cq" /\ fut[w]) ~> (step[w] = "Invalid" \/ ~fut[w])
===============================================================================
