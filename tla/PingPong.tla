------------------------------- MODULE PingPong -------------------------------
(***************************************************************************)
(* examples/rdma-pingpong: two processes exchange the addresses of their    *)
(* queue pairs over TCP, bring the queue pairs up, and then each of them    *)
(* sends and receives `iters` messages, one send outstanding at a time, in  *)
(* an event loop over one completion queue.                                 *)
(***************************************************************************)
EXTENDS Naturals, Sequences, FiniteSets, SequencesExt

CONSTANTS
  Peer,        \* the two processes
  QpTypes,     \* values of args.qp_type to consider: "RC", "UD"
  RxDepth,     \* args.rx_depth
  Iters,       \* args.iters
  RqSizes,     \* receive requests the device has room for: what it makes of max_recv_wr
  Timely,      \* RC retries outlast the start of the other process
  Faults       \* the calls of run() may fail: verbs and the TCP stream

ASSUME PeerAssumption == \E a, b \in Peer : a # b /\ Peer = {a, b}
ASSUME ArgsAssumption == RxDepth \in Nat \ {0} /\ Iters \in Nat \ {0} /\ QpTypes \subseteq {"RC", "UD"}
ASSUME RqSizesAssumption == \A n \in RqSizes : n \in Nat /\ n >= RxDepth
ASSUME SwitchAssumption == Timely \in BOOLEAN /\ Faults \in BOOLEAN

VARIABLES
  qp_type,     \* the service both processes were started with
  rq_size,     \* the room that the devices have for receive requests
  pc,          \* pc[p]: the statement of run() that p is at
  dest,        \* the processes that wrote their Dest to the TCP stream
  qps,         \* qps[p]: state of the queue pair
  recv_comp, send_comp, recv_req, send_req,   \* the four counters of the loop
  rq,          \* rq[p]: receive requests in the hands of the device
  sq,          \* sq[p]: the send request: "none", "posted", or "delivered" but not acknowledged
  cq,          \* cq[p]: completions in the queue
  armed,       \* armed[p]: the next completion raises an event
  events       \* events[p]: events in the completion channel

counters == <<recv_comp, send_comp, recv_req, send_req>>
device == <<qps, rq, sq, cq, armed, events>>
args == <<qp_type, rq_size>>
vars == <<args, pc, dest, device, counters>>

Other(p) == CHOOSE o \in Peer : o # p

Setup == {"initialize", "connect", "send_dest", "recv_dest", "rtr", "rts"}
Loop  == {"req_notify", "post_recv", "post_send", "poll", "wait"}
Receiving(p) == qps[p] \in {"rtr", "rts"}
WcBuf == 2     \* length of wc_buf

TypeOK ==
  /\ qp_type \in QpTypes /\ rq_size \in RqSizes
  /\ pc \in [Peer -> Setup \cup Loop \cup {"done", "failed", "broken"}]
  /\ dest \in SUBSET Peer
  /\ qps \in [Peer -> {"reset", "init", "rtr", "rts", "err", "gone"}]
  /\ recv_comp \in [Peer -> 0..Iters]
  /\ send_comp \in [Peer -> 0..Iters]
  /\ recv_req \in [Peer -> Nat]
  /\ send_req \in [Peer -> 0..1]
  /\ rq \in [Peer -> Nat]
  /\ sq \in [Peer -> {"none", "posted", "delivered"}]
  /\ cq \in [Peer -> Seq({"recv", "send", "error"})]
  /\ armed \in [Peer -> BOOLEAN]
  /\ events \in [Peer -> 0..1]

Init ==
  /\ qp_type \in QpTypes /\ rq_size \in RqSizes
  /\ pc = [p \in Peer |-> "initialize"]
  /\ dest = {}
  /\ qps = [p \in Peer |-> "reset"]
  /\ recv_comp = [p \in Peer |-> 0]
  /\ send_comp = [p \in Peer |-> 0]
  /\ recv_req = [p \in Peer |-> 0]
  /\ send_req = [p \in Peer |-> 0]
  /\ rq = [p \in Peer |-> 0]
  /\ sq = [p \in Peer |-> "none"]
  /\ cq = [p \in Peer |-> <<>>]
  /\ armed = [p \in Peer |-> FALSE]
  /\ events = [p \in Peer |-> 0]

-------------------------------------------------------------------------------
(***************************************************************************)
(* run(): it returns in "done" or with an error, and the queue pair and the *)
(* queues of the process are dropped.  "broken" is an error of one of its   *)
(* own calls in the loop, "failed" any other.                               *)
(***************************************************************************)
Returned(p) == pc[p] \in {"done", "failed", "broken"}
Goto(p, s) == pc' = [pc EXCEPT ![p] = s]

Return(p, s) ==
  /\ Goto(p, s)
  /\ qps' = [qps EXCEPT ![p] = "gone"]
  /\ rq' = [rq EXCEPT ![p] = 0]
  /\ cq' = [cq EXCEPT ![p] = <<>>]
  /\ armed' = [armed EXCEPT ![p] = FALSE]
  /\ events' = [events EXCEPT ![p] = 0]
  /\ sq' = [sq EXCEPT ![p] = "none"]
  /\ UNCHANGED <<args, dest, counters>>

Modify(p, at, next, state) ==
  /\ pc[p] = at
  /\ Goto(p, next)
  /\ qps' = [qps EXCEPT ![p] = state]
  /\ UNCHANGED <<args, dest, rq, sq, cq, armed, events, counters>>

Initialize(p) == Modify(p, "initialize", "connect", "init")

\* exchange_dest_over_tcp: connect and accept, write the local Dest, read the
\* remote one.  The server blocks in accept until the client has come.
Connect ==
  /\ \A p \in Peer : pc[p] = "connect"
  /\ pc' = [p \in Peer |-> "send_dest"]
  /\ UNCHANGED <<args, dest, device, counters>>

SendDest(p) ==
  /\ pc[p] = "send_dest"
  /\ dest' = dest \cup {p}
  /\ Goto(p, "recv_dest")
  /\ UNCHANGED <<args, device, counters>>

RecvDest(p) ==
  /\ pc[p] = "recv_dest"
  /\ Other(p) \in dest
  /\ Goto(p, "rtr")
  /\ UNCHANGED <<args, dest, device, counters>>

\* The other process is gone and wrote nothing: read_exact fails.
RecvDestFails(p) ==
  /\ pc[p] = "recv_dest"
  /\ Other(p) \notin dest /\ Returned(Other(p))
  /\ Return(p, "failed")

\* rc_activate, ud_activate
ReadyToReceive(p) == Modify(p, "rtr", "rts", "rtr")
ReadyToSend(p) == Modify(p, "rts", "req_notify", "rts")

\* A `?` before the loop: a creation, ibv_modify_qp or the stream failed.
SetupFails(p) ==
  /\ Faults
  /\ pc[p] \in Setup
  /\ Return(p, "failed")

-------------------------------------------------------------------------------
(***************************************************************************)
(* The loop.  A definition whose name ends in Mut is a plausible bug in     *)
(* another one; no action uses it.                                          *)
(***************************************************************************)
ReqNotifyAll(p) ==
  /\ pc[p] = "req_notify"
  /\ armed' = [armed EXCEPT ![p] = TRUE]
  /\ Goto(p, "post_recv")
  /\ UNCHANGED <<args, dest, qps, rq, sq, cq, events, counters>>

PostRecvMut(p) ==              \* a batch is posted one receive too early
  LET n == IF recv_req[p] <= 2 THEN RxDepth ELSE 0 IN
  /\ pc[p] = "post_recv"
  /\ recv_req' = [recv_req EXCEPT ![p] = @ + n]
  /\ rq' = [rq EXCEPT ![p] = @ + n]
  /\ Goto(p, "post_send")
  /\ UNCHANGED <<args, dest, qps, sq, cq, armed, events, recv_comp, send_comp, send_req>>

\* rx_depth receives when at most one is left.
PostRecv(p) ==
  LET n == IF recv_req[p] <= 1 THEN RxDepth ELSE 0 IN
  /\ pc[p] = "post_recv"
  /\ recv_req[p] + n <= rq_size
  /\ recv_req' = [recv_req EXCEPT ![p] = @ + n]
  /\ rq' = [rq EXCEPT ![p] = @ + n]
  /\ Goto(p, "post_send")
  /\ UNCHANGED <<args, dest, qps, sq, cq, armed, events, recv_comp, send_comp, send_req>>

PostRecvFails(p) ==
  /\ pc[p] = "post_recv"
  /\ recv_req[p] <= 1 /\ recv_req[p] + RxDepth > rq_size
  /\ Return(p, "failed")

PostSendMut(p) ==              \* a send is posted while another is outstanding
  LET post == send_comp[p] < Iters IN
  /\ pc[p] = "post_send"
  /\ send_req' = [send_req EXCEPT ![p] = IF post THEN @ + 1 ELSE @]
  /\ sq' = [sq EXCEPT ![p] = IF post THEN "posted" ELSE @]
  /\ Goto(p, "poll")
  /\ UNCHANGED <<args, dest, qps, rq, cq, armed, events, recv_comp, send_comp, recv_req>>

PostSend(p) ==
  LET post == send_req[p] < 1 /\ send_comp[p] < Iters IN
  /\ pc[p] = "post_send"
  /\ send_req' = [send_req EXCEPT ![p] = IF post THEN 1 ELSE @]
  /\ sq' = [sq EXCEPT ![p] = IF post THEN "posted" ELSE @]
  /\ Goto(p, "poll")
  /\ UNCHANGED <<args, dest, qps, rq, cq, armed, events, recv_comp, send_comp, recv_req>>

Batch(s) == IF Len(s) <= WcBuf THEN s ELSE SubSeq(s, 1, WcBuf)
Count(s, x) == Cardinality({i \in DOMAIN s : s[i] = x})

PollWcsMut(p) ==               \* a batch that does not fill wc_buf is taken for the last
  LET wcs == Batch(cq[p]) IN
  /\ pc[p] = "poll"
  /\ wcs # <<>> /\ "error" \notin ToSet(wcs)
  /\ cq' = [cq EXCEPT ![p] = SubSeq(@, Len(wcs) + 1, Len(@))]
  /\ recv_comp' = [recv_comp EXCEPT ![p] = @ + Count(wcs, "recv")]
  /\ recv_req' = [recv_req EXCEPT ![p] = @ - Count(wcs, "recv")]
  /\ send_comp' = [send_comp EXCEPT ![p] = @ + Count(wcs, "send")]
  /\ send_req' = [send_req EXCEPT ![p] = @ - Count(wcs, "send")]
  /\ Goto(p, IF Len(wcs) < WcBuf THEN "wait" ELSE "post_recv")
  /\ UNCHANGED <<args, dest, qps, rq, sq, armed, events>>

PollWcsCountMut(p) ==          \* every completion is taken for one of a receive
  LET wcs == Batch(cq[p]) IN
  /\ pc[p] = "poll"
  /\ wcs # <<>> /\ "error" \notin ToSet(wcs)
  /\ recv_req[p] >= Len(wcs)
  /\ cq' = [cq EXCEPT ![p] = SubSeq(@, Len(wcs) + 1, Len(@))]
  /\ recv_comp' = [recv_comp EXCEPT ![p] = @ + Count(wcs, "recv")]
  /\ recv_req' = [recv_req EXCEPT ![p] = @ - Len(wcs)]
  /\ send_comp' = [send_comp EXCEPT ![p] = @ + Count(wcs, "send")]
  /\ send_req' = [send_req EXCEPT ![p] = @ - Count(wcs, "send")]
  /\ Goto(p, "post_recv")
  /\ UNCHANGED <<args, dest, qps, rq, sq, armed, events>>

\* cq.poll returned completions: they are counted, and the inner loop goes on.
PollWcs(p) ==
  LET wcs == Batch(cq[p]) IN
  /\ pc[p] = "poll"
  /\ wcs # <<>> /\ "error" \notin ToSet(wcs)
  /\ cq' = [cq EXCEPT ![p] = SubSeq(@, Len(wcs) + 1, Len(@))]
  /\ recv_comp' = [recv_comp EXCEPT ![p] = @ + Count(wcs, "recv")]
  /\ recv_req' = [recv_req EXCEPT ![p] = @ - Count(wcs, "recv")]
  /\ send_comp' = [send_comp EXCEPT ![p] = @ + Count(wcs, "send")]
  /\ send_req' = [send_req EXCEPT ![p] = @ - Count(wcs, "send")]
  /\ Goto(p, "post_recv")
  /\ UNCHANGED <<args, dest, qps, rq, sq, armed, events>>

\* WorkCompletionError::result(wc.status())?
PollError(p) ==
  /\ pc[p] = "poll"
  /\ "error" \in ToSet(Batch(cq[p]))
  /\ Return(p, "failed")

PollDoneMut(p) ==              \* the end is decided by the sends alone
  /\ pc[p] = "poll"
  /\ cq[p] = <<>>
  /\ send_comp[p] >= Iters
  /\ Return(p, "done")

\* The queue is drained: the process ends ...
PollDone(p) ==
  /\ pc[p] = "poll"
  /\ cq[p] = <<>>
  /\ recv_comp[p] >= Iters /\ send_comp[p] >= Iters
  /\ Return(p, "done")

\* ... or waits.
PollEmpty(p) ==
  /\ pc[p] = "poll"
  /\ cq[p] = <<>>
  /\ ~(recv_comp[p] >= Iters /\ send_comp[p] >= Iters)
  /\ Goto(p, "wait")
  /\ UNCHANGED <<args, dest, device, counters>>

WaitCqEventMut(p) ==           \* the queue is not armed again
  /\ pc[p] = "wait"
  /\ events[p] > 0
  /\ events' = [events EXCEPT ![p] = @ - 1]
  /\ Goto(p, "post_recv")
  /\ UNCHANGED <<args, dest, qps, rq, sq, cq, armed, counters>>

\* wait_cq_event, ack_cq_events(1)
WaitCqEvent(p) ==
  /\ pc[p] = "wait"
  /\ events[p] > 0
  /\ events' = [events EXCEPT ![p] = @ - 1]
  /\ Goto(p, "req_notify")
  /\ UNCHANGED <<args, dest, qps, rq, sq, cq, armed, counters>>

\* A `?` of the loop: req_notify_all, post_recv, post_send, poll or wait_cq_event
\* returns an error, at a pass that makes the call.
LoopFails(p) ==
  /\ Faults
  /\ \/ pc[p] \in {"req_notify", "poll", "wait"}
     \/ pc[p] = "post_recv" /\ recv_req[p] <= 1
     \/ pc[p] = "post_send" /\ send_req[p] < 1 /\ send_comp[p] < Iters
  /\ Return(p, "broken")

-------------------------------------------------------------------------------
(***************************************************************************)
(* The devices and the network (external)                                   *)
(***************************************************************************)
\* Completions are written to the queues of the processes in C; a queue that is
\* armed raises one event.
Complete(C, kind) ==
  /\ cq' = [p \in Peer |-> IF p \in C THEN Append(cq[p], kind[p]) ELSE cq[p]]
  /\ events' = [p \in Peer |-> IF p \in C /\ armed[p] THEN events[p] + 1 ELSE events[p]]
  /\ armed' = [p \in Peer |-> p \notin C /\ armed[p]]
  /\ UNCHANGED <<args, pc, dest, counters>>

\* A message arrives.  RC: it waits for a receive request (rnr_retry 7) ...
Deliver(p) ==
  LET o == Other(p) IN
  /\ qp_type = "RC"
  /\ sq[p] = "posted" /\ Receiving(o) /\ rq[o] > 0
  /\ sq' = [sq EXCEPT ![p] = "delivered"]
  /\ rq' = [rq EXCEPT ![o] = @ - 1]
  /\ UNCHANGED qps
  /\ Complete({o}, [x \in Peer |-> "recv"])

\* ... and its sender is told.
Acknowledge(p) ==
  /\ sq[p] = "delivered"
  /\ sq' = [sq EXCEPT ![p] = "none"]
  /\ UNCHANGED <<rq, qps>>
  /\ Complete({p}, [x \in Peer |-> "send"])

\* RC: nobody answers, and retry_cnt is used up.  The queue pair of p is in error
\* then: it receives no more.  Its receives are flushed behind this completion,
\* which ends the loop.
RetryExceeded(p) ==
  /\ qp_type = "RC"
  /\ sq[p] = "posted" /\ ~Receiving(Other(p))
  /\ qps[Other(p)] \in {"err", "gone"} \/ ~Timely
  /\ sq' = [sq EXCEPT ![p] = "none"]
  /\ qps' = [qps EXCEPT ![p] = "err"]
  /\ UNCHANGED rq
  /\ Complete({p}, [x \in Peer |-> "error"])

\* UD: the message is sent, and lost if the other side is not ready for it.
Datagram(p) ==
  LET o == Other(p)
      arrives == Receiving(o) /\ rq[o] > 0
  IN
  /\ qp_type = "UD"
  /\ sq[p] = "posted"
  /\ sq' = [sq EXCEPT ![p] = "none"]
  /\ rq' = [rq EXCEPT ![o] = IF arrives THEN @ - 1 ELSE @]
  /\ UNCHANGED qps
  /\ Complete({p} \cup (IF arrives THEN {o} ELSE {}),
              [x \in Peer |-> IF x = p THEN "send" ELSE "recv"])

-------------------------------------------------------------------------------
Process(p) ==
  \/ Initialize(p) \/ SendDest(p) \/ RecvDest(p) \/ RecvDestFails(p)
  \/ ReadyToReceive(p) \/ ReadyToSend(p)
  \/ ReqNotifyAll(p) \/ PostRecv(p) \/ PostRecvFails(p) \/ PostSend(p)
  \/ PollWcs(p) \/ PollError(p) \/ PollDone(p) \/ PollEmpty(p) \/ WaitCqEvent(p)
Network(p) == Deliver(p) \/ Acknowledge(p) \/ RetryExceeded(p) \/ Datagram(p)

Next ==
  \/ Connect
  \/ \E p \in Peer : Process(p) \/ Network(p) \/ SetupFails(p) \/ LoopFails(p)

\* Both processes run, and the devices go on with what was posted.
Spec ==
  /\ Init
  /\ [][Next]_vars
  /\ WF_vars(Connect)
  /\ \A p \in Peer : WF_vars(Process(p)) /\ WF_vars(Network(p))

-------------------------------------------------------------------------------
(***************************************************************************)
(* Properties                                                               *)
(***************************************************************************)
\* The counters of the loop agree with the device: what is posted and not yet
\* polled is what send_req_cnt and recv_req_cnt say.
CountsExact ==
  \A p \in Peer : pc[p] \in Loop =>
    /\ recv_req[p] = rq[p] + Count(cq[p], "recv")
    /\ send_req[p] = (IF sq[p] = "none" THEN 0 ELSE 1) + Count(cq[p], "send") + Count(cq[p], "error")

\* The most receives outstanding at a time, and the most completions in the
\* queue: one more of each than max_recv_wr and cqe, as run() asks for them.
QueuesBounded ==
  \A p \in Peer : recv_req[p] <= RxDepth + 1 /\ Len(cq[p]) <= RxDepth + 2

\* The loop does not sleep on a completion: the queue is armed before it is
\* drained, so an event is there or will be.
NoSleepOnCompletion ==
  \A p \in Peer : pc[p] = "wait" /\ cq[p] # <<>> => events[p] > 0

\* With RC, and devices that have room for the receives, a process reports success
\* only when the other one has nothing left to send, and then the other fails only
\* by an error of a call of its own in the loop: not before the loop, and not by a
\* message that went unanswered.
Sound == qp_type = "RC" /\ rq_size > RxDepth
BothOrNone ==
  Sound => \A p \in Peer : pc[p] = "done" =>
             /\ pc[Other(p)] # "failed"
             /\ send_comp[Other(p)] + send_req[Other(p)] >= Iters

\* A process whose messages were all acknowledged waits for the ones of another
\* that is gone: nothing tells it, and wait_cq_event has no timeout.
Orphaned(p) ==
  /\ pc[p] = "wait" /\ events[p] = 0
  /\ send_comp[p] >= Iters /\ recv_comp[p] < Iters
  /\ pc[Other(p)] = "broken"

\* The two are never at a loss together: while a connected process has not returned,
\* one of them has a statement to execute, or a device has a request it can go on
\* with.  (The loop sleeps only with a receive posted and, until all were sent, a
\* send.)  The one exception is an error in the loop of the other process, once this
\* one has sent everything.
Blocked(p) ==
  \/ Returned(p)
  \/ pc[p] = "recv_dest" /\ Other(p) \notin dest /\ ~Returned(Other(p))
  \/ pc[p] = "wait" /\ events[p] = 0
Pending(p) ==
  \/ sq[p] = "delivered"
  \/ sq[p] = "posted" /\ \/ Receiving(Other(p)) /\ rq[Other(p)] > 0
                         \/ qps[Other(p)] \in {"err", "gone"}
NeverStuck ==
  Sound => \A p \in Peer : pc[p] \notin {"initialize", "connect"} /\ ~Returned(p) =>
             Orphaned(p) \/ \E q \in Peer : ~Blocked(q) \/ Pending(q)

\* With the same, both processes return once they are connected, whatever fails on
\* either side, except for the one case of Orphaned.
Returns ==
  \A p \in Peer : (Sound /\ pc[p] = "send_dest") ~> Returned(p) \/ Orphaned(p)

\* "number of exchanges": every process makes them, with either service.
Exchanges ==
  \A p \in Peer : pc[p] = "send_dest" ~> pc[p] = "done"
===============================================================================
