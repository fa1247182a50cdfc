--------------------------------- MODULE Rpc ----------------------------------
(***************************************************************************)
(* The program rdma-async-rpc: connect and accept (net.rs), and the client  *)
(* and server tasks over them, in processes that may end at any moment.     *)
(*                                                                          *)
(* Every process runs main: it spawns the server, sleeps, and awaits the    *)
(* client.  The port is bound by one process at a time, so that a second    *)
(* process has a client only, which connects to the server of the first.    *)
(* All the tasks of a process share one completion queue and one driver.    *)
(* Module AsyncWork has the detail of a request; here it is a location, and *)
(* each side of a connection has one request at a time.                     *)
(***************************************************************************)
EXTENDS Naturals, FiniteSets

CONSTANTS
  Proc,       \* processes; connection c is the one of the client of process c
  None,
  Iters,      \* Iters[c]: the 64 of `for i in 1..=64` in the client of c
  Faulty      \* processes that may be killed, and whose verbs may fail

ASSUME RpcAssumption ==
  None \notin Proc /\ Iters \in [Proc -> Nat] /\ Faulty \subseteq Proc

VARIABLES
  up,         \* processes that are running
  srv,        \* srv[p]: the server task of p
  cur,        \* cur[p]: the connection its accept is working on
  host,       \* host[c]: the process c's TCP stream was connected to
  wrote,      \* wrote[c]: sides that have written their Dest into the stream
  pc,         \* pc[c][s]: where the task at side s of c is
  op,         \* op[c][s]: its operation, "send" or "recv"
  loc,        \* loc[c][s]: where its request is
  good,       \* good[c][s]: the completion reports success
  buf,        \* buf[c][s]: the message in its buffer
  iter,       \* iter[c]: the client's loop variable
  qp,         \* qp[c][s]: the state of its queue pair
  armed, events,    \* per process: its completion queue is armed; events in its channel
  dead        \* processes whose driver thread has panicked

conns == <<srv, cur, host, wrote>>
tasks == <<pc, op, loc, good, buf, iter>>
queues == <<armed, events, dead>>
vars == <<up, conns, tasks, qp, queues>>

Side == {"cli", "srv"}
Other(s) == IF s = "cli" THEN "srv" ELSE "cli"
\* The process whose completion queue serves side s of connection c.
At(c, s) == IF s = "cli" THEN c ELSE host[c]

Message == [k : {"Empty", "Ping", "Pong", "Exit"}, n : Nat]
Empty == [k |-> "Empty", n |-> 0]
Ping(i) == [k |-> "Ping", n |-> i]
Pong(i) == [k |-> "Pong", n |-> i]
ExitMsg(i) == [k |-> "Exit", n |-> i]

TypeOK ==
  /\ up \subseteq Proc
  /\ srv \in [Proc -> {"start", "accept", "shake", "failed"}]
  /\ cur \in [Proc -> Proc \cup {None}]
  /\ host \in [Proc -> Proc \cup {None}]
  /\ wrote \in [Proc -> SUBSET Side]
  /\ pc \in [Proc -> [Side -> {"start", "hello", "shake", "submit", "post", "await",
                                "done", "failed"}]]
  /\ op \in [Proc -> [Side -> {"send", "recv"}]]
  /\ loc \in [Proc -> [Side -> {"none", "hw", "flown", "cq", "done"}]]
  /\ good \in [Proc -> [Side -> BOOLEAN]]
  /\ buf \in [Proc -> [Side -> Message]]
  /\ \A p \in Proc : iter[p] \in 0..Iters[p]
  /\ qp \in [Proc -> [Side -> {"none", "Init", "RTS", "Err"}]]
  /\ armed \in [Proc -> BOOLEAN]
  /\ events \in [Proc -> Nat]
  /\ dead \subseteq Proc

Init ==
  /\ up = Proc
  /\ srv = [p \in Proc |-> "start"]
  /\ cur = [p \in Proc |-> None]
  /\ host = [p \in Proc |-> None]
  /\ wrote = [p \in Proc |-> {}]
  /\ pc = [p \in Proc |-> [s \in Side |-> "start"]]
  /\ op = [p \in Proc |-> [s \in Side |-> IF s = "cli" THEN "send" ELSE "recv"]]
  /\ loc = [p \in Proc |-> [s \in Side |-> "none"]]
  /\ good = [p \in Proc |-> [s \in Side |-> TRUE]]
  /\ buf = [p \in Proc |-> [s \in Side |-> Empty]]
  /\ iter = [p \in Proc |-> 0]
  /\ qp = [p \in Proc |-> [s \in Side |-> "none"]]
  /\ armed = [p \in Proc |-> FALSE]
  /\ events = [p \in Proc |-> 0]
  /\ dead = {}

-------------------------------------------------------------------------------
(***************************************************************************)
(* The listener.  An error in accept ends the whole server task (`?`), and  *)
(* with it the listening socket; connections made before go on.             *)
(***************************************************************************)
Listening(p) == p \in up /\ srv[p] \in {"accept", "shake"}

\* A connection c is made and its streams and queue pairs are not yet given up.
ClientGone(c) == c \notin up \/ pc[c]["cli"] = "failed"
ServerGone(c) == host[c] \notin up \/ srv[host[c]] = "failed"

\* RdmaListener::bind: the address is in use while another process listens.
Bind(p) ==
  /\ p \in up /\ srv[p] = "start"
  /\ srv' = [srv EXCEPT ![p] = IF \E q \in Proc : Listening(q) THEN "failed" ELSE "accept"]
  /\ UNCHANGED <<up, cur, host, wrote, tasks, qp, queues>>

\* accept up to the write of exchange_dest: a stream, rc_build_qp, the Dest.
Accept(p, c) ==
  /\ p \in up /\ srv[p] = "accept"
  /\ host[c] = p /\ pc[c]["srv"] = "start" /\ qp[c]["srv"] = "none"
  /\ srv' = [srv EXCEPT ![p] = "shake"]
  /\ cur' = [cur EXCEPT ![p] = c]
  /\ wrote' = [wrote EXCEPT ![c] = @ \cup {"srv"}]
  /\ qp' = [qp EXCEPT ![c]["srv"] = "Init"]
  /\ UNCHANGED <<up, host, tasks, queues>>

\* rc_build_qp or local_dest returns an error.
AcceptFails(p, c) ==
  /\ p \in up \cap Faulty /\ srv[p] = "accept"
  /\ host[c] = p /\ pc[c]["srv"] = "start" /\ qp[c]["srv"] = "none"
  /\ srv' = [srv EXCEPT ![p] = "failed"]
  /\ pc' = [pc EXCEPT ![c]["srv"] = "failed"]
  /\ UNCHANGED <<up, cur, host, wrote, op, loc, good, buf, iter, qp, queues>>

\* The client's Dest is read, rc_activate takes the queue pair to RTR and RTS,
\* and a task is spawned for the connection.
Accepted(p) ==
  /\ p \in up /\ srv[p] = "shake"
  /\ "cli" \in wrote[cur[p]]
  /\ srv' = [srv EXCEPT ![p] = "accept"]
  /\ cur' = [cur EXCEPT ![p] = None]
  /\ pc' = [pc EXCEPT ![cur[p]]["srv"] = "submit"]
  /\ qp' = [qp EXCEPT ![cur[p]]["srv"] = "RTS"]
  /\ UNCHANGED <<up, host, wrote, op, loc, good, buf, iter, queues>>

ShakeFailsMut(p) ==            \* the end of the stream is not noticed
  /\ p \in up \cap Faulty /\ srv[p] = "shake"
  /\ "cli" \in wrote[cur[p]]
  /\ srv' = [srv EXCEPT ![p] = "failed"]
  /\ cur' = [cur EXCEPT ![p] = None]
  /\ pc' = [pc EXCEPT ![cur[p]]["srv"] = "failed"]
  /\ qp' = [qp EXCEPT ![cur[p]]["srv"] = "none"]
  /\ UNCHANGED <<up, host, wrote, op, loc, good, buf, iter, queues>>

\* The stream ended, or rc_activate failed; the queue pair is dropped.
ShakeFails(p) ==
  /\ p \in up /\ srv[p] = "shake"
  /\ ClientGone(cur[p]) \/ (p \in Faulty /\ "cli" \in wrote[cur[p]])
  /\ srv' = [srv EXCEPT ![p] = "failed"]
  /\ cur' = [cur EXCEPT ![p] = None]
  /\ pc' = [pc EXCEPT ![cur[p]]["srv"] = "failed"]
  /\ qp' = [qp EXCEPT ![cur[p]]["srv"] = "none"]
  /\ UNCHANGED <<up, host, wrote, op, loc, good, buf, iter, queues>>

-------------------------------------------------------------------------------
\* The client's loop variable, and the request it makes with it: a Ping, and an
\* Exit after the loop.
Step(c) == IF iter[c] < Iters[c] THEN iter[c] + 1 ELSE iter[c]
Request(c) == IF iter[c] < Iters[c] THEN Ping(iter[c] + 1) ELSE ExitMsg(iter[c])

(***************************************************************************)
(* RdmaConnection::connect                                                  *)
(***************************************************************************)
\* rc_build_qp, local_dest, TcpStream::connect.  Nothing waits for the server
\* but the 100 ms of main.
Connect(c, p) ==
  /\ c \in up /\ pc[c]["cli"] = "start"
  /\ Listening(p)
  /\ pc' = [pc EXCEPT ![c]["cli"] = "hello"]
  /\ qp' = [qp EXCEPT ![c]["cli"] = "Init"]
  /\ host' = [host EXCEPT ![c] = p]
  /\ UNCHANGED <<up, srv, cur, wrote, op, loc, good, buf, iter, queues>>

\* An error before the stream is connected: no device, no listener.
ConnectFails(c) ==
  /\ c \in up /\ pc[c]["cli"] = "start"
  /\ c \in Faulty \/ \A p \in Proc : ~Listening(p)
  /\ pc' = [pc EXCEPT ![c]["cli"] = "failed"]
  /\ UNCHANGED <<up, conns, op, loc, good, buf, iter, qp, queues>>

\* exchange_dest writes the local Dest.
Hello(c) ==
  /\ c \in up /\ pc[c]["cli"] = "hello"
  /\ pc' = [pc EXCEPT ![c]["cli"] = "shake"]
  /\ wrote' = [wrote EXCEPT ![c] = @ \cup {"cli"}]
  /\ UNCHANGED <<up, srv, cur, host, op, loc, good, buf, iter, qp, queues>>

\* The server's Dest is read, rc_activate; the client makes its first request.
Connected(c) ==
  /\ c \in up /\ pc[c]["cli"] = "shake"
  /\ "srv" \in wrote[c]
  /\ pc' = [pc EXCEPT ![c]["cli"] = "submit"]
  /\ qp' = [qp EXCEPT ![c]["cli"] = "RTS"]
  /\ iter' = [iter EXCEPT ![c] = Step(c)]
  /\ buf' = [buf EXCEPT ![c]["cli"] = Request(c)]
  /\ UNCHANGED <<up, conns, op, loc, good, queues>>

\* The stream ended or was reset, or rc_activate failed.
ConnectBreaks(c) ==
  /\ c \in up /\ pc[c]["cli"] = "shake"
  /\ ServerGone(c) \/ (c \in Faulty /\ "srv" \in wrote[c])
  /\ pc' = [pc EXCEPT ![c]["cli"] = "failed"]
  /\ qp' = [qp EXCEPT ![c]["cli"] = "none"]
  /\ UNCHANGED <<up, conns, op, loc, good, buf, iter, queues>>

-------------------------------------------------------------------------------
(***************************************************************************)
(* A request of a task: armed, posted, completed by the device, taken from  *)
(* the queue by the driver.                                                 *)
(***************************************************************************)
\* The queue is armed before the post.
Submit(c, s) ==
  /\ At(c, s) \in up /\ pc[c][s] = "submit"
  /\ pc' = [pc EXCEPT ![c][s] = "post"]
  /\ armed' = [armed EXCEPT ![At(c, s)] = TRUE]
  /\ UNCHANGED <<up, conns, op, loc, good, buf, iter, qp, events, dead>>

Post(c, s) ==
  /\ At(c, s) \in up /\ pc[c][s] = "post"
  /\ pc' = [pc EXCEPT ![c][s] = "await"]
  /\ loc' = [loc EXCEPT ![c][s] = "hw"]
  /\ UNCHANGED <<up, conns, op, good, buf, iter, qp, queues>>

\* A task returns: its connection and buffer are dropped.
Return(c, s, how) ==
  /\ pc' = [pc EXCEPT ![c][s] = how]
  /\ loc' = [loc EXCEPT ![c][s] = "none"]
  /\ qp' = [qp EXCEPT ![c][s] = "none"]
  /\ UNCHANGED <<up, conns, op, good, buf, iter, queues>>

SubmitFails(c, s) ==
  /\ At(c, s) \in up \cap Faulty /\ pc[c][s] \in {"submit", "post"}
  /\ Return(c, s, "failed")

\* One completion enters the queue of process p.
Notify(p) ==
  /\ armed' = [armed EXCEPT ![p] = FALSE]
  /\ events' = [events EXCEPT ![p] = IF armed[p] THEN @ + 1 ELSE @]
  /\ UNCHANGED dead

\* Reliable delivery: the message goes into a posted receive, and into nothing
\* else; without one the sender retries for ever (rnr_retry 7).
Deliver(c, s) ==
  LET r == Other(s) IN
  /\ op[c][s] = "send" /\ loc[c][s] = "hw" /\ qp[c][s] = "RTS"
  /\ op[c][r] = "recv" /\ loc[c][r] = "hw" /\ qp[c][r] = "RTS"
  /\ loc' = [loc EXCEPT ![c][s] = "flown", ![c][r] = "cq"]
  /\ good' = [good EXCEPT ![c][r] = TRUE]
  /\ buf' = [buf EXCEPT ![c][r] = buf[c][s]]
  /\ Notify(At(c, r))
  /\ UNCHANGED <<up, conns, pc, op, iter, qp>>

Ack(c, s) ==
  /\ loc[c][s] = "flown"
  /\ loc' = [loc EXCEPT ![c][s] = "cq"]
  /\ good' = [good EXCEPT ![c][s] = TRUE]
  /\ Notify(At(c, s))
  /\ UNCHANGED <<up, conns, pc, op, buf, iter, qp>>

\* The other queue pair does not answer: retry_cnt is used up.
RetryExceeded(c, s) ==
  /\ op[c][s] = "send" /\ loc[c][s] \in {"hw", "flown"}
  /\ qp[c][Other(s)] # "RTS"
  /\ loc' = [loc EXCEPT ![c][s] = "cq"]
  /\ good' = [good EXCEPT ![c][s] = FALSE]
  /\ qp' = [qp EXCEPT ![c][s] = "Err"]
  /\ Notify(At(c, s))
  /\ UNCHANGED <<up, conns, pc, op, buf, iter>>

\* One turn of run: an event, then the queue until it is empty; the completions
\* wake their tasks.  Module AsyncWork has the polls of a turn one by one.
Found(p) == {e \in Proc \X Side : loc[e[1]][e[2]] = "cq" /\ At(e[1], e[2]) = p}

\* The driver of p takes an event, and hands out the completions D.
Completes(p, D) ==
  /\ events[p] > 0
  /\ events' = [events EXCEPT ![p] = @ - 1]
  /\ loc' = [c \in Proc |-> [s \in Side |->
                IF <<c, s>> \in D THEN "done" ELSE loc[c][s]]]

Drive(p) ==
  /\ p \in up \ dead
  /\ Completes(p, Found(p))
  /\ UNCHANGED <<up, conns, pc, op, good, buf, iter, qp, armed, dead>>

\* wait_cq_event fails, or a poll fails after others of its turn: the thread panics
\* (`expect`), and the process goes on without a driver.
DriverFails(p) ==
  /\ p \in (up \cap Faulty) \ dead
  /\ dead' = dead \cup {p}
  /\ \/ UNCHANGED <<loc, events>>
     \/ \E D \in SUBSET Found(p) : Completes(p, D)
  /\ UNCHANGED <<up, conns, pc, op, good, buf, iter, qp, armed>>

-------------------------------------------------------------------------------
(***************************************************************************)
(* The client and the task of a connection                                  *)
(***************************************************************************)
Ready(c, s, o) ==
  At(c, s) \in up /\ loc[c][s] = "done" /\ good[c][s] /\ op[c][s] = o

\* The next operation of a task, with a message in its buffer.
Continue(c, s, o, m) ==
  /\ op' = [op EXCEPT ![c][s] = o]
  /\ buf' = [buf EXCEPT ![c][s] = m]
  /\ pc' = [pc EXCEPT ![c][s] = "submit"]
  /\ loc' = [loc EXCEPT ![c][s] = "none"]
  /\ UNCHANGED <<up, conns, good, qp, queues>>

\* `send_result?`, `recv_result?`
TaskFails(c, s) ==
  /\ At(c, s) \in up /\ loc[c][s] = "done" /\ ~good[c][s]
  /\ Return(c, s, "failed")

ClientSent(c) ==
  /\ Ready(c, "cli", "send") /\ buf[c]["cli"].k = "Ping"
  /\ Continue(c, "cli", "recv", buf[c]["cli"])
  /\ UNCHANGED iter

\* The response is not compared with the request.
ClientReceived(c) ==
  /\ Ready(c, "cli", "recv")
  /\ iter' = [iter EXCEPT ![c] = Step(c)]
  /\ Continue(c, "cli", "send", Request(c))

ClientDone(c) ==
  /\ Ready(c, "cli", "send") /\ buf[c]["cli"].k = "Exit"
  /\ Return(c, "cli", "done")

ServeReceivedMut(c) ==         \* the request is sent back as it is
  /\ Ready(c, "srv", "recv")
  /\ IF buf[c]["srv"].k = "Exit" THEN Return(c, "srv", "done")
     ELSE /\ Continue(c, "srv", IF buf[c]["srv"].k = "Ping" THEN "send" ELSE "recv", buf[c]["srv"])
          /\ UNCHANGED iter

ServeReceivedSilentMut(c) ==   \* the next request is awaited without a response
  /\ Ready(c, "srv", "recv")
  /\ Continue(c, "srv", "recv", buf[c]["srv"])
  /\ UNCHANGED iter

ServeReceived(c) ==
  LET m == buf[c]["srv"] IN
  /\ Ready(c, "srv", "recv")
  /\ \/ /\ m.k # "Exit"
        /\ Continue(c, "srv", IF m.k = "Ping" THEN "send" ELSE "recv",
                              IF m.k = "Ping" THEN Pong(m.n) ELSE m)
        /\ UNCHANGED iter
     \/ m.k = "Exit" /\ Return(c, "srv", "done")

ServeSent(c) ==
  /\ Ready(c, "srv", "send")
  /\ Continue(c, "srv", "recv", buf[c]["srv"])
  /\ UNCHANGED iter

-------------------------------------------------------------------------------
(***************************************************************************)
(* Processes                                                                *)
(***************************************************************************)
\* The queue pairs, streams and tasks of a process go with it.
Ends(p) ==
  LET gone(c, s) == At(c, s) = p IN
  /\ up' = up \ {p}
  /\ qp' = [c \in Proc |-> [s \in Side |-> IF gone(c, s) THEN "none" ELSE qp[c][s]]]
  /\ loc' = [c \in Proc |-> [s \in Side |-> IF gone(c, s) THEN "none" ELSE loc[c][s]]]
  /\ UNCHANGED <<conns, pc, op, good, buf, iter, queues>>

\* main returns when its client has returned, whatever the result.
MainReturns(p) ==
  /\ p \in up /\ pc[p]["cli"] \in {"done", "failed"}
  /\ Ends(p)

Killed(p) == p \in Faulty \cap up /\ Ends(p)

-------------------------------------------------------------------------------
Listener(p) == Bind(p) \/ Accepted(p) \/ ShakeFails(p) \/ \E c \in Proc : Accept(p, c) \/ AcceptFails(p, c)
ClientTask(c) ==
  \/ \E p \in Proc : Connect(c, p)
  \/ ConnectFails(c) \/ Hello(c) \/ Connected(c) \/ ConnectBreaks(c)
  \/ ClientSent(c) \/ ClientReceived(c) \/ ClientDone(c)
Task(c, s) == Submit(c, s) \/ Post(c, s) \/ SubmitFails(c, s) \/ TaskFails(c, s)
Serve(c) == ServeReceived(c) \/ ServeSent(c)
Device(c, s) == Deliver(c, s) \/ Ack(c, s) \/ RetryExceeded(c, s)

\* What happens without anyone killing a process or its driver.
Proceed ==
  \E p \in Proc :
    \/ Listener(p) \/ ClientTask(p) \/ Serve(p) \/ Drive(p) \/ MainReturns(p)
    \/ \E s \in Side : Task(p, s) \/ Device(p, s)

Next == Proceed \/ \E p \in Proc : Killed(p) \/ DriverFails(p)

\* The executor, the driver thread until it panics, and the TCP stack of a running
\* process run, and the device goes on with what was posted.
Spec ==
  /\ Init
  /\ [][Next]_vars
  /\ \A p \in Proc :
       /\ WF_vars(Listener(p)) /\ WF_vars(ClientTask(p)) /\ WF_vars(Serve(p))
       /\ WF_vars(Drive(p)) /\ WF_vars(MainReturns(p))
       /\ \A s \in Side : WF_vars(Task(p, s)) /\ WF_vars(Device(p, s))

-------------------------------------------------------------------------------
(***************************************************************************)
(* Properties                                                               *)
(***************************************************************************)
\* The program implements Exchange: a response is the answer to the request the
\* client waits on, although neither side looks at the number in the message
\* and a buffer is filled by the device before its task runs.
Answered(m) == IF m.k = "Ping" THEN m.n - 1 ELSE m.n
Abstract == INSTANCE Exchange WITH
  Client <- Proc,
  asked <- iter,
  served <- [c \in Proc |-> Answered(buf[c]["srv"])],
  answered <- [c \in Proc |-> Answered(buf[c]["cli"])]
ExchangeSpec == Abstract!Spec

\* A completion nobody will be told of: the driver sleeps, the channel is empty.
LostWake(p) == p \in up \ dead /\ events[p] = 0 /\ Found(p) # {}

\* A completion that stays in its queue for ever: it was not announced, or the
\* driver thread that would take it is gone.
Unannounced(c) == \E s \in Side : loc[c][s] = "cq" /\ LostWake(At(c, s))
Driverless(c) == \E s \in Side : loc[c][s] = "cq" /\ At(c, s) \in up \cap dead

\* A receive has no timeout: it waits for a peer that is gone.
Orphaned(c) ==
  pc[c]["cli"] = "await" /\ op[c]["cli"] = "recv" /\ qp[c]["srv"] = "none"

\* Handshakes, missing receives, a failed listener and the end of other processes
\* never stop a client for good: every client returns, but for one that awaits for
\* ever because a completion of its own connection was not announced, because the
\* driver of one of its two ends has panicked, or because its server is gone.
FinishesUnless ==
  <>[](\A p \in up : pc[p]["cli"] = "await"
                       /\ (Orphaned(p) \/ Unannounced(p) \/ Driverless(p)))

\* Something can go on with nobody killing a process or a driver: the guards of
\* Proceed.
CanProceed(c) ==
  \/ /\ c \in up
     /\ \/ (events[c] > 0 /\ c \notin dead) \/ srv[c] = "start"
        \/ pc[c]["cli"] \in {"start", "hello", "done", "failed"}
        \/ pc[c]["cli"] = "shake" /\ ("srv" \in wrote[c] \/ ServerGone(c))
        \/ srv[c] = "shake" /\ ("cli" \in wrote[cur[c]] \/ ClientGone(cur[c]))
        \/ srv[c] = "accept" /\ \E d \in Proc :
             host[d] = c /\ pc[d]["srv"] = "start" /\ qp[d]["srv"] = "none"
  \/ \E s \in Side :
       \/ At(c, s) \in up /\ (pc[c][s] \in {"submit", "post"} \/ loc[c][s] = "done")
       \/ loc[c][s] = "flown"
       \/ /\ op[c][s] = "send" /\ loc[c][s] = "hw"
          /\ \/ qp[c][Other(s)] # "RTS"
             \/ op[c][Other(s)] = "recv" /\ loc[c][Other(s)] = "hw"

\* When nothing can go on, a client that is left awaits a request; and it is its own
\* completion or that of its server that was not announced or that no driver is left
\* to take, or a receive of its own whose server is gone.  No other state of client,
\* listener, task, driver and device stops them all: they never wait for each other.
StopsOnly ==
  (\A c \in Proc : ~CanProceed(c)) =>
    \A p \in up : pc[p]["cli"] = "await" /\ (Orphaned(p) \/ Unannounced(p) \/ Driverless(p))

\* `for i in 1..=64`: the client goes through its loop, or fails.
Finishes == \A p \in Proc : <>(p \notin up)
===============================================================================
