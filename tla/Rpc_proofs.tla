------------------------------ MODULE Rpc_proofs ------------------------------
(***************************************************************************)
(* Proofs about Rpc, for any number of processes and requests, with any of  *)
(* the processes failing or being killed: its states are typed, it          *)
(* implements Exchange, and it stops for three reasons only.                *)
(*                                                                          *)
(* Neither side looks at the numbers it is sent, so the refinement rests on *)
(* an invariant of every conversation: the buffers of the two sides are in  *)
(* one of seven phases, and at any time at most one of the four things that *)
(* move it on can happen (Only).  What a failed or killed side has left in  *)
(* its buffer keeps its phase for ever.                                     *)
(***************************************************************************)
EXTENDS Rpc, TLAPS

Early == {"start", "hello", "shake"}
Typed == TypeOK /\ iter \in [Proc -> Nat]

\* Side s has a message that the other side has not got, and may still send it.
Unsent(c, s) ==
  op[c][s] = "send" /\ (pc[c][s] \in Early \cup {"submit", "post"} \/ loc[c][s] = "hw")
\* Side s has received a message, and may still handle it.
Holds(c, s) == op[c][s] = "recv" /\ loc[c][s] \in {"cq", "done"}

\* Whose turn it can be.
Only(c, turn) ==
  /\ Unsent(c, "cli") => turn = "ask"
  /\ Holds(c, "srv") => turn = "serve"
  /\ Unsent(c, "srv") => turn = "answer"
  /\ Holds(c, "cli") => turn = "next"

Phase(c, m, r, turn) == buf[c]["cli"] = m /\ buf[c]["srv"] = r /\ Only(c, turn)
\* What the server has in its buffer when it has answered n requests.
Rests(n) == {Pong(n)} \cup {m \in {Empty} : n = 0}

Opening(c) ==
  /\ iter[c] = 0 /\ op[c]["cli"] = "send" /\ pc[c]["cli"] \in Early \cup {"failed"}
  /\ Phase(c, Empty, Empty, "ask")
Asking(c) == iter[c] > 0 /\ \E r \in Rests(iter[c] - 1) : Phase(c, Ping(iter[c]), r, "ask")
Serving(c) == iter[c] > 0 /\ Phase(c, Ping(iter[c]), Ping(iter[c]), "serve")
Answering(c) == iter[c] > 0 /\ Phase(c, Ping(iter[c]), Pong(iter[c]), "answer")
Replied(c) == iter[c] > 0 /\ Phase(c, Pong(iter[c]), Pong(iter[c]), "next")
Leaving(c) == \E r \in Rests(iter[c]) : Phase(c, ExitMsg(iter[c]), r, "ask")
Left(c) == Phase(c, ExitMsg(iter[c]), ExitMsg(iter[c]), "serve")

\* A request is with the device only while its task awaits it.
Requests(c) == \A s \in Side :
  /\ loc[c][s] # "none" => pc[c][s] = "await"
  /\ loc[c][s] = "flown" => op[c][s] = "send"

Conversation(c) ==
  /\ Requests(c)
  /\ pc[c]["cli"] \in Early => Opening(c)
  /\ \/ Opening(c) \/ Asking(c) \/ Serving(c) \/ Answering(c) \/ Replied(c)
     \/ Leaving(c) \/ Left(c)

\* A listener in accept works on a connection of its own that has no task yet.
Accepting(p) == srv[p] = "shake" =>
  cur[p] \in Proc /\ host[cur[p]] = p /\ pc[cur[p]]["srv"] = "start"
Handshakes == \A p \in Proc : Accepting(p) /\ (pc[p]["cli"] = "start" => host[p] = None)

Alternating == Typed /\ Handshakes /\ \A c \in Proc : Conversation(c)

-------------------------------------------------------------------------------
(***************************************************************************)
(* Types                                                                    *)
(***************************************************************************)
Pcs == {"start", "hello", "shake", "submit", "post", "await", "done", "failed"}
Locs == {"none", "hw", "flown", "cq", "done"}
Qps == {"none", "Init", "RTS", "Err"}

\* The variables with a value for each side of each connection.
LEMMA Put ==
  ASSUME NEW A, NEW f \in [Proc -> [Side -> A]], NEW c, NEW s, NEW v \in A
  PROVE  [f EXCEPT ![c][s] = v] \in [Proc -> [Side -> A]]
OBVIOUS

LEMMA PutAt ==
  ASSUME NEW A, NEW f \in [Proc -> [Side -> A]], NEW c \in Proc, NEW s \in Side, NEW v
  PROVE  /\ [f EXCEPT ![c][s] = v][c][s] = v
         /\ \A d \in Proc, t \in Side : d # c \/ t # s => [f EXCEPT ![c][s] = v][d][t] = f[d][t]
OBVIOUS

\* Neither the requests nor the messages of the tasks change.
LEMMA TypedRest ==
  ASSUME Typed, up' \subseteq Proc, UNCHANGED <<op, good, buf, iter>>,
         srv' \in [Proc -> {"start", "accept", "shake", "failed"}],
         cur' \in [Proc -> Proc \cup {None}], host' \in [Proc -> Proc \cup {None}],
         wrote' \in [Proc -> SUBSET Side], pc' \in [Proc -> [Side -> Pcs]],
         loc' \in [Proc -> [Side -> Locs]], qp' \in [Proc -> [Side -> Qps]],
         armed' \in [Proc -> BOOLEAN], events' \in [Proc -> Nat], dead' \subseteq Proc
  PROVE  Typed'
BY DEF Typed, TypeOK, Pcs, Locs, Qps

LEMMA TypedParts ==
  ASSUME Typed
  PROVE  /\ up \subseteq Proc
         /\ srv \in [Proc -> {"start", "accept", "shake", "failed"}]
         /\ cur \in [Proc -> Proc \cup {None}] /\ host \in [Proc -> Proc \cup {None}]
         /\ wrote \in [Proc -> SUBSET Side] /\ pc \in [Proc -> [Side -> Pcs]]
         /\ op \in [Proc -> [Side -> {"send", "recv"}]]
         /\ loc \in [Proc -> [Side -> Locs]] /\ good \in [Proc -> [Side -> BOOLEAN]]
         /\ buf \in [Proc -> [Side -> Message]] /\ qp \in [Proc -> [Side -> Qps]]
         /\ armed \in [Proc -> BOOLEAN] /\ events \in [Proc -> Nat] /\ dead \subseteq Proc
         /\ iter \in [Proc -> Nat] /\ \A p \in Proc : iter[p] \in 0..Iters[p]
BY DEF Typed, TypeOK, Pcs, Locs, Qps

LEMMA TypedListener == ASSUME Typed, NEW p \in Proc, Listener(p) PROVE Typed'
<1> USE TypedParts
<1>1. CASE Bind(p)
  <2>1. srv' \in [Proc -> {"start", "accept", "shake", "failed"}] BY <1>1 DEF Bind
  <2> QED BY <1>1, <2>1, TypedRest DEF Bind, tasks, queues
<1>2. CASE Accepted(p)
  <2>1. srv' \in [Proc -> {"start", "accept", "shake", "failed"}] BY <1>2 DEF Accepted
  <2>2. cur' \in [Proc -> Proc \cup {None}] BY <1>2 DEF Accepted
  <2>3. pc' \in [Proc -> [Side -> Pcs]] BY <1>2, Put DEF Accepted, Pcs
  <2>4. qp' \in [Proc -> [Side -> Qps]] BY <1>2, Put DEF Accepted, Qps
  <2> QED BY <1>2, <2>1, <2>2, <2>3, <2>4, TypedRest DEF Accepted, queues
<1>3. CASE ShakeFails(p)
  <2>1. srv' \in [Proc -> {"start", "accept", "shake", "failed"}] BY <1>3 DEF ShakeFails
  <2>2. cur' \in [Proc -> Proc \cup {None}] BY <1>3 DEF ShakeFails
  <2>3. pc' \in [Proc -> [Side -> Pcs]] BY <1>3, Put DEF ShakeFails, Pcs
  <2>4. qp' \in [Proc -> [Side -> Qps]] BY <1>3, Put DEF ShakeFails, Qps
  <2> QED BY <1>3, <2>1, <2>2, <2>3, <2>4, TypedRest DEF ShakeFails, queues
<1>4. ASSUME NEW c \in Proc, Accept(p, c) PROVE Typed'
  <2>1. srv' \in [Proc -> {"start", "accept", "shake", "failed"}] BY <1>4 DEF Accept
  <2>2. cur' \in [Proc -> Proc \cup {None}] BY <1>4 DEF Accept
  <2>3. wrote' \in [Proc -> SUBSET Side] BY <1>4 DEF Accept, Side
  <2>4. qp' \in [Proc -> [Side -> Qps]] BY <1>4, Put DEF Accept, Qps
  <2> QED BY <1>4, <2>1, <2>2, <2>3, <2>4, TypedRest DEF Accept, tasks, queues
<1>5. ASSUME NEW c \in Proc, AcceptFails(p, c) PROVE Typed'
  <2>1. srv' \in [Proc -> {"start", "accept", "shake", "failed"}] BY <1>5 DEF AcceptFails
  <2>2. pc' \in [Proc -> [Side -> Pcs]] BY <1>5, Put DEF AcceptFails, Pcs
  <2> QED BY <1>5, <2>1, <2>2, TypedRest DEF AcceptFails, queues
<1> QED BY <1>1, <1>2, <1>3, <1>4, <1>5 DEF Listener

\* A task returns, with an error or after its last message.
LEMMA TypedReturn ==
  ASSUME Typed, NEW c \in Proc, NEW s \in Side, NEW how \in Pcs, Return(c, s, how)
  PROVE  Typed'
<1> USE TypedParts
<1>1. pc' \in [Proc -> [Side -> Pcs]] BY Put DEF Return
<1>2. loc' \in [Proc -> [Side -> Locs]] BY Put DEF Return, Locs
<1>3. qp' \in [Proc -> [Side -> Qps]] BY Put DEF Return, Qps
<1> QED BY <1>1, <1>2, <1>3, TypedRest DEF Return, conns, queues

LEMMA TypedEnds == ASSUME Typed, NEW p \in Proc, Ends(p) PROVE Typed'
<1> USE TypedParts
<1>1. loc' \in [Proc -> [Side -> Locs]] BY DEF Ends, Locs
<1>2. qp' \in [Proc -> [Side -> Qps]] BY DEF Ends, Qps
<1>3. up' \subseteq Proc BY DEF Ends
<1> QED BY <1>1, <1>2, <1>3, TypedRest DEF Ends, conns, queues

\* The numbers and kinds of the messages.
LEMMA Messages ==
  ASSUME NEW i \in Nat
  PROVE  /\ Ping(i) \in Message /\ Pong(i) \in Message /\ ExitMsg(i) \in Message /\ Empty \in Message
         /\ Ping(i).k = "Ping" /\ Ping(i).n = i /\ Pong(i).k = "Pong" /\ Pong(i).n = i
         /\ ExitMsg(i).k = "Exit" /\ ExitMsg(i).n = i /\ Empty.k = "Empty" /\ Empty.n = 0
BY DEF Message, Ping, Pong, ExitMsg, Empty

\* The client's next request.
LEMMA NextRequest ==
  ASSUME Typed, NEW c \in Proc
  PROVE  /\ Step(c) \in 0..Iters[c] /\ Request(c) \in Message
         /\ \/ iter[c] < Iters[c] /\ Step(c) = iter[c] + 1 /\ Request(c) = Ping(iter[c] + 1)
            \/ Step(c) = iter[c] /\ Request(c) = ExitMsg(iter[c])
<1>1. iter[c] \in Nat /\ iter[c] \in 0..Iters[c] /\ Iters[c] \in Nat /\ iter[c] + 1 \in Nat
  BY TypedParts, RpcAssumption DEF RpcAssumption
<1>2. Ping(iter[c] + 1) \in Message /\ ExitMsg(iter[c]) \in Message BY <1>1, Messages
<1> QED BY <1>1, <1>2 DEF Step, Request

LEMMA TypedContinue ==
  ASSUME Typed, NEW c \in Proc, NEW s \in Side, NEW o \in {"send", "recv"}, NEW m \in Message,
         Continue(c, s, o, m), iter' \in [Proc -> Nat], \A p \in Proc : iter'[p] \in 0..Iters[p]
  PROVE  Typed'
<1> USE TypedParts
<1>1. pc' \in [Proc -> [Side -> Pcs]] BY Put DEF Continue, Pcs
<1>2. loc' \in [Proc -> [Side -> Locs]] BY Put DEF Continue, Locs
<1>3. op' \in [Proc -> [Side -> {"send", "recv"}]] BY Put DEF Continue
<1>4. buf' \in [Proc -> [Side -> Message]] BY Put DEF Continue
<1>5. UNCHANGED <<up, srv, cur, host, wrote, good, qp, armed, events, dead>> BY DEF Continue, conns, queues
<1> QED BY <1>1, <1>2, <1>3, <1>4, <1>5 DEF Typed, TypeOK, Pcs, Locs

LEMMA StepTyped ==
  ASSUME Typed, NEW c \in Proc, iter' = [iter EXCEPT ![c] = Step(c)]
  PROVE  iter' \in [Proc -> Nat] /\ \A p \in Proc : iter'[p] \in 0..Iters[p]
<1>1. Step(c) \in 0..Iters[c] /\ Step(c) \in Nat /\ Iters[c] \in Nat
  BY NextRequest, RpcAssumption DEF RpcAssumption
<1> QED BY <1>1, TypedParts

LEMMA TypedClient == ASSUME Typed, NEW c \in Proc, ClientTask(c) PROVE Typed'
<1> USE TypedParts
<1>0. "cli" \in Side BY DEF Side
<1>1. ASSUME NEW p \in Proc, Connect(c, p) PROVE Typed'
  <2>1. pc' \in [Proc -> [Side -> Pcs]] BY <1>1, Put DEF Connect, Pcs
  <2>2. qp' \in [Proc -> [Side -> Qps]] BY <1>1, Put DEF Connect, Qps
  <2>3. host' \in [Proc -> Proc \cup {None}] BY <1>1 DEF Connect
  <2> QED BY <1>1, <2>1, <2>2, <2>3, TypedRest DEF Connect, queues
<1>2. CASE ConnectFails(c)
  <2>1. pc' \in [Proc -> [Side -> Pcs]] BY <1>2, Put DEF ConnectFails, Pcs
  <2> QED BY <1>2, <2>1, TypedRest DEF ConnectFails, conns, queues
<1>3. CASE Hello(c)
  <2>1. pc' \in [Proc -> [Side -> Pcs]] BY <1>3, Put DEF Hello, Pcs
  <2>2. wrote' \in [Proc -> SUBSET Side] BY <1>3 DEF Hello, Side
  <2> QED BY <1>3, <2>1, <2>2, TypedRest DEF Hello, queues
<1>4. CASE Connected(c)
  <2>1. pc' \in [Proc -> [Side -> Pcs]] BY <1>4, Put DEF Connected, Pcs
  <2>2. qp' \in [Proc -> [Side -> Qps]] BY <1>4, Put DEF Connected, Qps
  <2>3. buf' \in [Proc -> [Side -> Message]] BY <1>4, Put, NextRequest DEF Connected
  <2>4. iter' \in [Proc -> Nat] /\ \A p \in Proc : iter'[p] \in 0..Iters[p]
    BY <1>4, StepTyped DEF Connected
  <2>5. UNCHANGED <<up, srv, cur, host, wrote, op, loc, good, armed, events, dead>>
    BY <1>4 DEF Connected, conns, queues
  <2> QED BY <2>1, <2>2, <2>3, <2>4, <2>5 DEF Typed, TypeOK, Pcs, Qps
<1>5. CASE ConnectBreaks(c)
  <2>1. pc' \in [Proc -> [Side -> Pcs]] BY <1>5, Put DEF ConnectBreaks, Pcs
  <2>2. qp' \in [Proc -> [Side -> Qps]] BY <1>5, Put DEF ConnectBreaks, Qps
  <2> QED BY <1>5, <2>1, <2>2, TypedRest DEF ConnectBreaks, conns, queues
<1>6. CASE ClientSent(c)
  <2>1. buf[c]["cli"] \in Message BY <1>0
  <2> QED BY <1>0, <1>6, <2>1, TypedContinue DEF ClientSent
<1>7. CASE ClientReceived(c)
  BY <1>0, <1>7, NextRequest, StepTyped, TypedContinue DEF ClientReceived
<1>8. CASE ClientDone(c) BY <1>0, <1>8, TypedReturn DEF ClientDone, Pcs
<1> QED BY <1>1, <1>2, <1>3, <1>4, <1>5, <1>6, <1>7, <1>8 DEF ClientTask

LEMMA TypedTask == ASSUME Typed, NEW c \in Proc, NEW s \in Side, Task(c, s) PROVE Typed'
<1> USE TypedParts
<1>1. CASE Submit(c, s)
  <2>1. pc' \in [Proc -> [Side -> Pcs]] BY <1>1, Put DEF Submit, Pcs
  <2>2. armed' \in [Proc -> BOOLEAN] BY <1>1 DEF Submit
  <2> QED BY <1>1, <2>1, <2>2, TypedRest DEF Submit, conns
<1>2. CASE Post(c, s)
  <2>1. pc' \in [Proc -> [Side -> Pcs]] BY <1>2, Put DEF Post, Pcs
  <2>2. loc' \in [Proc -> [Side -> Locs]] BY <1>2, Put DEF Post, Locs
  <2> QED BY <1>2, <2>1, <2>2, TypedRest DEF Post, conns, queues
<1>3. CASE SubmitFails(c, s) BY <1>3, TypedReturn DEF SubmitFails, Pcs
<1>4. CASE TaskFails(c, s) BY <1>4, TypedReturn DEF TaskFails, Pcs
<1> QED BY <1>1, <1>2, <1>3, <1>4 DEF Task

LEMMA TypedServe == ASSUME Typed, NEW c \in Proc, Serve(c) PROVE Typed'
<1> USE TypedParts
<1>0. "srv" \in Side /\ buf[c]["srv"] \in Message BY DEF Side
<1>1. Pong(buf[c]["srv"].n) \in Message
  <2>1. buf[c]["srv"].n \in Nat BY <1>0 DEF Message
  <2> QED BY <2>1, Messages
<1>2. CASE ServeSent(c) BY <1>0, <1>2, TypedContinue DEF ServeSent
<1>3. CASE ServeReceived(c)
  BY <1>0, <1>1, <1>3, TypedContinue, TypedReturn DEF ServeReceived, Pcs
<1> QED BY <1>2, <1>3 DEF Serve

LEMMA TypedNotify ==
  ASSUME Typed, NEW p, Notify(p)
  PROVE  armed' \in [Proc -> BOOLEAN] /\ events' \in [Proc -> Nat] /\ dead' \subseteq Proc
<1>1. armed' \in [Proc -> BOOLEAN] BY TypedParts DEF Notify
<1>2. events' \in [Proc -> Nat]
  <2>1. events \in [Proc -> Nat] BY TypedParts
  <2>2. CASE p \in Proc
    <3>1. events[p] \in Nat /\ events[p] + 1 \in Nat BY <2>1, <2>2
    <3>2. (IF armed[p] THEN events[p] + 1 ELSE events[p]) \in Nat BY <3>1
    <3>3. events' = [events EXCEPT ![p] = IF armed[p] THEN events[p] + 1 ELSE events[p]]
      BY DEF Notify
    <3> QED BY <2>1, <3>2, <3>3
  <2>3. CASE p \notin Proc
    <3>1. events' = events BY <2>1, <2>3 DEF Notify
    <3> QED BY <2>1, <3>1
  <2> QED BY <2>2, <2>3
<1>3. dead' \subseteq Proc BY TypedParts DEF Notify
<1> QED BY <1>1, <1>2, <1>3

LEMMA TypedDevice == ASSUME Typed, NEW c \in Proc, NEW s \in Side, Device(c, s) PROVE Typed'
<1> USE TypedParts
<1>0. Other(s) \in Side /\ buf[c][s] \in Message BY DEF Side, Other
<1>1. CASE Deliver(c, s)
  <2>1. armed' \in [Proc -> BOOLEAN] /\ events' \in [Proc -> Nat] /\ dead' \subseteq Proc
    BY <1>1, TypedNotify DEF Deliver
  <2>2. loc' \in [Proc -> [Side -> Locs]]
    <3>1. [loc EXCEPT ![c][s] = "flown"] \in [Proc -> [Side -> Locs]] BY Put DEF Locs
    <3>2. loc' = [[loc EXCEPT ![c][s] = "flown"] EXCEPT ![c][Other(s)] = "cq"] BY <1>1 DEF Deliver
    <3> QED BY <3>1, <3>2, Put DEF Locs
  <2>3. good' \in [Proc -> [Side -> BOOLEAN]] BY <1>1, Put DEF Deliver
  <2>4. buf' \in [Proc -> [Side -> Message]] BY <1>0, <1>1, Put DEF Deliver
  <2>5. UNCHANGED <<up, srv, cur, host, wrote, pc, op, iter, qp>> BY <1>1 DEF Deliver, conns
  <2> QED BY <2>1, <2>2, <2>3, <2>4, <2>5 DEF Typed, TypeOK, Locs
<1>2. CASE Ack(c, s)
  <2>1. armed' \in [Proc -> BOOLEAN] /\ events' \in [Proc -> Nat] /\ dead' \subseteq Proc
    BY <1>2, TypedNotify DEF Ack
  <2>2. loc' \in [Proc -> [Side -> Locs]] BY <1>2, Put DEF Ack, Locs
  <2>3. good' \in [Proc -> [Side -> BOOLEAN]] BY <1>2, Put DEF Ack
  <2>4. UNCHANGED <<up, srv, cur, host, wrote, pc, op, buf, iter, qp>> BY <1>2 DEF Ack, conns
  <2> QED BY <2>1, <2>2, <2>3, <2>4 DEF Typed, TypeOK, Locs
<1>3. CASE RetryExceeded(c, s)
  <2>1. armed' \in [Proc -> BOOLEAN] /\ events' \in [Proc -> Nat] /\ dead' \subseteq Proc
    BY <1>3, TypedNotify DEF RetryExceeded
  <2>2. loc' \in [Proc -> [Side -> Locs]] BY <1>3, Put DEF RetryExceeded, Locs
  <2>3. good' \in [Proc -> [Side -> BOOLEAN]] BY <1>3, Put DEF RetryExceeded
  <2>4. qp' \in [Proc -> [Side -> Qps]] BY <1>3, Put DEF RetryExceeded, Qps
  <2>5. UNCHANGED <<up, srv, cur, host, wrote, pc, op, buf, iter>> BY <1>3 DEF RetryExceeded, conns
  <2> QED BY <2>1, <2>2, <2>3, <2>4, <2>5 DEF Typed, TypeOK, Locs, Qps
<1> QED BY <1>1, <1>2, <1>3 DEF Device

LEMMA TypedDrive ==
  ASSUME Typed, NEW p \in Proc, Drive(p) \/ DriverFails(p)
  PROVE  Typed'
<1> USE TypedParts
<1>1. ASSUME NEW D, Completes(p, D)
      PROVE  events' \in [Proc -> Nat] /\ loc' \in [Proc -> [Side -> Locs]]
  <2>1. events' \in [Proc -> Nat] BY <1>1 DEF Completes
  <2>2. loc' \in [Proc -> [Side -> Locs]] BY <1>1 DEF Completes, Locs
  <2> QED BY <2>1, <2>2
<1>2. events' \in [Proc -> Nat] /\ loc' \in [Proc -> [Side -> Locs]]
  BY <1>1 DEF Drive, DriverFails
<1>3. dead' \subseteq Proc BY DEF Drive, DriverFails
<1> QED BY <1>2, <1>3, TypedRest DEF Drive, DriverFails, conns

LEMMA NextTyped == Typed /\ [Next]_vars => Typed'
<1> SUFFICES ASSUME Typed, [Next]_vars PROVE Typed' OBVIOUS
<1>1. CASE UNCHANGED vars BY <1>1 DEF Typed, TypeOK, vars, conns, tasks, queues
<1>2. ASSUME NEW p \in Proc, Killed(p) \/ MainReturns(p) PROVE Typed'
  BY <1>2, TypedEnds DEF Killed, MainReturns
<1>3. CASE Proceed
  BY <1>2, <1>3, TypedListener, TypedClient, TypedServe, TypedDrive, TypedTask, TypedDevice DEF Proceed
<1>4. ASSUME NEW p \in Proc, DriverFails(p) PROVE Typed' BY <1>4, TypedDrive
<1> QED BY <1>1, <1>2, <1>3, <1>4 DEF Next

LEMMA InitTyped == Init => Typed
<1> SUFFICES ASSUME Init PROVE Typed OBVIOUS
<1>1. Empty \in Message /\ \A p \in Proc : Iters[p] \in Nat BY Messages, RpcAssumption DEF RpcAssumption
<1>2. /\ pc \in [Proc -> [Side -> Pcs]] /\ loc \in [Proc -> [Side -> Locs]]
      /\ op \in [Proc -> [Side -> {"send", "recv"}]] /\ qp \in [Proc -> [Side -> Qps]]
  BY DEF Init, Pcs, Locs, Qps
<1>3. good \in [Proc -> [Side -> BOOLEAN]] /\ buf \in [Proc -> [Side -> Message]] BY <1>1 DEF Init
<1>4. iter \in [Proc -> Nat] /\ (\A p \in Proc : iter[p] \in 0..Iters[p]) BY <1>1 DEF Init
<1>5. up \subseteq Proc /\ dead \subseteq Proc /\ wrote \in [Proc -> SUBSET Side] /\ armed \in [Proc -> BOOLEAN]
      /\ events \in [Proc -> Nat] /\ cur \in [Proc -> Proc \cup {None}]
      /\ host \in [Proc -> Proc \cup {None}] /\ srv \in [Proc -> {"start", "accept", "shake", "failed"}]
  BY DEF Init
<1> QED BY <1>2, <1>3, <1>4, <1>5 DEF Typed, TypeOK, Pcs, Locs, Qps

-------------------------------------------------------------------------------
(***************************************************************************)
(* Exchange, seen from here                                                 *)
(***************************************************************************)
LEMMA Answers ==
  ASSUME NEW i \in Nat
  PROVE  /\ Answered(Ping(i)) = i - 1 /\ Answered(Pong(i)) = i /\ Answered(ExitMsg(i)) = i
         /\ Answered(Empty) = 0
BY Messages DEF Answered

\* The messages of all connections count for the same as before.
SameAnswers(c, s) == Answered(buf[c][s])' = Answered(buf[c][s])

LEMMA Stutters ==
  ASSUME UNCHANGED iter, \A d \in Proc : SameAnswers(d, "srv") /\ SameAnswers(d, "cli")
  PROVE  UNCHANGED Abstract!vars
BY DEF SameAnswers, Abstract!vars

LEMMA Asks ==
  ASSUME Typed, NEW c \in Proc, iter' = [iter EXCEPT ![c] = iter[c] + 1], iter[c] < Iters[c],
         Answered(buf[c]["cli"]) = iter[c],
         \A d \in Proc : SameAnswers(d, "srv") /\ SameAnswers(d, "cli")
  PROVE  Abstract!Next
<1>1. Abstract!Ask(c) BY DEF SameAnswers, Abstract!Ask
<1> QED BY <1>1 DEF Abstract!Next

LEMMA Serves ==
  ASSUME NEW c \in Proc, UNCHANGED iter, Answered(buf[c]["srv"]) < iter[c],
         Answered(buf[c]["srv"])' = Answered(buf[c]["srv"]) + 1,
         \A d \in Proc : (d # c => SameAnswers(d, "srv")) /\ SameAnswers(d, "cli")
  PROVE  Abstract!Next
<1>1. Abstract!Serve(c) BY DEF SameAnswers, Abstract!Serve
<1> QED BY <1>1 DEF Abstract!Next

LEMMA Replies ==
  ASSUME NEW c \in Proc, UNCHANGED iter, Answered(buf[c]["cli"]) < Answered(buf[c]["srv"]),
         Answered(buf[c]["cli"])' = Answered(buf[c]["cli"]) + 1,
         \A d \in Proc : (d # c => SameAnswers(d, "cli")) /\ SameAnswers(d, "srv")
  PROVE  Abstract!Next
<1>1. Abstract!Answer(c) BY DEF SameAnswers, Abstract!Answer
<1> QED BY <1>1 DEF Abstract!Next

-------------------------------------------------------------------------------
(***************************************************************************)
(* Steps that leave the messages                                            *)
(***************************************************************************)
SameAt(c, s) == pc'[c][s] = pc[c][s] /\ op'[c][s] = op[c][s] /\ loc'[c][s] = loc[c][s]

\* Side s of c gets no turn that it had not.
QuietAt(c, s) ==
  /\ Unsent(c, s)' => Unsent(c, s)
  /\ Holds(c, s)' => Holds(c, s)
  /\ loc'[c][s] # "none" => pc'[c][s] = "await"
  /\ loc'[c][s] = "flown" => op'[c][s] = "send"
  /\ s = "cli" => /\ pc'[c][s] \in Early => pc[c][s] \in Early
                  /\ pc[c][s] \in Early \cup {"failed"} =>
                       pc'[c][s] \in Early \cup {"failed"} /\ op'[c][s] = op[c][s]

LEMMA SameQuiet ==
  ASSUME NEW c \in Proc, NEW s \in Side, Requests(c), SameAt(c, s)
  PROVE  QuietAt(c, s)
BY DEF Requests, SameAt, QuietAt, Unsent, Holds

LEMMA QuietKept ==
  ASSUME NEW c \in Proc, Conversation(c), iter'[c] = iter[c],
         \A s \in Side : QuietAt(c, s) /\ buf'[c][s] = buf[c][s]
  PROVE  Conversation(c)'
<1>0. QuietAt(c, "cli") /\ QuietAt(c, "srv") /\ buf'[c]["cli"] = buf[c]["cli"] /\ buf'[c]["srv"] = buf[c]["srv"]
  BY DEF Side
<1>1. ASSUME NEW t, Only(c, t) PROVE Only(c, t)' BY <1>0, <1>1 DEF Only, QuietAt
<1>2. ASSUME NEW m, NEW r, NEW t, Phase(c, m, r, t) PROVE Phase(c, m, r, t)' BY <1>0, <1>1, <1>2 DEF Phase
<1>3. Requests(c)' BY DEF Requests, QuietAt
<1>4. Opening(c) => Opening(c)' BY <1>0, <1>2 DEF Opening, QuietAt
<1>5. Asking(c) => Asking(c)' BY <1>2 DEF Asking
<1>6. /\ Serving(c) => Serving(c)'
      /\ Answering(c) => Answering(c)'
      /\ Replied(c) => Replied(c)'
  BY <1>2 DEF Serving, Answering, Replied
<1>7. Leaving(c) => Leaving(c)' BY <1>2 DEF Leaving
<1>8. Left(c) => Left(c)' BY <1>2 DEF Left
<1>9. pc'[c]["cli"] \in Early => Opening(c)' BY <1>0, <1>4 DEF Conversation, QuietAt
<1> QED BY <1>3, <1>4, <1>5, <1>6, <1>7, <1>8, <1>9 DEF Conversation

\* A step that leaves the messages and the handshakes.
LEMMA QuietStep ==
  ASSUME Alternating, Typed', Handshakes', UNCHANGED <<buf, iter>>,
         \A c \in Proc, s \in Side : QuietAt(c, s)
  PROVE  Alternating' /\ UNCHANGED Abstract!vars
<1>1. \A c \in Proc : Conversation(c)' BY QuietKept DEF Alternating
<1>2. \A d \in Proc : SameAnswers(d, "srv") /\ SameAnswers(d, "cli") BY DEF SameAnswers
<1>3. UNCHANGED Abstract!vars BY <1>2, Stutters
<1> QED BY <1>1, <1>3 DEF Alternating

LEMMA HandshakesKept ==
  ASSUME Alternating, UNCHANGED <<srv, cur, host>>,
         \A c \in Proc : /\ pc[c]["srv"] = "start" => pc'[c]["srv"] = "start"
                         /\ pc'[c]["cli"] = "start" => pc[c]["cli"] = "start"
  PROVE  Handshakes'
BY DEF Alternating, Handshakes, Accepting

\* A step of one task: the others stay where they are.
LEMMA TaskQuiet ==
  ASSUME Alternating, Typed', UNCHANGED <<srv, cur, host, buf, iter>>, NEW c \in Proc, NEW s \in Side,
         \A d \in Proc, t \in Side : d # c \/ t # s => SameAt(d, t),
         QuietAt(c, s), pc[c][s] # "start", pc'[c][s] # "start"
  PROVE  Alternating' /\ UNCHANGED Abstract!vars
<1>1. \A d \in Proc, t \in Side : QuietAt(d, t) BY SameQuiet DEF Alternating, Conversation
<1>2. \A d \in Proc, t \in Side : pc[d][t] = "start" <=> pc'[d][t] = "start" BY DEF SameAt
<1>3. Handshakes' BY <1>2, HandshakesKept DEF Side
<1> QED BY <1>1, <1>3, QuietStep

LEMMA ReturnQuiet ==
  ASSUME Alternating, Typed', NEW c \in Proc, NEW s \in Side, NEW how \in {"done", "failed"},
         Return(c, s, how), pc[c][s] \in {"submit", "post", "await"}
  PROVE  Alternating' /\ UNCHANGED Abstract!vars
<1>0. TypeOK BY DEF Alternating, Typed
<1>1. /\ pc'[c][s] = how /\ loc'[c][s] = "none"
      /\ \A d \in Proc, t \in Side : d # c \/ t # s => SameAt(d, t)
      /\ UNCHANGED <<srv, cur, host, op, buf, iter>>
  BY <1>0, PutAt DEF TypeOK, Return, SameAt, conns
<1>2. QuietAt(c, s) BY <1>1 DEF QuietAt, Unsent, Holds, Early
<1> QED BY <1>1, <1>2, TaskQuiet

LEMMA TaskStep ==
  ASSUME Alternating, Typed', NEW c \in Proc, NEW s \in Side, Task(c, s)
  PROVE  Alternating' /\ UNCHANGED Abstract!vars
<1>0. TypeOK /\ Requests(c) BY DEF Alternating, Typed, Conversation
<1>1. CASE Submit(c, s)
  <2>1. /\ pc[c][s] = "submit" /\ pc'[c][s] = "post" /\ UNCHANGED <<srv, cur, host, op, loc, buf, iter>>
        /\ \A d \in Proc, t \in Side : d # c \/ t # s => SameAt(d, t)
    BY <1>0, <1>1, PutAt DEF TypeOK, Submit, SameAt, conns
  <2>2. QuietAt(c, s) BY <1>0, <2>1 DEF Requests, QuietAt, Unsent, Holds, Early
  <2> QED BY <2>1, <2>2, TaskQuiet
<1>2. CASE Post(c, s)
  <2>1. /\ pc[c][s] = "post" /\ pc'[c][s] = "await" /\ loc'[c][s] = "hw"
        /\ UNCHANGED <<srv, cur, host, op, buf, iter>>
        /\ \A d \in Proc, t \in Side : d # c \/ t # s => SameAt(d, t)
    BY <1>0, <1>2, PutAt DEF TypeOK, Post, SameAt, conns
  <2>2. QuietAt(c, s) BY <1>0, <2>1 DEF Requests, QuietAt, Unsent, Holds, Early
  <2> QED BY <2>1, <2>2, TaskQuiet
<1>3. CASE SubmitFails(c, s) BY <1>3, ReturnQuiet DEF SubmitFails
<1>4. CASE TaskFails(c, s)
  <2>1. pc[c][s] = "await" BY <1>0, <1>4 DEF TaskFails, Requests
  <2> QED BY <1>4, <2>1, ReturnQuiet DEF TaskFails
<1> QED BY <1>1, <1>2, <1>3, <1>4 DEF Task

\* A send that completes, with success or not, gives nobody a turn.
LEMMA SendCompletes ==
  ASSUME Alternating, Typed', NEW c \in Proc, NEW s \in Side, Ack(c, s) \/ RetryExceeded(c, s)
  PROVE  Alternating' /\ UNCHANGED Abstract!vars
<1>0. TypeOK /\ Requests(c) BY DEF Alternating, Typed, Conversation
<1>1. /\ loc'[c][s] = "cq" /\ UNCHANGED <<srv, cur, host, pc, op, buf, iter>>
      /\ \A d \in Proc, t \in Side : d # c \/ t # s => SameAt(d, t)
  BY <1>0, PutAt DEF TypeOK, Ack, RetryExceeded, SameAt, conns
<1>2. pc[c][s] = "await" /\ op[c][s] = "send" BY <1>0 DEF Ack, RetryExceeded, Requests
<1>3. QuietAt(c, s) BY <1>1, <1>2 DEF QuietAt, Unsent, Holds, Early
<1> QED BY <1>1, <1>2, <1>3, TaskQuiet

\* Requests that are completed, or that go with their process.
LEMMA LocQuiet ==
  ASSUME Alternating, Typed', UNCHANGED <<srv, cur, host, pc, op, buf, iter>>,
         \A c \in Proc, s \in Side : \/ loc'[c][s] = loc[c][s]
                                     \/ loc'[c][s] = "none"
                                     \/ loc'[c][s] = "done" /\ loc[c][s] = "cq"
  PROVE  Alternating' /\ UNCHANGED Abstract!vars
<1>1. ASSUME NEW c \in Proc, NEW s \in Side PROVE QuietAt(c, s)
  <2>1. Requests(c) BY DEF Alternating, Conversation
  <2> QED BY <2>1 DEF Requests, QuietAt, Unsent, Holds
<1>2. Handshakes' BY HandshakesKept
<1> QED BY <1>1, <1>2, QuietStep

\* The driver, up to its panic.
LEMMA DriveLocs ==
  ASSUME NEW p \in Proc, Drive(p) \/ DriverFails(p), NEW c \in Proc, NEW s \in Side
  PROVE  loc'[c][s] = loc[c][s] \/ (loc'[c][s] = "done" /\ loc[c][s] = "cq")
<1>1. CASE Drive(p) BY <1>1 DEF Drive, Completes, Found
<1>2. CASE DriverFails(p)
  <2>1. CASE UNCHANGED loc BY <2>1
  <2>2. ASSUME NEW D \in SUBSET Found(p), Completes(p, D)
        PROVE loc'[c][s] = loc[c][s] \/ (loc'[c][s] = "done" /\ loc[c][s] = "cq")
    BY <2>2 DEF Completes, Found
  <2> QED BY <1>2, <2>1, <2>2 DEF DriverFails
<1> QED BY <1>1, <1>2

LEMMA DriveStep ==
  ASSUME Alternating, Typed', NEW p \in Proc, Drive(p) \/ DriverFails(p)
  PROVE  Alternating' /\ UNCHANGED Abstract!vars
<1>1. \A c \in Proc, s \in Side : loc'[c][s] = loc[c][s] \/ (loc'[c][s] = "done" /\ loc[c][s] = "cq")
  BY DriveLocs
<1> QED BY <1>1, LocQuiet DEF Drive, DriverFails, conns

LEMMA EndsStep ==
  ASSUME Alternating, Typed', NEW p \in Proc, Ends(p)
  PROVE  Alternating' /\ UNCHANGED Abstract!vars
<1>1. \A c \in Proc, s \in Side : loc'[c][s] = loc[c][s] \/ loc'[c][s] = "none" BY DEF Ends
<1> QED BY <1>1, LocQuiet DEF Ends, conns

\* A send is done, and the task turns to its receive.
LEMMA SentStep ==
  ASSUME Alternating, Typed', NEW c \in Proc, ClientSent(c) \/ ServeSent(c)
  PROVE  Alternating' /\ UNCHANGED Abstract!vars
<1>0. TypeOK /\ Requests(c) BY DEF Alternating, Typed, Conversation
<1>1. PICK s \in Side : loc[c][s] = "done" /\ Continue(c, s, "recv", buf[c][s]) /\ UNCHANGED iter
  BY DEF ClientSent, ServeSent, Ready, Side
<1>2. /\ pc'[c][s] = "submit" /\ loc'[c][s] = "none" /\ op'[c][s] = "recv" /\ UNCHANGED <<srv, cur, host, iter>>
      /\ \A d \in Proc, t \in Side : d # c \/ t # s => SameAt(d, t)
  BY <1>0, <1>1, PutAt DEF TypeOK, Continue, SameAt, conns
<1>3. UNCHANGED buf
  <2>1. buf' = [buf EXCEPT ![c][s] = buf[c][s]] BY <1>1 DEF Continue
  <2> QED BY <1>0, <2>1 DEF TypeOK
<1>4. pc[c][s] = "await" BY <1>0, <1>1 DEF Requests
<1>5. QuietAt(c, s) BY <1>2, <1>4 DEF QuietAt, Unsent, Holds, Early
<1> QED BY <1>2, <1>3, <1>4, <1>5, TaskQuiet

LEMMA ListenerStep ==
  ASSUME Alternating, Typed', NEW p \in Proc, Listener(p)
  PROVE  Alternating' /\ UNCHANGED Abstract!vars
<1>0. TypeOK /\ Handshakes /\ \A c \in Proc : Requests(c) BY DEF Alternating, Typed, Conversation
<1>1. UNCHANGED <<host, op, loc, buf, iter>>
  BY DEF Listener, Bind, Accept, AcceptFails, Accepted, ShakeFails, tasks
<1>2. CASE Bind(p) \/ \E c \in Proc : Accept(p, c)
  <2>1. UNCHANGED pc BY <1>2 DEF Bind, Accept, tasks
  <2>2. ASSUME NEW c \in Proc, NEW s \in Side PROVE QuietAt(c, s)
    <3>1. SameAt(c, s) BY <1>1, <2>1 DEF SameAt
    <3> QED BY <1>0, <3>1, SameQuiet
  <2>3. ASSUME NEW q \in Proc PROVE Accepting(q)'
    <3>1. CASE Bind(p) BY <1>0, <1>1, <2>1, <3>1 DEF TypeOK, Bind, Handshakes, Accepting
    <3>2. ASSUME NEW c \in Proc, Accept(p, c) PROVE Accepting(q)'
      BY <1>0, <1>1, <2>1, <3>2 DEF TypeOK, Accept, Handshakes, Accepting
    <3> QED BY <1>2, <3>1, <3>2
  <2>4. Handshakes' BY <1>0, <1>1, <2>1, <2>3 DEF Handshakes
  <2> QED BY <1>1, <2>2, <2>4, QuietStep
<1>3. CASE ~(Bind(p) \/ \E c \in Proc : Accept(p, c))
  <2>1. PICK c \in Proc, how \in {"submit", "failed"} :
          /\ host[c] = p /\ pc[c]["srv"] = "start" /\ pc' = [pc EXCEPT ![c]["srv"] = how]
          /\ \A q \in Proc : srv[q] = "shake" /\ cur[q] = c => srv'[q] # "shake"
    <3>1. ASSUME NEW c \in Proc, AcceptFails(p, c)
          PROVE  /\ host[c] = p /\ pc[c]["srv"] = "start" /\ pc' = [pc EXCEPT ![c]["srv"] = "failed"]
                 /\ \A q \in Proc : srv[q] = "shake" /\ cur[q] = c => srv'[q] # "shake"
      BY <1>0, <3>1 DEF TypeOK, AcceptFails, Handshakes, Accepting
    <3>2. ASSUME Accepted(p) \/ ShakeFails(p)
          PROVE  /\ cur[p] \in Proc /\ host[cur[p]] = p /\ pc[cur[p]]["srv"] = "start"
                 /\ \E how \in {"submit", "failed"} : pc' = [pc EXCEPT ![cur[p]]["srv"] = how]
                 /\ \A q \in Proc : srv[q] = "shake" /\ cur[q] = cur[p] => srv'[q] # "shake"
      BY <1>0, <3>2 DEF TypeOK, Accepted, ShakeFails, Handshakes, Accepting
    <3>3. CASE Accepted(p) \/ ShakeFails(p) BY <3>2, <3>3
    <3>4. CASE \E c \in Proc : AcceptFails(p, c) BY <3>1, <3>4
    <3> QED BY <1>3, <3>3, <3>4 DEF Listener
  <2>2. /\ pc'[c]["srv"] = how
        /\ \A d \in Proc, t \in Side : d # c \/ t # "srv" => pc'[d][t] = pc[d][t]
    BY <1>0, <2>1, PutAt DEF TypeOK, Side
  <2>3. ASSUME NEW d \in Proc, NEW t \in Side PROVE QuietAt(d, t)
    <3>1. CASE d # c \/ t # "srv"
      <4>1. SameAt(d, t) BY <1>1, <2>2, <3>1 DEF SameAt
      <4> QED BY <1>0, <4>1, SameQuiet
    <3>2. CASE d = c /\ t = "srv"
      <4>1. loc[c]["srv"] = "none" BY <1>0, <2>1 DEF Requests, Side
      <4> QED BY <1>1, <2>1, <2>2, <3>2, <4>1 DEF QuietAt, Unsent, Holds, Early
    <3> QED BY <3>1, <3>2
  <2>4. ASSUME NEW q \in Proc, srv'[q] = "shake" PROVE srv[q] = "shake" /\ cur'[q] = cur[q]
    BY <1>0, <1>3, <2>4 DEF TypeOK, Listener, AcceptFails, Accepted, ShakeFails
  <2>5. Handshakes' BY <1>0, <1>1, <2>1, <2>2, <2>4 DEF Handshakes, Accepting, Side
  <2> QED BY <1>1, <2>3, <2>5, QuietStep
<1> QED BY <1>2, <1>3

\* Before the client's first request.
LEMMA ConnectStep ==
  ASSUME Alternating, Typed', NEW c \in Proc,
         (\E p \in Proc : Connect(c, p)) \/ ConnectFails(c) \/ Hello(c) \/ ConnectBreaks(c)
  PROVE  Alternating' /\ UNCHANGED Abstract!vars
<1>0. TypeOK /\ Handshakes /\ \A d \in Proc : Requests(d) BY DEF Alternating, Typed, Conversation
<1>1. UNCHANGED <<srv, cur, op, loc, buf, iter>>
  BY DEF Connect, ConnectFails, Hello, ConnectBreaks, conns
<1>2. PICK s \in {"hello", "shake", "failed"} :
        pc' = [pc EXCEPT ![c]["cli"] = s] /\ pc[c]["cli"] \in Early
  BY DEF Connect, ConnectFails, Hello, ConnectBreaks, Early
<1>3. /\ pc'[c]["cli"] = s
      /\ \A d \in Proc, t \in Side : d # c \/ t # "cli" => pc'[d][t] = pc[d][t]
  BY <1>0, <1>2, PutAt DEF TypeOK, Side
<1>4. ASSUME NEW d \in Proc, NEW t \in Side PROVE QuietAt(d, t)
  <2>1. CASE d # c \/ t # "cli"
    <3>1. SameAt(d, t) BY <1>1, <1>3, <2>1 DEF SameAt
    <3> QED BY <1>0, <3>1, SameQuiet
  <2>2. CASE d = c /\ t = "cli"
    <3>1. loc[c]["cli"] = "none" BY <1>0, <1>2 DEF Requests, Side, Early
    <3> QED BY <1>1, <1>2, <1>3, <2>2, <3>1 DEF QuietAt, Unsent, Holds, Early
  <2> QED BY <2>1, <2>2
<1>5. Handshakes'
  <2>1. \A d \in Proc : (d # c \/ pc[c]["cli"] # "start") => host'[d] = host[d]
    BY <1>0 DEF TypeOK, Connect, ConnectFails, Hello, ConnectBreaks, conns
  <2>2. \A d \in Proc : pc'[d]["cli"] = "start" => d # c /\ pc[d]["cli"] = "start" BY <1>3 DEF Side
  <2>3. \A d \in Proc : pc'[d]["srv"] = pc[d]["srv"] BY <1>3 DEF Side
  <2>4. None \notin Proc BY RpcAssumption DEF RpcAssumption
  <2>5. ASSUME NEW p \in Proc PROVE Accepting(p)'
    <3>1. srv[p] = "shake" => cur[p] # c \/ pc[c]["cli"] # "start"
      BY <1>0, <2>4 DEF Handshakes, Accepting
    <3> QED BY <1>0, <1>1, <2>1, <2>3, <3>1 DEF Handshakes, Accepting
  <2> QED BY <1>0, <2>1, <2>2, <2>5 DEF Handshakes
<1> QED BY <1>1, <1>4, <1>5, QuietStep

-------------------------------------------------------------------------------
(***************************************************************************)
(* Steps that change a message                                              *)
(***************************************************************************)
\* Who has the turn determines the phase.
LEMMA TurnPhase ==
  ASSUME NEW c \in Proc, Conversation(c)
  PROVE  /\ Unsent(c, "cli") => Opening(c) \/ Asking(c) \/ Leaving(c)
         /\ Holds(c, "srv") => Serving(c) \/ Left(c)
         /\ Unsent(c, "srv") => Answering(c)
         /\ Holds(c, "cli") => Replied(c)
<1>1. ASSUME NEW m, NEW r, NEW t, Phase(c, m, r, t) PROVE Only(c, t) BY <1>1 DEF Phase
<1>2. /\ Opening(c) => Only(c, "ask")
      /\ Serving(c) => Only(c, "serve")
      /\ Answering(c) => Only(c, "answer")
      /\ Replied(c) => Only(c, "next")
      /\ Left(c) => Only(c, "serve")
  BY <1>1 DEF Opening, Serving, Answering, Replied, Left
<1>3. Asking(c) => Only(c, "ask") BY <1>1 DEF Asking
<1>4. Leaving(c) => Only(c, "ask") BY <1>1 DEF Leaving
<1> QED BY <1>2, <1>3, <1>4 DEF Conversation, Only

SameConn(d) ==
  iter'[d] = iter[d] /\ \A s \in Side : SameAt(d, s) /\ buf'[d][s] = buf[d][s]

LEMMA MoveStep ==
  ASSUME Alternating, Typed', UNCHANGED <<srv, cur, host>>, NEW c \in Proc, Conversation(c)',
         pc'[c]["srv"] = pc[c]["srv"] \/ pc[c]["srv"] # "start", pc'[c]["cli"] # "start",
         \A d \in Proc \ {c} : SameConn(d)
  PROVE  Alternating'
<1>1. ASSUME NEW d \in Proc \ {c} PROVE Conversation(d)'
  <2>1. Conversation(d) /\ Requests(d) BY DEF Alternating, Conversation
  <2>2. \A s \in Side : QuietAt(d, s) /\ buf'[d][s] = buf[d][s] BY <2>1, SameQuiet DEF SameConn
  <2> QED BY <2>1, <2>2, QuietKept DEF SameConn
<1>2. \A d \in Proc \ {c} : pc'[d]["srv"] = pc[d]["srv"] /\ pc'[d]["cli"] = pc[d]["cli"]
  BY DEF SameConn, SameAt, Side
<1>3. Handshakes' BY <1>2, HandshakesKept
<1> QED BY <1>1, <1>3 DEF Alternating

\* The number a resting server has answered.
LEMMA RestsAnswered ==
  ASSUME NEW n \in Nat, NEW r \in Rests(n) PROVE Answered(r) = n
BY Answers DEF Rests

\* The client makes its next request, or takes its leave.
LEMMA AskStep ==
  ASSUME Alternating, Typed', UNCHANGED <<srv, cur, host>>, NEW c \in Proc,
         iter' = [iter EXCEPT ![c] = Step(c)], buf' = [buf EXCEPT ![c]["cli"] = Request(c)],
         pc' = [pc EXCEPT ![c]["cli"] = "submit"],
         op'[c]["cli"] = "send", loc'[c]["cli"] = "none",
         \A d \in Proc, t \in Side : d # c \/ t # "cli" => op'[d][t] = op[d][t] /\ loc'[d][t] = loc[d][t],
         buf[c]["srv"] \in Rests(iter[c]), Answered(buf[c]["cli"]) = iter[c],
         ~Unsent(c, "srv"), ~Holds(c, "srv")
  PROVE  Alternating' /\ [Abstract!Next]_(Abstract!vars)
<1>0. Typed /\ TypeOK /\ Requests(c) /\ iter[c] \in Nat /\ "cli" \in Side /\ "srv" \in Side
  BY TypedParts DEF Alternating, Typed, Conversation, Side
<1>1. /\ pc'[c]["cli"] = "submit" /\ pc'[c]["srv"] = pc[c]["srv"]
      /\ buf'[c]["cli"] = Request(c) /\ buf'[c]["srv"] = buf[c]["srv"] /\ iter'[c] = Step(c)
  BY <1>0, PutAt, TypedParts
<1>2. \A d \in Proc \ {c} : SameConn(d)
  BY <1>0, PutAt, TypedParts DEF SameConn, SameAt
<1>3. SameAt(c, "srv") BY <1>0, <1>1 DEF SameAt
<1>4. ~Unsent(c, "srv")' /\ ~Holds(c, "srv")' /\ ~Holds(c, "cli")' /\ Only(c, "ask")'
  BY <1>3 DEF SameAt, Unsent, Holds, Only
<1>5. Requests(c)' BY <1>0, <1>1, <1>3 DEF Requests, SameAt, Side
<1>6. pc'[c]["cli"] \notin Early BY <1>1 DEF Early
<1>7. CASE iter[c] < Iters[c] /\ Step(c) = iter[c] + 1 /\ Request(c) = Ping(iter[c] + 1)
  <2>1. iter'[c] > 0 /\ iter'[c] - 1 = iter[c] BY <1>0, <1>1, <1>7
  <2>2. Phase(c, Ping(iter[c]), buf[c]["srv"], "ask")' BY <1>1, <1>4, <1>7 DEF Phase
  <2>3. Asking(c)' BY <1>1, <2>1, <2>2 DEF Asking
  <2>4. Conversation(c)' BY <1>5, <1>6, <2>3 DEF Conversation
  <2>5. Answered(buf[c]["cli"])' = iter[c] BY <1>0, <1>1, <1>7, Answers
  <2>6. \A d \in Proc : SameAnswers(d, "srv") /\ SameAnswers(d, "cli")
    BY <1>0, <1>1, <1>2, <2>5 DEF SameAnswers, SameConn
  <2>7. iter' = [iter EXCEPT ![c] = iter[c] + 1] BY <1>7
  <2>8. Abstract!Next BY <1>0, <1>7, <2>6, <2>7, Asks
  <2> QED BY <1>1, <1>2, <2>4, <2>8, MoveStep
<1>8. CASE Step(c) = iter[c] /\ Request(c) = ExitMsg(iter[c])
  <2>1. Phase(c, ExitMsg(iter[c]), buf[c]["srv"], "ask")' BY <1>1, <1>4, <1>8 DEF Phase
  <2>2. Leaving(c)' BY <1>1, <1>8, <2>1 DEF Leaving
  <2>3. Conversation(c)' BY <1>5, <1>6, <2>2 DEF Conversation
  <2>4. Answered(buf[c]["cli"])' = iter[c] BY <1>0, <1>1, <1>8, Answers
  <2>5. \A d \in Proc : SameAnswers(d, "srv") /\ SameAnswers(d, "cli")
    BY <1>0, <1>1, <1>2, <2>4 DEF SameAnswers, SameConn
  <2>6. UNCHANGED iter BY <1>0, <1>8, TypedParts
  <2>7. UNCHANGED Abstract!vars BY <2>5, <2>6, Stutters
  <2> QED BY <1>1, <1>2, <2>3, <2>7, MoveStep
<1> QED BY <1>0, <1>7, <1>8, NextRequest

LEMMA RequestStep ==
  ASSUME Alternating, Typed', NEW c \in Proc, Connected(c) \/ ClientReceived(c)
  PROVE  Alternating' /\ [Abstract!Next]_(Abstract!vars)
<1>0. Typed /\ Conversation(c) /\ Requests(c) /\ iter[c] \in Nat /\ "cli" \in Side
  BY TypedParts DEF Alternating, Conversation, Side
<1>1. CASE Connected(c)
  <2>1. Opening(c) /\ pc[c]["cli"] = "shake" BY <1>0, <1>1 DEF Conversation, Connected, Early
  <2>2. buf[c]["cli"] = Empty /\ buf[c]["srv"] = Empty /\ iter[c] = 0 /\ Only(c, "ask")
    BY <2>1 DEF Opening, Phase
  <2>3. buf[c]["srv"] \in Rests(iter[c]) /\ Answered(buf[c]["cli"]) = iter[c]
    BY <1>0, <2>2, Answers DEF Rests
  <2>4. op[c]["cli"] = "send" BY <2>1 DEF Opening
  <2>5. loc[c]["cli"] = "none" BY <1>0, <2>1 DEF Requests
  <2>6. ~Unsent(c, "srv") /\ ~Holds(c, "srv") BY <2>2 DEF Only
  <2> QED BY <1>1, <2>3, <2>4, <2>5, <2>6, AskStep DEF Connected, conns
<1>2. CASE ClientReceived(c)
  <2>1. Holds(c, "cli") BY <1>2 DEF ClientReceived, Ready, Holds
  <2>2. Replied(c) BY <1>0, <2>1, TurnPhase
  <2>3. buf[c]["cli"] = Pong(iter[c]) /\ buf[c]["srv"] = Pong(iter[c]) /\ Only(c, "next")
    BY <2>2 DEF Replied, Phase
  <2>4. buf[c]["srv"] \in Rests(iter[c]) /\ Answered(buf[c]["cli"]) = iter[c]
    BY <1>0, <2>3, Answers DEF Rests
  <2>5. ~Unsent(c, "srv") /\ ~Holds(c, "srv") BY <2>3 DEF Only
  <2>6. /\ op'[c]["cli"] = "send" /\ loc'[c]["cli"] = "none"
        /\ \A d \in Proc, t \in Side : d # c \/ t # "cli" => op'[d][t] = op[d][t] /\ loc'[d][t] = loc[d][t]
    BY <1>0, <1>2, PutAt, TypedParts DEF ClientReceived, Continue
  <2> QED BY <1>2, <2>4, <2>5, <2>6, AskStep DEF ClientReceived, Continue, conns
<1> QED BY <1>1, <1>2

\* A message arrives: the buffer it is written to is the one that waits for it.
LEMMA DeliverStep ==
  ASSUME Alternating, Typed', NEW c \in Proc, NEW s \in Side, Deliver(c, s)
  PROVE  Alternating' /\ [Abstract!Next]_(Abstract!vars)
<1> DEFINE r == Other(s)
<1>0. Typed /\ Conversation(c) /\ Requests(c) /\ iter[c] \in Nat BY TypedParts DEF Alternating, Conversation
<1>1. r \in Side /\ r # s /\ (\A t \in Side : t = s \/ t = r) BY DEF Side, Other
<1> HIDE DEF r
<1>2. /\ op[c][s] = "send" /\ loc[c][s] = "hw" /\ op[c][r] = "recv" /\ loc[c][r] = "hw"
      /\ loc' = [[loc EXCEPT ![c][s] = "flown"] EXCEPT ![c][r] = "cq"]
      /\ buf' = [buf EXCEPT ![c][r] = buf[c][s]]
      /\ UNCHANGED <<srv, cur, host, pc, op, iter>>
  BY DEF Deliver, r, conns
<1>3. pc[c][s] = "await" /\ pc[c][r] = "await" BY <1>0, <1>1, <1>2 DEF Requests
<1>4. /\ loc'[c][s] = "flown" /\ loc'[c][r] = "cq"
      /\ \A d \in Proc \ {c} : \A t \in Side : loc'[d][t] = loc[d][t]
  <2>1. [loc EXCEPT ![c][s] = "flown"] \in [Proc -> [Side -> Locs]] BY <1>0, Put, TypedParts DEF Locs
  <2>2. /\ [loc EXCEPT ![c][s] = "flown"][c][s] = "flown"
        /\ \A d \in Proc \ {c} : \A t \in Side : [loc EXCEPT ![c][s] = "flown"][d][t] = loc[d][t]
    BY <1>0, PutAt, TypedParts
  <2> QED BY <1>1, <1>2, <2>1, <2>2, PutAt
<1>5. /\ buf'[c][r] = buf[c][s] /\ buf'[c][s] = buf[c][s]
      /\ \A d \in Proc \ {c} : \A t \in Side : buf'[d][t] = buf[d][t]
  BY <1>0, <1>1, <1>2, PutAt, TypedParts
<1>6. \A d \in Proc \ {c} : SameConn(d) BY <1>2, <1>4, <1>5 DEF SameConn, SameAt
<1>7. Requests(c)' BY <1>1, <1>2, <1>3, <1>4 DEF Requests
<1>8. ~Unsent(c, s)' /\ ~Holds(c, s)' /\ ~Unsent(c, r)' /\ Unsent(c, s)
  BY <1>2, <1>3, <1>4 DEF Unsent, Holds, Early
<1>9. \A d \in Proc \ {c} : SameAnswers(d, "cli") /\ SameAnswers(d, "srv") BY <1>5 DEF SameAnswers, Side
<1>10. pc[c]["cli"] = "await" /\ pc[c]["srv"] = "await" /\ "await" \notin Early
  BY <1>1, <1>3 DEF Side, Early
<1>11. Conversation(c)' => Alternating' BY <1>2, <1>6, <1>10, MoveStep
<1>12. CASE s = "cli"
  <2>0. r = "srv" BY <1>12 DEF r, Other
  <2>1. Only(c, "serve")' BY <1>8, <1>12, <2>0 DEF Only
  <2>2. Asking(c) \/ Leaving(c) BY <1>0, <1>8, <1>10, <1>12, TurnPhase DEF Opening
  <2>3. CASE Asking(c)
    <3>1. PICK x \in Rests(iter[c] - 1) : Phase(c, Ping(iter[c]), x, "ask") /\ iter[c] > 0 BY <2>3 DEF Asking
    <3>2. Phase(c, Ping(iter[c]), Ping(iter[c]), "serve")' BY <1>2, <1>5, <1>12, <2>0, <2>1, <3>1 DEF Phase
    <3>3. Serving(c)' BY <1>2, <3>1, <3>2 DEF Serving
    <3>4. Answered(x) = iter[c] - 1 /\ Answered(Ping(iter[c])) = iter[c] - 1
      <4>1. iter[c] - 1 \in Nat BY <1>0, <3>1
      <4> QED BY <1>0, <4>1, RestsAnswered, Answers
    <3>5. SameAnswers(c, "cli") /\ SameAnswers(c, "srv")
      BY <1>5, <1>12, <2>0, <3>1, <3>4 DEF SameAnswers, Phase
    <3>6. UNCHANGED Abstract!vars BY <1>2, <1>9, <3>5, Stutters
    <3> QED BY <1>2, <1>7, <1>10, <1>11, <3>3, <3>6 DEF Conversation
  <2>4. CASE Leaving(c)
    <3>1. PICK x \in Rests(iter[c]) : Phase(c, ExitMsg(iter[c]), x, "ask") BY <2>4 DEF Leaving
    <3>2. Phase(c, ExitMsg(iter[c]), ExitMsg(iter[c]), "serve")' BY <1>2, <1>5, <1>12, <2>0, <2>1, <3>1 DEF Phase
    <3>3. Left(c)' BY <1>2, <3>2 DEF Left
    <3>4. Answered(x) = iter[c] /\ Answered(ExitMsg(iter[c])) = iter[c] BY <1>0, RestsAnswered, Answers
    <3>5. SameAnswers(c, "cli") /\ SameAnswers(c, "srv")
      BY <1>5, <1>12, <2>0, <3>1, <3>4 DEF SameAnswers, Phase
    <3>6. UNCHANGED Abstract!vars BY <1>2, <1>9, <3>5, Stutters
    <3> QED BY <1>2, <1>7, <1>10, <1>11, <3>3, <3>6 DEF Conversation
  <2> QED BY <2>2, <2>3, <2>4
<1>13. CASE s = "srv"
  <2>0. r = "cli" BY <1>13 DEF r, Other
  <2>1. Only(c, "next")' BY <1>8, <1>13, <2>0 DEF Only
  <2>2. Answering(c) BY <1>0, <1>8, <1>13, TurnPhase
  <2>3. buf[c]["cli"] = Ping(iter[c]) /\ buf[c]["srv"] = Pong(iter[c]) /\ iter[c] > 0
    BY <2>2 DEF Answering, Phase
  <2>4. Replied(c)' BY <1>2, <1>5, <1>13, <2>0, <2>1, <2>3 DEF Replied, Phase
  <2>5. Answered(Ping(iter[c])) = iter[c] - 1 /\ Answered(Pong(iter[c])) = iter[c] BY <1>0, Answers
  <2>6. /\ Answered(buf[c]["cli"]) < Answered(buf[c]["srv"])
        /\ Answered(buf[c]["cli"])' = Answered(buf[c]["cli"]) + 1
    BY <1>0, <1>5, <1>13, <2>0, <2>3, <2>5
  <2>7. SameAnswers(c, "srv") BY <1>5, <1>13 DEF SameAnswers
  <2>8. Abstract!Next BY <1>2, <1>9, <2>6, <2>7, Replies
  <2> QED BY <1>2, <1>7, <1>10, <1>11, <2>4, <2>8 DEF Conversation
<1> QED BY <1>12, <1>13 DEF Side

LEMMA ServeStep ==
  ASSUME Alternating, Typed', NEW c \in Proc, ServeReceived(c)
  PROVE  Alternating' /\ [Abstract!Next]_(Abstract!vars)
<1>0. Typed /\ Conversation(c) /\ Requests(c) /\ iter[c] \in Nat /\ "srv" \in Side /\ "cli" \in Side
  BY TypedParts DEF Alternating, Conversation, Side
<1>1. Holds(c, "srv") /\ pc[c]["srv"] = "await" BY <1>0 DEF ServeReceived, Ready, Holds, Requests
<1>2. Serving(c) \/ Left(c) BY <1>0, <1>1, TurnPhase
<1>3. CASE Left(c)
  <2>1. buf[c]["srv"].k = "Exit" BY <1>0, <1>3, Messages DEF Left, Phase
  <2>2. Return(c, "srv", "done") BY <2>1 DEF ServeReceived
  <2> QED BY <1>0, <1>1, <2>2, ReturnQuiet
<1>4. CASE Serving(c)
  <2>1. /\ buf[c]["cli"] = Ping(iter[c]) /\ buf[c]["srv"] = Ping(iter[c]) /\ iter[c] > 0
        /\ Only(c, "serve")
    BY <1>4 DEF Serving, Phase
  <2>2. buf[c]["srv"].k = "Ping" /\ buf[c]["srv"].n = iter[c] BY <1>0, <2>1, Messages
  <2>3. Continue(c, "srv", "send", Pong(iter[c])) /\ UNCHANGED iter BY <2>2 DEF ServeReceived
  <2>4. /\ pc'[c]["srv"] = "submit" /\ loc'[c]["srv"] = "none" /\ op'[c]["srv"] = "send"
        /\ buf'[c]["srv"] = Pong(iter[c]) /\ buf'[c]["cli"] = buf[c]["cli"]
        /\ SameAt(c, "cli") /\ UNCHANGED <<srv, cur, host>>
    BY <1>0, <2>3, PutAt, TypedParts DEF Continue, SameAt, conns
  <2>5. \A d \in Proc \ {c} : SameConn(d)
    BY <1>0, <2>3, PutAt, TypedParts DEF Continue, SameAt, SameConn
  <2>6. Only(c, "answer")' BY <2>1, <2>4 DEF Only, SameAt, Unsent, Holds
  <2>7. Answering(c)' BY <2>1, <2>3, <2>4, <2>6 DEF Answering, Phase
  <2>8. Requests(c)' BY <1>0, <2>4 DEF Requests, SameAt, Side
  <2>9. pc[c]["cli"] \notin Early /\ pc'[c]["cli"] = pc[c]["cli"]
    <3>1. Empty # Ping(iter[c]) BY <1>0, Messages
    <3> QED BY <1>0, <2>1, <2>4, <3>1 DEF Conversation, Opening, Phase, SameAt
  <2>10. Conversation(c)' BY <2>7, <2>8, <2>9 DEF Conversation
  <2>11. Answered(Ping(iter[c])) = iter[c] - 1 /\ Answered(Pong(iter[c])) = iter[c] BY <1>0, Answers
  <2>12. /\ Answered(buf[c]["srv"]) < iter[c]
         /\ Answered(buf[c]["srv"])' = Answered(buf[c]["srv"]) + 1
    BY <1>0, <2>1, <2>4, <2>11
  <2>13. \A d \in Proc : (d # c => SameAnswers(d, "srv")) /\ SameAnswers(d, "cli")
    BY <1>0, <2>4, <2>5 DEF SameAnswers, SameConn
  <2>14. Abstract!Next BY <2>3, <2>12, <2>13, Serves
  <2>15. pc'[c]["cli"] # "start" BY <2>9 DEF Early
  <2> QED BY <1>1, <2>4, <2>5, <2>10, <2>14, <2>15, MoveStep
<1> QED BY <1>2, <1>3, <1>4

-------------------------------------------------------------------------------
(***************************************************************************)
(* The theorems                                                             *)
(***************************************************************************)
LEMMA InitAlternating == Init => Alternating
<1> SUFFICES ASSUME Init PROVE Alternating OBVIOUS
<1>1. Typed BY InitTyped
<1>2. Handshakes BY DEF Init, Handshakes, Accepting
<1>3. ASSUME NEW c \in Proc PROVE Conversation(c)
  <2>1. /\ \A s \in Side : pc[c][s] = "start" /\ loc[c][s] = "none" /\ buf[c][s] = Empty
        /\ op[c]["cli"] = "send" /\ op[c]["srv"] = "recv" /\ iter[c] = 0
    BY DEF Init, Side
  <2>2. Requests(c) BY <2>1 DEF Requests
  <2>3. Only(c, "ask") BY <2>1 DEF Only, Unsent, Holds, Side
  <2>4. Opening(c) BY <2>1, <2>3 DEF Opening, Phase, Early, Side
  <2> QED BY <2>2, <2>4 DEF Conversation
<1> QED BY <1>1, <1>2, <1>3 DEF Alternating

LEMMA NextAlternating ==
  Alternating /\ [Next]_vars => Alternating' /\ [Abstract!Next]_(Abstract!vars)
<1> SUFFICES ASSUME Alternating, [Next]_vars
             PROVE  Alternating' /\ [Abstract!Next]_(Abstract!vars)
  OBVIOUS
<1>0. Typed' BY NextTyped DEF Alternating
<1>1. CASE UNCHANGED vars
  <2>1. UNCHANGED <<srv, cur, host, pc, op, loc, buf, iter>> BY <1>1 DEF vars, conns, tasks
  <2> QED BY <1>0, <2>1, LocQuiet
<1>2. ASSUME NEW p \in Proc, Killed(p) \/ MainReturns(p)
      PROVE  Alternating' /\ [Abstract!Next]_(Abstract!vars)
  BY <1>0, <1>2, EndsStep DEF Killed, MainReturns
<1>3. ASSUME NEW p \in Proc, ClientTask(p)
      PROVE  Alternating' /\ [Abstract!Next]_(Abstract!vars)
  <2>1. CASE ClientDone(p)
    <3>1. "cli" \in Side /\ pc[p]["cli"] = "await"
      BY <2>1 DEF ClientDone, Ready, Alternating, Conversation, Requests, Side
    <3> QED BY <1>0, <2>1, <3>1, ReturnQuiet DEF ClientDone
  <2>2. CASE ClientSent(p) BY <1>0, <2>2, SentStep
  <2>3. CASE Connected(p) \/ ClientReceived(p) BY <1>0, <2>3, RequestStep
  <2>4. CASE (\E q \in Proc : Connect(p, q)) \/ ConnectFails(p) \/ Hello(p) \/ ConnectBreaks(p)
    BY <1>0, <2>4, ConnectStep
  <2> QED BY <1>3, <2>1, <2>2, <2>3, <2>4 DEF ClientTask
<1>4. ASSUME NEW p \in Proc, Serve(p)
      PROVE  Alternating' /\ [Abstract!Next]_(Abstract!vars)
  BY <1>0, <1>4, ServeStep, SentStep DEF Serve
<1>5. ASSUME NEW p \in Proc, NEW s \in Side, Task(p, s) \/ Device(p, s)
      PROVE  Alternating' /\ [Abstract!Next]_(Abstract!vars)
  BY <1>0, <1>5, TaskStep, DeliverStep, SendCompletes DEF Device
<1>6. ASSUME NEW p \in Proc, Listener(p) \/ Drive(p) \/ DriverFails(p)
      PROVE  Alternating' /\ [Abstract!Next]_(Abstract!vars)
  BY <1>0, <1>6, ListenerStep, DriveStep
<1>7. CASE Proceed BY <1>2, <1>3, <1>4, <1>5, <1>6, <1>7 DEF Proceed
<1> QED BY <1>1, <1>2, <1>6, <1>7 DEF Next

LEMMA SpecAlternating == Spec => []Alternating
BY InitAlternating, NextAlternating, PTL DEF Spec

\* Every task, listener, queue pair and message of the RPC program has one of the
\* values it is declared for, and no client counts more than its iterations.
THEOREM TypeCorrect == Spec => []TypeOK
<1>1. Alternating => TypeOK BY DEF Alternating, Typed
<1> QED BY <1>1, SpecAlternating, PTL

\* The RPC program implements Exchange: whatever is killed or fails, the server
\* handles each request of a client once and in order, and a response a client
\* receives is the answer to the request it waits on.
THEOREM ImplementsExchange == Spec => ExchangeSpec
<1>1. Init => Abstract!Init
  <2> SUFFICES ASSUME Init PROVE Abstract!Init OBVIOUS
  <2>1. \A c \in Proc : Answered(buf[c]["cli"]) = 0 /\ Answered(buf[c]["srv"]) = 0
    BY Answers DEF Init, Side
  <2>2. iter = [c \in Proc |-> 0] BY DEF Init
  <2> QED BY <2>1, <2>2 DEF Abstract!Init
<1>2. Alternating /\ [Next]_vars => [Abstract!Next]_(Abstract!vars) BY NextAlternating
<1> QED BY <1>1, <1>2, SpecAlternating, PTL DEF Spec, ExchangeSpec, Abstract!Spec

-------------------------------------------------------------------------------
(***************************************************************************)
(* Why the program can stop                                                 *)
(*                                                                          *)
(* The invariant Standing, on top of Alternating: what a side of a          *)
(* connection has at each point (Footing), how far both are in the          *)
(* handshake (Greeting), and that the two sides have never both handed the  *)
(* turn over (OneTurn).                                                     *)
(***************************************************************************)
Talking == {"submit", "post", "await"}

\* Side s waits for the other side: its message was taken, or it has a receive to
\* make.
Passed(c, s) ==
  \/ op[c][s] = "send" /\ (loc[c][s] = "flown" \/ (loc[c][s] \in {"cq", "done"} /\ good[c][s]))
  \/ op[c][s] = "recv" /\ (pc[c][s] \in {"start", "submit", "post"} \/ loc[c][s] = "hw")
OneTurn(c) == ~(Passed(c, "cli") /\ Passed(c, "srv"))

Footing(c, s) ==
  /\ qp[c][s] # "none" \/ loc[c][s] # "none" => At(c, s) \in up
  /\ At(c, s) \in up /\ pc[c][s] \in Talking => qp[c][s] \in {"RTS", "Err"}
  /\ qp[c][s] \in {"RTS", "Err"} => pc[c][s] \in Talking
  /\ At(c, s) \in up /\ pc[c][s] = "await" => loc[c][s] # "none"
  /\ loc[c][s] \in {"hw", "flown"} => qp[c][s] = "RTS"
  /\ qp[c][s] = "Err" => loc[c][s] \in {"cq", "done"} /\ ~good[c][s]

Greeting(c) ==
  /\ host[c] = None => pc[c]["srv"] = "start"
  /\ "srv" \notin wrote[c] =>
       qp[c]["srv"] = "none" /\ (pc[c]["srv"] = "start" \/ srv[host[c]] = "failed")
  /\ host[c] # None => srv[host[c]] # "start"
  /\ pc[c]["cli"] \notin {"start", "failed"} => host[c] # None
  /\ pc[c]["cli"] \notin {"start", "hello", "failed"} => "cli" \in wrote[c]
  /\ qp[c]["srv"] = "Init" => srv[host[c]] = "shake" /\ cur[host[c]] = c
  /\ srv[c] = "shake" => "srv" \in wrote[cur[c]]

Standing == \A c \in Proc : OneTurn(c) /\ Greeting(c) /\ \A s \in Side : Footing(c, s)

\* A step leaves side s of c alone.
Untouched(c, s) ==
  /\ pc'[c][s] = pc[c][s] /\ op'[c][s] = op[c][s] /\ loc'[c][s] = loc[c][s]
  /\ good'[c][s] = good[c][s] /\ qp'[c][s] = qp[c][s]

LEMMA UntouchedKept ==
  ASSUME NEW c \in Proc, NEW s \in Side, Footing(c, s), Untouched(c, s), host'[c] = host[c],
         At(c, s) \in up <=> At(c, s) \in up'
  PROVE  Footing(c, s)' /\ (Passed(c, s)' <=> Passed(c, s))
<1>1. At(c, s)' = At(c, s) BY DEF At
<1>2. Footing(c, s)' BY <1>1 DEF Footing, Untouched
<1>3. Passed(c, s)' <=> Passed(c, s) BY DEF Passed, Untouched
<1> QED BY <1>2, <1>3

LEMMA GreetingKept ==
  ASSUME NEW c \in Proc, Greeting(c), UNCHANGED <<srv, cur, host, wrote>>,
         pc'[c]["srv"] = "start" <=> pc[c]["srv"] = "start",
         pc[c]["cli"] \in {"start", "failed"} => pc'[c]["cli"] \in {"start", "failed"},
         pc[c]["cli"] \in {"start", "hello", "failed"} => pc'[c]["cli"] \in {"start", "hello", "failed"},
         qp'[c]["srv"] = "Init" => qp[c]["srv"] = "Init",
         qp[c]["srv"] = "none" => qp'[c]["srv"] = "none"
  PROVE  Greeting(c)'
BY DEF Greeting

\* A step of one side of a connection, after its handshake or at the end of it.
LEMMA OneSideStands ==
  ASSUME Alternating, Standing, UNCHANGED <<up, srv, cur, host, wrote>>,
         NEW c \in Proc, NEW s \in Side,
         \A d \in Proc, t \in Side : d # c \/ t # s => Untouched(d, t),
         pc[c][s] \notin {"start", "hello", "failed"}, pc'[c][s] # "start",
         qp'[c][s] = "Init" => qp[c][s] = "Init",
         s = "srv" /\ qp[c][s] = "none" => qp'[c][s] = "none",
         Footing(c, s)', Passed(c, s)' => Passed(c, s)
  PROVE  Standing'
<1>1. \A d \in Proc, t \in Side : d # c \/ t # s => Footing(d, t)' /\ (Passed(d, t)' <=> Passed(d, t))
  BY UntouchedKept DEF Standing
<1>2. \A d \in Proc, t \in Side : Footing(d, t)' /\ (Passed(d, t)' => Passed(d, t)) BY <1>1
<1>3. \A d \in Proc : OneTurn(d)' BY <1>2 DEF Standing, OneTurn, Side
<1>4. ASSUME NEW d \in Proc PROVE Greeting(d)'
  <2>1. "cli" \in Side /\ "srv" \in Side BY DEF Side
  <2>2. Greeting(d) BY DEF Standing
  <2>3. Untouched(d, "srv") \/ (d = c /\ s = "srv") BY <2>1
  <2>4. Untouched(d, "cli") \/ (d = c /\ s = "cli") BY <2>1
  <2>5. /\ pc'[d]["srv"] = "start" <=> pc[d]["srv"] = "start"
        /\ qp'[d]["srv"] = "Init" => qp[d]["srv"] = "Init"
        /\ qp[d]["srv"] = "none" => qp'[d]["srv"] = "none"
    BY <2>1, <2>3 DEF Untouched
  <2>6. /\ pc[d]["cli"] \in {"start", "failed"} => pc'[d]["cli"] \in {"start", "failed"}
        /\ pc[d]["cli"] \in {"start", "hello", "failed"} => pc'[d]["cli"] \in {"start", "hello", "failed"}
    BY <2>1, <2>4 DEF Untouched
  <2> QED BY <2>2, <2>5, <2>6, GreetingKept
<1> QED BY <1>2, <1>3, <1>4 DEF Standing

LEMMA StandingParts ==
  ASSUME Alternating, Standing, NEW c \in Proc, NEW s \in Side
  PROVE  TypeOK /\ Requests(c) /\ Conversation(c) /\ Footing(c, s) /\ Greeting(c)
BY DEF Alternating, Typed, Conversation, Standing

LEMMA ReturnStands ==
  ASSUME Alternating, Standing, NEW c \in Proc, NEW s \in Side, NEW how \in {"done", "failed"},
         Return(c, s, how), pc[c][s] \in Talking
  PROVE  Standing'
<1>0. TypeOK BY StandingParts
<1>1. /\ pc'[c][s] = how /\ loc'[c][s] = "none" /\ qp'[c][s] = "none"
      /\ \A d \in Proc, t \in Side : d # c \/ t # s => Untouched(d, t)
      /\ UNCHANGED <<up, srv, cur, host, wrote, op>>
  BY <1>0, PutAt DEF TypeOK, Return, Untouched, conns
<1>2. Footing(c, s)' BY <1>1 DEF Footing, Talking
<1>3. ~Passed(c, s)' BY <1>1 DEF Passed
<1> QED BY <1>1, <1>2, <1>3, OneSideStands DEF Talking

LEMMA TaskStands ==
  ASSUME Alternating, Standing, NEW c \in Proc, NEW s \in Side, Task(c, s)
  PROVE  Standing'
<1>0. TypeOK /\ Requests(c) /\ Footing(c, s) BY StandingParts
<1>1. CASE Submit(c, s)
  <2>1. /\ pc[c][s] = "submit" /\ pc'[c][s] = "post" /\ UNCHANGED <<up, srv, cur, host, wrote, op, loc, good, qp>>
        /\ \A d \in Proc, t \in Side : d # c \/ t # s => Untouched(d, t)
    BY <1>0, <1>1, PutAt DEF TypeOK, Submit, Untouched, conns
  <2>2. At(c, s)' = At(c, s) BY <2>1 DEF At
  <2>3. Footing(c, s)' BY <1>0, <2>1, <2>2 DEF Footing, Talking
  <2>4. Passed(c, s)' => Passed(c, s) BY <2>1 DEF Passed
  <2> QED BY <2>1, <2>3, <2>4, OneSideStands
<1>2. CASE Post(c, s)
  <2>1. /\ pc[c][s] = "post" /\ pc'[c][s] = "await" /\ loc'[c][s] = "hw"
        /\ UNCHANGED <<up, srv, cur, host, wrote, op, good, qp>> /\ At(c, s) \in up
        /\ \A d \in Proc, t \in Side : d # c \/ t # s => Untouched(d, t)
    BY <1>0, <1>2, PutAt DEF TypeOK, Post, Untouched, conns
  <2>2. At(c, s)' = At(c, s) BY <2>1 DEF At
  <2>3. loc[c][s] = "none" BY <1>0, <2>1 DEF Requests
  <2>4. qp[c][s] = "RTS" BY <1>0, <2>1, <2>3 DEF Footing, Talking
  <2>5. Footing(c, s)' BY <2>1, <2>2, <2>4 DEF Footing, Talking
  <2>6. Passed(c, s)' => Passed(c, s) BY <2>1 DEF Passed
  <2> QED BY <2>1, <2>5, <2>6, OneSideStands
<1>3. CASE SubmitFails(c, s) BY <1>3, ReturnStands DEF SubmitFails, Talking
<1>4. CASE TaskFails(c, s)
  <2>1. pc[c][s] = "await" BY <1>0, <1>4 DEF TaskFails, Requests
  <2> QED BY <1>4, <2>1, ReturnStands DEF TaskFails, Talking
<1> QED BY <1>1, <1>2, <1>3, <1>4 DEF Task

\* A send completes, with success or not.
LEMMA SendStands ==
  ASSUME Alternating, Standing, NEW c \in Proc, NEW s \in Side, Ack(c, s) \/ RetryExceeded(c, s)
  PROVE  Standing'
<1>0. TypeOK /\ Requests(c) /\ Footing(c, s) BY StandingParts
<1>1. /\ loc'[c][s] = "cq" /\ UNCHANGED <<up, srv, cur, host, wrote, pc, op>>
      /\ \A d \in Proc, t \in Side : d # c \/ t # s => Untouched(d, t)
  BY <1>0, PutAt DEF TypeOK, Ack, RetryExceeded, Untouched, conns
<1>2. loc[c][s] \in {"hw", "flown"} /\ op[c][s] = "send" BY <1>0 DEF Ack, RetryExceeded, Requests
<1>3. pc[c][s] = "await" /\ qp[c][s] = "RTS" /\ At(c, s) \in up BY <1>0, <1>2 DEF Requests, Footing
<1>4. At(c, s)' = At(c, s) BY <1>1 DEF At
<1>5. CASE Ack(c, s)
  <2>1. loc[c][s] = "flown" /\ UNCHANGED qp BY <1>5 DEF Ack
  <2>2. Footing(c, s)' BY <1>1, <1>3, <1>4, <2>1 DEF Footing, Talking
  <2>3. Passed(c, s) BY <1>2, <2>1 DEF Passed
  <2> QED BY <1>1, <1>3, <2>1, <2>2, <2>3, OneSideStands
<1>6. CASE RetryExceeded(c, s)
  <2>1. qp'[c][s] = "Err" /\ good'[c][s] = FALSE BY <1>0, <1>6, PutAt DEF RetryExceeded, TypeOK
  <2>2. Footing(c, s)' BY <1>1, <1>3, <1>4, <2>1 DEF Footing, Talking
  <2>3. ~Passed(c, s)' BY <1>1, <1>2, <2>1 DEF Passed
  <2> QED BY <1>1, <1>3, <2>1, <2>2, <2>3, OneSideStands
<1> QED BY <1>5, <1>6

\* A task goes on to its next request; it receives only after it has sent.
LEMMA ContinueStands ==
  ASSUME Alternating, Standing, NEW c \in Proc, NEW s \in Side, NEW o \in {"send", "recv"}, NEW m,
         Continue(c, s, o, m), At(c, s) \in up, loc[c][s] = "done", good[c][s],
         o = "recv" => op[c][s] = "send"
  PROVE  Standing'
<1>0. TypeOK /\ Requests(c) /\ Footing(c, s) BY StandingParts
<1>1. /\ pc'[c][s] = "submit" /\ loc'[c][s] = "none" /\ op'[c][s] = o
      /\ UNCHANGED <<up, srv, cur, host, wrote, good, qp>>
      /\ \A d \in Proc, t \in Side : d # c \/ t # s => Untouched(d, t)
  BY <1>0, PutAt DEF TypeOK, Continue, Untouched, conns
<1>2. pc[c][s] = "await" BY <1>0 DEF Requests
<1>3. qp[c][s] = "RTS" BY <1>0, <1>2 DEF Footing, Talking
<1>4. At(c, s)' = At(c, s) BY <1>1 DEF At
<1>5. Footing(c, s)' BY <1>1, <1>3, <1>4 DEF Footing, Talking
<1>6. Passed(c, s)' => Passed(c, s) BY <1>1 DEF Passed
<1> QED BY <1>1, <1>2, <1>5, <1>6, OneSideStands

LEMMA ServeStands == ASSUME Alternating, Standing, NEW c \in Proc, Serve(c) PROVE Standing'
<1>0. "srv" \in Side BY DEF Side
<1>1. Typed /\ Requests(c) /\ Conversation(c) /\ iter[c] \in Nat
  BY <1>0, StandingParts, TypedParts DEF Alternating
<1>2. CASE ServeSent(c) BY <1>0, <1>2, ContinueStands DEF ServeSent, Ready
<1>3. CASE ServeReceived(c)
  <2>1. Holds(c, "srv") /\ pc[c]["srv"] = "await"
    BY <1>0, <1>1, <1>3 DEF ServeReceived, Ready, Holds, Requests
  <2>2. CASE Left(c)
    <3>1. buf[c]["srv"].k = "Exit" BY <1>1, <2>2, Messages DEF Left, Phase
    <3>2. Return(c, "srv", "done") BY <1>3, <3>1 DEF ServeReceived
    <3> QED BY <1>0, <2>1, <3>2, ReturnStands DEF Talking
  <2>3. CASE Serving(c)
    <3>1. buf[c]["srv"].k = "Ping" BY <1>1, <2>3, Messages DEF Serving, Phase
    <3>2. /\ Continue(c, "srv", "send", Pong(buf[c]["srv"].n))
          /\ At(c, "srv") \in up /\ loc[c]["srv"] = "done" /\ good[c]["srv"]
      BY <1>3, <3>1 DEF ServeReceived, Ready
    <3> QED BY <1>0, <3>2, ContinueStands
  <2> QED BY <1>1, <2>1, <2>2, <2>3, TurnPhase
<1> QED BY <1>2, <1>3 DEF Serve

LEMMA ClientStands ==
  ASSUME Alternating, Standing, NEW c \in Proc,
         Connected(c) \/ ConnectBreaks(c) \/ ClientSent(c) \/ ClientReceived(c) \/ ClientDone(c)
  PROVE  Standing'
<1>0. "cli" \in Side /\ At(c, "cli") = c BY DEF Side, At
<1>1. TypeOK /\ Requests(c) /\ Conversation(c) /\ Footing(c, "cli") BY <1>0, StandingParts
<1>2. CASE Connected(c)
  <2>1. /\ pc[c]["cli"] = "shake" /\ pc'[c]["cli"] = "submit" /\ qp'[c]["cli"] = "RTS" /\ c \in up
        /\ \A d \in Proc, t \in Side : d # c \/ t # "cli" => Untouched(d, t)
        /\ UNCHANGED <<up, srv, cur, host, wrote, op, loc>>
    BY <1>0, <1>1, <1>2, PutAt DEF TypeOK, Connected, Untouched, conns
  <2>2. op[c]["cli"] = "send" /\ loc[c]["cli"] = "none"
    BY <1>0, <1>1, <2>1 DEF Conversation, Opening, Early, Requests
  <2>3. At(c, "cli")' = c BY DEF At
  <2>4. Footing(c, "cli")' BY <2>1, <2>2, <2>3 DEF Footing, Talking
  <2>5. ~Passed(c, "cli")' BY <2>1, <2>2 DEF Passed
  <2> QED BY <1>0, <2>1, <2>4, <2>5, OneSideStands
<1>3. CASE ConnectBreaks(c)
  <2>1. /\ pc[c]["cli"] = "shake" /\ pc'[c]["cli"] = "failed" /\ qp'[c]["cli"] = "none"
        /\ \A d \in Proc, t \in Side : d # c \/ t # "cli" => Untouched(d, t)
        /\ UNCHANGED <<up, srv, cur, host, wrote, op, loc>>
    BY <1>0, <1>1, <1>3, PutAt DEF TypeOK, ConnectBreaks, Untouched, conns
  <2>2. op[c]["cli"] = "send" /\ loc[c]["cli"] = "none"
    BY <1>0, <1>1, <2>1 DEF Conversation, Opening, Early, Requests
  <2>3. Footing(c, "cli")' BY <2>1, <2>2 DEF Footing, Talking
  <2>4. ~Passed(c, "cli")' BY <2>1, <2>2 DEF Passed
  <2> QED BY <1>0, <2>1, <2>3, <2>4, OneSideStands
<1>4. CASE ClientSent(c) BY <1>0, <1>4, ContinueStands DEF ClientSent, Ready
<1>5. CASE ClientReceived(c) BY <1>0, <1>5, ContinueStands DEF ClientReceived, Ready
<1>6. CASE ClientDone(c)
  <2>1. pc[c]["cli"] = "await" BY <1>0, <1>1, <1>6 DEF ClientDone, Ready, Requests
  <2> QED BY <1>0, <1>6, <2>1, ReturnStands DEF ClientDone, Talking
<1> QED BY <1>2, <1>3, <1>4, <1>5, <1>6

\* Requests that are completed, or that go with their process.
LEMMA DriveStands ==
  ASSUME Alternating, Standing, NEW p \in Proc, Drive(p) \/ DriverFails(p)
  PROVE  Standing'
<1>1. UNCHANGED <<up, srv, cur, host, wrote, pc, op, good, qp>> BY DEF Drive, DriverFails, conns
<1>2. ASSUME NEW c \in Proc, NEW s \in Side PROVE Footing(c, s)' /\ (Passed(c, s)' => Passed(c, s))
  <2>1. loc'[c][s] = loc[c][s] \/ (loc'[c][s] = "done" /\ loc[c][s] = "cq") BY DriveLocs
  <2>2. At(c, s)' = At(c, s) BY <1>1 DEF At
  <2>3. Footing(c, s)' BY <1>1, <2>1, <2>2, StandingParts DEF Footing
  <2> QED BY <1>1, <2>1, <2>3 DEF Passed
<1>3. \A c \in Proc : OneTurn(c)' BY <1>2 DEF Standing, OneTurn, Side
<1>4. \A c \in Proc : Greeting(c)' BY <1>1, GreetingKept DEF Standing
<1> QED BY <1>2, <1>3, <1>4 DEF Standing

LEMMA EndsStands == ASSUME Alternating, Standing, NEW p \in Proc, Ends(p) PROVE Standing'
<1>1. UNCHANGED <<srv, cur, host, wrote, pc, op, good>> /\ up' = up \ {p} BY DEF Ends, conns
<1>2. ASSUME NEW c \in Proc, NEW s \in Side
      PROVE  /\ Footing(c, s)' /\ (Passed(c, s)' => Passed(c, s))
             /\ qp'[c][s] = qp[c][s] \/ qp'[c][s] = "none"
  <2>1. IF At(c, s) = p THEN qp'[c][s] = "none" /\ loc'[c][s] = "none"
                        ELSE qp'[c][s] = qp[c][s] /\ loc'[c][s] = loc[c][s]
    BY DEF Ends
  <2>2. At(c, s)' = At(c, s) BY <1>1 DEF At
  <2>3. Footing(c, s)' BY <1>1, <2>1, <2>2, StandingParts DEF Footing
  <2> QED BY <1>1, <2>1, <2>3 DEF Passed
<1>3. \A c \in Proc : OneTurn(c)' BY <1>2 DEF Standing, OneTurn, Side
<1>4. \A c \in Proc : Greeting(c)' BY <1>1, <1>2, GreetingKept DEF Standing, Side
<1> QED BY <1>2, <1>3, <1>4 DEF Standing

\* The turn goes from the sender to the receiver.
LEMMA DeliverStands ==
  ASSUME Alternating, Standing, NEW c \in Proc, NEW s \in Side, Deliver(c, s)
  PROVE  Standing'
<1> DEFINE r == Other(s)
<1>0. r \in Side /\ r # s /\ (\A t \in Side : t = s \/ t = r) BY DEF Side, Other
<1>1. TypeOK /\ Requests(c) /\ Footing(c, s) /\ Footing(c, r) BY <1>0, StandingParts
<1>2. /\ op[c][s] = "send" /\ loc[c][s] = "hw" /\ op[c][r] = "recv" /\ loc[c][r] = "hw"
      /\ loc' = [[loc EXCEPT ![c][s] = "flown"] EXCEPT ![c][r] = "cq"]
      /\ good' = [good EXCEPT ![c][r] = TRUE]
      /\ UNCHANGED <<up, srv, cur, host, wrote, pc, op, qp>>
  BY DEF Deliver, conns
<1> HIDE DEF r
<1>3. /\ loc'[c][s] = "flown" /\ loc'[c][r] = "cq"
      /\ \A d \in Proc \ {c} : \A t \in Side : loc'[d][t] = loc[d][t] /\ good'[d][t] = good[d][t]
      /\ good'[c][s] = good[c][s]
  <2>1. loc \in [Proc -> [Side -> Locs]] /\ good \in [Proc -> [Side -> BOOLEAN]] BY <1>1 DEF TypeOK, Locs
  <2>2. [loc EXCEPT ![c][s] = "flown"] \in [Proc -> [Side -> Locs]] BY <2>1, Put DEF Locs
  <2>3. /\ [loc EXCEPT ![c][s] = "flown"][c][s] = "flown"
        /\ \A d \in Proc \ {c} : \A t \in Side : [loc EXCEPT ![c][s] = "flown"][d][t] = loc[d][t]
    BY <2>1, PutAt
  <2> QED BY <1>0, <1>2, <2>1, <2>2, <2>3, PutAt
<1>4. pc[c][s] = "await" /\ pc[c][r] = "await" BY <1>0, <1>1, <1>2 DEF Requests
<1>5. \A t \in Side : At(c, t)' = At(c, t) BY <1>2 DEF At
<1>6. Footing(c, s)' /\ Footing(c, r)' BY <1>0, <1>1, <1>2, <1>3, <1>4, <1>5 DEF Footing, Talking
<1>7. ~Passed(c, r)' BY <1>2, <1>3, <1>4 DEF Passed
<1>8. ASSUME NEW d \in Proc, d # c, NEW t \in Side PROVE Footing(d, t)' /\ (Passed(d, t)' <=> Passed(d, t))
  <2>1. d \in Proc \ {c} BY <1>8
  <2>2. Untouched(d, t) BY <1>2, <1>3, <2>1 DEF Untouched
  <2> QED BY <1>2, <2>2, StandingParts, UntouchedKept
<1>9. ASSUME NEW d \in Proc PROVE OneTurn(d)'
  <2>1. CASE d = c BY <1>0, <1>7, <2>1 DEF OneTurn, Side
  <2>2. CASE d # c BY <1>8, <2>2 DEF Standing, OneTurn, Side
  <2> QED BY <2>1, <2>2
<1>10. \A d \in Proc : Greeting(d)' BY <1>2, GreetingKept DEF Standing
<1>11. \A d \in Proc, t \in Side : Footing(d, t)' BY <1>0, <1>6, <1>8
<1> QED BY <1>9, <1>10, <1>11 DEF Standing

\* The client before its handshake.
LEMMA ConnectStands ==
  ASSUME Alternating, Standing, NEW c \in Proc,
         (\E p \in Proc : Connect(c, p)) \/ ConnectFails(c) \/ Hello(c)
  PROVE  Standing'
<1>0. "cli" \in Side /\ "srv" \in Side /\ At(c, "cli") = c /\ At(c, "cli")' = c BY DEF Side, At
<1>1. /\ TypeOK /\ Requests(c) /\ Conversation(c) /\ Footing(c, "cli") /\ Footing(c, "srv")
      /\ Greeting(c) /\ Handshakes /\ None \notin Proc
  BY <1>0, StandingParts, RpcAssumption DEF Alternating, RpcAssumption
<1>2. UNCHANGED <<up, srv, cur, op, loc, good>> /\ pc[c]["cli"] \in {"start", "hello"}
  BY DEF Connect, ConnectFails, Hello, conns
<1>3. /\ pc'[c]["cli"] \in {"hello", "shake", "failed"}
      /\ \A d \in Proc, t \in Side : d # c \/ t # "cli" => Untouched(d, t)
      /\ \A d \in Proc \ {c} : host'[d] = host[d]
      /\ \A d \in Proc : wrote'[d] = wrote[d] \/ (d = c /\ wrote'[d] = wrote[d] \cup {"cli"})
  <2>1. PICK x \in {"hello", "shake", "failed"} : pc' = [pc EXCEPT ![c]["cli"] = x]
    BY DEF Connect, ConnectFails, Hello
  <2>2. qp' = [qp EXCEPT ![c]["cli"] = "Init"] \/ qp' = qp BY DEF Connect, ConnectFails, Hello
  <2>3. \A d \in Proc, t \in Side : d # c \/ t # "cli" => pc'[d][t] = pc[d][t] /\ qp'[d][t] = qp[d][t]
    BY <1>0, <1>1, <2>1, <2>2, PutAt DEF TypeOK
  <2>4. pc'[c]["cli"] = x BY <1>0, <1>1, <2>1, PutAt DEF TypeOK
  <2>5. \A d \in Proc, t \in Side : d # c \/ t # "cli" => Untouched(d, t) BY <1>2, <2>3 DEF Untouched
  <2>6. \A d \in Proc \ {c} : host'[d] = host[d] BY <1>1 DEF Connect, ConnectFails, Hello, conns, TypeOK
  <2>7. \A d \in Proc : wrote'[d] = wrote[d] \/ (d = c /\ wrote'[d] = wrote[d] \cup {"cli"})
    BY <1>1 DEF Connect, ConnectFails, Hello, conns, TypeOK
  <2> QED BY <2>4, <2>5, <2>6, <2>7
<1>4. op[c]["cli"] = "send" /\ loc[c]["cli"] = "none"
  BY <1>0, <1>1, <1>2 DEF Conversation, Opening, Early, Requests
<1>5. ~Passed(c, "cli")' BY <1>2, <1>4 DEF Passed
<1>6. Footing(c, "cli")'
  <2>1. qp'[c]["cli"] = qp[c]["cli"] \/ (qp'[c]["cli"] = "Init" /\ c \in up)
    BY <1>0, <1>1, PutAt DEF TypeOK, Connect, ConnectFails, Hello
  <2>2. qp[c]["cli"] \notin {"RTS", "Err"} BY <1>1, <1>2 DEF Footing, Talking
  <2> QED BY <1>0, <1>1, <1>2, <1>3, <1>4, <2>1, <2>2 DEF Footing, Talking
<1>7. Untouched(c, "srv") BY <1>0, <1>3
<1>8. ASSUME NEW p \in Proc, Connect(c, p)
      PROVE  /\ host[c] = None /\ host'[c] = p /\ srv[p] \in {"accept", "shake"} /\ wrote'[c] = wrote[c]
             /\ pc'[c]["cli"] = "hello"
             /\ pc[c]["srv"] = "start" /\ qp[c]["srv"] = "none" /\ loc[c]["srv"] = "none"
  <2>1. /\ pc[c]["cli"] = "start" /\ host'[c] = p /\ srv[p] \in {"accept", "shake"} /\ wrote'[c] = wrote[c]
        /\ pc'[c]["cli"] = "hello"
    BY <1>0, <1>1, <1>8, PutAt DEF Connect, Listening, TypeOK
  <2>2. host[c] = None BY <1>1, <2>1 DEF Handshakes
  <2>3. At(c, "srv") \notin up BY <1>1, <2>2 DEF At, TypeOK
  <2> QED BY <1>1, <2>1, <2>2, <2>3 DEF Footing, Greeting
<1>9. Footing(c, "srv")'
  <2>1. ASSUME NEW p \in Proc, Connect(c, p) PROVE Footing(c, "srv")'
    BY <1>7, <1>8, <2>1 DEF Untouched, Footing, Talking
  <2>2. ASSUME ConnectFails(c) \/ Hello(c) PROVE Footing(c, "srv")'
    <3>1. host'[c] = host[c] BY <2>2 DEF ConnectFails, Hello, conns
    <3> QED BY <1>0, <1>1, <1>2, <1>7, <3>1, UntouchedKept
  <2> QED BY <2>1, <2>2
<1>10. Greeting(c)'
  <2>1. "cli" # "srv" OBVIOUS
  <2>2. srv[c] = "shake" => "srv" \in wrote'[cur[c]]
    <3>1. srv[c] = "shake" => cur[c] \in Proc /\ "srv" \in wrote[cur[c]]
      BY <1>1 DEF Handshakes, Accepting, Greeting
    <3> QED BY <1>3, <3>1
  <2>3. ASSUME NEW p \in Proc, Connect(c, p) PROVE Greeting(c)'
    BY <1>1, <1>2, <1>7, <1>8, <2>2, <2>3 DEF Greeting, Untouched
  <2>4. CASE ConnectFails(c)
    <3>1. host' = host /\ wrote' = wrote /\ pc'[c]["cli"] = "failed"
      BY <1>0, <1>1, <2>4, PutAt DEF ConnectFails, conns, TypeOK
    <3> QED BY <1>1, <1>2, <1>7, <2>2, <3>1 DEF Greeting, Untouched
  <2>5. CASE Hello(c)
    <3>1. host' = host /\ wrote'[c] = wrote[c] \cup {"cli"} /\ pc[c]["cli"] = "hello"
      BY <1>0, <1>1, <2>5, PutAt DEF Hello, TypeOK
    <3> QED BY <1>1, <1>2, <1>7, <2>2, <3>1 DEF Greeting, Untouched
  <2> QED BY <2>3, <2>4, <2>5
<1>11. ASSUME NEW d \in Proc, d # c
       PROVE  Greeting(d)' /\ OneTurn(d)' /\ \A t \in Side : Footing(d, t)'
  <2>1. host'[d] = host[d] /\ wrote'[d] = wrote[d] BY <1>3, <1>11
  <2>2. Untouched(d, "cli") /\ Untouched(d, "srv") BY <1>0, <1>3, <1>11
  <2>3. \A t \in Side : Footing(d, t)' /\ (Passed(d, t)' <=> Passed(d, t))
    BY <1>2, <1>3, <1>11, <2>1, StandingParts, UntouchedKept
  <2>4. OneTurn(d)' BY <1>0, <2>3 DEF Standing, OneTurn
  <2>5. Greeting(d) /\ Accepting(d) BY <1>1 DEF Standing, Handshakes
  <2>6. srv[d] = "shake" => "srv" \in wrote'[cur[d]]
    BY <1>3, <2>5 DEF Accepting, Greeting
  <2>7. Greeting(d)' BY <1>2, <2>1, <2>2, <2>5, <2>6 DEF Greeting, Untouched
  <2> QED BY <2>3, <2>4, <2>7
<1>12. OneTurn(c)' BY <1>5 DEF OneTurn
<1> QED BY <1>0, <1>6, <1>9, <1>10, <1>11, <1>12 DEF Standing, Side

\* The listener: side "srv" of one connection of p changes at most.
LEMMA ListenerFrame ==
  ASSUME Alternating, Standing, UNCHANGED <<up, host>>, NEW c \in Proc,
         \A d \in Proc, t \in Side : d # c \/ t # "srv" => Untouched(d, t),
         Footing(c, "srv")', Passed(c, "srv")' => Passed(c, "srv"), \A d \in Proc : Greeting(d)'
  PROVE  Standing'
<1>1. \A d \in Proc, t \in Side : d # c \/ t # "srv" => Footing(d, t)' /\ (Passed(d, t)' <=> Passed(d, t))
  BY StandingParts, UntouchedKept
<1>2. \A d \in Proc, t \in Side : Footing(d, t)' /\ (Passed(d, t)' => Passed(d, t)) BY <1>1
<1>3. \A d \in Proc : OneTurn(d)' BY <1>2 DEF Standing, OneTurn, Side
<1> QED BY <1>2, <1>3 DEF Standing

LEMMA BindStands == ASSUME Alternating, Standing, NEW p \in Proc, Bind(p) PROVE Standing'
<1>1. /\ UNCHANGED <<up, cur, host, wrote, pc, op, loc, good, qp>> /\ TypeOK
      /\ srv[p] = "start" /\ srv'[p] \in {"accept", "failed"} /\ \A q \in Proc \ {p} : srv'[q] = srv[q]
  BY DEF Bind, Alternating, Typed, TypeOK, tasks
<1>2. \A d \in Proc, t \in Side : Untouched(d, t) BY <1>1 DEF Untouched
<1>3. "srv" \in Side BY DEF Side
<1>4. Footing(p, "srv")' /\ (Passed(p, "srv")' <=> Passed(p, "srv"))
  BY <1>1, <1>2, <1>3, StandingParts, UntouchedKept
<1>5. ASSUME NEW d \in Proc PROVE Greeting(d)'
  <2>1. Greeting(d) /\ Footing(d, "srv") BY <1>3, StandingParts
  <2>2. host[d] # None => host[d] \in Proc \ {p} BY <1>1, <2>1 DEF Greeting, TypeOK
  <2>3. qp[d]["srv"] # "none" => host[d] \in Proc BY <1>1, <2>1 DEF Footing, At, TypeOK
  <2>4. host[d] \in Proc => host[d] # None BY RpcAssumption DEF RpcAssumption
  <2> QED BY <1>1, <2>1, <2>2, <2>3, <2>4 DEF Greeting
<1> QED BY <1>1, <1>2, <1>4, <1>5, ListenerFrame

\* accept takes a connection, or fails at it.
LEMMA AcceptStands ==
  ASSUME Alternating, Standing, NEW p \in Proc, NEW c \in Proc, Accept(p, c) \/ AcceptFails(p, c)
  PROVE  Standing'
<1>0. "srv" \in Side /\ "cli" \in Side /\ None \notin Proc BY RpcAssumption DEF Side, RpcAssumption
<1>1. /\ UNCHANGED <<up, host, op, loc, good>> /\ TypeOK /\ p \in up /\ srv[p] = "accept"
      /\ host[c] = p /\ pc[c]["srv"] = "start" /\ qp[c]["srv"] = "none"
      /\ \A q \in Proc \ {p} : srv'[q] = srv[q] /\ cur'[q] = cur[q]
      /\ \A d \in Proc \ {c} : wrote'[d] = wrote[d]
  BY DEF Accept, AcceptFails, Alternating, Typed, TypeOK, tasks
<1>2. /\ Requests(c) /\ At(c, "srv") = p /\ At(c, "srv")' = p /\ loc[c]["srv"] = "none"
  BY <1>0, <1>1, StandingParts DEF Requests, At
<1>3. \A d \in Proc, t \in Side : d # c \/ t # "srv" => Untouched(d, t)
  BY <1>0, <1>1, PutAt DEF Accept, AcceptFails, TypeOK, tasks, Untouched
<1>4. \A d \in Proc : qp[d]["srv"] = "Init" => host[d] \in Proc /\ host[d] # p
  <2> SUFFICES ASSUME NEW d \in Proc, qp[d]["srv"] = "Init" PROVE host[d] \in Proc /\ host[d] # p OBVIOUS
  <2>1. Greeting(d) /\ Footing(d, "srv") BY <1>0, StandingParts
  <2> QED BY <1>1, <2>1 DEF Greeting, Footing, At, TypeOK
<1>5. CASE Accept(p, c)
  <2>1. /\ UNCHANGED pc /\ qp'[c]["srv"] = "Init" /\ srv'[p] = "shake" /\ cur'[p] = c
        /\ wrote'[c] = wrote[c] \cup {"srv"}
    BY <1>0, <1>1, <1>5, PutAt DEF Accept, TypeOK, tasks
  <2>2. Footing(c, "srv")' BY <1>1, <1>2, <2>1 DEF Footing, Talking
  <2>3. Passed(c, "srv")' => Passed(c, "srv") BY <1>1, <2>1 DEF Passed
  <2>4. ASSUME NEW d \in Proc PROVE Greeting(d)'
    <3>1. Greeting(d) /\ Accepting(d) BY <1>0, StandingParts DEF Alternating, Handshakes
    <3>2. wrote[d] \subseteq wrote'[d] /\ ("srv" \in wrote'[d] \/ d # c) BY <1>1, <2>1
    <3>3. d # c => qp'[d]["srv"] = qp[d]["srv"] BY <1>0, <1>3 DEF Untouched
    <3>4. host[d] \in Proc \cup {None} BY <1>1 DEF TypeOK
    <3>5. host[d] # None => srv'[host[d]] # "start" BY <1>1, <2>1, <3>1, <3>4 DEF Greeting
    <3>6. qp'[d]["srv"] = "Init" => srv'[host[d]] = "shake" /\ cur'[host[d]] = d
      BY <1>1, <1>4, <2>1, <3>1, <3>3 DEF Greeting
    <3>7. srv'[d] = "shake" => "srv" \in wrote'[cur'[d]]
      <4>1. CASE d = p BY <2>1, <4>1
      <4>2. CASE d # p
        <5>1. srv'[d] = srv[d] /\ cur'[d] = cur[d] BY <1>1, <4>2
        <5>2. srv[d] = "shake" => cur[d] \in Proc /\ "srv" \in wrote[cur[d]] BY <3>1 DEF Accepting, Greeting
        <5>3. \A e \in Proc : wrote[e] \subseteq wrote'[e] BY <1>1, <2>1
        <5> QED BY <5>1, <5>2, <5>3
      <4> QED BY <4>1, <4>2
    <3>8. "srv" \notin wrote'[d] =>
            qp'[d]["srv"] = "none" /\ (pc'[d]["srv"] = "start" \/ srv'[host[d]] = "failed")
      <4> SUFFICES ASSUME "srv" \notin wrote'[d]
                   PROVE qp'[d]["srv"] = "none" /\ (pc'[d]["srv"] = "start" \/ srv'[host[d]] = "failed")
        OBVIOUS
      <4>1. d # c /\ "srv" \notin wrote[d] BY <3>2
      <4>2. CASE pc[d]["srv"] = "start" BY <2>1, <3>1, <3>3, <4>1, <4>2 DEF Greeting
      <4>3. CASE pc[d]["srv"] # "start"
        <5>1. host[d] \in Proc /\ srv[host[d]] = "failed" /\ host[d] # p
          BY <1>1, <3>1, <3>4, <4>1, <4>3 DEF Greeting
        <5> QED BY <1>1, <3>1, <3>3, <4>1, <5>1 DEF Greeting
      <4> QED BY <4>2, <4>3
    <3> QED BY <1>1, <2>1, <3>1, <3>2, <3>5, <3>6, <3>7, <3>8 DEF Greeting
  <2> QED BY <1>1, <1>3, <2>2, <2>3, <2>4, ListenerFrame
<1>6. CASE AcceptFails(p, c)
  <2>1. /\ UNCHANGED <<qp, cur, wrote>> /\ pc'[c]["srv"] = "failed" /\ srv'[p] = "failed"
        /\ \A d \in Proc : pc'[d]["cli"] = pc[d]["cli"] /\ (d # c => pc'[d]["srv"] = pc[d]["srv"])
    BY <1>0, <1>1, <1>6, PutAt DEF AcceptFails, TypeOK
  <2>2. Footing(c, "srv")' BY <1>1, <1>2, <2>1 DEF Footing, Talking
  <2>3. ~Passed(c, "srv")' BY <1>1, <1>2, <2>1 DEF Passed
  <2>4. ASSUME NEW d \in Proc PROVE Greeting(d)'
    <3>1. Greeting(d) /\ host[d] \in Proc \cup {None} BY <1>0, <1>1, StandingParts DEF TypeOK
    <3>2. d = c => host[d] = p BY <1>1
    <3>3. host[d] # None => srv'[host[d]] # "start" BY <1>1, <2>1, <3>1 DEF Greeting
    <3>4. qp[d]["srv"] = "Init" => srv'[host[d]] = "shake" /\ cur[host[d]] = d
      BY <1>1, <1>4, <3>1 DEF Greeting
    <3>5. srv'[d] = "shake" => "srv" \in wrote[cur[d]] BY <1>1, <2>1, <3>1 DEF Greeting
    <3>6. "srv" \notin wrote[d] =>
            qp[d]["srv"] = "none" /\ (pc'[d]["srv"] = "start" \/ srv'[host[d]] = "failed")
      <4>1. CASE d = c BY <1>1, <2>1, <4>1
      <4>2. CASE d # c /\ pc[d]["srv"] = "start" BY <2>1, <3>1, <4>2 DEF Greeting
      <4>3. CASE d # c /\ pc[d]["srv"] # "start"
        <5>1. "srv" \notin wrote[d] => host[d] \in Proc /\ srv[host[d]] = "failed" /\ host[d] # p
          BY <1>1, <3>1, <4>3 DEF Greeting
        <5> QED BY <1>1, <3>1, <5>1 DEF Greeting
      <4> QED BY <4>1, <4>2, <4>3
    <3> QED BY <1>0, <1>1, <2>1, <3>1, <3>2, <3>3, <3>4, <3>5, <3>6 DEF Greeting
  <2> QED BY <1>1, <1>3, <2>2, <2>3, <2>4, ListenerFrame
<1> QED BY <1>5, <1>6

\* accept ends, with a connection or an error.
LEMMA ShakeStands ==
  ASSUME Alternating, Standing, NEW p \in Proc, Accepted(p) \/ ShakeFails(p)
  PROVE  Standing'
<1>0. "srv" \in Side /\ "cli" \in Side /\ None \notin Proc BY RpcAssumption DEF Side, RpcAssumption
<1>1. TypeOK /\ Accepting(p) /\ Greeting(p)
  BY <1>0, StandingParts DEF Alternating, Typed, Handshakes
<1>2. cur[p] \in Proc BY <1>1 DEF Accepted, ShakeFails, Accepting
<1>3. PICK c \in Proc : c = cur[p] BY <1>2
<1>4. p \in up /\ srv[p] = "shake" /\ host[c] = p /\ pc[c]["srv"] = "start" /\ "srv" \in wrote[c]
  BY <1>1, <1>3 DEF Accepted, ShakeFails, Accepting, Greeting
<1>5. /\ UNCHANGED <<up, host, wrote, op, loc, good>>
      /\ \A q \in Proc \ {p} : srv'[q] = srv[q] /\ cur'[q] = cur[q]
      /\ srv'[p] \in {"accept", "failed"}
      /\ \/ pc' = [pc EXCEPT ![c]["srv"] = "submit"] /\ qp' = [qp EXCEPT ![c]["srv"] = "RTS"]
         \/ pc' = [pc EXCEPT ![c]["srv"] = "failed"] /\ qp' = [qp EXCEPT ![c]["srv"] = "none"]
  BY <1>1, <1>3 DEF Accepted, ShakeFails, TypeOK
<1>6. /\ \/ pc'[c]["srv"] = "submit" /\ qp'[c]["srv"] = "RTS"
         \/ pc'[c]["srv"] = "failed" /\ qp'[c]["srv"] = "none"
      /\ \A d \in Proc, t \in Side : d # c \/ t # "srv" => Untouched(d, t)
  BY <1>0, <1>1, <1>4, <1>5, PutAt DEF TypeOK, Untouched
<1>7. At(c, "srv")' = p /\ loc[c]["srv"] = "none"
  BY <1>0, <1>4, <1>5, StandingParts DEF At, Requests
<1>8. Footing(c, "srv")' BY <1>4, <1>5, <1>6, <1>7 DEF Footing, Talking
<1>9. Passed(c, "srv")' => Passed(c, "srv") BY <1>4, <1>5, <1>6, <1>7 DEF Passed
<1>10. ASSUME NEW d \in Proc PROVE Greeting(d)'
  <2>1. Greeting(d) /\ Footing(d, "srv") /\ host[d] \in Proc \cup {None}
    BY <1>0, <1>1, StandingParts DEF TypeOK
  <2>2. host[d] # None => srv'[host[d]] # "start" BY <1>5, <2>1 DEF Greeting
  <2>3. d # c => Untouched(d, "srv") BY <1>0, <1>6
  <2>4. Untouched(d, "cli") BY <1>0, <1>6
  <2>5. qp'[d]["srv"] = "Init" => srv'[host[d]] = "shake" /\ cur'[host[d]] = d
    <3> SUFFICES ASSUME qp'[d]["srv"] = "Init" PROVE srv'[host[d]] = "shake" /\ cur'[host[d]] = d OBVIOUS
    <3>1. d # c /\ qp[d]["srv"] = "Init" BY <1>6, <2>3 DEF Untouched
    <3>2. srv[host[d]] = "shake" /\ cur[host[d]] = d /\ host[d] \in Proc
      BY <1>1, <2>1, <3>1 DEF Greeting, Footing, At, TypeOK
    <3>3. host[d] # p BY <1>3, <3>1, <3>2
    <3> QED BY <1>5, <3>2, <3>3
  <2>6. srv'[d] = "shake" => "srv" \in wrote'[cur'[d]] BY <1>5, <2>1 DEF Greeting
  <2>7. "srv" \notin wrote[d] =>
          qp'[d]["srv"] = "none" /\ (pc'[d]["srv"] = "start" \/ srv'[host[d]] = "failed")
    <3> SUFFICES ASSUME "srv" \notin wrote[d]
                 PROVE qp'[d]["srv"] = "none" /\ (pc'[d]["srv"] = "start" \/ srv'[host[d]] = "failed")
      OBVIOUS
    <3>1. d # c BY <1>4
    <3>2. CASE pc[d]["srv"] = "start" BY <2>1, <2>3, <3>1, <3>2 DEF Greeting, Untouched
    <3>3. CASE pc[d]["srv"] # "start"
      <4>1. host[d] \in Proc /\ srv[host[d]] = "failed" /\ host[d] # p BY <1>4, <2>1, <3>3 DEF Greeting
      <4> QED BY <1>5, <2>1, <2>3, <3>1, <4>1 DEF Greeting, Untouched
    <3> QED BY <3>2, <3>3
  <2>8. host[d] = None => pc'[d]["srv"] = "start"
    <3>1. host[d] = None => d # c BY <1>0, <1>4
    <3> QED BY <2>1, <2>3, <3>1 DEF Greeting, Untouched
  <2> QED BY <1>5, <2>1, <2>2, <2>4, <2>5, <2>6, <2>7, <2>8 DEF Greeting, Untouched
<1> QED BY <1>4, <1>5, <1>6, <1>8, <1>9, <1>10, ListenerFrame

LEMMA InitStanding == Init => Standing
<1> SUFFICES ASSUME Init PROVE Standing OBVIOUS
<1>1. ASSUME NEW c \in Proc PROVE OneTurn(c) /\ Greeting(c) /\ \A s \in Side : Footing(c, s)
  <2>1. \A s \in Side : pc[c][s] = "start" /\ loc[c][s] = "none" /\ qp[c][s] = "none" BY DEF Init
  <2>2. op[c]["cli"] = "send" /\ host[c] = None /\ srv[c] = "start" BY DEF Init, Side
  <2>3. \A s \in Side : Footing(c, s) BY <2>1 DEF Footing, Talking
  <2>4. OneTurn(c) BY <2>1, <2>2 DEF OneTurn, Passed, Side
  <2>5. Greeting(c) BY <2>1, <2>2 DEF Greeting, Side
  <2> QED BY <2>3, <2>4, <2>5
<1> QED BY <1>1 DEF Standing

LEMMA NextStanding == Alternating /\ Standing /\ [Next]_vars => Standing'
<1> SUFFICES ASSUME Alternating, Standing, [Next]_vars PROVE Standing' OBVIOUS
<1>1. CASE UNCHANGED vars
  BY <1>1 DEF Standing, OneTurn, Passed, Greeting, Footing, At, vars, conns, tasks
<1>2. ASSUME NEW p \in Proc, Killed(p) \/ MainReturns(p) PROVE Standing'
  BY <1>2, EndsStands DEF Killed, MainReturns
<1>3. ASSUME NEW p \in Proc, ClientTask(p) PROVE Standing'
  BY <1>3, ClientStands, ConnectStands DEF ClientTask
<1>4. ASSUME NEW p \in Proc, Listener(p) PROVE Standing'
  BY <1>4, BindStands, AcceptStands, ShakeStands DEF Listener
<1>5. ASSUME NEW p \in Proc, NEW s \in Side, Task(p, s) \/ Device(p, s) PROVE Standing'
  BY <1>5, TaskStands, DeliverStands, SendStands DEF Device
<1>6. CASE Proceed BY <1>2, <1>3, <1>4, <1>5, <1>6, ServeStands, DriveStands DEF Proceed
<1> QED BY <1>1, <1>2, <1>6, DriveStands DEF Next

\* A client that is up when nothing can go on has sent its address, was answered,
\* and awaits a request: whatever else it could be doing, it or its listener can
\* go on.
LEMMA RestingClientAwaits ==
  ASSUME Alternating, Standing, \A c \in Proc : ~CanProceed(c), NEW p \in Proc, p \in up
  PROVE  pc[p]["cli"] = "await"
<1>0. "srv" \in Side /\ "cli" \in Side /\ At(p, "cli") = p BY DEF Side, At
<1>1. TypeOK /\ Greeting(p) /\ Footing(p, "srv") /\ Handshakes
  BY <1>0, StandingParts DEF Alternating
<1>2. pc[p]["cli"] \notin {"start", "hello", "done", "failed"} BY DEF CanProceed
<1>3. pc[p]["cli"] \notin {"submit", "post"} BY <1>0 DEF CanProceed
<1>4. pc[p]["cli"] # "shake"
  <2> SUFFICES ASSUME pc[p]["cli"] = "shake" PROVE FALSE OBVIOUS
  <2>1. "srv" \notin wrote[p] /\ host[p] \in up /\ srv[host[p]] # "failed"
    BY DEF CanProceed, ServerGone
  <2>2. host[p] \in Proc /\ srv[host[p]] \in {"accept", "shake"} /\ pc[p]["srv"] = "start" /\ qp[p]["srv"] = "none"
    BY <1>1, <2>1 DEF Greeting, TypeOK
  <2>3. PICK h \in Proc : h = host[p] BY <2>2
  <2>4. srv[h] # "accept" BY <2>1, <2>2, <2>3 DEF CanProceed
  <2>5. srv[h] = "shake" /\ h \in up BY <2>1, <2>2, <2>3, <2>4
  <2>6. "cli" \notin wrote[cur[h]] /\ cur[h] \in up /\ pc[cur[h]]["cli"] # "failed"
    BY <2>5 DEF CanProceed, ClientGone
  <2>7. PICK d \in Proc : d = cur[h] BY <1>1, <2>6 DEF TypeOK
  <2>8. pc[d]["cli"] \notin {"start", "hello"} BY <2>6, <2>7 DEF CanProceed
  <2>9. "cli" \in wrote[d] BY <1>0, <2>6, <2>7, <2>8, StandingParts DEF Greeting
  <2> QED BY <2>6, <2>7, <2>9
<1> QED BY <1>0, <1>1, <1>2, <1>3, <1>4 DEF TypeOK

\* The device of a side that awaits has its request, or has completed it.
LEMMA RestingRequest ==
  ASSUME Alternating, Standing, \A c \in Proc : ~CanProceed(c),
         NEW c \in Proc, NEW s \in Side, At(c, s) \in up, pc[c][s] = "await"
  PROVE  loc[c][s] \in {"hw", "cq"} /\ (loc[c][s] = "cq" => Unannounced(c) \/ Driverless(c))
<1>1. TypeOK /\ Footing(c, s) BY StandingParts
<1>2. loc[c][s] \notin {"none", "flown", "done"} BY <1>1 DEF Footing, CanProceed
<1>3. ASSUME loc[c][s] = "cq", ~Driverless(c) PROVE Unannounced(c)
  <2>1. At(c, s) \in Proc /\ At(c, s) \notin dead BY <1>1, <1>3 DEF TypeOK, Driverless
  <2>2. events[At(c, s)] = 0 BY <1>1, <2>1 DEF CanProceed, TypeOK
  <2>3. <<c, s>> \in Found(At(c, s)) BY <1>3 DEF Found
  <2>4. LostWake(At(c, s)) BY <2>1, <2>2, <2>3 DEF LostWake
  <2> QED BY <1>3, <2>4 DEF Unannounced
<1> QED BY <1>1, <1>2, <1>3 DEF TypeOK

\* The other side, if it is there, is in the same position: so one of the two has
\* a completion that no driver takes, since both would otherwise be waiting to receive, or
\* both have a message to send.
LEMMA RestingReason ==
  ASSUME Alternating, Standing, \A c \in Proc : ~CanProceed(c),
         NEW p \in Proc, p \in up, pc[p]["cli"] = "await"
  PROVE  Orphaned(p) \/ Unannounced(p) \/ Driverless(p)
<1>0. "srv" \in Side /\ "cli" \in Side /\ At(p, "cli") = p /\ At(p, "srv") = host[p]
      /\ Other("cli") = "srv" /\ Other("srv") = "cli"
  BY DEF Side, At, Other
<1>1. TypeOK /\ Greeting(p) /\ Footing(p, "srv") /\ Footing(p, "cli") /\ OneTurn(p) /\ Conversation(p)
  BY <1>0, StandingParts DEF Standing
<1> SUFFICES ASSUME ~Orphaned(p), ~Unannounced(p), ~Driverless(p) PROVE FALSE OBVIOUS
<1>2. loc[p]["cli"] = "hw" BY <1>0, RestingRequest
<1>3. qp[p]["srv"] # "none"
  <2>1. CASE op[p]["cli"] = "send" BY <1>0, <1>2, <2>1 DEF CanProceed
  <2>2. CASE op[p]["cli"] = "recv" BY <2>2 DEF Orphaned
  <2> QED BY <1>0, <1>1, <2>1, <2>2 DEF TypeOK
<1>4. host[p] \in up /\ host[p] \in Proc BY <1>0, <1>1, <1>3 DEF Footing, TypeOK
<1>5. qp[p]["srv"] # "Init"
  <2> SUFFICES ASSUME qp[p]["srv"] = "Init" PROVE FALSE OBVIOUS
  <2>1. srv[host[p]] = "shake" /\ cur[host[p]] = p /\ "cli" \in wrote[p] BY <1>1 DEF Greeting
  <2> QED BY <1>4, <2>1 DEF CanProceed
<1>6. qp[p]["srv"] \in {"RTS", "Err"} /\ pc[p]["srv"] \in Talking
  BY <1>0, <1>1, <1>3, <1>5 DEF TypeOK, Footing
<1>7. pc[p]["srv"] = "await" BY <1>0, <1>4, <1>6 DEF CanProceed, Talking
<1>8. loc[p]["srv"] = "hw" BY <1>0, <1>4, <1>7, RestingRequest
<1>9. op[p]["cli"] \in {"send", "recv"} /\ op[p]["srv"] \in {"send", "recv"} BY <1>0, <1>1 DEF TypeOK
<1>10. op[p]["cli"] = op[p]["srv"] BY <1>0, <1>2, <1>8, <1>9 DEF CanProceed
<1>11. CASE op[p]["cli"] = "recv" BY <1>1, <1>2, <1>8, <1>10, <1>11 DEF OneTurn, Passed
<1>12. CASE op[p]["cli"] = "send"
  <2>1. Unsent(p, "cli") /\ Unsent(p, "srv") BY <1>2, <1>8, <1>10, <1>12 DEF Unsent
  <2>2. \A turn : ~Only(p, turn) BY <2>1 DEF Only
  <2> QED BY <1>1, <2>2 DEF Conversation, Opening, Asking, Serving, Answering, Replied, Leaving, Left, Phase
<1> QED BY <1>9, <1>11, <1>12

\* When nothing in the program can go on, every client that is left awaits a
\* completion of its own connection that the driver was not told of or that no
\* driver is left to take, or a receive whose server is gone: accepts, handshakes,
\* tasks, drivers and devices, of any number of processes that are killed or fail
\* at any moment, never wait for each other.
THEOREM StopsOnlyForThreeReasons == Spec => []StopsOnly
<1>1. Alternating /\ Standing => StopsOnly
  <2> SUFFICES ASSUME Alternating, Standing, \A c \in Proc : ~CanProceed(c), NEW p \in up
               PROVE  pc[p]["cli"] = "await" /\ (Orphaned(p) \/ Unannounced(p) \/ Driverless(p))
    BY DEF StopsOnly
  <2>1. p \in Proc BY TypedParts DEF Alternating
  <2> QED BY <2>1, RestingClientAwaits, RestingReason
<1> QED BY <1>1, SpecAlternating, InitStanding, NextStanding, PTL DEF Spec
===============================================================================
