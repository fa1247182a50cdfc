# A verification project for `rdma`

`crates/rdma` wraps libibverbs in reference-counted Rust handles;
`examples/rdma-async` builds futures and a driver thread on them,
and on those a small RPC program; `examples/rdma-pingpong` is an event loop over
one queue pair. These TLA+ modules model the parts where ownership, threads,
devices and processes meet. TLC checks small instances; TLAPS proves the safety
properties and the two refinements for every instance.

## The system

| component | state | operations | what is hard |
|---|---|---|---|
| resources (`ctx pd cc cq srq qp mr mw ah dm`) | `Arc<Owner>`: a verbs object and handles of what it was made from | create, clone, drop | destruction order, on any thread; EBUSY; pointers of C structs to other C structs |
| builders (`*Options`) | an attribute struct with raw pointers, and handles beside them | setters, consumed by create | every pointer must have its handle, in every order of setters |
| `CompChannel`, `WeakSet` | weak references to its queues, by address | `wait_cq_event`, `add/del_cq_ref` | a raw address becomes a handle while its last handle is dropped |
| `CompletionQueue` | `comp_events_completed: u32` | `req_notify`, `ack_cq_events`, `poll` | the count must match the library's, across wraps, or the drop blocks |
| async `Work` | step, waker, operation and buffers, a queue pair; shared with the device through `wr_id` | `poll`, `complete`, drop | cancellation, failing submission, completion before the submitter has finished |
| async driver | one completion queue for all connections | wait, ack, drain | when the queue is armed, and how many entries it has |
| async connection and listener (`net.rs`) | queue pair of a connection, TCP stream of its handshake | bind, accept, connect | the handshake is inline in the accept loop; either side may fail in it |
| RPC example | one buffer and one connection per task | request, response, exit | two sides over one driver; peers that vanish; no timeouts |
| buffers (`buf.rs access.rs sg_list.rs`) | registered memory, handles, lock guards, cut views | make, lock, cut, move into an operation, get back | the device uses memory that the program has handed over, or has cancelled |
| work requests and completions | C structs | setters and getters | uninitialized fields, unions, lists of any length |
| calls into libibverbs (`error.rs`, `bindings/ibverbs.rs`) | errno of the thread, the function table of the installed library | look up, call, report | stale errno, libraries of another age, panics half way |
| devices, ports, GIDs | a device list; plain data | queries | which queries fail how |
| ping-pong | four counters | event loop of two processes | capacity, lost wake-ups, early exit, datagrams |

Components call each other directly; the shared state is the reference counts,
the channel's `WeakSet` behind a mutex, the state of a work behind a mutex, the
completion queue, errno, and the device. `PROJECT.json` lists every component, and under
`hazards` where each difficulty is in the code.

## The modules

| module | models | state and actions |
|---|---|---|
| `VerbsObjects` | what libibverbs demands of its caller (external) | the existing objects and their pointers; Create, Destroy |
| `Resources` | all ten kinds of resource and three builders | `phase`, `handles`, `field` are the Owner, the program's handles and the Owner's fields; `raw`/`own` the builders; `kobj`/`kdep` the verbs objects; `cqref` the WeakSet. One action per public function, per setter, per `Owner::drop`, plus the release of one field and the deallocation |
| `CompChannel` | one channel, its queues, waiting threads | `wait_cq_event` in its steps (`GetCqEvent`, `FromCqContext`), `Owner::drop` of a queue in its steps (`DelCqRef`, `DestroyCq`, `DestroyReturns`) |
| `AsyncWork` | `work.rs`, `driver.rs`, a connection's queue pair | `step`, `op`, `fut`, `raw` (the reference in the wr_id), the poller inside `submit`, the driver, the device; the work queues have capacities |
| `Transfers` | `buf.rs`, `access.rs`, `sg_list.rs`, the four operations of `work.rs`, `wr.rs`, `wc.rs` | `mem`, `arcs`, `held`: the buffers and who has which handle; `req`, `res`: the request and what is kept of its completion. One action per public function of the buffers, submission, cancellation, delivery, output |
| `Exchange` | what the RPC program promises | requests asked, served and answered, per client |
| `Rpc` | `net.rs` and `rdma-async-rpc.rs`, several processes | `srv`, `cur`: the accept loop; `host`, `wrote`: the TCP streams; `pc`, `op`, `buf`, `iter`: client and server tasks; `loc`, `armed`, `events`: their requests and the shared queue; `dead`: the processes whose driver thread panicked |
| `Calls` | `error.rs`, `bindings/ibverbs.rs`, `device/*.rs`, `ModifyOptions` and its use in both examples | `lib`: the installed library, both its extended table and `ctx.ops`; `errno`; `last`: the last call, what it called, what the library produced, what was reported, which attributes were refused; the device list, device memory, a queue pair, and ports of every link layer with and without LID and GID |
| `PingPong` | `rdma-pingpong/src/main.rs`, two processes | the handshake, the loop statement by statement with the error return of each of its calls (`LoopFails`), RC and UD delivery |

The theorems about a module `M` are in `M_proofs`; those about `Resources` that need
a second invariant are in `Lifetimes_proofs`.

How they fit together. `Resources` is the foundation: it says that the objects the
others use exist. `AsyncWork` takes a future apart step by step; `Transfers` and
`Rpc` use the same future with coarser steps, `Transfers` for what is inside a
request and `Rpc` for many requests of many tasks. `Calls` has what is below all
of them. `Resources` instantiates `VerbsObjects` (`VerbsContract == INSTANCE
VerbsObjects WITH kobj <- kobj, ...`) and `Rpc` instantiates `Exchange`
(`Abstract == INSTANCE Exchange WITH asked <- iter, ...`); `VerbsSpec` and
`ExchangeSpec` are those specifications under the mapping. In `Rpc` the mapping
takes `served` and `answered` from the message that is in a side's buffer, so a
step of the abstract specification is the delivery of a message or its turning
into the response, and a message that is lost, duplicated, swapped or answered
out of turn is no step of it.

`MC*.tla` and `*.cfg` instantiate them. An operator whose name ends in `Mut` is a
plausible bug; no action uses it. Each shows that a property can fail
(`mutants` in `PROJECT.json`).

Abstractions. An identity is the address of an Owner, and is reused after it is
freed. `Finalize` is the whole body of an `Owner::drop`; the fields are dropped
in later steps, one at a time in declaration order, interleaved with everything
else. In `Resources` the library refuses queues of another context (an external
guard of CreateCq and CreateQp); a queue pair is always made with a protection
domain, as `ibv_create_qp_ex` demands. `CompChannel` models a thread that
acknowledges through the handle it was given and then drops it; the driver and
the ping-pong loop acknowledge through a handle of their own, which they never
drop while they wait, so they cannot lose the race. In `AsyncWork` the four
operations of `work.rs` are two, by the queue they are posted to; their data is in
`Transfers`. A poll of the driver takes everything that is in the queue. In
`PingPong` the `rx_depth` calls of `post_recv` are one step, and the creations
before `initialize` fail, if they do, as `initialize` does. A process whose set-up
fails ends as "failed", one that meets an error in the loop as "broken"; both return
an error. In `Rpc` a turn of
the driver (an event, then polls until the queue is empty) is one step, unless it
fails: then the driver dies before it, or after any part of the completions. The text
of a message is its number, and every request fits its buffer of 1024 bytes. In
`Transfers` the contents of a buffer are left out, a list holds handles of one
type, as an array does, and the fields a completion with an error leaves unset
take any value. In `Calls` a verb that fails may or may not have set errno, and
the documented tables of `ibv_modify_qp` (required and optional attributes) are
external, and so is what the wrappers take unchecked from `ctx.ops`: that a provider
fills the entries of the data path, and `dealloc_mw` if it fills `alloc_mw`. The
number a failing poll returns is taken for a negated errno, as the wrapper takes it.
In `AsyncWork` the completion queue has room for every completion: see the findings.
In `PingPong` and `Rpc` the device of a sender learns in the end whether its
message was taken: acknowledgements are not lost for good, and a queue pair in
error takes no more messages.

## The runs

| run | bounds | shows |
|---|---|---|
| `resources_safety` | one of each of context, domain, channel, completion queue, shared queue, queue pair; one handle each | no failed assertion, no dangling pointer, exact WeakSet, no leak, refinement of `VerbsObjects` |
| `resources_leaves` | two contexts, a domain, a shared queue, a region, a window, an address handle, device memory; two handles of the domain | contexts are not mixed; no assertion fails for what is made of a domain or a context alone |
| `channel` | two addresses, two waiters, two handles, two events, counters modulo 3 | memory safety of the race, exact acknowledgement, the drop returns |
| `channel_panic` | the same | **violated**: see findings |
| `async_work` | three works, two events, work queues of one, driver errors, polls after the end | buffers, wr_id and state machine; who waits has a waker stored and a completion under way |
| `async_sequential` | one work at a time (two addresses) | no lost wake-up, futures resolve |
| `pingpong` | rx_depth 1, 3 exchanges, RC and UD, receive queue of 1 and of 2, failures before the loop and of every call in it | counters, capacities, no lost wake-up; success of one means that the other has nothing left to send; the two never wait for each other, and return, but for `Orphaned` |
| `pingpong_datagram` | UD, rx_depth 2, 2 exchanges | **violated**: see findings |
| `rpc` | two processes; the client of the first makes one exchange and an exit, that of the second an exit; the second may be killed, lose its driver thread or meet failing verbs at any moment | implements `Exchange`; when nothing can go on (`StopsOnly`), and for good (`FinishesUnless`), a client is stopped only by a lost wake-up, a dead driver at one of its two ends, or a server that is gone |
| `rpc_lost_wake` | one process, one exchange, no failures | **violated**: see findings |
| `transfers` | two buffers, two tasks, lists of up to two handles with an array of one, lengths 1 to 3 with a largest u32 of 2, cuts of 2 and 4, immediate values 0 and 1 | registered memory, no race with the device, results end to end |
| `calls` | every library with at most one hole in its tables, three error numbers, -1 to 1 devices, ports of three link layers with LID and GID set or not | own errors, no wild call, nothing left behind but what the library refused to free; attributes refused for one port only |

Why the bounds are enough. Resources of one kind interact only through the
resources they share, and an address that is freed is used again, so one address
per kind already gives every order of creation and destruction around a queue
pair; two contexts are needed to mix them. A handle that is cloned is one more
holder, as a field or a builder is. Two waiters and modulus 3 make the counters
wrap with events in flight. Three works give a batch with a cancelled work
between two others, and work queues of one fill up. Three exchanges fill the receive queue
of two and leave a completion over; the bounds of `QueuesBounded` are reached.
In `rpc` two processes race for the port, either may be the server of both, and
the server of one may die in the middle of the other's exchange; loops of
different length make the sides leave in either order, and a second turn of a
loop starts from the state of the first but for the number. In `transfers` every
boundary is inside the bounds: N and N + 1 entries, the largest u32 and one more,
a cut at, below and above the length. In `calls` the codes are the three the
wrappers test for or produce; any other is treated alike.
Deadlock is not checked where the system may stop: after a panic of a waiter,
after the death of the driver, when ping-pong has ended, and when the processes
of the RPC program have.

Fairness. `CompChannel`: a thread inside a drop and a thread that has an event
keep running; nothing is assumed of the device or of when handles are dropped.
`AsyncWork`: the driver thread runs, a submission returns, the executor polls a
task that was woken; nothing is assumed of the device: `FutureResolves` starts
from a completion that is in the queue. `PingPong`: both processes run, and the
device goes on with what was posted. `Rpc`: in a running process the executor
polls tasks that can go on, the driver thread runs until it dies, and main returns when its
client has; the TCP stack tells of a stream that ended; the device delivers,
acknowledges or gives up. Killing a process, the death of a driver, failures of verbs
and errors of the loop are never forced. All of it is weak fairness.

### Findings

* `rpc_lost_wake`. The driver never arms the queue; submitters arm it once, before
  posting. Client and server of one process share it: the event of the server's
  receive is used up, the driver drains the queue, and the completion of the
  client's send comes after its last empty poll: no event, no wake-up. The client
  never posts the receive for the response, which the server therefore cannot
  deliver, and nobody submits anything that would arm the queue again. One
  request at a time is safe (`async_sequential`), and the ping-pong loop arms
  before it drains and has `NoSleepOnCompletion`.
* `channel_panic`. A waiter that took an event whose queue is being dropped
  panics, as documented, but the queue is not destroyed then: its drop waits for
  ever for the acknowledgement the waiter owes. Memory stays safe
  (`NoUseAfterFree`), for exactly this reason.
* `pingpong_datagram`. Receives are posted after the handshake, so the first
  datagrams may find none, and the receiver waits for ever.

Not a violation run, but worth knowing: with `Repoll = TRUE`, `OpDroppedOnce`
fails, since a poll after the end leaves the step Poisoned and `State::drop` then
drops an operation that was given away. The future is private to `work.rs` and
only awaited, so no caller does it. And `QueuesBounded` is tight: the ping-pong
program has `rx_depth + 1` receives outstanding on a queue pair made for
`rx_depth`; it relies on devices that round up. In `Rpc` one client that fails
in its handshake ends the server for all later ones (`accept().await?`);
`FinishesUnless` shows that they fail rather than hang.

Cases the properties name as exceptions, because the code has them:

* A driver that gets an error of `wait_cq_event` or `poll` panics (`expect` in
  `driver.rs`), and the process goes on without it: every future whose completion
  comes later hangs (`Driverless`), at this end and, through the missing answer, at
  the other.
* An error in the loop of one ping-pong process, when the messages of the other were
  all acknowledged, leaves the other asleep in `wait_cq_event` for ever
  (`Orphaned`); and one process may report success when the other then fails in its
  loop. `BothOrNone` says what is left of agreement.
* `local_dest` of both examples tests the LID, on a port that is not Ethernet, and
  never the GID. The address of an Ethernet port whose GID entry is empty goes to the peer, and it is
  the peer that fails, at ready-to-receive or at the address handle
  (`OnlyEmptyGidRefused`).
* `ibv_free_dm` may refuse; the drop then panics and the memory stays with the
  library (`FreedOnce`).

Two comparisons with what is written. `cq.rs:172` says of the number of completed
events "if the number overflows, the behavior is unspecified"; the code adds with
`fetch_add`, which wraps, and the library compares for equality a counter that wraps
too, so the behaviour is specified: `AckExact` and `DropCompletes` hold across wraps
as long as fewer events are in flight than the counter has values. And nothing
bounds the completion queue of the async examples: it has 1024 entries for all
connections of a process, of which each may have 512 + 512 requests in the device.
No property is stated about it, since none would hold.

## The proofs

Every safety property of every passing run is a theorem, and so are the type
invariants of the other modules and both refinements, for all values of the constants that satisfy the assumptions of the
modules. In each proof module one state predicate is inductive, or a second one
relative to it; the invariants the runs check follow from them, and TLC checked
them first, on the instances of the runs.

| module | inductive invariant | theorems (property of a run) |
|---|---|---|
| `Resources_proofs` | `Ownership` | `TypeOK`, `NoFailedAssert`, `BuilderBacked`, `UsableBacked`, `CqRefExact`, the refinement `VerbsSpec` |
| `Lifetimes_proofs` | `Ownership` and `Anchored` | `OneContext`, `NoLeak` |
| `CompChannel_proofs` | `Sound` | `TypeOK`, `NoUseAfterFree`, `AckExact`, `DelCqRefFinds`; and of no run: `DestroyWaitsForAcks`, `NoNewDebts`, `PanicBlocksDrop` |
| `AsyncWork_proofs` | `Managed`; `Attended` | `TypeOK`, `DeviceHasBuffers`, `WrIdValid`, `StepsInOrder`, `OpDroppedOnce`, `NoSleepOnCompletion`, `NobodyForgotten` |
| `Transfers_proofs` | `Guarded`; `Distinct` | `TypeOK`, `DeviceMemory`, `NoRace`, `EndToEnd` |
| `Calls_proofs` | `Coherent` | `TypeOK`, `ErrorIsOwn`, `NoWildCall`, `FreedOnce`, `OnlyEmptyGidRefused` |
| `PingPong_proofs` | `Balanced`; `Moving` | `TypeOK`, `CountsExact`, `QueuesBounded`, `NoSleepOnCompletion`, `BothOrNone`, `NeverStuck` |
| `Rpc_proofs` | `Alternating`; `Standing` | `TypeOK`, the refinement `ExchangeSpec`, `StopsOnly` |

**Resources.** None of the invariants is inductive: that a destroy call cannot fail
depends on who holds whom. `Ownership` says so:

* `Existing`: an object exists exactly while its Owner is live or finalizing;
* `RefsLive`: handles, builders and fields refer to live Owners only (the
  reference count, said without counting);
* `RawOwned`: a pointer in a builder has its handle beside it;
* `DepsHeld`: each pointer of an existing object is covered by a field of its
  Owner, or is the context that its domain's Owner holds. The second case is the
  queue pair, region, window and address handle, which keep no context;
* `FieldKinds`, `CqRefExact`, `TypeOK`.

There is one lemma per shape of step (an Owner is born, references are released,
a handle is added, an Owner is finalized, memory is freed), one per action on
top of them, and each temporal theorem follows from `Ownership`. `NotInUse` is
the heart: nothing that exists points to an object that is being finalized.
`Anchored` adds the converse of `RefsLive` (a live Owner has a strong reference),
which kind of Owner has which field, and that the pointers of an object lead to
one context. `NothingLeaks` follows the kinds from the queue pair down: in a
program that holds nothing, an Owner that is left has a holder of a kind above it,
and at the top there is none. That no drop can go on is said by its guards
(`CanDrop`), not by ENABLED. Assumptions: `None` is no address, at least one
handle is allowed, and an address is of one kind (`KindsAssumption`).

**CompChannel.** That an upgrade finds allocated memory rests on the library, not on
the reference count: `Sound` has that an event which is not acknowledged keeps
the Owner at or before `ibv_destroy_cq`. It is tied to the counters by `AckExact`:
delivered and acknowledged events differ, modulo M, by the number of threads that
owe an acknowledgement. So ibv_destroy_cq returns only when nobody owes one,
provided that there are fewer threads than M (`CounterAssumption`; M is 2^32).
Three more theorems say why a drop ends or does not: ibv_destroy_cq waits for
exactly the threads that owe (`DestroyWaitsForAcks`), no step adds one while it
waits (`NoNewDebts`, an action property), and one that died with its event keeps
the queue for ever (`PanicBlocksDrop`, the finding `channel_panic` in every
instance).

**AsyncWork.** `Managed` relates the places that know of a work: the step, the
reference in the wr_id, the poll that is inside `submit`, the request in the
device, and the driver that completes it (`Lifecycle`). Two theorems have a hypothesis of their own, the one
under which their run checks them: `OpDroppedOnce` if no future is polled after
its end, `NoSleepOnCompletion` for one work at a time. Without it both are false,
as the findings say. `NobodyForgotten` needs the wakers as well (`Attended`): the
mutex keeps the completion away until the poll that submitted has stored its
waker, and a later poll stores its own before it lets go.

**Transfers.** `Guarded` has the lock discipline (`Exclusive`: a write guard or a Buf
has no other holder), that a handle keeps its region registered (`Memory`), and
that a scatter list is made, entry by entry, of the handles that the operation
keeps until the completion (`Requests`); the last is what carries the first two
over to the device. `Distinct` says that the entries of one list do not share a
buffer unless they are read guards; a list gets its handles from different
sources and cutting or dropping one does not bring two together. With it
`NoRace` holds within a list as well as between tasks. `SizesAssumption` says that lengths are bounded.

**Calls.** `Coherent` describes the libraries there can be: a table that is cut off
in front and may have holes, and a `ctx.ops` with its data path. That a library
with `alloc_dm` has `free_dm`, that the masks of the three transitions are exactly
what the table of the verb requires, and that among the ports whose address
`local_dest` lets through only the Ethernet port with an empty GID cannot be
addressed, are lemmas about the operators.

**PingPong.** The counters of one process are kept by its own steps (`Local`), but
that it receives at most `iters` messages, and that a failure is never answered
by a success, is a fact about both: received messages of one, plus requests of
the other that wait or have failed, are at most the requests the other ever
posted (`Flow`). A process that fails before the loop, or by a message that was not
taken, leaves the other one short of a message, for good (`Outcome`); one that is
stopped by an error of a call in its loop need not, and is kept apart ("broken"). Batches of completions are
counted by cardinality; what a poll takes and what it leaves add up
(`CountSplit`).

That the two never wait for each other (`NeverStuck`) is the safety half of
termination: some statement can be executed, or some device has a request it can
go on with. It needs what neither process knows of the other (`Moving`): what each
has posted, written and made of its queue pair at each statement (`Stage`), that
nobody is past the connection alone (`Handshake`), that what was delivered has
arrived (`Arrivals`), and that a process whose peer failed was never heard, so
that it still has a send to fail (`Unheard`). A process asleep has a receive posted
and, until all its messages were delivered, a send (`Asleep`); so two processes
asleep have both delivered everything, and each is short of a message that has
arrived. A process asleep whose peer is broken has a send that will fail, or has
sent everything: `Orphaned`. The attempt to prove it corrected the model:
a send that exhausts its retries leaves its queue pair in error, and a queue pair
in error takes nothing, so the other side's send fails too. Assumptions: two processes, rx_depth and iters not 0, and devices
with room for rx_depth receives.

**Rpc.** Neither side looks at the number in a message, so the refinement needs to
know what is in both buffers. `Conversation` lists seven phases: opening; a
request that is unsent, delivered, served, answered; the exit unsent, delivered.
In each, at most one of four moves is possible (`Only`), which are the deliveries
and the two reactions to them. Failures, kills and completions of sends keep the
phase and only take moves away (`QuietAt`). That the listener starts the task of a
connection only once, although several processes may have listened, is
`Handshakes`. A driver that dies part way hands out some completions and changes
nothing else of a connection. The moves map to Ask, Serve and Answer, everything else to a stutter.

`StopsOnly` is the safety half of `FinishesUnless`; in both the completion that was
not announced, or has no driver left to take it, is one of the client's own
connection. `CanProceed` has the
guards of `Proceed` (a failure that may be injected needs no guard of its own: what
it can strike can also go on); TLC agrees that it is ENABLED Proceed on the
instance of the run. `Standing` says what a side
has at each point (`Footing`: its process, its queue pair, its request), how far
both are in the handshake (`Greeting`), and that the two sides have never both
handed the turn over (`OneTurn`, the converse of `Only`). In a program at rest a
client is then not in its handshake (it, its listener, or the client that listener
is working on could go on), its own request and that of its server are in the device
or completed, and if both are in the device they are two sends or two receives,
which `Only` and `OneTurn` exclude.

Model-checked only: the liveness properties `DropCompletes`, `FutureResolves`,
`Returns` and `FinishesUnless`, since neither fairness nor leads-to is in the
prover's reach. The safety half of each is proved: what is waited for
can only get less (`NoNewDebts`), has somebody who will bring it
(`NobodyForgotten`), or something can go on (`NeverStuck`, `StopsOnly`). The
violations of the three violation runs are TLC's.

## Not modelled

The generated bindings (but for the order of `verbs_context`), the build script,
the device listing, argument parsing and statistics: data and I/O without state.
The formatting of GIDs and GUIDs. `ibv_bind_mw` and the `ibv_wr_*` functions of
`bindings/ibverbs.rs`, the attributes returned by `QueuePair::query`, atomic work
requests and the opcode of a completion: nobody in the repository uses them, so
there is nothing they have to be right for. The contents of buffers and messages.
The overrun of the completion queue that the connections of a process share:
`AsyncWork` and `Rpc` have queues without a bound. Executor threads
blocked in `RwBuf::read` and `RwBuf::write`: no task of the repository calls them.

## What could follow

1. A completion queue with a capacity, and a count of the requests of all
   connections against it, once the code has one.
2. A driver that arms the queue again before it drains it, as the ping-pong loop
   does: `Finishes` should then hold.
