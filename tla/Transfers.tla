------------------------------ MODULE Transfers -------------------------------
(***************************************************************************)
(* The buffers of examples/rdma-async, the ways to share them, and what the *)
(* four operations make of them: the scatter list, the work request, and    *)
(* the result read from its completion.                                     *)
(*                                                                          *)
(* A buffer is registered memory.  A task has it by value (Buf), or a lock  *)
(* guard of it (ReadRwBuf, WriteRwBuf), cut to a Head or not, and moves a   *)
(* list of such handles into an operation, which gives the list back with   *)
(* the result.  Module AsyncWork has the steps of a future one by one; here *)
(* one is posted, poisoned, an orphan (dropped before its completion) or    *)
(* done.  An operation whose submission fails gives its list back at once,  *)
(* which is no step here, and neither is a lock that blocks.                *)
(***************************************************************************)
EXTENDS Naturals, Sequences, FiniteSets, SequencesExt

CONSTANTS
  Buf,          \* addresses of buffers
  Task,
  None,
  Sizes,        \* lengths buffers are made with
  Cuts,         \* lengths given to Head::new
  MaxU32,       \* u32::MAX
  N,            \* N of convert_sglist
  MaxList,      \* bound: handles in a list
  Imm           \* immediate values

ASSUME TransfersAssumption ==
  /\ None \notin Task \cup Imm
  /\ Sizes \subseteq Nat \ {0} /\ Cuts \subseteq Nat /\ Imm \subseteq Nat
  /\ {MaxU32, N, MaxList} \subseteq Nat \ {0}
\* A length is a usize.
ASSUME SizesAssumption == \E m \in Sizes : \A n \in Sizes : n =< m

VARIABLES
  mem,          \* mem[b]: "free", "zeroed" (allocated, not registered) or "live"
  size,         \* size[b]: the length of the region
  maker,        \* maker[b]: the task in new_zeroed for b
  arcs,         \* arcs[b]: tasks with an RwBuf of b
  held,         \* held[t]: the list of t, or of the operation t has moved it into
  pc,           \* pc[t]: the operation of t
  req,          \* req[t]: its work request
  res,          \* res[t]: what State and Op* keep of its completion
  msg           \* msg[t]: the message t was asked to send, or has received

bufs == <<mem, size, maker, arcs>>
ops == <<pc, req, res, msg>>
vars == <<bufs, held, ops>>

MaxSize == CHOOSE m \in Sizes : \A n \in Sizes : n =< m
Option == Imm \cup {None}
Handle == [b : Buf, how : {"own", "read", "write"}, len : 0..MaxSize]
Uninit == [addr |-> None, length |-> 0, lkey |-> None]
SgeType == [addr : Buf, length : Nat, lkey : Buf]

TypeOK ==
  /\ mem \in [Buf -> {"free", "zeroed", "live"}]
  /\ size \in [Buf -> Sizes \cup {0}]
  /\ maker \in [Buf -> Task \cup {None}]
  /\ arcs \in [Buf -> SUBSET Task]
  /\ \A t \in Task : /\ held[t] \in Seq(Handle) /\ Len(held[t]) =< MaxList
                     /\ \A i, j \in DOMAIN held[t] : held[t][i].how = held[t][j].how
  /\ pc \in [Task -> {"idle", "posted", "orphan", "poisoned", "done"}]
  /\ \A t \in Task : pc[t] \in {"idle", "poisoned"} => req[t] = None
  /\ \A t \in Task : pc[t] # "done" => res[t] = None

Init ==
  /\ mem = [b \in Buf |-> "free"]
  /\ size = [b \in Buf |-> 0]
  /\ maker = [b \in Buf |-> None]
  /\ arcs = [b \in Buf |-> {}]
  /\ held = [t \in Task |-> <<>>]
  /\ pc = [t \in Task |-> "idle"]
  /\ req = [t \in Task |-> None]
  /\ res = [t \in Task |-> None]
  /\ msg = [t \in Task |-> None]

Holds(t, b) == \E i \in DOMAIN held[t] : held[t][i].b = b
Running(t) == pc[t] = "idle" /\ \A b \in Buf : maker[b] # t
\* An array of handles has one type.
Fits(t, how) == Len(held[t]) < MaxList /\ \A i \in DOMAIN held[t] : held[t][i].how = how

\* Drop for Buf: with its last handle the region is deregistered, then freed.
Reclaim ==
  LET gone == {b \in Buf : /\ mem[b] = "live" /\ arcs'[b] = {}
                           /\ \A t \in Task : \A i \in DOMAIN held'[t] : held'[t][i].b # b}
  IN /\ mem' = [b \in Buf |-> IF b \in gone THEN "free" ELSE mem[b]]
     /\ size' = [b \in Buf |-> IF b \in gone THEN 0 ELSE size[b]]
     /\ UNCHANGED maker

-------------------------------------------------------------------------------
(***************************************************************************)
(* Buf, RwBuf and Head                                                      *)
(***************************************************************************)
\* Buf::new_zeroed up to alloc_zeroed; a guard frees the memory again.
NewZeroed(t, b, n) ==
  /\ Running(t) /\ mem[b] = "free"
  /\ mem' = [mem EXCEPT ![b] = "zeroed"]
  /\ size' = [size EXCEPT ![b] = n]
  /\ maker' = [maker EXCEPT ![b] = t]
  /\ UNCHANGED <<arcs, held, ops>>

\* The region is registered; the value is a Buf, or an RwBuf around it.
Registered(t, b) ==
  /\ maker[b] = t
  /\ mem' = [mem EXCEPT ![b] = "live"]
  /\ maker' = [maker EXCEPT ![b] = None]
  /\ \/ /\ Fits(t, "own")
        /\ held' = [held EXCEPT ![t] = Append(@, [b |-> b, how |-> "own", len |-> size[b]])]
        /\ UNCHANGED arcs
     \/ arcs' = [arcs EXCEPT ![b] = {t}] /\ UNCHANGED held
  /\ UNCHANGED <<size, ops>>

\* `expect` panics; the guard frees the memory while unwinding.
RegisterFails(t, b) ==
  /\ maker[b] = t
  /\ mem' = [mem EXCEPT ![b] = "free"]
  /\ size' = [size EXCEPT ![b] = 0]
  /\ maker' = [maker EXCEPT ![b] = None]
  /\ UNCHANGED <<arcs, held, ops>>

\* RwBuf::clone, given to u.
Clone(t, u, b) ==
  /\ Running(t) /\ t \in arcs[b]
  /\ arcs' = [arcs EXCEPT ![b] = @ \cup {u}]
  /\ UNCHANGED <<mem, size, maker, held, ops>>

DropClone(t, b) ==
  /\ Running(t) /\ t \in arcs[b]
  /\ arcs' = [arcs EXCEPT ![b] = @ \ {t}]
  /\ UNCHANGED <<held, ops>>
  /\ Reclaim

LockedMut(b, how) == \E t \in Task : Holds(t, b) /\ pc[t] = "idle"   \* not after it was moved

\* RwLock: a reader waits for a writer, a writer for everyone.
Locked(b, how) ==
  \E t \in Task : \E i \in DOMAIN held[t] :
    held[t][i].b = b /\ (how = "write" \/ held[t][i].how = "write")

\* RwBuf::read, RwBuf::write
Lock(t, b, how) ==
  /\ Running(t) /\ t \in arcs[b] /\ Fits(t, how)
  /\ ~Locked(b, how)
  /\ held' = [held EXCEPT ![t] = Append(@, [b |-> b, how |-> how, len |-> size[b]])]
  /\ UNCHANGED <<bufs, ops>>

NewHeadMut(t, i, n) ==            \* the length is not checked
  /\ Running(t) /\ i \in DOMAIN held[t]
  /\ held' = [held EXCEPT ![t][i].len = n]
  /\ UNCHANGED <<bufs, ops>>

\* Head::new asserts the length; the handle is dropped when it panics.
NewHead(t, i, n) ==
  /\ Running(t) /\ i \in DOMAIN held[t]
  /\ held' = [held EXCEPT ![t] = IF n =< @[i].len THEN [@ EXCEPT ![i].len = n] ELSE RemoveAt(@, i)]
  /\ UNCHANGED <<arcs, ops>>
  /\ Reclaim

\* Head::into_inner
IntoInner(t, i) ==
  /\ Running(t) /\ i \in DOMAIN held[t]
  /\ held' = [held EXCEPT ![t][i].len = size[held[t][i].b]]
  /\ UNCHANGED <<bufs, ops>>

DropHandles(t) ==
  /\ Running(t) /\ held[t] # <<>>
  /\ held' = [held EXCEPT ![t] = <<>>]
  /\ UNCHANGED <<arcs, ops>>
  /\ Reclaim

-------------------------------------------------------------------------------
(***************************************************************************)
(* The work request                                                         *)
(***************************************************************************)
Total(lens) == FoldSeq(LAMBDA n, m : n + m, 0, lens)

\* ScatterList::fill, GatherList::fill: one entry per handle, in order.
Sge(h) == [addr |-> h.b, length |-> h.len, lkey |-> h.b]

RoomMut(len) == IF len =< N + 1 THEN N ELSE len      \* off by one
\* The entries there is room for: the array, or a Vec of the length.
Room(len) == IF len =< N THEN N ELSE len

\* convert_sglist: an entry written past the room is not what the slice reads.
ConvertSglist(list) ==
  [i \in DOMAIN list |-> IF i =< Room(Len(list)) THEN Sge(list[i]) ELSE Uninit]

\* SendRequest, RecvRequest: zeroed, then the setters.
Opcode(k, imm) ==
  CASE k = "send" -> (IF imm = None THEN "Send" ELSE "SendWithImm")
    [] k = "write" -> "Write"
    [] k = "read" -> "Read"
    [] k = "recv" -> "Recv"

Request(k, list, imm) ==
  [opcode |-> Opcode(k, imm),
   sg_list |-> ConvertSglist(list),
   imm_data |-> IF imm = None THEN 0 ELSE imm,
   rdma |-> k \in {"write", "read"}]

\* A GatherList is made of handles that may be written (the trait bounds).
Allowed(t, k, imm) ==
  /\ Running(t) /\ held[t] # <<>>
  /\ k \in {"recv", "read"} => \A i \in DOMAIN held[t] : held[t][i].how # "read"
  /\ imm # None => k = "send"
TooLong(t) == \E i \in DOMAIN held[t] : held[t][i].len > MaxU32

Submit(t, k, imm) ==
  /\ Allowed(t, k, imm) /\ ~TooLong(t)
  /\ pc' = [pc EXCEPT ![t] = "posted"]
  /\ req' = [req EXCEPT ![t] = Request(k, held[t], imm)]
  /\ msg' = [msg EXCEPT ![t] = IF k # "send" THEN None
                               ELSE [n |-> Total([i \in DOMAIN held[t] |-> held[t][i].len]), imm |-> imm]]
  /\ UNCHANGED <<bufs, held, res>>

\* numeric_cast panics in fill: the operation stays in the poisoned state.
SubmitPanics(t) ==
  /\ Running(t) /\ TooLong(t)
  /\ pc' = [pc EXCEPT ![t] = "poisoned"]
  /\ UNCHANGED <<bufs, held, req, res, msg>>

\* The future is dropped: what the device has, it keeps.
Cancel(t) ==
  /\ pc[t] \in {"posted", "poisoned", "done"}
  /\ pc' = [pc EXCEPT ![t] = IF @ = "posted" THEN "orphan" ELSE "idle"]
  /\ held' = [held EXCEPT ![t] = IF pc[t] = "posted" THEN @ ELSE <<>>]
  /\ req' = [req EXCEPT ![t] = IF pc[t] = "posted" THEN @ ELSE None]
  /\ res' = [res EXCEPT ![t] = None]
  /\ msg' = [msg EXCEPT ![t] = IF pc[t] = "posted" THEN @ ELSE None]
  /\ UNCHANGED arcs
  /\ Reclaim

-------------------------------------------------------------------------------
(***************************************************************************)
(* The completion                                                           *)
(***************************************************************************)
InHw(t) == pc[t] \in {"posted", "orphan"}
Bytes(t) == Total([i \in DOMAIN req[t].sg_list |-> req[t].sg_list[i].length])

SUCCESS == 0
LOC_LEN_ERR == 1
WR_FLUSH_ERR == 5
REM_INV_REQ_ERR == 9

\* An ibv_wc.  With an error the device writes the status alone, and the rest is
\* what was in the driver's buffer.
Wc == [status : {SUCCESS}, byte_len : {MaxSize}, with_imm : BOOLEAN, imm_data : Imm]
Error(wc, status) == [wc EXCEPT !.status = status]

ImmDataMut(wc) == wc.imm_data          \* the flag is not looked at
\* WorkCompletion::imm_data
ImmData(wc) == IF wc.with_imm THEN wc.imm_data ELSE None

\* Operation::complete: OpRecv and OpRead keep what their output needs.
OpComplete(t, wc) ==
  [status |-> wc.status,
   byte_len |-> IF req[t].opcode \in {"Recv", "Read"} THEN wc.byte_len ELSE 0,
   imm |-> IF req[t].opcode = "Recv" THEN ImmData(wc) ELSE None]

\* The driver completes the requests in DOMAIN wcs; an orphan is dropped there.
Completed(wcs) ==
  LET orphans == {t \in DOMAIN wcs : pc[t] = "orphan"}
      here == DOMAIN wcs \ orphans
  IN /\ pc' = [t \in Task |-> IF t \in orphans THEN "idle" ELSE IF t \in here THEN "done" ELSE pc[t]]
     /\ res' = [t \in Task |-> IF t \in here THEN OpComplete(t, wcs[t]) ELSE res[t]]
     /\ req' = [t \in Task |-> IF t \in orphans THEN None ELSE req[t]]
     /\ held' = [t \in Task |-> IF t \in orphans THEN <<>> ELSE held[t]]
     /\ UNCHANGED arcs
     /\ Reclaim

\* A message goes into one receive, or is too long for it.
Deliver(s, r, junk) ==
  LET imm == req[s].opcode = "SendWithImm"
      fits == Bytes(s) =< Bytes(r)
      got == [junk EXCEPT !.byte_len = Bytes(s), !.with_imm = imm,
                          !.imm_data = IF imm THEN req[s].imm_data ELSE @]
  IN
  /\ InHw(s) /\ InHw(r)
  /\ req[s].opcode \in {"Send", "SendWithImm"} /\ req[r].opcode = "Recv"
  /\ Completed([t \in {s, r} |->
                  IF ~fits THEN Error(junk, IF t = r THEN LOC_LEN_ERR ELSE REM_INV_REQ_ERR)
                  ELSE IF t = r THEN got ELSE junk])
  /\ msg' = [t \in Task |-> IF t \in {s, r} /\ pc[t] = "posted" /\ fits THEN msg[s]
                            ELSE IF t \in {s, r} THEN None ELSE msg[t]]

\* An RDMA write or read is done.
RdmaDone(t, junk) ==
  /\ InHw(t) /\ req[t].rdma
  /\ Completed([u \in {t} |-> [junk EXCEPT !.byte_len = IF req[t].opcode = "Read" THEN Bytes(t) ELSE @]])
  /\ UNCHANGED msg

\* The queue pair failed, or the peer is gone.
Flushed(t, junk) ==
  /\ InHw(t)
  /\ Completed([u \in {t} |-> Error(junk, WR_FLUSH_ERR)])
  /\ msg' = [msg EXCEPT ![t] = None]

\* return_value and Operation::output: the result, and the list back.
Ok(t) == res[t].status = SUCCESS
Output(t) ==
  /\ pc[t] = "done"
  /\ pc' = [pc EXCEPT ![t] = "idle"]
  /\ req' = [req EXCEPT ![t] = None]
  /\ res' = [res EXCEPT ![t] = None]
  /\ msg' = [msg EXCEPT ![t] = None]
  /\ UNCHANGED <<bufs, held>>

-------------------------------------------------------------------------------
Buffers(t, b) ==
  \/ \E n \in Sizes : NewZeroed(t, b, n)
  \/ Registered(t, b) \/ RegisterFails(t, b)
  \/ \E u \in Task : Clone(t, u, b)
  \/ DropClone(t, b)
  \/ Lock(t, b, "read") \/ Lock(t, b, "write")

Handles(t) ==
  \/ \E i \in DOMAIN held[t] : IntoInner(t, i) \/ \E n \in Cuts : NewHead(t, i, n)
  \/ DropHandles(t)

Operations(t) ==
  \/ \E k \in {"send", "recv", "write", "read"}, imm \in Option : Submit(t, k, imm)
  \/ SubmitPanics(t) \/ Cancel(t) \/ Output(t)

Device ==
  \E t \in Task, junk \in Wc :
    RdmaDone(t, junk) \/ Flushed(t, junk) \/ \E r \in Task \ {t} : Deliver(t, r, junk)

Next == Device \/ \E t \in Task : Handles(t) \/ Operations(t) \/ \E b \in Buf : Buffers(t, b)

Spec == Init /\ [][Next]_vars

-------------------------------------------------------------------------------
(***************************************************************************)
(* Properties                                                               *)
(***************************************************************************)
\* Every entry the device works on was written by fill and lies in a region that
\* is registered: across cancellation, panics, both paths of convert_sglist, and
\* clones and guards dropped in any order.
DeviceMemory ==
  \A t \in Task : InHw(t) =>
    \A i \in DOMAIN req[t].sg_list :
      LET e == req[t].sg_list[i] IN
      e \in SgeType /\ mem[e.addr] = "live" /\ e.length =< size[e.addr]

\* Memory the device may write has no other user, and memory it reads has none
\* that may write it: a guard or a Buf moved into an operation is held until the
\* completion, also when the future is dropped.  Another entry of the same list is
\* another user: no receive scatters twice into one buffer.
NoRace ==
  \A t \in Task : InHw(t) =>
    \A i \in DOMAIN req[t].sg_list, u \in Task : \A j \in DOMAIN held[u] :
      <<u, j>> # <<t, i>> /\ held[u][j].b = req[t].sg_list[i].addr =>
        req[t].opcode \notin {"Recv", "Read"} /\ held[u][j].how = "read"

\* A receive that reports success returns the length and the immediate value its
\* peer was asked to send (none, zero and one told apart), through the request,
\* the union of the completion and the fields of the operation; what an error
\* completion leaves in them is never returned.
EndToEnd ==
  \A t \in Task : pc[t] = "done" /\ req[t].opcode = "Recv" /\ Ok(t) =>
    msg[t] = [n |-> res[t].byte_len, imm |-> res[t].imm]
===============================================================================
