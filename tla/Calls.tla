-------------------------------- MODULE Calls ---------------------------------
(***************************************************************************)
(* The calls of one thread of the crate into libibverbs: which function a   *)
(* wrapper of bindings/ibverbs.rs finds in the library that is installed    *)
(* (it may be older than the bindings), which error the crate reports, what *)
(* a failed or panicking call leaves behind, and the attributes with which  *)
(* the two examples bring up a queue pair.                                  *)
(*                                                                          *)
(* errno belongs to the thread and outlives a call, so one call can report  *)
(* what another left there.  Resources has the lifetimes of the objects;    *)
(* here only those whose release depends on the function tables or on an    *)
(* unwinding call: device memory and the device list.                       *)
(***************************************************************************)
EXTENDS Integers, Sequences, FiniteSets, Functions

CONSTANTS
  Codes,        \* error numbers the library and the device produce
  NumDevices,   \* values of num_devices
  MaxMissing,   \* bound: functions a library leaves out within its tables
  None

EINVAL == 22
ENOSYS == 38
EOPNOTSUPP == 95

ASSUME CallsAssumption ==
  /\ {EINVAL, ENOSYS, EOPNOTSUPP} \subseteq Codes /\ Codes \subseteq Nat \ {0}
  /\ NumDevices \subseteq Int
  /\ MaxMissing \in Nat

VARIABLES
  lib,          \* the installed library
  errno,        \* of this thread
  last,         \* the last call
  list, clists, \* has the program a DeviceList; lists the library has allocated
  ctx,          \* has the program a Context
  dm, cdm,      \* has the program a DeviceMemory; what the library has of the last one
  qp            \* the queue pair, or None

held == <<list, clists, ctx, dm, cdm, qp>>
vars == <<lib, errno, last, held>>

-------------------------------------------------------------------------------
(***************************************************************************)
(* The function table                                                       *)
(***************************************************************************)
\* verbs_context, the functions a wrapper looks up, in the order of the struct.
\* The struct grows at its front: an older library has a tail of it.
Fields == <<"query_port", "alloc_dm", "free_dm", "create_cq_ex", "query_device_ex",
            "create_qp_ex", "create_srq_ex">>

\* size_of::<verbs_context>() - offset_of!(verbs_context, op)
FromEnd(op) == Len(Fields) - CHOOSE i \in DOMAIN Fields : Fields[i] = op
Inside(sz) == {op \in Range(Fields) : FromEnd(op) < sz}

\* ibv_context.ops, which is as long in every library: a provider fills the entries
\* of the data path, and with the allocation of memory windows their release.
DataPath == {"poll_cq", "req_notify_cq", "post_send", "post_recv"}
ContextOps == DataPath \cup {"alloc_mw", "dealloc_mw"}

\* A library that allocates device memory frees it, as far as its table goes.
Libs ==
  {l \in [abi : BOOLEAN, sz : 0..Len(Fields), ops : SUBSET Range(Fields), context : SUBSET ContextOps] :
     /\ l.ops \subseteq Inside(l.sz) /\ (~l.abi => l.sz = 0)
     /\ Cardinality((Inside(l.sz) \ l.ops) \cup (ContextOps \ l.context)) =< MaxMissing
     /\ "alloc_dm" \in l.ops /\ "free_dm" \in Inside(l.sz) => "free_dm" \in l.ops
     /\ DataPath \subseteq l.context
     /\ "alloc_mw" \in l.context => "dealloc_mw" \in l.context}

\* The word at the place of op.  In front of the table is other memory.
IsNone(op) == op \in Inside(lib.sz) /\ op \notin lib.ops

VerbsGetCtxOpMut(op) == lib.abi /\ ~IsNone(op)      \* sz is not looked at
\* verbs_get_ctx_op!: is there such a function?
VerbsGetCtxOp(op) == lib.abi /\ FromEnd(op) < lib.sz /\ ~IsNone(op)

\* What a wrapper calls: entries of the table, or nothing, or a linked symbol.
Linked == [via |-> {}, missing |-> FALSE]
Table(op) == IF VerbsGetCtxOp(op) THEN [via |-> {op}, missing |-> FALSE]
             ELSE [via |-> {}, missing |-> TRUE]
OrLegacy(op) == IF VerbsGetCtxOp(op) THEN Table(op) ELSE Linked
\* ctx.ops, with unwrap_unchecked
Unchecked(op) == [via |-> {op}, missing |-> FALSE]

ibv_create_cq_ex == Table("create_cq_ex")
ibv_query_port == OrLegacy("query_port")
ibv_alloc_dm == Table("alloc_dm")
ibv_free_dm == Table("free_dm")
ibv_alloc_mw == IF "alloc_mw" \in lib.context THEN Unchecked("alloc_mw")
                ELSE [via |-> {}, missing |-> TRUE]
ibv_create_qp_ex(mask) == IF mask = {"PD"} THEN Linked ELSE Table("create_qp_ex")
ibv_create_srq_ex(mask, type) ==
  IF mask \subseteq {"PD", "TYPE"} /\ "PD" \in mask /\ ("TYPE" \in mask => type = "BASIC")
  THEN Linked ELSE Table("create_srq_ex")

-------------------------------------------------------------------------------
(***************************************************************************)
(* What the C side does: errno it found, whether it succeeded, the codes it *)
(* produced.  A verb that returns a pointer need not set errno when it      *)
(* fails.  Any may leave something in errno that is not its result: for     *)
(* that there is Foreign, after the call.                                   *)
(***************************************************************************)
Pointer(call, e) ==
  IF call.missing THEN {[ok |-> FALSE, errno |-> EOPNOTSUPP, made |-> {EOPNOTSUPP}]}
  ELSE {[ok |-> b, errno |-> e, made |-> {}] : b \in BOOLEAN}
       \cup {[ok |-> FALSE, errno |-> c, made |-> {c}] : c \in Codes}

\* A verb that returns 0 or an error number; one that frees, and is not found.
Number(e) == {[ret |-> r, errno |-> e, made |-> {r} \ {0}] : r \in Codes \cup {0}}
Freed(call, e) == IF call.missing THEN {[ret |-> EOPNOTSUPP, errno |-> e, made |-> {EOPNOTSUPP}]} ELSE Number(e)

\* The older verb answers for a library or a device that lacks the newer.
ibv_query_device_ex(e) ==
  IF OrLegacy("query_device_ex") = Linked THEN Number(e)
  ELSE UNION {IF r.ret \in {EOPNOTSUPP, ENOSYS} THEN Number(r.errno) ELSE {r} : r \in Number(e)}

\* ibv_post_*: the number, and perhaps errno; -1 and errno; the number negated.
PostNumber(e) ==
  {[ret |-> 0, errno |-> e, made |-> {}]} \cup
  UNION {{[ret |-> c, errno |-> e, made |-> {c}], [ret |-> c, errno |-> c, made |-> {c}],
          [ret |-> -1, errno |-> c, made |-> {c}], [ret |-> -c, errno |-> e, made |-> {c}]} : c \in Codes}

\* ibv_poll_cq: how many completions (none, some), or the number negated.
PollNumber(e) ==
  {[ret |-> n, errno |-> e, made |-> {}] : n \in 0..1} \cup
  {[ret |-> -c, errno |-> e, made |-> {c}] : c \in Codes}

Ok == [k |-> "ok", code |-> 0]
Os(code) == [k |-> "os", code |-> code]
Custom == [k |-> "custom", code |-> 0]
Panic == [k |-> "panic", code |-> 0]

Reports(via, r, out) ==
  /\ errno' = r.errno
  /\ last' = [via |-> via, made |-> r.made, out |-> out, refused |-> {}]
  /\ UNCHANGED lib

-------------------------------------------------------------------------------
(***************************************************************************)
(* error.rs                                                                 *)
(***************************************************************************)
ErrnoBeforeMut == errno
\* set_errno(0) before the call.
ErrnoBefore == 0

CreateResource(r) ==
  IF r.ok THEN Ok ELSE IF r.errno # 0 THEN Os(r.errno) ELSE Custom

FromErrno(ret) == IF ret = 0 THEN Ok ELSE Os(ret)

\* post_send, post_recv
Posted(r) == IF r.ret = 0 THEN Ok ELSE IF r.errno # 0 THEN Os(r.errno)
             ELSE Os(IF r.ret < 0 THEN -r.ret ELSE r.ret)

\* Other code of the thread, or a verb beside its result, leaves something in errno.
Foreign ==
  /\ errno' \in Codes
  /\ UNCHANGED <<lib, last, held>>

-------------------------------------------------------------------------------
(***************************************************************************)
(* The calls                                                                *)
(***************************************************************************)
AvailableMut ==                        \* without guard_on_unwind
  /\ ~list
  /\ \/ \E c \in Codes : Reports({}, [errno |-> c, made |-> {c}], Os(c)) /\ UNCHANGED held
     \/ \E n \in NumDevices :
          /\ Reports({}, [errno |-> errno, made |-> {}], IF n < 0 THEN Panic ELSE Ok)
          /\ list' = (n >= 0) /\ clists' = clists + 1
          /\ UNCHANGED <<ctx, dm, cdm, qp>>

\* DeviceList::available: last_error reads errno, which this function always sets.
\* The guard frees the array when the cast of the count panics.
Available ==
  /\ ~list
  /\ \/ \E c \in Codes : Reports({}, [errno |-> c, made |-> {c}], Os(c)) /\ UNCHANGED held
     \/ \E n \in NumDevices :
          /\ Reports({}, [errno |-> errno, made |-> {}], IF n < 0 THEN Panic ELSE Ok)
          /\ list' = (n >= 0) /\ clists' = IF n < 0 THEN clists ELSE clists + 1
          /\ UNCHANGED <<ctx, dm, cdm, qp>>

DropList ==
  /\ list /\ list' = FALSE /\ clists' = clists - 1
  /\ UNCHANGED <<lib, errno, last, ctx, dm, cdm, qp>>

\* Context::open of a device of the list
Open ==
  /\ list /\ ~ctx
  /\ \E r \in Pointer(Linked, ErrnoBefore) : Reports({}, r, CreateResource(r)) /\ ctx' = r.ok
  /\ UNCHANGED <<list, clists, dm, cdm, qp>>

\* The objects whose release is the same for every library.
Create(call) ==
  /\ ctx
  /\ \E r \in Pointer(call, ErrnoBefore) : Reports(call.via, r, CreateResource(r))
  /\ UNCHANGED held

AllocDm ==
  /\ ctx /\ ~dm
  /\ \E r \in Pointer(ibv_alloc_dm, ErrnoBefore) :
       /\ Reports(ibv_alloc_dm.via, r, CreateResource(r))
       /\ dm' = r.ok /\ cdm' = IF r.ok THEN "held" ELSE cdm
  /\ UNCHANGED <<list, clists, ctx, qp>>

\* Drop asserts that free_dm returned 0; the library keeps what it refuses to free.
DropDm ==
  /\ dm /\ dm' = FALSE
  /\ \E r \in Freed(ibv_free_dm, errno) :
       /\ Reports(ibv_free_dm.via, r, IF r.ret = 0 THEN Ok ELSE Panic)
       /\ cdm' = IF r.ret = 0 THEN "none" ELSE IF ibv_free_dm.missing THEN cdm ELSE "refused"
  /\ UNCHANGED <<list, clists, ctx, qp>>

\* The same for a memory window, of which there can be some once one was allocated.
DropMw ==
  /\ ctx /\ ~ibv_alloc_mw.missing
  /\ \E r \in Number(errno) :
       Reports(Unchecked("dealloc_mw").via, r, IF r.ret = 0 THEN Ok ELSE Panic)
  /\ UNCHANGED held

\* PortAttr::query, and the other verbs that return a number.
QueryPort ==
  /\ ctx
  /\ \E r \in Number(errno) : Reports(ibv_query_port.via, r, FromErrno(r.ret))
  /\ UNCHANGED held

\* DeviceAttr::query
QueryDevice ==
  /\ ctx
  /\ \E r \in ibv_query_device_ex(errno) :
       Reports(OrLegacy("query_device_ex").via, r, FromErrno(r.ret))
  /\ UNCHANGED held

\* GidEntry::query does not pass the number on.
QueryGid ==
  /\ ctx
  /\ \E r \in Number(errno) : Reports({}, r, IF r.ret = 0 THEN Ok ELSE Custom)
  /\ UNCHANGED held

Post(op) ==
  /\ qp # None
  /\ \E r \in PostNumber(ErrnoBefore) : Reports(Unchecked(op).via, r, Posted(r))
  /\ UNCHANGED held

\* CompletionQueue::req_notify
ReqNotify ==
  /\ ctx
  /\ \E r \in Number(errno) : Reports(Unchecked("req_notify_cq").via, r, FromErrno(r.ret))
  /\ UNCHANGED held

\* CompletionQueue::poll
Poll ==
  /\ ctx
  /\ \E r \in PollNumber(errno) :
       Reports(Unchecked("poll_cq").via, r, IF r.ret < 0 THEN FromErrno(-r.ret) ELSE Ok)
  /\ UNCHANGED held

\* QueuePair::query
QueryQp ==
  /\ qp # None
  /\ \E r \in Number(errno) : Reports({}, r, FromErrno(r.ret))
  /\ UNCHANGED held

-------------------------------------------------------------------------------
(***************************************************************************)
(* Bringing up a queue pair                                                 *)
(***************************************************************************)
\* modify_option!: the bit each setter adds to the mask.
MaskOf == [qp_state |-> "STATE", pkey_index |-> "PKEY_INDEX", port_num |-> "PORT",
           qkey |-> "QKEY", qp_access_flags |-> "ACCESS_FLAGS", path_mtu |-> "PATH_MTU",
           dest_qp_num |-> "DEST_QPN", rq_psn |-> "RQ_PSN",
           max_dest_rd_atomic |-> "MAX_DEST_RD_ATOMIC", min_rnr_timer |-> "MIN_RNR_TIMER",
           ah_attr |-> "AV", timeout |-> "TIMEOUT", retry_cnt |-> "RETRY_CNT",
           rnr_retry |-> "RNR_RETRY", sq_psn |-> "SQ_PSN", max_rd_atomic |-> "MAX_QP_RD_ATOMIC"]

\* ModifyOptions after the setters of `fields`: the attributes without a bit in the
\* mask are uninitialized.
ModifyOptions(to, fields) == [to |-> to, mask |-> {MaskOf[f] : f \in fields \cup {"qp_state"}}]

\* rc_build_qp of net.rs, initialize of main.rs
InitOptions(type) ==
  ModifyOptions("Initialize", {"pkey_index", "port_num",
                               IF type = "RC" THEN "qp_access_flags" ELSE "qkey"})

\* rc_activate and ud_activate
RtrOptions(type) ==
  ModifyOptions("ReadyToReceive",
    IF type = "UD" THEN {}
    ELSE {"path_mtu", "dest_qp_num", "rq_psn", "max_dest_rd_atomic", "min_rnr_timer", "ah_attr"})
RtsOptions(type) ==
  ModifyOptions("ReadyToSend",
    IF type = "UD" THEN {"sq_psn"}
    ELSE {"timeout", "retry_cnt", "rnr_retry", "sq_psn", "max_rd_atomic"})

\* A port and the entry of its GID table.  Either may be empty: an Ethernet port has
\* no LID, an InfiniBand port has none before it is configured, and interface_id is 0
\* in an entry of the table that nobody filled.
Port == [link : {"Ethernet", "Infiniband", "Unspecified"}, lid : 0..1, interface_id : 0..1]

LocalDestMut(p) == TRUE                        \* the LID is not checked
\* local_dest: a port without a LID that needs one has no address to give.
LocalDest(p) == ~(p.link # "Ethernet" /\ p.lid = 0)

\* The address the peer makes of it: a route by LID, or by GID.
AhAttr(p) == [dlid |-> p.lid, is_global |-> p.interface_id # 0]

\* What the device demands for a transition, and what it takes besides.
Required ==
  [RC |-> [Initialize |-> {"STATE", "PKEY_INDEX", "PORT", "ACCESS_FLAGS"},
           ReadyToReceive |-> {"STATE", "AV", "PATH_MTU", "DEST_QPN", "RQ_PSN",
                               "MAX_DEST_RD_ATOMIC", "MIN_RNR_TIMER"},
           ReadyToSend |-> {"STATE", "TIMEOUT", "RETRY_CNT", "RNR_RETRY", "SQ_PSN",
                            "MAX_QP_RD_ATOMIC"}],
   UD |-> [Initialize |-> {"STATE", "PKEY_INDEX", "PORT", "QKEY"},
           ReadyToReceive |-> {"STATE"},
           ReadyToSend |-> {"STATE", "SQ_PSN"}]]
Optional ==
  [RC |-> [Initialize |-> {}, ReadyToReceive |-> {"ACCESS_FLAGS", "PKEY_INDEX"},
           ReadyToSend |-> {"ACCESS_FLAGS", "MIN_RNR_TIMER"}],
   UD |-> [Initialize |-> {}, ReadyToReceive |-> {"PKEY_INDEX", "QKEY"}, ReadyToSend |-> {"QKEY"}]]

Follows == [Initialize |-> "Reset", ReadyToReceive |-> "Initialize", ReadyToSend |-> "ReadyToReceive"]

\* An address: for another one there is neither a path nor a router.
Routable(route) == route.dlid # 0 \/ route.is_global

Takes(o, route) ==
  /\ qp.state = Follows[o.to]
  /\ Required[qp.type][o.to] \subseteq o.mask
  /\ o.mask \subseteq Required[qp.type][o.to] \cup Optional[qp.type][o.to]
  /\ "AV" \in o.mask => Routable(route)

\* QueuePair::create with a protection domain, as both examples do.
BuildQp(type) ==
  LET call == ibv_create_qp_ex({"PD"}) IN
  /\ ctx /\ qp = None
  /\ \E r \in Pointer(call, ErrnoBefore) :
       /\ Reports(call.via, r, CreateResource(r))
       /\ qp' = IF r.ok THEN [type |-> type, state |-> "Reset"] ELSE None
  /\ UNCHANGED <<list, clists, ctx, dm, cdm>>

NoPort == [link |-> "Unspecified", lid |-> 0, interface_id |-> 0]

\* QueuePair::modify, with the address of a port; `?` drops the queue pair with the error.
Modify(o, p) ==
  /\ \E r \in Number(errno) :
       /\ r.ret = 0 => Takes(o, AhAttr(p))
       /\ errno' = r.errno
       /\ last' = [via |-> {}, made |-> r.made, out |-> FromErrno(r.ret),
                   refused |-> IF Takes(o, AhAttr(p)) THEN {} ELSE {[what |-> o.to, port |-> p]}]
       /\ qp' = IF r.ret = 0 THEN [qp EXCEPT !.state = o.to] ELSE None
  /\ UNCHANGED <<lib, list, clists, ctx, dm, cdm>>

Initialize == qp # None /\ qp.state = "Reset" /\ Modify(InitOptions(qp.type), NoPort)
\* With the Dest a peer made of its port.
Activate(p) ==
  /\ qp # None /\ qp.state = "Initialize" /\ LocalDest(p)
  /\ Modify(RtrOptions(qp.type), p)
ReadyToSend == qp # None /\ qp.state = "ReadyToReceive" /\ Modify(RtsOptions(qp.type), NoPort)

\* The end of ud_activate: AddressHandle::create with the Dest.
CreateAh(p) ==
  /\ qp # None /\ qp.type = "UD" /\ qp.state = "ReadyToSend" /\ LocalDest(p)
  /\ \E r \in Pointer(Linked, ErrnoBefore) :
       /\ r.ok => Routable(AhAttr(p))
       /\ errno' = r.errno
       /\ last' = [via |-> {}, made |-> r.made, out |-> CreateResource(r),
                   refused |-> IF Routable(AhAttr(p)) THEN {} ELSE {[what |-> "AddressHandle", port |-> p]}]
       /\ qp' = IF r.ok THEN qp ELSE None
  /\ UNCHANGED <<lib, list, clists, ctx, dm, cdm>>

DropQp ==
  /\ qp # None /\ qp' = None
  /\ UNCHANGED <<lib, errno, last, list, clists, ctx, dm, cdm>>

-------------------------------------------------------------------------------
Outcome == [k : {"ok", "os", "custom", "panic"}, code : Codes \cup {0}]

TypeOK ==
  /\ lib.sz \in 0..Len(Fields) /\ lib.ops \subseteq Inside(lib.sz)
  /\ errno \in Codes \cup {0}
  /\ last.via \subseteq Range(Fields) \cup ContextOps /\ last.made \subseteq Codes
  /\ last.out \in Outcome /\ (last.out.k = "os") = (last.out.code # 0)
  /\ list \in BOOLEAN /\ ctx \in BOOLEAN
  /\ dm \in BOOLEAN /\ cdm \in {"none", "held", "refused"}
  /\ clists \in Nat
  /\ qp = None \/ qp \in [type : {"RC", "UD"},
                          state : {"Reset", "Initialize", "ReadyToReceive", "ReadyToSend"}]

Init ==
  /\ lib \in Libs
  /\ errno = 0
  /\ last = [via |-> {}, made |-> {}, out |-> Ok, refused |-> {}]
  /\ list = FALSE /\ clists = 0 /\ ctx = FALSE
  /\ dm = FALSE /\ cdm = "none" /\ qp = None

Creates ==
  \/ Create(Linked) \/ Create(ibv_create_cq_ex) \/ Create(ibv_alloc_mw)
  \/ \E mask \in SUBSET {"PD"} : Create(ibv_create_qp_ex(mask)) \/ Create(ibv_create_srq_ex(mask, "BASIC"))

Next ==
  \/ Foreign
  \/ Available \/ DropList \/ Open
  \/ Creates \/ AllocDm \/ DropDm \/ DropMw
  \/ QueryPort \/ QueryDevice \/ QueryGid
  \/ \E type \in {"RC", "UD"} : BuildQp(type)
  \/ Initialize \/ (\E p \in Port : Activate(p) \/ CreateAh(p)) \/ ReadyToSend
  \/ QueryQp \/ DropQp \/ ReqNotify \/ Poll
  \/ \E op \in {"post_send", "post_recv"} : Post(op)

Spec == Init /\ [][Next]_vars

-------------------------------------------------------------------------------
(***************************************************************************)
(* Properties                                                               *)
(***************************************************************************)
\* An OS error the crate reports was produced by the call that reports it, and not
\* left in errno by an earlier call or by other code of the thread; a call that
\* failed never reports error 0.
ErrorIsOwn == last.out.k = "os" => last.out.code \in last.made

\* Whatever the age of the installed library, a wrapper calls only a function the
\* library has: never through the memory in front of a shorter table, and never an
\* empty entry of ctx.ops, as long as providers fill those of the data path.
NoWildCall == last.via \subseteq lib.ops \cup lib.context

\* The library holds what the program holds: a panic after the device list was
\* allocated frees it, and device memory that a library of some age could allocate
\* it can free.  It keeps device memory the program has dropped only if it refused to
\* free it, on which the drop panics.
FreedOnce ==
  /\ clists = (IF list THEN 1 ELSE 0)
  /\ cdm = "held" <=> dm

\* The device refuses what the two examples ask of it, for its attributes, in one case
\* only: the peer's port is an Ethernet port with an empty entry in its GID table, which
\* local_dest lets through.  All other transitions of either service set what the device
\* demands and no more than it takes.  The refusal is an error at the end that got the
\* address, and its queue pair is gone.
OnlyEmptyGidRefused ==
  \A x \in last.refused :
    /\ x.what \in {"ReadyToReceive", "AddressHandle"}
    /\ x.port = [link |-> "Ethernet", lid |-> 0, interface_id |-> 0]
    /\ last.out.k \in {"os", "custom"} /\ qp = None
===============================================================================
