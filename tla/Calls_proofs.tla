----------------------------- MODULE Calls_proofs -----------------------------
(***************************************************************************)
(* Proofs about Calls, for any set of error numbers that has the three the  *)
(* code names, any device counts, and libraries of any age that leave out   *)
(* any functions within their tables.                                       *)
(*                                                                          *)
(* The inductive invariant Coherent is about three things: the last call,   *)
(* what the program and the library hold, and which libraries there can be. *)
(***************************************************************************)
EXTENDS Calls, TLAPS

\* What the last call says of itself.
LastOK ==
  /\ errno \in Codes \cup {0}
  /\ last.via \subseteq lib.ops \cup lib.context
  /\ last.made \subseteq Codes
  /\ last.out \in Outcome /\ (last.out.k = "os") = (last.out.code # 0)
  /\ ErrorIsOwn

\* The lists, and the device memory: the library that has some can allocate it.
ListOK == list \in BOOLEAN /\ clists = (IF list THEN 1 ELSE 0)
DmOK ==
  /\ dm \in BOOLEAN /\ cdm \in {"none", "held", "refused"}
  /\ cdm = "held" <=> dm
  /\ dm => "alloc_dm" \in lib.ops
QpType == [type : {"RC", "UD"}, state : {"Reset", "Initialize", "ReadyToReceive", "ReadyToSend"}]
QpOK == qp = None \/ qp \in QpType

Coherent ==
  /\ lib \in Libs
  /\ LastOK /\ OnlyEmptyGidRefused
  /\ ctx \in BOOLEAN /\ ListOK /\ DmOK /\ QpOK

-------------------------------------------------------------------------------
(***************************************************************************)
(* The function table                                                       *)
(***************************************************************************)
LEMMA FieldsDomain == DOMAIN Fields = 1..7 /\ Len(Fields) = 7
BY DEF Fields

\* In verbs_context alloc_dm lies in front of free_dm.
LEMMA DmFields ==
  /\ FromEnd("alloc_dm") = 5 /\ FromEnd("free_dm") = 4
  /\ "free_dm" \in Range(Fields)
<1>1. \A i \in 1..7 : Fields[i] = "alloc_dm" <=> i = 2 BY DEF Fields
<1>2. \A i \in 1..7 : Fields[i] = "free_dm" <=> i = 3 BY DEF Fields
<1>3. (CHOOSE i \in DOMAIN Fields : Fields[i] = "alloc_dm") = 2 BY <1>1, FieldsDomain
<1>4. (CHOOSE i \in DOMAIN Fields : Fields[i] = "free_dm") = 3 BY <1>2, FieldsDomain
<1>5. 3 \in DOMAIN Fields /\ Fields[3] = "free_dm" BY <1>2, FieldsDomain
<1>6. "free_dm" \in Range(Fields) BY <1>5 DEF Range
<1>7. FromEnd("alloc_dm") = Len(Fields) - 2 BY <1>3, Zenon DEF FromEnd
<1>8. FromEnd("free_dm") = Len(Fields) - 3 BY <1>4, Zenon DEF FromEnd
<1> QED BY <1>6, <1>7, <1>8, FieldsDomain

\* A library with alloc_dm has free_dm: its table is a tail of the struct.
LEMMA FreeDmPresent ==
  ASSUME NEW l \in Libs, "alloc_dm" \in l.ops
  PROVE  "free_dm" \in l.ops /\ l.abi /\ FromEnd("free_dm") < l.sz
<1>1. l.sz \in 0..7 /\ l.ops \subseteq Inside(l.sz) BY FieldsDomain DEF Libs
<1>2. FromEnd("alloc_dm") < l.sz BY <1>1 DEF Inside
<1>3. FromEnd("free_dm") < l.sz BY <1>1, <1>2, DmFields
<1>4. "free_dm" \in Inside(l.sz) BY <1>3, DmFields DEF Inside
<1>5. l.abi BY <1>1, <1>3, DmFields DEF Libs
<1> QED BY <1>3, <1>4, <1>5 DEF Libs

\* verbs_get_ctx_op! finds functions of the library alone.
LEMMA FoundIsPresent ==
  ASSUME lib \in Libs, NEW op \in Range(Fields), VerbsGetCtxOp(op)
  PROVE  op \in lib.ops
BY DEF VerbsGetCtxOp, IsNone, Inside

LEMMA TablePresent ==
  ASSUME lib \in Libs, NEW op \in Range(Fields)
  PROVE  Table(op).via \subseteq lib.ops /\ OrLegacy(op).via \subseteq lib.ops
BY FoundIsPresent DEF Table, OrLegacy, Linked

\* The entries of ctx.ops that are called unchecked.
LEMMA UncheckedPresent ==
  ASSUME lib \in Libs
  PROVE  /\ \A op \in DataPath : Unchecked(op).via \subseteq lib.context
         /\ ibv_alloc_mw.via \subseteq lib.context
         /\ ~ibv_alloc_mw.missing => Unchecked("dealloc_mw").via \subseteq lib.context
<1>1. CASE "alloc_mw" \in lib.context BY <1>1 DEF Libs, Unchecked, ibv_alloc_mw
<1>2. CASE "alloc_mw" \notin lib.context BY <1>2 DEF Libs, Unchecked, ibv_alloc_mw
<1> QED BY <1>1, <1>2

LEMMA FieldNames == {"query_port", "alloc_dm", "free_dm", "create_cq_ex", "query_device_ex",
                     "create_qp_ex", "create_srq_ex"} \subseteq Range(Fields)
<1>1. /\ Fields[1] = "query_port" /\ Fields[2] = "alloc_dm" /\ Fields[3] = "free_dm"
      /\ Fields[4] = "create_cq_ex" /\ Fields[5] = "query_device_ex"
      /\ Fields[6] = "create_qp_ex" /\ Fields[7] = "create_srq_ex"
  BY DEF Fields
<1> QED BY <1>1, FieldsDomain DEF Range

-------------------------------------------------------------------------------
(***************************************************************************)
(* What the C side answers, and what the crate makes of it                  *)
(***************************************************************************)
\* An answer whose error, if the crate reports one, is its own.
Answer(r, out) ==
  /\ r.errno \in Codes \cup {0} /\ r.made \subseteq Codes
  /\ out \in Outcome /\ (out.k = "os") = (out.code # 0)
  /\ out.k = "os" => out.code \in r.made

LEMMA CodesNat == 0 \notin Codes /\ Codes \subseteq Nat /\ EOPNOTSUPP \in Codes
BY CallsAssumption DEF CallsAssumption

LEMMA Outcomes ==
  /\ Ok \in Outcome /\ Custom \in Outcome /\ Panic \in Outcome
  /\ \A c \in Codes : Os(c) \in Outcome
BY DEF Ok, Custom, Panic, Os, Outcome

\* set_errno(0) makes the errno of a failed call its own.
LEMMA PointerAnswer ==
  ASSUME NEW call, NEW r \in Pointer(call, ErrnoBefore)
  PROVE  Answer(r, CreateResource(r)) /\ r.ok \in BOOLEAN
<1>1. CASE r = [ok |-> FALSE, errno |-> EOPNOTSUPP, made |-> {EOPNOTSUPP}]
  BY <1>1, CodesNat, Outcomes DEF Answer, CreateResource, Os
<1>2. CASE \E x \in Codes \cup {0} : r = [ok |-> TRUE, errno |-> x, made |-> {}]
  BY <1>2, CodesNat, Outcomes DEF Answer, CreateResource, Ok
<1>3. CASE r = [ok |-> FALSE, errno |-> 0, made |-> {}]
  BY <1>3, CodesNat, Outcomes DEF Answer, CreateResource, Custom
<1>4. CASE \E c \in Codes : r = [ok |-> FALSE, errno |-> c, made |-> {c}]
  BY <1>4, CodesNat, Outcomes DEF Answer, CreateResource, Os
<1> QED BY <1>1, <1>2, <1>3, <1>4 DEF Pointer, ErrnoBefore

LEMMA NumberAnswer ==
  ASSUME NEW e \in Codes \cup {0}, NEW r \in Number(e)
  PROVE  /\ r.errno \in Codes \cup {0} /\ r.made \subseteq Codes /\ r.ret \in Codes \cup {0}
         /\ Answer(r, FromErrno(r.ret))
<1>1. PICK n \in Codes \cup {0}, x \in Codes \cup {0} :
        r = [ret |-> n, errno |-> x, made |-> {n} \ {0}]
  BY DEF Number
<1>2. r.made \subseteq Codes /\ (n # 0 => n \in r.made) BY <1>1
<1>3. CASE n = 0 BY <1>1, <1>2, <1>3, Outcomes DEF Answer, FromErrno, Ok
<1>4. CASE n # 0 BY <1>1, <1>2, <1>4, Outcomes DEF Answer, FromErrno, Os
<1> QED BY <1>1, <1>2, <1>3, <1>4

\* Also when the older verb answers.
LEMMA QueryDeviceAnswer ==
  ASSUME NEW e \in Codes \cup {0}, NEW r \in ibv_query_device_ex(e)
  PROVE  Answer(r, FromErrno(r.ret))
<1>1. CASE r \in Number(e) BY <1>1, NumberAnswer
<1>2. CASE \E q \in Number(e) : r \in Number(q.errno) BY <1>2, NumberAnswer
<1> QED BY <1>1, <1>2 DEF ibv_query_device_ex

\* The three conventions of the drivers for post_send and post_recv.
LEMMA PostAnswer ==
  ASSUME NEW r \in PostNumber(ErrnoBefore)
  PROVE  Answer(r, Posted(r))
<1> USE DEF Answer, Posted
<1>1. CASE \E x \in Codes \cup {0} : r = [ret |-> 0, errno |-> x, made |-> {}]
  BY <1>1, Outcomes DEF Ok
<1>2. ASSUME NEW c \in Codes, r = [ret |-> c, errno |-> 0, made |-> {c}]
      PROVE  Answer(r, Posted(r))
  <2>1. c # 0 /\ ~(c < 0) BY CodesNat
  <2> QED BY <1>2, <2>1, Outcomes DEF Os
<1>3. ASSUME NEW c \in Codes, NEW n \in {c, -1}, r = [ret |-> n, errno |-> c, made |-> {c}]
      PROVE  Answer(r, Posted(r))
  <2>1. c # 0 /\ n # 0 BY CodesNat
  <2> QED BY <1>3, <2>1, Outcomes DEF Os
<1>4. ASSUME NEW c \in Codes, r = [ret |-> -c, errno |-> 0, made |-> {c}]
      PROVE  Answer(r, Posted(r))
  <2>1. c # 0 /\ -c # 0 /\ -c < 0 /\ -(-c) = c BY CodesNat
  <2> QED BY <1>4, <2>1, Outcomes DEF Os
<1> QED BY <1>1, <1>2, <1>3, <1>4 DEF PostNumber, ErrnoBefore

\* A negated number.
LEMMA PollAnswer ==
  ASSUME NEW e \in Codes \cup {0}, NEW r \in PollNumber(e)
  PROVE  Answer(r, IF r.ret < 0 THEN FromErrno(-r.ret) ELSE Ok)
<1>1. CASE \E n \in 0..1, x \in Codes \cup {0} : r = [ret |-> n, errno |-> x, made |-> {}]
  BY <1>1, Outcomes DEF Answer, Ok
<1>2. ASSUME NEW c \in Codes, NEW x \in Codes \cup {0}, r = [ret |-> -c, errno |-> x, made |-> {c}]
      PROVE  Answer(r, IF r.ret < 0 THEN FromErrno(-r.ret) ELSE Ok)
  <2>1. c # 0 /\ -c < 0 /\ -(-c) = c BY CodesNat
  <2>2. FromErrno(-r.ret) = Os(c) /\ r.ret < 0 BY <1>2, <2>1 DEF FromErrno
  <2> QED BY <1>2, <2>1, <2>2, Outcomes DEF Answer, Os
<1> QED BY <1>1, <1>2 DEF PollNumber

\* A call that reports such an answer.
LEMMA ReportsOK ==
  ASSUME NEW via, NEW r, NEW out, via \subseteq lib.ops \cup lib.context, Answer(r, out), Reports(via, r, out)
  PROVE  LastOK' /\ OnlyEmptyGidRefused' /\ UNCHANGED lib
BY DEF Answer, Reports, LastOK, ErrorIsOwn, OnlyEmptyGidRefused

-------------------------------------------------------------------------------
(***************************************************************************)
(* The queue pair of the examples                                           *)
(***************************************************************************)
\* The masks the setters make are what the device demands.
LEMMA InitTaken == ASSUME qp \in QpType, qp.state = "Reset" PROVE Takes(InitOptions(qp.type), AhAttr(NoPort))
<1>1. qp.type \in {"RC", "UD"} BY DEF QpType
<1> DEFINE o == InitOptions(qp.type)
<1>2. o.to = "Initialize" /\ Follows["Initialize"] = "Reset"
  BY DEF InitOptions, ModifyOptions, Follows
<1>3. CASE qp.type = "RC"
  <2>1. o.mask = {"STATE", "PKEY_INDEX", "PORT", "ACCESS_FLAGS"}
    BY <1>3 DEF InitOptions, ModifyOptions, MaskOf
  <2>2. Required[qp.type]["Initialize"] = {"STATE", "PKEY_INDEX", "PORT", "ACCESS_FLAGS"}
    BY <1>3 DEF Required
  <2> HIDE DEF o
  <2> QED BY <1>2, <2>1, <2>2 DEF Takes, o
<1>4. CASE qp.type = "UD"
  <2>1. o.mask = {"STATE", "PKEY_INDEX", "PORT", "QKEY"}
    BY <1>4 DEF InitOptions, ModifyOptions, MaskOf
  <2>2. Required[qp.type]["Initialize"] = {"STATE", "PKEY_INDEX", "PORT", "QKEY"}
    BY <1>4 DEF Required
  <2> HIDE DEF o
  <2> QED BY <1>2, <2>1, <2>2 DEF Takes, o
<1> QED BY <1>1, <1>3, <1>4

\* A port that local_dest lets through has a route, but for this one.
EmptyGid == [link |-> "Ethernet", lid |-> 0, interface_id |-> 0]

LEMMA HasRoute ==
  ASSUME NEW p \in Port, LocalDest(p), p # EmptyGid
  PROVE  Routable(AhAttr(p))
<1>1. AhAttr(p).dlid = p.lid BY DEF AhAttr
<1>2. AhAttr(p).is_global = (p.interface_id # 0) BY Zenon DEF AhAttr
<1>3. CASE p.lid # 0 BY <1>1, <1>3 DEF Routable
<1>4. CASE p.lid = 0
  <2>1. p.link = "Ethernet" BY <1>4 DEF LocalDest
  <2>2. p.interface_id # 0 BY <1>4, <2>1 DEF Port, EmptyGid
  <2>3. AhAttr(p).is_global BY <1>2, <2>2, Zenon
  <2> QED BY <2>3 DEF Routable
<1> QED BY <1>3, <1>4

LEMMA RtrTaken ==
  ASSUME qp \in QpType, qp.state = "Initialize", NEW p \in Port, LocalDest(p), p # EmptyGid
  PROVE  Takes(RtrOptions(qp.type), AhAttr(p))
<1>1. qp.type \in {"RC", "UD"} BY DEF QpType
<1> DEFINE o == RtrOptions(qp.type)
<1>2. o.to = "ReadyToReceive" /\ Follows["ReadyToReceive"] = "Initialize"
  BY DEF RtrOptions, ModifyOptions, Follows
<1>3. CASE qp.type = "RC"
  <2> DEFINE all == {"STATE", "AV", "PATH_MTU", "DEST_QPN", "RQ_PSN", "MAX_DEST_RD_ATOMIC", "MIN_RNR_TIMER"}
  <2>1. o.mask = all BY <1>3 DEF RtrOptions, ModifyOptions, MaskOf
  <2>2. Required[qp.type]["ReadyToReceive"] = all BY <1>3 DEF Required
  <2> HIDE DEF o, all
  <2> QED BY <1>2, <2>1, <2>2, HasRoute DEF Takes, o
<1>4. CASE qp.type = "UD"
  <2>1. o.mask = {"STATE"} BY <1>4 DEF RtrOptions, ModifyOptions, MaskOf
  <2>2. Required[qp.type]["ReadyToReceive"] = {"STATE"} BY <1>4 DEF Required
  <2> HIDE DEF o
  <2> QED BY <1>2, <2>1, <2>2, HasRoute DEF Takes, o
<1> QED BY <1>1, <1>3, <1>4

LEMMA RtsTaken ==
  ASSUME qp \in QpType, qp.state = "ReadyToReceive"
  PROVE  Takes(RtsOptions(qp.type), AhAttr(NoPort))
<1>1. qp.type \in {"RC", "UD"} BY DEF QpType
<1> DEFINE o == RtsOptions(qp.type)
<1>2. o.to = "ReadyToSend" /\ Follows["ReadyToSend"] = "ReadyToReceive"
  BY DEF RtsOptions, ModifyOptions, Follows
<1>3. CASE qp.type = "RC"
  <2> DEFINE all == {"STATE", "TIMEOUT", "RETRY_CNT", "RNR_RETRY", "SQ_PSN", "MAX_QP_RD_ATOMIC"}
  <2>1. o.mask = all BY <1>3 DEF RtsOptions, ModifyOptions, MaskOf
  <2>2. Required[qp.type]["ReadyToSend"] = all BY <1>3 DEF Required
  <2>3. "AV" \notin all OBVIOUS
  <2> HIDE DEF o, all
  <2> QED BY <1>2, <2>1, <2>2, <2>3 DEF Takes, o
<1>4. CASE qp.type = "UD"
  <2>1. o.mask = {"STATE", "SQ_PSN"} BY <1>4 DEF RtsOptions, ModifyOptions, MaskOf
  <2>2. Required[qp.type]["ReadyToSend"] = {"STATE", "SQ_PSN"} BY <1>4 DEF Required
  <2> HIDE DEF o
  <2> QED BY <1>2, <2>1, <2>2 DEF Takes, o
<1> QED BY <1>1, <1>3, <1>4

LEMMA ModifyCoherent ==
  ASSUME Coherent, qp \in QpType, NEW o, NEW p, Modify(o, p),
         o.to \in {"Initialize", "ReadyToReceive", "ReadyToSend"},
         Takes(o, AhAttr(p)) \/ (o.to = "ReadyToReceive" /\ p = EmptyGid)
  PROVE  Coherent'
<1> USE DEF Coherent
<1> DEFINE taken == Takes(o, AhAttr(p))
           refused == IF taken THEN {} ELSE {[what |-> o.to, port |-> p]}
<1>1. PICK r \in Number(errno) :
        /\ r.ret = 0 => taken
        /\ errno' = r.errno
        /\ last' = [via |-> {}, made |-> r.made, out |-> FromErrno(r.ret), refused |-> refused]
        /\ qp' = IF r.ret = 0 THEN [qp EXCEPT !.state = o.to] ELSE None
  BY DEF Modify
<1>2. UNCHANGED <<lib, list, clists, ctx, dm, cdm>> BY DEF Modify
<1>3. Answer(r, FromErrno(r.ret)) BY NumberAnswer DEF LastOK
<1> HIDE DEF taken
<1>4. LastOK' BY <1>1, <1>2, <1>3 DEF Answer, LastOK, ErrorIsOwn
<1>5. QpOK' BY <1>1 DEF QpOK, QpType
<1>6. OnlyEmptyGidRefused'
  <2>1. CASE taken BY <1>1, <2>1 DEF OnlyEmptyGidRefused
  <2>2. CASE ~taken
    <3>1. o.to = "ReadyToReceive" /\ p = EmptyGid BY <2>2 DEF taken
    <3>2. last'.out.k = "os" /\ qp' = None BY <1>1, <2>2 DEF FromErrno, Os
    <3>3. last'.refused = {[what |-> "ReadyToReceive", port |-> EmptyGid]} BY <1>1, <2>2, <3>1
    <3> QED BY <3>2, <3>3 DEF OnlyEmptyGidRefused, EmptyGid
  <2> QED BY <2>1, <2>2
<1>7. ListOK' /\ DmOK' BY <1>2 DEF ListOK, DmOK
<1> QED BY <1>2, <1>4, <1>5, <1>6, <1>7

LEMMA CreateAhCoherent == ASSUME Coherent, NEW p \in Port, CreateAh(p) PROVE Coherent'
<1> USE DEF Coherent
<1> DEFINE routed == Routable(AhAttr(p))
           refused == IF routed THEN {} ELSE {[what |-> "AddressHandle", port |-> p]}
<1>1. PICK r \in Pointer(Linked, ErrnoBefore) :
        /\ r.ok => routed
        /\ errno' = r.errno
        /\ last' = [via |-> {}, made |-> r.made, out |-> CreateResource(r), refused |-> refused]
        /\ qp' = IF r.ok THEN qp ELSE None
  BY DEF CreateAh
<1>2. UNCHANGED <<lib, list, clists, ctx, dm, cdm>> BY DEF CreateAh
<1>3. Answer(r, CreateResource(r)) BY PointerAnswer
<1>4. p = EmptyGid \/ routed BY HasRoute DEF CreateAh
<1> HIDE DEF routed
<1>5. LastOK' BY <1>1, <1>2, <1>3 DEF Answer, LastOK, ErrorIsOwn
<1>6. QpOK' BY <1>1 DEF QpOK
<1>7. OnlyEmptyGidRefused'
  <2>1. CASE routed BY <1>1, <2>1 DEF OnlyEmptyGidRefused
  <2>2. CASE ~routed
    <3>1. last'.out.k \in {"os", "custom"} /\ qp' = None
      BY <1>1, <2>2 DEF CreateResource, Os, Custom
    <3>2. last'.refused = {[what |-> "AddressHandle", port |-> EmptyGid]} BY <1>1, <1>4, <2>2
    <3> QED BY <3>1, <3>2 DEF OnlyEmptyGidRefused, EmptyGid
  <2> QED BY <2>1, <2>2
<1>8. ListOK' /\ DmOK' BY <1>2 DEF ListOK, DmOK
<1> QED BY <1>2, <1>5, <1>6, <1>7, <1>8

-------------------------------------------------------------------------------
(***************************************************************************)
(* The steps                                                                *)
(***************************************************************************)
LEMMA HeldUnchanged ==
  ASSUME Coherent, LastOK', OnlyEmptyGidRefused', UNCHANGED lib, UNCHANGED held
  PROVE  Coherent'
<1> UNCHANGED <<list, clists, ctx, dm, cdm, qp>> BY DEF held
<1> QED BY DEF Coherent, ListOK, DmOK, QpOK

LEMMA AvailableCoherent == ASSUME Coherent, Available PROVE Coherent'
<1>0. {} \subseteq lib.ops \cup lib.context OBVIOUS
<1>1. ASSUME NEW c \in Codes, Reports({}, [errno |-> c, made |-> {c}], Os(c)), UNCHANGED held
      PROVE  Coherent'
  <2>1. Answer([errno |-> c, made |-> {c}], Os(c)) BY CodesNat, Outcomes DEF Answer, Os
  <2> QED BY <1>0, <1>1, <2>1, ReportsOK, HeldUnchanged
<1>2. ASSUME NEW n \in NumDevices, ~list,
             Reports({}, [errno |-> errno, made |-> {}], IF n < 0 THEN Panic ELSE Ok),
             list' = (n >= 0), clists' = IF n < 0 THEN clists ELSE clists + 1,
             UNCHANGED <<ctx, dm, cdm, qp>>
      PROVE  Coherent'
  <2>1. errno \in Codes \cup {0} BY DEF Coherent, LastOK
  <2>2. Answer([errno |-> errno, made |-> {}], IF n < 0 THEN Panic ELSE Ok)
    BY <2>1, Outcomes DEF Answer, Panic, Ok
  <2>3. LastOK' /\ OnlyEmptyGidRefused' /\ UNCHANGED lib BY <1>0, <1>2, <2>2, ReportsOK
  <2>4. n \in Int BY CallsAssumption DEF CallsAssumption
  <2>5. ListOK'
    <3>1. clists = 0 BY <1>2 DEF Coherent, ListOK
    <3>2. CASE n < 0
      <4>1. (n >= 0) = FALSE BY <2>4, <3>2
      <4>2. clists' = 0 BY <1>2, <3>1, <3>2
      <4> QED BY <1>2, <4>1, <4>2, Zenon DEF ListOK
    <3>3. CASE ~(n < 0)
      <4>1. (n >= 0) = TRUE BY <2>4, <3>3
      <4>2. clists' = 1 BY <1>2, <3>1, <3>3
      <4> QED BY <1>2, <4>1, <4>2, Zenon DEF ListOK
    <3> QED BY <3>2, <3>3
  <2> QED BY <1>2, <2>3, <2>5 DEF Coherent, DmOK, QpOK
<1> QED BY <1>1, <1>2 DEF Available

LEMMA DropListCoherent == ASSUME Coherent, DropList PROVE Coherent'
<1>0. clists = 1 BY DEF Coherent, ListOK, DropList
<1>1. clists' = 0 BY <1>0 DEF DropList
<1>2. ListOK' BY <1>1, Zenon DEF ListOK, DropList
<1>3. LastOK' /\ OnlyEmptyGidRefused'
  BY DEF Coherent, LastOK, ErrorIsOwn, OnlyEmptyGidRefused, DropList
<1> QED BY <1>2, <1>3 DEF Coherent, DropList, DmOK, QpOK

LEMMA OpenCoherent == ASSUME Coherent, Open PROVE Coherent'
<1>1. PICK r \in Pointer(Linked, ErrnoBefore) : Reports({}, r, CreateResource(r)) /\ ctx' = r.ok
  BY DEF Open
<1>2. Answer(r, CreateResource(r)) /\ r.ok \in BOOLEAN BY PointerAnswer
<1>3. LastOK' /\ OnlyEmptyGidRefused' /\ UNCHANGED lib BY <1>1, <1>2, ReportsOK
<1> QED BY <1>1, <1>2, <1>3 DEF Coherent, Open, ListOK, DmOK, QpOK

LEMMA CreateCoherent ==
  ASSUME Coherent, NEW call, call.via \subseteq lib.ops \cup lib.context, Create(call) PROVE Coherent'
<1>1. PICK r \in Pointer(call, ErrnoBefore) : Reports(call.via, r, CreateResource(r))
  BY DEF Create
<1>2. LastOK' /\ OnlyEmptyGidRefused' /\ UNCHANGED lib BY <1>1, PointerAnswer, ReportsOK
<1> QED BY <1>2, HeldUnchanged DEF Create

LEMMA CreatesCoherent == ASSUME Coherent, Creates PROVE Coherent'
<1>1. lib \in Libs BY DEF Coherent
<1>2. Linked.via \subseteq lib.ops BY DEF Linked
<1>3. ibv_create_cq_ex.via \subseteq lib.ops BY <1>1, FieldNames, TablePresent DEF ibv_create_cq_ex
<1>4. ibv_alloc_mw.via \subseteq lib.context BY <1>1, UncheckedPresent
<1>5. \A mask : ibv_create_qp_ex(mask).via \subseteq lib.ops
  BY <1>1, <1>2, FieldNames, TablePresent DEF ibv_create_qp_ex
<1>6. \A mask : ibv_create_srq_ex(mask, "BASIC").via \subseteq lib.ops
  BY <1>1, <1>2, FieldNames, TablePresent DEF ibv_create_srq_ex
<1> QED BY <1>2, <1>3, <1>4, <1>5, <1>6, CreateCoherent DEF Creates

\* Device memory is there only when the library has the function.
LEMMA AllocDmCoherent == ASSUME Coherent, AllocDm PROVE Coherent'
<1>1. PICK r \in Pointer(ibv_alloc_dm, ErrnoBefore) :
        /\ Reports(ibv_alloc_dm.via, r, CreateResource(r))
        /\ dm' = r.ok /\ cdm' = IF r.ok THEN "held" ELSE cdm
  BY DEF AllocDm
<1>2. Answer(r, CreateResource(r)) /\ r.ok \in BOOLEAN BY PointerAnswer
<1>3. ibv_alloc_dm.via \subseteq lib.ops BY FieldNames, TablePresent DEF ibv_alloc_dm, Coherent
<1>4. LastOK' /\ OnlyEmptyGidRefused' /\ UNCHANGED lib BY <1>1, <1>2, <1>3, ReportsOK
<1>5. r.ok => "alloc_dm" \in lib.ops
  <2>1. ASSUME ~VerbsGetCtxOp("alloc_dm") PROVE r.ok = FALSE
    BY <2>1 DEF ibv_alloc_dm, Table, Pointer
  <2> QED BY <2>1, FieldNames, FoundIsPresent DEF Coherent
<1>6. DmOK'
  <2>1. cdm \in {"none", "refused"} BY DEF Coherent, DmOK, AllocDm
  <2>2. CASE r.ok BY <1>1, <1>4, <1>5, <2>2 DEF DmOK
  <2>3. CASE ~r.ok BY <1>1, <1>2, <2>1, <2>3 DEF DmOK
  <2> QED BY <2>2, <2>3
<1> QED BY <1>4, <1>6 DEF Coherent, AllocDm, ListOK, QpOK

\* And then the function that frees it is found.
LEMMA DropDmCoherent == ASSUME Coherent, DropDm PROVE Coherent'
<1>1. "free_dm" \in lib.ops /\ VerbsGetCtxOp("free_dm")
  BY FreeDmPresent DEF Coherent, DmOK, DropDm, VerbsGetCtxOp, IsNone
<1>2. ibv_free_dm.missing = FALSE /\ ibv_free_dm.via \subseteq lib.ops BY <1>1 DEF ibv_free_dm, Table
<1>3. PICK r \in Number(errno) :
        /\ Reports(ibv_free_dm.via, r, IF r.ret = 0 THEN Ok ELSE Panic)
        /\ cdm' = IF r.ret = 0 THEN "none" ELSE "refused"
  BY <1>2 DEF DropDm, Freed
<1>4. Answer(r, IF r.ret = 0 THEN Ok ELSE Panic)
  BY NumberAnswer, Outcomes DEF Answer, Ok, Panic, Coherent, LastOK
<1>5. LastOK' /\ OnlyEmptyGidRefused' /\ UNCHANGED lib BY <1>2, <1>3, <1>4, ReportsOK
<1>6. DmOK' BY <1>3, <1>5 DEF DropDm, DmOK
<1> QED BY <1>5, <1>6 DEF Coherent, DropDm, ListOK, QpOK

LEMMA QueriesCoherent ==
  ASSUME Coherent,
         \/ QueryPort \/ QueryDevice \/ QueryGid \/ QueryQp \/ ReqNotify \/ Poll \/ DropMw
         \/ \E op \in {"post_send", "post_recv"} : Post(op)
  PROVE  Coherent'
<1>0. lib \in Libs /\ errno \in Codes \cup {0} /\ {} \subseteq lib.ops BY DEF Coherent, LastOK
<1>1. UNCHANGED held BY DEF QueryPort, QueryDevice, QueryGid, QueryQp, ReqNotify, Poll, DropMw, Post
<1>2. CASE QueryPort
  <2>1. PICK r \in Number(errno) : Reports(ibv_query_port.via, r, FromErrno(r.ret)) BY <1>2 DEF QueryPort
  <2>2. ibv_query_port.via \subseteq lib.ops BY <1>0, FieldNames, TablePresent DEF ibv_query_port
  <2> QED BY <1>0, <1>1, <2>1, <2>2, NumberAnswer, ReportsOK, HeldUnchanged
<1>3. CASE QueryDevice
  <2>1. PICK r \in ibv_query_device_ex(errno) :
          Reports(OrLegacy("query_device_ex").via, r, FromErrno(r.ret))
    BY <1>3 DEF QueryDevice
  <2>2. OrLegacy("query_device_ex").via \subseteq lib.ops BY <1>0, FieldNames, TablePresent
  <2> QED BY <1>0, <1>1, <2>1, <2>2, QueryDeviceAnswer, ReportsOK, HeldUnchanged
<1>4. CASE QueryGid
  <2>1. PICK r \in Number(errno) : Reports({}, r, IF r.ret = 0 THEN Ok ELSE Custom) BY <1>4 DEF QueryGid
  <2>2. Answer(r, IF r.ret = 0 THEN Ok ELSE Custom)
    BY <1>0, NumberAnswer, Outcomes DEF Answer, Ok, Custom
  <2> QED BY <1>0, <1>1, <2>1, <2>2, ReportsOK, HeldUnchanged
<1>5. CASE QueryQp
  <2>1. PICK r \in Number(errno) : Reports({}, r, FromErrno(r.ret)) BY <1>5 DEF QueryQp
  <2> QED BY <1>0, <1>1, <2>1, NumberAnswer, ReportsOK, HeldUnchanged
<1>6. ASSUME NEW op \in {"post_send", "post_recv"}, Post(op) PROVE Coherent'
  <2>1. PICK r \in PostNumber(ErrnoBefore) : Reports(Unchecked(op).via, r, Posted(r)) BY <1>6 DEF Post
  <2>2. Unchecked(op).via \subseteq lib.context BY <1>0, UncheckedPresent DEF DataPath
  <2> QED BY <1>0, <1>1, <2>1, <2>2, PostAnswer, ReportsOK, HeldUnchanged
<1>7. CASE ReqNotify
  <2>1. PICK r \in Number(errno) : Reports(Unchecked("req_notify_cq").via, r, FromErrno(r.ret))
    BY <1>7 DEF ReqNotify
  <2>2. Unchecked("req_notify_cq").via \subseteq lib.context BY <1>0, UncheckedPresent DEF DataPath
  <2> QED BY <1>0, <1>1, <2>1, <2>2, NumberAnswer, ReportsOK, HeldUnchanged
<1>8. CASE Poll
  <2>1. PICK r \in PollNumber(errno) :
          Reports(Unchecked("poll_cq").via, r, IF r.ret < 0 THEN FromErrno(-r.ret) ELSE Ok)
    BY <1>8 DEF Poll
  <2>2. Unchecked("poll_cq").via \subseteq lib.context BY <1>0, UncheckedPresent DEF DataPath
  <2> QED BY <1>0, <1>1, <2>1, <2>2, PollAnswer, ReportsOK, HeldUnchanged
<1>9. CASE DropMw
  <2>1. PICK r \in Number(errno) :
          Reports(Unchecked("dealloc_mw").via, r, IF r.ret = 0 THEN Ok ELSE Panic)
    BY <1>9 DEF DropMw
  <2>2. Unchecked("dealloc_mw").via \subseteq lib.context BY <1>0, <1>9, UncheckedPresent DEF DropMw
  <2>3. Answer(r, IF r.ret = 0 THEN Ok ELSE Panic)
    BY <1>0, NumberAnswer, Outcomes DEF Answer, Ok, Panic
  <2> QED BY <1>0, <1>1, <2>1, <2>2, <2>3, ReportsOK, HeldUnchanged
<1> QED BY <1>2, <1>3, <1>4, <1>5, <1>6, <1>7, <1>8, <1>9

LEMMA BuildQpCoherent ==
  ASSUME Coherent, NEW type \in {"RC", "UD"}, BuildQp(type) PROVE Coherent'
<1> DEFINE call == ibv_create_qp_ex({"PD"})
<1>1. PICK r \in Pointer(call, ErrnoBefore) :
        /\ Reports(call.via, r, CreateResource(r))
        /\ qp' = IF r.ok THEN [type |-> type, state |-> "Reset"] ELSE None
  BY DEF BuildQp
<1>2. call.via \subseteq lib.ops BY DEF ibv_create_qp_ex, Linked
<1>3. LastOK' /\ OnlyEmptyGidRefused' /\ UNCHANGED lib BY <1>1, <1>2, PointerAnswer, ReportsOK
<1>4. QpOK' BY <1>1 DEF QpOK, QpType
<1> QED BY <1>3, <1>4 DEF Coherent, BuildQp, ListOK, DmOK

LEMMA BringUpCoherent ==
  ASSUME Coherent, Initialize \/ (\E p \in Port : Activate(p) \/ CreateAh(p)) \/ ReadyToSend
  PROVE  Coherent'
<1>1. CASE Initialize
  <2>1. qp \in QpType /\ qp.state = "Reset" BY <1>1 DEF Coherent, QpOK, Initialize
  <2>2. InitOptions(qp.type).to = "Initialize" BY DEF InitOptions, ModifyOptions
  <2> QED BY <1>1, <2>1, <2>2, InitTaken, ModifyCoherent DEF Initialize
<1>2. ASSUME NEW p \in Port, Activate(p) PROVE Coherent'
  <2>1. qp \in QpType /\ qp.state = "Initialize" /\ LocalDest(p) BY <1>2 DEF Coherent, QpOK, Activate
  <2>2. RtrOptions(qp.type).to = "ReadyToReceive" BY DEF RtrOptions, ModifyOptions
  <2> QED BY <1>2, <2>1, <2>2, RtrTaken, ModifyCoherent DEF Activate
<1>3. CASE ReadyToSend
  <2>1. qp \in QpType /\ qp.state = "ReadyToReceive" BY <1>3 DEF Coherent, QpOK, ReadyToSend
  <2>2. RtsOptions(qp.type).to = "ReadyToSend" BY DEF RtsOptions, ModifyOptions
  <2> QED BY <1>3, <2>1, <2>2, RtsTaken, ModifyCoherent DEF ReadyToSend
<1> QED BY <1>1, <1>2, <1>3, CreateAhCoherent

-------------------------------------------------------------------------------
(***************************************************************************)
(* The theorems                                                             *)
(***************************************************************************)
LEMMA InitCoherent == Init => Coherent
<1> SUFFICES ASSUME Init PROVE Coherent OBVIOUS
<1>1. LastOK /\ OnlyEmptyGidRefused BY Outcomes DEF Init, LastOK, ErrorIsOwn, OnlyEmptyGidRefused, Ok
<1>2. ListOK /\ DmOK /\ QpOK BY DEF Init, ListOK, DmOK, QpOK
<1> QED BY <1>1, <1>2 DEF Init, Coherent

LEMMA NextCoherent == Coherent /\ [Next]_vars => Coherent'
<1> SUFFICES ASSUME Coherent, [Next]_vars PROVE Coherent' OBVIOUS
<1>1. CASE Foreign
  <2>1. LastOK' /\ OnlyEmptyGidRefused'
    BY <1>1 DEF Foreign, held, Coherent, LastOK, ErrorIsOwn, OnlyEmptyGidRefused
  <2> QED BY <1>1, <2>1, HeldUnchanged DEF Foreign
<1>2. CASE DropQp
  BY <1>2 DEF DropQp, Coherent, LastOK, ErrorIsOwn, OnlyEmptyGidRefused, ListOK, DmOK, QpOK
<1>3. CASE UNCHANGED vars
  BY <1>3 DEF vars, held, Coherent, LastOK, ErrorIsOwn, OnlyEmptyGidRefused, ListOK, DmOK, QpOK
<1> QED BY <1>1, <1>2, <1>3, AvailableCoherent, DropListCoherent, OpenCoherent, CreatesCoherent,
           AllocDmCoherent, DropDmCoherent, QueriesCoherent, BuildQpCoherent, BringUpCoherent DEF Next

LEMMA SpecCoherent == Spec => []Coherent
BY InitCoherent, NextCoherent, PTL DEF Spec

\* The outcomes are those the crate has, and an OS error has a number.
THEOREM TypeCorrect == Spec => []TypeOK
<1>1. ASSUME Coherent PROVE TypeOK
  <2>1. lib.sz \in 0..Len(Fields) /\ lib.ops \subseteq Inside(lib.sz) /\ lib.ops \subseteq Range(Fields)
        /\ lib.context \subseteq ContextOps
    BY <1>1 DEF Coherent, Libs
  <2>2. clists \in Nat /\ list \in BOOLEAN /\ dm \in BOOLEAN /\ cdm \in {"none", "held", "refused"}
    BY <1>1 DEF Coherent, ListOK, DmOK
  <2>3. last.via \subseteq Range(Fields) \cup ContextOps BY <1>1, <2>1 DEF Coherent, LastOK
  <2> QED BY <1>1, <2>1, <2>2, <2>3 DEF Coherent, LastOK, QpOK, QpType, TypeOK
<1> QED BY <1>1, SpecCoherent, PTL

\* last_error reads errno after set_errno(0), so whatever other code of the thread
\* leaves in it, a reported error is the failed call's.
THEOREM ErrorsAreOwn == Spec => []ErrorIsOwn
<1>1. Coherent => ErrorIsOwn BY DEF Coherent, LastOK
<1> QED BY <1>1, SpecCoherent, PTL

\* verbs_get_ctx_op! reads no function that the installed library lacks, and what is
\* called unchecked is among what providers fill.
THEOREM CallsArePresent == Spec => []NoWildCall
<1>1. Coherent => NoWildCall BY DEF Coherent, LastOK, NoWildCall
<1> QED BY <1>1, SpecCoherent, PTL

\* No panic of DeviceList::available leaks the array, and the drop of DeviceMemory
\* finds free_dm in every library: alloc_dm lies in front of it.  Only memory that the
\* library refuses to free stays with it.
THEOREM ReleasedOnce == Spec => []FreedOnce
<1>1. Coherent => FreedOnce BY DEF Coherent, ListOK, DmOK, FreedOnce
<1> QED BY <1>1, SpecCoherent, PTL

\* The setters of the examples fill the mask of each transition exactly, and every
\* destination that local_dest gives can be routed to but one: that of an Ethernet port
\* with an empty entry in its GID table, which is refused with an error.
THEOREM RefusedForEmptyGid == Spec => []OnlyEmptyGidRefused
<1>1. Coherent => OnlyEmptyGidRefused BY DEF Coherent
<1> QED BY <1>1, SpecCoherent, PTL
===============================================================================
