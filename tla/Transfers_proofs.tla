--------------------------- MODULE Transfers_proofs ---------------------------
(***************************************************************************)
(* Proofs about Transfers, for any buffers and tasks, lists of any bounded  *)
(* length and any N of convert_sglist.                                      *)
(*                                                                          *)
(* The inductive invariant Guarded says that a handle keeps its region      *)
(* registered and keeps other users out, that a list in the device's hands  *)
(* does not change, and that a request is made of exactly that list.        *)
(***************************************************************************)
EXTENDS Transfers, SequenceTheorems, TLAPS

\* The types, of the buffers, the lists and the operations.
BufsOK ==
  /\ mem \in [Buf -> {"free", "zeroed", "live"}]
  /\ size \in [Buf -> Sizes \cup {0}]
  /\ maker \in [Buf -> Task \cup {None}]
  /\ arcs \in [Buf -> SUBSET Task]
ListOK(list) == Len(list) =< MaxList /\ \A i, j \in DOMAIN list : list[i].how = list[j].how
ListsOK == held \in [Task -> Seq(Handle)] /\ \A t \in Task : ListOK(held[t])
OpsOK ==
  /\ pc \in [Task -> {"idle", "posted", "orphan", "poisoned", "done"}]
  /\ DOMAIN req = Task /\ DOMAIN res = Task /\ DOMAIN msg = Task
  /\ \A t \in Task : pc[t] \in {"idle", "poisoned"} => req[t] = None
  /\ \A t \in Task : pc[t] # "done" => res[t] = None
Shape == BufsOK /\ ListsOK /\ OpsOK

\* Handles, of the lists and of RwBuf, are to registered memory; a buffer that is
\* being made has none, and its task does nothing else.
Memory ==
  /\ \A t \in Task : \A i \in DOMAIN held[t] :
       mem[held[t][i].b] = "live" /\ held[t][i].len =< size[held[t][i].b]
  /\ \A b \in Buf : arcs[b] # {} => mem[b] = "live"
  /\ \A b \in Buf : maker[b] # None => mem[b] = "zeroed" /\ pc[maker[b]] = "idle"

\* A Buf is not in an RwBuf, and two tasks with the same buffer only read it.
Exclusive ==
  /\ \A t \in Task : \A i \in DOMAIN held[t] : held[t][i].how = "own" => arcs[held[t][i].b] = {}
  /\ \A t, u \in Task : \A i \in DOMAIN held[t], j \in DOMAIN held[u] :
       t # u /\ held[t][i].b = held[u][j].b => held[t][i].how = "read" /\ held[u][j].how = "read"

\* The message a posted send carries.
Message(t) ==
  [n |-> Bytes(t), imm |-> IF req[t].opcode = "SendWithImm" THEN req[t].imm_data ELSE None]

\* What the device has of t is the list of t.
Requested(t) ==
  /\ req[t].sg_list = [i \in DOMAIN held[t] |-> Sge(held[t][i])]
  /\ req[t].opcode \in {"Recv", "Read"} => \A i \in DOMAIN held[t] : held[t][i].how # "read"
  /\ req[t].rdma => req[t].opcode # "Recv"
  /\ req[t].opcode \in {"Send", "SendWithImm"} => msg[t] = Message(t)
Requests == \A t \in Task : InHw(t) => Requested(t)

\* EndToEnd, of one task.
Delivered(t) ==
  pc[t] = "done" /\ req[t].opcode = "Recv" /\ Ok(t) =>
    msg[t] = [n |-> res[t].byte_len, imm |-> res[t].imm]

Guarded ==
  /\ Shape
  /\ Memory
  /\ Exclusive
  /\ Requests
  /\ \A t \in Task : Delivered(t)

-------------------------------------------------------------------------------
(***************************************************************************)
(* Sequences of handles                                                     *)
(***************************************************************************)
LEMMA SizesNat == \A n \in Sizes \cup {0} : n \in Nat
BY TransfersAssumption DEF TransfersAssumption

LEMMA SizesBounded == MaxSize \in Sizes /\ \A n \in Sizes : n =< MaxSize
BY SizesAssumption DEF SizesAssumption, MaxSize

\* A handle of the whole buffer is a Handle.
LEMMA WholeHandle ==
  ASSUME NEW n \in Sizes \cup {0}, NEW b \in Buf, NEW how \in {"own", "read", "write"}
  PROVE  [b |-> b, how |-> how, len |-> n] \in Handle
<1>1. n \in 0..MaxSize BY SizesBounded, TransfersAssumption DEF TransfersAssumption
<1> QED BY <1>1 DEF Handle

\* RemoveAt drops one element, makes none up and keeps the others apart: the
\* element at j was at Before(i, j).
Before(i, j) == IF j =< i - 1 THEN j ELSE j + 1
LEMMA RemoveAtElements ==
  ASSUME NEW S, NEW s \in Seq(S), NEW i \in DOMAIN s
  PROVE  /\ RemoveAt(s, i) \in Seq(S)
         /\ Len(RemoveAt(s, i)) = Len(s) - 1
         /\ \A j \in DOMAIN RemoveAt(s, i) :
              Before(i, j) \in DOMAIN s /\ RemoveAt(s, i)[j] = s[Before(i, j)]
<1> DEFINE a == SubSeq(s, 1, i - 1)
           z == SubSeq(s, i + 1, Len(s))
<1>0. i \in 1..Len(s) /\ Len(s) \in Nat /\ DOMAIN s = 1..Len(s) OBVIOUS
<1>1. a \in Seq(S) /\ Len(a) = i - 1 /\ \A j \in 1..(i - 1) : a[j] = s[j] BY <1>0
<1>2. /\ z \in Seq(S) /\ Len(z) = Len(s) - i
      /\ \A j \in 1..(Len(s) - i) : z[j] = s[i + j]
  BY <1>0
<1> HIDE DEF a, z
<1>3. /\ a \o z \in Seq(S) /\ Len(a \o z) = Len(s) - 1 /\ DOMAIN (a \o z) = 1..(Len(s) - 1)
      /\ \A j \in 1..(Len(s) - 1) : (a \o z)[j] = IF j =< i - 1 THEN a[j] ELSE z[j - (i - 1)]
  <2>1. /\ a \o z \in Seq(S) /\ Len(a \o z) = Len(a) + Len(z)
        /\ \A j \in 1..(Len(a) + Len(z)) : (a \o z)[j] = IF j =< Len(a) THEN a[j] ELSE z[j - Len(a)]
    BY <1>1, <1>2, ConcatProperties
  <2>2. Len(a) + Len(z) = Len(s) - 1 BY <1>0, <1>1, <1>2
  <2> QED BY <1>1, <2>1, <2>2
<1>4. ASSUME NEW j \in 1..(Len(s) - 1)
      PROVE  Before(i, j) \in DOMAIN s /\ (a \o z)[j] = s[Before(i, j)]
  <2>1. CASE j =< i - 1
    <3>1. j \in 1..(i - 1) /\ j \in DOMAIN s BY <2>1, <1>0
    <3>2. (a \o z)[j] = s[j] BY <3>1, <2>1, <1>1, <1>3
    <3> QED BY <3>1, <3>2, <2>1 DEF Before
  <2>2. CASE ~(j =< i - 1)
    <3>1. j - (i - 1) \in 1..(Len(s) - i) /\ j + 1 \in DOMAIN s /\ i + (j - (i - 1)) = j + 1
      BY <2>2, <1>0
    <3>2. (a \o z)[j] = s[j + 1] BY <3>1, <2>2, <1>2, <1>3
    <3> QED BY <3>1, <3>2, <2>2 DEF Before
  <2> QED BY <2>1, <2>2
<1> QED BY <1>3, <1>4 DEF RemoveAt, a, z

\* convert_sglist has room for every entry, on the array and on the Vec.
LEMMA AllConverted ==
  ASSUME NEW list \in Seq(Handle)
  PROVE  ConvertSglist(list) = [i \in DOMAIN list |-> Sge(list[i])]
<1> \A i \in DOMAIN list : i =< Room(Len(list))
  BY TransfersAssumption DEF TransfersAssumption, Room
<1> QED BY DEF ConvertSglist

-------------------------------------------------------------------------------
(***************************************************************************)
(* Steps that make no handle and drop some                                  *)
(***************************************************************************)
\* Memory with a handle, and memory that is being made, stays as it is.
KeepsUsed ==
  /\ maker' = maker
  /\ \A b \in Buf : mem[b] = "zeroed" => mem'[b] = "zeroed"
  /\ \A b \in Buf :
       /\ mem[b] = "live"
       /\ arcs'[b] # {} \/ \E t \in Task : \E i \in DOMAIN held'[t] : held'[t][i].b = b
       => mem'[b] = "live" /\ size'[b] = size[b]

LEMMA ReclaimKeeps ==
  ASSUME BufsOK, arcs' \in [Buf -> SUBSET Task], Reclaim
  PROVE  BufsOK' /\ KeepsUsed
BY DEF BufsOK, Reclaim, KeepsUsed

\* Each handle of the lists comes from one before, cut within its region.
Shrinks ==
  /\ held' \in [Task -> Seq(Handle)]
  /\ \A t \in Task : Len(held'[t]) =< MaxList
  /\ \A b \in Buf : arcs'[b] \subseteq arcs[b]
  /\ \A t \in Task : \A j \in DOMAIN held'[t] :
       /\ \E i \in DOMAIN held[t] : held'[t][j].b = held[t][i].b /\ held'[t][j].how = held[t][i].how
       /\ held'[t][j].len =< size[held'[t][j].b]

LEMMA ShrinkKeeps ==
  ASSUME Guarded, Shrinks, KeepsUsed, \A b \in Buf : maker[b] # None => pc'[maker[b]] = "idle"
  PROVE  ListsOK' /\ Memory' /\ Exclusive'
<1> USE DEF Guarded
<1>0. ListsOK'
  <2> SUFFICES ASSUME NEW t \in Task, NEW k \in DOMAIN held'[t], NEW l \in DOMAIN held'[t]
               PROVE  held'[t][k].how = held'[t][l].how
    BY DEF ListsOK, ListOK, Shrinks
  <2>1. PICK i \in DOMAIN held[t] : held'[t][k].how = held[t][i].how BY DEF Shrinks
  <2>2. PICK j \in DOMAIN held[t] : held'[t][l].how = held[t][j].how BY DEF Shrinks
  <2> QED BY <2>1, <2>2 DEF Shape, ListsOK, ListOK
<1>1. Memory'
  <2>1. ASSUME NEW t \in Task, NEW j \in DOMAIN held'[t]
        PROVE  mem'[held'[t][j].b] = "live" /\ held'[t][j].len =< size'[held'[t][j].b]
    <3>1. PICK i \in DOMAIN held[t] : held'[t][j].b = held[t][i].b BY DEF Shrinks
    <3>2. held[t][i] \in Handle BY DEF Shape, ListsOK
    <3>3. held'[t][j].b \in Buf /\ mem[held'[t][j].b] = "live" BY <3>1, <3>2 DEF Memory, Handle
    <3>4. mem'[held'[t][j].b] = "live" /\ size'[held'[t][j].b] = size[held'[t][j].b]
      BY <3>3 DEF KeepsUsed
    <3> QED BY <3>4 DEF Shrinks
  <2>2. \A b \in Buf : arcs'[b] # {} => mem'[b] = "live" BY DEF Memory, KeepsUsed, Shrinks
  <2>3. \A b \in Buf : maker'[b] # None => mem'[b] = "zeroed" /\ pc'[maker'[b]] = "idle"
    BY DEF Memory, KeepsUsed
  <2> QED BY <2>1, <2>2, <2>3 DEF Memory
<1>2. Exclusive'
  <2>1. ASSUME NEW t \in Task, NEW j \in DOMAIN held'[t], held'[t][j].how = "own"
        PROVE  arcs'[held'[t][j].b] = {}
    <3>1. PICK i \in DOMAIN held[t] : held'[t][j].b = held[t][i].b /\ held'[t][j].how = held[t][i].how
      BY DEF Shrinks
    <3>2. held[t][i] \in Handle BY DEF Shape, ListsOK
    <3>3. held[t][i].b \in Buf BY <3>2 DEF Handle
    <3>4. arcs[held[t][i].b] = {} BY <2>1, <3>1 DEF Exclusive
    <3> QED BY <3>1, <3>3, <3>4 DEF Shrinks
  <2>2. ASSUME NEW t \in Task, NEW u \in Task, NEW i \in DOMAIN held'[t], NEW j \in DOMAIN held'[u],
               t # u, held'[t][i].b = held'[u][j].b
        PROVE  held'[t][i].how = "read" /\ held'[u][j].how = "read"
    <3>1. PICK k \in DOMAIN held[t] : held'[t][i].b = held[t][k].b /\ held'[t][i].how = held[t][k].how
      BY DEF Shrinks
    <3>2. PICK l \in DOMAIN held[u] : held'[u][j].b = held[u][l].b /\ held'[u][j].how = held[u][l].how
      BY DEF Shrinks
    <3>3. held[t][k].b = held[u][l].b BY <2>2, <3>1, <3>2
    <3>4. held[t][k].how = "read" /\ held[u][l].how = "read" BY <2>2, <3>3 DEF Exclusive
    <3> QED BY <3>1, <3>2, <3>4
  <2> QED BY <2>1, <2>2 DEF Exclusive
<1> QED BY <1>0, <1>1, <1>2

\* Tasks whose operation a step leaves alone.
SameOp(t) ==
  /\ pc'[t] = pc[t] /\ req'[t] = req[t] /\ res'[t] = res[t] /\ msg'[t] = msg[t]
  /\ InHw(t) => held'[t] = held[t]

LEMMA OpsFrame ==
  ASSUME Guarded, \A t \in Task : SameOp(t) \/ ((InHw(t) => Requested(t)) /\ Delivered(t))'
  PROVE  Requests' /\ \A t \in Task : Delivered(t)'
<1> SUFFICES ASSUME NEW t \in Task, SameOp(t)
             PROVE  ((InHw(t) => Requested(t)) /\ Delivered(t))'
  BY DEF Requests
<1>1. (InHw(t) => Requested(t)) /\ Delivered(t) BY DEF Guarded, Requests
<1>2. Delivered(t)' BY <1>1 DEF SameOp, Delivered, Ok
<1>3. ASSUME InHw(t)' PROVE Requested(t)'
  <2>1. InHw(t) /\ Requested(t) BY <1>1, <1>3 DEF SameOp, InHw
  <2>2. held'[t] = held[t] /\ req'[t] = req[t] /\ msg'[t] = msg[t] BY <2>1 DEF SameOp
  <2>3. Message(t)' = Message(t) BY <2>2 DEF Message, Bytes
  <2> QED BY <2>1, <2>2, <2>3 DEF Requested
<1> QED BY <1>2, <1>3

LEMMA OpsUnchanged ==
  ASSUME Guarded, UNCHANGED ops, \A t \in Task : InHw(t) => held'[t] = held[t]
  PROVE  OpsOK' /\ Requests' /\ \A t \in Task : Delivered(t)'
<1>1. \A t \in Task : SameOp(t) BY DEF ops, SameOp
<1>2. OpsOK' BY DEF Guarded, Shape, OpsOK, ops
<1> QED BY <1>1, <1>2, OpsFrame

LEMMA InitGuarded == Init => Guarded
<1> SUFFICES ASSUME Init PROVE Guarded OBVIOUS
<1> USE DEF Init
<1>1. BufsOK BY DEF BufsOK
<1>2. ListsOK
  <2>1. <<>> \in Seq(Handle) /\ Len(<<>>) = 0 /\ DOMAIN <<>> = {} OBVIOUS
  <2>2. 0 =< MaxList BY TransfersAssumption DEF TransfersAssumption
  <2> QED BY <2>1, <2>2 DEF ListsOK, ListOK
<1>3. OpsOK BY DEF OpsOK
<1>4. Memory /\ Exclusive BY DEF Memory, Exclusive
<1>5. Requests /\ \A t \in Task : Delivered(t) BY DEF Requests, InHw, Delivered
<1> QED BY <1>1, <1>2, <1>3, <1>4, <1>5 DEF Guarded, Shape

-------------------------------------------------------------------------------
(***************************************************************************)
(* Buf, RwBuf and Head                                                      *)
(***************************************************************************)
LEMMA HandleOf ==
  ASSUME Guarded, NEW t \in Task, NEW i \in DOMAIN held[t]
  PROVE  /\ held[t][i] \in Handle /\ held[t][i].b \in Buf
         /\ held[t][i].how \in {"own", "read", "write"} /\ held[t][i].len \in Nat
<1> held[t][i] \in Handle BY DEF Guarded, Shape, ListsOK
<1> MaxSize \in Nat BY SizesBounded, TransfersAssumption DEF TransfersAssumption
<1> QED BY DEF Handle

LEMMA NewZeroedGuarded ==
  ASSUME Guarded, NEW t \in Task, NEW b \in Buf, NEW n \in Sizes, NewZeroed(t, b, n)
  PROVE  Guarded'
<1> USE DEF Guarded, NewZeroed
<1>1. BufsOK' BY DEF Shape, BufsOK
<1>2. ListsOK' /\ OpsOK' /\ Requests' /\ \A u \in Task : Delivered(u)'
  BY OpsUnchanged DEF Shape, ListsOK
<1>3. Memory'
  <2>1. \A u \in Task : \A i \in DOMAIN held[u] : held[u][i].b # b BY DEF Memory
  <2>2. \A c \in Buf : c # b => mem'[c] = mem[c] /\ size'[c] = size[c] /\ maker'[c] = maker[c]
    BY DEF Shape, BufsOK
  <2>3. mem'[b] = "zeroed" /\ maker'[b] = t /\ pc'[t] = "idle" BY DEF Shape, BufsOK, Running, ops
  <2>4. arcs[b] = {} BY DEF Memory
  <2>5. \A u \in Task : \A i \in DOMAIN held'[u] :
          mem'[held'[u][i].b] = "live" /\ held'[u][i].len =< size'[held'[u][i].b]
    BY <2>1, <2>2, HandleOf DEF Memory
  <2>6. \A c \in Buf : arcs'[c] # {} => mem'[c] = "live" BY <2>2, <2>4 DEF Memory
  <2>7. \A c \in Buf : maker'[c] # None => mem'[c] = "zeroed" /\ pc'[maker'[c]] = "idle"
    BY <2>2, <2>3 DEF Memory, ops
  <2> QED BY <2>5, <2>6, <2>7 DEF Memory
<1>4. Exclusive' BY DEF Exclusive
<1> QED BY <1>1, <1>2, <1>3, <1>4 DEF Shape

LEMMA RegisterFailsGuarded ==
  ASSUME Guarded, NEW t \in Task, NEW b \in Buf, RegisterFails(t, b)
  PROVE  Guarded'
<1> USE DEF Guarded, RegisterFails
<1>1. BufsOK' BY DEF Shape, BufsOK
<1>2. ListsOK' /\ OpsOK' /\ Requests' /\ \A u \in Task : Delivered(u)'
  BY OpsUnchanged DEF Shape, ListsOK
<1>3. Memory'
  <2>0. mem[b] = "zeroed" BY TransfersAssumption DEF TransfersAssumption, Memory
  <2>1. \A u \in Task : \A i \in DOMAIN held[u] : held[u][i].b # b BY <2>0 DEF Memory
  <2>2. \A c \in Buf : c # b => mem'[c] = mem[c] /\ size'[c] = size[c] /\ maker'[c] = maker[c]
    BY DEF Shape, BufsOK
  <2>3. maker'[b] = None BY DEF Shape, BufsOK
  <2>4. arcs[b] = {} BY <2>0 DEF Memory
  <2>5. \A u \in Task : \A i \in DOMAIN held'[u] :
          mem'[held'[u][i].b] = "live" /\ held'[u][i].len =< size'[held'[u][i].b]
    BY <2>1, <2>2, HandleOf DEF Memory
  <2>6. \A c \in Buf : arcs'[c] # {} => mem'[c] = "live" BY <2>2, <2>4 DEF Memory
  <2>7. \A c \in Buf : maker'[c] # None => mem'[c] = "zeroed" /\ pc'[maker'[c]] = "idle"
    BY <2>2, <2>3 DEF Memory, ops
  <2> QED BY <2>5, <2>6, <2>7 DEF Memory
<1>4. Exclusive' BY DEF Exclusive
<1> QED BY <1>1, <1>2, <1>3, <1>4 DEF Shape

LEMMA CloneGuarded ==
  ASSUME Guarded, NEW t \in Task, NEW u \in Task, NEW b \in Buf, Clone(t, u, b)
  PROVE  Guarded'
<1> USE DEF Guarded, Clone
<1>1. BufsOK' BY DEF Shape, BufsOK
<1>2. ListsOK' /\ OpsOK' /\ Requests' /\ \A v \in Task : Delivered(v)'
  BY OpsUnchanged DEF Shape, ListsOK
<1>3. Memory' BY DEF Memory, Shape, BufsOK, ops
<1>4. Exclusive'
  <2>1. \A v \in Task : \A i \in DOMAIN held[v] : held[v][i].how = "own" => held[v][i].b # b
    BY DEF Exclusive
  <2>2. \A c \in Buf : c # b => arcs'[c] = arcs[c] BY DEF Shape, BufsOK
  <2>3. \A v \in Task : \A i \in DOMAIN held'[v] : held'[v][i].how = "own" => arcs'[held'[v][i].b] = {}
    BY <2>1, <2>2, HandleOf DEF Exclusive
  <2> QED BY <2>3 DEF Exclusive
<1> QED BY <1>1, <1>2, <1>3, <1>4 DEF Shape

\* A list with one more handle of its type.
LEMMA AppendHandle ==
  ASSUME Guarded, NEW t \in Task, NEW h \in Handle, Fits(t, h.how),
         held' = [held EXCEPT ![t] = Append(@, h)]
  PROVE  /\ ListsOK'
         /\ \A u \in Task : \A j \in DOMAIN held'[u] :
              (\E i \in DOMAIN held[u] : held'[u][j] = held[u][i]) \/ (u = t /\ held'[u][j] = h)
<1> DEFINE s == held[t]
           a == Append(s, h)
<1>1. s \in Seq(Handle) BY DEF Guarded, Shape, ListsOK
<1>2. /\ a \in Seq(Handle) /\ Len(a) = Len(s) + 1 /\ DOMAIN a = 1..(Len(s) + 1)
      /\ DOMAIN s = 1..Len(s) /\ Len(s) \in Nat
      /\ a[Len(s) + 1] = h /\ \A j \in 1..Len(s) : a[j] = s[j]
  BY <1>1
<1>3. held'[t] = a /\ \A u \in Task : u # t => held'[u] = held[u] BY DEF Guarded, Shape, ListsOK
<1>4. held' \in [Task -> Seq(Handle)] BY <1>2 DEF Guarded, Shape, ListsOK
<1>5. Len(s) < MaxList /\ \A i \in DOMAIN s : s[i].how = h.how BY DEF Fits
<1> HIDE DEF a, s
<1>6. \A j \in DOMAIN a : (\E i \in DOMAIN s : a[j] = s[i]) \/ a[j] = h
  <2> TAKE j \in DOMAIN a
  <2>1. CASE j = Len(s) + 1 BY <1>2, <2>1
  <2>2. CASE j # Len(s) + 1
    <3>1. j \in 1..Len(s) BY <1>2, <2>2
    <3> QED BY <1>2, <3>1
  <2> QED BY <2>1, <2>2
<1>7. ListOK(a)
  <2>1. \A j \in DOMAIN a : a[j].how = h.how BY <1>5, <1>6
  <2>2. Len(a) =< MaxList BY <1>2, <1>5, TransfersAssumption DEF TransfersAssumption
  <2> QED BY <2>1, <2>2 DEF ListOK
<1>8. ListsOK' BY <1>3, <1>4, <1>7 DEF Guarded, Shape, ListsOK
<1>9. ASSUME NEW u \in Task, NEW j \in DOMAIN held'[u]
      PROVE  (\E i \in DOMAIN held[u] : held'[u][j] = held[u][i]) \/ (u = t /\ held'[u][j] = h)
  <2>1. CASE u = t BY <2>1, <1>3, <1>6 DEF s
  <2>2. CASE u # t BY <2>2, <1>3
  <2> QED BY <2>1, <2>2
<1> QED BY <1>8, <1>9

\* The new handle keeps the tasks apart when all handles of its buffer read.
LEMMA AppendExclusive ==
  ASSUME Guarded, NEW t \in Task, NEW h \in Handle, Fits(t, h.how),
         held' = [held EXCEPT ![t] = Append(@, h)], UNCHANGED arcs,
         h.how = "own" => arcs[h.b] = {},
         \A v \in Task : \A k \in DOMAIN held[v] :
           held[v][k].b = h.b => held[v][k].how = "read" /\ h.how = "read"
  PROVE  Exclusive'
<1> DEFINE Old(u, j) == \E i \in DOMAIN held[u] : held'[u][j] = held[u][i]
<1>1. \A u \in Task : \A j \in DOMAIN held'[u] : Old(u, j) \/ (u = t /\ held'[u][j] = h)
  BY AppendHandle
<1>2. ASSUME NEW u \in Task, NEW j \in DOMAIN held'[u], held'[u][j].how = "own"
      PROVE  arcs'[held'[u][j].b] = {}
  <2>1. CASE held'[u][j] = h BY <1>2, <2>1
  <2>2. CASE Old(u, j) BY <1>2, <2>2 DEF Guarded, Exclusive
  <2> QED BY <1>1, <2>1, <2>2
<1>3. ASSUME NEW u \in Task, NEW v \in Task, NEW i \in DOMAIN held'[u], NEW j \in DOMAIN held'[v],
             u # v, held'[u][i].b = held'[v][j].b
      PROVE  held'[u][i].how = "read" /\ held'[v][j].how = "read"
  <2>1. CASE Old(u, i) /\ Old(v, j)
    <3>1. PICK k \in DOMAIN held[u] : held'[u][i] = held[u][k] BY <2>1
    <3>2. PICK l \in DOMAIN held[v] : held'[v][j] = held[v][l] BY <2>1
    <3>3. held[u][k].b = held[v][l].b BY <3>1, <3>2, <1>3
    <3>4. held[u][k].how = "read" /\ held[v][l].how = "read" BY <3>3, <1>3 DEF Guarded, Exclusive
    <3> QED BY <3>1, <3>2, <3>4
  <2>2. CASE held'[u][i] = h /\ Old(v, j)
    <3>1. PICK l \in DOMAIN held[v] : held'[v][j] = held[v][l] BY <2>2
    <3> QED BY <3>1, <2>2, <1>3
  <2>3. CASE Old(u, i) /\ held'[v][j] = h
    <3>1. PICK k \in DOMAIN held[u] : held'[u][i] = held[u][k] BY <2>3
    <3> QED BY <3>1, <2>3, <1>3
  <2> QED BY <1>1, <1>3, <2>1, <2>2, <2>3
<1> QED BY <1>2, <1>3 DEF Exclusive

LEMMA RegisteredGuarded ==
  ASSUME Guarded, NEW t \in Task, NEW b \in Buf, Registered(t, b)
  PROVE  Guarded'
<1> USE DEF Guarded
<1>0. /\ maker[b] = t /\ mem' = [mem EXCEPT ![b] = "live"] /\ maker' = [maker EXCEPT ![b] = None]
      /\ UNCHANGED <<size, ops>>
  BY DEF Registered
<1>1. mem[b] = "zeroed" /\ pc[t] = "idle"
  BY <1>0, TransfersAssumption DEF TransfersAssumption, Memory
<1>2. \A u \in Task : \A i \in DOMAIN held[u] : held[u][i].b # b BY <1>1 DEF Memory
<1>3. arcs[b] = {} BY <1>1 DEF Memory
<1>4. /\ mem'[b] = "live" /\ maker'[b] = None
      /\ \A c \in Buf : c # b => mem'[c] = mem[c] /\ maker'[c] = maker[c]
  BY <1>0 DEF Shape, BufsOK
<1>5. \A c \in Buf : maker'[c] # None => mem'[c] = "zeroed" /\ pc'[maker'[c]] = "idle"
  BY <1>0, <1>4 DEF Memory, ops
<1>6. CASE UNCHANGED held /\ arcs' = [arcs EXCEPT ![b] = {t}]
  <2>1. BufsOK' BY <1>0, <1>6 DEF Shape, BufsOK
  <2>2. ListsOK' /\ OpsOK' /\ Requests' /\ \A u \in Task : Delivered(u)'
    BY <1>0, <1>6, OpsUnchanged DEF Shape, ListsOK
  <2>3. \A c \in Buf : c # b => arcs'[c] = arcs[c] BY <1>6 DEF Shape, BufsOK
  <2>4. Memory'
    <3>1. \A u \in Task : \A i \in DOMAIN held'[u] :
            mem'[held'[u][i].b] = "live" /\ held'[u][i].len =< size'[held'[u][i].b]
      BY <1>0, <1>2, <1>4, <1>6, HandleOf DEF Memory
    <3>2. \A c \in Buf : arcs'[c] # {} => mem'[c] = "live" BY <1>4, <2>3 DEF Memory
    <3> QED BY <1>5, <3>1, <3>2 DEF Memory
  <2>5. Exclusive'
    <3>1. \A v \in Task : \A i \in DOMAIN held'[v] : held'[v][i].how = "own" => arcs'[held'[v][i].b] = {}
      BY <1>2, <1>6, <2>3, HandleOf DEF Exclusive
    <3> QED BY <1>6, <3>1 DEF Exclusive
  <2> QED BY <2>1, <2>2, <2>4, <2>5 DEF Shape
<1>7. CASE /\ Fits(t, "own")
           /\ held' = [held EXCEPT ![t] = Append(@, [b |-> b, how |-> "own", len |-> size[b]])]
           /\ UNCHANGED arcs
  <2> DEFINE h == [b |-> b, how |-> "own", len |-> size[b]]
  <2>1. h \in Handle /\ h.how = "own" /\ h.b = b /\ h.len = size[b]
    BY WholeHandle DEF Shape, BufsOK
  <2>2. BufsOK' BY <1>0, <1>7 DEF Shape, BufsOK
  <2> HIDE DEF h
  <2>3. /\ ListsOK'
        /\ \A u \in Task : \A j \in DOMAIN held'[u] :
             (\E i \in DOMAIN held[u] : held'[u][j] = held[u][i]) \/ (u = t /\ held'[u][j] = h)
    BY <1>7, <2>1, AppendHandle DEF h
  <2>4. \A u \in Task : InHw(u) => held'[u] = held[u] BY <1>1, <1>7 DEF InHw, Shape, ListsOK
  <2>5. OpsOK' /\ Requests' /\ \A u \in Task : Delivered(u)' BY <1>0, <2>4, OpsUnchanged
  <2>6. Memory'
    <3>1. ASSUME NEW u \in Task, NEW j \in DOMAIN held'[u]
          PROVE  mem'[held'[u][j].b] = "live" /\ held'[u][j].len =< size'[held'[u][j].b]
      <4>1. CASE held'[u][j] = h
        <5>1. size[b] \in Nat BY SizesNat DEF Shape, BufsOK
        <5> QED BY <4>1, <2>1, <1>0, <1>4, <5>1
      <4>2. CASE \E i \in DOMAIN held[u] : held'[u][j] = held[u][i]
        <5>1. PICK i \in DOMAIN held[u] : held'[u][j] = held[u][i] BY <4>2
        <5> QED BY <5>1, <1>0, <1>2, <1>4, HandleOf DEF Memory
      <4> QED BY <4>1, <4>2, <2>3
    <3>2. \A c \in Buf : arcs'[c] # {} => mem'[c] = "live" BY <1>4, <1>7 DEF Memory
    <3> QED BY <1>5, <3>1, <3>2 DEF Memory
  <2>7. Exclusive' BY <1>2, <1>3, <1>7, <2>1, AppendExclusive DEF h
  <2> QED BY <2>2, <2>3, <2>5, <2>6, <2>7 DEF Shape
<1> QED BY <1>6, <1>7 DEF Registered

\* RwBuf::read and RwBuf::write: the lock admits readers beside readers only.
LEMMA LockGuarded ==
  ASSUME Guarded, NEW t \in Task, NEW b \in Buf, NEW how \in {"read", "write"}, Lock(t, b, how)
  PROVE  Guarded'
<1> USE DEF Guarded
<1> DEFINE h == [b |-> b, how |-> how, len |-> size[b]]
<1>0. /\ pc[t] = "idle" /\ t \in arcs[b] /\ Fits(t, how) /\ ~Locked(b, how)
      /\ held' = [held EXCEPT ![t] = Append(@, h)] /\ UNCHANGED <<bufs, ops>>
  BY DEF Lock, Running
<1>1. h \in Handle /\ h.how = how /\ h.b = b /\ h.len = size[b]
  BY WholeHandle DEF Shape, BufsOK
<1> HIDE DEF h
<1>2. BufsOK' BY <1>0 DEF Shape, BufsOK, bufs
<1>3. /\ ListsOK'
      /\ \A u \in Task : \A j \in DOMAIN held'[u] :
           (\E i \in DOMAIN held[u] : held'[u][j] = held[u][i]) \/ (u = t /\ held'[u][j] = h)
  BY <1>0, <1>1, AppendHandle
<1>4. \A u \in Task : InHw(u) => held'[u] = held[u] BY <1>0 DEF InHw, Shape, ListsOK
<1>5. OpsOK' /\ Requests' /\ \A u \in Task : Delivered(u)' BY <1>0, <1>4, OpsUnchanged
<1>6. Memory'
  <2>1. ASSUME NEW u \in Task, NEW j \in DOMAIN held'[u]
        PROVE  mem'[held'[u][j].b] = "live" /\ held'[u][j].len =< size'[held'[u][j].b]
    <3>1. CASE held'[u][j] = h
      <4>1. size[b] \in Nat BY SizesNat DEF Shape, BufsOK
      <4>2. mem[b] = "live" BY <1>0 DEF Memory
      <4> QED BY <3>1, <1>0, <1>1, <4>1, <4>2 DEF bufs
    <3>2. CASE \E i \in DOMAIN held[u] : held'[u][j] = held[u][i]
      BY <3>2, <1>0 DEF Memory, bufs
    <3> QED BY <3>1, <3>2, <1>3
  <2> QED BY <1>0, <2>1 DEF Memory, bufs, ops
<1>7. Exclusive'
  <2>1. ASSUME NEW v \in Task, NEW k \in DOMAIN held[v], held[v][k].b = b
        PROVE  held[v][k].how = "read" /\ how = "read"
    <3>1. held[v][k].how # "write" /\ how # "write" BY <1>0, <2>1 DEF Locked
    <3>2. held[v][k].how # "own" BY <1>0, <2>1 DEF Exclusive
    <3> QED BY <3>1, <3>2, HandleOf
  <2> QED BY <1>0, <1>1, <2>1, AppendExclusive DEF bufs
<1> QED BY <1>2, <1>3, <1>5, <1>6, <1>7 DEF Shape

\* A task that is not making a buffer: the others are, so pc may change here.
LEMMA MakersIdle ==
  ASSUME Guarded, NEW t \in Task, InHw(t) \/ pc[t] \in {"poisoned", "done"} \/ Running(t),
         \A u \in Task : u # t => pc'[u] = pc[u]
  PROVE  \A b \in Buf : maker[b] # None => pc'[maker[b]] = "idle"
<1> TAKE b \in Buf
<1> HAVE maker[b] # None
<1>1. maker[b] \in Task /\ pc[maker[b]] = "idle" BY DEF Guarded, Shape, BufsOK, Memory
<1>2. maker[b] # t BY <1>1 DEF Running, InHw
<1> QED BY <1>1, <1>2

LEMMA DropCloneGuarded ==
  ASSUME Guarded, NEW t \in Task, NEW b \in Buf, DropClone(t, b)
  PROVE  Guarded'
<1> USE DEF Guarded, DropClone
<1>1. arcs' \in [Buf -> SUBSET Task] /\ \A c \in Buf : arcs'[c] \subseteq arcs[c]
  BY DEF Shape, BufsOK
<1>2. BufsOK' /\ KeepsUsed BY <1>1, ReclaimKeeps DEF Shape
<1>3. Shrinks BY <1>1 DEF Shrinks, Shape, ListsOK, ListOK, Memory
<1>4. \A c \in Buf : maker[c] # None => pc'[maker[c]] = "idle" BY DEF Memory, ops
<1>5. ListsOK' /\ Memory' /\ Exclusive' BY <1>2, <1>3, <1>4, ShrinkKeeps
<1>6. OpsOK' /\ Requests' /\ \A u \in Task : Delivered(u)' BY OpsUnchanged
<1> QED BY <1>2, <1>5, <1>6 DEF Shape

\* The list of a running task is replaced by one of its handles, cut within
\* their regions.
LEMMA ListShrinks ==
  ASSUME Guarded, NEW t \in Task, NEW list \in Seq(Handle),
         held' = [held EXCEPT ![t] = list], UNCHANGED arcs, Len(list) =< MaxList,
         \A j \in DOMAIN list :
           /\ \E i \in DOMAIN held[t] : list[j].b = held[t][i].b /\ list[j].how = held[t][i].how
           /\ list[j].len =< size[list[j].b]
  PROVE  Shrinks
<1> USE DEF Guarded, Shape
<1>1. held' \in [Task -> Seq(Handle)] /\ held'[t] = list /\ \A u \in Task : u # t => held'[u] = held[u]
  BY DEF ListsOK
<1>2. \A u \in Task : Len(held'[u]) =< MaxList BY <1>1 DEF ListsOK, ListOK
<1>3. ASSUME NEW u \in Task, NEW j \in DOMAIN held'[u]
      PROVE  /\ \E i \in DOMAIN held[u] : held'[u][j].b = held[u][i].b /\ held'[u][j].how = held[u][i].how
             /\ held'[u][j].len =< size[held'[u][j].b]
  <2>1. CASE u = t BY <2>1, <1>1
  <2>2. CASE u # t BY <2>2, <1>1 DEF Memory
  <2> QED BY <2>1, <2>2
<1> QED BY <1>1, <1>2, <1>3 DEF Shrinks

LEMMA DropHandlesGuarded == ASSUME Guarded, NEW t \in Task, DropHandles(t) PROVE Guarded'
<1> USE DEF Guarded, DropHandles
<1>1. arcs' \in [Buf -> SUBSET Task] BY DEF Shape, BufsOK
<1>2. BufsOK' /\ KeepsUsed BY <1>1, ReclaimKeeps DEF Shape
<1>3. Shrinks
  <2>1. <<>> \in Seq(Handle) /\ Len(<<>>) = 0 /\ DOMAIN <<>> = {} OBVIOUS
  <2>2. 0 =< MaxList BY TransfersAssumption DEF TransfersAssumption
  <2> QED BY <2>1, <2>2, ListShrinks
<1>4. \A c \in Buf : maker[c] # None => pc'[maker[c]] = "idle" BY DEF Memory, ops
<1>5. ListsOK' /\ Memory' /\ Exclusive' BY <1>2, <1>3, <1>4, ShrinkKeeps
<1>6. \A u \in Task : InHw(u) => held'[u] = held[u] BY DEF Running, InHw, Shape, ListsOK
<1>7. OpsOK' /\ Requests' /\ \A u \in Task : Delivered(u)' BY <1>6, OpsUnchanged
<1> QED BY <1>2, <1>5, <1>7 DEF Shape

\* A handle with another length within its region.
LEMMA Recut ==
  ASSUME Guarded, NEW t \in Task, NEW i \in DOMAIN held[t], NEW n \in 0..MaxSize,
         n =< size[held[t][i].b], NEW list, list = [held[t] EXCEPT ![i].len = n]
  PROVE  /\ list \in Seq(Handle) /\ Len(list) =< MaxList
         /\ \A j \in DOMAIN list :
              /\ \E k \in DOMAIN held[t] : list[j].b = held[t][k].b /\ list[j].how = held[t][k].how
              /\ list[j].len =< size[list[j].b]
<1> DEFINE s == held[t]
<1>1. s \in Seq(Handle) /\ Len(s) =< MaxList BY DEF Guarded, Shape, ListsOK, ListOK
<1>2. s[i] \in Handle BY <1>1
<1>3. [s[i] EXCEPT !.len = n] \in Handle /\ [s[i] EXCEPT !.len = n].b = s[i].b
      /\ [s[i] EXCEPT !.len = n].how = s[i].how /\ [s[i] EXCEPT !.len = n].len = n
  BY <1>2 DEF Handle
<1>4. list = [s EXCEPT ![i] = [s[i] EXCEPT !.len = n]] BY <1>1
<1>5. \A j \in DOMAIN s : s[j].len =< size[s[j].b] BY DEF Guarded, Memory
<1> HIDE DEF s
<1>6. /\ list \in Seq(Handle) /\ Len(list) = Len(s) /\ DOMAIN list = DOMAIN s
      /\ list[i] = [s[i] EXCEPT !.len = n] /\ \A j \in DOMAIN s : j # i => list[j] = s[j]
  BY <1>1, <1>3, <1>4 DEF s
<1>7. ASSUME NEW j \in DOMAIN list
      PROVE  /\ \E k \in DOMAIN s : list[j].b = s[k].b /\ list[j].how = s[k].how
             /\ list[j].len =< size[list[j].b]
  <2>1. CASE j = i BY <2>1, <1>3, <1>6 DEF s
  <2>2. CASE j # i BY <2>2, <1>5, <1>6
  <2> QED BY <2>1, <2>2
<1> QED BY <1>1, <1>6, <1>7 DEF s

LEMMA NewHeadGuarded ==
  ASSUME Guarded, NEW t \in Task, NEW i \in DOMAIN held[t], NEW n \in Cuts, NewHead(t, i, n)
  PROVE  Guarded'
<1> USE DEF Guarded
<1> DEFINE s == held[t]
           list == IF n =< s[i].len THEN [s EXCEPT ![i].len = n] ELSE RemoveAt(s, i)
<1>0. Running(t) /\ held' = [held EXCEPT ![t] = list] /\ UNCHANGED <<arcs, ops>> /\ Reclaim
  BY DEF NewHead
<1>1. arcs' \in [Buf -> SUBSET Task] BY <1>0 DEF Shape, BufsOK
<1>2. BufsOK' /\ KeepsUsed BY <1>0, <1>1, ReclaimKeeps DEF Shape
<1>3. s \in Seq(Handle) /\ Len(s) =< MaxList /\ \A j \in DOMAIN s : s[j].len =< size[s[j].b]
  BY DEF Shape, ListsOK, ListOK, Memory
<1>4. /\ list \in Seq(Handle) /\ Len(list) =< MaxList
      /\ \A j \in DOMAIN list :
           /\ \E k \in DOMAIN s : list[j].b = s[k].b /\ list[j].how = s[k].how
           /\ list[j].len =< size[list[j].b]
  <2>1. CASE n =< s[i].len
    <3>1. s[i] \in Handle /\ s[i].b \in Buf BY HandleOf
    <3>2. s[i].len \in 0..MaxSize /\ MaxSize \in Nat BY <3>1, SizesBounded, SizesNat DEF Handle
    <3>3. n \in Nat BY TransfersAssumption DEF TransfersAssumption
    <3>4. size[s[i].b] \in Nat BY <3>1, SizesNat DEF Shape, BufsOK
    <3>5. n \in 0..MaxSize /\ n =< size[s[i].b] BY <2>1, <1>3, <3>2, <3>3, <3>4
    <3> DEFINE cut == [s EXCEPT ![i].len = n]
    <3>6. list = cut BY <2>1
    <3>7. /\ cut \in Seq(Handle) /\ Len(cut) =< MaxList
          /\ \A j \in DOMAIN cut :
               /\ \E k \in DOMAIN s : cut[j].b = s[k].b /\ cut[j].how = s[k].how
               /\ cut[j].len =< size[cut[j].b]
      BY <3>5, Recut
    <3> HIDE DEF list, cut
    <3> QED BY <3>6, <3>7
  <2>2. CASE ~(n =< s[i].len)
    <3>1. list = RemoveAt(s, i) BY <2>2
    <3>2. /\ list \in Seq(Handle) /\ Len(list) = Len(s) - 1
          /\ \A j \in DOMAIN list : \E k \in DOMAIN s : list[j] = s[k]
      BY <1>3, <3>1, RemoveAtElements
    <3>3. Len(list) =< MaxList BY <1>3, <3>2, TransfersAssumption DEF TransfersAssumption
    <3> HIDE DEF list, s
    <3> QED BY <1>3, <3>2, <3>3
  <2> QED BY <2>1, <2>2
<1> HIDE DEF list
<1>5. Shrinks BY <1>0, <1>4, ListShrinks
<1>6. \A c \in Buf : maker[c] # None => pc'[maker[c]] = "idle" BY <1>0 DEF Memory, ops
<1>7. ListsOK' /\ Memory' /\ Exclusive' BY <1>2, <1>5, <1>6, ShrinkKeeps
<1>8. \A u \in Task : InHw(u) => held'[u] = held[u] BY <1>0 DEF Running, InHw, Shape, ListsOK
<1>9. OpsOK' /\ Requests' /\ \A u \in Task : Delivered(u)' BY <1>0, <1>8, OpsUnchanged
<1> QED BY <1>2, <1>7, <1>9 DEF Shape

LEMMA IntoInnerGuarded ==
  ASSUME Guarded, NEW t \in Task, NEW i \in DOMAIN held[t], IntoInner(t, i)
  PROVE  Guarded'
<1> USE DEF Guarded
<1> DEFINE s == held[t]
           n == size[s[i].b]
           list == [s EXCEPT ![i].len = n]
<1>0. Running(t) /\ held' = [held EXCEPT ![t] = list] /\ UNCHANGED <<bufs, ops>>
  BY DEF IntoInner
<1>1. BufsOK' /\ KeepsUsed BY <1>0 DEF Shape, BufsOK, KeepsUsed, bufs
<1>2. /\ list \in Seq(Handle) /\ Len(list) =< MaxList
      /\ \A j \in DOMAIN list :
           /\ \E k \in DOMAIN s : list[j].b = s[k].b /\ list[j].how = s[k].how
           /\ list[j].len =< size[list[j].b]
  <2>1. s[i].b \in Buf BY HandleOf
  <2>2. n \in Sizes \cup {0} BY <2>1 DEF Shape, BufsOK
  <2>3. n \in 0..MaxSize /\ n =< n BY <2>2, SizesBounded, SizesNat
  <2> QED BY <2>3, Recut
<1> HIDE DEF list
<1>3. Shrinks BY <1>0, <1>2, ListShrinks DEF bufs
<1>4. \A c \in Buf : maker[c] # None => pc'[maker[c]] = "idle" BY <1>0 DEF Memory, ops
<1>5. ListsOK' /\ Memory' /\ Exclusive' BY <1>1, <1>3, <1>4, ShrinkKeeps
<1>6. \A u \in Task : InHw(u) => held'[u] = held[u] BY <1>0 DEF Running, InHw, Shape, ListsOK
<1>7. OpsOK' /\ Requests' /\ \A u \in Task : Delivered(u)' BY <1>0, <1>6, OpsUnchanged
<1> QED BY <1>1, <1>5, <1>7 DEF Shape

-------------------------------------------------------------------------------
(***************************************************************************)
(* The operations                                                           *)
(***************************************************************************)
\* A step of the operation of one task that leaves the lists and buffers alone.
LEMMA OpStep ==
  ASSUME Guarded, NEW t \in Task, UNCHANGED <<bufs, held>>, OpsOK',
         InHw(t) \/ pc[t] \in {"poisoned", "done"} \/ Running(t),
         \A u \in Task : u # t => SameOp(u),
         ((InHw(t) => Requested(t)) /\ Delivered(t))'
  PROVE  Guarded'
<1> USE DEF Guarded, Shape
<1>1. BufsOK' /\ ListsOK' BY DEF BufsOK, ListsOK, bufs
<1>2. Exclusive' BY DEF Exclusive, bufs
<1>3. \A u \in Task : u # t => pc'[u] = pc[u] BY DEF SameOp
<1>4. Memory' BY <1>3, MakersIdle DEF Memory, bufs
<1>5. Requests' /\ \A u \in Task : Delivered(u)' BY OpsFrame
<1> QED BY <1>1, <1>2, <1>4, <1>5

LEMMA SubmitGuarded ==
  ASSUME Guarded, NEW t \in Task, NEW k \in {"send", "recv", "write", "read"}, NEW imm \in Option,
         Submit(t, k, imm)
  PROVE  Guarded'
<1> USE DEF Guarded, Shape, Submit
<1>1. Running(t) /\ pc[t] = "idle" BY DEF Allowed, Running
<1>2. /\ pc'[t] = "posted" /\ req'[t] = Request(k, held[t], imm)
      /\ msg'[t] = IF k # "send" THEN None
                   ELSE [n |-> Total([i \in DOMAIN held[t] |-> held[t][i].len]), imm |-> imm]
      /\ \A u \in Task : u # t => SameOp(u)
  BY DEF OpsOK, SameOp
<1>3. OpsOK' BY <1>1 DEF OpsOK
<1>4. Requested(t)'
  <2> DEFINE sgl == [i \in DOMAIN held[t] |-> Sge(held[t][i])]
  <2>1. held[t] \in Seq(Handle) BY DEF ListsOK
  <2>2. /\ req'[t].sg_list = sgl
        /\ req'[t].opcode = Opcode(k, imm)
        /\ req'[t].imm_data = IF imm = None THEN 0 ELSE imm
        /\ req'[t].rdma = (k \in {"write", "read"})
    BY <1>2, <2>1, AllConverted DEF Request
  <2>3. Opcode(k, imm) \in {"Recv", "Read"} => k \in {"recv", "read"}
    BY DEF Opcode
  <2>4. k \in {"write", "read"} => Opcode(k, imm) # "Recv" BY DEF Opcode
  <2>5. ASSUME Opcode(k, imm) \in {"Send", "SendWithImm"} PROVE msg'[t] = Message(t)'
    <3>1. k = "send" /\ Opcode(k, imm) = IF imm = None THEN "Send" ELSE "SendWithImm"
      BY <2>5 DEF Opcode
    <3>2. [i \in DOMAIN sgl |-> sgl[i].length] = [i \in DOMAIN held[t] |-> held[t][i].len]
      BY DEF Sge
    <3>3. Bytes(t)' = Total([i \in DOMAIN held[t] |-> held[t][i].len])
      <4> HIDE DEF sgl
      <4>1. Bytes(t)' = Total([i \in DOMAIN sgl |-> sgl[i].length]) BY <2>2 DEF Bytes
      <4> QED BY <3>2, <4>1
    <3>4. (IF req'[t].opcode = "SendWithImm" THEN req'[t].imm_data ELSE None) = imm
      BY <2>2, <3>1
    <3> QED BY <1>2, <3>1, <3>3, <3>4 DEF Message
  <2> QED BY <2>2, <2>3, <2>4, <2>5 DEF Requested, Allowed
<1>5. Delivered(t)' BY <1>2 DEF Delivered
<1> QED BY <1>1, <1>2, <1>3, <1>4, <1>5, OpStep

LEMMA SubmitPanicsGuarded == ASSUME Guarded, NEW t \in Task, SubmitPanics(t) PROVE Guarded'
<1> USE DEF Guarded, Shape, SubmitPanics
<1>1. pc'[t] = "poisoned" /\ pc[t] = "idle" /\ \A u \in Task : u # t => SameOp(u)
  BY DEF OpsOK, SameOp, Running
<1>2. OpsOK' BY <1>1 DEF OpsOK
<1>3. ((InHw(t) => Requested(t)) /\ Delivered(t))' BY <1>1 DEF InHw, Delivered
<1> QED BY <1>1, <1>2, <1>3, OpStep

LEMMA OutputGuarded == ASSUME Guarded, NEW t \in Task, Output(t) PROVE Guarded'
<1> USE DEF Guarded, Shape, Output
<1>1. pc'[t] = "idle" /\ \A u \in Task : u # t => SameOp(u) BY DEF OpsOK, SameOp
<1>2. OpsOK' BY <1>1 DEF OpsOK
<1>3. ((InHw(t) => Requested(t)) /\ Delivered(t))' BY <1>1 DEF InHw, Delivered
<1> QED BY <1>1, <1>2, <1>3, OpStep

LEMMA CancelGuarded == ASSUME Guarded, NEW t \in Task, Cancel(t) PROVE Guarded'
<1> USE DEF Guarded
<1> DEFINE list == IF pc[t] = "posted" THEN held[t] ELSE <<>>
<1>0. /\ pc[t] \in {"posted", "poisoned", "done"}
      /\ pc'[t] = IF pc[t] = "posted" THEN "orphan" ELSE "idle"
      /\ req'[t] = IF pc[t] = "posted" THEN req[t] ELSE None
      /\ msg'[t] = IF pc[t] = "posted" THEN msg[t] ELSE None
      /\ held' = [held EXCEPT ![t] = list]
      /\ UNCHANGED arcs /\ Reclaim
  BY DEF Cancel, Shape, OpsOK
<1>1. \A u \in Task : u # t => SameOp(u) /\ pc'[u] = pc[u]
  BY DEF Cancel, Shape, OpsOK, ListsOK, SameOp
<1>2. OpsOK' BY DEF Cancel, Shape, OpsOK
<1>3. arcs' \in [Buf -> SUBSET Task] BY <1>0 DEF Shape, BufsOK
<1>4. BufsOK' /\ KeepsUsed BY <1>0, <1>3, ReclaimKeeps DEF Shape
<1>5. Shrinks
  <2>1. CASE pc[t] = "posted"
    <3>1. list = held[t] BY <2>1
    <3>2. held[t] \in Seq(Handle) /\ Len(held[t]) =< MaxList BY DEF Shape, ListsOK, ListOK
    <3>3. \A j \in DOMAIN held[t] : held[t][j].len =< size[held[t][j].b] BY DEF Memory
    <3> HIDE DEF list
    <3> QED BY <1>0, <3>1, <3>2, <3>3, ListShrinks
  <2>2. CASE pc[t] # "posted"
    <3>1. list = <<>> BY <2>2
    <3>2. <<>> \in Seq(Handle) /\ Len(<<>>) = 0 /\ DOMAIN <<>> = {} OBVIOUS
    <3>3. 0 =< MaxList BY TransfersAssumption DEF TransfersAssumption
    <3> HIDE DEF list
    <3> QED BY <1>0, <3>1, <3>2, <3>3, ListShrinks
  <2> QED BY <2>1, <2>2
<1>6. \A c \in Buf : maker[c] # None => pc'[maker[c]] = "idle" BY <1>0, <1>1, MakersIdle DEF InHw
<1>7. ListsOK' /\ Memory' /\ Exclusive' BY <1>4, <1>5, <1>6, ShrinkKeeps
<1>8. ((InHw(t) => Requested(t)) /\ Delivered(t))'
  <2>1. Delivered(t)' BY <1>0 DEF Delivered
  <2>2. ASSUME InHw(t)' PROVE Requested(t)'
    <3>1. pc[t] = "posted" BY <1>0, <2>2 DEF InHw
    <3>2. held'[t] = held[t] /\ req'[t] = req[t] /\ msg'[t] = msg[t]
      BY <1>0, <3>1 DEF Shape, ListsOK
    <3>3. Requested(t) BY <3>1 DEF Requests, InHw
    <3>4. Message(t)' = Message(t) BY <3>2 DEF Message, Bytes
    <3> QED BY <3>2, <3>3, <3>4 DEF Requested
  <2> QED BY <2>1, <2>2
<1>9. Requests' /\ \A u \in Task : Delivered(u)' BY <1>1, <1>8, OpsFrame
<1> QED BY <1>2, <1>4, <1>7, <1>9 DEF Shape

\* Work::complete, for the requests in DOMAIN wcs: an orphan's handles go, and a
\* task gets its result.
LEMMA CompletedParts ==
  ASSUME Guarded, NEW wcs, DOMAIN wcs \subseteq Task, \A t \in DOMAIN wcs : InHw(t),
         Completed(wcs), DOMAIN msg' = Task
  PROVE  /\ Shape' /\ Memory' /\ Exclusive'
         /\ \A t \in Task \ DOMAIN wcs :
              pc'[t] = pc[t] /\ req'[t] = req[t] /\ res'[t] = res[t] /\ held'[t] = held[t]
         /\ \A t \in DOMAIN wcs :
              /\ pc'[t] \in {"idle", "done"}
              /\ pc'[t] = "done" => req'[t] = req[t] /\ res'[t] = OpComplete(t, wcs[t]) /\ pc[t] = "posted"
<1> USE DEF Guarded
<1> DEFINE orphans == {t \in DOMAIN wcs : pc[t] = "orphan"}
<1>1. /\ pc' = [t \in Task |-> IF t \in orphans THEN "idle"
                               ELSE IF t \in DOMAIN wcs \ orphans THEN "done" ELSE pc[t]]
      /\ res' = [t \in Task |-> IF t \in DOMAIN wcs \ orphans THEN OpComplete(t, wcs[t]) ELSE res[t]]
      /\ req' = [t \in Task |-> IF t \in orphans THEN None ELSE req[t]]
      /\ held' = [t \in Task |-> IF t \in orphans THEN <<>> ELSE held[t]]
      /\ UNCHANGED arcs /\ Reclaim
  BY DEF Completed
<1>2. \A t \in Task \ DOMAIN wcs :
        pc'[t] = pc[t] /\ req'[t] = req[t] /\ res'[t] = res[t] /\ held'[t] = held[t]
  BY <1>1
<1>3. \A t \in DOMAIN wcs :
        /\ pc'[t] \in {"idle", "done"}
        /\ pc'[t] = "done" => req'[t] = req[t] /\ res'[t] = OpComplete(t, wcs[t]) /\ pc[t] = "posted"
  BY <1>1 DEF InHw
<1>4. OpsOK'
  <2>1. pc' \in [Task -> {"idle", "posted", "orphan", "poisoned", "done"}] BY <1>1 DEF Shape, OpsOK
  <2>2. DOMAIN req' = Task /\ DOMAIN res' = Task BY <1>1
  <2>3. ASSUME NEW t \in Task
        PROVE  /\ pc'[t] \in {"idle", "poisoned"} => req'[t] = None
               /\ pc'[t] # "done" => res'[t] = None
    <3>1. CASE t \in orphans BY <1>1, <3>1 DEF Shape, OpsOK
    <3>2. CASE t \in DOMAIN wcs \ orphans BY <1>1, <3>2
    <3>3. CASE t \notin DOMAIN wcs BY <1>2, <3>3 DEF Shape, OpsOK
    <3> QED BY <3>1, <3>2, <3>3
  <2> QED BY <2>1, <2>2, <2>3 DEF OpsOK
<1>5. arcs' \in [Buf -> SUBSET Task] BY <1>1 DEF Shape, BufsOK
<1>6. BufsOK' /\ KeepsUsed BY <1>1, <1>5, ReclaimKeeps DEF Shape
<1>7. Shrinks
  <2>1. <<>> \in Seq(Handle) /\ Len(<<>>) = 0 /\ DOMAIN <<>> = {} OBVIOUS
  <2>2. 0 =< MaxList BY TransfersAssumption DEF TransfersAssumption
  <2>3. \A t \in Task : held'[t] = held[t] \/ held'[t] = <<>> BY <1>1
  <2>4. held' \in [Task -> Seq(Handle)] BY <1>1, <2>1 DEF Shape, ListsOK
  <2>5. \A t \in Task : Len(held'[t]) =< MaxList BY <2>1, <2>2, <2>3 DEF Shape, ListsOK, ListOK
  <2>6. ASSUME NEW t \in Task, NEW j \in DOMAIN held'[t]
        PROVE  /\ \E i \in DOMAIN held[t] : held'[t][j].b = held[t][i].b /\ held'[t][j].how = held[t][i].how
               /\ held'[t][j].len =< size[held'[t][j].b]
    <3>1. held'[t] = held[t] BY <2>1, <2>3, <2>6
    <3> QED BY <3>1 DEF Memory
  <2> QED BY <1>1, <2>4, <2>5, <2>6 DEF Shrinks
<1>8. \A c \in Buf : maker[c] # None => pc'[maker[c]] = "idle"
  <2>1. \A c \in Buf : maker[c] # None => maker[c] \in Task /\ maker[c] \notin DOMAIN wcs
    BY DEF Shape, BufsOK, Memory, InHw
  <2> QED BY <1>2, <2>1 DEF Memory
<1>9. ListsOK' /\ Memory' /\ Exclusive' BY <1>6, <1>7, <1>8, ShrinkKeeps
<1> QED BY <1>2, <1>3, <1>4, <1>6, <1>9 DEF Shape

\* The device's steps from there: the others' operations are as they were.
LEMMA CompletedGuarded ==
  ASSUME Guarded, NEW wcs, DOMAIN wcs \subseteq Task, \A t \in DOMAIN wcs : InHw(t),
         Completed(wcs), DOMAIN msg' = Task,
         \A t \in Task \ DOMAIN wcs : msg'[t] = msg[t],
         \A t \in DOMAIN wcs : Delivered(t)'
  PROVE  Guarded'
<1>1. Shape' /\ Memory' /\ Exclusive' BY CompletedParts
<1>2. \A t \in Task \ DOMAIN wcs : SameOp(t) BY CompletedParts DEF SameOp
<1>3. \A t \in DOMAIN wcs : ~InHw(t)'
  <2>1. \A t \in DOMAIN wcs : pc'[t] \in {"idle", "done"} BY CompletedParts
  <2> QED BY <2>1 DEF InHw
<1>4. Requests' /\ \A t \in Task : Delivered(t)' BY <1>2, <1>3, OpsFrame
<1> QED BY <1>1, <1>4 DEF Guarded

LEMMA FlushedGuarded ==
  ASSUME Guarded, NEW t \in Task, NEW junk \in Wc, Flushed(t, junk)
  PROVE  Guarded'
<1> DEFINE wcs == [u \in {t} |-> Error(junk, WR_FLUSH_ERR)]
<1>1. DOMAIN wcs = {t} /\ wcs[t].status = WR_FLUSH_ERR BY DEF Error, Wc
<1>2. Completed(wcs) /\ InHw(t) /\ msg' = [msg EXCEPT ![t] = None] BY DEF Flushed
<1> HIDE DEF wcs
<1>3. DOMAIN msg' = Task /\ \A u \in Task \ {t} : msg'[u] = msg[u]
  BY <1>2 DEF Guarded, Shape, OpsOK
<1>4. Delivered(t)'
  <2> SUFFICES ASSUME pc'[t] = "done" PROVE ~Ok(t)' BY DEF Delivered
  <2>1. res'[t] = OpComplete(t, wcs[t]) BY <1>1, <1>2, <1>3, CompletedParts
  <2> QED BY <1>1, <2>1 DEF OpComplete, Ok, SUCCESS, WR_FLUSH_ERR
<1> QED BY <1>1, <1>2, <1>3, <1>4, CompletedGuarded

LEMMA RdmaDoneGuarded ==
  ASSUME Guarded, NEW t \in Task, NEW junk \in Wc, RdmaDone(t, junk)
  PROVE  Guarded'
<1> DEFINE wcs == [u \in {t} |-> [junk EXCEPT !.byte_len = IF req[t].opcode = "Read" THEN Bytes(t) ELSE @]]
<1>1. DOMAIN wcs = {t} OBVIOUS
<1>2. Completed(wcs) /\ InHw(t) /\ req[t].rdma /\ UNCHANGED msg BY DEF RdmaDone
<1> HIDE DEF wcs
<1>3. DOMAIN msg' = Task BY <1>2 DEF Guarded, Shape, OpsOK
<1>4. Delivered(t)'
  <2> SUFFICES ASSUME pc'[t] = "done" PROVE req'[t].opcode # "Recv" BY DEF Delivered
  <2>1. req'[t] = req[t] BY <1>1, <1>2, <1>3, CompletedParts
  <2>2. Requested(t) BY <1>2 DEF Guarded, Requests
  <2> QED BY <1>2, <2>1, <2>2 DEF Requested
<1> QED BY <1>1, <1>2, <1>3, <1>4, CompletedGuarded

\* A receive that succeeds has the message of its sender.
LEMMA DeliverGuarded ==
  ASSUME Guarded, NEW s \in Task, NEW r \in Task \ {s}, NEW junk \in Wc, Deliver(s, r, junk)
  PROVE  Guarded'
<1> DEFINE imm == req[s].opcode = "SendWithImm"
           fits == Bytes(s) =< Bytes(r)
           got == [junk EXCEPT !.byte_len = Bytes(s), !.with_imm = imm,
                               !.imm_data = IF imm THEN req[s].imm_data ELSE @]
           wcs == [t \in {s, r} |->
                     IF ~fits THEN Error(junk, IF t = r THEN LOC_LEN_ERR ELSE REM_INV_REQ_ERR)
                     ELSE IF t = r THEN got ELSE junk]
<1>1. /\ InHw(s) /\ InHw(r)
      /\ req[s].opcode \in {"Send", "SendWithImm"} /\ req[r].opcode = "Recv"
      /\ Completed(wcs)
      /\ msg' = [t \in Task |-> IF t \in {s, r} /\ pc[t] = "posted" /\ fits THEN msg[s]
                                ELSE IF t \in {s, r} THEN None ELSE msg[t]]
  BY DEF Deliver
<1>2. DOMAIN wcs = {s, r} OBVIOUS
<1>3. ~fits => wcs[r].status = LOC_LEN_ERR BY DEF Error, Wc
<1>4. fits => wcs[r] = got OBVIOUS
<1>5. got.byte_len = Bytes(s) /\ got.status = junk.status /\ got.with_imm = imm
      /\ (imm => got.imm_data = req[s].imm_data)
  BY DEF Wc
<1> HIDE DEF wcs, got, fits
<1>6. DOMAIN msg' = Task /\ \A t \in Task \ {s, r} : msg'[t] = msg[t] BY <1>1
<1>7. \A t \in {s, r} : pc'[t] = "done" =>
        req'[t] = req[t] /\ res'[t] = OpComplete(t, wcs[t]) /\ pc[t] = "posted"
  BY <1>1, <1>2, <1>6, CompletedParts
<1>8. Delivered(s)' BY <1>1, <1>7 DEF Delivered
<1>9. Delivered(r)'
  <2> SUFFICES ASSUME pc'[r] = "done", Ok(r)'
               PROVE  msg'[r] = [n |-> res'[r].byte_len, imm |-> res'[r].imm]
    BY DEF Delivered
  <2>1. res'[r] = OpComplete(r, wcs[r]) /\ pc[r] = "posted" BY <1>7
  <2>2. /\ res'[r].status = wcs[r].status
        /\ res'[r].byte_len = wcs[r].byte_len
        /\ res'[r].imm = ImmData(wcs[r])
    BY <1>1, <2>1 DEF OpComplete
  <2>3. fits BY <1>3, <2>2 DEF Ok, SUCCESS, LOC_LEN_ERR
  <2>4. msg'[r] = msg[s] BY <1>1, <2>1, <2>3
  <2>5. msg[s] = Message(s) BY <1>1 DEF Guarded, Requests, Requested
  <2>6. res'[r].byte_len = Bytes(s) BY <1>4, <1>5, <2>2, <2>3
  <2>7. res'[r].imm = IF imm THEN req[s].imm_data ELSE None
    BY <1>4, <1>5, <2>2, <2>3 DEF ImmData
  <2> QED BY <2>4, <2>5, <2>6, <2>7 DEF Message
<1> QED BY <1>1, <1>2, <1>6, <1>8, <1>9, CompletedGuarded

-------------------------------------------------------------------------------
(***************************************************************************)
(* The theorems                                                             *)
(***************************************************************************)
LEMMA NextGuarded == Guarded /\ [Next]_vars => Guarded'
<1> SUFFICES ASSUME Guarded, [Next]_vars PROVE Guarded' OBVIOUS
<1>1. CASE Device BY <1>1, RdmaDoneGuarded, FlushedGuarded, DeliverGuarded DEF Device
<1>2. ASSUME NEW t \in Task, Handles(t) PROVE Guarded'
  BY <1>2, IntoInnerGuarded, NewHeadGuarded, DropHandlesGuarded DEF Handles
<1>3. ASSUME NEW t \in Task, Operations(t) PROVE Guarded'
  BY <1>3, SubmitGuarded, SubmitPanicsGuarded, CancelGuarded, OutputGuarded DEF Operations
<1>4. ASSUME NEW t \in Task, NEW b \in Buf, Buffers(t, b) PROVE Guarded'
  BY <1>4, NewZeroedGuarded, RegisteredGuarded, RegisterFailsGuarded, CloneGuarded,
     DropCloneGuarded, LockGuarded DEF Buffers
<1>5. CASE UNCHANGED vars
  <2>1. UNCHANGED <<mem, size, maker, arcs, held, pc, req, res, msg>>
    BY <1>5 DEF vars, bufs, ops
  <2>2. Shape' BY <2>1 DEF Guarded, Shape, BufsOK, ListsOK, OpsOK
  <2>3. Memory' /\ Exclusive' BY <2>1 DEF Guarded, Memory, Exclusive
  <2>4. OpsOK' /\ Requests' /\ \A t \in Task : Delivered(t)' BY <2>1, OpsUnchanged DEF ops
  <2> QED BY <2>2, <2>3, <2>4 DEF Guarded
<1> QED BY <1>1, <1>2, <1>3, <1>4, <1>5 DEF Next

LEMMA SpecGuarded == Spec => []Guarded
BY InitGuarded, NextGuarded, PTL DEF Spec

-------------------------------------------------------------------------------
(***************************************************************************)
(* The handles of one list                                                  *)
(***************************************************************************)
\* Two handles of a list are to two buffers, or both read.
Apart(list) ==
  \A i, j \in DOMAIN list : i # j /\ list[i].b = list[j].b => list[i].how = "read"
Distinct == \A t \in Task : Apart(held[t])

LEMMA AppendApart ==
  ASSUME NEW s \in Seq(Handle), Apart(s), NEW h \in Handle,
         \A i \in DOMAIN s : s[i].b = h.b => s[i].how = "read" /\ h.how = "read"
  PROVE  Apart(Append(s, h))
<1> DEFINE a == Append(s, h)
<1>1. /\ DOMAIN a = 1..(Len(s) + 1) /\ DOMAIN s = 1..Len(s) /\ Len(s) \in Nat
      /\ a[Len(s) + 1] = h /\ \A j \in 1..Len(s) : a[j] = s[j]
  OBVIOUS
<1> HIDE DEF a
<1> SUFFICES ASSUME NEW i \in DOMAIN a, NEW j \in DOMAIN a, i # j, a[i].b = a[j].b
             PROVE  a[i].how = "read"
  BY DEF Apart, a
<1>2. CASE i = Len(s) + 1
  <2>1. j \in DOMAIN s /\ a[j] = s[j] BY <1>1, <1>2
  <2> QED BY <1>1, <1>2, <2>1
<1>3. CASE j = Len(s) + 1
  <2>1. i \in DOMAIN s /\ a[i] = s[i] BY <1>1, <1>3
  <2> QED BY <1>1, <1>3, <2>1
<1>4. CASE i # Len(s) + 1 /\ j # Len(s) + 1
  <2>1. i \in DOMAIN s /\ a[i] = s[i] /\ j \in DOMAIN s /\ a[j] = s[j] BY <1>1, <1>4
  <2> QED BY <2>1 DEF Apart
<1> QED BY <1>2, <1>3, <1>4

LEMMA RemoveAtApart ==
  ASSUME NEW s \in Seq(Handle), Apart(s), NEW i \in DOMAIN s
  PROVE  Apart(RemoveAt(s, i))
<1> DEFINE l == RemoveAt(s, i)
<1>1. l \in Seq(Handle) /\ \A j \in DOMAIN l : Before(i, j) \in DOMAIN s /\ l[j] = s[Before(i, j)]
  BY RemoveAtElements
<1> HIDE DEF l
<1>2. \A j \in DOMAIN l : j \in Nat BY <1>1
<1>3. i \in Nat OBVIOUS
<1> SUFFICES ASSUME NEW k \in DOMAIN l, NEW j \in DOMAIN l, k # j, l[k].b = l[j].b
             PROVE  l[k].how = "read"
  BY DEF Apart, l
<1>4. Before(i, k) # Before(i, j) BY <1>2, <1>3 DEF Before
<1> QED BY <1>1, <1>4 DEF Apart

LEMMA RecutApart ==
  ASSUME NEW s \in Seq(Handle), Apart(s), NEW i \in DOMAIN s, NEW n
  PROVE  Apart([s EXCEPT ![i].len = n])
<1> DEFINE l == [s EXCEPT ![i].len = n]
<1>1. s[i] \in Handle OBVIOUS
<1>2. DOMAIN l = DOMAIN s /\ l[i] = [s[i] EXCEPT !.len = n] /\ \A j \in DOMAIN s : j # i => l[j] = s[j]
  OBVIOUS
<1>3. l[i].b = s[i].b /\ l[i].how = s[i].how BY <1>1, <1>2 DEF Handle
<1> HIDE DEF l
<1>4. \A j \in DOMAIN l : j \in DOMAIN s /\ l[j].b = s[j].b /\ l[j].how = s[j].how BY <1>2, <1>3
<1>5. Apart(l) BY <1>4 DEF Apart
<1> QED BY <1>5 DEF l

\* A step that gives one task another list.
LEMMA OneList ==
  ASSUME Guarded, Distinct, NEW t \in Task, NEW list, held' = [held EXCEPT ![t] = list], Apart(list)
  PROVE  Distinct'
<1>1. \A u \in Task : held'[u] = IF u = t THEN list ELSE held[u] BY DEF Guarded, Shape, ListsOK
<1> QED BY <1>1 DEF Distinct

\* A step that drops lists.
LEMMA DroppedLists ==
  ASSUME Distinct, \A t \in Task : held'[t] = held[t] \/ held'[t] = <<>>
  PROVE  Distinct'
<1>1. Apart(<<>>) BY DEF Apart
<1> SUFFICES ASSUME NEW t \in Task PROVE Apart(held'[t]) BY DEF Distinct
<1> QED BY <1>1 DEF Distinct

LEMMA NextDistinct == Guarded /\ Distinct /\ [Next]_vars => Distinct'
<1> SUFFICES ASSUME Guarded, Distinct, [Next]_vars PROVE Distinct' OBVIOUS
<1>0. \A t \in Task : held[t] \in Seq(Handle) BY DEF Guarded, Shape, ListsOK
<1>1. CASE Device
  <2>1. PICK wcs : Completed(wcs) BY <1>1 DEF Device, RdmaDone, Flushed, Deliver
  <2>2. \A t \in Task : held'[t] = held[t] \/ held'[t] = <<>> BY <2>1 DEF Completed
  <2> QED BY <2>2, DroppedLists
<1>2. ASSUME NEW t \in Task, Handles(t) PROVE Distinct'
  <2>0. Apart(held[t]) BY DEF Distinct
  <2>1. ASSUME NEW i \in DOMAIN held[t], IntoInner(t, i) PROVE Distinct'
    <3>1. held' = [held EXCEPT ![t] = [held[t] EXCEPT ![i].len = size[held[t][i].b]]]
      BY <2>1 DEF IntoInner
    <3>2. Apart([held[t] EXCEPT ![i].len = size[held[t][i].b]]) BY <1>0, <2>0, RecutApart
    <3> QED BY <3>1, <3>2, OneList
  <2>2. ASSUME NEW i \in DOMAIN held[t], NEW n \in Cuts, NewHead(t, i, n) PROVE Distinct'
    <3> DEFINE cut == [held[t] EXCEPT ![i].len = n]
               rest == RemoveAt(held[t], i)
               list == IF n =< held[t][i].len THEN cut ELSE rest
    <3>1. held' = [held EXCEPT ![t] = list] BY <2>2 DEF NewHead
    <3>2. Apart(cut) BY <1>0, <2>0, RecutApart
    <3>3. Apart(rest) BY <1>0, <2>0, RemoveAtApart
    <3> HIDE DEF cut, rest
    <3>4. Apart(list) BY <3>2, <3>3
    <3> HIDE DEF list
    <3> QED BY <3>1, <3>4, OneList
  <2>3. CASE DropHandles(t)
    <3>1. held' = [held EXCEPT ![t] = <<>>] BY <2>3 DEF DropHandles
    <3> QED BY <3>1, DroppedLists DEF Guarded, Shape, ListsOK
  <2> QED BY <1>2, <2>1, <2>2, <2>3 DEF Handles
<1>3. ASSUME NEW t \in Task, Operations(t) PROVE Distinct'
  <2>1. \A u \in Task : held'[u] = held[u] \/ held'[u] = <<>>
    BY <1>3 DEF Operations, Submit, SubmitPanics, Cancel, Output, Guarded, Shape, ListsOK
  <2> QED BY <2>1, DroppedLists
<1>4. ASSUME NEW t \in Task, NEW b \in Buf, Buffers(t, b) PROVE Distinct'
  <2>1. CASE UNCHANGED held BY <2>1 DEF Distinct
  <2>2. ASSUME NEW how, NEW h \in Handle, h.b = b, h.how = how,
               held' = [held EXCEPT ![t] = Append(held[t], h)],
               \A i \in DOMAIN held[t] : held[t][i].b = b => held[t][i].how = "read" /\ how = "read"
        PROVE  Distinct'
    <3>1. Apart(Append(held[t], h)) BY <1>0, <2>2, AppendApart DEF Distinct
    <3> QED BY <2>2, <3>1, OneList
  <2>3. CASE Registered(t, b) /\ held' # held
    <3> DEFINE h == [b |-> b, how |-> "own", len |-> size[b]]
    <3>1. h \in Handle /\ h.b = b /\ h.how = "own" BY WholeHandle DEF Guarded, Shape, BufsOK
    <3>2. held' = [held EXCEPT ![t] = Append(held[t], h)] BY <2>3 DEF Registered
    <3>3. mem[b] = "zeroed"
      BY <2>3, TransfersAssumption DEF TransfersAssumption, Registered, Guarded, Memory
    <3>4. \A i \in DOMAIN held[t] : held[t][i].b # b BY <3>3 DEF Guarded, Memory
    <3> HIDE DEF h
    <3> QED BY <2>2, <3>1, <3>2, <3>4
  <2>4. ASSUME NEW how \in {"read", "write"}, Lock(t, b, how) PROVE Distinct'
    <3> DEFINE h == [b |-> b, how |-> how, len |-> size[b]]
    <3>1. h \in Handle /\ h.b = b /\ h.how = how BY WholeHandle DEF Guarded, Shape, BufsOK
    <3>2. held' = [held EXCEPT ![t] = Append(held[t], h)] /\ ~Locked(b, how) /\ t \in arcs[b]
      BY <2>4 DEF Lock
    <3>3. ASSUME NEW i \in DOMAIN held[t], held[t][i].b = b
          PROVE  held[t][i].how = "read" /\ how = "read"
      <4>1. held[t][i].how # "write" /\ how # "write" BY <3>2, <3>3 DEF Locked
      <4>2. held[t][i].how # "own" BY <3>2, <3>3 DEF Guarded, Exclusive
      <4> QED BY <4>1, <4>2, HandleOf
    <3> HIDE DEF h
    <3> QED BY <2>2, <3>1, <3>2, <3>3
  <2>5. \/ UNCHANGED held \/ (Registered(t, b) /\ held' # held)
        \/ Lock(t, b, "read") \/ Lock(t, b, "write")
    BY <1>4 DEF Buffers, NewZeroed, RegisterFails, Clone, DropClone
  <2> QED BY <2>1, <2>3, <2>4, <2>5
<1>5. CASE UNCHANGED vars BY <1>5 DEF vars, Distinct
<1> QED BY <1>1, <1>2, <1>3, <1>4, <1>5 DEF Next

LEMMA SpecDistinct == Spec => []Distinct
<1>1. Init => Distinct BY DEF Init, Distinct, Apart
<1>2. Guarded /\ Distinct /\ [Next]_vars => Distinct' BY NextDistinct
<1> QED BY <1>1, <1>2, SpecGuarded, PTL DEF Spec

-------------------------------------------------------------------------------

\* Every list is of one type and within its bound, and an operation has a request
\* and a result only where the code has them.
THEOREM TypeCorrect == Spec => []TypeOK
<1>1. Guarded => TypeOK BY DEF Guarded, Shape, BufsOK, ListsOK, ListOK, OpsOK, TypeOK
<1> QED BY <1>1, SpecGuarded, PTL

\* The entries a request has are those of the list its task holds.
LEMMA EntryOf ==
  ASSUME Guarded, NEW t \in Task, InHw(t), NEW i \in DOMAIN req[t].sg_list
  PROVE  i \in DOMAIN held[t] /\ req[t].sg_list[i] = Sge(held[t][i])
BY DEF Guarded, Requests, Requested

\* Buf::drop, Head, RwBuf, convert_sglist and the futures' drop, together: what the
\* device works on was written by fill, lies in a registered region and ends there.
THEOREM DeviceMemoryRegistered == Spec => []DeviceMemory
<1>1. ASSUME Guarded PROVE DeviceMemory
  <2> SUFFICES ASSUME NEW t \in Task, InHw(t), NEW i \in DOMAIN req[t].sg_list
               PROVE  LET e == req[t].sg_list[i] IN
                      e \in SgeType /\ mem[e.addr] = "live" /\ e.length =< size[e.addr]
    BY DEF DeviceMemory
  <2>1. i \in DOMAIN held[t] /\ req[t].sg_list[i] = Sge(held[t][i]) BY <1>1, EntryOf
  <2>2. mem[held[t][i].b] = "live" /\ held[t][i].len =< size[held[t][i].b]
    BY <1>1, <2>1 DEF Guarded, Memory
  <2>3. held[t][i].b \in Buf /\ held[t][i].len \in Nat BY <1>1, <2>1, HandleOf
  <2> QED BY <2>1, <2>2, <2>3 DEF Sge, SgeType
<1> QED BY <1>1, SpecGuarded, PTL

\* The guards and the Buf an operation owns keep every other user off the memory
\* the device writes, and every writer off the memory it reads: other tasks, and the
\* other entries of the same list.
THEOREM DeviceMemoryUnshared == Spec => []NoRace
<1>1. ASSUME Guarded, Distinct PROVE NoRace
  <2> SUFFICES ASSUME NEW t \in Task, InHw(t), NEW u \in Task, NEW j \in DOMAIN held[u],
                      NEW i \in DOMAIN req[t].sg_list, <<u, j>> # <<t, i>>,
                      held[u][j].b = req[t].sg_list[i].addr
               PROVE  ~(req[t].opcode \in {"Recv", "Read"}) /\ held[u][j].how = "read"
    BY DEF NoRace
  <2>1. i \in DOMAIN held[t] /\ req[t].sg_list[i] = Sge(held[t][i]) BY <1>1, EntryOf
  <2>2. held[t][i].b = held[u][j].b BY <2>1 DEF Sge
  <2>3. held[t][i].how = "read" /\ held[u][j].how = "read"
    <3>1. CASE u # t BY <1>1, <2>1, <2>2, <3>1 DEF Guarded, Exclusive
    <3>2. CASE u = t
      <4>1. i # j BY <3>2
      <4>2. Apart(held[t]) BY <1>1 DEF Distinct
      <4> QED BY <2>1, <2>2, <3>2, <4>1, <4>2 DEF Apart
    <3> QED BY <3>1, <3>2
  <2>4. Requested(t) BY <1>1 DEF Guarded, Requests
  <2> QED BY <2>1, <2>3, <2>4 DEF Requested
<1>2. Guarded /\ Distinct => NoRace BY <1>1
<1> QED BY <1>2, SpecGuarded, SpecDistinct, PTL

\* A receive that succeeds reports the length and the immediate value of the send
\* the device matched it with, whatever the completion's fields held before.
THEOREM ReceivesWhatWasSent == Spec => []EndToEnd
<1>1. Guarded => EndToEnd BY DEF Guarded, Delivered, EndToEnd
<1> QED BY <1>1, SpecGuarded, PTL
===============================================================================
