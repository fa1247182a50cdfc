--------------------------- MODULE Resources_proofs ---------------------------
(***************************************************************************)
(* Proofs about Resources, for every set of addresses of every kind.        *)
(*                                                                          *)
(* The inductive invariant Ownership says who keeps whom alive:             *)
(*   - an object exists from its creation to the end of Owner::drop, and    *)
(*     every strong reference is to an Owner whose drop has not begun;      *)
(*   - every C pointer of an object is covered by a handle in its own Owner *)
(*     or, for the context of its protection domain, in the domain's Owner. *)
(***************************************************************************)
EXTENDS Resources, TLAPS

Existing == kobj = {r \in Res : phase[r] \in {"live", "finalizing"}}

\* Strong references are to live Owners.
RefsLive ==
  /\ \A r \in Res : handles[r] > 0 => phase[r] = "live"
  /\ \A b \in Builder, f \in Field : own[b][f] # None => phase[own[b][f]] = "live"
  /\ \A x \in Res, f \in Field :
       field[x][f] # None => phase[x] # "absent" /\ phase[field[x][f]] = "live"

\* A pointer in an attribute struct has its handle beside it; the options of a
\* completion queue store no pointer.
RawOwned ==
  /\ \A b \in Builder, f \in Field : raw[b][f] # None => raw[b][f] = own[b][f]
  /\ raw["cq"] = NoFields

\* What the typed fields can hold.
KindsOK(fl) == fl["pd"] \in Pd \cup {None} /\ fl["cc"] \in Cc \cup {None}
FieldKinds ==
  /\ \A x \in Res : KindsOK(field[x])
  /\ \A b \in Builder : KindsOK(own[b])

\* Every C pointer of an existing object is covered by a handle.
DepsHeld ==
  /\ \A x \in kobj : \A d \in kdep[x] :
       \/ \E f \in Field : field[x][f] = d
       \/ field[x]["pd"] # None /\ field[field[x]["pd"]]["ctx"] = d
  /\ \A p \in Pd : p \in kobj => kdep[p] \subseteq {field[p]["ctx"]}

\* The part of TypeOK about handles.
HandlesOK == handles \in [Res -> Nat] /\ \A r \in Res : handles[r] <= MaxHandles[r]

Ownership ==
  /\ TypeOK
  /\ Existing
  /\ RefsLive
  /\ RawOwned
  /\ FieldKinds
  /\ DepsHeld
  /\ CqRefExact
  /\ NoFailedAssert

USE NoneAssumption, HandlesAssumption DEF NoneAssumption, HandlesAssumption

-------------------------------------------------------------------------------
(***************************************************************************)
(* The initial state                                                        *)
(***************************************************************************)
LEMMA InitOwnership == Init => Ownership
<1> SUFFICES ASSUME Init PROVE Ownership OBVIOUS
<1> USE DEF Init, NoFields
<1>1. TypeOK
  <2>1. HandlesOK BY DEF HandlesOK
  <2>2. phase \in [Res -> Phase] BY DEF Phase
  <2>3. NoFields \in [Field -> Res \cup {None}] OBVIOUS
  <2>4. /\ field \in [Res -> [Field -> Res \cup {None}]]
        /\ raw \in [Builder -> [Field -> Res \cup {None}]]
        /\ own \in [Builder -> [Field -> Res \cup {None}]]
    BY <2>3
  <2> QED BY <2>1, <2>2, <2>4 DEF TypeOK, HandlesOK
<1>2. Existing BY DEF Existing
<1>3. RefsLive BY DEF RefsLive
<1>4. RawOwned BY DEF RawOwned, Builder
<1>5. FieldKinds BY DEF FieldKinds, KindsOK, Field
<1>6. DepsHeld BY DEF DepsHeld, Res
<1>7. CqRefExact BY DEF CqRefExact, Res
<1>8. NoFailedAssert BY DEF NoFailedAssert
<1> QED BY <1>1, <1>2, <1>3, <1>4, <1>5, <1>6, <1>7, <1>8 DEF Ownership

-------------------------------------------------------------------------------
(***************************************************************************)
(* One lemma for each shape of step: an Owner is born, handles are          *)
(* released, a handle is added, Owner::drop runs, memory is freed.          *)
(***************************************************************************)

\* The step of the abstract specification that a creation implements.
Creates == \E r \in Res : VerbsContract!Create(r)

\* A new Owner preserves Ownership when each of its C pointers is covered.  The
\* builder it was made from may hand its handles over.
LEMMA BornOwnership ==
  ASSUME Ownership,
         NEW r \in Res,
         NEW fl \in [Field -> Res \cup {None}],
         NEW deps \in SUBSET Res,
         Born(r, fl, deps),
         \A f \in Field : fl[f] # None => phase[fl[f]] = "live",
         KindsOK(fl),
         \A d \in deps : \/ \E f \in Field : fl[f] = d
                         \/ fl["pd"] # None /\ field[fl["pd"]]["ctx"] = d,
         r \in Pd => deps \subseteq {fl["ctx"]},
         own' \in [Builder -> [Field -> Res \cup {None}]],
         raw' \in [Builder -> [Field -> Res \cup {None}]],
         \A b \in Builder, f \in Field : own'[b][f] \in {own[b][f], None},
         RawOwned',
         cqref' \in [Cc -> SUBSET Cq],
         \A k \in Cc : cqref'[k] = IF r \in Cq /\ k = fl["cc"] THEN cqref[k] \cup {r} ELSE cqref[k]
  PROVE  Ownership' /\ Creates
<1> USE DEF Ownership, Born
<1>1. TypeOK' BY DEF TypeOK, Phase
<1>2. Existing' BY DEF TypeOK, Existing
<1>3. RefsLive'
  <2> USE DEF TypeOK
  <2>1. ASSUME NEW x \in Res PROVE (handles[x] > 0 => phase[x] = "live")'
    BY DEF RefsLive
  <2>2. ASSUME NEW b \in Builder, NEW f \in Field, own'[b][f] # None
        PROVE  (phase[own[b][f]] = "live")'
    BY <2>2 DEF RefsLive
  <2>3. ASSUME NEW x \in Res, NEW f \in Field, field'[x][f] # None
        PROVE  (phase[x] # "absent" /\ phase[field[x][f]] = "live")'
    <3>1. CASE x = r BY <2>3, <3>1
    <3>2. CASE x # r BY <2>3, <3>2 DEF RefsLive
    <3> QED BY <3>1, <3>2
  <2> QED BY <2>1, <2>2, <2>3 DEF RefsLive
<1>4. FieldKinds' BY DEF TypeOK, FieldKinds, KindsOK, Field
<1>5. DepsHeld'
  <2> USE DEF TypeOK
  <2>1. ASSUME NEW x \in kobj', NEW d \in kdep'[x]
        PROVE  (\/ \E f \in Field : field[x][f] = d
                \/ field[x]["pd"] # None /\ field[field[x]["pd"]]["ctx"] = d)'
    <3>1. CASE x = r
      <4>1. fl["pd"] # None => fl["pd"] # r BY DEF Field
      <4>2. field'[x] = fl /\ kdep'[x] = deps BY <3>1
      <4>3. fl["pd"] # None => fl["pd"] \in Res BY DEF Res, KindsOK
      <4>4. fl["pd"] # None => field'[fl["pd"]] = field[fl["pd"]] BY <4>1, <4>3
      <4> QED BY <4>2, <4>4
    <3>2. CASE x # r
      <4>1. x \in kobj /\ d \in kdep[x] /\ field'[x] = field[x] BY <3>2
      <4>2. field[x]["pd"] # None => field[x]["pd"] # r /\ field[x]["pd"] \in Res
        BY <4>1 DEF RefsLive, Field
      <4>3. field[x]["pd"] # None => field'[field[x]["pd"]] = field[field[x]["pd"]]
        BY <4>2
      <4> QED BY <4>1, <4>3 DEF DepsHeld
    <3> QED BY <3>1, <3>2
  <2>2. ASSUME NEW p \in Pd, p \in kobj' PROVE (kdep[p] \subseteq {field[p]["ctx"]})'
    <3>1. CASE p = r BY <3>1
    <3>2. CASE p # r BY <2>2, <3>2 DEF DepsHeld, Res
    <3> QED BY <3>1, <3>2
  <2> QED BY <2>1, <2>2 DEF DepsHeld
<1>6. CqRefExact'
  <2> SUFFICES ASSUME NEW c \in Cc
               PROVE  cqref'[c] = {q \in Cq : q \in kobj' /\ field'[q]["cc"] = c}
    BY DEF CqRefExact
  <2>1. r \notin kobj BY DEF Existing
  <2>2. Cq \subseteq Res BY DEF Res
  <2>3. \A q \in Cq : q # r => (q \in kobj' <=> q \in kobj) /\ field'[q] = field[q]
    BY <2>2 DEF TypeOK
  <2>4. r \in kobj' /\ field'[r] = fl BY DEF TypeOK
  <2>5. cqref[c] = {q \in Cq : q \in kobj /\ field[q]["cc"] = c} BY DEF CqRefExact
  <2>6. cqref'[c] = IF r \in Cq /\ c = fl["cc"] THEN cqref[c] \cup {r} ELSE cqref[c] OBVIOUS
  <2> QED BY <2>1, <2>3, <2>4, <2>5, <2>6
<1>7. NoFailedAssert' BY DEF NoFailedAssert
<1>8. deps \subseteq kobj
  <2> SUFFICES ASSUME NEW d \in deps PROVE phase[d] = "live" BY DEF Existing
  <2>1. CASE \E f \in Field : fl[f] = d BY <2>1
  <2>2. CASE fl["pd"] # None /\ field[fl["pd"]]["ctx"] = d
    <3>1. fl["pd"] \in Res BY <2>2 DEF Res, KindsOK
    <3> QED BY <2>2, <3>1 DEF RefsLive, Field
  <2> QED BY <2>1, <2>2
<1>9. VerbsContract!Create(r)
  BY <1>8 DEF VerbsContract!Create, Existing, TypeOK
<1> QED BY <1>1, <1>2, <1>3, <1>4, <1>5, <1>6, <1>7, <1>9 DEF Creates

\* A step that gives up handles preserves Ownership: the Owners it leaves without
\* a strong reference are no longer live, and nothing refers to them.
LEMMA ReleaseOwnership ==
  ASSUME Ownership,
         phase' = Settled,
         HandlesOK',
         \A r \in Res : handles'[r] > 0 => handles[r] > 0,
         own' \in [Builder -> [Field -> Res \cup {None}]],
         raw' \in [Builder -> [Field -> Res \cup {None}]],
         \A b \in Builder, f \in Field : own'[b][f] # None => phase[own'[b][f]] = "live",
         \A b \in Builder : KindsOK(own'[b]),
         RawOwned',
         field' \in [Res -> [Field -> Res \cup {None}]],
         \A x \in Res, f \in Field : field'[x][f] \in {field[x][f], None},
         \A x \in Res : phase[x] # "unwinding" => field'[x] = field[x],
         UNCHANGED <<verbs, cqref, panicked>>
  PROVE  Ownership'
<1> USE DEF Ownership, verbs
<1>0. \A r \in Res : phase'[r] = IF phase[r] = "live" /\ ~Held(handles', field', own', r)
                                THEN "finalizing" ELSE phase[r]
  BY DEF Settled
<1>1. TypeOK'
  <2>1. phase' \in [Res -> Phase] BY DEF Settled, TypeOK, Phase
  <2> QED BY <2>1 DEF TypeOK, HandlesOK
<1>2. Existing' BY <1>0 DEF Existing, TypeOK
<1>3. RefsLive'
  <2> USE DEF TypeOK
  <2>1. ASSUME NEW x \in Res, handles'[x] > 0 PROVE phase'[x] = "live"
    BY <2>1, <1>0 DEF RefsLive, Held
  <2>2. ASSUME NEW b \in Builder, NEW f \in Field, own'[b][f] # None
        PROVE  phase'[own'[b][f]] = "live"
    BY <2>2, <1>0 DEF Held
  <2>3. ASSUME NEW x \in Res, NEW f \in Field, field'[x][f] # None
        PROVE  phase'[x] # "absent" /\ phase'[field'[x][f]] = "live"
    <3>1. field'[x][f] = field[x][f] /\ field[x][f] \in Res BY <2>3
    <3>2. phase[x] # "absent" /\ phase[field[x][f]] = "live" BY <2>3, <3>1 DEF RefsLive
    <3>3. Held(handles', field', own', field[x][f]) BY <3>1 DEF Held
    <3> QED BY <3>1, <3>2, <3>3, <1>0
  <2> QED BY <2>1, <2>2, <2>3 DEF RefsLive
<1>4. FieldKinds' BY DEF FieldKinds, KindsOK, Field, TypeOK
<1>5. DepsHeld'
  <2>1. \A x \in kobj : phase[x] # "unwinding" /\ x \in Res BY DEF Existing
  <2>2. \A x \in kobj : field'[x] = field[x] BY <2>1
  <2>3. \A x \in kobj : field[x]["pd"] # None => field'[field[x]["pd"]] = field[field[x]["pd"]]
    BY <2>1 DEF RefsLive, Field, TypeOK
  <2>4. ASSUME NEW x \in kobj, NEW d \in kdep[x]
        PROVE  \/ \E f \in Field : field'[x][f] = d
               \/ field'[x]["pd"] # None /\ field'[field'[x]["pd"]]["ctx"] = d
    BY <2>2, <2>3 DEF DepsHeld
  <2>5. ASSUME NEW p \in Pd, p \in kobj PROVE kdep[p] \subseteq {field'[p]["ctx"]}
    BY <2>2, <2>5 DEF DepsHeld
  <2> QED BY <2>4, <2>5 DEF DepsHeld
<1>6. CqRefExact'
  <2>1. \A q \in Cq : q \in kobj => field'[q] = field[q] BY DEF Existing
  <2> QED BY <2>1 DEF CqRefExact
<1>7. NoFailedAssert' BY DEF NoFailedAssert
<1> QED BY <1>1, <1>2, <1>3, <1>4, <1>5, <1>6, <1>7

\* A handle may be added to a live Owner.
LEMMA AddHandleOwnership ==
  ASSUME Ownership, NEW r \in Res, AddHandle(r), phase[r] = "live"
  PROVE  Ownership'
<1> USE DEF Ownership, AddHandle, builders, verbs
<1>1. TypeOK' BY DEF TypeOK
<1>2. RefsLive' BY DEF RefsLive, TypeOK
<1>3. (Existing /\ RawOwned /\ FieldKinds /\ DepsHeld /\ CqRefExact /\ NoFailedAssert)'
  BY DEF Existing, RawOwned, FieldKinds, KindsOK, DepsHeld, CqRefExact, NoFailedAssert
<1> QED BY <1>1, <1>2, <1>3

\* No existing object points to one whose Owner has begun to drop.
LEMMA NotInUse ==
  ASSUME Ownership, NEW r \in Res, phase[r] = "finalizing"
  PROVE  ~InUse(r)
<1> SUFFICES ASSUME NEW x \in kobj, r \in kdep[x] PROVE FALSE BY DEF InUse
<1>1. x \in Res BY DEF Ownership, Existing
<1>2. CASE \E f \in Field : field[x][f] = r
  BY <1>1, <1>2 DEF Ownership, RefsLive
<1>3. CASE field[x]["pd"] # None /\ field[field[x]["pd"]]["ctx"] = r
  <2>1. field[x]["pd"] \in Res BY <1>1, <1>3 DEF Ownership, TypeOK, Field
  <2> QED BY <1>3, <2>1 DEF Ownership, RefsLive, Field
<1> QED BY <1>2, <1>3 DEF Ownership, DepsHeld

\* Owner::drop preserves Ownership.
LEMMA FinalizeOwnership ==
  ASSUME Ownership, NEW r \in Res, Finalize(r, FALSE),
         cqref' = [k \in Cc |-> IF r \in Cq /\ k = field[r]["cc"] THEN cqref[k] \ {r} ELSE cqref[k]]
  PROVE  Ownership'
<1> USE DEF Ownership, Finalize, builders
<1>1. TypeOK' BY DEF TypeOK, Phase
<1>2. Existing' BY DEF TypeOK, Existing
<1>3. RefsLive' BY DEF TypeOK, RefsLive
<1>4. (RawOwned /\ FieldKinds)' BY DEF RawOwned, FieldKinds, KindsOK
<1>5. DepsHeld'
  <2>1. \A x \in kobj' : x \in kobj /\ x \in Res /\ kdep'[x] = kdep[x] BY DEF TypeOK
  <2> QED BY <2>1 DEF DepsHeld
<1>6. CqRefExact'
  <2> SUFFICES ASSUME NEW c \in Cc
               PROVE  cqref'[c] = {q \in Cq : q \in kobj' /\ field'[q]["cc"] = c}
    BY DEF CqRefExact
  <2>1. cqref[c] = {q \in Cq : q \in kobj /\ field[q]["cc"] = c} BY DEF CqRefExact
  <2>2. cqref'[c] = IF r \in Cq /\ c = field[r]["cc"] THEN cqref[c] \ {r} ELSE cqref[c] OBVIOUS
  <2> QED BY <2>1, <2>2
<1>7. NoFailedAssert' BY DEF NoFailedAssert
<1> QED BY <1>1, <1>2, <1>3, <1>4, <1>5, <1>6, <1>7

\* Freeing an Owner preserves Ownership: it holds nothing and nothing refers to it.
LEMMA DeallocateOwnership ==
  ASSUME Ownership, NEW r \in Res, Deallocate(r)
  PROVE  Ownership'
<1> USE DEF Ownership, Deallocate, builders, verbs
<1>1. TypeOK' BY DEF TypeOK, Phase
<1>2. Existing' BY DEF TypeOK, Existing
<1>3. RefsLive' BY DEF TypeOK, RefsLive, NoFields
<1>4. (RawOwned /\ FieldKinds /\ DepsHeld /\ CqRefExact /\ NoFailedAssert)'
  BY DEF RawOwned, FieldKinds, KindsOK, DepsHeld, CqRefExact, NoFailedAssert
<1> QED BY <1>1, <1>2, <1>3, <1>4

-------------------------------------------------------------------------------
(***************************************************************************)
(* The actions                                                              *)
(***************************************************************************)
LEMMA NoFieldsType == NoFields \in [Field -> Res \cup {None}]
BY DEF NoFields

\* A creation that leaves the builders alone.
LEMMA PlainBorn ==
  ASSUME Ownership,
         NEW r \in Res, r \notin Cq,
         NEW fl \in [Field -> Res \cup {None}],
         NEW deps \in SUBSET Res,
         Born(r, fl, deps),
         \A f \in Field : fl[f] # None => phase[fl[f]] = "live",
         KindsOK(fl),
         \A d \in deps : \/ \E f \in Field : fl[f] = d
                         \/ fl["pd"] # None /\ field[fl["pd"]]["ctx"] = d,
         r \in Pd => deps \subseteq {fl["ctx"]},
         UNCHANGED <<builders, cqref>>
  PROVE  Ownership' /\ Creates
<1>1. own' \in [Builder -> [Field -> Res \cup {None}]] /\ raw' \in [Builder -> [Field -> Res \cup {None}]]
  BY DEF Ownership, TypeOK, builders
<1>2. RawOwned' BY DEF Ownership, RawOwned, builders
<1>3. \A b \in Builder, f \in Field : own'[b][f] \in {own[b][f], None} BY DEF builders
<1>4. /\ cqref' \in [Cc -> SUBSET Cq]
       /\ \A k \in Cc : cqref'[k] = IF r \in Cq /\ k = fl["cc"] THEN cqref[k] \cup {r} ELSE cqref[k]
  BY DEF Ownership, TypeOK
<1> QED BY <1>1, <1>2, <1>3, <1>4, BornOwnership

LEMMA OfCtxOwnership ==
  ASSUME Ownership, NEW r \in Res, r \notin Cq, NEW c \in Ctx, OfCtx(r, c)
  PROVE  Ownership' /\ Creates
<1> DEFINE fl == [NoFields EXCEPT !["ctx"] = c]
<1>1. c \in Res /\ phase[c] = "live" BY DEF OfCtx, Usable, Ownership, RefsLive, Res
<1>2. fl \in [Field -> Res \cup {None}] /\ KindsOK(fl) /\ fl["ctx"] = c
  BY <1>1 DEF NoFields, Field, KindsOK
<1>3. \A f \in Field : fl[f] # None => phase[fl[f]] = "live"
  BY <1>1 DEF NoFields, Field
<1>4. "ctx" \in Field BY DEF Field
<1> HIDE DEF fl
<1>5. Born(r, fl, {c}) /\ UNCHANGED <<builders, cqref>> BY DEF OfCtx, fl
<1> QED BY <1>1, <1>2, <1>3, <1>4, <1>5, PlainBorn

LEMMA MadeOfPdOwnership ==
  ASSUME Ownership, NEW r \in Res, r \notin Cq, r \notin Pd, NEW p \in Pd, MadeOfPd(r, p)
  PROVE  Ownership' /\ Creates
<1> DEFINE fl == [NoFields EXCEPT !["pd"] = p]
           deps == {p} \cup kdep[p]
<1>1. p \in Res /\ phase[p] = "live" BY DEF MadeOfPd, Usable, Ownership, RefsLive, Res
<1>2. p \in kobj BY <1>1 DEF Ownership, Existing
<1>3. fl \in [Field -> Res \cup {None}] /\ KindsOK(fl) /\ fl["pd"] = p
  BY <1>1 DEF NoFields, Field, KindsOK
<1>4. \A f \in Field : fl[f] # None => phase[fl[f]] = "live"
  BY <1>1 DEF NoFields, Field
<1>5. "pd" \in Field BY DEF Field
<1>6. deps \in SUBSET Res BY <1>1 DEF Ownership, TypeOK
<1>7. kdep[p] \subseteq {field[p]["ctx"]} BY <1>2 DEF Ownership, DepsHeld
<1>8. p # None BY <1>1
<1> HIDE DEF fl
<1>9. Born(r, fl, deps) /\ UNCHANGED <<builders, cqref>> BY DEF MadeOfPd, fl
<1>10. \A d \in deps : \/ \E f \in Field : fl[f] = d
                       \/ fl["pd"] # None /\ field[fl["pd"]]["ctx"] = d
  BY <1>3, <1>5, <1>7, <1>8
<1> HIDE DEF deps
<1> QED BY <1>3, <1>4, <1>6, <1>9, <1>10, PlainBorn

\* Clearing one builder keeps the others as they are.
LEMMA ClearBuilder ==
  ASSUME Ownership, NEW b \in Builder,
         own' = Clear(own, b), raw' = Clear(raw, b) \/ (raw' = raw /\ raw[b] = NoFields)
  PROVE  /\ own' \in [Builder -> [Field -> Res \cup {None}]]
         /\ raw' \in [Builder -> [Field -> Res \cup {None}]]
         /\ \A x \in Builder, f \in Field : own'[x][f] \in {own[x][f], None}
         /\ RawOwned'
<1>0. own \in [Builder -> [Field -> Res \cup {None}]] /\ raw \in [Builder -> [Field -> Res \cup {None}]]
  BY DEF Ownership, TypeOK
<1>1. own' \in [Builder -> [Field -> Res \cup {None}]] BY <1>0, NoFieldsType DEF Clear
<1>2. raw' \in [Builder -> [Field -> Res \cup {None}]] BY <1>0, NoFieldsType DEF Clear
<1>3. \A x \in Builder, f \in Field : own'[x][f] = IF x = b THEN None ELSE own[x][f]
  BY <1>0 DEF Clear, NoFields
<1>4. \A x \in Builder, f \in Field : raw'[x][f] = IF x = b THEN None ELSE raw[x][f]
  BY <1>0 DEF Clear, NoFields
<1>5. raw'["cq"] = NoFields BY <1>0 DEF Clear, Ownership, RawOwned, Builder
<1> QED BY <1>1, <1>2, <1>3, <1>4, <1>5 DEF Ownership, RawOwned

LEMMA CreateSrqOwnership ==
  ASSUME Ownership, NEW s \in Srq, NEW c \in Ctx, CreateSrq(s, c)
  PROVE  Ownership' /\ Creates
<1> DEFINE pd == own["srq"]["pd"]
           ptr == raw["srq"]["pd"]
           fl == [NoFields EXCEPT !["ctx"] = c, !["pd"] = pd]
           deps == {c} \cup UNION {{p} \cup kdep[p] : p \in {ptr} \ {None}}
<1>0. "srq" \in Builder /\ "pd" \in Field /\ "ctx" \in Field BY DEF Builder, Field
<1>1. c \in Res /\ phase[c] = "live" BY DEF CreateSrq, Usable, Ownership, RefsLive, Res
<1>2. pd \in Pd \cup {None} /\ pd \in Res \cup {None} BY <1>0 DEF Ownership, FieldKinds, KindsOK, TypeOK
<1>3. pd # None => phase[pd] = "live" /\ pd \in Res /\ kdep[pd] = {c}
  BY <1>0, <1>2 DEF Ownership, RefsLive, CreateSrq
<1>4. ptr # None => ptr = pd BY <1>0 DEF Ownership, RawOwned
<1>5. fl \in [Field -> Res \cup {None}] /\ KindsOK(fl) /\ fl["pd"] = pd /\ fl["ctx"] = c
  BY <1>1, <1>2 DEF NoFields, Field, KindsOK
<1>6. \A f \in Field : fl[f] # None => phase[fl[f]] = "live"
  BY <1>1, <1>3 DEF NoFields, Field
<1>7. s \in Res /\ s \notin Cq /\ s \notin Pd BY KindsAssumption DEF KindsAssumption, Res
<1>8. deps \subseteq {c, pd} /\ deps \in SUBSET Res /\ (None \notin deps)
  <2>1. CASE ptr = None BY <2>1, <1>1
  <2>2. CASE ptr # None
    <3>1. deps = {c} \cup ({pd} \cup kdep[pd]) BY <1>4, <2>2
    <3> QED BY <3>1, <1>1, <1>3, <1>4, <2>2
  <2> QED BY <2>1, <2>2
<1>9. Born(s, fl, deps) BY DEF CreateSrq
<1>10. /\ own' \in [Builder -> [Field -> Res \cup {None}]]
       /\ raw' \in [Builder -> [Field -> Res \cup {None}]]
       /\ \A x \in Builder, f \in Field : own'[x][f] \in {own[x][f], None}
       /\ RawOwned'
  BY <1>0, ClearBuilder DEF CreateSrq
<1>11. /\ cqref' \in [Cc -> SUBSET Cq]
       /\ \A k \in Cc : cqref'[k] = IF s \in Cq /\ k = fl["cc"] THEN cqref[k] \cup {s} ELSE cqref[k]
  BY <1>7 DEF CreateSrq, Ownership, TypeOK
<1> HIDE DEF deps, fl, pd, ptr
<1>12. \A d \in deps : \E f \in Field : fl[f] = d BY <1>0, <1>5, <1>8
<1> QED BY <1>2, <1>5, <1>6, <1>7, <1>8, <1>9, <1>10, <1>11, <1>12, BornOwnership

LEMMA CreateCqOwnership ==
  ASSUME Ownership, NEW q \in Cq, NEW c \in Ctx, CreateCq(q, c)
  PROVE  Ownership' /\ Creates
<1> DEFINE cc == own["cq"]["cc"]
           fl == [NoFields EXCEPT !["cc"] = cc, !["ctx"] = c]
           deps == {c} \cup ({cc} \ {None})
<1>0. "cq" \in Builder /\ "cc" \in Field /\ "ctx" \in Field /\ "pd" \in Field BY DEF Builder, Field
<1>1. c \in Res /\ phase[c] = "live" BY DEF CreateCq, Usable, Ownership, RefsLive, Res
<1>2. cc \in Res \cup {None} /\ (cc # None => phase[cc] = "live")
  BY <1>0 DEF Ownership, RefsLive, TypeOK
<1>3. fl \in [Field -> Res \cup {None}] /\ fl["cc"] = cc /\ fl["ctx"] = c /\ fl["pd"] = None
  BY <1>1, <1>2 DEF NoFields, Field
<1>4. \A f \in Field : fl[f] # None => phase[fl[f]] = "live"
  BY <1>1, <1>2 DEF NoFields, Field
<1>5. q \in Res /\ q \notin Pd BY KindsAssumption DEF KindsAssumption, Res
<1>6. deps \in SUBSET Res BY <1>1, <1>2
<1>7. Born(q, fl, deps) BY DEF CreateCq
<1>8. /\ own' \in [Builder -> [Field -> Res \cup {None}]]
      /\ raw' \in [Builder -> [Field -> Res \cup {None}]]
      /\ \A x \in Builder, f \in Field : own'[x][f] \in {own[x][f], None}
      /\ RawOwned'
  BY <1>0, ClearBuilder DEF CreateCq, Ownership, RawOwned
<1>9. /\ cqref' \in [Cc -> SUBSET Cq]
       /\ \A k \in Cc : cqref'[k] = IF q \in Cq /\ k = fl["cc"] THEN cqref[k] \cup {q} ELSE cqref[k]
  BY <1>3 DEF CreateCq, Ownership, TypeOK
<1>10. \A d \in deps : \E f \in Field : fl[f] = d BY <1>0, <1>3
<1>11. KindsOK(fl) BY <1>0, <1>3 DEF Ownership, FieldKinds, KindsOK
<1>12. fl \in [Field -> Res \cup {None}] BY <1>3
<1> HIDE DEF deps, fl, cc
<1>13. \A d \in deps : \/ \E f \in Field : fl[f] = d
                       \/ fl["pd"] # None /\ field[fl["pd"]]["ctx"] = d
  BY <1>10
<1>14. q \in Res /\ (q \in Pd => deps \subseteq {fl["ctx"]}) BY <1>5
<1> QED BY <1>4, <1>6, <1>7, <1>8, <1>9, <1>11, <1>12, <1>13, <1>14, BornOwnership

LEMMA CreateQpOwnership ==
  ASSUME Ownership, NEW q \in Qp, NEW c \in Ctx, CreateQp(q, c)
  PROVE  Ownership' /\ Creates
<1> DEFINE ptr == {raw["qp"][f] : f \in Field} \ {None}
           pd == raw["qp"]["pd"]
           fl == own["qp"]
           deps == ptr \cup kdep[pd]
<1>0. "qp" \in Builder /\ "pd" \in Field BY DEF Builder, Field
<1>1. fl \in [Field -> Res \cup {None}] BY <1>0 DEF Ownership, TypeOK
<1>2. \A f \in Field : fl[f] # None => phase[fl[f]] = "live"
  BY <1>0 DEF Ownership, RefsLive
<1>3. \A f \in Field : raw["qp"][f] # None => raw["qp"][f] = fl[f]
  BY <1>0 DEF Ownership, RawOwned
<1>4. pd # None /\ pd = fl["pd"] BY <1>0, <1>3 DEF CreateQp
<1>5. KindsOK(fl) BY <1>0 DEF Ownership, FieldKinds, KindsOK
<1>6. pd \in Pd /\ pd \in Res /\ pd \in kobj
  BY <1>0, <1>1, <1>2, <1>4, <1>5 DEF Ownership, Existing, KindsOK
<1>7. kdep[pd] \subseteq {field[pd]["ctx"]} /\ kdep[pd] \subseteq Res
  BY <1>6 DEF Ownership, DepsHeld, TypeOK
<1>8. \A d \in ptr : \E f \in Field : fl[f] = d BY <1>3
<1>9. ptr \subseteq Res BY <1>1, <1>3
<1>10. deps \in SUBSET Res BY <1>7, <1>9
<1>11. \A d \in deps : \/ \E f \in Field : fl[f] = d
                       \/ fl["pd"] # None /\ field[fl["pd"]]["ctx"] = d
  BY <1>4, <1>7, <1>8
<1>12. q \in Res /\ q \notin Pd /\ q \notin Cq BY KindsAssumption DEF KindsAssumption, Res
<1>13. Born(q, fl, deps) BY DEF CreateQp
<1>14. /\ own' \in [Builder -> [Field -> Res \cup {None}]]
       /\ raw' \in [Builder -> [Field -> Res \cup {None}]]
       /\ \A x \in Builder, f \in Field : own'[x][f] \in {own[x][f], None}
       /\ RawOwned'
  BY <1>0, ClearBuilder DEF CreateQp
<1>15. /\ cqref' \in [Cc -> SUBSET Cq]
       /\ \A k \in Cc : cqref'[k] = IF q \in Cq /\ k = fl["cc"] THEN cqref[k] \cup {q} ELSE cqref[k]
  BY <1>12 DEF CreateQp, Ownership, TypeOK
<1> HIDE DEF deps, fl, pd, ptr
<1> QED BY <1>1, <1>2, <1>5, <1>10, <1>11, <1>12, <1>13, <1>14, <1>15, BornOwnership

\* A setter preserves Ownership when it stores handles of live Owners, and a
\* pointer only together with its handle.
LEMMA SetOptionOwnership ==
  ASSUME Ownership, NEW b \in Builder,
         NEW newRaw \in [Field -> Res \cup {None}],
         NEW newOwn \in [Field -> Res \cup {None}],
         SetOption(b, newRaw, newOwn),
         \A f \in Field : newOwn[f] # None => phase[newOwn[f]] = "live",
         \A f \in Field : newRaw[f] # None => newRaw[f] = newOwn[f],
         KindsOK(newOwn),
         b = "cq" => newRaw = NoFields
  PROVE  Ownership'
<1> USE DEF SetOption
<1>1. \A x \in Builder : own'[x] = IF x = b THEN newOwn ELSE own[x] BY DEF Ownership, TypeOK
<1>2. \A x \in Builder : raw'[x] = IF x = b THEN newRaw ELSE raw[x] BY DEF Ownership, TypeOK
<1>3. own' \in [Builder -> [Field -> Res \cup {None}]] /\ raw' \in [Builder -> [Field -> Res \cup {None}]]
  BY DEF Ownership, TypeOK
<1>4. \A x \in Builder, f \in Field : own'[x][f] # None => phase[own'[x][f]] = "live"
  BY <1>1 DEF Ownership, RefsLive
<1>5. \A x \in Builder : KindsOK(own'[x]) BY <1>1 DEF Ownership, FieldKinds, KindsOK
<1>6. RawOwned' BY <1>1, <1>2 DEF Ownership, RawOwned, Builder
<1>7. /\ HandlesOK'
      /\ \A r \in Res : handles'[r] > 0 => handles[r] > 0
      /\ field' \in [Res -> [Field -> Res \cup {None}]]
      /\ \A x \in Res, f \in Field : field'[x][f] \in {field[x][f], None}
      /\ \A x \in Res : phase[x] # "unwinding" => field'[x] = field[x]
  BY DEF Ownership, TypeOK, HandlesOK
<1> QED BY <1>3, <1>4, <1>5, <1>6, <1>7, ReleaseOwnership

LEMMA CqChannelOwnership ==
  ASSUME Ownership, NEW c \in Cc, CqChannel(c)
  PROVE  Ownership'
<1> DEFINE no == [own["cq"] EXCEPT !["cc"] = c]
<1>0. "cq" \in Builder /\ "pd" \in Field /\ "cc" \in Field BY DEF Builder, Field
<1>1. c \in Res /\ phase[c] = "live" BY DEF CqChannel, Usable, Ownership, RefsLive, Res
<1>2. no \in [Field -> Res \cup {None}] BY <1>0, <1>1 DEF Ownership, TypeOK
<1>3. \A f \in Field : no[f] = IF f = "cc" THEN c ELSE own["cq"][f] BY <1>0 DEF Ownership, TypeOK
<1>4. raw["cq"] = NoFields BY DEF Ownership, RawOwned
<1>5. raw["cq"] \in [Field -> Res \cup {None}] BY <1>0 DEF Ownership, TypeOK
<1>6. SetOption("cq", raw["cq"], no) BY DEF CqChannel
<1> HIDE DEF no
<1>7. \A f \in Field : no[f] # None => phase[no[f]] = "live"
  BY <1>0, <1>1, <1>3 DEF Ownership, RefsLive
<1>8. \A f \in Field : raw["cq"][f] # None => raw["cq"][f] = no[f] BY <1>4 DEF NoFields
<1>9. KindsOK(no) BY <1>0, <1>3 DEF Ownership, FieldKinds, KindsOK
<1> QED BY <1>0, <1>2, <1>4, <1>5, <1>6, <1>7, <1>8, <1>9, SetOptionOwnership

\* A setter of a field that has both a pointer and a handle.
LEMMA SetFieldOwnership ==
  ASSUME Ownership, NEW b \in Builder \ {"cq"}, NEW g \in Field, NEW t \in Res,
         Usable(t), g = "pd" => t \in Pd, g # "cc",
         SetOption(b, [raw[b] EXCEPT ![g] = t], [own[b] EXCEPT ![g] = t])
  PROVE  Ownership'
<1> DEFINE nr == [raw[b] EXCEPT ![g] = t]
           no == [own[b] EXCEPT ![g] = t]
<1>0. "pd" \in Field /\ "cc" \in Field BY DEF Field
<1>1. phase[t] = "live" BY DEF Usable, Ownership, RefsLive
<1>2. nr \in [Field -> Res \cup {None}] /\ no \in [Field -> Res \cup {None}] BY DEF Ownership, TypeOK
<1>3. \A f \in Field : no[f] = IF f = g THEN t ELSE own[b][f] BY DEF Ownership, TypeOK
<1>4. \A f \in Field : nr[f] = IF f = g THEN t ELSE raw[b][f] BY DEF Ownership, TypeOK
<1>5. SetOption(b, nr, no) OBVIOUS
<1> HIDE DEF nr, no
<1>6. \A f \in Field : no[f] # None => phase[no[f]] = "live" BY <1>1, <1>3 DEF Ownership, RefsLive
<1>7. \A f \in Field : nr[f] # None => nr[f] = no[f] BY <1>3, <1>4 DEF Ownership, RawOwned
<1>8. KindsOK(no) BY <1>0, <1>3 DEF Ownership, FieldKinds, KindsOK
<1> QED BY <1>2, <1>5, <1>6, <1>7, <1>8, SetOptionOwnership

\* A setter that also takes the excluded field h out.
LEMMA ExchangeOwnership ==
  ASSUME Ownership, NEW g \in Field \ {"pd", "cc"}, NEW h \in Field \ {"pd", "cc"}, g # h,
         NEW t \in Res, Usable(t),
         SetOption("qp",
           [raw["qp"] EXCEPT ![g] = t, ![h] = IF own["qp"][h] # None THEN None ELSE raw["qp"][h]],
           [own["qp"] EXCEPT ![g] = t, ![h] = None])
  PROVE  Ownership'
<1> DEFINE nr == [raw["qp"] EXCEPT ![g] = t, ![h] = IF own["qp"][h] # None THEN None ELSE raw["qp"][h]]
           no == [own["qp"] EXCEPT ![g] = t, ![h] = None]
<1>0. "qp" \in Builder /\ "pd" \in Field /\ "cc" \in Field BY DEF Builder, Field
<1>1. phase[t] = "live" BY DEF Usable, Ownership, RefsLive
<1>2. raw["qp"] \in [Field -> Res \cup {None}] /\ own["qp"] \in [Field -> Res \cup {None}]
  BY <1>0 DEF Ownership, TypeOK
<1>3. nr \in [Field -> Res \cup {None}] /\ no \in [Field -> Res \cup {None}] BY <1>2
<1>4. \A f \in Field : no[f] = IF f = g THEN t ELSE IF f = h THEN None ELSE own["qp"][f]
  BY <1>2
<1>5. \A f \in Field : f # g /\ f # h => nr[f] = raw["qp"][f] BY <1>2
<1>6. nr[g] = t /\ nr[h] = IF own["qp"][h] # None THEN None ELSE raw["qp"][h] BY <1>2
<1>7. \A f \in Field : raw["qp"][f] # None => raw["qp"][f] = own["qp"][f]
  BY <1>0 DEF Ownership, RawOwned
<1>8. nr[h] = None BY <1>6, <1>7
<1>9. SetOption("qp", nr, no) OBVIOUS
<1> HIDE DEF nr, no
<1>10. \A f \in Field : no[f] # None => phase[no[f]] = "live"
  BY <1>0, <1>1, <1>4 DEF Ownership, RefsLive
<1>11. \A f \in Field : nr[f] # None => nr[f] = no[f] BY <1>4, <1>5, <1>6, <1>7, <1>8
<1>12. KindsOK(no) BY <1>0, <1>4 DEF Ownership, FieldKinds, KindsOK
<1>13. "qp" # "cq" OBVIOUS
<1> QED BY <1>0, <1>3, <1>9, <1>10, <1>11, <1>12, <1>13, SetOptionOwnership

LEMMA DropOptionsOwnership ==
  ASSUME Ownership, NEW b \in Builder, DropOptions(b)
  PROVE  Ownership'
<1>1. \A f \in Field : NoFields[f] = None BY DEF NoFields
<1>2. KindsOK(NoFields) BY DEF KindsOK, NoFields, Field
<1>3. SetOption(b, NoFields, NoFields) BY DEF DropOptions
<1> QED BY <1>1, <1>2, <1>3, NoFieldsType, SetOptionOwnership

LEMMA DropHandleOwnership ==
  ASSUME Ownership, NEW r \in Res, DropHandle(r)
  PROVE  Ownership'
<1> USE DEF Ownership, DropHandle, builders
<1>1. HandlesOK' /\ \A x \in Res : handles'[x] > 0 => handles[x] > 0
  BY DEF TypeOK, Usable, HandlesOK
<1>2. /\ own' \in [Builder -> [Field -> Res \cup {None}]]
      /\ raw' \in [Builder -> [Field -> Res \cup {None}]]
      /\ field' \in [Res -> [Field -> Res \cup {None}]]
  BY DEF TypeOK
<1>3. /\ \A b \in Builder, f \in Field : own'[b][f] # None => phase[own'[b][f]] = "live"
      /\ \A b \in Builder : KindsOK(own'[b])
      /\ RawOwned'
  BY DEF RefsLive, FieldKinds, KindsOK, RawOwned
<1> QED BY <1>1, <1>2, <1>3, ReleaseOwnership

LEMMA ReleaseFieldOwnership ==
  ASSUME Ownership, NEW r \in Res, ReleaseField(r)
  PROVE  Ownership'
<1>1. PICK f \in Field :
        /\ phase[r] = "unwinding"
        /\ field' = [field EXCEPT ![r][f] = None]
        /\ UNCHANGED <<handles, builders, verbs, cqref, panicked>>
        /\ phase' = Settled
  BY DEF ReleaseField
<1>2. /\ own' \in [Builder -> [Field -> Res \cup {None}]]
      /\ raw' \in [Builder -> [Field -> Res \cup {None}]]
      /\ HandlesOK'
      /\ \A x \in Res : handles'[x] > 0 => handles[x] > 0
  BY <1>1 DEF Ownership, TypeOK, builders, HandlesOK
<1>3. /\ \A b \in Builder, g \in Field : own'[b][g] # None => phase[own'[b][g]] = "live"
      /\ \A b \in Builder : KindsOK(own'[b])
      /\ RawOwned'
  BY <1>1 DEF Ownership, RefsLive, FieldKinds, KindsOK, RawOwned, builders
<1>4. /\ field' \in [Res -> [Field -> Res \cup {None}]]
      /\ \A x \in Res, g \in Field : field'[x][g] \in {field[x][g], None}
      /\ \A x \in Res : phase[x] # "unwinding" => field'[x] = field[x]
  BY <1>1 DEF Ownership, TypeOK
<1> QED BY <1>1, <1>2, <1>3, <1>4, ReleaseOwnership

\* Owner::drop destroys its object as the abstract specification allows, whether
\* or not the library checks that the object is unused.
LEMMA DropOwnership ==
  ASSUME Ownership, NEW r \in Res, NEW fails \in BOOLEAN, Finalize(r, fails),
         fails => InUse(r),
         cqref' = [k \in Cc |-> IF r \in Cq /\ k = field[r]["cc"] THEN cqref[k] \ {r} ELSE cqref[k]]
  PROVE  Ownership' /\ VerbsContract!Destroy(r)
<1>1. phase[r] = "finalizing" BY DEF Finalize
<1>2. ~InUse(r) BY <1>1, NotInUse
<1>3. fails = FALSE BY <1>2
<1>4. Finalize(r, FALSE) BY <1>3
<1>5. Ownership' BY <1>4, FinalizeOwnership
<1>6. r \in kobj BY <1>1 DEF Ownership, Existing
<1>7. VerbsContract!Destroy(r) BY <1>2, <1>4, <1>6 DEF VerbsContract!Destroy, Finalize, InUse
<1> QED BY <1>5, <1>7

\* The same for the kinds that are in no WeakSet.
LEMMA PlainDrop ==
  ASSUME Ownership, NEW r \in Res, r \notin Cq, NEW fails \in BOOLEAN, Finalize(r, fails),
         fails => InUse(r), UNCHANGED cqref
  PROVE  Ownership' /\ VerbsContract!Destroy(r)
<1>1. cqref' = [k \in Cc |-> IF r \in Cq /\ k = field[r]["cc"] THEN cqref[k] \ {r} ELSE cqref[k]]
  BY DEF Ownership, TypeOK
<1> QED BY <1>1, DropOwnership

LEMMA DropCqOwnership ==
  ASSUME Ownership, NEW q \in Cq, DropCq(q)
  PROVE  Ownership' /\ VerbsContract!Destroy(q)
<1> DEFINE cc == field[q]["cc"]
           missing == cc # None /\ q \notin cqref[cc]
<1>1. q \in Res BY DEF Res
<1>2. phase[q] = "finalizing" BY DEF DropCq, Finalize
<1>3. q \in kobj BY <1>1, <1>2 DEF Ownership, Existing
<1>4. cc \in Cc \cup {None} BY <1>1 DEF Ownership, FieldKinds, KindsOK
<1>5. ~missing BY <1>3, <1>4 DEF Ownership, CqRefExact
<1>6. Finalize(q, missing \/ InUse(q)) BY DEF DropCq
<1>7. cqref' = [k \in Cc |-> IF q \in Cq /\ k = field[q]["cc"] THEN cqref[k] \ {q} ELSE cqref[k]]
  BY DEF DropCq
<1>8. (missing \/ InUse(q)) \in BOOLEAN BY DEF InUse
<1> HIDE DEF missing
<1> QED BY <1>1, <1>5, <1>6, <1>7, <1>8, DropOwnership

\* The WeakSet of a channel is already empty when the channel is dropped.
LEMMA DropCcOwnership ==
  ASSUME Ownership, NEW c \in Cc, DropCc(c)
  PROVE  Ownership' /\ VerbsContract!Destroy(c)
<1>1. c \in Res /\ c \notin Cq BY KindsAssumption DEF KindsAssumption, Res
<1>2. phase[c] = "finalizing" BY DEF DropCc, Finalize
<1>3. cqref[c] = {}
  <2> SUFFICES ASSUME NEW q \in Cq, q \in kobj, field[q]["cc"] = c PROVE FALSE
    BY DEF Ownership, CqRefExact
  <2>1. q \in Res BY DEF Res
  <2> QED BY <1>1, <1>2, <2>1 DEF Ownership, RefsLive, Field
<1>4. UNCHANGED cqref BY <1>3 DEF DropCc, Ownership, TypeOK
<1>5. Finalize(c, InUse(c)) /\ InUse(c) \in BOOLEAN BY DEF DropCc, InUse
<1> QED BY <1>1, <1>4, <1>5, PlainDrop

LEMMA CreateStep == Ownership /\ Create => Ownership' /\ Creates
<1> SUFFICES ASSUME Ownership, Create PROVE Ownership' /\ Creates OBVIOUS
<1> USE KindsAssumption DEF KindsAssumption
<1>1. ASSUME NEW c \in Ctx, OpenCtx(c) PROVE Ownership' /\ Creates
  <2>1. c \in Res /\ c \notin Cq /\ c \notin Pd BY DEF Res
  <2>2. KindsOK(NoFields) BY DEF KindsOK, NoFields, Field
  <2>3. \A f \in Field : NoFields[f] = None BY DEF NoFields
  <2>4. Born(c, NoFields, {}) /\ UNCHANGED <<builders, cqref>> BY <1>1 DEF OpenCtx
  <2> QED BY <2>1, <2>2, <2>3, <2>4, NoFieldsType, PlainBorn
<1>2. ASSUME NEW c \in Ctx, NEW p \in Pd, AllocPd(p, c) PROVE Ownership' /\ Creates
  BY <1>2, OfCtxOwnership DEF AllocPd, Res
<1>3. ASSUME NEW c \in Ctx, NEW k \in Cc, CreateCc(k, c) PROVE Ownership' /\ Creates
  BY <1>3, OfCtxOwnership DEF CreateCc, Res
<1>4. ASSUME NEW c \in Ctx, NEW d \in Dm, AllocDm(d, c) PROVE Ownership' /\ Creates
  BY <1>4, OfCtxOwnership DEF AllocDm, Res
<1>5. ASSUME NEW p \in Pd, NEW m \in Mr, RegisterMr(m, p) PROVE Ownership' /\ Creates
  <2>1. m \in Res /\ m \notin Cq /\ m \notin Pd BY DEF Res, OfPd
  <2> QED BY <1>5, <2>1, MadeOfPdOwnership DEF RegisterMr
<1>6. ASSUME NEW p \in Pd, NEW m \in Mw, AllocMw(m, p) PROVE Ownership' /\ Creates
  <2>1. m \in Res /\ m \notin Cq /\ m \notin Pd BY DEF Res, OfPd
  <2> QED BY <1>6, <2>1, MadeOfPdOwnership DEF AllocMw
<1>7. ASSUME NEW p \in Pd, NEW a \in Ah, CreateAh(a, p) PROVE Ownership' /\ Creates
  <2>1. a \in Res /\ a \notin Cq /\ a \notin Pd BY DEF Res, OfPd
  <2> QED BY <1>7, <2>1, MadeOfPdOwnership DEF CreateAh
<1>8. ASSUME NEW c \in Ctx, NEW q \in Cq, CreateCq(q, c) PROVE Ownership' /\ Creates
  BY <1>8, CreateCqOwnership
<1>9. ASSUME NEW c \in Ctx, NEW s \in Srq, CreateSrq(s, c) PROVE Ownership' /\ Creates
  BY <1>9, CreateSrqOwnership
<1>10. ASSUME NEW c \in Ctx, NEW q \in Qp, CreateQp(q, c) PROVE Ownership' /\ Creates
  BY <1>10, CreateQpOwnership
<1> QED BY <1>1, <1>2, <1>3, <1>4, <1>5, <1>6, <1>7, <1>8, <1>9, <1>10 DEF Create

LEMMA BuildStep == Ownership /\ Build => Ownership' /\ UNCHANGED verbs
<1> SUFFICES ASSUME Ownership, Build PROVE Ownership' /\ UNCHANGED verbs OBVIOUS
<1>1. ASSUME NEW c \in Cc, CqChannel(c) PROVE Ownership' /\ UNCHANGED verbs
  BY <1>1, CqChannelOwnership DEF CqChannel, SetOption
<1>2. ASSUME NEW p \in Pd, SrqProtectionDomain(p) PROVE Ownership' /\ UNCHANGED verbs
  <2>1. p \in Res /\ "srq" \in Builder \ {"cq"} /\ "pd" \in Field BY DEF Res, Builder, Field
  <2> QED BY <1>2, <2>1, SetFieldOwnership DEF SrqProtectionDomain, SetOption
<1>3. ASSUME NEW p \in Pd, QpPd(p) PROVE Ownership' /\ UNCHANGED verbs
  <2>1. p \in Res /\ "qp" \in Builder \ {"cq"} /\ "pd" \in Field BY DEF Res, Builder, Field
  <2> QED BY <1>3, <2>1, SetFieldOwnership DEF QpPd, SetOption
<1>4. ASSUME NEW q \in Cq, QpSendCq(q) PROVE Ownership' /\ UNCHANGED verbs
  <2>1. q \in Res /\ "qp" \in Builder \ {"cq"} /\ "send_cq" \in Field BY DEF Res, Builder, Field
  <2> QED BY <1>4, <2>1, SetFieldOwnership DEF QpSendCq, SetOption
<1>5. ASSUME NEW q \in Cq, QpRecvCq(q) PROVE Ownership' /\ UNCHANGED verbs
  <2>1. q \in Res /\ {"recv_cq", "srq"} \subseteq Field \ {"pd", "cc"} BY DEF Res, Field
  <2> QED BY <1>5, <2>1, ExchangeOwnership DEF QpRecvCq, SetOption
<1>6. ASSUME NEW s \in Srq, QpSrq(s) PROVE Ownership' /\ UNCHANGED verbs
  <2>1. s \in Res /\ {"recv_cq", "srq"} \subseteq Field \ {"pd", "cc"} BY DEF Res, Field
  <2> QED BY <1>6, <2>1, ExchangeOwnership DEF QpSrq, SetOption
<1>7. ASSUME NEW b \in Builder, DropOptions(b) PROVE Ownership' /\ UNCHANGED verbs
  BY <1>7, DropOptionsOwnership DEF DropOptions, SetOption
<1> QED BY <1>1, <1>2, <1>3, <1>4, <1>5, <1>6, <1>7 DEF Build

LEMMA HandleStep == Ownership /\ Handle => Ownership' /\ UNCHANGED verbs
<1> SUFFICES ASSUME Ownership, Handle PROVE Ownership' /\ UNCHANGED verbs OBVIOUS
<1>1. ASSUME NEW r \in Res, Clone(r) PROVE Ownership' /\ UNCHANGED verbs
  BY <1>1, AddHandleOwnership DEF Clone, Usable, AddHandle, Ownership, RefsLive
<1>2. ASSUME NEW r \in Res, DropHandle(r) PROVE Ownership' /\ UNCHANGED verbs
  BY <1>2, DropHandleOwnership DEF DropHandle
<1>3. ASSUME NEW q \in Qp, NEW f \in {"send_cq", "recv_cq"}, QpCq(q, f)
      PROVE  Ownership' /\ UNCHANGED verbs
  <2>1. q \in Res /\ f \in Field BY DEF Res, Field
  <2>2. field[q][f] \in Res /\ phase[field[q][f]] = "live"
    BY <1>3, <2>1 DEF QpCq, Ownership, RefsLive, TypeOK
  <2> QED BY <1>3, <2>2, AddHandleOwnership DEF QpCq, AddHandle
<1>4. ASSUME NEW c \in Cc, NEW q \in Cq, WaitCqEvent(c, q) PROVE Ownership' /\ UNCHANGED verbs
  BY <1>4, AddHandleOwnership DEF WaitCqEvent, AddHandle, Res
<1> QED BY <1>1, <1>2, <1>3, <1>4 DEF Handle

LEMMA DropStep ==
  Ownership /\ Drop => Ownership' /\ (UNCHANGED verbs \/ \E r \in Res : VerbsContract!Destroy(r))
<1> DEFINE Goal == Ownership' /\ (UNCHANGED verbs \/ \E r \in Res : VerbsContract!Destroy(r))
<1> SUFFICES ASSUME Ownership, Drop PROVE Goal OBVIOUS
<1> USE KindsAssumption DEF KindsAssumption
<1>1. ASSUME NEW r \in Res, r \notin Cq, NEW fails \in BOOLEAN, Finalize(r, fails),
             fails => InUse(r), UNCHANGED cqref
      PROVE  Goal
  BY <1>1, PlainDrop
<1>2. \A r : InUse(r) \in BOOLEAN BY DEF InUse
<1> HIDE DEF Goal
<1>3. ASSUME NEW c \in Ctx, DropCtx(c) PROVE Goal BY <1>1, <1>3 DEF DropCtx, Res
<1>4. ASSUME NEW p \in Pd, DropPd(p) PROVE Goal BY <1>1, <1>2, <1>4 DEF DropPd, Res
<1>5. ASSUME NEW s \in Srq, DropSrq(s) PROVE Goal BY <1>1, <1>2, <1>5 DEF DropSrq, Res
<1>6. ASSUME NEW q \in Qp, DropQp(q) PROVE Goal BY <1>1, <1>2, <1>6 DEF DropQp, Res
<1>7. ASSUME NEW m \in Mr, DropMr(m) PROVE Goal BY <1>1, <1>2, <1>7 DEF DropMr, Res, OfPd
<1>8. ASSUME NEW m \in Mw, DropMw(m) PROVE Goal BY <1>1, <1>2, <1>8 DEF DropMw, Res, OfPd
<1>9. ASSUME NEW a \in Ah, DropAh(a) PROVE Goal BY <1>1, <1>2, <1>9 DEF DropAh, Res, OfPd
<1>10. ASSUME NEW d \in Dm, DropDm(d) PROVE Goal BY <1>1, <1>2, <1>10 DEF DropDm, Res
<1>11. ASSUME NEW c \in Cc, DropCc(c) PROVE Goal BY <1>11, DropCcOwnership DEF Goal, Res
<1>12. ASSUME NEW q \in Cq, DropCq(q) PROVE Goal BY <1>12, DropCqOwnership DEF Goal, Res
<1>13. ASSUME NEW r \in Res, ReleaseField(r) PROVE Goal
  BY <1>13, ReleaseFieldOwnership DEF Goal, ReleaseField
<1>14. ASSUME NEW r \in Res, Deallocate(r) PROVE Goal
  BY <1>14, DeallocateOwnership DEF Goal, Deallocate
<1> QED BY <1>3, <1>4, <1>5, <1>6, <1>7, <1>8, <1>9, <1>10, <1>11, <1>12, <1>13, <1>14 DEF Drop

\* Every step preserves Ownership and implements a step of VerbsObjects or none.
LEMMA NextOwnership ==
  Ownership /\ [Next]_vars => Ownership' /\ [VerbsContract!Next]_(VerbsContract!vars)
<1> SUFFICES ASSUME Ownership, [Next]_vars
             PROVE  Ownership' /\ [VerbsContract!Next]_(VerbsContract!vars)
  OBVIOUS
<1> USE DEF VerbsContract!Next, VerbsContract!vars
<1>1. CASE Create BY <1>1, CreateStep DEF Creates
<1>2. CASE Build BY <1>2, BuildStep DEF verbs
<1>3. CASE Handle BY <1>3, HandleStep DEF verbs
<1>4. CASE Drop BY <1>4, DropStep DEF verbs
<1>5. CASE UNCHANGED vars
  <2>1. Ownership' BY <1>5 DEF vars, Ownership, TypeOK, Existing, RefsLive, RawOwned, FieldKinds,
                         KindsOK, DepsHeld, CqRefExact, NoFailedAssert
  <2> QED BY <1>5, <2>1 DEF vars
<1> QED BY <1>1, <1>2, <1>3, <1>4, <1>5 DEF Next

-------------------------------------------------------------------------------
(***************************************************************************)
(* The theorems                                                             *)
(***************************************************************************)

\* The inductive invariant holds of every reachable state.
THEOREM OwnershipInvariant == Spec => []Ownership
BY InitOwnership, NextOwnership, PTL DEF Spec

\* Every variable keeps its type.
THEOREM TypeCorrect == Spec => []TypeOK
<1>1. Ownership => TypeOK BY DEF Ownership
<1> QED BY <1>1, OwnershipInvariant, PTL

\* No assertion in an Owner::drop of the library fails, in whatever order the
\* program and its threads drop their handles.
THEOREM NoAssertFails == Spec => []NoFailedAssert
<1>1. Ownership => NoFailedAssert BY DEF Ownership
<1> QED BY <1>1, OwnershipInvariant, PTL

\* The attribute struct given to ibv_create_qp_ex / ibv_create_srq_ex never
\* holds a dangling pointer.
THEOREM BuildersBacked == Spec => []BuilderBacked
<1>1. Ownership => BuilderBacked
  <2> SUFFICES ASSUME Ownership, NEW b \in Builder, NEW f \in Field, raw[b][f] # None
               PROVE  raw[b][f] \in kobj
    BY DEF BuilderBacked
  <2>1. raw[b][f] = own[b][f] /\ own[b][f] \in Res BY DEF Ownership, RawOwned, TypeOK
  <2>2. phase[own[b][f]] = "live" BY <2>1 DEF Ownership, RefsLive
  <2> QED BY <2>1, <2>2 DEF Ownership, Existing
<1> QED BY <1>1, OwnershipInvariant, PTL

\* Every C struct reachable from a handle exists.
THEOREM HandlesBacked == Spec => []UsableBacked
<1>1. Ownership => UsableBacked
  <2> SUFFICES ASSUME Ownership PROVE UsableBacked OBVIOUS
  <2>1. \A r \in Res : Usable(r) => r \in kobj BY DEF Ownership, RefsLive, Existing, Usable
  <2>2. ASSUME NEW x \in kobj, NEW d \in kdep[x] PROVE d \in kobj
    <3>1. x \in Res /\ d \in Res BY DEF Ownership, TypeOK
    <3>2. CASE \E f \in Field : field[x][f] = d
      BY <3>1, <3>2 DEF Ownership, RefsLive, Existing
    <3>3. CASE field[x]["pd"] # None /\ field[field[x]["pd"]]["ctx"] = d
      <4>1. field[x]["pd"] \in Res BY <3>1, <3>3 DEF Ownership, TypeOK, Field
      <4> QED BY <3>1, <3>3, <4>1 DEF Ownership, RefsLive, Existing, Field
    <3> QED BY <3>2, <3>3 DEF Ownership, DepsHeld
  <2> QED BY <2>1, <2>2 DEF UsableBacked
<1> QED BY <1>1, OwnershipInvariant, PTL

\* A channel's WeakSet holds exactly its existing queues.
THEOREM WeakSetExact == Spec => []CqRefExact
<1>1. Ownership => CqRefExact BY DEF Ownership
<1> QED BY <1>1, OwnershipInvariant, PTL

\* The wrappers implement the contract of libibverbs: nothing is made from an
\* object that does not exist, and nothing is destroyed while it is in use.
THEOREM ImplementsVerbs == Spec => VerbsSpec
<1>1. Init => VerbsContract!Init BY DEF Init, VerbsContract!Init
<1> QED BY <1>1, OwnershipInvariant, NextOwnership, PTL DEF Spec, VerbsSpec, VerbsContract!Spec
===============================================================================
