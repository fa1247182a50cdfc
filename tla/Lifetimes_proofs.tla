--------------------------- MODULE Lifetimes_proofs ---------------------------
(***************************************************************************)
(* Two more results about Resources, from Ownership (Resources_proofs) and  *)
(* the invariant Anchored: every live Owner has a strong reference, fields  *)
(* hold handles of their type in Owners that have such a field, and every   *)
(* object belongs to one context.                                           *)
(***************************************************************************)
EXTENDS Resources_proofs, FiniteSetTheorems

\* A strong count is zero in no live Owner.
LiveHeld == \A r \in Res : phase[r] = "live" => Held(handles, field, own, r)

\* The types of the fields, and the Owners that have them.
Typed(fl) ==
  /\ fl["cc"] \in Cc \cup {None} /\ fl["ctx"] \in Ctx \cup {None} /\ fl["pd"] \in Pd \cup {None}
  /\ fl["send_cq"] \in Cq \cup {None} /\ fl["recv_cq"] \in Cq \cup {None}
  /\ fl["srq"] \in Srq \cup {None}
FieldsOf(x, fl) ==
  /\ Typed(fl)
  /\ fl["cc"] # None => x \in Cq
  /\ fl["ctx"] # None => x \in Pd \cup Cc \cup Dm \cup Cq \cup Srq
  /\ fl["pd"] # None => x \in Srq \cup Qp \cup OfPd
  /\ fl["send_cq"] # None \/ fl["recv_cq"] # None \/ fl["srq"] # None => x \in Qp
FieldsOK == \A x \in Res : FieldsOf(x, field[x])

\* The handles that each builder can keep.
BuildersOK ==
  /\ \A b \in Builder : Typed(own[b])
  /\ \A f \in Field \ {"cc"} : own["cq"][f] = None
  /\ \A f \in Field \ {"pd"} : own["srq"][f] = None
  /\ own["qp"]["cc"] = None /\ own["qp"]["ctx"] = None

\* The C pointers of an object lead to one context.
InOneContext(deps) == \E c \in Ctx : deps \cap Ctx = {c}
ContextsOK == \A x \in kobj \ Ctx : InOneContext(kdep[x])

Anchored == LiveHeld /\ FieldsOK /\ BuildersOK /\ ContextsOK

-------------------------------------------------------------------------------
(***************************************************************************)
(* The shapes of steps                                                      *)
(***************************************************************************)
LEMMA FieldNames == {"cc", "ctx", "pd", "send_cq", "recv_cq", "srq"} = Field
BY DEF Field

LEMMA NoFieldsTyped == Typed(NoFields) /\ \A x : FieldsOf(x, NoFields)
BY DEF Typed, FieldsOf, NoFields, Field

LEMMA InitAnchored == Init => Anchored
<1> SUFFICES ASSUME Init PROVE Anchored OBVIOUS
<1>1. LiveHeld /\ ContextsOK BY DEF Init, LiveHeld, ContextsOK
<1>2. FieldsOK BY NoFieldsTyped DEF Init, FieldsOK
<1>3. BuildersOK BY NoFieldsTyped DEF Init, BuildersOK, NoFields, Builder, Field
<1> QED BY <1>1, <1>2, <1>3 DEF Anchored

\* A new Owner: what its builder loses it has in its fields.
LEMMA BornAnchored ==
  ASSUME Ownership, Anchored, NEW r \in Res, NEW fl \in [Field -> Res \cup {None}],
         NEW deps \in SUBSET Res, Born(r, fl, deps), FieldsOf(r, fl), BuildersOK',
         \A b \in Builder, f \in Field :
           own[b][f] # None => own'[b][f] = own[b][f] \/ \E g \in Field : fl[g] = own[b][f],
         r \in Ctx \/ InOneContext(deps)
  PROVE  Anchored'
<1> USE DEF Ownership, Anchored, Born
<1>1. LiveHeld'
  <2> SUFFICES ASSUME NEW x \in Res, phase'[x] = "live" PROVE Held(handles', field', own', x)
    BY DEF LiveHeld
  <2>1. CASE x = r
    <3>1. handles'[r] = 1 BY DEF TypeOK
    <3> QED BY <2>1, <3>1 DEF Held
  <2>2. CASE x # r
    <3>1. phase[x] = "live" /\ handles'[x] = handles[x] BY <2>2 DEF TypeOK
    <3>2. CASE handles[x] > 0 BY <3>1, <3>2 DEF Held
    <3>3. ASSUME NEW y \in Res, NEW f \in Field, field[y][f] = x PROVE Held(handles', field', own', x)
      <4>1. y # r BY <3>3, NoneAssumption DEF NoneAssumption, RefsLive
      <4>2. field'[y][f] = x BY <3>3, <4>1 DEF TypeOK
      <4> QED BY <4>2 DEF Held
    <3>4. ASSUME NEW b \in Builder, NEW f \in Field, own[b][f] = x PROVE Held(handles', field', own', x)
      <4>1. CASE own'[b][f] = own[b][f] BY <3>4, <4>1 DEF Held
      <4>2. ASSUME NEW g \in Field, fl[g] = own[b][f] PROVE Held(handles', field', own', x)
        <5>1. field'[r][g] = x BY <3>4, <4>2 DEF TypeOK
        <5> QED BY <5>1 DEF Held
      <4> QED BY <3>4, <4>1, <4>2, NoneAssumption DEF NoneAssumption
    <3> QED BY <3>1, <3>2, <3>3, <3>4 DEF LiveHeld, Held
  <2> QED BY <2>1, <2>2
<1>2. FieldsOK'
  <2>1. field'[r] = fl /\ \A x \in Res : x # r => field'[x] = field[x] BY DEF TypeOK
  <2> QED BY <2>1 DEF FieldsOK
<1>3. ContextsOK'
  <2>1. kdep'[r] = deps /\ \A x \in Res : x # r => kdep'[x] = kdep[x] BY DEF TypeOK
  <2>2. kobj \subseteq Res BY DEF TypeOK
  <2> QED BY <2>1, <2>2 DEF ContextsOK
<1> QED BY <1>1, <1>2, <1>3

\* Handles are released and the phases settle: a count that became zero is seen.
LEMMA SettledAnchored ==
  ASSUME Ownership, Anchored, phase' = Settled, UNCHANGED verbs, FieldsOK', BuildersOK'
  PROVE  Anchored'
<1>1. LiveHeld'
  <2> SUFFICES ASSUME NEW x \in Res, phase'[x] = "live" PROVE Held(handles', field', own', x)
    BY DEF LiveHeld
  <2> QED BY DEF Settled
<1>2. ContextsOK' BY DEF ContextsOK, verbs, Anchored
<1> QED BY <1>1, <1>2 DEF Anchored

LEMMA AddHandleAnchored ==
  ASSUME Ownership, Anchored, NEW r \in Res, AddHandle(r)
  PROVE  Anchored'
<1> USE DEF Ownership, Anchored, AddHandle, builders, verbs
<1>1. \A x \in Res : handles[x] > 0 => handles'[x] > 0 BY DEF TypeOK
<1>2. LiveHeld' BY <1>1 DEF LiveHeld, Held
<1> QED BY <1>2 DEF FieldsOK, BuildersOK, ContextsOK

LEMMA FinalizeAnchored ==
  ASSUME Ownership, Anchored, NEW r \in Res, NEW fails \in BOOLEAN, Finalize(r, fails)
  PROVE  Anchored'
<1> USE DEF Ownership, Anchored, Finalize, builders
<1>1. LiveHeld' BY DEF LiveHeld, Held, TypeOK
<1>2. ContextsOK'
  <2>1. kobj' \subseteq kobj BY DEF TypeOK
  <2>2. \A x \in kobj' \ Ctx : kdep'[x] = kdep[x]
    <3>1. CASE fails BY <3>1
    <3>2. CASE ~fails BY <3>2 DEF TypeOK
    <3> QED BY <3>1, <3>2
  <2> QED BY <2>1, <2>2 DEF ContextsOK
<1> QED BY <1>1, <1>2 DEF FieldsOK, BuildersOK

LEMMA DeallocateAnchored ==
  ASSUME Ownership, Anchored, NEW r \in Res, Deallocate(r)
  PROVE  Anchored'
<1> USE DEF Ownership, Anchored, Deallocate, builders, verbs
<1>1. LiveHeld' BY DEF LiveHeld, Held, TypeOK
<1> QED BY <1>1 DEF FieldsOK, BuildersOK, ContextsOK

LEMMA ReleaseFieldAnchored ==
  ASSUME Ownership, Anchored, NEW r \in Res, ReleaseField(r)
  PROVE  Anchored'
<1>1. PICK f \in Field :
        /\ field' = [field EXCEPT ![r][f] = None]
        /\ UNCHANGED <<handles, builders, verbs, cqref, panicked>>
        /\ phase' = Settled
  BY DEF ReleaseField
<1>2. \A x \in Res, g \in Field : field'[x][g] \in {field[x][g], None} BY <1>1 DEF Ownership, TypeOK
<1>3. FieldsOK' BY <1>2, FieldNames DEF Anchored, FieldsOK, FieldsOf, Typed
<1>4. BuildersOK' BY <1>1 DEF Anchored, BuildersOK, builders
<1> QED BY <1>1, <1>3, <1>4, SettledAnchored

-------------------------------------------------------------------------------
(***************************************************************************)
(* Creation                                                                 *)
(***************************************************************************)
LEMMA ClearedBuilders ==
  ASSUME Ownership, BuildersOK, NEW b \in Builder, own' = Clear(own, b)
  PROVE  /\ BuildersOK'
         /\ \A x \in Builder, f \in Field : x # b => own'[x][f] = own[x][f]
<1>1. \A x \in Builder : own'[x] = IF x = b THEN NoFields ELSE own[x]
  BY DEF Clear, Ownership, TypeOK
<1>2. \A f \in Field : NoFields[f] = None BY DEF NoFields
<1>3. {"cq", "srq", "qp"} \subseteq Builder BY DEF Builder
<1>4. BuildersOK' BY <1>1, <1>2, <1>3, NoFieldsTyped, FieldNames DEF BuildersOK
<1> QED BY <1>1, <1>4

LEMMA SameBuilders == BuildersOK /\ UNCHANGED builders => BuildersOK' /\ UNCHANGED own
BY DEF BuildersOK, builders

LEMMA OpenCtxAnchored ==
  ASSUME Ownership, Anchored, NEW c \in Ctx, OpenCtx(c)
  PROVE  Anchored'
<1>1. Born(c, NoFields, {}) /\ UNCHANGED builders BY DEF OpenCtx
<1>2. c \in Res BY DEF Res
<1>3. BuildersOK' /\ UNCHANGED own BY <1>1, SameBuilders DEF Anchored
<1> QED BY <1>1, <1>2, <1>3, NoFieldsType, NoFieldsTyped, BornAnchored

LEMMA OfCtxAnchored ==
  ASSUME Ownership, Anchored, NEW r \in Pd \cup Cc \cup Dm, NEW c \in Ctx, OfCtx(r, c)
  PROVE  Anchored'
<1> DEFINE fl == [NoFields EXCEPT !["ctx"] = c]
<1>0. r \in Res /\ c \in Res BY DEF Res
<1>1. Born(r, fl, {c}) /\ UNCHANGED builders BY DEF OfCtx
<1>2. \A f \in Field : fl[f] = IF f = "ctx" THEN c ELSE None BY DEF NoFields
<1>3. fl \in [Field -> Res \cup {None}] BY <1>0 DEF NoFields
<1> HIDE DEF fl
<1>4. FieldsOf(r, fl) BY <1>2, FieldNames DEF FieldsOf, Typed
<1>5. BuildersOK' /\ UNCHANGED own BY <1>1, SameBuilders DEF Anchored
<1>6. InOneContext({c}) BY DEF InOneContext
<1> QED BY <1>0, <1>1, <1>3, <1>4, <1>5, <1>6, BornAnchored

\* The verbs object of a handle, and its context.
LEMMA UsableContext ==
  ASSUME Ownership, Anchored, NEW p \in Pd, phase[p] = "live"
  PROVE  p \in kobj /\ p \notin Ctx /\ InOneContext(kdep[p]) /\ kdep[p] \subseteq Res
<1>1. p \in Res /\ p \notin Ctx BY KindsAssumption DEF KindsAssumption, Res
<1>2. p \in kobj BY <1>1 DEF Ownership, Existing
<1> QED BY <1>1, <1>2 DEF Ownership, TypeOK, Anchored, ContextsOK

LEMMA MadeOfPdAnchored ==
  ASSUME Ownership, Anchored, NEW r \in OfPd, NEW p \in Pd, MadeOfPd(r, p)
  PROVE  Anchored'
<1> DEFINE fl == [NoFields EXCEPT !["pd"] = p]
<1>0. r \in Res /\ p \in Res BY DEF Res
<1>1. Born(r, fl, {p} \cup kdep[p]) /\ UNCHANGED builders /\ Usable(p) BY DEF MadeOfPd
<1>2. \A f \in Field : fl[f] = IF f = "pd" THEN p ELSE None BY DEF NoFields
<1>3. fl \in [Field -> Res \cup {None}] BY <1>0 DEF NoFields
<1> HIDE DEF fl
<1>4. FieldsOf(r, fl) BY <1>2, FieldNames DEF FieldsOf, Typed
<1>5. BuildersOK' /\ UNCHANGED own BY <1>1, SameBuilders DEF Anchored
<1>6. phase[p] = "live" BY <1>0, <1>1 DEF Usable, Ownership, RefsLive
<1>7. p \notin Ctx /\ InOneContext(kdep[p]) /\ kdep[p] \subseteq Res BY <1>6, UsableContext
<1>8. InOneContext({p} \cup kdep[p]) BY <1>7 DEF InOneContext
<1> QED BY <1>0, <1>1, <1>3, <1>4, <1>5, <1>7, <1>8, BornAnchored

LEMMA CreateCqAnchored ==
  ASSUME Ownership, Anchored, NEW q \in Cq, NEW c \in Ctx, CreateCq(q, c)
  PROVE  Anchored'
<1> DEFINE cc == own["cq"]["cc"]
           fl == [NoFields EXCEPT !["cc"] = cc, !["ctx"] = c]
           deps == {c} \cup ({cc} \ {None})
<1>0. q \in Res /\ c \in Res /\ "cq" \in Builder BY DEF Res, Builder
<1>1. Born(q, fl, deps) /\ own' = Clear(own, "cq") BY DEF CreateCq
<1>2. cc \in Cc \cup {None} BY <1>0 DEF Anchored, BuildersOK, Typed
<1>3. cc \in Res \cup {None} /\ cc \notin Ctx
  BY <1>2, KindsAssumption, NoneAssumption DEF KindsAssumption, NoneAssumption, Res
<1>4. \A f \in Field : fl[f] = IF f = "cc" THEN cc ELSE IF f = "ctx" THEN c ELSE None
  BY DEF NoFields
<1>5. fl \in [Field -> Res \cup {None}] BY <1>0, <1>3 DEF NoFields
<1>6. deps \in SUBSET Res BY <1>0, <1>3
<1>7. InOneContext(deps) BY <1>3 DEF InOneContext
<1> HIDE DEF fl, deps
<1>8. FieldsOf(q, fl) BY <1>2, <1>4, FieldNames DEF FieldsOf, Typed
<1>9. /\ BuildersOK'
      /\ \A x \in Builder, f \in Field : x # "cq" => own'[x][f] = own[x][f]
  BY <1>0, <1>1, ClearedBuilders DEF Anchored
<1>10. \A x \in Builder, f \in Field :
         own[x][f] # None => own'[x][f] = own[x][f] \/ \E g \in Field : fl[g] = own[x][f]
  <2> SUFFICES ASSUME NEW f \in Field, own["cq"][f] # None PROVE \E g \in Field : fl[g] = own["cq"][f]
    BY <1>9
  <2>1. f = "cc" BY DEF Anchored, BuildersOK
  <2> QED BY <1>4, <2>1
<1> QED BY <1>0, <1>1, <1>5, <1>6, <1>7, <1>8, <1>9, <1>10, BornAnchored

\* SharedReceiveQueue::create asserts that the domain is of its context.
LEMMA CreateSrqAnchored ==
  ASSUME Ownership, Anchored, NEW s \in Srq, NEW c \in Ctx, CreateSrq(s, c)
  PROVE  Anchored'
<1> DEFINE pd == own["srq"]["pd"]
           ptr == raw["srq"]["pd"]
           fl == [NoFields EXCEPT !["ctx"] = c, !["pd"] = pd]
           deps == {c} \cup UNION {{p} \cup kdep[p] : p \in {ptr} \ {None}}
<1>0. s \in Res /\ c \in Res /\ "srq" \in Builder /\ "pd" \in Field BY DEF Res, Builder, Field
<1>1. /\ Born(s, fl, deps) /\ own' = Clear(own, "srq")
      /\ pd # None => kdep[pd] = {c}
  BY DEF CreateSrq
<1>2. pd \in Pd \cup {None} BY <1>0 DEF Anchored, BuildersOK, Typed
<1>3. pd \in Res \cup {None} /\ pd \notin Ctx
  BY <1>2, KindsAssumption, NoneAssumption DEF KindsAssumption, NoneAssumption, Res
<1>4. \A f \in Field : fl[f] = IF f = "pd" THEN pd ELSE IF f = "ctx" THEN c ELSE None
  BY DEF NoFields
<1>5. fl \in [Field -> Res \cup {None}] BY <1>0, <1>3 DEF NoFields
<1>6. ptr # None => ptr = pd BY <1>0 DEF Ownership, RawOwned
<1>7. deps \in SUBSET Res /\ InOneContext(deps)
  <2>1. CASE ptr = None
    <3>1. deps = {c} BY <2>1
    <3> QED BY <1>0, <3>1 DEF InOneContext
  <2>2. CASE ptr # None
    <3>1. deps = {c} \cup ({pd} \cup {c}) /\ pd # None BY <1>1, <1>6, <2>2
    <3>2. deps = {c, pd} BY <3>1
    <3>3. deps \cap Ctx = {c} BY <1>3, <3>2
    <3> QED BY <1>0, <1>3, <3>1, <3>2, <3>3 DEF InOneContext
  <2> QED BY <2>1, <2>2
<1> HIDE DEF fl, deps
<1>8. FieldsOf(s, fl) BY <1>2, <1>4, FieldNames DEF FieldsOf, Typed
<1>9. /\ BuildersOK'
      /\ \A x \in Builder, f \in Field : x # "srq" => own'[x][f] = own[x][f]
  BY <1>0, <1>1, ClearedBuilders DEF Anchored
<1>10. \A x \in Builder, f \in Field :
         own[x][f] # None => own'[x][f] = own[x][f] \/ \E g \in Field : fl[g] = own[x][f]
  <2> SUFFICES ASSUME NEW f \in Field, own["srq"][f] # None PROVE \E g \in Field : fl[g] = own["srq"][f]
    BY <1>9
  <2>1. f = "pd" BY DEF Anchored, BuildersOK
  <2> QED BY <1>4, <2>1
<1> QED BY <1>0, <1>1, <1>5, <1>7, <1>8, <1>9, <1>10, BornAnchored

LEMMA CreateQpAnchored ==
  ASSUME Ownership, Anchored, NEW q \in Qp, NEW c \in Ctx, CreateQp(q, c)
  PROVE  Anchored'
<1> DEFINE ptr == {raw["qp"][f] : f \in Field} \ {None}
           pd == raw["qp"]["pd"]
           fl == own["qp"]
           deps == ptr \cup kdep[pd]
<1>0. q \in Res /\ "qp" \in Builder /\ "pd" \in Field BY DEF Res, Builder, Field
<1>1. Born(q, fl, deps) /\ own' = Clear(own, "qp") /\ pd # None BY DEF CreateQp
<1>2. fl \in [Field -> Res \cup {None}] BY <1>0 DEF Ownership, TypeOK
<1>3. Typed(fl) /\ fl["cc"] = None /\ fl["ctx"] = None BY <1>0 DEF Anchored, BuildersOK
<1>4. FieldsOf(q, fl) BY <1>3 DEF FieldsOf
<1>5. \A f \in Field : raw["qp"][f] # None => raw["qp"][f] = fl[f]
  BY <1>0 DEF Ownership, RawOwned
<1>6. \A f \in Field : fl[f] \notin Ctx
  BY <1>3, FieldNames, KindsAssumption, NoneAssumption DEF Typed, KindsAssumption, NoneAssumption, Res
<1>7. ptr \subseteq Res /\ ptr \cap Ctx = {} BY <1>2, <1>5, <1>6
<1>8. pd \in Pd /\ phase[pd] = "live"
  <2>1. pd = fl["pd"] BY <1>0, <1>1, <1>5
  <2> QED BY <1>0, <1>1, <1>3, <2>1 DEF Typed, Ownership, RefsLive
<1>9. InOneContext(kdep[pd]) /\ kdep[pd] \subseteq Res BY <1>8, UsableContext
<1> HIDE DEF ptr, pd
<1>10. deps \in SUBSET Res /\ InOneContext(deps)
  <2>1. PICK k \in Ctx : kdep[pd] \cap Ctx = {k} BY <1>9 DEF InOneContext
  <2>2. deps \cap Ctx = {k} BY <1>7, <2>1
  <2> QED BY <1>7, <1>9, <2>2 DEF InOneContext
<1> HIDE DEF deps
<1>11. /\ BuildersOK'
       /\ \A x \in Builder, f \in Field : x # "qp" => own'[x][f] = own[x][f]
  BY <1>0, <1>1, ClearedBuilders DEF Anchored
<1>12. \A x \in Builder, f \in Field :
         own[x][f] # None => own'[x][f] = own[x][f] \/ \E g \in Field : fl[g] = own[x][f]
  BY <1>11
<1> QED BY <1>0, <1>1, <1>2, <1>4, <1>10, <1>11, <1>12, BornAnchored

-------------------------------------------------------------------------------
(***************************************************************************)
(* The builders                                                             *)
(***************************************************************************)
\* A setter stores a handle in one field, and may take another out.
LEMMA SetOptionAnchored ==
  ASSUME Ownership, Anchored, NEW b \in Builder, NEW newRaw, NEW newOwn,
         SetOption(b, newRaw, newOwn), Typed(newOwn),
         b = "cq" => \A f \in Field \ {"cc"} : newOwn[f] = None,
         b = "srq" => \A f \in Field \ {"pd"} : newOwn[f] = None,
         b = "qp" => newOwn["cc"] = None /\ newOwn["ctx"] = None
  PROVE  Anchored'
<1>1. \A x \in Builder : own'[x] = IF x = b THEN newOwn ELSE own[x]
  BY DEF SetOption, Ownership, TypeOK
<1>2. {"cq", "srq", "qp"} \subseteq Builder BY DEF Builder
<1>3. BuildersOK' BY <1>1, <1>2 DEF Anchored, BuildersOK
<1>4. FieldsOK' BY DEF SetOption, Anchored, FieldsOK
<1> QED BY <1>3, <1>4, SettledAnchored DEF SetOption

LEMMA BuildAnchored == ASSUME Ownership, Anchored, Build PROVE Anchored'
<1>0. /\ {"cq", "srq", "qp"} \subseteq Builder
      /\ \A b \in Builder : own[b] \in [Field -> Res \cup {None}]
  BY DEF Builder, Ownership, TypeOK
<1> USE FieldNames DEF Anchored, BuildersOK
<1>1. ASSUME NEW c \in Cc, CqChannel(c) PROVE Anchored'
  <2> DEFINE no == [own["cq"] EXCEPT !["cc"] = c]
  <2>1. \A f \in Field : no[f] = IF f = "cc" THEN c ELSE own["cq"][f] BY <1>0
  <2>2. SetOption("cq", raw["cq"], no) BY <1>1 DEF CqChannel
  <2> HIDE DEF no
  <2>3. Typed(no) BY <1>0, <2>1 DEF Typed
  <2> QED BY <1>0, <2>1, <2>2, <2>3, SetOptionAnchored
<1>2. ASSUME NEW p \in Pd, SrqProtectionDomain(p) PROVE Anchored'
  <2> DEFINE no == [own["srq"] EXCEPT !["pd"] = p]
  <2>1. \A f \in Field : no[f] = IF f = "pd" THEN p ELSE own["srq"][f] BY <1>0
  <2>2. SetOption("srq", [raw["srq"] EXCEPT !["pd"] = p], no) BY <1>2 DEF SrqProtectionDomain
  <2> HIDE DEF no
  <2>3. Typed(no) BY <1>0, <2>1 DEF Typed
  <2> QED BY <1>0, <2>1, <2>2, <2>3, SetOptionAnchored
<1>3. ASSUME NEW p \in Pd, QpPd(p) PROVE Anchored'
  <2> DEFINE no == [own["qp"] EXCEPT !["pd"] = p]
  <2>1. \A f \in Field : no[f] = IF f = "pd" THEN p ELSE own["qp"][f] BY <1>0
  <2>2. SetOption("qp", [raw["qp"] EXCEPT !["pd"] = p], no) BY <1>3 DEF QpPd
  <2> HIDE DEF no
  <2>3. Typed(no) BY <1>0, <2>1 DEF Typed
  <2> QED BY <1>0, <2>1, <2>2, <2>3, SetOptionAnchored
<1>4. ASSUME NEW q \in Cq, QpSendCq(q) PROVE Anchored'
  <2> DEFINE no == [own["qp"] EXCEPT !["send_cq"] = q]
  <2>1. \A f \in Field : no[f] = IF f = "send_cq" THEN q ELSE own["qp"][f] BY <1>0
  <2>2. SetOption("qp", [raw["qp"] EXCEPT !["send_cq"] = q], no) BY <1>4 DEF QpSendCq
  <2> HIDE DEF no
  <2>3. Typed(no) BY <1>0, <2>1 DEF Typed
  <2> QED BY <1>0, <2>1, <2>2, <2>3, SetOptionAnchored
<1>5. ASSUME NEW q \in Cq, QpRecvCq(q) PROVE Anchored'
  <2> DEFINE no == [own["qp"] EXCEPT !["recv_cq"] = q, !["srq"] = None]
  <2>1. \A f \in Field : no[f] = IF f = "recv_cq" THEN q ELSE IF f = "srq" THEN None ELSE own["qp"][f]
    BY <1>0
  <2>2. PICK nr : SetOption("qp", nr, no) BY <1>5 DEF QpRecvCq
  <2> HIDE DEF no
  <2>3. Typed(no) BY <1>0, <2>1 DEF Typed
  <2> QED BY <1>0, <2>1, <2>2, <2>3, SetOptionAnchored
<1>6. ASSUME NEW s \in Srq, QpSrq(s) PROVE Anchored'
  <2> DEFINE no == [own["qp"] EXCEPT !["srq"] = s, !["recv_cq"] = None]
  <2>1. \A f \in Field : no[f] = IF f = "srq" THEN s ELSE IF f = "recv_cq" THEN None ELSE own["qp"][f]
    BY <1>0
  <2>2. PICK nr : SetOption("qp", nr, no) BY <1>6 DEF QpSrq
  <2> HIDE DEF no
  <2>3. Typed(no) BY <1>0, <2>1 DEF Typed
  <2> QED BY <1>0, <2>1, <2>2, <2>3, SetOptionAnchored
<1>7. ASSUME NEW b \in Builder, DropOptions(b) PROVE Anchored'
  <2>1. \A f \in Field : NoFields[f] = None BY DEF NoFields
  <2> QED BY <1>7, <2>1, NoFieldsTyped, SetOptionAnchored DEF DropOptions
<1> QED BY <1>1, <1>2, <1>3, <1>4, <1>5, <1>6, <1>7 DEF Build

-------------------------------------------------------------------------------
(***************************************************************************)
(* All steps                                                                *)
(***************************************************************************)
LEMMA CreateAnchored == ASSUME Ownership, Anchored, Create PROVE Anchored'
<1>1. ASSUME NEW c \in Ctx, NEW r \in Pd \cup Cc \cup Dm, OfCtx(r, c) PROVE Anchored'
  BY <1>1, OfCtxAnchored
<1>2. ASSUME NEW p \in Pd, NEW r \in OfPd, MadeOfPd(r, p) PROVE Anchored' BY <1>2, MadeOfPdAnchored
<1> QED BY <1>1, <1>2, OpenCtxAnchored, CreateCqAnchored, CreateSrqAnchored, CreateQpAnchored
        DEF Create, AllocPd, CreateCc, AllocDm, RegisterMr, AllocMw, CreateAh, OfPd

LEMMA HandleAnchored == ASSUME Ownership, Anchored, Handle PROVE Anchored'
<1>1. ASSUME NEW r \in Res, Clone(r) PROVE Anchored' BY <1>1, AddHandleAnchored DEF Clone
<1>2. ASSUME NEW r \in Res, DropHandle(r) PROVE Anchored'
  <2>1. FieldsOK' /\ BuildersOK' BY <1>2 DEF DropHandle, Anchored, FieldsOK, BuildersOK, builders
  <2> QED BY <1>2, <2>1, SettledAnchored DEF DropHandle
<1>3. ASSUME NEW q \in Qp, NEW f \in {"send_cq", "recv_cq"}, QpCq(q, f) PROVE Anchored'
  <2>1. q \in Res /\ f \in Field BY DEF Res, Field
  <2>2. field[q][f] \in Res BY <1>3, <2>1 DEF QpCq, Ownership, TypeOK
  <2> QED BY <1>3, <2>2, AddHandleAnchored DEF QpCq
<1>4. ASSUME NEW c \in Cc, NEW q \in Cq, WaitCqEvent(c, q) PROVE Anchored'
  BY <1>4, AddHandleAnchored DEF WaitCqEvent, Res
<1> QED BY <1>1, <1>2, <1>3, <1>4 DEF Handle

LEMMA DropAnchored == ASSUME Ownership, Anchored, Drop PROVE Anchored'
<1>1. ASSUME NEW r \in Res, NEW fails, fails \in BOOLEAN, Finalize(r, fails) PROVE Anchored'
  BY <1>1, FinalizeAnchored
<1>2. \A r : InUse(r) \in BOOLEAN BY DEF InUse
<1>3. ASSUME NEW r \in Res,
             DropCtx(r) \/ DropPd(r) \/ DropSrq(r) \/ DropQp(r) \/ DropMr(r) \/ DropMw(r)
               \/ DropAh(r) \/ DropDm(r) \/ DropCc(r)
      PROVE  Anchored'
  BY <1>1, <1>2, <1>3
     DEF DropCtx, DropPd, DropSrq, DropQp, DropMr, DropMw, DropAh, DropDm, DropCc
<1>4. ASSUME NEW q \in Cq, DropCq(q) PROVE Anchored'
  <2>1. q \in Res BY DEF Res
  <2>2. PICK fails \in BOOLEAN : Finalize(q, fails)
    <3>1. ((field[q]["cc"] # None /\ q \notin cqref[field[q]["cc"]]) \/ InUse(q)) \in BOOLEAN OBVIOUS
    <3> QED BY <1>4, <3>1 DEF DropCq
  <2> QED BY <1>1, <2>1, <2>2
<1> QED BY <1>3, <1>4, ReleaseFieldAnchored, DeallocateAnchored DEF Drop, Res, OfPd

LEMMA NextAnchored == Ownership /\ Anchored /\ [Next]_vars => Anchored'
<1> SUFFICES ASSUME Ownership, Anchored, [Next]_vars PROVE Anchored' OBVIOUS
<1>1. CASE UNCHANGED vars
  BY <1>1 DEF vars, Anchored, LiveHeld, Held, FieldsOK, BuildersOK, ContextsOK
<1> QED BY <1>1, CreateAnchored, BuildAnchored, HandleAnchored, DropAnchored DEF Next

LEMMA SpecAnchored == Spec => []Anchored
BY InitAnchored, NextAnchored, OwnershipInvariant, PTL DEF Spec

-------------------------------------------------------------------------------
(***************************************************************************)
(* The theorems                                                             *)
(***************************************************************************)
\* The objects an object was made from are all of one context, although a shared
\* receive queue and a queue pair take the context and the domain separately.
THEOREM ContextsAgree == Spec => []OneContext
<1>1. ASSUME Anchored PROVE OneContext
  <2> SUFFICES ASSUME NEW x \in kobj \ Ctx PROVE Cardinality(kdep[x] \cap Ctx) = 1
    BY DEF OneContext
  <2>1. PICK c \in Ctx : kdep[x] \cap Ctx = {c} BY <1>1 DEF Anchored, ContextsOK, InOneContext
  <2> QED BY <2>1, FS_Singleton
<1> QED BY <1>1, SpecAnchored, PTL

\* A drop that has begun can go on: no weak reference holds the memory back.
LEMMA DropsGoOn ==
  ASSUME Ownership, NEW r \in Res, phase[r] \in {"finalizing", "unwinding"}
  PROVE  CanDrop(r)
<1> SUFFICES ASSUME phase[r] = "unwinding" PROVE CanDrop(r) BY DEF CanDrop
<1>1. \A c \in Cc : r \notin cqref[c] BY DEF Ownership, CqRefExact, Existing
<1>2. CASE field[r] = NoFields BY <1>1, <1>2 DEF CanDrop
<1>3. CASE field[r] # NoFields
  <2>1. field[r] \in [Field -> Res \cup {None}] BY DEF Ownership, TypeOK
  <2>2. \E f \in Field : field[r][f] # None BY <1>3, <2>1 DEF NoFields
  <2>3. \E f \in Field : /\ field[r][f] # None
                         /\ \A g \in Field : DropRank[g] < DropRank[f] => field[r][g] = None
    BY <2>2 DEF Field, DropRank
  <2> QED BY <2>3 DEF CanDrop
<1> QED BY <1>2, <1>3

\* A live Owner that neither the program nor a builder refers to is a field of
\* another, which is live when no drop is under way.
LEMMA ReferredByLive ==
  ASSUME Ownership, Anchored, Idle, \A r \in Res : ~CanDrop(r), NEW r \in Res, phase[r] = "live"
  PROVE  \E x \in Res, f \in Field : field[x][f] = r /\ phase[x] = "live"
<1>1. Held(handles, field, own, r) BY DEF Anchored, LiveHeld
<1>2. handles[r] = 0 /\ \A b \in Builder, f \in Field : own[b][f] = None BY DEF Idle, NoFields
<1>3. PICK x \in Res, f \in Field : field[x][f] = r
  BY <1>1, <1>2, NoneAssumption DEF NoneAssumption, Held
<1>4. phase[x] # "absent" BY <1>3, NoneAssumption DEF NoneAssumption, Ownership, RefsLive
<1>5. phase[x] \notin {"finalizing", "unwinding"} BY DropsGoOn
<1>6. phase[x] = "live" BY <1>4, <1>5 DEF Ownership, TypeOK, Phase
<1> QED BY <1>3, <1>6

\* When the program holds nothing and no drop can go on, everything is freed: the
\* Owners form no strong cycle, and no WeakSet keeps memory.
THEOREM NothingLeaks == Spec => []NoLeak
<1>1. ASSUME Ownership, Anchored, Idle, \A r \in Res : ~CanDrop(r)
      PROVE  \A r \in Res : phase[r] = "absent"
  <2> USE <1>1, KindsAssumption, NoneAssumption, FieldNames DEF KindsAssumption, NoneAssumption
  <2> DEFINE Live(r) == r \in Res /\ phase[r] = "live"
             Via(f) == \E x \in Res : phase[x] = "live" /\ field[x][f] # None
             At(r, f) == \E x \in Res : phase[x] = "live" /\ field[x][f] = r
  <2>0. \A r : Live(r) => r # None /\ \E f \in Field : At(r, f) BY ReferredByLive
  <2>1. \A x \in Res : FieldsOf(x, field[x]) BY DEF Anchored, FieldsOK
  <2>2. /\ \A r : At(r, "cc") => r \in Cc \cup {None}
        /\ \A r : At(r, "ctx") => r \in Ctx \cup {None}
        /\ \A r : At(r, "pd") => r \in Pd \cup {None}
        /\ \A r : At(r, "send_cq") \/ At(r, "recv_cq") => r \in Cq \cup {None}
        /\ \A r : At(r, "srq") => r \in Srq \cup {None}
    BY <2>1 DEF FieldsOf, Typed
  <2>3. \A f \in Field : ~Via(f) => \A r : Live(r) => ~At(r, f) OBVIOUS
  <2> HIDE DEF At
  \* A queue pair is no field of anything, ...
  <2>4. \A r \in Qp : ~Live(r) BY <2>0, <2>2
  <2>5. ~Via("send_cq") /\ ~Via("recv_cq") /\ ~Via("srq") BY <2>1, <2>4 DEF FieldsOf
  <2> HIDE DEF Live, Via
  \* ... so its queues are not, then their channels and whatever has a domain, ...
  <2>6. \A r \in Cq : ~Live(r) BY <2>0, <2>2, <2>3, <2>5
  <2>7. ~Via("cc") BY <2>1, <2>6 DEF FieldsOf, Live, Via
  <2>8. \A r \in Cc \cup Srq \cup OfPd \cup Dm : ~Live(r) BY <2>0, <2>2, <2>3, <2>5, <2>7
  <2>9. ~Via("pd") BY <2>1, <2>4, <2>8 DEF FieldsOf, Live, Via
  \* ... the domains, and the contexts.
  <2>10. \A r \in Pd : ~Live(r) BY <2>0, <2>2, <2>3, <2>5, <2>7, <2>9
  <2>11. ~Via("ctx") BY <2>1, <2>6, <2>8, <2>10 DEF FieldsOf, Live, Via
  <2>12. \A r \in Res : ~Live(r) BY <2>0, <2>3, <2>5, <2>7, <2>9, <2>11
  <2>13. \A r \in Res : phase[r] # "live" BY <2>12 DEF Live
  <2>14. \A r \in Res : phase[r] \notin {"finalizing", "unwinding"} BY DropsGoOn
  <2> QED BY <2>13, <2>14 DEF Ownership, TypeOK, Phase
<1>2. Ownership /\ Anchored => NoLeak BY <1>1 DEF NoLeak
<1> QED BY <1>2, SpecAnchored, OwnershipInvariant, PTL
===============================================================================
