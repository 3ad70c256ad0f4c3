------------------------ MODULE RuntimeAdapterProofs ------------------------
(***************************************************************************)
(* What the RuntimeAdapter trait's specification promises by itself, for   *)
(* every set of calls and every model configuration: the callers of any    *)
(* backend that implements it may rely on the theorems below.              *)
(***************************************************************************)
EXTENDS RuntimeAdapter, RuntimeInterfaceProofs

(***************************************************************************)
(* The inductive invariant: in addition to what callers rely on, a call is *)
(* answered once, and the ids that were granted are the ids issued.        *)
(***************************************************************************)
TypeOK ==
  /\ active \in Ledger
  /\ issued \subseteq ReservationIds
  /\ phase \in [Calls -> {"idle", "pending", "done"}]
  /\ request \in [Calls -> Requests]
  /\ reply \in [Calls -> Reply]

AdapterInv ==
  /\ TypeOK
  /\ \A c \in Calls : phase[c] # "done" => reply[c] = NoReply
  /\ GrantedIds = issued
  /\ ReleasedIds \subseteq issued
  /\ CallersMayRelyOn

LEMMA AdapterInit == Init => AdapterInv
<1> SUFFICES ASSUME Init PROVE AdapterInv
  OBVIOUS
<1>1. active \in Ledger /\ DOMAIN active = {} /\ \A m : UsedSlots(active, m) = 0
  BY EmptyLedger DEF Init
<1>2. \A c \in Calls : reply[c] = NoReply /\ reply[c].status = 0
  BY Statuses DEF Init
<1>3. Answered(201) = {} /\ Answered(204) = {}
  BY <1>2 DEF Answered
<1>4. GrantedIds = {} /\ ReleasedIds = {}
  BY <1>3 DEF GrantedIds, ReleasedIds
<1>5. TypeOK
  BY <1>1, ReplyTypes DEF Init, TypeOK
<1>6. NeverOvercommitted
  BY <1>1, ModelsType, MaxU16Assumption DEF NeverOvercommitted
<1>7. AnswersTellTheLedger
  BY <1>1, <1>3, <1>4 DEF AnswersTellTheLedger
<1>8. IdsAreUnique
  <2>1. \A c \in Calls : \A id : reply[c] # Completion(id)
    BY <1>2, Statuses
  <2> QED  BY <1>3, <2>1 DEF IdsAreUnique
<1> QED
  BY <1>2, <1>4, <1>5, <1>6, <1>7, <1>8 DEF Init, AdapterInv, CallersMayRelyOn

(***************************************************************************)
(* An answer is the first of its call, and the only thing it adds to what  *)
(* has been answered.                                                      *)
(***************************************************************************)
LEMMA FirstAnswer ==
  ASSUME AdapterInv, NEW c \in Calls, NEW a \in Reply, Answer(c, a)
  PROVE  /\ request' = request
         /\ phase' \in [Calls -> {"idle", "pending", "done"}]
         /\ reply' \in [Calls -> Reply]
         /\ reply[c] = NoReply /\ reply[c].status = 0 /\ reply'[c] = a
         /\ \A d \in Calls : d # c => reply'[d] = reply[d]
         /\ \A d \in Calls : phase'[d] # "done" => reply'[d] = NoReply
<1>1. TypeOK
  BY DEF AdapterInv
<1>2. /\ request' = request
      /\ phase' \in [Calls -> {"idle", "pending", "done"}]
      /\ reply' \in [Calls -> Reply]
      /\ phase[c] = "pending" /\ phase'[c] = "done" /\ reply'[c] = a
      /\ \A d \in Calls : d # c => reply'[d] = reply[d] /\ phase'[d] = phase[d]
  BY <1>1 DEF TypeOK, Answer
<1>3. reply[c] = NoReply /\ reply[c].status = 0
  BY <1>2, Statuses DEF AdapterInv
<1>4. \A d \in Calls : phase'[d] # "done" => reply'[d] = NoReply
  BY <1>2 DEF AdapterInv
<1> QED  BY <1>2, <1>3, <1>4

\* A step that leaves the ledger alone and answers c, neither granting nor
\* releasing, under a completion id nobody carries if under one at all.
LEMMA OtherAnswer ==
  ASSUME AdapterInv, NEW c \in Calls, NEW a \in Reply, Answer(c, a),
         UNCHANGED <<active, issued>>, a.status \notin {0, 201, 204},
         \A id \in 1 .. MaxU64 : a = Completion(id) => \A d \in Calls : reply[d] # Completion(id)
  PROVE  AdapterInv'
<1>1. /\ request' = request
      /\ phase' \in [Calls -> {"idle", "pending", "done"}]
      /\ reply' \in [Calls -> Reply]
      /\ reply[c].status = 0 /\ reply'[c] = a
      /\ \A d \in Calls : d # c => reply'[d] = reply[d]
      /\ \A d \in Calls : phase'[d] # "done" => reply'[d] = NoReply
  BY FirstAnswer
<1>2. Answered(201)' = Answered(201) /\ Answered(204)' = Answered(204)
  BY <1>1 DEF Answered
<1>3. \A d \in Answered(201) : reply'[d] = reply[d]
  BY <1>1 DEF Answered
<1>4. GrantedIds' = GrantedIds /\ ReleasedIds' = ReleasedIds
  BY <1>1, <1>2, <1>3 DEF GrantedIds, ReleasedIds
<1>5. TypeOK'
  BY <1>1 DEF AdapterInv, TypeOK
<1>6. NeverOvercommitted' /\ AnswersTellTheLedger'
  <2>1. NeverOvercommitted'
    BY DEF AdapterInv, CallersMayRelyOn, NeverOvercommitted
  <2>2. AnswersTellTheLedger'
    BY <1>2, <1>3, <1>4 DEF AdapterInv, CallersMayRelyOn, AnswersTellTheLedger
  <2> QED  BY <2>1, <2>2
<1>7. IdsAreUnique'
  <2> SUFFICES ASSUME NEW d \in Calls, NEW e \in Calls, d # e
               PROVE  /\ {d, e} \subseteq Answered(201) =>
                           reply'[d].reservation_id # reply'[e].reservation_id
                      /\ {d, e} \subseteq Answered(204) =>
                           request[d].reservation_id # request[e].reservation_id
                      /\ \A id \in 1 .. MaxU64 :
                           ~ (reply'[d] = Completion(id) /\ reply'[e] = Completion(id))
    BY <1>1, <1>2 DEF IdsAreUnique
  <2>1. /\ {d, e} \subseteq Answered(201) =>
             reply'[d].reservation_id # reply'[e].reservation_id
        /\ {d, e} \subseteq Answered(204) =>
             request[d].reservation_id # request[e].reservation_id
    BY <1>3 DEF AdapterInv, CallersMayRelyOn, IdsAreUnique
  <2>2. ASSUME NEW id \in 1 .. MaxU64, reply'[d] = Completion(id), reply'[e] = Completion(id)
        PROVE  FALSE
    <3>1. CASE d # c /\ e # c
      BY <1>1, <2>2, <3>1 DEF AdapterInv, CallersMayRelyOn, IdsAreUnique
    <3>2. CASE d = c \/ e = c
      <4>1. a = Completion(id)
        BY <1>1, <2>2, <3>2
      <4> QED  BY <1>1, <2>2, <4>1
    <3> QED  BY <3>1, <3>2
  <2> QED  BY <2>1, <2>2
<1> QED  BY <1>1, <1>4, <1>5, <1>6, <1>7 DEF AdapterInv, CallersMayRelyOn

(***************************************************************************)
(* A reservation is granted: it fits, and its id is new.                   *)
(***************************************************************************)
LEMMA GrantPromise ==
  ASSUME AdapterInv, NEW c \in Calls, NEW id \in ReservationIds, Grant(c, id)
  PROVE  AdapterInv'
<1> DEFINE r == request[c]
           a == Created(id, r)
<1>1. /\ r \in Requests /\ r.op = "create_reservation" /\ RequestError(r) = "Ok"
      /\ Fits(r) /\ id \notin issued /\ Answer(c, a)
      /\ active' = Inserted(active, id, WellFormed(r)) /\ issued' = issued \cup {id}
  BY DEF Grant, Inserted, WellFormed, AdapterInv, TypeOK
<1>2. /\ r.model \in DOMAIN models /\ WellFormed(r) \in ModelReservation
      /\ Created(id, WellFormed(r)) = a
      /\ WellFormed(r).model = r.model /\ WellFormed(r).requested_slots = r.requested_slots
  BY <1>1, CreateWellFormed DEF WellFormed
<1>3. a \in Reply /\ a.status = 201 /\ a.reservation_id = id /\ \A k : a # Completion(k)
  <2>1. a \in Reply
    BY <1>2, ReplyTypes
  <2>2. a.status = 201 /\ a.reservation_id = id
    BY Statuses
  <2>3. \A k : a # Completion(k)
    BY <2>2, Statuses
  <2> QED  BY <2>1, <2>2, <2>3
<1> HIDE DEF a
<1>4. /\ request' = request
      /\ phase' \in [Calls -> {"idle", "pending", "done"}]
      /\ reply' \in [Calls -> Reply]
      /\ reply[c].status = 0 /\ reply'[c] = a
      /\ \A d \in Calls : d # c => reply'[d] = reply[d]
      /\ \A d \in Calls : phase'[d] # "done" => reply'[d] = NoReply
  BY <1>1, <1>3, FirstAnswer
<1>5. /\ Answered(201)' = Answered(201) \cup {c} /\ Answered(204)' = Answered(204)
      /\ c \notin Answered(201) /\ c \notin Answered(204)
  BY <1>3, <1>4 DEF Answered
<1>6. GrantedIds' = GrantedIds \cup {id} /\ ReleasedIds' = ReleasedIds
  BY <1>3, <1>4, <1>5 DEF GrantedIds, ReleasedIds, Answered
<1>7. id \notin GrantedIds /\ id \notin ReleasedIds
  BY <1>1 DEF AdapterInv
<1>8. active \in Ledger /\ active' \in Ledger
  BY <1>1, <1>2, InsertSlots DEF AdapterInv, TypeOK
<1>9. TypeOK'
  BY <1>1, <1>4, <1>8 DEF AdapterInv, TypeOK
<1>10. NeverOvercommitted'
  <2> SUFFICES ASSUME NEW m \in DOMAIN models PROVE UsedSlots(active', m) <= models[m]
    BY DEF NeverOvercommitted
  <2>1. /\ UsedSlots(active, m) \in Nat /\ UsedSlots(active', m) \in Nat /\ models[m] \in Nat
        /\ UsedSlots(active, m) <= models[m]
    BY <1>8, UsedSlotsType, ModelsType, MaxU16Assumption
       DEF AdapterInv, CallersMayRelyOn, NeverOvercommitted
  <2>2. CASE m = r.model
    <3>1. UsedSlots(active', m) <= UsedSlots(active, m) + r.requested_slots
      BY <1>1, <1>2, <1>8, <2>2, InsertSlots
    <3>2. UsedSlots(active, m) + r.requested_slots <= models[m]
      BY <1>1, <2>2 DEF Fits
    <3>3. r.requested_slots \in Nat
      BY <1>2, MaxU16Assumption DEF ModelReservation
    <3> QED  BY <2>1, <3>1, <3>2, <3>3
  <2>3. CASE m # r.model
    <3>1. UsedSlots(active', m) <= UsedSlots(active, m)
      BY <1>1, <1>2, <1>8, <2>3, InsertSlots
    <3> QED  BY <2>1, <3>1
  <2> QED  BY <2>2, <2>3
<1>11. AnswersTellTheLedger'
  <2>1. /\ DOMAIN active' = DOMAIN active \cup {id}
        /\ active'[id] = WellFormed(r)
        /\ \A k \in DOMAIN active : k # id => active'[k] = active[k]
    BY <1>1 DEF Inserted
  <2>2. DOMAIN active = GrantedIds \ ReleasedIds
    BY DEF AdapterInv, CallersMayRelyOn, AnswersTellTheLedger
  <2>3. DOMAIN active' = GrantedIds' \ ReleasedIds'
    BY <1>6, <1>7, <2>1, <2>2
  <2>4. ASSUME NEW d \in Answered(201)', reply'[d].reservation_id \in DOMAIN active'
        PROVE  reply'[d] = Created(reply'[d].reservation_id, active'[reply'[d].reservation_id])
    <3>1. CASE d = c
      BY <1>2, <1>3, <1>4, <2>1, <3>1
    <3>2. CASE d # c
      <4>1. d \in Answered(201) /\ d \in Calls /\ reply'[d] = reply[d]
        BY <1>4, <1>5, <3>2 DEF Answered
      <4>2. reply[d].reservation_id \in GrantedIds
        BY <4>1 DEF GrantedIds
      <4>3. reply[d].reservation_id # id /\ reply[d].reservation_id \in DOMAIN active
        BY <1>7, <2>1, <2>4, <4>1, <4>2
      <4>4. reply[d] = Created(reply[d].reservation_id, active[reply[d].reservation_id])
        BY <4>1, <4>3 DEF AdapterInv, CallersMayRelyOn, AnswersTellTheLedger
      <4> QED  BY <2>1, <4>1, <4>3, <4>4
    <3> QED  BY <3>1, <3>2
  <2> QED  BY <2>3, <2>4 DEF AnswersTellTheLedger
<1>12. IdsAreUnique'
  <2> SUFFICES ASSUME NEW d \in Calls, NEW e \in Calls, d # e
               PROVE  /\ {d, e} \subseteq Answered(201)' =>
                           reply'[d].reservation_id # reply'[e].reservation_id
                      /\ {d, e} \subseteq Answered(204) =>
                           request[d].reservation_id # request[e].reservation_id
                      /\ \A k \in 1 .. MaxU64 :
                           ~ (reply'[d] = Completion(k) /\ reply'[e] = Completion(k))
    BY <1>4, <1>5 DEF IdsAreUnique
  <2>1. ASSUME {d, e} \subseteq Answered(201)'
        PROVE  reply'[d].reservation_id # reply'[e].reservation_id
    <3>1. CASE d # c /\ e # c
      BY <1>4, <1>5, <2>1, <3>1 DEF AdapterInv, CallersMayRelyOn, IdsAreUnique
    <3>2. ASSUME NEW o \in {d, e}, o # c PROVE reply'[o].reservation_id # id
      <4>1. o \in Answered(201) /\ reply'[o] = reply[o]
        BY <1>4, <1>5, <2>1, <3>2
      <4> QED  BY <1>7, <4>1 DEF GrantedIds
    <3> QED  BY <1>3, <1>4, <3>1, <3>2
  <2>2. {d, e} \subseteq Answered(204) => request[d].reservation_id # request[e].reservation_id
    BY DEF AdapterInv, CallersMayRelyOn, IdsAreUnique
  <2>3. ASSUME NEW k \in 1 .. MaxU64, reply'[d] = Completion(k), reply'[e] = Completion(k)
        PROVE  FALSE
    BY <1>3, <1>4, <2>3 DEF AdapterInv, CallersMayRelyOn, IdsAreUnique
  <2> QED  BY <2>1, <2>2, <2>3
<1>13. GrantedIds' = issued' /\ ReleasedIds' \subseteq issued'
  BY <1>1, <1>6 DEF AdapterInv
<1> QED
  BY <1>4, <1>9, <1>10, <1>11, <1>12, <1>13 DEF AdapterInv, CallersMayRelyOn

(***************************************************************************)
(* An active id is released, for the first time.                           *)
(***************************************************************************)
LEMMA ReleasePromise ==
  ASSUME AdapterInv, NEW c \in Calls, Release(c),
         request[c].reservation_id \in DOMAIN active
  PROVE  AdapterInv'
<1> DEFINE id == request[c].reservation_id
<1>1. /\ Answer(c, NoContent) /\ issued' = issued
      /\ active' = Removed(active, id)
  BY DEF Release, Removed
<1>2. /\ request' = request
      /\ phase' \in [Calls -> {"idle", "pending", "done"}]
      /\ reply' \in [Calls -> Reply]
      /\ reply[c].status = 0 /\ reply'[c] = NoContent /\ NoContent.status = 204
      /\ \A d \in Calls : d # c => reply'[d] = reply[d]
      /\ \A d \in Calls : phase'[d] # "done" => reply'[d] = NoReply
  BY <1>1, FirstAnswer, ReplyTypes, Statuses
<1>3. /\ Answered(201)' = Answered(201) /\ Answered(204)' = Answered(204) \cup {c}
      /\ c \notin Answered(201) /\ c \notin Answered(204)
  BY <1>2 DEF Answered
<1>4. \A d \in Answered(201) : reply'[d] = reply[d]
  BY <1>2, <1>3 DEF Answered
<1>5. GrantedIds' = GrantedIds /\ ReleasedIds' = ReleasedIds \cup {id}
  BY <1>2, <1>3, <1>4 DEF GrantedIds, ReleasedIds
<1>6. id \in GrantedIds /\ id \notin ReleasedIds /\ DOMAIN active = GrantedIds \ ReleasedIds
  BY DEF AdapterInv, CallersMayRelyOn, AnswersTellTheLedger
<1>7. /\ active \in Ledger /\ active' \in Ledger
      /\ \A m : UsedSlots(active', m) <= UsedSlots(active, m)
  <2>1. active \in Ledger
    BY DEF AdapterInv, TypeOK
  <2>2. id \in ReservationIds
    BY <2>1, LedgerRecord
  <2> QED  BY <1>1, <2>1, <2>2, RemoveSlots
<1>8. TypeOK'
  BY <1>1, <1>2, <1>7 DEF AdapterInv, TypeOK
<1>9. NeverOvercommitted'
  <2> SUFFICES ASSUME NEW m \in DOMAIN models PROVE UsedSlots(active', m) <= models[m]
    BY DEF NeverOvercommitted
  <2>1. /\ UsedSlots(active, m) \in Nat /\ UsedSlots(active', m) \in Nat /\ models[m] \in Nat
        /\ UsedSlots(active, m) <= models[m]
    BY <1>7, UsedSlotsType, ModelsType, MaxU16Assumption
       DEF AdapterInv, CallersMayRelyOn, NeverOvercommitted
  <2> QED  BY <1>7, <2>1
<1>10. AnswersTellTheLedger'
  <2>1. /\ DOMAIN active' = DOMAIN active \ {id}
        /\ \A k \in DOMAIN active' : active'[k] = active[k]
    BY <1>1 DEF Removed
  <2> QED
    BY <1>3, <1>4, <1>5, <1>6, <2>1 DEF AdapterInv, CallersMayRelyOn, AnswersTellTheLedger
<1>11. IdsAreUnique'
  <2> SUFFICES ASSUME NEW d \in Calls, NEW e \in Calls, d # e
               PROVE  /\ {d, e} \subseteq Answered(201) =>
                           reply'[d].reservation_id # reply'[e].reservation_id
                      /\ {d, e} \subseteq Answered(204)' =>
                           request[d].reservation_id # request[e].reservation_id
                      /\ \A k \in 1 .. MaxU64 :
                           ~ (reply'[d] = Completion(k) /\ reply'[e] = Completion(k))
    BY <1>2, <1>3 DEF IdsAreUnique
  <2>1. {d, e} \subseteq Answered(201) => reply'[d].reservation_id # reply'[e].reservation_id
    BY <1>4 DEF AdapterInv, CallersMayRelyOn, IdsAreUnique
  <2>2. ASSUME {d, e} \subseteq Answered(204)'
        PROVE  request[d].reservation_id # request[e].reservation_id
    <3>1. CASE d # c /\ e # c
      BY <1>3, <2>2, <3>1 DEF AdapterInv, CallersMayRelyOn, IdsAreUnique
    <3>2. ASSUME NEW o \in {d, e}, o # c PROVE request[o].reservation_id # id
      <4>1. o \in Answered(204)
        BY <1>3, <2>2, <3>2
      <4> QED  BY <1>6, <4>1 DEF ReleasedIds
    <3> QED  BY <3>1, <3>2
  <2>3. ASSUME NEW k \in 1 .. MaxU64, reply'[d] = Completion(k), reply'[e] = Completion(k)
        PROVE  FALSE
    <3>1. NoContent # Completion(k)
      BY Statuses
    <3> QED  BY <1>2, <2>3, <3>1 DEF AdapterInv, CallersMayRelyOn, IdsAreUnique
  <2> QED  BY <2>1, <2>2, <2>3
<1>12. GrantedIds' = issued' /\ ReleasedIds' \subseteq issued'
  BY <1>1, <1>5, <1>6 DEF AdapterInv
<1> QED  BY <1>2, <1>8, <1>9, <1>10, <1>11, <1>12 DEF AdapterInv, CallersMayRelyOn

(***************************************************************************)
(* The inventory of an instant at which nothing is overcommitted.          *)
(***************************************************************************)
LEMMA InventoryIsTyped ==
  ASSUME AdapterInv
  PROVE  /\ \A m \in DOMAIN models : models[m] - UsedSlots(active, m) \in 0 .. MaxU16
         /\ ExactInventory \in [DOMAIN models -> LocalModelInventory]
<1>1. ASSUME NEW m \in DOMAIN models
      PROVE  /\ models[m] \in 0 .. MaxU16
             /\ UsedSlots(active, m) \in 0 .. MaxU16
             /\ models[m] - UsedSlots(active, m) \in 0 .. MaxU16
  BY UsedSlotsType, ModelsType, MaxU16Assumption
     DEF AdapterInv, TypeOK, CallersMayRelyOn, NeverOvercommitted
<1>2. ExactInventory \in [DOMAIN models -> LocalModelInventory]
  BY <1>1 DEF ExactInventory, LocalModelInventory
<1> QED  BY <1>1, <1>2

(***************************************************************************)
(* Every step keeps the invariant.                                         *)
(***************************************************************************)
LEMMA AdapterNext == AdapterInv /\ [Next]_vars => AdapterInv'
<1> SUFFICES ASSUME AdapterInv, [Next]_vars PROVE AdapterInv'
  OBVIOUS
<1>1. TypeOK
  BY DEF AdapterInv
<1>2. ASSUME UNCHANGED <<active, issued, request, reply>>,
             phase' \in [Calls -> {"idle", "pending", "done"}],
             \A c \in Calls : phase'[c] # "done" => phase[c] # "done"
      PROVE  AdapterInv'
  <2>1. \A s : Answered(s)' = Answered(s)
    BY <1>2 DEF Answered
  <2>2. GrantedIds' = GrantedIds /\ ReleasedIds' = ReleasedIds
    BY <1>2, <2>1 DEF GrantedIds, ReleasedIds
  <2>3. TypeOK'
    BY <1>1, <1>2 DEF TypeOK
  <2>4. NeverOvercommitted'
    BY <1>2 DEF AdapterInv, CallersMayRelyOn, NeverOvercommitted
  <2>5. AnswersTellTheLedger'
    BY <1>2, <2>1, <2>2 DEF AdapterInv, CallersMayRelyOn, AnswersTellTheLedger
  <2>6. IdsAreUnique'
    BY <1>2, <2>1 DEF AdapterInv, CallersMayRelyOn, IdsAreUnique
  <2> QED  BY <1>2, <2>2, <2>3, <2>4, <2>5, <2>6 DEF AdapterInv, CallersMayRelyOn
<1>3. CASE UNCHANGED vars
  BY <1>1, <1>2, <1>3 DEF vars, TypeOK
<1>4. ASSUME NEW c \in Calls, Invoke(c) PROVE AdapterInv'
  BY <1>1, <1>2, <1>4 DEF Invoke, TypeOK
<1>5. ASSUME NEW c \in Calls, NEW e \in DOMAIN into_response, Answer(c, ErrorReply(e)),
             UNCHANGED <<active, issued>>
      PROVE  AdapterInv'
  <2>1. /\ ErrorReply(e) \in Reply /\ ErrorReply(e).status \in {400, 404, 409, 501}
        /\ \A id : ErrorReply(e) # Completion(id)
    BY ReplyTypes, Statuses
  <2> QED  BY <1>5, <2>1, OtherAnswer
<1>6. ASSUME NEW c \in Calls, Reject(c) PROVE AdapterInv'
  BY <1>5, <1>6, RequestErrorType DEF Reject
<1>7. ASSUME NEW c \in Calls, Release(c) PROVE AdapterInv'
  <2>1. CASE request[c].reservation_id \in DOMAIN active
    BY <1>7, <2>1, ReleasePromise
  <2>2. CASE request[c].reservation_id \notin DOMAIN active
    <3>1. active = [k \in DOMAIN active |-> active[k]]
      BY <1>1 DEF TypeOK, Ledger
    <3>2. DOMAIN active \ {request[c].reservation_id} = DOMAIN active
      BY <2>2
    <3>3. active' = active /\ issued' = issued /\ Answer(c, ErrorReply("ReservationNotFound"))
      BY <1>7, <2>2, <3>1, <3>2 DEF Release
    <3>4. "ReservationNotFound" \in DOMAIN into_response
      BY DEF into_response
    <3> QED  BY <1>5, <3>3, <3>4
  <2> QED  BY <2>1, <2>2
<1>8. ASSUME NEW c \in Calls, Refuse(c) PROVE AdapterInv'
  <2> DEFINE n == models[request[c].model] - UsedSlots(active, request[c].model)
  <2>1. /\ request[c] \in Requests /\ request[c].op = "create_reservation"
        /\ RequestError(request[c]) = "Ok"
        /\ Answer(c, CapacityExceeded(n)) /\ UNCHANGED <<active, issued>>
    BY <1>1, <1>8 DEF TypeOK, Refuse
  <2>2. n \in 0 .. MaxU16
    BY <2>1, CreateWellFormed, InventoryIsTyped
  <2> HIDE DEF n
  <2>3. /\ CapacityExceeded(n) \in Reply /\ CapacityExceeded(n).status = 409
        /\ \A id : CapacityExceeded(n) # Completion(id)
    BY <2>2, ReplyTypes, Statuses
  <2> QED  BY <2>1, <2>3, OtherAnswer
<1>9. ASSUME NEW c \in Calls, Read(c) PROVE AdapterInv'
  <2>1. ASSUME NEW a \in Reply, a.status = 200, \A id : a # Completion(id), Answer(c, a)
        PROVE  AdapterInv'
    BY <1>9, <2>1, OtherAnswer DEF Read
  <2>2. CASE Answer(c, Listing(active))
    BY <1>1, <2>1, <2>2, ReplyTypes, Statuses, OnlyChatCompletes DEF TypeOK
  <2>3. CASE Answer(c, InventoryReply(ExactInventory))
    BY <2>1, <2>3, InventoryIsTyped, ReplyTypes, Statuses, OnlyChatCompletes
  <2>4. CASE Answer(c, OpenAiModelListResponse)
    BY <2>1, <2>4, ReplyTypes, Statuses, OnlyChatCompletes
  <2> QED  BY <1>9, <2>2, <2>3, <2>4 DEF Read
<1>10. ASSUME NEW c \in Calls, NEW id \in ReservationIds, Complete(c, id) PROVE AdapterInv'
  <2>1. /\ Completion(id) \in Reply /\ Completion(id).status = 200
        /\ \A k : Completion(id) = Completion(k) => k = id
    <3>1. Completion(id) \in Reply
      BY ReplyTypes DEF ReservationIds
    <3> QED  BY <3>1, Statuses
  <2>2. /\ Answer(c, Completion(id)) /\ UNCHANGED <<active, issued>>
        /\ \A d \in Calls : reply[d] # Completion(id)
    BY <1>10 DEF Complete
  <2> QED  BY <2>1, <2>2, OtherAnswer
<1> QED
  BY <1>3, <1>4, <1>6, <1>7, <1>8, <1>9, <1>10, GrantPromise DEF Next

(***************************************************************************)
(* Whatever backend stands behind the RuntimeAdapter trait, if it          *)
(* implements the trait's specification, its callers may rely on capacity, *)
(* on their answers telling the ledger, and on ids being unique.           *)
(***************************************************************************)
THEOREM AdapterTheorem == Spec => []CallersMayRelyOn
<1>1. AdapterInv => CallersMayRelyOn
  BY DEF AdapterInv
<1> QED  BY <1>1, AdapterInit, AdapterNext, PTL DEF Spec

(***************************************************************************)
(* Nor does any such backend ever let an id that was released name another *)
(* reservation.                                                            *)
(***************************************************************************)
THEOREM ReuseTheorem == Spec => IdsAreNotReused
<1>1. [Next]_vars => [\A id \in issued : id \in DOMAIN active' => id \in DOMAIN active]_vars
  <2> SUFFICES ASSUME Next, NEW k \in issued, k \in DOMAIN active' PROVE k \in DOMAIN active
    OBVIOUS
  <2>1. ASSUME NEW c \in Calls, NEW id \in ReservationIds, Grant(c, id) PROVE k \in DOMAIN active
    BY <2>1 DEF Grant
  <2>2. ASSUME NEW c \in Calls, Release(c) PROVE k \in DOMAIN active
    BY <2>2 DEF Release
  <2>3. CASE active' = active
    BY <2>3
  <2> QED  BY <2>1, <2>2, <2>3 DEF Next, Invoke, Refuse, Read, Reject, Complete
<1> QED  BY <1>1, PTL DEF Spec, IdsAreNotReused

(***************************************************************************)
(* A listing shows the ledger of the instant it is answered, and so what   *)
(* was granted and not released by the answers given until then.           *)
(***************************************************************************)
LEMMA ListingStep ==
  ASSUME TypeOK, AnswersTellTheLedger, Next, NEW c \in Calls, reply'[c] # reply[c],
         request[c].op = "reservations"
  PROVE  DOMAIN reply'[c].reservations = GrantedIds \ ReleasedIds
<1>1. ASSUME NEW d \in Calls, NEW a, Answer(d, a) PROVE d = c /\ reply'[c] = a
  BY <1>1 DEF Answer, TypeOK
<1>2. RequestError(request[c]) = "Ok"
  BY DEF RequestError
<1>3. PICK d \in Calls : \/ Invoke(d) \/ Refuse(d) \/ Release(d) \/ Read(d) \/ Reject(d)
                         \/ \E id \in ReservationIds : Grant(d, id) \/ Complete(d, id)
  BY DEF Next
<1>4. ~ Invoke(d)
  BY DEF Invoke
<1>5. d = c
  BY <1>1, <1>3, <1>4 DEF Refuse, Release, Read, Reject, Grant, Complete
<1>6. Read(c)
  BY <1>2, <1>3, <1>4, <1>5 DEF Refuse, Release, Reject, Grant, Complete
<1>7. reply'[c] = Listing(active)
  BY <1>1, <1>6 DEF Read
<1> QED  BY <1>7 DEF Listing, AnswersTellTheLedger

(***************************************************************************)
(* GET /v1/reservations of any backend that implements the trait agrees    *)
(* with every answer given before it, to whichever call.                   *)
(***************************************************************************)
THEOREM ListingTheorem == Spec => ListingsAgree
<1> DEFINE Agrees == \A c \in Calls :
             reply'[c] # reply[c] /\ request[c].op = "reservations" =>
               DOMAIN reply'[c].reservations = GrantedIds \ ReleasedIds
<1>1. AdapterInv /\ [Next]_vars => [Agrees]_vars
  BY ListingStep DEF AdapterInv, CallersMayRelyOn
<1>2. Spec => []AdapterInv
  BY AdapterInit, AdapterNext, PTL DEF Spec
<1>3. Spec => [][Agrees]_vars
  <2> HIDE DEF Agrees
  <2> QED  BY <1>1, <1>2, PTL DEF Spec
<1> QED  BY <1>3 DEF ListingsAgree
=============================================================================
