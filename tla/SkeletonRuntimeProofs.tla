----------------------- MODULE SkeletonRuntimeProofs -----------------------
(***************************************************************************)
(* Proofs about SkeletonRuntime, for every set of calls, every model       *)
(* configuration and every width of the counters.                          *)
(***************************************************************************)
EXTENDS SkeletonRuntime, RuntimeInterfaceProofs

(***************************************************************************)
(* While a model's slots fit its configuration, the saturating fold and    *)
(* the saturating difference are exact.                                    *)
(***************************************************************************)
LEMMA AccountingIsExact ==
  ASSUME reservations \in Ledger, NEW m \in DOMAIN models,
         UsedSlots(reservations, m) <= models[m]
  PROVE  /\ reserved_slots_for_model(m) = UsedSlots(reservations, m)
         /\ AvailableSlots(m) = models[m] - UsedSlots(reservations, m)
         /\ inventory_for_model(m) \in LocalModelInventory
<1>1. UsedSlots(reservations, m) \in Nat /\ models[m] \in 0 .. MaxU16
  BY UsedSlotsType, ModelsType
<1>2. reserved_slots_for_model(m) = UsedSlots(reservations, m)
  <2>1. reserved_slots_for_model(m) = IF UsedSlots(reservations, m) > MaxU16 THEN MaxU16
                                      ELSE UsedSlots(reservations, m)
    BY SlotWeightsType, SaturatingSumIsCapped, MaxU64Assumption
       DEF reserved_slots_for_model, UsedSlots
  <2> QED  BY <1>1, <2>1, MaxU16Assumption
<1>3. AvailableSlots(m) = models[m] - UsedSlots(reservations, m)
  BY <1>1, <1>2 DEF AvailableSlots, SaturatingSub
<1>4. inventory_for_model(m) \in LocalModelInventory
  BY <1>1, <1>2, <1>3, MaxU16Assumption DEF inventory_for_model, LocalModelInventory
<1> QED  BY <1>2, <1>3, <1>4

(***************************************************************************)
(* The invariant holds initially.                                          *)
(***************************************************************************)
LEMMA RuntimeInvInit == Init => RuntimeInv
<1> SUFFICES ASSUME Init PROVE RuntimeInv
  OBVIOUS
<1>1. reservations \in Ledger /\ \A m \in DOMAIN models : UsedSlots(reservations, m) = 0
  BY EmptyLedger DEF Init
<1>2. TypeOK
  BY <1>1, ReplyTypes, MaxU64Assumption, MaxU16Assumption DEF Init, TypeOK
<1>3. OneHolder /\ CountIsCurrent
  BY DEF Init, OneHolder, CountIsCurrent
<1>4. CapacityRespected
  BY <1>1, ModelsType, MaxU16Assumption DEF CapacityRespected
<1>5. DOMAIN reservations \subseteq 1 .. next_reservation_id
  BY DEF Init
<1> QED  BY <1>2, <1>3, <1>4, <1>5 DEF RuntimeInv

(***************************************************************************)
(* What an answer does to the control state: the guard it drops was the    *)
(* only one, so whoever is left has counted nothing that could go stale.   *)
(***************************************************************************)
LEMMA ReturnControl ==
  ASSUME RuntimeInv, NEW c \in Calls, NEW a \in Reply, Return(c, a),
         pc[c] \in {"called", "locked", "counted"},
         reservations' = reservations \/ c \in guard
  PROVE  /\ guard' \in SUBSET Calls
         /\ pc' \in [Calls -> {"idle", "called", "locked", "counted", "done"}]
         /\ request' \in [Calls -> Requests]
         /\ available_slots' \in [Calls -> 0 .. MaxU16]
         /\ reply' \in [Calls -> Reply]
         /\ OneHolder'
         /\ CountIsCurrent'
<1>1. TypeOK /\ OneHolder /\ CountIsCurrent
  BY DEF RuntimeInv
<1>2. /\ guard' \in SUBSET Calls
      /\ pc' \in [Calls -> {"idle", "called", "locked", "counted", "done"}]
      /\ request' \in [Calls -> Requests]
      /\ available_slots' \in [Calls -> 0 .. MaxU16]
      /\ reply' \in [Calls -> Reply]
  BY <1>1 DEF TypeOK, Return
<1>3. \A d \in Calls : pc'[d] = IF d = c THEN "done" ELSE pc[d]
  BY <1>1 DEF TypeOK, Return
<1>4. OneHolder'
  <2>1. ASSUME NEW d \in Calls PROVE d \in guard' <=> pc'[d] \in {"locked", "counted"}
    BY <1>1, <1>3 DEF OneHolder, Return
  <2>2. \A d, e \in guard' : d = e
    BY <1>1 DEF OneHolder, Return
  <2>3. \A d \in guard' : RequestError(request'[d]) = "Ok"
    BY <1>1 DEF OneHolder, Return
  <2> QED  BY <2>1, <2>2, <2>3 DEF OneHolder
<1>5. CountIsCurrent'
  <2> SUFFICES ASSUME NEW d \in Calls, pc'[d] = "counted"
               PROVE  /\ request'[d].op = "create_reservation"
                      /\ available_slots'[d] = AvailableSlots(request[d].model)'
    BY DEF CountIsCurrent
  <2>1. pc[d] = "counted" /\ d # c /\ d \in guard
    BY <1>1, <1>3 DEF OneHolder
  <2>2. reservations' = reservations
    BY <1>1, <2>1 DEF OneHolder
  <2>3. request' = request /\ available_slots' = available_slots
    BY DEF Return
  <2> QED
    BY <1>1, <2>1, <2>2, <2>3 DEF CountIsCurrent, AvailableSlots, reserved_slots_for_model
<1> QED  BY <1>2, <1>4, <1>5

(***************************************************************************)
(* An answer that leaves the adapter's state alone preserves the invariant.*)
(***************************************************************************)
LEMMA ReturnUnchanged ==
  ASSUME RuntimeInv, NEW c \in Calls, NEW a \in Reply, Return(c, a), UNCHANGED state,
         pc[c] \in {"called", "locked", "counted"}
  PROVE  RuntimeInv'
<1>1. /\ next_reservation_id' = next_reservation_id
      /\ next_completion_id' = next_completion_id
      /\ reservations' = reservations
  BY DEF state
<1>2. TypeOK'
  BY <1>1, ReturnControl DEF RuntimeInv, TypeOK
<1>3. OneHolder' /\ CountIsCurrent'
  BY <1>1, ReturnControl
<1>4. CapacityRespected' /\ (DOMAIN reservations \subseteq 1 .. next_reservation_id)'
  BY <1>1 DEF RuntimeInv, CapacityRespected
<1> QED  BY <1>2, <1>3, <1>4 DEF RuntimeInv

(***************************************************************************)
(* GrantReservation preserves the invariant: the count it decides on is    *)
(* current, so the model's slots still fit after the insert.               *)
(***************************************************************************)
LEMMA GrantPreserves ==
  ASSUME RuntimeInv, NEW c \in Calls, GrantReservation(c)
  PROVE  RuntimeInv'
<1> DEFINE r == request[c]
           id == SaturatingIncrement(next_reservation_id)
<1>1. TypeOK /\ OneHolder /\ CountIsCurrent /\ CapacityRespected
  BY DEF RuntimeInv
<1>2. c \in guard /\ RequestError(r) = "Ok" /\ r.op = "create_reservation" /\ r \in Requests
      /\ available_slots[c] = AvailableSlots(r.model)
  BY <1>1 DEF GrantReservation, OneHolder, CountIsCurrent, TypeOK
<1>3. id \in ReservationIds /\ next_reservation_id <= id
  BY <1>1, MaxU64Assumption DEF TypeOK, SaturatingIncrement, ReservationIds
<1>4. /\ r.model \in DOMAIN models /\ r.requested_slots \in 1 .. MaxU16
      /\ WellFormed(r) \in ModelReservation /\ Created(id, WellFormed(r)) = Created(id, r)
  BY <1>2, CreateWellFormed
<1>5. reservations' = Inserted(reservations, id, WellFormed(r)) /\ next_reservation_id' = id
      /\ next_completion_id' = next_completion_id /\ Return(c, Created(id, r))
  BY DEF GrantReservation, InsertReservation, Inserted, WellFormed
<1>6. Created(id, r) \in Reply
  BY <1>3, <1>4, ReplyTypes
<1>7. WellFormed(r).model = r.model /\ WellFormed(r).requested_slots = r.requested_slots
  BY DEF WellFormed
<1>8. r.requested_slots <= models[r.model] - UsedSlots(reservations, r.model)
  <2>1. UsedSlots(reservations, r.model) <= models[r.model] /\ reservations \in Ledger
    BY <1>1, <1>4 DEF CapacityRespected, TypeOK
  <2>2. AvailableSlots(r.model) = models[r.model] - UsedSlots(reservations, r.model)
    BY <1>4, <2>1, AccountingIsExact
  <2> QED  BY <1>2, <2>2 DEF GrantReservation
<1>9. reservations \in Ledger /\ DOMAIN reservations \subseteq 1 .. next_reservation_id
  BY <1>1 DEF TypeOK, RuntimeInv
<1>10. pc[c] = "counted"
  BY DEF GrantReservation
<1> HIDE DEF r, id
<1>11. /\ reservations' \in Ledger
       /\ UsedSlots(reservations', r.model) <= UsedSlots(reservations, r.model) + r.requested_slots
       /\ \A m : m # r.model => UsedSlots(reservations', m) <= UsedSlots(reservations, m)
  BY <1>3, <1>4, <1>5, <1>7, <1>9, InsertSlots
<1>12. CapacityRespected'
  <2> SUFFICES ASSUME NEW m \in DOMAIN models PROVE UsedSlots(reservations', m) <= models[m]
    BY DEF CapacityRespected
  <2>1. /\ UsedSlots(reservations', m) \in Nat /\ UsedSlots(reservations, m) \in Nat
        /\ models[m] \in Nat
    BY <1>9, <1>11, UsedSlotsType, ModelsType, MaxU16Assumption
  <2>2. CASE m = r.model
    BY <1>4, <1>8, <1>11, <2>1, <2>2, MaxU16Assumption
  <2>3. CASE m # r.model
    <3>1. UsedSlots(reservations, m) <= models[m] /\ UsedSlots(reservations', m) <= UsedSlots(reservations, m)
      BY <1>1, <1>11, <2>3 DEF CapacityRespected
    <3> QED  BY <2>1, <3>1
  <2> QED  BY <2>2, <2>3
<1>13. DOMAIN reservations' \subseteq 1 .. next_reservation_id'
  <2>1. DOMAIN reservations' = DOMAIN reservations \cup {id}
    BY <1>5 DEF Inserted
  <2> QED  BY <1>1, <1>3, <1>5, <1>9, <2>1, MaxU64Assumption DEF TypeOK, ReservationIds
<1>14. next_reservation_id' \in 0 .. MaxU64 /\ next_completion_id' \in 0 .. MaxU64
  BY <1>1, <1>3, <1>5, MaxU64Assumption DEF TypeOK, ReservationIds
<1>15. /\ guard' \in SUBSET Calls
       /\ pc' \in [Calls -> {"idle", "called", "locked", "counted", "done"}]
       /\ request' \in [Calls -> Requests]
       /\ available_slots' \in [Calls -> 0 .. MaxU16]
       /\ reply' \in [Calls -> Reply]
       /\ OneHolder' /\ CountIsCurrent'
  BY <1>2, <1>5, <1>6, <1>10, ReturnControl
<1> QED  BY <1>11, <1>12, <1>13, <1>14, <1>15 DEF RuntimeInv, TypeOK

(***************************************************************************)
(* ReleaseReservation preserves the invariant.                             *)
(***************************************************************************)
LEMMA ReleasePreserves ==
  ASSUME RuntimeInv, NEW c \in Calls, ReleaseReservation(c)
  PROVE  RuntimeInv'
<1> DEFINE id == request[c].reservation_id
<1>1. TypeOK /\ OneHolder /\ CapacityRespected /\ DOMAIN reservations \subseteq 1 .. next_reservation_id
  BY DEF RuntimeInv
<1>2. reservations \in Ledger
  BY <1>1 DEF TypeOK
<1>3. /\ id \in DOMAIN reservations /\ reservations' = Removed(reservations, id)
      /\ next_reservation_id' = next_reservation_id /\ next_completion_id' = next_completion_id
      /\ Return(c, NoContent) /\ pc[c] = "locked" /\ c \in guard
  BY <1>1 DEF ReleaseReservation, Locked, Removed, OneHolder
<1> HIDE DEF id
<1>4. id \in ReservationIds
  BY <1>2, <1>3, LedgerRecord
<1>5. reservations' \in Ledger /\ \A m : UsedSlots(reservations', m) <= UsedSlots(reservations, m)
  BY <1>2, <1>3, <1>4, RemoveSlots
<1>6. CapacityRespected'
  <2> SUFFICES ASSUME NEW m \in DOMAIN models PROVE UsedSlots(reservations', m) <= models[m]
    BY DEF CapacityRespected
  <2>1. /\ UsedSlots(reservations', m) \in Nat /\ UsedSlots(reservations, m) \in Nat
        /\ models[m] \in Nat
    BY <1>2, <1>5, UsedSlotsType, ModelsType, MaxU16Assumption
  <2>2. UsedSlots(reservations, m) <= models[m] /\ UsedSlots(reservations', m) <= UsedSlots(reservations, m)
    BY <1>1, <1>5 DEF CapacityRespected
  <2> QED  BY <2>1, <2>2
<1>7. DOMAIN reservations' \subseteq 1 .. next_reservation_id'
  BY <1>1, <1>3 DEF Removed
<1>8. /\ guard' \in SUBSET Calls
      /\ pc' \in [Calls -> {"idle", "called", "locked", "counted", "done"}]
      /\ request' \in [Calls -> Requests]
      /\ available_slots' \in [Calls -> 0 .. MaxU16]
      /\ reply' \in [Calls -> Reply]
      /\ OneHolder' /\ CountIsCurrent'
  BY <1>3, ReplyTypes, ReturnControl
<1> QED  BY <1>1, <1>3, <1>5, <1>6, <1>7, <1>8 DEF RuntimeInv, TypeOK

(***************************************************************************)
(* Every step preserves the invariant.                                     *)
(***************************************************************************)
LEMMA RuntimeInvNext == RuntimeInv /\ [Next]_vars => RuntimeInv'
<1> SUFFICES ASSUME RuntimeInv, [Next]_vars PROVE RuntimeInv'
  OBVIOUS
<1>1. TypeOK /\ OneHolder /\ CountIsCurrent /\ CapacityRespected
      /\ DOMAIN reservations \subseteq 1 .. next_reservation_id
  BY DEF RuntimeInv
<1>2. ASSUME NEW c \in Calls, Call(c) PROVE RuntimeInv'
  <2>1. TypeOK'
    BY <1>1, <1>2 DEF TypeOK, Call, state
  <2>2. OneHolder'
    BY <1>1, <1>2 DEF TypeOK, OneHolder, Call
  <2>3. CountIsCurrent'
    BY <1>1, <1>2 DEF TypeOK, CountIsCurrent, Call, state, AvailableSlots, reserved_slots_for_model
  <2>4. CapacityRespected' /\ (DOMAIN reservations \subseteq 1 .. next_reservation_id)'
    BY <1>1, <1>2 DEF CapacityRespected, Call, state
  <2> QED  BY <2>1, <2>2, <2>3, <2>4 DEF RuntimeInv
<1>3. ASSUME NEW c \in Calls, Reject(c) PROVE RuntimeInv'
  <2>1. ErrorReply(RequestError(request[c])) \in Reply
    BY <1>3, RequestErrorType, ReplyTypes DEF Reject
  <2> QED  BY <1>3, <2>1, ReturnUnchanged DEF Reject
<1>4. ASSUME NEW c \in Calls, lock_state(c) PROVE RuntimeInv'
  <2>1. TypeOK'
    BY <1>1, <1>4 DEF TypeOK, lock_state, state
  <2>2. OneHolder'
    <3>1. guard' = {c} /\ guard = {} /\ request' = request /\ RequestError(request[c]) = "Ok"
          /\ \A d \in Calls : pc'[d] = IF d = c THEN "locked" ELSE pc[d]
      BY <1>1, <1>4 DEF TypeOK, lock_state
    <3> QED  BY <1>1, <3>1 DEF OneHolder
  <2>3. CountIsCurrent'
    BY <1>1, <1>4 DEF TypeOK, CountIsCurrent, lock_state, state, AvailableSlots, reserved_slots_for_model
  <2>4. CapacityRespected' /\ (DOMAIN reservations \subseteq 1 .. next_reservation_id)'
    BY <1>1, <1>4 DEF CapacityRespected, lock_state, state
  <2> QED  BY <2>1, <2>2, <2>3, <2>4 DEF RuntimeInv
<1>5. ASSUME NEW c \in Calls, CountReserved(c) PROVE RuntimeInv'
  <2>1. c \in guard /\ request[c] \in Requests /\ request[c].op = "create_reservation"
        /\ RequestError(request[c]) = "Ok"
    BY <1>1, <1>5 DEF TypeOK, OneHolder, CountReserved, Locked
  <2>2. request[c].model \in DOMAIN models
    BY <2>1, CreateWellFormed
  <2>3. AvailableSlots(request[c].model) \in 0 .. MaxU16
    <3>1. inventory_for_model(request[c].model) \in LocalModelInventory
      BY <1>1, <2>2, AccountingIsExact DEF TypeOK, CapacityRespected
    <3> QED  BY <3>1 DEF inventory_for_model, LocalModelInventory
  <2>4. TypeOK'
    BY <1>1, <1>5, <2>3 DEF TypeOK, CountReserved, state
  <2>5. OneHolder'
    <3>1. guard' = guard /\ request' = request /\ pc[c] = "locked"
          /\ \A d \in Calls : pc'[d] = IF d = c THEN "counted" ELSE pc[d]
      BY <1>1, <1>5 DEF TypeOK, CountReserved, Locked
    <3> QED  BY <1>1, <3>1 DEF OneHolder
  <2>6. CountIsCurrent'
    <3>1. /\ reservations' = reservations /\ request' = request
          /\ \A d \in Calls : pc'[d] = IF d = c THEN "counted" ELSE pc[d]
          /\ \A d \in Calls : available_slots'[d] = IF d = c THEN AvailableSlots(request[c].model)
                                                   ELSE available_slots[d]
      BY <1>1, <1>5 DEF TypeOK, CountReserved, state
    <3> SUFFICES ASSUME NEW d \in Calls, pc'[d] = "counted"
                 PROVE  /\ request'[d].op = "create_reservation"
                        /\ available_slots'[d] = AvailableSlots(request[d].model)'
      BY DEF CountIsCurrent
    <3>2. request'[d] = request[d] /\ AvailableSlots(request[d].model)' = AvailableSlots(request[d].model)
      BY <3>1 DEF AvailableSlots, reserved_slots_for_model
    <3>3. CASE d = c
      BY <2>1, <3>1, <3>2, <3>3
    <3>4. CASE d # c
      BY <1>1, <3>1, <3>2, <3>4 DEF CountIsCurrent
    <3> QED  BY <3>3, <3>4
  <2>7. CapacityRespected' /\ (DOMAIN reservations \subseteq 1 .. next_reservation_id)'
    BY <1>1, <1>5 DEF CapacityRespected, CountReserved, state
  <2> QED  BY <2>4, <2>5, <2>6, <2>7 DEF RuntimeInv
<1>6. ASSUME NEW c \in Calls, RefuseReservation(c) PROVE RuntimeInv'
  <2>1. CapacityExceeded(available_slots[c]) \in Reply
    BY <1>1, ReplyTypes DEF TypeOK
  <2> QED  BY <1>6, <2>1, ReturnUnchanged DEF RefuseReservation
<1>7. ASSUME NEW c \in Calls, Reservations(c) PROVE RuntimeInv'
  <2>1. Listing(reservations) \in Reply
    BY <1>1, ReplyTypes DEF TypeOK
  <2> QED  BY <1>7, <2>1, ReturnUnchanged DEF Reservations, Locked
<1>8. ASSUME NEW c \in Calls, ReleaseUnknown(c) PROVE RuntimeInv'
  <2>1. ErrorReply("ReservationNotFound") \in Reply
    BY ReplyTypes DEF into_response
  <2> QED  BY <1>8, <2>1, ReturnUnchanged DEF ReleaseUnknown, Locked
<1>9. ASSUME NEW c \in Calls, LocalModels(c) PROVE RuntimeInv'
  <2> DEFINE inventory == [m \in DOMAIN models |-> inventory_for_model(m)]
  <2>1. \A m \in DOMAIN models : inventory_for_model(m) \in LocalModelInventory
    BY <1>1, AccountingIsExact DEF TypeOK, CapacityRespected
  <2>2. inventory \in [DOMAIN models -> LocalModelInventory]
    BY <2>1
  <2>3. InventoryReply(inventory) \in Reply
    <3> HIDE DEF inventory
    <3> QED  BY <2>2, ReplyTypes
  <2> QED  BY <1>9, <2>3, ReturnUnchanged DEF LocalModels, Locked
<1>10. ASSUME NEW c \in Calls, OpenAiModels(c) PROVE RuntimeInv'
  BY <1>10, ReplyTypes, ReturnUnchanged DEF OpenAiModels, Locked
<1>11. ASSUME NEW c \in Calls, ChatCompletion(c) PROVE RuntimeInv'
  <2> DEFINE id == SaturatingIncrement(next_completion_id)
  <2>1. id \in 1 .. MaxU64
    BY <1>1, MaxU64Assumption DEF TypeOK, SaturatingIncrement
  <2>2. Completion(id) \in Reply
    <3> HIDE DEF id
    <3> QED  BY <2>1, ReplyTypes
  <2>3. /\ next_completion_id' = id /\ reservations' = reservations
        /\ next_reservation_id' = next_reservation_id
        /\ Return(c, Completion(id)) /\ pc[c] = "locked"
    BY <1>11 DEF ChatCompletion, Locked
  <2> HIDE DEF id
  <2>4. /\ guard' \in SUBSET Calls
        /\ pc' \in [Calls -> {"idle", "called", "locked", "counted", "done"}]
        /\ request' \in [Calls -> Requests]
        /\ available_slots' \in [Calls -> 0 .. MaxU16]
        /\ reply' \in [Calls -> Reply]
        /\ OneHolder' /\ CountIsCurrent'
    BY <2>2, <2>3, ReturnControl
  <2>5. CapacityRespected' /\ (DOMAIN reservations \subseteq 1 .. next_reservation_id)'
    BY <1>1, <2>3 DEF CapacityRespected
  <2> QED  BY <1>1, <2>1, <2>3, <2>4, <2>5, MaxU64Assumption DEF RuntimeInv, TypeOK
<1>12. CASE UNCHANGED vars
  <2>1. TypeOK' /\ OneHolder'
    BY <1>1, <1>12 DEF TypeOK, OneHolder, vars, state
  <2>2. CountIsCurrent' /\ CapacityRespected'
    BY <1>1, <1>12
       DEF CountIsCurrent, CapacityRespected, AvailableSlots, reserved_slots_for_model, vars, state
  <2> QED  BY <1>1, <1>12, <2>1, <2>2 DEF RuntimeInv, vars, state
<1> QED
  BY <1>2, <1>3, <1>4, <1>5, <1>6, <1>7, <1>8, <1>9, <1>10, <1>11, <1>12,
     GrantPreserves, ReleasePreserves DEF Next, Step, Quiet

(***************************************************************************)
(* The invariant holds in every reachable state.                           *)
(***************************************************************************)
THEOREM RuntimeInvariant == Spec => []RuntimeInv
  BY RuntimeInvInit, RuntimeInvNext, PTL DEF Spec

(***************************************************************************)
(* Type correctness of the adapter's state and of every answer.            *)
(***************************************************************************)
THEOREM TypeCorrect == Spec => []TypeOK
<1>1. RuntimeInv => TypeOK
  BY DEF RuntimeInv
<1> QED  BY <1>1, RuntimeInvariant, PTL

(***************************************************************************)
(* No model is ever over-reserved, for any interleaving of any number of   *)
(* calls, any configuration, and also after the id counter saturates.      *)
(***************************************************************************)
THEOREM CapacityTheorem == Spec => []CapacityRespected
<1>1. RuntimeInv => CapacityRespected
  BY DEF RuntimeInv
<1> QED  BY <1>1, RuntimeInvariant, PTL

(***************************************************************************)
(* The saturating u16 arithmetic of reserved_slots_for_model never         *)
(* saturates: what it computes is the exact sum.                           *)
(***************************************************************************)
THEOREM FoldTheorem == Spec => []FoldIsExact
<1>1. RuntimeInv => FoldIsExact
  BY AccountingIsExact DEF RuntimeInv, TypeOK, CapacityRespected, FoldIsExact
<1> QED  BY <1>1, RuntimeInvariant, PTL

(***************************************************************************)
(* Only RefuseReservation answers 409.                                     *)
(***************************************************************************)
LEMMA OnlyRefusalConflicts ==
  ASSUME NEW c \in Calls, reply \in [Calls -> Reply], reservations \in Ledger,
         Next, reply'[c] # reply[c], reply'[c].status = 409
  PROVE  RefuseReservation(c)
<1>1. \A d \in Calls : \A a : Return(d, a) => (d = c /\ reply'[c] = a)
  BY DEF Return
<1>2. PICK d \in Calls : Step(d)
  <2>1. ASSUME NEW d \in Calls, Call(d) PROVE reply' = reply
    BY <2>1 DEF Call
  <2>2. ASSUME Quiet PROVE reply' = reply
    BY <2>2 DEF Quiet, vars
  <2> QED  BY <2>1, <2>2 DEF Next
<1>3. ~ lock_state(d) /\ ~ CountReserved(d)
  BY DEF lock_state, CountReserved
<1>4. ~ Reject(d)
  <2> SUFFICES ASSUME Reject(d) PROVE FALSE
    OBVIOUS
  <2>1. ErrorReply(RequestError(request[d])).status = 409 /\ RequestError(request[d]) # "Ok"
    BY <1>1 DEF Reject
  <2>2. into_response[RequestError(request[d])] = 409
    BY <2>1 DEF ErrorReply
  <2>3. RequestError(request[d])
          \in {"InvalidReservationRequest", "ModelNotFound", "UnsupportedFeature", "InvalidChatRequest"}
    BY <2>1 DEF RequestError, CreateError, ChatError
  <2> QED  BY <2>2, <2>3 DEF into_response
<1>5. ~ GrantReservation(d) /\ ~ ReleaseReservation(d)
  BY <1>1 DEF GrantReservation, InsertReservation, ReleaseReservation, Created, NoContent
<1>6. ~ Reservations(d) /\ ~ LocalModels(d) /\ ~ OpenAiModels(d) /\ ~ ChatCompletion(d)
  BY <1>1 DEF Reservations, LocalModels, OpenAiModels, ChatCompletion, Listing, InventoryReply,
              OpenAiModelListResponse, Completion
<1>7. ~ ReleaseUnknown(d)
  BY <1>1 DEF ReleaseUnknown, ErrorReply, into_response
<1>8. RefuseReservation(d)
  BY <1>2, <1>3, <1>4, <1>5, <1>6, <1>7 DEF Step
<1>9. d = c
  BY <1>1, <1>8 DEF RefuseReservation
<1> QED  BY <1>8, <1>9

(***************************************************************************)
(* A reservation is refused only when it does not fit at that instant, and *)
(* the slots reported free are the slots that are free.                    *)
(***************************************************************************)
THEOREM RefusalTheorem == Spec => RefusedOnlyWhenFull
<1> DEFINE Justified ==
      \A c \in Calls :
        reply'[c] # reply[c] /\ reply'[c].status = 409 =>
          LET r == request[c] IN
            /\ UsedSlots(reservations, r.model) + r.requested_slots > models[r.model]
            /\ reply'[c].available_slots = models[r.model] - UsedSlots(reservations, r.model)
<1>1. RuntimeInv /\ [Next]_vars => [Justified]_vars
  <2> SUFFICES ASSUME RuntimeInv, Next, NEW c \in Calls,
                      reply'[c] # reply[c], reply'[c].status = 409
               PROVE  LET r == request[c] IN
                        /\ UsedSlots(reservations, r.model) + r.requested_slots > models[r.model]
                        /\ reply'[c].available_slots = models[r.model] - UsedSlots(reservations, r.model)
    OBVIOUS
  <2> DEFINE r == request[c]
             used == UsedSlots(reservations, r.model)
  <2>1. TypeOK /\ OneHolder /\ CountIsCurrent /\ CapacityRespected
    BY DEF RuntimeInv
  <2>2. RefuseReservation(c)
    BY <2>1, OnlyRefusalConflicts DEF TypeOK
  <2>3. c \in guard /\ r \in Requests /\ r.op = "create_reservation" /\ RequestError(r) = "Ok"
        /\ available_slots[c] = AvailableSlots(r.model) /\ r.requested_slots > available_slots[c]
    BY <2>1, <2>2 DEF RefuseReservation, TypeOK, OneHolder, CountIsCurrent
  <2>4. r.model \in DOMAIN models /\ r.requested_slots \in 1 .. MaxU16
    BY <2>3, CreateWellFormed
  <2>5. AvailableSlots(r.model) = models[r.model] - used
    BY <2>1, <2>4, AccountingIsExact DEF TypeOK, CapacityRespected
  <2>6. used \in Nat /\ models[r.model] \in Nat /\ r.requested_slots \in Nat
    BY <2>1, <2>4, UsedSlotsType, ModelsType, MaxU16Assumption DEF TypeOK
  <2>7. reply'[c].available_slots = available_slots[c]
    BY <2>1, <2>2 DEF TypeOK, RefuseReservation, Return, CapacityExceeded
  <2> HIDE DEF r, used
  <2>8. used + r.requested_slots > models[r.model]
        /\ reply'[c].available_slots = models[r.model] - used
    BY <2>3, <2>5, <2>6, <2>7
  <2> QED  BY <2>8 DEF r, used
<1>2. Spec => [][Justified]_vars
  <2> HIDE DEF Justified
  <2> QED  BY <1>1, RuntimeInvariant, PTL DEF Spec
<1> QED  BY <1>2 DEF RefusedOnlyWhenFull

(***************************************************************************)
(* While ids last, an id that left the ledger never returns to it.         *)
(***************************************************************************)
THEOREM ReleaseTheorem == Spec => ReleasedIdsStayReleased
<1> DEFINE Stay == IdsLeft => \A id \in 1 .. next_reservation_id :
                                id \in DOMAIN reservations' => id \in DOMAIN reservations
<1>1. RuntimeInv /\ [Next]_vars => [Stay]_vars
  <2> SUFFICES ASSUME RuntimeInv, Next, IdsLeft, NEW id \in 1 .. next_reservation_id,
                      id \in DOMAIN reservations'
               PROVE  id \in DOMAIN reservations
    OBVIOUS
  <2>1. next_reservation_id \in 0 .. MaxU64
    BY DEF RuntimeInv, TypeOK
  <2>2. ASSUME NEW c \in Calls, GrantReservation(c) PROVE id \in DOMAIN reservations
    <3>1. SaturatingIncrement(next_reservation_id) = next_reservation_id + 1
      BY <2>1, MaxU64Assumption DEF SaturatingIncrement, IdsLeft
    <3>2. DOMAIN reservations' = DOMAIN reservations \cup {next_reservation_id + 1}
      BY <2>2, <3>1 DEF GrantReservation, InsertReservation
    <3>3. id # next_reservation_id + 1
      BY <2>1, MaxU64Assumption
    <3> QED  BY <3>2, <3>3
  <2>3. ASSUME NEW c \in Calls, ReleaseReservation(c) PROVE id \in DOMAIN reservations
    <3>1. DOMAIN reservations' \subseteq DOMAIN reservations
      BY <2>3 DEF ReleaseReservation
    <3> QED  BY <3>1
  <2>4. ASSUME NEW c \in Calls, Call(c) \/ Step(c), ~ GrantReservation(c), ~ ReleaseReservation(c)
        PROVE  reservations' = reservations
    BY <2>4 DEF Step, Call, Reject, lock_state, CountReserved, RefuseReservation, Reservations,
                ReleaseUnknown, LocalModels, OpenAiModels, ChatCompletion, state
  <2>5. Quiet => reservations' = reservations
    BY DEF Quiet, vars, state
  <2> QED  BY <2>2, <2>3, <2>4, <2>5 DEF Next
<1>2. Spec => [][Stay]_vars
  <2> HIDE DEF Stay
  <2> QED  BY <1>1, RuntimeInvariant, PTL DEF Spec
<1> QED  BY <1>2 DEF ReleasedIdsStayReleased
=============================================================================
