--------------------------- MODULE SkeletonRuntime ---------------------------
(***************************************************************************)
(* SkeletonRuntimeAdapter (runtime.rs) behind the daemon's HTTP handlers   *)
(* (daemon.rs): any number of handler tasks call it at the same time, its  *)
(* state sits behind one Mutex, and every operation is the steps its code  *)
(* takes: the checks before the lock, the lock, the work under the guard,  *)
(* and the answer, with which the guard is dropped.                        *)
(*                                                                         *)
(* The guard is a set of calls, so that mutual exclusion is something to   *)
(* prove and not the shape of a variable.                                  *)
(***************************************************************************)
EXTENDS RuntimeInterface

VARIABLES
  next_reservation_id,  \* SkeletonRuntimeState
  next_completion_id,
  reservations,
  guard,                \* the calls that hold a MutexGuard on the state
  pc,                   \* per call: where it is in its operation
  request,              \* per call: the request it carries
  available_slots,      \* per call: create_reservation's local
  reply                 \* per call: the HTTP answer, NoReply before it

state == <<next_reservation_id, next_completion_id, reservations>>
vars == <<state, guard, pc, request, available_slots, reply>>

\* "idle": not made yet; "called": in the handler, before lock_state;
\* "locked": holds the guard; "counted": create_reservation has its
\* available_slots; "done": answered.
TypeOK ==
  /\ next_reservation_id \in 0 .. MaxU64
  /\ next_completion_id \in 0 .. MaxU64
  /\ reservations \in Ledger
  /\ guard \in SUBSET Calls
  /\ pc \in [Calls -> {"idle", "called", "locked", "counted", "done"}]
  /\ request \in [Calls -> Requests]
  /\ available_slots \in [Calls -> 0 .. MaxU16]
  /\ reply \in [Calls -> Reply]

Init ==
  /\ next_reservation_id = 0
  /\ next_completion_id = 0
  /\ reservations = [id \in {} |-> 0]
  /\ guard = {}
  /\ pc = [c \in Calls |-> "idle"]
  /\ request \in [Calls -> Requests]
  /\ available_slots = [c \in Calls |-> 0]
  /\ reply = [c \in Calls |-> NoReply]

(***************************************************************************)
(* Helpers of the adapter.                                                 *)
(***************************************************************************)
SaturatingIncrement(n) == IF n = MaxU64 THEN n ELSE n + 1

reserved_slots_for_model(model) == SaturatingSum(SlotWeights(reservations, model))[MaxU64]

AvailableSlots(model) == SaturatingSub(models[model], reserved_slots_for_model(model))

inventory_for_model(model) ==
  [total_slots     |-> models[model],
   reserved_slots  |-> reserved_slots_for_model(model),
   available_slots |-> AvailableSlots(model)]

\* The call answers; its guard, if it has one, goes out of scope.
Return(c, answer) ==
  /\ pc' = [pc EXCEPT ![c] = "done"]
  /\ reply' = [reply EXCEPT ![c] = answer]
  /\ guard' = guard \ {c}
  /\ UNCHANGED <<request, available_slots>>

(***************************************************************************)
(* Steps every operation shares.                                           *)
(***************************************************************************)

\* The router hands the request to its handler.
Call(c) ==
  /\ pc[c] = "idle"
  /\ pc' = [pc EXCEPT ![c] = "called"]
  /\ UNCHANGED <<state, guard, request, available_slots, reply>>

\* An early return before the state is locked.
Reject(c) ==
  /\ pc[c] = "called"
  /\ RequestError(request[c]) # "Ok"
  /\ Return(c, ErrorReply(RequestError(request[c])))
  /\ UNCHANGED state

\* Mutant of lock_state: the state is not behind a mutex.
LockStateUnguarded(c) ==
  /\ pc[c] = "called"
  /\ RequestError(request[c]) = "Ok"
  /\ guard' = guard \cup {c}
  /\ pc' = [pc EXCEPT ![c] = "locked"]
  /\ UNCHANGED <<state, request, available_slots, reply>>

lock_state(c) ==
  /\ pc[c] = "called"
  /\ RequestError(request[c]) = "Ok"
  /\ guard = {}
  /\ guard' = guard \cup {c}
  /\ pc' = [pc EXCEPT ![c] = "locked"]
  /\ UNCHANGED <<state, request, available_slots, reply>>

Locked(c, op) == pc[c] = "locked" /\ request[c].op = op

(***************************************************************************)
(* create_reservation under the guard: count, then decide.                 *)
(***************************************************************************)
CountReserved(c) ==
  /\ Locked(c, "create_reservation")
  /\ available_slots' = [available_slots EXCEPT ![c] = AvailableSlots(request[c].model)]
  /\ pc' = [pc EXCEPT ![c] = "counted"]
  /\ UNCHANGED <<state, guard, request, reply>>

\* Mutant of RefuseReservation: >= for >.
RefuseExactFit(c) ==
  /\ pc[c] = "counted"
  /\ request[c].requested_slots >= available_slots[c]
  /\ Return(c, CapacityExceeded(available_slots[c]))
  /\ UNCHANGED state

RefuseReservation(c) ==
  /\ pc[c] = "counted"
  /\ request[c].requested_slots > available_slots[c]
  /\ Return(c, CapacityExceeded(available_slots[c]))
  /\ UNCHANGED state

\* The request's record goes into the map and back to the caller.
InsertReservation(c, id) ==
  LET r == request[c] IN
    /\ reservations' = [k \in DOMAIN reservations \cup {id} |->
                          IF k = id
                          THEN [model |-> r.model, consumer |-> r.consumer,
                                requested_slots |-> r.requested_slots]
                          ELSE reservations[k]]
    /\ Return(c, Created(id, r))

\* Mutant of GrantReservation: the new counter is not stored.
GrantWithoutAdvance(c) ==
  /\ pc[c] = "counted"
  /\ request[c].requested_slots <= available_slots[c]
  /\ InsertReservation(c, SaturatingIncrement(next_reservation_id))
  /\ UNCHANGED <<next_reservation_id, next_completion_id>>

\* Mutant of GrantReservation: ids are counted by the size of the map.
GrantByCount(c) ==
  LET id == Cardinality(DOMAIN reservations) + 1 IN
    /\ pc[c] = "counted"
    /\ request[c].requested_slots <= available_slots[c]
    /\ next_reservation_id' = IF id > next_reservation_id THEN id ELSE next_reservation_id
    /\ InsertReservation(c, id)
    /\ UNCHANGED next_completion_id

\* Mutant of GrantReservation: one slot too many is granted.
GrantOneTooMany(c) ==
  /\ pc[c] = "counted"
  /\ request[c].requested_slots <= available_slots[c] + 1
  /\ next_reservation_id' = SaturatingIncrement(next_reservation_id)
  /\ InsertReservation(c, SaturatingIncrement(next_reservation_id))
  /\ UNCHANGED next_completion_id

GrantReservation(c) ==
  /\ pc[c] = "counted"
  /\ request[c].requested_slots <= available_slots[c]
  /\ next_reservation_id' = SaturatingIncrement(next_reservation_id)
  /\ InsertReservation(c, SaturatingIncrement(next_reservation_id))
  /\ UNCHANGED next_completion_id

(***************************************************************************)
(* The other operations under the guard.                                   *)
(***************************************************************************)
Reservations(c) ==
  /\ Locked(c, "reservations")
  /\ Return(c, Listing(reservations))
  /\ UNCHANGED state

\* Mutant of ReleaseReservation: get where the code has remove.
ReleaseKeepsSlots(c) ==
  /\ Locked(c, "release_reservation")
  /\ request[c].reservation_id \in DOMAIN reservations
  /\ Return(c, NoContent)
  /\ UNCHANGED state

ReleaseReservation(c) ==
  LET id == request[c].reservation_id IN
    /\ Locked(c, "release_reservation")
    /\ id \in DOMAIN reservations
    /\ reservations' = [k \in DOMAIN reservations \ {id} |-> reservations[k]]
    /\ Return(c, NoContent)
    /\ UNCHANGED <<next_reservation_id, next_completion_id>>

ReleaseUnknown(c) ==
  /\ Locked(c, "release_reservation")
  /\ request[c].reservation_id \notin DOMAIN reservations
  /\ Return(c, ErrorReply("ReservationNotFound"))
  /\ UNCHANGED state

LocalModels(c) ==
  /\ Locked(c, "local_models")
  /\ Return(c, InventoryReply([m \in DOMAIN models |-> inventory_for_model(m)]))
  /\ UNCHANGED state

\* Mutant of OpenAiModels: it locks the state and then calls local_models,
\* which waits for the lock its own caller holds.
OpenAiModelsRelocks(c) ==
  /\ Locked(c, "openai_models")
  /\ pc' = [pc EXCEPT ![c] = "called"]
  /\ UNCHANGED <<state, guard, request, available_slots, reply>>

\* openai_models takes the lock only inside local_models, and keeps the ids.
OpenAiModels(c) ==
  /\ Locked(c, "openai_models")
  /\ Return(c, OpenAiModelListResponse)
  /\ UNCHANGED state

ChatCompletion(c) ==
  LET id == SaturatingIncrement(next_completion_id) IN
    /\ Locked(c, "chat_completion")
    /\ next_completion_id' = id
    /\ Return(c, Completion(id))
    /\ UNCHANGED <<next_reservation_id, reservations>>

(***************************************************************************)
(* The specification.                                                      *)
(***************************************************************************)

\* The steps a handler task takes once it is called.
Step(c) ==
  \/ Reject(c) \/ lock_state(c)
  \/ CountReserved(c) \/ RefuseReservation(c) \/ GrantReservation(c)
  \/ Reservations(c) \/ ReleaseReservation(c) \/ ReleaseUnknown(c)
  \/ LocalModels(c) \/ OpenAiModels(c) \/ ChatCompletion(c)

\* Every call has been answered; the daemon waits for more.
Quiet == (\A c \in Calls : pc[c] = "done") /\ UNCHANGED vars

Next == (\E c \in Calls : Call(c) \/ Step(c)) \/ Quiet

Spec == Init /\ [][Next]_vars

\* A handler task that can run is scheduled.
Fairness == \A c \in Calls : WF_vars(Step(c))

FairSpec == Spec /\ Fairness

(***************************************************************************)
(* Properties.                                                             *)
(***************************************************************************)

\* The slots granted of a model never exceed its max_parallel_reservations,
\* whatever calls interleave with create_reservation's count and insert, and
\* also when the id counter has saturated and a grant replaces a reservation.
CapacityRespected == \A m \in DOMAIN models : UsedSlots(reservations, m) <= models[m]

\* The saturating u16 fold of reserved_slots_for_model is the exact sum, so
\* the inventory and the refusals report slots that are really reserved.
FoldIsExact == \A m \in DOMAIN models : reserved_slots_for_model(m) = UsedSlots(reservations, m)

\* The guard belongs to one call, which passed its checks and has not answered.
OneHolder ==
  /\ \A c \in Calls : c \in guard <=> pc[c] \in {"locked", "counted"}
  /\ \A c, d \in guard : c = d
  /\ \A c \in guard : RequestError(request[c]) = "Ok"

\* What create_reservation counted is still the count when it decides.
CountIsCurrent ==
  \A c \in Calls :
     pc[c] = "counted" => /\ request[c].op = "create_reservation"
                          /\ available_slots[c] = AvailableSlots(request[c].model)

\* The inductive invariant: a decision of create_reservation is taken on a
\* count that is current, because the guard is held by nobody else since it
\* was taken; ids in the ledger were issued.
RuntimeInv ==
  /\ TypeOK
  /\ OneHolder
  /\ CountIsCurrent
  /\ CapacityRespected
  /\ DOMAIN reservations \subseteq 1 .. next_reservation_id

Answered(status) == {c \in Calls : reply[c].status = status}

GrantedIds == {reply[c].reservation_id : c \in Answered(201)}

ReleasedIds == {request[c].reservation_id : c \in Answered(204)}

\* The id counter has not reached u64::MAX, where saturating_add repeats ids.
IdsLeft == next_reservation_id < MaxU64

\* The ledger is what the answers say: it holds exactly the reservations that
\* were answered 201 and whose release was not answered 204, as granted.
LedgerMatchesReplies ==
  IdsLeft =>
    /\ DOMAIN reservations = GrantedIds \ ReleasedIds
    /\ \A c \in Answered(201) :
         LET id == reply[c].reservation_id IN
           id \in DOMAIN reservations => reply[c] = Created(id, reservations[id])

\* No two reservations are answered with one id, no two DELETEs of one id are
\* answered 204, and no two completions carry one id.
EachIdOnce ==
  \A c, d \in Calls : c # d =>
    /\ IdsLeft /\ {c, d} \subseteq Answered(201) =>
         reply[c].reservation_id # reply[d].reservation_id
    /\ IdsLeft /\ {c, d} \subseteq Answered(204) =>
         request[c].reservation_id # request[d].reservation_id
    /\ next_completion_id < MaxU64 /\ reply[c].status = 200 /\ reply[d].status = 200
         /\ request[c].op = "chat_completion" /\ request[d].op = "chat_completion" =>
         reply[c].completion_id # reply[d].completion_id

\* create_reservation answers 409 only in a state in which the request does
\* not fit, and reports the slots that are free in that state.
RefusedOnlyWhenFull ==
  [][\A c \in Calls :
       reply'[c] # reply[c] /\ reply'[c].status = 409 =>
         LET r == request[c] IN
           /\ UsedSlots(reservations, r.model) + r.requested_slots > models[r.model]
           /\ reply'[c].available_slots = models[r.model] - UsedSlots(reservations, r.model)]_vars

\* An id that has left the ledger never names a reservation again, so a late
\* or repeated DELETE cannot release somebody else's slots.
ReleasedIdsStayReleased ==
  [][IdsLeft => \A id \in 1 .. next_reservation_id :
                  id \in DOMAIN reservations' => id \in DOMAIN reservations]_vars

\* Every call that is made is answered: no operation waits for a lock it
\* holds, and none returns with the guard still held.
EveryCallAnswered == \A c \in Calls : pc[c] = "called" ~> pc[c] = "done"

(***************************************************************************)
(* The adapter implements the trait's promise.                             *)
(***************************************************************************)
Phase == [c \in Calls |-> IF pc[c] \in {"idle", "done"} THEN pc[c] ELSE "pending"]

Trait == INSTANCE RuntimeAdapter
           WITH active <- reservations, issued <- 1 .. next_reservation_id, phase <- Phase

\* While the id counters last, every operation of the skeleton runtime takes
\* effect at one instant, as the RuntimeAdapter trait's specification asks.
ImplementsRuntimeAdapter == Trait!Spec
=============================================================================
