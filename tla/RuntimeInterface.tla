-------------------------- MODULE RuntimeInterface --------------------------
(***************************************************************************)
(* What the callers of a runtime adapter see: the configured models, the   *)
(* requests, the records and errors of runtime.rs and error.rs, and the    *)
(* slot accounting both the skeleton runtime and its abstract              *)
(* specification are stated with.                                          *)
(*                                                                         *)
(* Data left out: a model's family, token limits and tags, and the time a  *)
(* reservation was granted, which no branch reads.  A reservation id is    *)
(* the number n behind "resv-{n:06}" (the format is injective); 0 stands   *)
(* for every string that is not such an id.                                *)
(***************************************************************************)
EXTENDS SlotSums, FiniteSets, Sequences

CONSTANTS
  ModelConfigs,  \* config.models: a sequence of [id, max_parallel_reservations]
  ModelIds,      \* the model names that requests may carry
  Consumers,     \* the consumer names that requests may carry
  Blank,         \* a consumer that is empty once trimmed
  MaxU64,        \* u64::MAX
  Calls,         \* the HTTP calls; each one is served once
  Requests       \* the requests that those calls may make

ASSUME MaxU64Assumption == MaxU64 \in Nat \ {0}

ModelConfig == [id : ModelIds, max_parallel_reservations : 0 .. MaxU16]

ASSUME ModelConfigsAssumption == ModelConfigs \in Seq(ModelConfig)

\* collect() into a BTreeMap: of two entries with the same id the later stays.
models ==
  LET at(id) == {i \in DOMAIN ModelConfigs : ModelConfigs[i].id = id}
      last(id) == CHOOSE i \in at(id) : \A j \in at(id) : j <= i
  IN  [id \in {ModelConfigs[i].id : i \in DOMAIN ModelConfigs} |->
         ModelConfigs[last(id)].max_parallel_reservations]

ReservationIds == 1 .. MaxU64

ModelReservation ==
  [model : DOMAIN models, consumer : Consumers \ {Blank}, requested_slots : 1 .. MaxU16]

\* state.reservations: a map from ids to records.
Ledger == UNION {[ids -> ModelReservation] : ids \in SUBSET ReservationIds}

(***************************************************************************)
(* Requests.                                                               *)
(***************************************************************************)
CreateReservationRequest ==
  [op : {"create_reservation"}, model : ModelIds, consumer : Consumers,
   requested_slots : 0 .. MaxU16]

ReleaseRequest == [op : {"release_reservation"}, reservation_id : 0 .. MaxU64]

OpenAiChatCompletionRequest ==
  [op : {"chat_completion"}, model : ModelIds, stream : BOOLEAN,
   messages_is_empty : BOOLEAN]

ReadRequest == [op : {"reservations", "local_models", "openai_models"}]

Request ==
  CreateReservationRequest \cup ReleaseRequest
    \cup OpenAiChatCompletionRequest \cup ReadRequest

ASSUME RequestsAssumption == Requests \subseteq Request

(***************************************************************************)
(* Errors.  RequestError is the first early return of create_reservation   *)
(* or chat_completion that the request meets before the state is locked.   *)
(***************************************************************************)
ensure_model_exists(id) == id \in DOMAIN models

\* Mutant of CreateError: a reservation of no slots passes.
CreateErrorZeroSlots(r) ==
  IF r.consumer = Blank THEN "InvalidReservationRequest"
  ELSE IF ~ ensure_model_exists(r.model) THEN "ModelNotFound"
  ELSE "Ok"

CreateError(r) ==
  IF r.consumer = Blank \/ r.requested_slots = 0 THEN "InvalidReservationRequest"
  ELSE IF ~ ensure_model_exists(r.model) THEN "ModelNotFound"
  ELSE "Ok"

ChatError(r) ==
  IF ~ ensure_model_exists(r.model) THEN "ModelNotFound"
  ELSE IF r.stream THEN "UnsupportedFeature"
  ELSE IF r.messages_is_empty THEN "InvalidChatRequest"
  ELSE "Ok"

RequestError(r) ==
  CASE r.op = "create_reservation" -> CreateError(r)
    [] r.op = "chat_completion"    -> ChatError(r)
    [] OTHER                       -> "Ok"

into_response ==
  [ModelNotFound             |-> 404, ReservationNotFound |-> 404,
   ModelCapacityExceeded     |-> 409,
   InvalidReservationRequest |-> 400, InvalidChatRequest  |-> 400,
   UnsupportedFeature        |-> 501]

(***************************************************************************)
(* Slot accounting.                                                        *)
(***************************************************************************)

\* What each id adds to the fold over the reservations of one model.
SlotWeights(rs, model) ==
  [k \in Nat |-> IF k \in DOMAIN rs
                 THEN IF rs[k].model = model THEN rs[k].requested_slots ELSE 0
                 ELSE 0]

\* The slots of a model that are really in use: the exact sum.
UsedSlots(rs, model) == ExactSum(SlotWeights(rs, model))[MaxU64]

(***************************************************************************)
(* Replies: a status and what the body carries.                            *)
(***************************************************************************)
Created(id, r) ==
  [status |-> 201, reservation_id |-> id, model |-> r.model,
   consumer |-> r.consumer, requested_slots |-> r.requested_slots]

ErrorReply(error) == [status |-> into_response[error], error |-> error]

CapacityExceeded(available) ==
  [status |-> into_response["ModelCapacityExceeded"],
   error |-> "ModelCapacityExceeded", available_slots |-> available]

NoContent == [status |-> 204]

Listing(rs) == [status |-> 200, reservations |-> rs]

LocalModelInventory ==
  [total_slots : 0 .. MaxU16, reserved_slots : 0 .. MaxU16, available_slots : 0 .. MaxU16]

InventoryReply(inventory) == [status |-> 200, inventory |-> inventory]

OpenAiModelListResponse == [status |-> 200, data |-> DOMAIN models]

Completion(id) == [status |-> 200, completion_id |-> id]

\* A call that has not been answered.
NoReply == [status |-> 0]

Reply ==
  {NoReply, NoContent, OpenAiModelListResponse}
    \cup {ErrorReply(e) : e \in DOMAIN into_response}
    \cup {CapacityExceeded(n) : n \in 0 .. MaxU16}
    \cup {Created(id, r) : id \in ReservationIds, r \in ModelReservation}
    \cup {Listing(rs) : rs \in Ledger}
    \cup {InventoryReply(i) : i \in [DOMAIN models -> LocalModelInventory]}
    \cup {Completion(id) : id \in 1 .. MaxU64}
=============================================================================
