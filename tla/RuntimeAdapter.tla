--------------------------- MODULE RuntimeAdapter ---------------------------
(***************************************************************************)
(* What the RuntimeAdapter trait promises its callers (runtime.rs): every  *)
(* operation takes effect at one instant between the call and its answer,  *)
(* on a ledger of active reservations that never holds more slots of a     *)
(* model than are configured; an id is issued once and released at most    *)
(* once; a reservation is refused only when it does not fit.               *)
(***************************************************************************)
EXTENDS RuntimeInterface

VARIABLES
  active,   \* the reservations that are granted and not yet released
  issued,   \* every id that was ever granted
  phase,    \* per call: "idle", "pending" or "done"
  request,  \* per call: what it asks for
  reply     \* per call: the answer, NoReply before it

vars == <<active, issued, phase, request, reply>>

Init ==
  /\ active = [id \in {} |-> 0]
  /\ issued = {}
  /\ phase = [c \in Calls |-> "idle"]
  /\ request \in [Calls -> Requests]
  /\ reply = [c \in Calls |-> NoReply]

\* The call is made.
Invoke(c) ==
  /\ phase[c] = "idle"
  /\ phase' = [phase EXCEPT ![c] = "pending"]
  /\ UNCHANGED <<active, issued, request, reply>>

Answer(c, answer) ==
  /\ phase[c] = "pending"
  /\ phase' = [phase EXCEPT ![c] = "done"]
  /\ reply' = [reply EXCEPT ![c] = answer]
  /\ UNCHANGED request

Fits(r) == UsedSlots(active, r.model) + r.requested_slots <= models[r.model]

\* A well-formed reservation that fits is granted under an id never issued.
Grant(c, id) ==
  LET r == request[c] IN
    /\ r.op = "create_reservation" /\ RequestError(r) = "Ok"
    /\ Fits(r)
    /\ id \notin issued
    /\ Answer(c, Created(id, r))
    /\ active' = [k \in DOMAIN active \cup {id} |->
                    IF k = id
                    THEN [model |-> r.model, consumer |-> r.consumer,
                          requested_slots |-> r.requested_slots]
                    ELSE active[k]]
    /\ issued' = issued \cup {id}

\* One that does not fit is refused, with the slots that are really free.
Refuse(c) ==
  LET r == request[c] IN
    /\ r.op = "create_reservation" /\ RequestError(r) = "Ok"
    /\ ~ Fits(r)
    /\ Answer(c, CapacityExceeded(models[r.model] - UsedSlots(active, r.model)))
    /\ UNCHANGED <<active, issued>>

\* An active id is released; any other id is unknown.
Release(c) ==
  LET id == request[c].reservation_id IN
    /\ request[c].op = "release_reservation"
    /\ Answer(c, IF id \in DOMAIN active THEN NoContent ELSE ErrorReply("ReservationNotFound"))
    /\ active' = [k \in DOMAIN active \ {id} |-> active[k]]
    /\ UNCHANGED issued

\* What the models' inventory is at this instant.
ExactInventory ==
  [m \in DOMAIN models |->
     [total_slots |-> models[m], reserved_slots |-> UsedSlots(active, m),
      available_slots |-> models[m] - UsedSlots(active, m)]]

\* The reads answer with the ledger of one instant.
Read(c) ==
  /\ \/ request[c].op = "reservations" /\ Answer(c, Listing(active))
     \/ request[c].op = "local_models" /\ Answer(c, InventoryReply(ExactInventory))
     \/ request[c].op = "openai_models" /\ Answer(c, OpenAiModelListResponse)
  /\ UNCHANGED <<active, issued>>

\* A malformed request is answered with its error and changes nothing.
Reject(c) ==
  /\ RequestError(request[c]) # "Ok"
  /\ Answer(c, ErrorReply(RequestError(request[c])))
  /\ UNCHANGED <<active, issued>>

\* A chat completion is answered under an id no other completion carries.
Complete(c, id) ==
  /\ request[c].op = "chat_completion" /\ RequestError(request[c]) = "Ok"
  /\ \A d \in Calls : reply[d] # Completion(id)
  /\ Answer(c, Completion(id))
  /\ UNCHANGED <<active, issued>>

Next ==
  \E c \in Calls :
     \/ Invoke(c) \/ Refuse(c) \/ Release(c) \/ Read(c) \/ Reject(c)
     \/ \E id \in ReservationIds : Grant(c, id) \/ Complete(c, id)

Spec == Init /\ [][Next]_vars

(***************************************************************************)
(* What a caller of any adapter may rely on, whatever its implementation.  *)
(***************************************************************************)
Answered(status) == {c \in Calls : reply[c].status = status}

GrantedIds == {reply[c].reservation_id : c \in Answered(201)}

ReleasedIds == {request[c].reservation_id : c \in Answered(204)}

\* A model is never granted beyond its max_parallel_reservations.
NeverOvercommitted == \A m \in DOMAIN models : UsedSlots(active, m) <= models[m]

\* A caller that keeps every answer knows the ledger: it holds exactly what
\* was answered 201 and not yet answered 204, as it was granted.
AnswersTellTheLedger ==
  /\ DOMAIN active = GrantedIds \ ReleasedIds
  /\ \A c \in Answered(201) :
       LET id == reply[c].reservation_id IN
         id \in DOMAIN active => reply[c] = Created(id, active[id])

\* An id is granted to one call, its release is acknowledged to one call, and
\* a completion id is carried by one answer.
IdsAreUnique ==
  \A c, d \in Calls : c # d =>
    /\ {c, d} \subseteq Answered(201) => reply[c].reservation_id # reply[d].reservation_id
    /\ {c, d} \subseteq Answered(204) => request[c].reservation_id # request[d].reservation_id
    /\ \A id \in 1 .. MaxU64 : ~ (reply[c] = Completion(id) /\ reply[d] = Completion(id))

CallersMayRelyOn == NeverOvercommitted /\ AnswersTellTheLedger /\ IdsAreUnique

\* An id that has left the ledger never names a reservation again.
IdsAreNotReused ==
  [][\A id \in issued : id \in DOMAIN active' => id \in DOMAIN active]_vars

\* A listing agrees with every answer given before it, whoever was given it: it
\* leaves out nothing that was granted and not released, and shows nothing that
\* was released.
ListingsAgree ==
  [][\A c \in Calls :
       reply'[c] # reply[c] /\ request[c].op = "reservations" =>
         DOMAIN reply'[c].reservations = GrantedIds \ ReleasedIds]_vars
=============================================================================
