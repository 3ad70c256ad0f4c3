------------------------ MODULE SkeletonRepliesProofs ------------------------
(***************************************************************************)
(* Proofs about what the skeleton runtime has answered: the ledger is what *)
(* the answers say, no id is answered twice, and the adapter implements    *)
(* its trait, as long as the u64 counters last.                            *)
(***************************************************************************)
EXTENDS SkeletonRuntimeProofs, FiniteSetTheorems

(***************************************************************************)
(* The strengthening.  A call is answered once; ids that were answered     *)
(* were issued; what was released had been granted.                        *)
(***************************************************************************)
AnswersInv ==
  /\ \A c \in Calls : pc[c] # "done" => reply[c] = NoReply
  /\ GrantedIds \subseteq 1 .. next_reservation_id
  /\ IdsLeft => ReleasedIds \subseteq GrantedIds
  /\ \A c \in Calls : \A id :
       reply[c] = Completion(id) =>
         id \in 1 .. next_completion_id /\ request[c].op = "chat_completion"
  /\ \A c \in Calls :
       reply[c].status = 200 /\ request[c].op = "chat_completion" =>
         reply[c] = Completion(reply[c].completion_id)

RepliesInv == RuntimeInv /\ AnswersInv /\ LedgerMatchesReplies /\ EachIdOnce

LEMMA RepliesInit == Init => RepliesInv
<1> SUFFICES ASSUME Init PROVE RepliesInv
  OBVIOUS
<1>1. RuntimeInv
  BY RuntimeInvInit
<1>2. \A c \in Calls : reply[c] = NoReply /\ reply[c].status = 0
  BY DEF Init, NoReply
<1>3. Answered(201) = {} /\ Answered(204) = {}
  BY <1>2 DEF Answered
<1>4. GrantedIds = {} /\ ReleasedIds = {}
  BY <1>3 DEF GrantedIds, ReleasedIds
<1>5. \A c \in Calls : \A id : reply[c] # Completion(id)
  BY <1>2 DEF Completion
<1>6. AnswersInv
  BY <1>2, <1>4, <1>5 DEF AnswersInv
<1>7. LedgerMatchesReplies
  BY <1>3, <1>4 DEF LedgerMatchesReplies, Init
<1>8. EachIdOnce
  BY <1>2, <1>3 DEF EachIdOnce
<1> QED  BY <1>1, <1>6, <1>7, <1>8 DEF RepliesInv

(***************************************************************************)
(* A step that answers nobody, or answers c without granting or releasing. *)
(***************************************************************************)
LEMMA NoAnswer ==
  ASSUME RepliesInv, RuntimeInv', UNCHANGED <<state, request, reply>>,
         \A c \in Calls : pc'[c] # "done" => pc[c] # "done"
  PROVE  RepliesInv'
<1>1. UNCHANGED <<next_reservation_id, next_completion_id, reservations, request, reply>>
  BY DEF state
<1>2. \A s : Answered(s)' = Answered(s)
  BY <1>1 DEF Answered
<1>3. GrantedIds' = GrantedIds /\ ReleasedIds' = ReleasedIds /\ (IdsLeft' <=> IdsLeft)
  BY <1>1, <1>2 DEF GrantedIds, ReleasedIds, IdsLeft
<1>4. AnswersInv'
  BY <1>1, <1>3 DEF RepliesInv, AnswersInv
<1>5. LedgerMatchesReplies'
  BY <1>1, <1>2, <1>3 DEF RepliesInv, LedgerMatchesReplies
<1>6. EachIdOnce'
  BY <1>1, <1>2, <1>3 DEF RepliesInv, EachIdOnce
<1> QED  BY <1>4, <1>5, <1>6 DEF RepliesInv

\* An answer is the first of its call.
LEMMA FirstAnswer ==
  ASSUME RepliesInv, NEW c \in Calls, NEW a, Return(c, a),
         pc[c] \in {"called", "locked", "counted"}
  PROVE  /\ request' = request
         /\ reply[c] = NoReply /\ reply[c].status = 0 /\ reply'[c] = a
         /\ \A d \in Calls : d # c => reply'[d] = reply[d]
         /\ \A d \in Calls : pc'[d] # "done" => d # c /\ reply'[d] = NoReply
         /\ \A st : st # 0 => Answered(st)' = IF a.status = st THEN Answered(st) \cup {c}
                                               ELSE Answered(st)
<1>1. TypeOK
  BY DEF RepliesInv, RuntimeInv
<1>2. /\ request' = request /\ reply'[c] = a /\ pc'[c] = "done"
      /\ \A d \in Calls : d # c => reply'[d] = reply[d] /\ pc'[d] = pc[d]
  BY <1>1 DEF TypeOK, Return
<1>3. reply[c] = NoReply /\ reply[c].status = 0
  BY Statuses DEF RepliesInv, AnswersInv
<1>4. \A d \in Calls : pc'[d] # "done" => d # c /\ reply'[d] = NoReply
  BY <1>2 DEF RepliesInv, AnswersInv
<1>5. ASSUME NEW st, st # 0
      PROVE  Answered(st)' = IF a.status = st THEN Answered(st) \cup {c} ELSE Answered(st)
  BY <1>2, <1>3, <1>5 DEF Answered
<1> QED  BY <1>2, <1>3, <1>4, <1>5

LEMMA OtherAnswer ==
  ASSUME RepliesInv, RuntimeInv', NEW c \in Calls, NEW a, Return(c, a),
         pc[c] \in {"called", "locked", "counted"},
         UNCHANGED <<next_reservation_id, reservations>>, a.status \notin {0, 201, 204},
         \/ /\ next_completion_id' = next_completion_id
            /\ \A id : a # Completion(id)
            /\ request[c].op = "chat_completion" => a.status # 200
         \/ /\ next_completion_id' = SaturatingIncrement(next_completion_id)
            /\ a = Completion(SaturatingIncrement(next_completion_id))
            /\ request[c].op = "chat_completion"
  PROVE  RepliesInv'
<1> DEFINE new == SaturatingIncrement(next_completion_id)
<1>1. /\ request' = request /\ reply'[c] = a
      /\ \A d \in Calls : d # c => reply'[d] = reply[d]
      /\ \A d \in Calls : pc'[d] # "done" => reply'[d] = NoReply
      /\ Answered(201)' = Answered(201) /\ Answered(204)' = Answered(204)
      /\ c \notin Answered(201) /\ c \notin Answered(204)
  <2>1. c \notin Answered(201) /\ c \notin Answered(204)
    BY FirstAnswer DEF Answered
  <2> QED  BY <2>1, FirstAnswer
<1>2. \A d \in Answered(201) : reply'[d] = reply[d]
  BY <1>1 DEF Answered
<1>3. GrantedIds' = GrantedIds /\ ReleasedIds' = ReleasedIds /\ (IdsLeft' <=> IdsLeft)
  BY <1>1, <1>2 DEF GrantedIds, ReleasedIds, IdsLeft
<1>4. /\ next_completion_id \in 0 .. MaxU64 /\ new \in 1 .. MaxU64 /\ next_completion_id <= new
      /\ next_completion_id' \in {next_completion_id, new}
      /\ new < MaxU64 => new = next_completion_id + 1
  BY MaxU64Assumption DEF RepliesInv, RuntimeInv, TypeOK, SaturatingIncrement
<1>5. \A d \in Calls : \A id : reply'[d] = Completion(id) => id \in 1 .. next_completion_id'
  <2> SUFFICES ASSUME NEW d \in Calls, NEW id, reply'[d] = Completion(id)
               PROVE  id \in 1 .. next_completion_id'
    OBVIOUS
  <2>1. CASE d = c
    BY <1>1, <1>4, <2>1, Statuses
  <2>2. CASE d # c
    <3>1. id \in 1 .. next_completion_id
      BY <1>1, <2>2 DEF RepliesInv, AnswersInv
    <3> QED  BY <1>4, <3>1
  <2> QED  BY <2>1, <2>2
<1>6. ASSUME NEW d \in Calls, reply'[d].status = 200, request[d].op = "chat_completion"
      PROVE  reply'[d] = Completion(reply'[d].completion_id)
  <2>1. CASE d = c
    BY <1>1, <1>6, <2>1, Statuses
  <2>2. CASE d # c
    BY <1>1, <1>6, <2>2 DEF RepliesInv, AnswersInv
  <2> QED  BY <2>1, <2>2
<1>7. AnswersInv'
  BY <1>1, <1>3, <1>5, <1>6 DEF RepliesInv, AnswersInv
<1>8. LedgerMatchesReplies'
  BY <1>1, <1>2, <1>3 DEF RepliesInv, LedgerMatchesReplies
<1>9. EachIdOnce'
  <2> SUFFICES ASSUME NEW d \in Calls, NEW e \in Calls, d # e
               PROVE  /\ IdsLeft /\ {d, e} \subseteq Answered(201) =>
                           reply'[d].reservation_id # reply'[e].reservation_id
                      /\ IdsLeft /\ {d, e} \subseteq Answered(204) =>
                           request[d].reservation_id # request[e].reservation_id
                      /\ next_completion_id' < MaxU64
                           /\ reply'[d].status = 200 /\ reply'[e].status = 200
                           /\ request[d].op = "chat_completion"
                           /\ request[e].op = "chat_completion" =>
                           reply'[d].completion_id # reply'[e].completion_id
    BY <1>1, <1>3 DEF EachIdOnce
  <2>1. IdsLeft /\ {d, e} \subseteq Answered(201) =>
          reply'[d].reservation_id # reply'[e].reservation_id
    BY <1>2 DEF RepliesInv, EachIdOnce
  <2>2. IdsLeft /\ {d, e} \subseteq Answered(204) =>
          request[d].reservation_id # request[e].reservation_id
    BY DEF RepliesInv, EachIdOnce
  <2>3. ASSUME next_completion_id' < MaxU64, reply'[d].status = 200, reply'[e].status = 200,
               request[d].op = "chat_completion", request[e].op = "chat_completion"
        PROVE  reply'[d].completion_id # reply'[e].completion_id
    <3>1. next_completion_id < MaxU64
      BY <1>4, <2>3, MaxU64Assumption
    <3>2. CASE d # c /\ e # c
      BY <1>1, <2>3, <3>1, <3>2 DEF RepliesInv, EachIdOnce
    <3>3. CASE d = c \/ e = c
      <4>1. PICK o \in {d, e} : o # c /\ {d, e} = {c, o}
        BY <3>3
      <4>2. reply'[c] = Completion(new) /\ next_completion_id' = new
        BY <1>1, <2>3, <3>3
      <4>3. reply[o].completion_id \in 1 .. next_completion_id /\ reply'[o] = reply[o]
        BY <1>1, <2>3, <4>1 DEF RepliesInv, AnswersInv
      <4>4. reply'[c].completion_id = next_completion_id + 1
        BY <1>4, <2>3, <4>2, Statuses
      <4>5. reply'[c].completion_id # reply'[o].completion_id
        BY <1>4, <4>3, <4>4, MaxU64Assumption
      <4> QED  BY <4>1, <4>5
    <3> QED  BY <3>2, <3>3
  <2> QED  BY <2>1, <2>2, <2>3
<1> QED  BY <1>7, <1>8, <1>9 DEF RepliesInv

(***************************************************************************)
(* A reservation is granted, under an id that nobody was answered.         *)
(***************************************************************************)
LEMMA GrantAnswer ==
  ASSUME RepliesInv, RuntimeInv', NEW c \in Calls, GrantReservation(c)
  PROVE  RepliesInv'
<1> DEFINE r == request[c]
           id == SaturatingIncrement(next_reservation_id)
           a == Created(id, r)
<1>1. /\ pc[c] = "counted" /\ next_reservation_id' = id /\ next_completion_id' = next_completion_id
      /\ Return(c, a) /\ reservations' = Inserted(reservations, id, WellFormed(r))
  BY DEF GrantReservation, InsertReservation, Inserted, WellFormed
<1>2. /\ request' = request /\ reply'[c] = a /\ a.status = 201 /\ a.reservation_id = id
      /\ \A d \in Calls : d # c => reply'[d] = reply[d]
      /\ \A d \in Calls : pc'[d] # "done" => reply'[d] = NoReply
      /\ c \notin Answered(201) /\ c \notin Answered(204)
      /\ Answered(201)' = Answered(201) \cup {c} /\ Answered(204)' = Answered(204)
  <2>1. a.status = 201 /\ a.reservation_id = id
    BY Statuses
  <2>2. /\ request' = request /\ reply'[c] = a /\ reply[c].status = 0
        /\ \A d \in Calls : d # c => reply'[d] = reply[d]
        /\ \A d \in Calls : pc'[d] # "done" => reply'[d] = NoReply
    BY <1>1, FirstAnswer
  <2>3. c \notin Answered(201) /\ c \notin Answered(204)
    BY <2>2 DEF Answered
  <2>4. Answered(201)' = Answered(201) \cup {c} /\ Answered(204)' = Answered(204)
    BY <2>1, <2>2 DEF Answered
  <2> QED  BY <2>1, <2>2, <2>3, <2>4
<1>3. /\ next_reservation_id \in 0 .. MaxU64 /\ id \in 1 .. MaxU64 /\ next_reservation_id <= id
      /\ IdsLeft' => IdsLeft /\ id = next_reservation_id + 1
  BY <1>1, MaxU64Assumption DEF RepliesInv, RuntimeInv, TypeOK, SaturatingIncrement, IdsLeft
<1>4. Created(id, WellFormed(r)) = a
  BY <1>1, CreateWellFormed DEF RepliesInv, RuntimeInv, TypeOK, OneHolder, CountIsCurrent
<1> HIDE DEF a, id
<1>5. GrantedIds' = GrantedIds \cup {id} /\ ReleasedIds' = ReleasedIds
  BY <1>2 DEF GrantedIds, ReleasedIds, Answered
<1>6. GrantedIds \subseteq 1 .. next_reservation_id /\ GrantedIds' \subseteq 1 .. next_reservation_id'
  <2>1. GrantedIds \subseteq 1 .. next_reservation_id
    BY DEF RepliesInv, AnswersInv
  <2> QED  BY <1>1, <1>3, <1>5, <2>1
<1>7. IdsLeft' => ReleasedIds \subseteq GrantedIds /\ id \notin ReleasedIds /\ id \notin GrantedIds
  BY <1>3, <1>6 DEF RepliesInv, AnswersInv
<1>8. AnswersInv'
  <2>1. a # NoReply /\ \A k : a # Completion(k)
    BY <1>2, Statuses
  <2> QED  BY <1>1, <1>2, <1>5, <1>6, <1>7, <2>1 DEF RepliesInv, AnswersInv
<1>9. LedgerMatchesReplies'
  <2> SUFFICES ASSUME IdsLeft'
               PROVE  /\ DOMAIN reservations' = GrantedIds' \ ReleasedIds'
                      /\ \A d \in Answered(201)' :
                           reply'[d].reservation_id \in DOMAIN reservations' =>
                             reply'[d] = Created(reply'[d].reservation_id,
                                                 reservations'[reply'[d].reservation_id])
    BY DEF LedgerMatchesReplies
  <2>1. /\ DOMAIN reservations' = DOMAIN reservations \cup {id}
        /\ reservations'[id] = WellFormed(r)
        /\ \A k \in DOMAIN reservations : k # id => reservations'[k] = reservations[k]
    BY <1>1 DEF Inserted
  <2>2. DOMAIN reservations = GrantedIds \ ReleasedIds
    BY <1>3 DEF RepliesInv, LedgerMatchesReplies
  <2>3. ASSUME NEW d \in Answered(201)', reply'[d].reservation_id \in DOMAIN reservations'
        PROVE  reply'[d] = Created(reply'[d].reservation_id,
                                   reservations'[reply'[d].reservation_id])
    <3>1. CASE d = c
      BY <1>2, <1>4, <2>1, <3>1
    <3>2. CASE d # c
      <4>1. d \in Answered(201) /\ d \in Calls /\ reply'[d] = reply[d]
        BY <1>2, <3>2 DEF Answered
      <4>2. reply[d].reservation_id \in GrantedIds
        BY <4>1 DEF GrantedIds
      <4>3. reply[d].reservation_id # id /\ reply[d].reservation_id \in DOMAIN reservations
        BY <1>7, <2>1, <2>3, <4>1, <4>2
      <4>4. reply[d] = Created(reply[d].reservation_id, reservations[reply[d].reservation_id])
        BY <1>3, <4>1, <4>3 DEF RepliesInv, LedgerMatchesReplies
      <4> QED  BY <2>1, <4>1, <4>3, <4>4
    <3> QED  BY <3>1, <3>2
  <2> QED  BY <1>5, <1>7, <2>1, <2>2, <2>3
<1>10. EachIdOnce'
  <2> SUFFICES ASSUME NEW d \in Calls, NEW e \in Calls, d # e
               PROVE  /\ IdsLeft' /\ {d, e} \subseteq Answered(201)' =>
                           reply'[d].reservation_id # reply'[e].reservation_id
                      /\ IdsLeft' /\ {d, e} \subseteq Answered(204) =>
                           request[d].reservation_id # request[e].reservation_id
                      /\ next_completion_id < MaxU64
                           /\ reply'[d].status = 200 /\ reply'[e].status = 200
                           /\ request[d].op = "chat_completion"
                           /\ request[e].op = "chat_completion" =>
                           reply'[d].completion_id # reply'[e].completion_id
    BY <1>1, <1>2 DEF EachIdOnce
  <2>1. ASSUME IdsLeft', {d, e} \subseteq Answered(201)'
        PROVE  reply'[d].reservation_id # reply'[e].reservation_id
    <3>1. CASE d # c /\ e # c
      BY <1>2, <1>3, <2>1, <3>1 DEF RepliesInv, EachIdOnce
    <3>2. ASSUME NEW o \in {d, e}, o # c PROVE reply'[o].reservation_id # id
      <4>1. o \in Answered(201) /\ reply'[o] = reply[o]
        BY <1>2, <2>1, <3>2
      <4> QED  BY <1>7, <2>1, <4>1 DEF GrantedIds
    <3> QED  BY <1>2, <3>1, <3>2
  <2>2. IdsLeft' /\ {d, e} \subseteq Answered(204) =>
          request[d].reservation_id # request[e].reservation_id
    BY <1>3 DEF RepliesInv, EachIdOnce
  <2>3. ASSUME next_completion_id < MaxU64, reply'[d].status = 200, reply'[e].status = 200,
               request[d].op = "chat_completion", request[e].op = "chat_completion"
        PROVE  reply'[d].completion_id # reply'[e].completion_id
    <3>1. d # c /\ e # c
      BY <1>2, <2>3
    <3> QED  BY <1>2, <2>3, <3>1 DEF RepliesInv, EachIdOnce
  <2> QED  BY <2>1, <2>2, <2>3
<1> QED  BY <1>8, <1>9, <1>10 DEF RepliesInv

(***************************************************************************)
(* A reservation is released, for the first time.                          *)
(***************************************************************************)
LEMMA ReleaseAnswer ==
  ASSUME RepliesInv, RuntimeInv', NEW c \in Calls, ReleaseReservation(c)
  PROVE  RepliesInv'
<1> DEFINE id == request[c].reservation_id
<1>1. /\ pc[c] = "locked" /\ id \in DOMAIN reservations
      /\ next_reservation_id' = next_reservation_id /\ next_completion_id' = next_completion_id
      /\ Return(c, NoContent) /\ request[c].op = "release_reservation"
      /\ reservations' = [k \in DOMAIN reservations \ {id} |-> reservations[k]]
  BY DEF ReleaseReservation, Locked
<1>2. /\ request' = request /\ reply'[c] = NoContent /\ NoContent.status = 204
      /\ \A d \in Calls : d # c => reply'[d] = reply[d]
      /\ \A d \in Calls : pc'[d] # "done" => reply'[d] = NoReply
      /\ c \notin Answered(201) /\ c \notin Answered(204)
      /\ Answered(201)' = Answered(201) /\ Answered(204)' = Answered(204) \cup {c}
  <2>1. /\ request' = request /\ reply'[c] = NoContent /\ reply[c].status = 0
        /\ \A d \in Calls : d # c => reply'[d] = reply[d]
        /\ \A d \in Calls : pc'[d] # "done" => reply'[d] = NoReply
    BY <1>1, FirstAnswer
  <2>2. c \notin Answered(201) /\ c \notin Answered(204)
    BY <2>1 DEF Answered
  <2>3. Answered(201)' = Answered(201) /\ Answered(204)' = Answered(204) \cup {c}
    BY <2>1, Statuses DEF Answered
  <2> QED  BY <2>1, <2>2, <2>3, Statuses
<1>3. \A d \in Answered(201) : reply'[d] = reply[d]
  BY <1>2 DEF Answered
<1>4. GrantedIds' = GrantedIds /\ ReleasedIds' = ReleasedIds \cup {id} /\ (IdsLeft' <=> IdsLeft)
  BY <1>1, <1>2, <1>3 DEF GrantedIds, ReleasedIds, IdsLeft
<1>5. IdsLeft => id \in GrantedIds /\ id \notin ReleasedIds
                 /\ DOMAIN reservations = GrantedIds \ ReleasedIds
  BY <1>1 DEF RepliesInv, LedgerMatchesReplies
<1>6. AnswersInv'
  <2>1. \A k : NoContent # Completion(k)
    BY Statuses
  <2> QED  BY <1>1, <1>2, <1>4, <1>5, <2>1 DEF RepliesInv, AnswersInv
<1>7. LedgerMatchesReplies'
  <2>1. DOMAIN reservations' = DOMAIN reservations \ {id}
        /\ \A k \in DOMAIN reservations' : reservations'[k] = reservations[k]
    BY <1>1
  <2> QED  BY <1>2, <1>3, <1>4, <1>5, <2>1 DEF RepliesInv, LedgerMatchesReplies
<1>8. EachIdOnce'
  <2> SUFFICES ASSUME NEW d \in Calls, NEW e \in Calls, d # e
               PROVE  /\ IdsLeft /\ {d, e} \subseteq Answered(201) =>
                           reply'[d].reservation_id # reply'[e].reservation_id
                      /\ IdsLeft /\ {d, e} \subseteq Answered(204)' =>
                           request[d].reservation_id # request[e].reservation_id
                      /\ next_completion_id < MaxU64
                           /\ reply'[d].status = 200 /\ reply'[e].status = 200
                           /\ request[d].op = "chat_completion"
                           /\ request[e].op = "chat_completion" =>
                           reply'[d].completion_id # reply'[e].completion_id
    BY <1>1, <1>2, <1>4 DEF EachIdOnce
  <2>1. IdsLeft /\ {d, e} \subseteq Answered(201) =>
          reply'[d].reservation_id # reply'[e].reservation_id
    BY <1>3 DEF RepliesInv, EachIdOnce
  <2>2. ASSUME IdsLeft, {d, e} \subseteq Answered(204)'
        PROVE  request[d].reservation_id # request[e].reservation_id
    <3>1. CASE d # c /\ e # c
      BY <1>2, <2>2, <3>1 DEF RepliesInv, EachIdOnce
    <3>2. ASSUME NEW o \in {d, e}, o # c PROVE request[o].reservation_id # id
      <4>1. o \in Answered(204)
        BY <1>2, <2>2, <3>2
      <4> QED  BY <1>5, <2>2, <4>1 DEF ReleasedIds
    <3> QED  BY <3>1, <3>2
  <2>3. ASSUME next_completion_id < MaxU64, reply'[d].status = 200, reply'[e].status = 200,
               request[d].op = "chat_completion", request[e].op = "chat_completion"
        PROVE  reply'[d].completion_id # reply'[e].completion_id
    <3>1. d # c /\ e # c
      BY <1>1, <2>3
    <3> QED  BY <1>2, <2>3, <3>1 DEF RepliesInv, EachIdOnce
  <2> QED  BY <2>1, <2>2, <2>3
<1> QED  BY <1>6, <1>7, <1>8 DEF RepliesInv

LEMMA RepliesNext == RepliesInv /\ [Next]_vars => RepliesInv'
<1> SUFFICES ASSUME RepliesInv, [Next]_vars PROVE RepliesInv'
  OBVIOUS
<1>1. RuntimeInv' /\ TypeOK
  BY RuntimeInvNext DEF RepliesInv, RuntimeInv
<1>2. ASSUME NEW c \in Calls, Call(c) \/ lock_state(c) \/ CountReserved(c) PROVE RepliesInv'
  <2>1. UNCHANGED <<state, request, reply>> /\ \A d \in Calls : pc'[d] # "done" => pc[d] # "done"
    BY <1>1, <1>2 DEF TypeOK, Call, lock_state, CountReserved, Locked
  <2> QED  BY <1>1, <2>1, NoAnswer
<1>3. CASE Quiet \/ UNCHANGED vars
  BY <1>1, <1>3, NoAnswer DEF Quiet, vars
<1>4. ASSUME NEW c \in Calls, NEW e \in DOMAIN into_response,
             Return(c, ErrorReply(e)), UNCHANGED state, pc[c] \in {"called", "locked"}
      PROVE  RepliesInv'
  <2>1. ErrorReply(e).status \in {400, 404, 409, 501} /\ \A id : ErrorReply(e) # Completion(id)
    BY Statuses
  <2>2. UNCHANGED <<next_reservation_id, next_completion_id, reservations>>
    BY <1>4 DEF state
  <2> QED  BY <1>1, <1>4, <2>1, <2>2, OtherAnswer
<1>5. ASSUME NEW c \in Calls, Reject(c) \/ ReleaseUnknown(c) PROVE RepliesInv'
  <2>1. CASE Reject(c)
    BY <1>4, <2>1, RequestErrorType DEF Reject
  <2>2. CASE ReleaseUnknown(c)
    <3>1. "ReservationNotFound" \in DOMAIN into_response
      BY DEF into_response
    <3> QED  BY <1>4, <2>2, <3>1 DEF ReleaseUnknown, Locked
  <2> QED  BY <1>5, <2>1, <2>2
<1>6. ASSUME NEW c \in Calls, RefuseReservation(c) PROVE RepliesInv'
  <2>1. /\ Return(c, CapacityExceeded(available_slots[c])) /\ pc[c] = "counted"
        /\ UNCHANGED <<next_reservation_id, next_completion_id, reservations>>
    BY <1>6 DEF RefuseReservation, state
  <2>2. /\ CapacityExceeded(available_slots[c]).status = 409
        /\ \A id : CapacityExceeded(available_slots[c]) # Completion(id)
    BY Statuses
  <2> QED  BY <1>1, <2>1, <2>2, OtherAnswer
<1>7. ASSUME NEW c \in Calls, NEW a, a.status = 200, \A id : a # Completion(id),
             Return(c, a), UNCHANGED state, pc[c] = "locked", request[c].op # "chat_completion"
      PROVE  RepliesInv'
  <2>1. UNCHANGED <<next_reservation_id, next_completion_id, reservations>>
    BY <1>7 DEF state
  <2> QED  BY <1>1, <1>7, <2>1, OtherAnswer
<1>8. ASSUME NEW c \in Calls, Reservations(c) \/ LocalModels(c) \/ OpenAiModels(c) PROVE RepliesInv'
  <2>1. CASE Reservations(c)
    BY <1>7, <2>1, Statuses, OnlyChatCompletes DEF Reservations, Locked
  <2>2. CASE LocalModels(c)
    BY <1>7, <2>2, Statuses, OnlyChatCompletes DEF LocalModels, Locked
  <2>3. CASE OpenAiModels(c)
    BY <1>7, <2>3, Statuses, OnlyChatCompletes DEF OpenAiModels, Locked
  <2> QED  BY <1>8, <2>1, <2>2, <2>3
<1>9. ASSUME NEW c \in Calls, ChatCompletion(c) PROVE RepliesInv'
  <2> DEFINE id == SaturatingIncrement(next_completion_id)
  <2>1. /\ Return(c, Completion(id)) /\ pc[c] = "locked" /\ next_completion_id' = id
        /\ request[c].op = "chat_completion"
        /\ UNCHANGED <<next_reservation_id, reservations>>
    BY <1>9 DEF ChatCompletion, Locked
  <2>2. Completion(id).status = 200
    BY Statuses
  <2> QED  BY <1>1, <2>1, <2>2, OtherAnswer
<1> QED
  BY <1>1, <1>2, <1>3, <1>5, <1>6, <1>8, <1>9, GrantAnswer, ReleaseAnswer DEF Next, Step

(***************************************************************************)
(* The ledger is what the answers say: while ids last it holds exactly     *)
(* what was answered 201 and not answered 204.                             *)
(***************************************************************************)
THEOREM LedgerTheorem == Spec => []LedgerMatchesReplies
<1>1. RepliesInv => LedgerMatchesReplies
  BY DEF RepliesInv
<1> QED  BY <1>1, RepliesInit, RepliesNext, PTL DEF Spec

(***************************************************************************)
(* No id is answered to two calls, and none is released twice.             *)
(***************************************************************************)
THEOREM IdsTheorem == Spec => []EachIdOnce
<1>1. RepliesInv => EachIdOnce
  BY DEF RepliesInv
<1> QED  BY <1>1, RepliesInit, RepliesNext, PTL DEF Spec

(***************************************************************************)
(* The trait's specification speaks of the same models, errors and sums.   *)
(***************************************************************************)
LEMMA SameInterface ==
  /\ Trait!models = models /\ Trait!ReservationIds = ReservationIds /\ Trait!NoReply = NoReply
  /\ Trait!NoContent = NoContent /\ Trait!OpenAiModelListResponse = OpenAiModelListResponse
  /\ \A r : Trait!RequestError(r) = RequestError(r)
  /\ \A rs, m : Trait!UsedSlots(rs, m) = UsedSlots(rs, m)
  /\ \A e : Trait!ErrorReply(e) = ErrorReply(e)
  /\ \A n : Trait!CapacityExceeded(n) = CapacityExceeded(n)
  /\ \A id, r : Trait!Created(id, r) = Created(id, r)
  /\ \A rs : Trait!Listing(rs) = Listing(rs)
  /\ \A i : Trait!InventoryReply(i) = InventoryReply(i)
  /\ \A id : Trait!Completion(id) = Completion(id)
<1>1. Trait!models = models
  BY DEF Trait!models, models
<1>2. Trait!into_response = into_response
  BY DEF Trait!into_response, into_response
<1>3. \A r : Trait!RequestError(r) = RequestError(r)
  BY <1>1 DEF Trait!RequestError, RequestError, Trait!CreateError, CreateError, Trait!ChatError,
              ChatError, Trait!ensure_model_exists, ensure_model_exists
<1>4. \A rs, m : Trait!SlotWeights(rs, m) = SlotWeights(rs, m)
  BY DEF Trait!SlotWeights, SlotWeights
<1>5. \A w : Trait!ExactSum(w) = ExactSum(w)
  BY DEF Trait!ExactSum, ExactSum
<1>6. \A rs, m : Trait!UsedSlots(rs, m) = UsedSlots(rs, m)
  BY <1>4, <1>5 DEF Trait!UsedSlots, UsedSlots
<1>7. /\ \A e : Trait!ErrorReply(e) = ErrorReply(e)
      /\ \A n : Trait!CapacityExceeded(n) = CapacityExceeded(n)
  BY <1>2 DEF Trait!ErrorReply, ErrorReply, Trait!CapacityExceeded, CapacityExceeded
<1>8. /\ \A id, r : Trait!Created(id, r) = Created(id, r)
      /\ \A rs : Trait!Listing(rs) = Listing(rs)
      /\ \A i : Trait!InventoryReply(i) = InventoryReply(i)
      /\ \A id : Trait!Completion(id) = Completion(id)
  BY DEF Trait!Created, Created, Trait!Listing, Listing, Trait!InventoryReply, InventoryReply,
         Trait!Completion, Completion
<1>9. /\ Trait!ReservationIds = ReservationIds /\ Trait!NoReply = NoReply
      /\ Trait!NoContent = NoContent /\ Trait!OpenAiModelListResponse = OpenAiModelListResponse
  BY <1>1 DEF Trait!ReservationIds, ReservationIds, Trait!NoReply, NoReply, Trait!NoContent,
              NoContent, Trait!OpenAiModelListResponse, OpenAiModelListResponse
<1> QED  BY <1>1, <1>3, <1>6, <1>7, <1>8, <1>9

(***************************************************************************)
(* Each operation takes effect at one step, the one that answers.          *)
(***************************************************************************)
\* No counter has reached u64::MAX.
CountersLast == IdsLeft /\ next_completion_id < MaxU64

LEMMA ReturnIsAnswer ==
  ASSUME TypeOK, NEW c \in Calls, NEW a, Return(c, a), pc[c] \in {"called", "locked", "counted"}
  PROVE  Trait!Answer(c, a)
<1>1. Phase[c] = "pending" /\ Phase' = [Phase EXCEPT ![c] = "done"]
  BY DEF TypeOK, Return, Phase
<1> QED  BY <1>1 DEF Trait!Answer, Return

LEMMA GrantRefines ==
  ASSUME RepliesInv, CountersLast, NEW c \in Calls, GrantReservation(c)
  PROVE  \E id \in ReservationIds : Trait!Grant(c, id)
<1> DEFINE r == request[c]
           id == SaturatingIncrement(next_reservation_id)
<1>1. TypeOK /\ OneHolder /\ CountIsCurrent /\ CapacityRespected
  BY DEF RepliesInv, RuntimeInv
<1>2. /\ RequestError(r) = "Ok" /\ r.op = "create_reservation" /\ r \in Requests
      /\ available_slots[c] = AvailableSlots(r.model) /\ r.requested_slots <= available_slots[c]
  BY <1>1 DEF GrantReservation, OneHolder, CountIsCurrent, TypeOK
<1>3. r.model \in DOMAIN models /\ r.requested_slots \in 1 .. MaxU16
  BY <1>2, CreateWellFormed
<1>4. AvailableSlots(r.model) = models[r.model] - UsedSlots(reservations, r.model)
  BY <1>1, <1>3, AccountingIsExact DEF TypeOK, CapacityRespected
<1>5. UsedSlots(reservations, r.model) \in Nat /\ models[r.model] \in Nat
  BY <1>1, <1>3, UsedSlotsType, ModelsType, MaxU16Assumption DEF TypeOK
<1>6. Trait!Fits(r)
  <2>1. UsedSlots(reservations, r.model) + r.requested_slots <= models[r.model]
    BY <1>2, <1>3, <1>4, <1>5
  <2> QED  BY <2>1, SameInterface DEF Trait!Fits
<1>7. id \in ReservationIds /\ id = next_reservation_id + 1 /\ next_reservation_id \in Nat
  BY <1>1, MaxU64Assumption
     DEF CountersLast, IdsLeft, TypeOK, SaturatingIncrement, ReservationIds
<1>8. id \notin 1 .. next_reservation_id
      /\ 1 .. next_reservation_id + 1 = (1 .. next_reservation_id) \cup {id}
  BY <1>7
<1>9. /\ Return(c, Created(id, r)) /\ pc[c] = "counted" /\ next_reservation_id' = id
      /\ reservations' = [k \in DOMAIN reservations \cup {id} |->
                            IF k = id
                            THEN [model |-> r.model, consumer |-> r.consumer,
                                  requested_slots |-> r.requested_slots]
                            ELSE reservations[k]]
  BY DEF GrantReservation, InsertReservation
<1>10. Trait!Answer(c, Created(id, r))
  BY <1>1, <1>9, ReturnIsAnswer
<1>11. Trait!RequestError(r) = "Ok" /\ Trait!Created(id, r) = Created(id, r)
  BY <1>2, SameInterface
<1>12. Trait!Grant(c, id)
  BY <1>2, <1>6, <1>7, <1>8, <1>9, <1>10, <1>11 DEF Trait!Grant
<1> QED  BY <1>7, <1>12

LEMMA RefuseRefines ==
  ASSUME RepliesInv, NEW c \in Calls, RefuseReservation(c)
  PROVE  Trait!Refuse(c)
<1> DEFINE r == request[c]
<1>1. TypeOK /\ OneHolder /\ CountIsCurrent /\ CapacityRespected
  BY DEF RepliesInv, RuntimeInv
<1>2. /\ RequestError(r) = "Ok" /\ r.op = "create_reservation" /\ r \in Requests
      /\ available_slots[c] = AvailableSlots(r.model) /\ r.requested_slots > available_slots[c]
  BY <1>1 DEF RefuseReservation, OneHolder, CountIsCurrent, TypeOK
<1>3. r.model \in DOMAIN models /\ r.requested_slots \in 1 .. MaxU16
  BY <1>2, CreateWellFormed
<1>4. available_slots[c] = models[r.model] - UsedSlots(reservations, r.model)
  BY <1>1, <1>2, <1>3, AccountingIsExact DEF TypeOK, CapacityRespected
<1>5. UsedSlots(reservations, r.model) \in Nat /\ models[r.model] \in Nat
  BY <1>1, <1>3, UsedSlotsType, ModelsType, MaxU16Assumption DEF TypeOK
<1>6. ~ Trait!Fits(r)
  <2>1. ~ (UsedSlots(reservations, r.model) + r.requested_slots <= models[r.model])
    BY <1>2, <1>3, <1>4, <1>5
  <2> QED  BY <2>1, SameInterface DEF Trait!Fits
<1>7. /\ Return(c, CapacityExceeded(available_slots[c])) /\ pc[c] = "counted"
      /\ UNCHANGED <<reservations, next_reservation_id>>
  BY DEF RefuseReservation, state
<1>8. Trait!Answer(c, CapacityExceeded(available_slots[c]))
  BY <1>1, <1>7, ReturnIsAnswer
<1>9. /\ Trait!RequestError(r) = "Ok"
      /\ Trait!CapacityExceeded(Trait!models[r.model] - Trait!UsedSlots(reservations, r.model))
           = CapacityExceeded(available_slots[c])
  BY <1>2, <1>4, SameInterface
<1> QED  BY <1>2, <1>6, <1>7, <1>8, <1>9 DEF Trait!Refuse

LEMMA ReleaseRefines ==
  ASSUME RepliesInv, NEW c \in Calls, ReleaseReservation(c) \/ ReleaseUnknown(c)
  PROVE  Trait!Release(c)
<1> DEFINE id == request[c].reservation_id
<1>1. TypeOK
  BY DEF RepliesInv, RuntimeInv
<1>2. CASE ReleaseReservation(c)
  <2>1. /\ Return(c, NoContent) /\ pc[c] = "locked" /\ id \in DOMAIN reservations
        /\ request[c].op = "release_reservation" /\ next_reservation_id' = next_reservation_id
        /\ reservations' = [k \in DOMAIN reservations \ {id} |-> reservations[k]]
    BY <1>2 DEF ReleaseReservation, Locked
  <2>2. Trait!Answer(c, Trait!NoContent)
    BY <1>1, <2>1, ReturnIsAnswer, SameInterface
  <2> QED  BY <2>1, <2>2 DEF Trait!Release
<1>3. CASE ReleaseUnknown(c)
  <2>1. /\ Return(c, ErrorReply("ReservationNotFound")) /\ pc[c] = "locked"
        /\ id \notin DOMAIN reservations /\ request[c].op = "release_reservation"
        /\ next_reservation_id' = next_reservation_id /\ reservations' = reservations
    BY <1>3 DEF ReleaseUnknown, Locked, state
  <2>2. Trait!Answer(c, Trait!ErrorReply("ReservationNotFound"))
    BY <1>1, <2>1, ReturnIsAnswer, SameInterface
  <2>3. reservations' = [k \in DOMAIN reservations \ {id} |-> reservations[k]]
    BY <1>1, <2>1 DEF TypeOK, Ledger
  <2> QED  BY <2>1, <2>2, <2>3 DEF Trait!Release
<1> QED  BY <1>2, <1>3

LEMMA ReadRefines ==
  ASSUME RepliesInv, NEW c \in Calls, Reservations(c) \/ LocalModels(c) \/ OpenAiModels(c)
  PROVE  Trait!Read(c)
<1>1. TypeOK /\ CapacityRespected
  BY DEF RepliesInv, RuntimeInv
<1>2. /\ pc[c] = "locked" /\ reservations' = reservations
      /\ next_reservation_id' = next_reservation_id
  BY DEF Reservations, LocalModels, OpenAiModels, Locked, state
<1>3. CASE Reservations(c)
  <2>1. request[c].op = "reservations" /\ Return(c, Listing(reservations))
    BY <1>3 DEF Reservations, Locked
  <2>2. Trait!Answer(c, Trait!Listing(reservations))
    BY <1>1, <1>2, <2>1, ReturnIsAnswer, SameInterface
  <2> QED  BY <1>2, <2>1, <2>2 DEF Trait!Read
<1>4. CASE LocalModels(c)
  <2> DEFINE inventory == [m \in DOMAIN models |-> inventory_for_model(m)]
  <2>1. request[c].op = "local_models" /\ Return(c, InventoryReply(inventory))
    BY <1>4 DEF LocalModels, Locked
  <2>2. ASSUME NEW m \in DOMAIN models
        PROVE  /\ reserved_slots_for_model(m) = UsedSlots(reservations, m)
               /\ AvailableSlots(m) = models[m] - UsedSlots(reservations, m)
    BY <1>1, <2>2, AccountingIsExact DEF TypeOK, CapacityRespected
  <2>3. Trait!ExactInventory = inventory
    BY <2>2, SameInterface DEF Trait!ExactInventory, inventory_for_model
  <2>4. Trait!Answer(c, Trait!InventoryReply(Trait!ExactInventory))
    BY <1>1, <1>2, <2>1, <2>3, ReturnIsAnswer, SameInterface
  <2> QED  BY <1>2, <2>1, <2>4 DEF Trait!Read
<1>5. CASE OpenAiModels(c)
  <2>1. request[c].op = "openai_models" /\ Return(c, OpenAiModelListResponse)
    BY <1>5 DEF OpenAiModels, Locked
  <2>2. Trait!Answer(c, Trait!OpenAiModelListResponse)
    BY <1>1, <1>2, <2>1, ReturnIsAnswer, SameInterface
  <2> QED  BY <1>2, <2>1, <2>2 DEF Trait!Read
<1> QED  BY <1>3, <1>4, <1>5

LEMMA RejectRefines ==
  ASSUME RepliesInv, NEW c \in Calls, Reject(c)
  PROVE  Trait!Reject(c)
<1>1. TypeOK
  BY DEF RepliesInv, RuntimeInv
<1>2. /\ pc[c] = "called" /\ RequestError(request[c]) # "Ok"
      /\ Return(c, ErrorReply(RequestError(request[c])))
      /\ reservations' = reservations /\ next_reservation_id' = next_reservation_id
  BY DEF Reject, state
<1>3. Trait!Answer(c, Trait!ErrorReply(Trait!RequestError(request[c])))
  BY <1>1, <1>2, ReturnIsAnswer, SameInterface
<1> QED  BY <1>2, <1>3, SameInterface DEF Trait!Reject

LEMMA ChatRefines ==
  ASSUME RepliesInv, CountersLast, NEW c \in Calls, ChatCompletion(c)
  PROVE  \E id \in ReservationIds : Trait!Complete(c, id)
<1> DEFINE id == SaturatingIncrement(next_completion_id)
<1>1. TypeOK /\ OneHolder
  BY DEF RepliesInv, RuntimeInv
<1>2. /\ pc[c] = "locked" /\ request[c].op = "chat_completion" /\ Return(c, Completion(id))
      /\ reservations' = reservations /\ next_reservation_id' = next_reservation_id
  BY DEF ChatCompletion, Locked
<1>3. RequestError(request[c]) = "Ok"
  BY <1>1, <1>2 DEF OneHolder
<1>4. id \in ReservationIds /\ id = next_completion_id + 1 /\ next_completion_id \in Nat
  BY <1>1, MaxU64Assumption DEF CountersLast, TypeOK, SaturatingIncrement, ReservationIds
<1>5. \A d \in Calls : reply[d] # Completion(id)
  <2> SUFFICES ASSUME NEW d \in Calls, reply[d] = Completion(id) PROVE FALSE
    OBVIOUS
  <2>1. id \in 1 .. next_completion_id
    BY DEF RepliesInv, AnswersInv
  <2> QED  BY <1>4, <2>1
<1>6. Trait!Answer(c, Trait!Completion(id))
  BY <1>1, <1>2, ReturnIsAnswer, SameInterface
<1>7. Trait!Complete(c, id)
  BY <1>2, <1>3, <1>5, <1>6, SameInterface DEF Trait!Complete
<1> QED  BY <1>4, <1>7

(***************************************************************************)
(* The skeleton runtime implements the RuntimeAdapter trait: as long as    *)
(* its counters last, every operation takes effect at one instant.         *)
(***************************************************************************)
THEOREM RuntimeAdapterImplemented == Spec /\ []CountersLast => ImplementsRuntimeAdapter
<1>1. Init => Trait!Init
  <2> SUFFICES ASSUME Init PROVE Trait!Init
    OBVIOUS
  <2>1. Phase = [c \in Calls |-> "idle"] /\ 1 .. next_reservation_id = {}
    BY DEF Init, Phase
  <2> QED  BY <2>1, SameInterface DEF Init, Trait!Init
<1>2. RepliesInv /\ CountersLast /\ [Next]_vars => [Trait!Next]_(Trait!vars)
  <2> SUFFICES ASSUME RepliesInv, CountersLast, [Next]_vars
               PROVE  \/ Trait!Next
                      \/ UNCHANGED <<reservations, 1 .. next_reservation_id, Phase, request, reply>>
    BY DEF Trait!vars
  <2>1. TypeOK /\ Trait!ReservationIds = ReservationIds
    BY SameInterface DEF RepliesInv, RuntimeInv
  <2>2. ASSUME NEW c \in Calls, Call(c) PROVE Trait!Invoke(c)
    <3>1. Phase[c] = "idle" /\ Phase' = [Phase EXCEPT ![c] = "pending"]
      BY <2>1, <2>2 DEF TypeOK, Call, Phase
    <3> QED  BY <2>2, <3>1 DEF Call, state, Trait!Invoke
  <2>3. ASSUME NEW c \in Calls, lock_state(c) \/ CountReserved(c)
        PROVE  UNCHANGED <<reservations, 1 .. next_reservation_id, Phase, request, reply>>
    <3>1. Phase' = Phase
      BY <2>1, <2>3 DEF TypeOK, lock_state, CountReserved, Locked, Phase
    <3> QED  BY <2>3, <3>1 DEF lock_state, CountReserved, state
  <2>4. CASE Quiet \/ UNCHANGED vars
    BY <2>4 DEF Quiet, vars, state, Phase
  <2>5. ASSUME NEW c \in Calls, Step(c), ~ lock_state(c), ~ CountReserved(c) PROVE Trait!Next
    BY <2>1, <2>5, GrantRefines, RefuseRefines, ReleaseRefines, ReadRefines, RejectRefines,
       ChatRefines
       DEF Step, Trait!Next
  <2> QED  BY <2>2, <2>3, <2>4, <2>5 DEF Next, Trait!Next
<1>3. Spec => []RepliesInv
  BY RepliesInit, RepliesNext, PTL DEF Spec
<1> QED  BY <1>1, <1>2, <1>3, PTL DEF Spec, ImplementsRuntimeAdapter, Trait!Spec

(***************************************************************************)
(* How long the counters last.  Each call advances one counter, once, and  *)
(* with it is answered: as many ids are issued as calls are answered, at   *)
(* most.                                                                   *)
(***************************************************************************)
FewCalls == IsFiniteSet(Calls) /\ Cardinality(Calls) < MaxU64

AnsweredCalls == {c \in Calls : pc[c] = "done"}

CountersEarned == next_reservation_id + next_completion_id <= Cardinality(AnsweredCalls)

LEMMA AnswerEarns ==
  ASSUME TypeOK, CountersEarned, IsFiniteSet(Calls), NEW c \in Calls, NEW a, Return(c, a),
         pc[c] \in {"called", "locked", "counted"},
         \/ UNCHANGED state
         \/ UNCHANGED <<next_reservation_id, next_completion_id>>
         \/ /\ next_reservation_id' = SaturatingIncrement(next_reservation_id)
            /\ next_completion_id' = next_completion_id
         \/ /\ next_completion_id' = SaturatingIncrement(next_completion_id)
            /\ next_reservation_id' = next_reservation_id
  PROVE  CountersEarned'
<1>1. AnsweredCalls' = AnsweredCalls \cup {c} /\ c \notin AnsweredCalls
  BY DEF TypeOK, Return, AnsweredCalls
<1>2. IsFiniteSet(AnsweredCalls) /\ Cardinality(AnsweredCalls) \in Nat
  BY FS_Subset, FS_CardinalityType DEF AnsweredCalls
<1>3. Cardinality(AnsweredCalls') = Cardinality(AnsweredCalls) + 1
  BY <1>1, <1>2, FS_AddElement
<1>4. next_reservation_id' + next_completion_id' <= next_reservation_id + next_completion_id + 1
  BY MaxU64Assumption DEF TypeOK, state, SaturatingIncrement
<1>5. /\ next_reservation_id \in Nat /\ next_completion_id \in Nat
      /\ next_reservation_id' \in Nat /\ next_completion_id' \in Nat
  BY MaxU64Assumption DEF TypeOK, state, SaturatingIncrement
<1>6. next_reservation_id + next_completion_id <= Cardinality(AnsweredCalls)
  BY DEF CountersEarned
<1>7. \A i, j, k, l, n \in Nat : i + j <= n /\ k + l <= i + j + 1 => k + l <= n + 1
  OBVIOUS
<1>8. next_reservation_id' + next_completion_id' <= Cardinality(AnsweredCalls) + 1
  BY <1>2, <1>4, <1>5, <1>6, <1>7
<1> QED  BY <1>3, <1>8 DEF CountersEarned

LEMMA CountersEarnedNext ==
  ASSUME RuntimeInv, CountersEarned, IsFiniteSet(Calls), [Next]_vars
  PROVE  CountersEarned'
<1>1. TypeOK
  BY DEF RuntimeInv
<1>2. ASSUME UNCHANGED state, AnsweredCalls' = AnsweredCalls PROVE CountersEarned'
  BY <1>2 DEF CountersEarned, state
<1>3. CASE Quiet \/ UNCHANGED vars
  BY <1>2, <1>3 DEF Quiet, vars, AnsweredCalls
<1>4. ASSUME NEW c \in Calls, Call(c) \/ lock_state(c) \/ CountReserved(c) PROVE CountersEarned'
  BY <1>1, <1>2, <1>4 DEF TypeOK, Call, lock_state, CountReserved, Locked, AnsweredCalls
<1>5. ASSUME NEW c \in Calls, Step(c), ~ lock_state(c), ~ CountReserved(c) PROVE CountersEarned'
  <2>1. CASE GrantReservation(c)
    BY <1>1, <2>1, AnswerEarns DEF GrantReservation, InsertReservation
  <2>2. CASE ChatCompletion(c)
    BY <1>1, <2>2, AnswerEarns DEF ChatCompletion, Locked
  <2>3. CASE ReleaseReservation(c)
    BY <1>1, <2>3, AnswerEarns DEF ReleaseReservation, Locked
  <2>4. CASE Reject(c) \/ RefuseReservation(c) \/ ReleaseUnknown(c)
    BY <1>1, <2>4, AnswerEarns DEF Reject, RefuseReservation, ReleaseUnknown, Locked
  <2>5. CASE Reservations(c) \/ LocalModels(c) \/ OpenAiModels(c)
    BY <1>1, <2>5, AnswerEarns DEF Reservations, LocalModels, OpenAiModels, Locked
  <2> QED  BY <1>5, <2>1, <2>2, <2>3, <2>4, <2>5 DEF Step
<1> QED  BY <1>3, <1>4, <1>5 DEF Next

(***************************************************************************)
(* A daemon that serves fewer calls than a u64 counts never meets          *)
(* saturating_add's limit: the hypothesis of what is said of ids above     *)
(* holds throughout its life.                                              *)
(***************************************************************************)
THEOREM CountersTheorem == FewCalls => (Spec => []CountersLast)
<1> SUFFICES ASSUME FewCalls PROVE Spec => []CountersLast
  OBVIOUS
<1>1. Init => CountersEarned
  <2> SUFFICES ASSUME Init PROVE CountersEarned
    OBVIOUS
  <2>1. AnsweredCalls = {}
    BY DEF Init, AnsweredCalls
  <2> QED  BY <2>1, FS_EmptySet DEF Init, CountersEarned
<1>2. RuntimeInv /\ CountersEarned /\ [Next]_vars => CountersEarned'
  BY CountersEarnedNext DEF FewCalls
<1>3. RuntimeInv /\ CountersEarned => CountersLast
  <2> SUFFICES ASSUME RuntimeInv, CountersEarned PROVE CountersLast
    OBVIOUS
  <2>1. /\ next_reservation_id \in Nat /\ next_completion_id \in Nat
        /\ Cardinality(AnsweredCalls) \in Nat /\ Cardinality(Calls) \in Nat
        /\ Cardinality(AnsweredCalls) <= Cardinality(Calls)
    BY FS_Subset, FS_CardinalityType, MaxU64Assumption
       DEF AnsweredCalls, FewCalls, RuntimeInv, TypeOK
  <2> QED  BY <2>1, MaxU64Assumption DEF CountersEarned, FewCalls, CountersLast, IdsLeft
<1> QED  BY <1>1, <1>2, <1>3, RuntimeInvariant, PTL DEF Spec

(***************************************************************************)
(* The skeleton runtime implements the RuntimeAdapter trait, with no       *)
(* condition on its state, for a daemon that serves fewer calls than a u64 *)
(* counts.                                                                 *)
(***************************************************************************)
THEOREM TraitTheorem == FewCalls => (Spec => ImplementsRuntimeAdapter)
  BY CountersTheorem, RuntimeAdapterImplemented, PTL

(***************************************************************************)
(* What the trait's callers may rely on holds of the skeleton runtime      *)
(* itself, in every state of such a daemon: the ledger is what the answers *)
(* tell, no model is overcommitted and no id is given twice, with no       *)
(* exception for counters that have run out.                               *)
(***************************************************************************)
THEOREM CallersTheorem == FewCalls => (Spec => []Trait!CallersMayRelyOn)
<1> SUFFICES ASSUME FewCalls PROVE Spec => []Trait!CallersMayRelyOn
  OBVIOUS
<1>1. RepliesInv /\ CountersLast => Trait!CallersMayRelyOn
  <2> SUFFICES ASSUME RepliesInv, CountersLast PROVE Trait!CallersMayRelyOn
    OBVIOUS
  <2>1. IdsLeft /\ next_completion_id < MaxU64
    BY DEF CountersLast
  <2>2. \A s : Trait!Answered(s) = Answered(s)
    BY DEF Trait!Answered, Answered
  <2>3. Trait!GrantedIds = GrantedIds /\ Trait!ReleasedIds = ReleasedIds
    BY <2>2 DEF Trait!GrantedIds, GrantedIds, Trait!ReleasedIds, ReleasedIds
  <2>4. Trait!NeverOvercommitted
    BY SameInterface DEF Trait!NeverOvercommitted, RepliesInv, RuntimeInv, CapacityRespected
  <2>5. Trait!AnswersTellTheLedger
    BY <2>1, <2>2, <2>3, SameInterface
       DEF Trait!AnswersTellTheLedger, RepliesInv, LedgerMatchesReplies
  <2>6. Trait!IdsAreUnique
    <3> SUFFICES ASSUME NEW c \in Calls, NEW d \in Calls, c # d
                 PROVE  /\ {c, d} \subseteq Answered(201) =>
                             reply[c].reservation_id # reply[d].reservation_id
                        /\ {c, d} \subseteq Answered(204) =>
                             request[c].reservation_id # request[d].reservation_id
                        /\ \A id \in 1 .. MaxU64 :
                             ~ (reply[c] = Completion(id) /\ reply[d] = Completion(id))
      BY <2>2, SameInterface DEF Trait!IdsAreUnique
    <3>1. /\ {c, d} \subseteq Answered(201) => reply[c].reservation_id # reply[d].reservation_id
          /\ {c, d} \subseteq Answered(204) => request[c].reservation_id # request[d].reservation_id
      BY <2>1 DEF RepliesInv, EachIdOnce
    <3>2. ASSUME NEW id \in 1 .. MaxU64, reply[c] = Completion(id), reply[d] = Completion(id)
          PROVE  FALSE
      <4>1. /\ reply[c].status = 200 /\ reply[d].status = 200
            /\ reply[c].completion_id = id /\ reply[d].completion_id = id
        BY <3>2, Statuses
      <4>2. request[c].op = "chat_completion" /\ request[d].op = "chat_completion"
        BY <3>2 DEF RepliesInv, AnswersInv
      <4> QED  BY <2>1, <4>1, <4>2 DEF RepliesInv, EachIdOnce
    <3> QED  BY <3>1, <3>2
  <2> QED  BY <2>4, <2>5, <2>6 DEF Trait!CallersMayRelyOn
<1>2. Spec => []RepliesInv
  BY RepliesInit, RepliesNext, PTL DEF Spec
<1> QED  BY <1>1, <1>2, CountersTheorem, PTL

(***************************************************************************)
(* In such a daemon no id that has left the ledger names a reservation     *)
(* again: a late or repeated DELETE finds its own reservation or none.     *)
(***************************************************************************)
THEOREM SkeletonReuseTheorem == FewCalls => (Spec => Trait!IdsAreNotReused)
<1> SUFFICES ASSUME FewCalls PROVE Spec => Trait!IdsAreNotReused
  OBVIOUS
<1> DEFINE Fresh == \A id \in 1 .. next_reservation_id :
                      id \in DOMAIN reservations' => id \in DOMAIN reservations
<1>1. [Trait!Next]_(Trait!vars) => [Fresh]_(Trait!vars)
  <2> SUFFICES ASSUME Trait!Next, NEW k \in 1 .. next_reservation_id, k \in DOMAIN reservations'
               PROVE  k \in DOMAIN reservations
    OBVIOUS
  <2>1. ASSUME NEW c, NEW id, Trait!Grant(c, id) PROVE k \in DOMAIN reservations
    BY <2>1 DEF Trait!Grant
  <2>2. ASSUME NEW c, Trait!Release(c) PROVE k \in DOMAIN reservations
    BY <2>2 DEF Trait!Release
  <2>3. CASE reservations' = reservations
    BY <2>3
  <2> QED
    BY <2>1, <2>2, <2>3
       DEF Trait!Next, Trait!Invoke, Trait!Refuse, Trait!Read, Trait!Reject, Trait!Complete
<1>2. Trait!Spec => [][Fresh]_(Trait!vars)
  <2> HIDE DEF Fresh
  <2> QED  BY <1>1, PTL DEF Trait!Spec
<1>3. Trait!Spec => Trait!IdsAreNotReused
  BY <1>2 DEF Trait!IdsAreNotReused
<1> QED  BY <1>3, TraitTheorem, PTL DEF ImplementsRuntimeAdapter

(***************************************************************************)
(* Its listings agree with every answer given before them, to whichever    *)
(* call: GET /v1/reservations shows what was granted and not released.     *)
(***************************************************************************)
THEOREM SkeletonListingTheorem == FewCalls => (Spec => Trait!ListingsAgree)
<1> SUFFICES ASSUME FewCalls PROVE Spec => Trait!ListingsAgree
  OBVIOUS
<1> DEFINE Agrees == \A c \in Calls :
             reply'[c] # reply[c] /\ request[c].op = "reservations" =>
               DOMAIN reply'[c].reservations = Trait!GrantedIds \ Trait!ReleasedIds
<1>1. RepliesInv /\ Trait!CallersMayRelyOn /\ [Next]_vars => [Agrees]_(Trait!vars)
  <2> SUFFICES ASSUME RepliesInv, Trait!CallersMayRelyOn, [Next]_vars, NEW c \in Calls,
                      reply'[c] # reply[c], request[c].op = "reservations"
               PROVE  DOMAIN reply'[c].reservations = Trait!GrantedIds \ Trait!ReleasedIds
    OBVIOUS
  <2>1. TypeOK /\ RequestError(request[c]) = "Ok"
    BY DEF RepliesInv, RuntimeInv, RequestError
  <2>2. PICK d \in Calls : Call(d) \/ Step(d)
    BY DEF Next, Quiet, vars
  <2>3. ~ Call(d) /\ ~ lock_state(d) /\ ~ CountReserved(d)
    BY DEF Call, lock_state, CountReserved
  <2>4. ASSUME NEW a, Return(d, a) PROVE d = c /\ reply'[c] = a
    BY <2>1, <2>4 DEF Return, TypeOK
  <2>5. d = c
    BY <2>2, <2>3, <2>4 DEF Step, Reject, RefuseReservation, GrantReservation, InsertReservation,
       Reservations, ReleaseReservation, ReleaseUnknown, LocalModels, OpenAiModels, ChatCompletion
  <2>6. ~ RefuseReservation(c) /\ ~ GrantReservation(c)
    <3>1. pc[c] # "counted"
      BY DEF RepliesInv, RuntimeInv, CountIsCurrent
    <3> QED  BY <3>1 DEF RefuseReservation, GrantReservation, InsertReservation
  <2>7. Reservations(c)
    BY <2>1, <2>2, <2>3, <2>5, <2>6
       DEF Step, Reject, ReleaseReservation, ReleaseUnknown, LocalModels, OpenAiModels,
           ChatCompletion, Locked
  <2>8. reply'[c] = Listing(reservations)
    BY <2>4, <2>5, <2>7 DEF Reservations
  <2> QED
    BY <2>8 DEF Listing, Trait!CallersMayRelyOn, Trait!AnswersTellTheLedger
<1>2. Spec => []RepliesInv
  BY RepliesInit, RepliesNext, PTL DEF Spec
<1>3. Spec => [][Agrees]_(Trait!vars)
  <2> HIDE DEF Agrees
  <2> QED  BY <1>1, <1>2, CallersTheorem, PTL DEF Spec
<1> QED  BY <1>3 DEF Trait!ListingsAgree
=============================================================================
