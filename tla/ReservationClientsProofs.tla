----------------------- MODULE ReservationClientsProofs -----------------------
(***************************************************************************)
(* Proofs about ReservationClients, for any clients, any number of slots,  *)
(* requests and restarts of the daemon.                                    *)
(***************************************************************************)
EXTENDS ReservationClients, TLAPS

(***************************************************************************)
(* Tags and grants.                                                        *)
(***************************************************************************)
LEMMA TagFields ==
  ASSUME NEW t \in Tag
  PROVE  /\ t.client \in Clients /\ t.send \in Sends /\ t.send \in Nat /\ t.send # 0
         /\ t = [client |-> t.client, send |-> t.send]
  BY ClientsAssumption DEF Tag, Sends

LEMMA RequestFields ==
  ASSUME TypeOK, NEW r \in requests
  PROVE  r.tag \in Tag /\ r.op \in {"POST", "DELETE"} /\ r.reservation_id \in Nat
  BY DEF TypeOK, ClientRequest

LEMMA AnswerFields ==
  ASSUME TypeOK, NEW a \in answers
  PROVE  /\ a.tag \in Tag /\ a.status \in {201, 204, 404, 409}
         /\ a.reservation_id \in Nat /\ a.life \in Nat
  BY ClientsAssumption DEF TypeOK, ClientAnswer

LEMMA HeldFields ==
  ASSUME TypeOK, NEW c \in Clients
  PROVE  /\ held[c].reservation_id \in Nat /\ held[c].send \in Nat /\ held[c].life \in Nat
         /\ sends[c] \in Nat /\ life \in Nat
  BY ClientsAssumption DEF TypeOK, Held

LEMMA LedgerFields ==
  ASSUME TypeOK, NEW id \in DOMAIN reservations
  PROVE  id \in Nat /\ id # 0 /\ reservations[id] \in Tag
  BY DEF TypeOK, Ids

\* An id that was granted in this life is one that was handed out in it.
LEMMA GrantInRange ==
  ASSUME ClientsInv, NEW id, NEW tag \in Tag, Granted(id, tag)
  PROVE  id \in 1 .. next_reservation_id
<1> USE DEF ClientsInv
<1>1. CASE id \in DOMAIN reservations /\ reservations[id] = tag
  BY <1>1, LedgerFields DEF LedgerInv, TypeOK
<1>2. CASE \E a \in answers :
             a.status = 201 /\ a.life = life /\ a.reservation_id = id /\ a.tag = tag
  BY <1>2 DEF AnswerInv
<1>3. CASE HoldsNow(tag.client) /\ held[tag.client].reservation_id = id
  BY <1>3, TagFields DEF HolderInv
<1> QED  BY <1>1, <1>2, <1>3 DEF Granted

LEMMA OneGrant ==
  ASSUME ClientsInv, NEW i, NEW j, NEW s \in Tag, NEW t \in Tag, Granted(i, s), Granted(j, t)
  PROVE  i = j <=> s = t
  BY GrantInRange DEF ClientsInv, GrantsAreUnique

\* What a client holds from this life was granted to it.
LEMMA HolderWasGranted ==
  ASSUME ClientsInv, NEW c \in Clients, HoldsNow(c)
  PROVE  /\ [client |-> c, send |-> held[c].send] \in Tag
         /\ Granted(held[c].reservation_id, [client |-> c, send |-> held[c].send])
<1>1. held[c].send \in Sends
  BY ClientsAssumption DEF ClientsInv, TypeOK, Held, HoldsNow, Sends
<1> QED  BY <1>1 DEF Tag, Granted

\* The sender of a DELETE was granted the id it names, in this life or before.
LEMMA DeleteNamesAGrant ==
  ASSUME ClientsInv, NEW r \in requests, r.op = "DELETE"
  PROVE  /\ r.tag.client \in Clients
         /\ r.reservation_id = held[r.tag.client].reservation_id
         /\ pc[r.tag.client] \in {"releasing", "done"}
         /\ HoldsNow(r.tag.client) \/ StaleDelete(r.reservation_id)
<1>1. r.tag.client \in Clients
  BY RequestFields, TagFields DEF ClientsInv
<1>2. RequestInv(r) /\ HolderInv(r.tag.client)
  BY <1>1 DEF ClientsInv
<1>3. /\ r.reservation_id = held[r.tag.client].reservation_id
      /\ pc[r.tag.client] \in {"releasing", "done"}
  BY <1>2 DEF RequestInv
<1>4. held[r.tag.client].life < life \/ held[r.tag.client].life = life
  BY <1>1, <1>2, HeldFields DEF ClientsInv, HolderInv
<1> QED  BY <1>1, <1>2, <1>3, <1>4 DEF HolderInv, HoldsNow, StaleDelete

\* A DELETE releases what its sender was granted, or is a stale one: it takes
\* no reservation from another client that was granted in this life.
LEMMA DeleteTakesItsOwn ==
  ASSUME ClientsInv, NEW r \in requests, r.op = "DELETE",
         NEW tag \in Tag, Granted(r.reservation_id, tag)
  PROVE  \/ StaleDelete(r.reservation_id)
         \/ /\ HoldsNow(r.tag.client)
            /\ tag = [client |-> r.tag.client, send |-> held[r.tag.client].send]
<1> DEFINE c == r.tag.client
           own == [client |-> c, send |-> held[c].send]
<1>1. c \in Clients /\ r.reservation_id = held[c].reservation_id
  BY DeleteNamesAGrant
<1>2. CASE HoldsNow(c)
  <2>1. own \in Tag /\ Granted(r.reservation_id, own)
    BY <1>1, <1>2, HolderWasGranted
  <2> QED  BY <1>2, <2>1, OneGrant
<1> QED  BY <1>2, DeleteNamesAGrant

(***************************************************************************)
(* Initially.                                                              *)
(***************************************************************************)
LEMMA ClientsInit == Init => ClientsInv
<1> SUFFICES ASSUME Init PROVE ClientsInv
  OBVIOUS
<1>1. TypeOK
  BY ClientsAssumption DEF Init, TypeOK, Held, Nothing, Ids
<1>2. \A c \in Clients : HolderInv(c)
  BY DEF Init, HolderInv, HoldsNow, Released, InLedger, Nothing
<1>3. GrantsAreUnique
  BY DEF Init, GrantsAreUnique
<1> QED
  BY <1>1, <1>2, <1>3
     DEF Init, ClientsInv, LedgerInv, HeldUnlessStaleDelete, SlotsAreAccountedFor

\* GrantsAreUnique is preserved by a step that grants nothing.
LEMMA NoNewGrant ==
  ASSUME ClientsInv, next_reservation_id' = next_reservation_id,
         \A i : \A t \in Tag : Granted(i, t)' => Granted(i, t)
  PROVE  GrantsAreUnique'
<1> SUFFICES ASSUME NEW i \in 1 .. next_reservation_id, NEW j \in 1 .. next_reservation_id,
                    NEW s \in Tag, NEW t \in Tag, Granted(i, s)', Granted(j, t)'
             PROVE  i = j <=> s = t
  BY DEF GrantsAreUnique
<1> QED  BY OneGrant

(***************************************************************************)
(* Clients that send.                                                      *)
(***************************************************************************)
LEMMA SendPreserves ==
  ASSUME ClientsInv, NEW c \in Clients, NEW op, NEW to, NEW id \in Nat,
         Send(c, op, id), pc' = [pc EXCEPT ![c] = to],
         \/ op = "POST" /\ to = "creating" /\ pc[c] \in {"idle", "creating"}
         \/ /\ op = "DELETE" /\ to = "releasing" /\ pc[c] \in {"holding", "releasing"}
            /\ id = held[c].reservation_id
  PROVE  ClientsInv'
<1> DEFINE tag == [client |-> c, send |-> sends[c] + 1]
           new == [op |-> op, tag |-> tag, reservation_id |-> id]
<1>1. /\ sends[c] \in Nat /\ sends[c] < MaxSends /\ sends' = [sends EXCEPT ![c] = sends[c] + 1]
      /\ requests' = requests \cup {new}
      /\ answers' = {a \in answers : a.tag.client # c}
      /\ UNCHANGED <<life, next_reservation_id, reservations, held>>
  BY HeldFields DEF Send, ClientsInv, daemon
<1>2. tag \in Tag /\ new \in ClientRequest /\ tag.client = c /\ tag.send = sends[c] + 1
  BY <1>1, ClientsAssumption DEF Tag, Sends, ClientRequest
<1>3. TypeOK'
  BY <1>1, <1>2, ClientsAssumption DEF ClientsInv, TypeOK
<1>4. /\ pc'[c] = to /\ sends'[c] = sends[c] + 1
      /\ \A d \in Clients : d # c => pc'[d] = pc[d] /\ sends'[d] = sends[d]
      /\ \A d \in Clients : sends'[d] \in Nat /\ sends[d] \in Nat /\ sends[d] <= sends'[d]
  BY <1>1 DEF ClientsInv, TypeOK
<1>5. /\ \A t : InLedger(t)' <=> InLedger(t)
      /\ \A d : (HoldsNow(d)' <=> HoldsNow(d)) /\ (Released(d)' <=> Released(d))
  BY <1>1 DEF InLedger, HoldsNow, Released
<1>6. \A i : StaleDelete(i) => StaleDelete(i)'
  BY <1>1, <1>4 DEF StaleDelete
<1>7. LedgerInv'
  BY <1>1, <1>4, LedgerFields, TagFields DEF ClientsInv, LedgerInv
<1>8. ASSUME NEW r \in requests' PROVE RequestInv(r)'
  <2>1. CASE r \in requests
    <3>1. RequestInv(r) /\ r.tag \in Tag /\ r.tag.client \in Clients /\ r.tag.send \in Nat
      BY <2>1, RequestFields, TagFields DEF ClientsInv
    <3>2. r.tag # tag
      BY <1>1, <1>2, <3>1 DEF RequestInv
    <3>3. CASE r.tag.client = c
      BY <1>1, <1>2, <1>4, <1>5, <3>1, <3>2, <3>3 DEF RequestInv
    <3>4. CASE r.tag.client # c
      BY <1>1, <1>2, <1>4, <1>5, <3>1, <3>2, <3>4 DEF RequestInv
    <3> QED  BY <3>3, <3>4
  <2>2. CASE r = new
    <3>1. ~ InLedger(tag)
      BY <1>1, <1>2, LedgerFields, TagFields DEF ClientsInv, LedgerInv, InLedger
    <3>2. \A q \in requests : q.tag # tag
      BY <1>1, <1>2, RequestFields, TagFields DEF ClientsInv, RequestInv
    <3>3. held[c].send <= sends[c] /\ held[c].send \in Nat
      BY HeldFields DEF ClientsInv, HolderInv
    <3> QED  BY <1>1, <1>2, <1>4, <1>5, <2>2, <3>1, <3>2, <3>3 DEF RequestInv
  <2> QED  BY <1>1, <2>1, <2>2
<1>9. ASSUME NEW a \in answers' PROVE AnswerInv(a)'
  <2>1. a \in answers /\ a.tag.client # c /\ a.tag.client \in Clients /\ AnswerInv(a)
    BY <1>1, AnswerFields, TagFields DEF ClientsInv
  <2> QED  BY <1>1, <1>4, <1>5, <1>6, <2>1 DEF AnswerInv
<1>10. ASSUME NEW d \in Clients PROVE HolderInv(d)'
  <2>1. HolderInv(d) /\ held[d].send \in Nat
    BY HeldFields DEF ClientsInv
  <2> QED  BY <1>1, <1>4, <1>5, <2>1 DEF HolderInv
<1>11. GrantsAreUnique'
  <2>1. \A i : \A t \in Tag : Granted(i, t)' => Granted(i, t)
    BY <1>1, <1>5 DEF Granted
  <2> QED  BY <1>1, <2>1, NoNewGrant
<1>12. HeldUnlessStaleDelete'
  BY <1>1, <1>4, <1>5, <1>6 DEF ClientsInv, HeldUnlessStaleDelete
<1>13. ASSUME NEW k \in DOMAIN reservations' PROVE AccountedFor(k, reservations[k])'
  <2> DEFINE t == reservations[k]
  <2>1. /\ t.client \in Clients /\ t.send \in Nat /\ t.send <= sends[t.client]
        /\ AccountedFor(k, t) /\ HolderInv(t.client)
    BY <1>1, LedgerFields, TagFields DEF ClientsInv, LedgerInv, SlotsAreAccountedFor
  <2>2. CASE t.client = c
    BY <1>1, <1>4, <1>5, <2>1, <2>2 DEF AccountedFor, GivenUp, HolderInv, HoldsNow
  <2>3. CASE t.client # c
    BY <1>1, <1>4, <1>5, <2>1, <2>3 DEF AccountedFor, GivenUp
  <2> QED  BY <1>1, <2>2, <2>3
<1> QED
  BY <1>3, <1>7, <1>8, <1>9, <1>10, <1>11, <1>12, <1>13 DEF ClientsInv, SlotsAreAccountedFor

(***************************************************************************)
(* Clients that are answered.                                              *)
(***************************************************************************)
LEMMA ReceivePreserves ==
  ASSUME ClientsInv, NEW a \in answers, Receive(a)
  PROVE  ClientsInv'
<1> DEFINE c == a.tag.client
           to == CASE a.status = 201 -> "holding" [] a.status = 409 -> "idle" [] OTHER -> "done"
           got == [reservation_id |-> a.reservation_id, send |-> a.tag.send, life |-> a.life]
<1>1. /\ answers' = answers \ {a}
      /\ pc' = [pc EXCEPT ![c] = to]
      /\ held' = IF a.status = 201 THEN [held EXCEPT ![c] = got] ELSE held
      /\ UNCHANGED <<life, next_reservation_id, reservations, requests, sends>>
  BY DEF Receive, daemon
<1>2. /\ a.tag \in Tag /\ c \in Clients /\ a.status \in {201, 204, 404, 409}
      /\ a.reservation_id \in Nat /\ a.life \in Nat
      /\ a.tag.send \in Nat /\ a.tag.send # 0 /\ a.tag = [client |-> c, send |-> a.tag.send]
  BY AnswerFields, TagFields DEF ClientsInv
<1>3. AnswerInv(a) /\ HolderInv(c)
  BY <1>2 DEF ClientsInv
<1>4. got \in Held
  BY <1>2, AnswerFields, ClientsAssumption DEF ClientsInv, TypeOK, ClientAnswer, Held, Tag, Sends
<1>5. TypeOK'
  BY <1>1, <1>2, <1>4 DEF ClientsInv, TypeOK
<1>6. /\ pc'[c] = to
      /\ a.status = 201 => held'[c] = got
      /\ a.status # 201 => held' = held
      /\ \A d \in Clients : d # c => pc'[d] = pc[d] /\ held'[d] = held[d]
  BY <1>1, <1>2 DEF ClientsInv, TypeOK
<1>7. \/ a.status = 201 /\ to = "holding" /\ pc[c] = "creating" /\ held[c].send = 0
      \/ a.status = 409 /\ to = "idle" /\ pc[c] = "creating" /\ held[c].send = 0
      \/ a.status \in {204, 404} /\ to = "done" /\ pc[c] = "releasing" /\ Released(c)
  BY <1>2, <1>3 DEF AnswerInv, HolderInv
<1> HIDE DEF to
<1>8. /\ \A t : InLedger(t)' <=> InLedger(t)
      /\ \A d \in Clients : d # c => /\ HoldsNow(d)' <=> HoldsNow(d)
                                     /\ Released(d)' <=> Released(d)
      /\ a.status # 201 => /\ HoldsNow(c)' <=> HoldsNow(c)
                           /\ Released(c)' <=> Released(c)
  BY <1>1, <1>6 DEF InLedger, HoldsNow, Released
<1>9. \A i : StaleDelete(i) => StaleDelete(i)'
  BY <1>1, <1>2, <1>6, <1>7 DEF StaleDelete
<1>10. LedgerInv'
  BY <1>1 DEF ClientsInv, LedgerInv
<1>11. ASSUME NEW r \in requests' PROVE RequestInv(r)'
  <2>1. /\ r \in requests /\ RequestInv(r) /\ r.tag \in Tag /\ r.tag # a.tag
        /\ r.tag.client \in Clients /\ r.tag = [client |-> r.tag.client, send |-> r.tag.send]
    BY <1>1, RequestFields, TagFields DEF ClientsInv, RequestInv
  <2>2. CASE r.tag.client = c
    <3>1. r.tag.send # a.tag.send /\ a.tag.send = sends[c]
      BY <1>2, <1>3, <2>1, <2>2 DEF AnswerInv
    <3>2. held'[c].send # r.tag.send
      BY <1>6, <2>1, <2>2, <3>1 DEF RequestInv
    <3>3. r.op = "DELETE" => held'[c] = held[c] /\ pc'[c] \in {"releasing", "done"}
      BY <1>6, <1>7, <2>1, <2>2 DEF RequestInv
    <3> QED  BY <1>1, <1>8, <2>1, <2>2, <3>1, <3>2, <3>3 DEF RequestInv
  <2>3. CASE r.tag.client # c
    BY <1>1, <1>6, <1>8, <2>1, <2>3 DEF RequestInv
  <2> QED  BY <2>2, <2>3
<1>12. ASSUME NEW b \in answers' PROVE AnswerInv(b)'
  <2>1. /\ b \in answers /\ b # a /\ AnswerInv(b)
        /\ b.tag.client \in Clients /\ b.tag = [client |-> b.tag.client, send |-> b.tag.send]
    BY <1>1, AnswerFields, TagFields DEF ClientsInv
  <2>2. b.tag.client # c
    BY <1>2, <1>3, <2>1 DEF AnswerInv
  <2> QED  BY <1>1, <1>6, <1>8, <1>9, <2>1, <2>2 DEF AnswerInv
<1>13. ASSUME NEW d \in Clients PROVE HolderInv(d)'
  <2>1. HolderInv(d)
    BY DEF ClientsInv
  <2>2. CASE d # c
    BY <1>1, <1>6, <1>8, <2>1, <2>2 DEF HolderInv
  <2>3. CASE d = c /\ a.status # 201
    BY <1>1, <1>6, <1>7, <1>8, <2>1, <2>3 DEF HolderInv
  <2>4. CASE d = c /\ a.status = 201
    BY <1>1, <1>2, <1>3, <1>6, <1>7, <1>8, <2>4 DEF HolderInv, HoldsNow, AnswerInv
  <2> QED  BY <2>2, <2>3, <2>4
<1>14. GrantsAreUnique'
  <2> SUFFICES ASSUME NEW i, NEW t \in Tag, Granted(i, t)' PROVE Granted(i, t)
    BY <1>1, NoNewGrant
  <2>1. t.client \in Clients /\ t = [client |-> t.client, send |-> t.send]
    BY TagFields
  <2>2. CASE t.client # c \/ a.status # 201
    BY <1>1, <1>6, <1>8, <2>1, <2>2 DEF Granted
  <2>3. CASE t.client = c /\ a.status = 201
    BY <1>1, <1>2, <1>6, <2>1, <2>3 DEF Granted, HoldsNow
  <2> QED  BY <2>2, <2>3
<1>15. HeldUnlessStaleDelete'
  <2> SUFFICES ASSUME NEW d \in Clients, pc'[d] = "holding", HoldsNow(d)'
               PROVE  \/ /\ held'[d].reservation_id \in DOMAIN reservations
                         /\ reservations[held'[d].reservation_id]
                              = [client |-> d, send |-> held'[d].send]
                      \/ StaleDelete(held'[d].reservation_id)
    BY <1>1, <1>9 DEF HeldUnlessStaleDelete
  <2>1. CASE d # c
    BY <1>6, <1>8, <2>1 DEF ClientsInv, HeldUnlessStaleDelete
  <2>2. CASE d = c
    BY <1>1, <1>2, <1>3, <1>6, <1>7, <2>2 DEF AnswerInv, HoldsNow
  <2> QED  BY <2>1, <2>2
<1>16. ASSUME NEW k \in DOMAIN reservations' PROVE AccountedFor(k, reservations[k])'
  <2> DEFINE t == reservations[k]
  <2>1. /\ t \in Tag /\ t.client \in Clients /\ t.send \in Nat /\ t.send <= sends[t.client]
        /\ t = [client |-> t.client, send |-> t.send] /\ AccountedFor(k, t)
    BY <1>1, LedgerFields, TagFields DEF ClientsInv, LedgerInv, SlotsAreAccountedFor
  <2>2. InLedger(t)
    BY <1>1 DEF InLedger
  <2>3. CASE t.client # c
    BY <1>1, <1>6, <1>8, <2>1, <2>3 DEF AccountedFor, GivenUp
  <2>4. CASE t.client = c /\ t.send = sends[c]
    <3>1. t = a.tag
      BY <1>2, <1>3, <2>1, <2>4 DEF AnswerInv
    <3>2. a.status = 201 /\ a.life = life
      BY <1>2, <1>3, <2>2, <3>1, HeldFields DEF AnswerInv, ClientsInv
    <3>3. a.reservation_id = k
      BY <1>1, <1>2, <3>1, <3>2, OneGrant DEF Granted
    <3> QED  BY <1>1, <1>2, <1>6, <1>7, <3>1, <3>2, <3>3 DEF AccountedFor, HoldsNow
  <2>5. CASE t.client = c /\ t.send # sends[c]
    <3>1. GivenUp(t) /\ sends[c] \in Nat
      BY <1>2, <2>1, <2>5, HeldFields DEF GivenUp, ClientsInv
    <3>2. ~ (HoldsNow(c)' /\ held'[c].send = t.send)
      <4>1. CASE a.status = 201
        BY <1>3, <1>6, <2>5, <4>1 DEF AnswerInv
      <4>2. CASE a.status # 201
        BY <1>6, <1>7, <1>8, <2>1, <2>2, <2>5, <4>2 DEF Released, HoldsNow
      <4> QED  BY <4>1, <4>2
    <3> QED  BY <1>1, <2>5, <3>1, <3>2 DEF AccountedFor, GivenUp
  <2> QED  BY <2>3, <2>4, <2>5
<1> QED
  BY <1>5, <1>10, <1>11, <1>12, <1>13, <1>14, <1>15, <1>16 DEF ClientsInv, SlotsAreAccountedFor

(***************************************************************************)
(* Requests and answers that are lost.                                     *)
(***************************************************************************)
LEMMA LosePreserves ==
  ASSUME ClientsInv, requests' \subseteq requests, answers' \subseteq answers,
         UNCHANGED <<daemon, client>>
  PROVE  ClientsInv'
<1>1. UNCHANGED <<life, next_reservation_id, reservations, pc, sends, held>>
  BY DEF daemon, client
<1>2. TypeOK' /\ LedgerInv'
  BY <1>1 DEF ClientsInv, TypeOK, LedgerInv
<1>3. /\ \A t : InLedger(t)' <=> InLedger(t)
      /\ \A d : (HoldsNow(d)' <=> HoldsNow(d)) /\ (Released(d)' <=> Released(d))
      /\ \A i : StaleDelete(i) <=> StaleDelete(i)'
  BY <1>1 DEF InLedger, HoldsNow, Released, StaleDelete
<1>4. \A r \in requests' : RequestInv(r)'
  BY <1>1, <1>3 DEF ClientsInv, RequestInv
<1>5. \A a \in answers' : AnswerInv(a)'
  BY <1>1, <1>3 DEF ClientsInv, AnswerInv
<1>6. \A c \in Clients : HolderInv(c)'
  BY <1>1, <1>3 DEF ClientsInv, HolderInv
<1>7. GrantsAreUnique'
  <2>1. \A i : \A t \in Tag : Granted(i, t)' => Granted(i, t)
    BY <1>1, <1>3 DEF Granted
  <2> QED  BY <1>1, <2>1, NoNewGrant
<1>8. HeldUnlessStaleDelete' /\ SlotsAreAccountedFor'
  BY <1>1, <1>3 DEF ClientsInv, HeldUnlessStaleDelete, SlotsAreAccountedFor, AccountedFor, GivenUp
<1> QED  BY <1>2, <1>4, <1>5, <1>6, <1>7, <1>8 DEF ClientsInv

(***************************************************************************)
(* Requests that are served: what create_reservation, release_reservation  *)
(* and the two errors share.                                               *)
(***************************************************************************)
AnswerTo(r, status, id) ==
  [status |-> status, tag |-> r.tag, reservation_id |-> id, life |-> life]

LEMMA AnswerSteps ==
  ASSUME NEW r, NEW status, NEW id, Answer(r, status, id)
  PROVE  /\ requests' = requests \ {r} /\ UNCHANGED <<life, pc, sends, held>>
         /\ \/ answers' = answers
            \/ /\ answers' = answers \cup {AnswerTo(r, status, id)}
               /\ r.tag.send = sends[r.tag.client]
  BY DEF Answer, AnswerTo, client

LEMMA AnswerTypes ==
  ASSUME TypeOK, NEW r \in requests, NEW status \in {201, 204, 404, 409}, NEW id \in Nat,
         Answer(r, status, id)
  PROVE  requests' \subseteq ClientRequest /\ answers' \subseteq ClientAnswer
<1>1. AnswerTo(r, status, id) \in ClientAnswer
  BY RequestFields DEF AnswerTo, ClientAnswer, TypeOK
<1> QED  BY <1>1, AnswerSteps DEF TypeOK

LEMMA ServePreserves ==
  ASSUME ClientsInv, NEW r \in requests, NEW status \in {201, 204, 404, 409}, NEW id \in Nat,
         Answer(r, status, id), r.op = "POST" <=> status \in {201, 409},
         TypeOK', LedgerInv', next_reservation_id <= next_reservation_id',
         \A t : InLedger(t)' => InLedger(t) \/ (t = r.tag /\ status = 201),
         \A b \in answers : b.status = 201 /\ b.life = life =>
           \/ /\ b.reservation_id \in DOMAIN reservations'
              /\ reservations'[b.reservation_id] = b.tag
           \/ StaleDelete(b.reservation_id),
         status = 201 =>
           /\ id \in 1 .. next_reservation_id' /\ id \in DOMAIN reservations'
           /\ reservations'[id] = r.tag,
         status \in {204, 404} => Released(r.tag.client)',
         GrantsAreUnique', HeldUnlessStaleDelete', SlotsAreAccountedFor'
  PROVE  ClientsInv'
<1> DEFINE c == r.tag.client
           new == AnswerTo(r, status, id)
<1>1. /\ requests' = requests \ {r} /\ UNCHANGED <<life, pc, sends, held>>
      /\ answers' = answers \/ (answers' = answers \cup {new} /\ r.tag.send = sends[c])
      /\ r.tag \in Tag /\ c \in Clients /\ r.tag.send \in Nat
      /\ r.tag = [client |-> c, send |-> r.tag.send] /\ RequestInv(r) /\ HolderInv(c)
  BY AnswerSteps, RequestFields, TagFields DEF ClientsInv
<1>2. new.status = status /\ new.tag = r.tag /\ new.reservation_id = id /\ new.life = life
  BY DEF AnswerTo
<1>3. /\ \A d : HoldsNow(d)' <=> HoldsNow(d)
      /\ \A i : StaleDelete(i)' <=> StaleDelete(i)
  BY <1>1 DEF HoldsNow, StaleDelete
<1>4. ASSUME NEW d \in Clients
      PROVE  [client |-> d, send |-> held[d].send] # r.tag /\ (Released(d) => Released(d)')
  BY <1>1, <1>3 DEF RequestInv, Released
<1>5. \A q \in requests' : RequestInv(q)'
  BY <1>1, <1>2 DEF ClientsInv, RequestInv
<1>6. ASSUME NEW b \in answers' PROVE AnswerInv(b)'
  <2>1. CASE b \in answers
    <3>1. AnswerInv(b) /\ b.tag # r.tag /\ b.tag.client \in Clients
      BY <1>1, <2>1, AnswerFields, TagFields DEF ClientsInv, RequestInv
    <3>2. b.status = 201 /\ b.life = life => b.reservation_id \in 1 .. next_reservation_id'
      BY <3>1 DEF AnswerInv, ClientsInv, TypeOK
    <3>3. \A d \in answers' : d.tag = b.tag => d = b
      BY <1>1, <1>2, <3>1 DEF AnswerInv
    <3>4. b.status = 201 /\ b.life = life =>
            \/ /\ b.reservation_id \in DOMAIN reservations'
               /\ reservations'[b.reservation_id] = b.tag
            \/ StaleDelete(b.reservation_id)'
      BY <1>3, <2>1
    <3>5. b.status # 201 \/ b.life < life => ~ InLedger(b.tag)'
      BY <3>1 DEF AnswerInv
    <3>6. b.status \in {204, 404} => Released(b.tag.client)'
      <4> DEFINE d == b.tag.client
      <4>1. b.status \in {204, 404} => Released(d)
        BY <3>1 DEF AnswerInv
      <4>2. Released(d) => Released(d)'
        BY <1>1, <1>3, <1>4, <3>1 DEF Released
      <4> QED  BY <4>1, <4>2
    <3> QED  BY <1>1, <3>1, <3>2, <3>3, <3>4, <3>5, <3>6 DEF AnswerInv
  <2>2. CASE b = new /\ r.tag.send = sends[c]
    <3>1. pc[c] = IF status \in {201, 409} THEN "creating" ELSE "releasing"
      BY <1>1, <2>2, RequestFields DEF RequestInv, ClientsInv
    <3>2. \A d \in answers' : d.tag = b.tag => d = b
      BY <1>1, <1>2, <2>2 DEF RequestInv
    <3>3. status # 201 => ~ InLedger(r.tag)'
      BY <1>1 DEF RequestInv
    <3>4. life \in Nat
      BY ClientsAssumption DEF ClientsInv, TypeOK
    <3> QED  BY <1>1, <1>2, <2>2, <3>1, <3>2, <3>3, <3>4 DEF AnswerInv
  <2> QED  BY <1>1, <2>1, <2>2
<1>7. ASSUME NEW d \in Clients PROVE HolderInv(d)'
  <2>1. HolderInv(d)
    BY DEF ClientsInv
  <2>2. HoldsNow(d) => held[d].reservation_id \in 1 .. next_reservation_id'
    BY <2>1, HeldFields DEF HolderInv, ClientsInv, TypeOK
  <2> QED  BY <1>1, <1>3, <1>4, <2>1, <2>2 DEF HolderInv
<1> QED  BY <1>5, <1>6, <1>7 DEF ClientsInv

LEMMA CreatePreserves ==
  ASSUME ClientsInv, NEW r \in requests, create_reservation(r)
  PROVE  ClientsInv'
<1> DEFINE id == next_reservation_id + 1
<1>1. /\ r.op = "POST" /\ next_reservation_id' = id /\ Insert(r, id) /\ Answer(r, 201, id)
      /\ next_reservation_id \in Nat /\ id \in Nat /\ id # 0
  BY DEF create_reservation, ClientsInv, TypeOK
<1>2. /\ requests' \subseteq ClientRequest /\ answers' \subseteq ClientAnswer
      /\ UNCHANGED <<life, pc, sends, held>>
      /\ answers' = answers \/ answers' = answers \cup {AnswerTo(r, 201, id)}
      /\ r.tag \in Tag /\ r.tag.client \in Clients /\ r.tag.send \in Nat
      /\ r.tag = [client |-> r.tag.client, send |-> r.tag.send] /\ RequestInv(r)
  BY <1>1, AnswerSteps, AnswerTypes, RequestFields, TagFields DEF ClientsInv
<1>3. \A k \in DOMAIN reservations : k # id /\ k \in Nat /\ k # 0 /\ reservations[k] \in Tag
                                     /\ k <= next_reservation_id
  BY <1>1, LedgerFields DEF ClientsInv, LedgerInv
<1>4. /\ DOMAIN reservations' = DOMAIN reservations \cup {id} /\ reservations'[id] = r.tag
      /\ \A k \in DOMAIN reservations : reservations'[k] = reservations[k]
      /\ reservations' \in [DOMAIN reservations' -> Tag]
  BY <1>1, <1>2, <1>3 DEF Insert
<1>5. TypeOK'
  BY <1>1, <1>2, <1>3, <1>4 DEF ClientsInv, TypeOK, Ids
<1>6. LedgerInv'
  BY <1>1, <1>2, <1>3, <1>4 DEF ClientsInv, LedgerInv, RequestInv
<1>7. \A t : InLedger(t)' => InLedger(t) \/ t = r.tag
  BY <1>4 DEF InLedger
<1>8. \A b \in answers : b.status = 201 /\ b.life = life =>
        \/ b.reservation_id \in DOMAIN reservations' /\ reservations'[b.reservation_id] = b.tag
        \/ StaleDelete(b.reservation_id)
  BY <1>4 DEF ClientsInv, AnswerInv
<1>9. /\ \A d : HoldsNow(d)' <=> HoldsNow(d)
      /\ \A i : StaleDelete(i)' <=> StaleDelete(i)
  BY <1>2 DEF HoldsNow, StaleDelete
<1>10. GrantsAreUnique'
  <2>1. \A i : \A t \in Tag : Granted(i, t)' => Granted(i, t) \/ (i = id /\ t = r.tag)
    BY <1>2, <1>4, <1>9 DEF Granted, AnswerTo
  <2>2. \A i : ~ Granted(i, r.tag)
    BY <1>2 DEF Granted, RequestInv, InLedger
  <2>3. \A t \in Tag : ~ Granted(id, t)
    BY <1>1, GrantInRange
  <2> SUFFICES ASSUME NEW i, NEW j, NEW s \in Tag, NEW t \in Tag, Granted(i, s)', Granted(j, t)'
               PROVE  i = j <=> s = t
    BY DEF GrantsAreUnique
  <2>4. /\ Granted(i, s) \/ (i = id /\ s = r.tag)
        /\ Granted(j, t) \/ (j = id /\ t = r.tag)
    BY <2>1
  <2> QED  BY <2>2, <2>3, <2>4, OneGrant
<1>11. HeldUnlessStaleDelete'
  BY <1>2, <1>4, <1>9 DEF ClientsInv, HeldUnlessStaleDelete
<1>12. ASSUME NEW k \in DOMAIN reservations' PROVE AccountedFor(k, reservations[k])'
  <2>1. CASE k = id
    <3>1. held[r.tag.client].send # r.tag.send
      BY <1>2 DEF RequestInv
    <3>2. r.tag.send < sends[r.tag.client] \/ pc[r.tag.client] = "creating"
      BY <1>1, <1>2, HeldFields DEF RequestInv, ClientsInv
    <3> QED  BY <1>2, <1>4, <2>1, <3>1, <3>2 DEF AccountedFor, GivenUp
  <2>2. CASE k # id
    BY <1>2, <1>4, <1>9, <2>2 DEF ClientsInv, SlotsAreAccountedFor, AccountedFor, GivenUp
  <2> QED  BY <2>1, <2>2
<1>13. SlotsAreAccountedFor'
  BY <1>12 DEF SlotsAreAccountedFor
<1>14. id \in 1 .. next_reservation_id' /\ next_reservation_id <= next_reservation_id'
  BY <1>1
<1> QED
  BY <1>1, <1>4, <1>5, <1>6, <1>7, <1>8, <1>10, <1>11, <1>13, <1>14, ServePreserves

\* An error changes nothing but the messages.
LEMMA ErrorPreserves ==
  ASSUME ClientsInv, NEW r \in requests, NEW status \in {404, 409}, NEW id \in Nat,
         Answer(r, status, id), r.op = "POST" <=> status = 409,
         UNCHANGED <<next_reservation_id, reservations>>,
         status = 404 => Released(r.tag.client)
  PROVE  ClientsInv'
<1>1. /\ requests' \subseteq ClientRequest /\ answers' \subseteq ClientAnswer
      /\ UNCHANGED <<life, pc, sends, held>>
      /\ answers' = answers \/ answers' = answers \cup {AnswerTo(r, status, id)}
  BY AnswerSteps, AnswerTypes DEF ClientsInv
<1>2. TypeOK' /\ LedgerInv' /\ next_reservation_id \in Nat
  BY <1>1 DEF ClientsInv, TypeOK, LedgerInv
<1>3. /\ \A t : InLedger(t)' <=> InLedger(t)
      /\ \A d : (HoldsNow(d)' <=> HoldsNow(d)) /\ (Released(d)' <=> Released(d))
      /\ \A i : StaleDelete(i) <=> StaleDelete(i)'
  BY <1>1 DEF InLedger, HoldsNow, Released, StaleDelete
<1>4. GrantsAreUnique'
  <2>1. \A i : \A t \in Tag : Granted(i, t)' => Granted(i, t)
    BY <1>1, <1>3 DEF Granted, AnswerTo
  <2> QED  BY <2>1, NoNewGrant
<1>5. HeldUnlessStaleDelete' /\ SlotsAreAccountedFor'
  BY <1>1, <1>3 DEF ClientsInv, HeldUnlessStaleDelete, SlotsAreAccountedFor, AccountedFor, GivenUp
<1>6. \A b \in answers : b.status = 201 /\ b.life = life =>
        \/ b.reservation_id \in DOMAIN reservations' /\ reservations'[b.reservation_id] = b.tag
        \/ StaleDelete(b.reservation_id)
  BY DEF ClientsInv, AnswerInv
<1>7. status \in {204, 404} => Released(r.tag.client)'
  BY <1>1 DEF Released, HoldsNow, InLedger
<1> QED  BY <1>2, <1>3, <1>4, <1>5, <1>6, <1>7, ServePreserves

\* Once the id that a client's DELETE names is not in the ledger, nothing of
\* that client's is.
LEMMA NothingLeft ==
  ASSUME ClientsInv, NEW r \in requests, r.op = "DELETE", HoldsNow(r.tag.client),
         NEW k \in DOMAIN reservations,
         reservations[k] = [client |-> r.tag.client, send |-> held[r.tag.client].send]
  PROVE  k = r.reservation_id
<1> DEFINE c == r.tag.client
           own == [client |-> c, send |-> held[c].send]
<1>1. c \in Clients /\ r.reservation_id = held[c].reservation_id
  BY DeleteNamesAGrant
<1>2. own \in Tag /\ Granted(r.reservation_id, own)
  BY <1>1, HolderWasGranted
<1>3. Granted(k, own)
  BY DEF Granted
<1> QED  BY <1>2, <1>3, OneGrant

LEMMA ReleasePreserves ==
  ASSUME ClientsInv, NEW r \in requests, release_reservation(r)
  PROVE  ClientsInv'
<1> DEFINE id == r.reservation_id
           c == r.tag.client
<1>1. /\ r.op = "DELETE" /\ id \in DOMAIN reservations /\ Answer(r, 204, id)
      /\ id \in Nat /\ next_reservation_id' = next_reservation_id /\ next_reservation_id \in Nat
      /\ reservations' = [k \in DOMAIN reservations \ {id} |-> reservations[k]]
  BY RequestFields DEF release_reservation, ClientsInv, TypeOK
<1>2. /\ requests' \subseteq ClientRequest /\ answers' \subseteq ClientAnswer
      /\ UNCHANGED <<life, pc, sends, held>>
      /\ answers' = answers \/ answers' = answers \cup {AnswerTo(r, 204, id)}
      /\ c \in Clients /\ pc[c] \in {"releasing", "done"}
  <2>1. c \in Clients /\ pc[c] \in {"releasing", "done"}
    BY <1>1, DeleteNamesAGrant
  <2> QED  BY <1>1, <2>1, AnswerSteps, AnswerTypes DEF ClientsInv
<1>3. /\ DOMAIN reservations' = DOMAIN reservations \ {id}
      /\ \A k \in DOMAIN reservations' : reservations'[k] = reservations[k]
  BY <1>1
<1>4. TypeOK' /\ LedgerInv'
  <2>1. reservations' \in [DOMAIN reservations' -> Tag] /\ DOMAIN reservations' \subseteq Ids
    BY <1>1, <1>3 DEF ClientsInv, TypeOK
  <2> QED  BY <1>1, <1>2, <1>3, <2>1 DEF ClientsInv, TypeOK, LedgerInv
<1>5. /\ \A t : InLedger(t)' => InLedger(t)
      /\ \A d : HoldsNow(d)' <=> HoldsNow(d)
      /\ \A i : StaleDelete(i)' <=> StaleDelete(i)
  BY <1>2, <1>3 DEF InLedger, HoldsNow, StaleDelete
<1>6. \A b \in answers : b.status = 201 /\ b.life = life =>
        \/ b.reservation_id \in DOMAIN reservations' /\ reservations'[b.reservation_id] = b.tag
        \/ StaleDelete(b.reservation_id)
  <2> SUFFICES ASSUME NEW b \in answers, b.status = 201, b.life = life, b.reservation_id = id
               PROVE  StaleDelete(id)
    BY <1>3 DEF ClientsInv, AnswerInv
  <2>1. b.tag \in Tag /\ Granted(id, b.tag)
    BY AnswerFields DEF Granted, ClientsInv
  <2>2. pc[b.tag.client] = "creating"
    BY DEF ClientsInv, AnswerInv
  <2>3. b.tag.client # c
    BY <1>2, <2>2
  <2> QED  BY <1>1, <2>1, <2>3, DeleteTakesItsOwn
<1>7. Released(c)'
  BY <1>1, <1>2, <1>3, <1>5, NothingLeft DEF Released, InLedger
<1>8. GrantsAreUnique'
  <2>1. \A i : \A t \in Tag : Granted(i, t)' => Granted(i, t)
    BY <1>2, <1>3, <1>5 DEF Granted, AnswerTo
  <2> QED  BY <1>1, <2>1, NoNewGrant
<1>9. HeldUnlessStaleDelete'
  <2> SUFFICES ASSUME NEW d \in Clients, pc[d] = "holding", HoldsNow(d), held[d].reservation_id = id
               PROVE  StaleDelete(id)
    BY <1>2, <1>3, <1>5 DEF ClientsInv, HeldUnlessStaleDelete
  <2>1. d # c
    BY <1>2
  <2>2. /\ [client |-> d, send |-> held[d].send] \in Tag
        /\ Granted(id, [client |-> d, send |-> held[d].send])
    BY HolderWasGranted
  <2> QED  BY <1>1, <2>1, <2>2, DeleteTakesItsOwn
<1>10. SlotsAreAccountedFor'
  BY <1>2, <1>3, <1>5 DEF ClientsInv, SlotsAreAccountedFor, AccountedFor, GivenUp
<1> QED  BY <1>1, <1>4, <1>5, <1>6, <1>7, <1>8, <1>9, <1>10, ServePreserves

LEMMA NotFoundPreserves ==
  ASSUME ClientsInv, NEW r \in requests, ReservationNotFound(r)
  PROVE  ClientsInv'
<1>1. /\ r.op = "DELETE" /\ r.reservation_id \notin DOMAIN reservations
      /\ Answer(r, 404, r.reservation_id) /\ UNCHANGED <<next_reservation_id, reservations>>
      /\ r.reservation_id \in Nat
  BY RequestFields DEF ReservationNotFound, ClientsInv
<1>2. Released(r.tag.client)
  BY <1>1, NothingLeft DEF Released, InLedger
<1> QED  BY <1>1, <1>2, ErrorPreserves

LEMMA RestartPreserves ==
  ASSUME ClientsInv, Restart
  PROVE  ClientsInv'
<1>1. /\ life' = life + 1 /\ life \in Nat /\ life < MaxLives
      /\ next_reservation_id' = 0 /\ reservations' = [id \in {} |-> 0]
      /\ UNCHANGED <<requests, answers, pc, sends, held>>
  BY ClientsAssumption DEF Restart, network, client, ClientsInv, TypeOK
<1>2. TypeOK'
  BY <1>1, ClientsAssumption DEF ClientsInv, TypeOK
<1>3. DOMAIN reservations' = {} /\ \A t : ~ InLedger(t)'
  BY <1>1 DEF InLedger
<1>4. \A c \in Clients : held[c].life < life' /\ held[c].life \in Nat /\ ~ HoldsNow(c)'
  <2> SUFFICES ASSUME NEW c \in Clients
               PROVE  held[c].life < life' /\ held[c].life \in Nat /\ ~ HoldsNow(c)'
    OBVIOUS
  <2>1. held[c].life \in Nat /\ held[c].life <= life
    BY HeldFields DEF ClientsInv, HolderInv
  <2> QED  BY <1>1, <2>1 DEF HoldsNow
<1>5. \A r \in requests' : RequestInv(r)'
  BY <1>1, <1>3 DEF ClientsInv, RequestInv
<1>6. ASSUME NEW a \in answers' PROVE AnswerInv(a)'
  <2>1. AnswerInv(a) /\ a.life < life' /\ a.life \in Nat /\ a.tag.client \in Clients
    BY <1>1, AnswerFields, TagFields DEF ClientsInv, AnswerInv
  <2> QED  BY <1>1, <1>3, <1>4, <2>1 DEF AnswerInv, Released
<1>7. \A c \in Clients : HolderInv(c)'
  BY <1>1, <1>3, <1>4 DEF ClientsInv, HolderInv, Released
<1>8. LedgerInv' /\ GrantsAreUnique' /\ HeldUnlessStaleDelete' /\ SlotsAreAccountedFor'
  BY <1>1, <1>3, <1>4 DEF LedgerInv, GrantsAreUnique, HeldUnlessStaleDelete, SlotsAreAccountedFor
<1> QED  BY <1>2, <1>5, <1>6, <1>7, <1>8 DEF ClientsInv

LEMMA ClientsNext == ClientsInv /\ [Next]_vars => ClientsInv'
<1> SUFFICES ASSUME ClientsInv, [Next]_vars PROVE ClientsInv'
  OBVIOUS
<1>1. ASSUME NEW c \in Clients, Post(c) PROVE ClientsInv'
  BY <1>1, SendPreserves DEF Post
<1>2. ASSUME NEW c \in Clients, Delete(c) PROVE ClientsInv'
  BY <1>2, SendPreserves, HeldFields DEF Delete, ClientsInv
<1>3. ASSUME NEW r \in requests, Serve(r) PROVE ClientsInv'
  <2>1. CASE ModelCapacityExceeded(r)
    BY <2>1, ErrorPreserves DEF ModelCapacityExceeded
  <2> QED  BY <1>3, <2>1, CreatePreserves, ReleasePreserves, NotFoundPreserves DEF Serve
<1>4. ASSUME NEW r \in requests, LoseRequest(r) PROVE ClientsInv'
  BY <1>4, LosePreserves DEF LoseRequest
<1>5. ASSUME NEW a \in answers, Receive(a) \/ LoseAnswer(a) PROVE ClientsInv'
  BY <1>5, ReceivePreserves, LosePreserves DEF LoseAnswer
<1>6. CASE UNCHANGED vars
  BY <1>6, LosePreserves DEF vars, network
<1> QED  BY <1>1, <1>2, <1>3, <1>4, <1>5, <1>6, RestartPreserves DEF Next

(***************************************************************************)
(* The invariant holds in every reachable state.                           *)
(***************************************************************************)
THEOREM ClientsInvariant == Spec => []ClientsInv
  BY ClientsInit, ClientsNext, PTL DEF Spec

(***************************************************************************)
(* A grant of the process that runs is good until its client releases it,  *)
(* but for a DELETE from before the restart.                               *)
(***************************************************************************)
THEOREM HeldTheorem == Spec => []HeldUnlessStaleDelete
<1>1. ClientsInv => HeldUnlessStaleDelete
  BY DEF ClientsInv
<1> QED  BY <1>1, ClientsInvariant, PTL

(***************************************************************************)
(* Every taken slot is its client's or that of an unanswered POST.         *)
(***************************************************************************)
THEOREM SlotsTheorem == Spec => []SlotsAreAccountedFor
<1>1. ClientsInv => SlotsAreAccountedFor
  BY DEF ClientsInv
<1> QED  BY <1>1, ClientsInvariant, PTL

(***************************************************************************)
(* A DELETE of this life names what its sender was granted, so it does not *)
(* name the slot of a POST that was given up.                              *)
(***************************************************************************)
LEMMA LeakedStays ==
  ASSUME ClientsInv, Next, life' = life,
         NEW id \in DOMAIN reservations, Leaked(id), id \notin DOMAIN reservations'
  PROVE  StaleDelete(id)
<1>1. ~ Restart
  BY HeldFields, ClientsAssumption DEF Restart, ClientsInv, TypeOK
<1>2. PICK r \in requests : release_reservation(r) /\ r.reservation_id = id
  BY <1>1 DEF Next, Post, Delete, Send, Serve, LoseRequest, Receive, LoseAnswer, daemon,
              create_reservation, Insert, ModelCapacityExceeded, ReservationNotFound,
              release_reservation
<1>3. r.op = "DELETE" /\ reservations[id] \in Tag /\ Granted(id, reservations[id])
  BY <1>2, LedgerFields DEF release_reservation, Granted, ClientsInv
<1>4. CASE /\ HoldsNow(r.tag.client)
           /\ reservations[id] = [client |-> r.tag.client, send |-> held[r.tag.client].send]
  BY <1>4 DEF Leaked
<1> QED  BY <1>2, <1>3, <1>4, DeleteTakesItsOwn

(***************************************************************************)
(* The slot of a POST that was given up stays taken until the daemon       *)
(* restarts.                                                               *)
(***************************************************************************)
THEOREM LeakedTheorem == Spec => LeakedUntilRestart
<1> DEFINE Stays == \A id \in DOMAIN reservations :
             Leaked(id) /\ life' = life => id \in DOMAIN reservations' \/ StaleDelete(id)
<1>1. ClientsInv /\ [Next]_vars => [Stays]_vars
  BY LeakedStays
<1>2. Spec => [][Stays]_vars
  <2> HIDE DEF Stays
  <2> QED  BY <1>1, ClientsInvariant, PTL DEF Spec
<1> QED  BY <1>2 DEF LeakedUntilRestart

(***************************************************************************)
(* A POST that was given up stays unanswered: its connection is closed, so *)
(* an answer that its client receives is another's.                        *)
(***************************************************************************)
LEMMA GivenUpStays ==
  ASSUME ClientsInv, Next, life' = life, NEW id \in DOMAIN reservations, Leaked(id),
         id \in DOMAIN reservations', reservations'[id] = reservations[id]
  PROVE  Leaked(id)'
<1> DEFINE tag == reservations[id]
           c == tag.client
<1>1. c \in Clients /\ tag \in Tag /\ tag.send \in Nat
  BY LedgerFields, TagFields DEF ClientsInv
<1>2. sends[c] \in Nat /\ tag.send < sends[c] /\ ~ (HoldsNow(c) /\ held[c].send = tag.send)
  BY <1>1, HeldFields DEF ClientsInv, Leaked, GivenUp
<1>3. sends'[c] \in Nat /\ sends'[c] >= sends[c]
  <2>1. ASSUME NEW d \in Clients, Post(d) \/ Delete(d)
        PROVE  sends'[c] \in Nat /\ sends'[c] >= sends[c]
    BY <1>1, <1>2, <2>1 DEF Post, Delete, Send, ClientsInv, TypeOK
  <2>2. CASE sends' = sends
    BY <1>2, <2>2
  <2> QED
    BY <2>1, <2>2 DEF Next, Serve, create_reservation, ModelCapacityExceeded, release_reservation,
       ReservationNotFound, Answer, LoseRequest, LoseAnswer, Receive, Restart, client
<1>4. held'[c] = held[c] \/ held'[c].send = sends[c]
  <2>1. ASSUME NEW a \in answers, Receive(a)
        PROVE  held'[c] = held[c] \/ held'[c].send = sends[c]
    <3>1. a.tag.client \in Clients /\ a.tag.send = sends[a.tag.client]
      BY AnswerFields, TagFields DEF ClientsInv, AnswerInv
    <3> QED  BY <1>1, <2>1, <3>1 DEF Receive, ClientsInv, TypeOK
  <2>2. CASE held' = held
    BY <2>2
  <2> QED
    BY <2>1, <2>2 DEF Next, Serve, create_reservation, ModelCapacityExceeded, release_reservation,
       ReservationNotFound, Answer, LoseRequest, LoseAnswer, Post, Delete, Send, Restart, client
<1>5. tag.send < sends'[c]
  BY <1>1, <1>2, <1>3
<1>6. ~ (held'[c].send # 0 /\ held'[c].life = life' /\ held'[c].send = tag.send)
  <2>1. CASE held'[c] = held[c]
    BY <1>2, <2>1 DEF HoldsNow
  <2>2. CASE held'[c].send = sends[c]
    BY <1>1, <1>2, <2>2
  <2> QED  BY <1>4, <2>1, <2>2
<1> QED  BY <1>5, <1>6 DEF Leaked, GivenUp, HoldsNow

(***************************************************************************)
(* A model whose slots lost answers have cost, all of them, grants nothing *)
(* for the rest of the daemon's life, but for a DELETE from before it.     *)
(***************************************************************************)
THEOREM StarvedTheorem == Spec => StarvedUntilRestart
<1> DEFINE Stays == Starved /\ life' = life =>
                      Starved' \/ \E id \in DOMAIN reservations : StaleDelete(id)
<1>1. ClientsInv /\ [Next]_vars => [Stays]_vars
  <2> SUFFICES ASSUME ClientsInv, Next, Starved, life' = life,
                      \A id \in DOMAIN reservations : ~ StaleDelete(id)
               PROVE  Starved'
    OBVIOUS
  <2>1. DOMAIN reservations \subseteq DOMAIN reservations'
    BY LeakedStays DEF Starved
  <2>2. ~ Restart
    BY HeldFields, ClientsAssumption DEF Restart, ClientsInv, TypeOK
  <2>3. \A r \in requests : ~ create_reservation(r)
    BY DEF Starved, create_reservation
  <2>4. reservations' = reservations
    <3>1. ASSUME NEW r \in requests, release_reservation(r) PROVE FALSE
      BY <2>1, <3>1 DEF release_reservation
    <3> QED
      BY <2>2, <2>3, <3>1 DEF Next, Post, Delete, Send, Serve, LoseRequest, Receive, LoseAnswer,
         daemon, ModelCapacityExceeded, ReservationNotFound
  <2>5. ~ Free'
    BY <2>4 DEF Starved, Free
  <2>6. ASSUME NEW id \in DOMAIN reservations' PROVE Leaked(id)'
    BY <2>4, GivenUpStays DEF Starved
  <2> QED  BY <2>5, <2>6 DEF Starved
<1>2. Spec => [][Stays]_vars
  <2> HIDE DEF Stays
  <2> QED  BY <1>1, ClientsInvariant, PTL DEF Spec
<1> QED  BY <1>2 DEF StarvedUntilRestart
===============================================================================
