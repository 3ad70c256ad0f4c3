-------------------------- MODULE ReservationClients --------------------------
(***************************************************************************)
(* Clients of the reservation API (daemon.rs, runtime.rs) and a daemon     *)
(* that restarts.  Requests and answers may be lost; a client that waits   *)
(* too long sends again on a new connection, while the request it gave up  *)
(* may still be served.  A restart empties the ledger and starts the ids   *)
(* at 1 again: SkeletonRuntimeState is in memory only.                     *)
(*                                                                         *)
(* SkeletonRuntime shows that an operation takes effect at one instant, so *)
(* here each is one step; every request is for one slot of one model       *)
(* (default_requested_slots).  Clients are not part of the repository:     *)
(* each one reserves, releases what it was granted, and retries.  A        *)
(* reservation is known by the request that made it.                       *)
(***************************************************************************)
EXTENDS Naturals, FiniteSets

CONSTANTS
  Clients,
  max_parallel_reservations,  \* of the model
  MaxLives,                   \* bounds of the model: processes of the daemon,
  MaxSends                    \* and requests of a client

ASSUME ClientsAssumption ==
  /\ max_parallel_reservations \in Nat
  /\ MaxLives \in Nat \ {0}
  /\ MaxSends \in Nat

VARIABLES
  life,                 \* which process of the daemon runs
  next_reservation_id,  \* its SkeletonRuntimeState
  reservations,
  requests,             \* requests under way
  answers,              \* answers under way
  pc,                   \* per client: where it is
  sends,                \* per client: how many requests it has sent
  held                  \* per client: the reservation it was answered

daemon == <<life, next_reservation_id, reservations>>
network == <<requests, answers>>
client == <<pc, sends, held>>
vars == <<daemon, network, client>>

Sends == 1 .. MaxSends

\* Every POST that is served grants at most one id.
Ids == Nat \ {0}

Tag == [client : Clients, send : Sends]

\* reservation_id is 0 in a POST.
ClientRequest == [op : {"POST", "DELETE"}, tag : Tag, reservation_id : Nat]

ClientAnswer == [status : {201, 204, 404, 409}, tag : Tag, reservation_id : Nat, life : 1 .. MaxLives]

\* What a client holds: an id, the POST it answers and the life that granted it.
Held == [reservation_id : Nat, send : 0 .. MaxSends, life : 0 .. MaxLives]

Nothing == [reservation_id |-> 0, send |-> 0, life |-> 0]

TypeOK ==
  /\ life \in 1 .. MaxLives
  /\ next_reservation_id \in Nat
  /\ reservations \in [DOMAIN reservations -> Tag] /\ DOMAIN reservations \subseteq Ids
  /\ requests \subseteq ClientRequest
  /\ answers \subseteq ClientAnswer
  /\ pc \in [Clients -> {"idle", "creating", "holding", "releasing", "done"}]
  /\ sends \in [Clients -> 0 .. MaxSends]
  /\ held \in [Clients -> Held]

Init ==
  /\ life = 1
  /\ next_reservation_id = 0
  /\ reservations = [id \in {} |-> 0]
  /\ requests = {}
  /\ answers = {}
  /\ pc = [c \in Clients |-> "idle"]
  /\ sends = [c \in Clients |-> 0]
  /\ held = [c \in Clients |-> Nothing]

(***************************************************************************)
(* Clients.                                                                *)
(***************************************************************************)
\* A new connection; an answer on an older one finds nobody.
Send(c, op, id) ==
  /\ sends[c] < MaxSends
  /\ sends' = [sends EXCEPT ![c] = @ + 1]
  /\ requests' = requests \cup {[op |-> op, tag |-> [client |-> c, send |-> sends[c] + 1],
                                 reservation_id |-> id]}
  /\ answers' = {a \in answers : a.tag.client # c}
  /\ UNCHANGED <<daemon, held>>

\* The first POST, or one more for want of an answer or of a free slot.
Post(c) ==
  /\ pc[c] \in {"idle", "creating"}
  /\ pc' = [pc EXCEPT ![c] = "creating"]
  /\ Send(c, "POST", 0)

Delete(c) ==
  /\ pc[c] \in {"holding", "releasing"}
  /\ pc' = [pc EXCEPT ![c] = "releasing"]
  /\ Send(c, "DELETE", held[c].reservation_id)

Receive(a) ==
  LET c == a.tag.client IN
    /\ answers' = answers \ {a}
    /\ pc' = [pc EXCEPT ![c] = CASE a.status = 201 -> "holding"
                                 [] a.status = 409 -> "idle"
                                 [] OTHER          -> "done"]
    /\ held' = IF a.status = 201
               THEN [held EXCEPT ![c] = [reservation_id |-> a.reservation_id,
                                         send |-> a.tag.send, life |-> a.life]]
               ELSE held
    /\ UNCHANGED <<daemon, requests, sends>>

LoseRequest(r) ==
  /\ requests' = requests \ {r}
  /\ UNCHANGED <<daemon, answers, client>>

LoseAnswer(a) ==
  /\ answers' = answers \ {a}
  /\ UNCHANGED <<daemon, requests, client>>

(***************************************************************************)
(* The daemon.                                                             *)
(***************************************************************************)
\* The request is served; its answer goes to the connection it came on.
Answer(r, status, id) ==
  /\ requests' = requests \ {r}
  /\ answers' = IF r.tag.send = sends[r.tag.client]
                THEN answers \cup {[status |-> status, tag |-> r.tag,
                                    reservation_id |-> id, life |-> life]}
                ELSE answers
  /\ UNCHANGED <<life, client>>

Free == Cardinality(DOMAIN reservations) < max_parallel_reservations

Insert(r, id) ==
  reservations' = [k \in DOMAIN reservations \cup {id} |->
                     IF k = id THEN r.tag ELSE reservations[k]]

\* Mutant of create_reservation: the lowest free number is the id.
CreateReusingIds(r) ==
  LET id == CHOOSE i \in 1 .. next_reservation_id + 1 :
              /\ i \notin DOMAIN reservations
              /\ \A j \in 1 .. i - 1 : j \in DOMAIN reservations
  IN  /\ r.op = "POST" /\ Free
      /\ next_reservation_id' = next_reservation_id + 1
      /\ Insert(r, id)
      /\ Answer(r, 201, id)

create_reservation(r) ==
  LET id == next_reservation_id + 1 IN
    /\ r.op = "POST" /\ Free
    /\ next_reservation_id' = id
    /\ Insert(r, id)
    /\ Answer(r, 201, id)

ModelCapacityExceeded(r) ==
  /\ r.op = "POST" /\ ~ Free
  /\ Answer(r, 409, 0)
  /\ UNCHANGED <<next_reservation_id, reservations>>

\* Mutant of release_reservation: get where the code has remove.
ReleaseKeepsSlot(r) ==
  /\ r.op = "DELETE" /\ r.reservation_id \in DOMAIN reservations
  /\ Answer(r, 204, r.reservation_id)
  /\ UNCHANGED <<next_reservation_id, reservations>>

release_reservation(r) ==
  /\ r.op = "DELETE" /\ r.reservation_id \in DOMAIN reservations
  /\ reservations' = [k \in DOMAIN reservations \ {r.reservation_id} |-> reservations[k]]
  /\ Answer(r, 204, r.reservation_id)
  /\ UNCHANGED next_reservation_id

ReservationNotFound(r) ==
  /\ r.op = "DELETE" /\ r.reservation_id \notin DOMAIN reservations
  /\ Answer(r, 404, r.reservation_id)
  /\ UNCHANGED <<next_reservation_id, reservations>>

\* Mutant of Restart: the ledger is kept, the counter is not.
RestartKeepsLedger ==
  /\ life < MaxLives
  /\ life' = life + 1
  /\ next_reservation_id' = 0
  /\ UNCHANGED <<reservations, network, client>>

\* The process ends and from_config builds a new runtime.
Restart ==
  /\ life < MaxLives
  /\ life' = life + 1
  /\ next_reservation_id' = 0
  /\ reservations' = [id \in {} |-> 0]
  /\ UNCHANGED <<network, client>>

(***************************************************************************)
(* The specification.                                                      *)
(***************************************************************************)
Serve(r) ==
  \/ create_reservation(r) \/ ModelCapacityExceeded(r)
  \/ release_reservation(r) \/ ReservationNotFound(r)

Next ==
  \/ \E c \in Clients : Post(c) \/ Delete(c)
  \/ \E r \in requests : Serve(r) \/ LoseRequest(r)
  \/ \E a \in answers : Receive(a) \/ LoseAnswer(a)
  \/ Restart

Spec == Init /\ [][Next]_vars

(***************************************************************************)
(* Properties.                                                             *)
(***************************************************************************)

\* The client has been granted, by the process that runs now.
HoldsNow(c) == held[c].send # 0 /\ held[c].life = life

\* A client from before the restart has sent a DELETE for this id.
StaleDelete(id) ==
  \E d \in Clients :
    pc[d] \in {"releasing", "done"} /\ held[d].reservation_id = id /\ held[d].life < life

\* A client that was answered 201 since the daemon started, and has not sent
\* a DELETE, has its reservation in the ledger, whatever is lost, repeated or
\* late.  The one exception is a DELETE from before the restart for the same
\* number: ids start again at 1, so it releases what is not its sender's.
HeldUnlessStaleDelete ==
  \A c \in Clients :
    pc[c] = "holding" /\ HoldsNow(c) =>
      \/ /\ held[c].reservation_id \in DOMAIN reservations
         /\ reservations[held[c].reservation_id] = [client |-> c, send |-> held[c].send]
      \/ StaleDelete(held[c].reservation_id)

\* The client no longer waits for an answer to this request.
GivenUp(tag) == tag.send < sends[tag.client]

\* The slot is its client's, which has not been told that it is free, or that
\* of a POST which was given up or still waits for its answer.
AccountedFor(id, tag) ==
  LET c == tag.client IN
    IF HoldsNow(c) /\ held[c].send = tag.send
    THEN held[c].reservation_id = id /\ pc[c] \in {"holding", "releasing"}
    ELSE GivenUp(tag) \/ pc[c] = "creating"

\* A slot that is taken is one that its client knows of and has not been told
\* is free, or the work of a POST that was given up or still waits for its
\* answer: each lost answer costs at most one slot, and only a lost answer does.
SlotsAreAccountedFor == \A id \in DOMAIN reservations : AccountedFor(id, reservations[id])

\* The POST of a reservation was given up, and its client was not answered.
Leaked(id) ==
  LET tag == reservations[id] IN
    GivenUp(tag) /\ ~ (HoldsNow(tag.client) /\ held[tag.client].send = tag.send)

\* The slot of a POST that was given up stays taken until the daemon restarts:
\* nothing expires it, and no DELETE of this life, late or repeated, names it.
LeakedUntilRestart ==
  [][\A id \in DOMAIN reservations :
       Leaked(id) /\ life' = life => id \in DOMAIN reservations' \/ StaleDelete(id)]_vars

\* The model is full, and no client can name any of its slots.
Starved == ~ Free /\ \A id \in DOMAIN reservations : Leaked(id)

\* Once lost answers have cost every slot of a model, no POST is granted and
\* no slot comes back, whatever clients send, until the daemon restarts; only
\* a DELETE from before a restart may happen to name such a slot.
StarvedUntilRestart ==
  [][Starved /\ life' = life =>
       Starved' \/ \E id \in DOMAIN reservations : StaleDelete(id)]_vars

(***************************************************************************)
(* The inductive invariant: requests are served once, and ids and served   *)
(* requests of one life correspond one to one, wherever a grant still      *)
(* shows: in the ledger, in an answer under way, or with its client.       *)
(***************************************************************************)
Granted(id, tag) ==
  \/ id \in DOMAIN reservations /\ reservations[id] = tag
  \/ \E a \in answers :
       a.status = 201 /\ a.life = life /\ a.reservation_id = id /\ a.tag = tag
  \/ /\ HoldsNow(tag.client)
     /\ held[tag.client].reservation_id = id /\ held[tag.client].send = tag.send

GrantsAreUnique ==
  \A i \in 1 .. next_reservation_id, s \in Tag :
    Granted(i, s) =>
      \A j \in 1 .. next_reservation_id, t \in Tag : Granted(j, t) => (i = j <=> s = t)

InLedger(tag) == \E id \in DOMAIN reservations : reservations[id] = tag

\* The client is past its release: its reservation is gone.
Released(c) == HoldsNow(c) => ~ InLedger([client |-> c, send |-> held[c].send])

LedgerInv ==
  \A id \in DOMAIN reservations :
    id <= next_reservation_id /\ reservations[id].send <= sends[reservations[id].client]

RequestInv(r) ==
  LET c == r.tag.client IN
    /\ r.tag.send <= sends[c]
    /\ \A q \in requests : q.tag = r.tag => q = r
    /\ ~ InLedger(r.tag) /\ (\A a \in answers : a.tag # r.tag) /\ held[c].send # r.tag.send
    /\ r.op = "POST" /\ r.tag.send = sends[c] => pc[c] = "creating"
    /\ r.op = "DELETE" /\ r.tag.send = sends[c] => pc[c] = "releasing"
    /\ r.op = "DELETE" => /\ pc[c] \in {"releasing", "done"}
                          /\ r.reservation_id = held[c].reservation_id

AnswerInv(a) ==
  LET c == a.tag.client IN
    /\ a.tag.send = sends[c] /\ a.life <= life
    /\ \A b \in answers : b.tag = a.tag => b = a
    /\ pc[c] = IF a.status \in {201, 409} THEN "creating" ELSE "releasing"
    /\ a.status = 201 /\ a.life = life =>
         /\ a.reservation_id \in 1 .. next_reservation_id
         /\ \/ a.reservation_id \in DOMAIN reservations /\ reservations[a.reservation_id] = a.tag
            \/ StaleDelete(a.reservation_id)
    /\ a.status # 201 \/ a.life < life => ~ InLedger(a.tag)
    /\ a.status \in {204, 404} => Released(c)

HolderInv(c) ==
  /\ pc[c] \in {"idle", "creating"} <=> held[c].send = 0
  /\ held[c].send <= sends[c] /\ held[c].life <= life
  /\ HoldsNow(c) => held[c].reservation_id \in 1 .. next_reservation_id
  /\ held[c].life < life => ~ InLedger([client |-> c, send |-> held[c].send])
  /\ pc[c] = "done" => Released(c)

ClientsInv ==
  /\ TypeOK
  /\ LedgerInv
  /\ \A r \in requests : RequestInv(r)
  /\ \A a \in answers : AnswerInv(a)
  /\ \A c \in Clients : HolderInv(c)
  /\ GrantsAreUnique
  /\ HeldUnlessStaleDelete
  /\ SlotsAreAccountedFor
===============================================================================
