--------------------------- MODULE CapabilityMesh ---------------------------
(***************************************************************************)
(* Several daemons on one mesh: each one's start-up (ComputeDaemon,        *)
(* daemon.rs), the one announcement it publishes, and its subscription     *)
(* loop (mesh.rs).  A start-up step that fails ends the process (every one *)
(* is followed by ?), and a process may crash at any time; either way what *)
(* it knew is gone, since it kept it in memory only.                       *)
(*                                                                         *)
(* Gossip is x0x's: an announcement reaches the daemons that are           *)
(* subscribed when it is published, and may be lost, repeated or overtaken *)
(* on the way.  How a message is received lock by lock is the subject of   *)
(* TrustedPeerRegistry; here apply_message is one step.                    *)
(*                                                                         *)
(* An announcement is known by its agent and the life of the process that  *)
(* made it: two lives may announce different hardware and models.          *)
(***************************************************************************)
EXTENDS Naturals

CONSTANTS
  Daemons,                \* agents, each run by one process at a time
  join_network_on_start,  \* per daemon: its configuration
  announce_on_start,
  require_user_id,
  user_id_bound,          \* per daemon: x0x has a user key for its agent
  mesh_name,              \* per daemon: config.mesh.name
  accepts,                \* per daemon: the agents its contacts and policy accept
  MaxLives                \* how often a process is started: a bound of the model

ASSUME MeshAssumption ==
  /\ join_network_on_start \in [Daemons -> BOOLEAN]
  /\ announce_on_start \in [Daemons -> BOOLEAN]
  /\ require_user_id \in [Daemons -> BOOLEAN]
  /\ user_id_bound \in [Daemons -> BOOLEAN]
  /\ DOMAIN mesh_name = Daemons
  /\ accepts \in [Daemons -> SUBSET Daemons]
  /\ MaxLives \in Nat \ {0}

VARIABLES
  pc,         \* per daemon: how far run has come; "down" without a process
  life,       \* per daemon: how many processes it has had
  listening,  \* per daemon: its subscription task runs
  inbox,      \* per daemon: announcements on the way to its subscription
  peers,      \* per daemon: the life of each agent that its registry lists, 0 if none
  lost        \* pairs <<from, to>> between which gossip has lost an announcement

vars == <<pc, life, listening, inbox, peers, lost>>

Announcement == [from : Daemons, life : 1 .. MaxLives]

\* "created": from_config has returned; "joined", "subscribed": the calls of
\* run have; "ready": about to bind; "serving": in axum::serve.
TypeOK ==
  /\ pc \in [Daemons -> {"down", "created", "joined", "subscribed", "ready", "serving"}]
  /\ life \in [Daemons -> 0 .. MaxLives]
  /\ listening \in [Daemons -> BOOLEAN]
  /\ inbox \in [Daemons -> SUBSET Announcement]
  /\ peers \in [Daemons -> [Daemons -> 0 .. MaxLives]]
  /\ lost \subseteq Daemons \X Daemons

NoPeers == [e \in Daemons |-> 0]

Init ==
  /\ pc = [d \in Daemons |-> "down"]
  /\ life = [d \in Daemons |-> 0]
  /\ listening = [d \in Daemons |-> FALSE]
  /\ inbox = [d \in Daemons |-> {}]
  /\ peers = [d \in Daemons |-> NoPeers]
  /\ lost = {}

(***************************************************************************)
(* Start-up.                                                               *)
(***************************************************************************)
Advance(d, from, to) == pc[d] = from /\ pc' = [pc EXCEPT ![d] = to]

\* build_agent refuses an agent without the user identity its config asks for.
build_agent(d) == require_user_id[d] => user_id_bound[d]

from_config(d) ==
  /\ build_agent(d)
  /\ life[d] < MaxLives
  /\ Advance(d, "down", "created")
  /\ life' = [life EXCEPT ![d] = @ + 1]
  /\ UNCHANGED <<listening, inbox, peers, lost>>

JoinNetwork(d) ==
  /\ join_network_on_start[d]
  /\ Advance(d, "created", "joined")
  /\ UNCHANGED <<life, listening, inbox, peers, lost>>

\* Without the network there is no subscription and no announcement.
StayLocal(d) ==
  /\ ~ join_network_on_start[d]
  /\ Advance(d, "created", "ready")
  /\ UNCHANGED <<life, listening, inbox, peers, lost>>

\* The subscription exists once subscribe has returned, before the task runs.
Subscribe(d) ==
  /\ Advance(d, "joined", "subscribed")
  /\ listening' = [listening EXCEPT ![d] = TRUE]
  /\ UNCHANGED <<life, inbox, peers, lost>>

\* agent.publish: to every live subscription, the daemon's own included.
Publish(d) ==
  inbox' = [e \in Daemons |->
              IF listening[e] THEN inbox[e] \cup {[from |-> d, life |-> life[d]]} ELSE inbox[e]]

\* Mutant of announce_local_capability: it is called before the subscription
\* is made (a daemon that subscribes has then announced itself).
AnnounceFirst(d) ==
  /\ announce_on_start[d]
  /\ \/ pc[d] = "joined" /\ Publish(d) /\ UNCHANGED pc
     \/ Advance(d, "subscribed", "ready") /\ UNCHANGED inbox
  /\ UNCHANGED <<life, listening, peers, lost>>

\* Mutant of announce_local_capability: announce_on_start alone decides.
AnnounceUnjoined(d) ==
  /\ announce_on_start[d]
  /\ Advance(d, "subscribed", "ready") \/ Advance(d, "created", "ready")
  /\ Publish(d)
  /\ UNCHANGED <<life, listening, peers, lost>>

announce_local_capability(d) ==
  /\ announce_on_start[d]
  /\ Advance(d, "subscribed", "ready")
  /\ Publish(d)
  /\ UNCHANGED <<life, listening, peers, lost>>

StaySilent(d) ==
  /\ ~ announce_on_start[d]
  /\ Advance(d, "subscribed", "ready")
  /\ UNCHANGED <<life, listening, inbox, peers, lost>>

\* Mutant of Serve: the daemon announces itself once more when it serves.
ServeAnnounces(d) ==
  /\ Advance(d, "ready", "serving")
  /\ Publish(d)
  /\ UNCHANGED <<life, listening, peers, lost>>

Serve(d) ==
  /\ Advance(d, "ready", "serving")
  /\ UNCHANGED <<life, listening, inbox, peers, lost>>

\* Mutant of Stop: the registry is found again by the next process.
StopKeepsPeers(d) ==
  /\ pc[d] # "down"
  /\ pc' = [pc EXCEPT ![d] = "down"]
  /\ listening' = [listening EXCEPT ![d] = FALSE]
  /\ inbox' = [inbox EXCEPT ![d] = {}]
  /\ UNCHANGED <<life, peers, lost>>

\* A step of run fails (bind, for one, after the announcement), or the
\* process crashes.
Stop(d) ==
  /\ pc[d] # "down"
  /\ pc' = [pc EXCEPT ![d] = "down"]
  /\ listening' = [listening EXCEPT ![d] = FALSE]
  /\ inbox' = [inbox EXCEPT ![d] = {}]
  /\ peers' = [peers EXCEPT ![d] = NoPeers]
  /\ UNCHANGED <<life, lost>>

(***************************************************************************)
(* The subscription loop, and what gossip does to its messages.            *)
(***************************************************************************)
\* The announcement is another agent's, for this mesh, and trusted.
Accepted(d, e) == e # d /\ mesh_name[e] = mesh_name[d] /\ e \in accepts[d]

apply_message(d, msg) ==
  peers' = IF Accepted(d, msg.from)
           THEN [peers EXCEPT ![d][msg.from] = msg.life] ELSE peers

\* recv gives any announcement that is under way; a copy may still follow.
Receive(d, msg) ==
  /\ listening[d]
  /\ msg \in inbox[d]
  /\ apply_message(d, msg)
  /\ inbox' \in {inbox, [inbox EXCEPT ![d] = @ \ {msg}]}
  /\ UNCHANGED <<pc, life, listening, lost>>

Lose(d, msg) ==
  /\ msg \in inbox[d]
  /\ inbox' = [inbox EXCEPT ![d] = @ \ {msg}]
  /\ lost' = lost \cup {<<msg.from, d>>}
  /\ UNCHANGED <<pc, life, listening, peers>>

\* recv returns None: the task ends and the daemon goes on without it.
SubscriptionEnds(d) ==
  /\ listening[d]
  /\ listening' = [listening EXCEPT ![d] = FALSE]
  /\ inbox' = [inbox EXCEPT ![d] = {}]
  /\ UNCHANGED <<pc, life, peers, lost>>

(***************************************************************************)
(* The specification.                                                      *)
(***************************************************************************)
Startup(d) ==
  \/ JoinNetwork(d) \/ StayLocal(d) \/ Subscribe(d)
  \/ announce_local_capability(d) \/ StaySilent(d) \/ Serve(d)

Next ==
  \E d \in Daemons :
    \/ from_config(d) \/ Startup(d) \/ Stop(d) \/ SubscriptionEnds(d)
    \/ \E msg \in inbox[d] : Receive(d, msg) \/ Lose(d, msg)

Spec == Init /\ [][Next]_vars

\* A process goes on with its start-up, and an announcement that stays under
\* way is received.  Nobody has to start a daemon.
Fairness ==
  \A d \in Daemons :
    /\ WF_vars(Startup(d))
    /\ \A msg \in Announcement : WF_vars(Receive(d, msg))

FairSpec == Spec /\ Fairness

(***************************************************************************)
(* Properties.                                                             *)
(***************************************************************************)
Knows(d, e) == peers[d][e] # 0

OnItsWay(d, e) == \E msg \in inbox[d] : msg.from = e

Announced(d) ==
  pc[d] \in {"ready", "serving"} /\ join_network_on_start[d] /\ announce_on_start[d]

\* Two daemons that accept each other, have announced themselves, still
\* listen, and between which gossip has lost nothing.
Neighbours(d, e) ==
  /\ Accepted(d, e) /\ Accepted(e, d)
  /\ Announced(d) /\ Announced(e)
  /\ listening[d] /\ listening[e]
  /\ lost \cap {<<d, e>>, <<e, d>>} = {}

\* run subscribes before it announces, so of two neighbours the one that
\* announced first already heard the other: once nothing is on its way
\* between them, at least one lists the other, however their starts interleave.
PairDiscovered ==
  \A d, e \in Daemons :
    Neighbours(d, e) /\ ~ OnItsWay(d, e) /\ ~ OnItsWay(e, d) => Knows(d, e) \/ Knows(e, d)

\* What its configuration keeps a daemon from: it is listed only where it is
\* accepted, and only if it joins, announces, and has the user identity it
\* requires; it lists others only while a process of its own has subscribed.
OnlyMembersAreListed ==
  \A d, e \in Daemons :
    Knows(d, e) =>
      /\ Accepted(d, e)
      /\ join_network_on_start[e] /\ announce_on_start[e] /\ build_agent(e)
      /\ peers[d][e] <= life[e]
      /\ join_network_on_start[d] /\ pc[d] \in {"subscribed", "ready", "serving"}

\* A process has come as far as its configuration lets it.
StartedInOrder ==
  \A d \in Daemons :
    /\ pc[d] # "down" => build_agent(d) /\ life[d] > 0
    /\ pc[d] \in {"joined", "subscribed"} \/ listening[d] => join_network_on_start[d]
    /\ listening[d] => pc[d] \in {"subscribed", "ready", "serving"}

\* What is on its way goes to a subscription, and a daemon announced it.
MessagesAreGenuine ==
  \A d \in Daemons : \A msg \in inbox[d] :
    /\ listening[d]
    /\ join_network_on_start[msg.from] /\ announce_on_start[msg.from]
    /\ build_agent(msg.from) /\ msg.life <= life[msg.from]

\* Of two neighbours one has at least been told of the other.
OneWasTold ==
  \A d, e \in Daemons :
    Neighbours(d, e) => Knows(d, e) \/ OnItsWay(d, e) \/ Knows(e, d) \/ OnItsWay(e, d)

\* The inductive invariant.
MeshInv ==
  /\ TypeOK
  /\ StartedInOrder
  /\ MessagesAreGenuine
  /\ OnlyMembersAreListed
  /\ OneWasTold

\* e's process is past its one announcement, or gone; d does not list e, and
\* nothing that e published is on its way to d.
Missed(d, e) ==
  pc[e] \in {"down", "ready", "serving"} /\ ~ Knows(d, e) /\ ~ OnItsWay(d, e)

\* run announces once: a daemon that missed the announcement of e (it
\* subscribed later, gossip lost it, it restarted) does not learn of e from
\* anybody, whatever either of them and the others do, until e is restarted.
MissedUntilRestart ==
  [][\A d, e \in Daemons :
       Missed(d, e) /\ life'[e] = life[e] => Missed(d, e)']_vars

\* Two daemons that stay neighbours: one of them comes to list the other.
NeighboursMeet ==
  \A d, e \in Daemons : <>[]Neighbours(d, e) => <>(Knows(d, e) \/ Knows(e, d))

\* "keeps the in-memory peer registry updated", with announcements at
\* resource_announce_interval_secs: both come to list each other.
NeighboursMeetBothWays ==
  \A d, e \in Daemons : <>[]Neighbours(d, e) => <>(Knows(d, e) /\ Knows(e, d))
=============================================================================
