------------------------ MODULE CapabilityMeshProofs ------------------------
(***************************************************************************)
(* The mesh for any number of daemons, configurations and restarts: what   *)
(* a registry lists, and that of two neighbours one was told of the other. *)
(***************************************************************************)
EXTENDS CapabilityMesh, TLAPS

\* Before any process is started.
LEMMA MeshInvInit == Init => MeshInv
<1> SUFFICES ASSUME Init PROVE MeshInv
  OBVIOUS
<1>1. TypeOK
  BY MeshAssumption DEF Init, TypeOK, NoPeers
<1>2. StartedInOrder /\ MessagesAreGenuine /\ OnlyMembersAreListed /\ OneWasTold
  BY DEF Init, StartedInOrder, MessagesAreGenuine, OnlyMembersAreListed, OneWasTold,
         Neighbours, Announced, Knows, NoPeers
<1> QED  BY <1>1, <1>2 DEF MeshInv

\* A step of start-up that neither publishes nor subscribes.
LEMMA LocalStepPreserves ==
  ASSUME MeshInv, NEW d \in Daemons,
         from_config(d) \/ JoinNetwork(d) \/ StayLocal(d) \/ StaySilent(d) \/ Serve(d)
  PROVE  MeshInv'
<1> USE DEF MeshInv
<1>1. /\ UNCHANGED <<listening, inbox, peers, lost>>
      /\ \A e \in Daemons : e # d => pc'[e] = pc[e] /\ life'[e] = life[e]
      /\ life'[d] >= life[d] /\ life'[d] \in 0 .. MaxLives
      /\ TypeOK'
  <2>1. UNCHANGED <<listening, inbox, peers, lost>>
    BY DEF from_config, JoinNetwork, StayLocal, StaySilent, Serve
  <2>2. PICK to \in {"created", "joined", "ready", "serving"} : pc' = [pc EXCEPT ![d] = to]
    BY DEF from_config, JoinNetwork, StayLocal, StaySilent, Serve, Advance
  <2>3. PICK n \in 0 .. MaxLives : n >= life[d] /\ life' = [life EXCEPT ![d] = n]
    <3>1. life \in [Daemons -> 0 .. MaxLives] /\ MaxLives \in Nat
      BY MeshAssumption DEF TypeOK
    <3>2. CASE from_config(d)
      <4>1. life[d] + 1 \in 0 .. MaxLives /\ life' = [life EXCEPT ![d] = life[d] + 1]
        BY <3>1, <3>2 DEF from_config
      <4>2. life[d] + 1 >= life[d]
        BY <3>1
      <4> QED  BY <4>1, <4>2
    <3>3. CASE life' = life
      <4>1. life[d] \in 0 .. MaxLives /\ life[d] >= life[d] /\ life' = [life EXCEPT ![d] = life[d]]
        BY <3>1, <3>3
      <4> QED  BY <4>1
    <3> QED  BY <3>2, <3>3 DEF JoinNetwork, StayLocal, StaySilent, Serve
  <2>4. TypeOK'
    BY <2>1, <2>2, <2>3 DEF TypeOK
  <2> QED  BY <2>1, <2>2, <2>3, <2>4 DEF TypeOK
<1>2. StartedInOrder'
  BY <1>1, MeshAssumption DEF from_config, JoinNetwork, StayLocal, StaySilent, Serve, Advance,
     TypeOK, StartedInOrder, build_agent
<1>3. \A e \in Daemons : life'[e] >= life[e] /\ life[e] \in Nat /\ life'[e] \in Nat
  BY <1>1, MeshAssumption DEF TypeOK
<1>4. MessagesAreGenuine'
  <2> SUFFICES ASSUME NEW e \in Daemons, NEW msg \in inbox'[e]
               PROVE  /\ listening'[e]
                      /\ join_network_on_start[msg.from] /\ announce_on_start[msg.from]
                      /\ build_agent(msg.from) /\ msg.life <= life'[msg.from]
    BY DEF MessagesAreGenuine, build_agent
  <2>1. msg \in inbox[e] /\ msg.from \in Daemons /\ msg.life \in Nat
    BY <1>1, MeshAssumption DEF TypeOK, Announcement
  <2> QED  BY <1>1, <1>3, <2>1 DEF MessagesAreGenuine
<1>5. OnlyMembersAreListed'
  <2>1. \A e \in Daemons : pc[e] \in {"subscribed", "ready", "serving"}
                             => pc'[e] \in {"subscribed", "ready", "serving"}
    BY <1>1 DEF from_config, JoinNetwork, StayLocal, StaySilent, Serve, Advance, TypeOK
  <2>2. \A e, f \in Daemons : peers[e][f] \in Nat
    BY MeshAssumption DEF TypeOK
  <2> QED  BY <1>1, <1>3, <2>1, <2>2 DEF OnlyMembersAreListed, Knows, Accepted, build_agent
<1>6. OneWasTold'
  <2>1. \A e \in Daemons : Announced(e)' /\ listening[e] => Announced(e)
    BY <1>1 DEF from_config, JoinNetwork, StayLocal, StaySilent, Serve, Advance, TypeOK, Announced,
       StartedInOrder
  <2> QED  BY <1>1, <2>1 DEF OneWasTold, Neighbours, Knows, OnItsWay, Accepted
<1> QED  BY <1>1, <1>2, <1>4, <1>5, <1>6

\* subscribe: the daemon has not announced itself in this life, so it is
\* nobody's neighbour yet.
LEMMA SubscribePreserves ==
  ASSUME MeshInv, NEW d \in Daemons, Subscribe(d)
  PROVE  MeshInv'
<1> USE DEF MeshInv
<1>1. /\ UNCHANGED <<life, inbox, peers, lost>>
      /\ pc[d] = "joined" /\ pc' = [pc EXCEPT ![d] = "subscribed"]
      /\ listening' = [listening EXCEPT ![d] = TRUE]
  BY DEF Subscribe, Advance
<1>2. TypeOK'
  BY <1>1 DEF TypeOK
<1>3. StartedInOrder'
  BY <1>1 DEF TypeOK, StartedInOrder, build_agent
<1>4. MessagesAreGenuine'
  BY <1>1 DEF TypeOK, MessagesAreGenuine, build_agent
<1>5. OnlyMembersAreListed'
  BY <1>1 DEF TypeOK, OnlyMembersAreListed, Knows, Accepted, build_agent
<1>6. OneWasTold'
  BY <1>1 DEF TypeOK, OneWasTold, Neighbours, Announced, Knows, OnItsWay, Accepted
<1> QED  BY <1>2, <1>3, <1>4, <1>5, <1>6

\* announce_local_capability: whoever is a neighbour of d afterwards listens,
\* and so has just been sent the announcement.
LEMMA AnnouncePreserves ==
  ASSUME MeshInv, NEW d \in Daemons, announce_local_capability(d)
  PROVE  MeshInv'
<1> USE DEF MeshInv
<1> DEFINE msg == [from |-> d, life |-> life[d]]
<1>1. /\ UNCHANGED <<life, listening, peers, lost>>
      /\ announce_on_start[d]
      /\ pc[d] = "subscribed" /\ pc' = [pc EXCEPT ![d] = "ready"]
      /\ inbox' = [e \in Daemons |-> IF listening[e] THEN inbox[e] \cup {msg} ELSE inbox[e]]
  BY DEF announce_local_capability, Advance, Publish
<1>2. join_network_on_start[d] /\ build_agent(d) /\ life[d] \in 1 .. MaxLives
  BY <1>1, MeshAssumption DEF StartedInOrder, TypeOK
<1>3. msg \in Announcement
  BY <1>2 DEF Announcement
<1>4. TypeOK'
  BY <1>1, <1>3 DEF TypeOK
<1>5. StartedInOrder'
  BY <1>1 DEF TypeOK, StartedInOrder, build_agent
<1>6. MessagesAreGenuine'
  <2> SUFFICES ASSUME NEW e \in Daemons, NEW m \in inbox'[e]
               PROVE  /\ listening[e]
                      /\ join_network_on_start[m.from] /\ announce_on_start[m.from]
                      /\ build_agent(m.from) /\ m.life <= life[m.from]
    BY <1>1 DEF MessagesAreGenuine, build_agent
  <2>1. CASE m \in inbox[e]
    BY <2>1 DEF MessagesAreGenuine
  <2>2. CASE m = msg /\ listening[e]
    BY <1>1, <1>2, <2>2
  <2> QED  BY <1>1, <2>1, <2>2
<1>7. OnlyMembersAreListed'
  BY <1>1 DEF TypeOK, OnlyMembersAreListed, Knows, Accepted, build_agent
<1>8. OneWasTold'
  <2> SUFFICES ASSUME NEW e \in Daemons, NEW f \in Daemons, Neighbours(e, f)'
               PROVE  (Knows(e, f) \/ OnItsWay(e, f) \/ Knows(f, e) \/ OnItsWay(f, e))'
    BY DEF OneWasTold
  <2>1. \A x \in Daemons : inbox[x] \subseteq inbox'[x]
    BY <1>1
  <2>2. listening[e] /\ listening[f]
    BY <1>1 DEF Neighbours
  <2>3. CASE e # d /\ f # d
    <3>1. Neighbours(e, f)
      BY <1>1, <2>3 DEF Neighbours, Announced, Accepted, TypeOK
    <3> QED  BY <1>1, <2>1, <3>1 DEF OneWasTold, Knows, OnItsWay
  <2>4. CASE e = d
    <3>1. msg \in inbox'[f]
      BY <1>1, <2>2
    <3> QED  BY <2>4, <3>1 DEF OnItsWay
  <2>5. CASE f = d
    <3>1. msg \in inbox'[e]
      BY <1>1, <2>2
    <3> QED  BY <2>5, <3>1 DEF OnItsWay
  <2> QED  BY <2>3, <2>4, <2>5
<1> QED  BY <1>4, <1>5, <1>6, <1>7, <1>8

\* A process ends: it has no neighbours and knows nobody.
LEMMA StopPreserves ==
  ASSUME MeshInv, NEW d \in Daemons, Stop(d)
  PROVE  MeshInv'
<1> USE DEF MeshInv
<1>1. /\ UNCHANGED <<life, lost>>
      /\ pc' = [pc EXCEPT ![d] = "down"]
      /\ listening' = [listening EXCEPT ![d] = FALSE]
      /\ inbox' = [inbox EXCEPT ![d] = {}]
      /\ peers' = [peers EXCEPT ![d] = NoPeers]
  BY DEF Stop
<1>2. NoPeers \in [Daemons -> 0 .. MaxLives] /\ \A e \in Daemons : NoPeers[e] = 0
  BY MeshAssumption DEF NoPeers
<1>3. TypeOK'
  BY <1>1, <1>2 DEF TypeOK
<1>4. StartedInOrder'
  BY <1>1 DEF TypeOK, StartedInOrder, build_agent
<1>5. MessagesAreGenuine'
  BY <1>1 DEF TypeOK, MessagesAreGenuine, build_agent
<1>6. OnlyMembersAreListed'
  BY <1>1, <1>2 DEF TypeOK, OnlyMembersAreListed, Knows, Accepted, build_agent
<1>7. OneWasTold'
  BY <1>1 DEF TypeOK, OneWasTold, Neighbours, Announced, Knows, OnItsWay, Accepted
<1> QED  BY <1>3, <1>4, <1>5, <1>6, <1>7

\* A subscription ends: the daemon has no neighbours any more.
LEMMA SubscriptionEndsPreserves ==
  ASSUME MeshInv, NEW d \in Daemons, SubscriptionEnds(d)
  PROVE  MeshInv'
<1> USE DEF MeshInv
<1>1. /\ UNCHANGED <<pc, life, peers, lost>>
      /\ listening' = [listening EXCEPT ![d] = FALSE]
      /\ inbox' = [inbox EXCEPT ![d] = {}]
  BY DEF SubscriptionEnds
<1>2. TypeOK'
  BY <1>1 DEF TypeOK
<1>3. StartedInOrder' /\ MessagesAreGenuine'
  BY <1>1 DEF TypeOK, StartedInOrder, MessagesAreGenuine, build_agent
<1>4. OnlyMembersAreListed'
  BY <1>1 DEF OnlyMembersAreListed, Knows, Accepted, build_agent
<1>5. OneWasTold'
  BY <1>1 DEF TypeOK, OneWasTold, Neighbours, Announced, Knows, OnItsWay, Accepted
<1> QED  BY <1>2, <1>3, <1>4, <1>5

\* apply_message: an accepted announcement that was under way between two
\* neighbours is listed before it leaves the inbox.
LEMMA ReceivePreserves ==
  ASSUME MeshInv, NEW d \in Daemons, NEW msg \in inbox[d], Receive(d, msg)
  PROVE  MeshInv'
<1> USE DEF MeshInv
<1>1. /\ UNCHANGED <<pc, life, listening, lost>>
      /\ listening[d] /\ apply_message(d, msg)
      /\ inbox' = inbox \/ inbox' = [inbox EXCEPT ![d] = @ \ {msg}]
  BY DEF Receive
<1>2. msg.from \in Daemons /\ msg.life \in 1 .. MaxLives
  BY DEF TypeOK, Announcement
<1>3. TypeOK'
  <2>1. inbox' \in [Daemons -> SUBSET Announcement]
    BY <1>1 DEF TypeOK
  <2>2. peers' \in [Daemons -> [Daemons -> 0 .. MaxLives]]
    BY <1>1, <1>2, MeshAssumption DEF TypeOK, apply_message
  <2> QED  BY <1>1, <2>1, <2>2 DEF TypeOK
<1>4. \A e \in Daemons : inbox'[e] \subseteq inbox[e] /\ \A m \in inbox[e] : m = msg \/ m \in inbox'[e]
  BY <1>1 DEF TypeOK
<1>5. \A e \in Daemons : e # d => inbox'[e] = inbox[e]
  BY <1>1 DEF TypeOK
<1>6. StartedInOrder'
  BY <1>1 DEF StartedInOrder, build_agent
<1>7. MessagesAreGenuine'
  BY <1>1, <1>4 DEF MessagesAreGenuine, build_agent
<1>8. \A e, f \in Daemons : peers'[e][f] # peers[e][f]
                              => e = d /\ f = msg.from /\ Accepted(d, f) /\ peers'[e][f] = msg.life
  BY <1>1, <1>2 DEF apply_message, TypeOK
<1>9. OnlyMembersAreListed'
  <2> SUFFICES ASSUME NEW e \in Daemons, NEW f \in Daemons, peers'[e][f] # 0
               PROVE  /\ Accepted(e, f)
                      /\ join_network_on_start[f] /\ announce_on_start[f] /\ build_agent(f)
                      /\ peers'[e][f] <= life[f]
                      /\ join_network_on_start[e] /\ pc[e] \in {"subscribed", "ready", "serving"}
    BY <1>1 DEF OnlyMembersAreListed, Knows, Accepted, build_agent
  <2>1. CASE peers'[e][f] = peers[e][f]
    BY <2>1 DEF OnlyMembersAreListed, Knows
  <2>2. CASE peers'[e][f] # peers[e][f]
    <3>1. e = d /\ f = msg.from /\ Accepted(d, f) /\ peers'[e][f] = msg.life
      BY <1>8, <2>2
    <3> QED  BY <1>1, <3>1 DEF MessagesAreGenuine, StartedInOrder
  <2> QED  BY <2>1, <2>2
<1>10. OneWasTold'
  <2>1. \A e, f \in Daemons : Neighbours(e, f)' => Neighbours(e, f)
    BY <1>1 DEF Neighbours, Announced, Accepted
  <2>2. \A e, f \in Daemons : Knows(e, f) => Knows(e, f)'
    BY <1>2, <1>8, MeshAssumption DEF Knows
  <2>3. ASSUME NEW e \in Daemons, NEW f \in Daemons, OnItsWay(e, f), Accepted(e, f)
        PROVE  (OnItsWay(e, f) \/ Knows(e, f))'
    <3>1. PICK m \in inbox[e] : m.from = f
      BY <2>3 DEF OnItsWay
    <3>2. CASE m \in inbox'[e]
      BY <3>1, <3>2 DEF OnItsWay
    <3>3. CASE m \notin inbox'[e]
      <4>1. e = d /\ m = msg
        BY <1>4, <1>5, <3>3
      <4>2. peers'[d][msg.from] = msg.life
        BY <1>1, <1>2, <2>3, <3>1, <4>1 DEF apply_message, TypeOK
      <4>3. msg.life # 0
        BY <1>2, MeshAssumption
      <4> QED  BY <3>1, <4>1, <4>2, <4>3 DEF Knows
    <3> QED  BY <3>2, <3>3
  <2> QED  BY <2>1, <2>2, <2>3 DEF OneWasTold, Neighbours
<1> QED  BY <1>3, <1>6, <1>7, <1>9, <1>10

\* Gossip loses an announcement: sender and receiver are no neighbours then.
LEMMA LosePreserves ==
  ASSUME MeshInv, NEW d \in Daemons, NEW msg \in inbox[d], Lose(d, msg)
  PROVE  MeshInv'
<1> USE DEF MeshInv
<1>1. /\ UNCHANGED <<pc, life, listening, peers>>
      /\ inbox' = [inbox EXCEPT ![d] = @ \ {msg}]
      /\ lost' = lost \cup {<<msg.from, d>>}
  BY DEF Lose
<1>2. msg.from \in Daemons
  BY DEF TypeOK, Announcement
<1>3. TypeOK'
  BY <1>1, <1>2 DEF TypeOK
<1>4. StartedInOrder' /\ OnlyMembersAreListed'
  BY <1>1 DEF StartedInOrder, OnlyMembersAreListed, Knows, Accepted, build_agent
<1>5. MessagesAreGenuine'
  BY <1>1 DEF TypeOK, MessagesAreGenuine, build_agent
<1>6. OneWasTold'
  <2> SUFFICES ASSUME NEW e \in Daemons, NEW f \in Daemons, Neighbours(e, f)'
               PROVE  (Knows(e, f) \/ OnItsWay(e, f) \/ Knows(f, e) \/ OnItsWay(f, e))'
    BY DEF OneWasTold
  <2>1. Neighbours(e, f) /\ <<msg.from, d>> # <<e, f>> /\ <<msg.from, d>> # <<f, e>>
    BY <1>1 DEF Neighbours, Announced, Accepted
  <2>2. ASSUME NEW x \in Daemons, NEW y \in Daemons, OnItsWay(x, y), <<msg.from, d>> # <<y, x>>
        PROVE  OnItsWay(x, y)'
    BY <1>1, <2>2 DEF OnItsWay, TypeOK
  <2> QED  BY <1>1, <2>1, <2>2 DEF OneWasTold, Knows
<1> QED  BY <1>3, <1>4, <1>5, <1>6

(***************************************************************************)
(* MeshInv is an invariant of the mesh (daemon.rs run, mesh.rs): every     *)
(* step of every daemon's start-up and subscription loop, and everything   *)
(* gossip does, preserves it.                                              *)
(***************************************************************************)
THEOREM MeshInvariant == Spec => []MeshInv
<1>1. ASSUME MeshInv, [Next]_vars PROVE MeshInv'
  <2>1. CASE UNCHANGED vars
    BY <1>1, <2>1 DEF vars, MeshInv, TypeOK, StartedInOrder, MessagesAreGenuine,
       OnlyMembersAreListed, OneWasTold, Neighbours, Announced, Knows, OnItsWay, Accepted, build_agent
  <2>2. ASSUME NEW d \in Daemons, from_config(d) \/ Startup(d) PROVE MeshInv'
    BY <1>1, <2>2, LocalStepPreserves, SubscribePreserves, AnnouncePreserves DEF Startup
  <2>3. ASSUME NEW d \in Daemons, Stop(d) \/ SubscriptionEnds(d) PROVE MeshInv'
    BY <1>1, <2>3, StopPreserves, SubscriptionEndsPreserves
  <2>4. ASSUME NEW d \in Daemons, NEW msg \in inbox[d], Receive(d, msg) \/ Lose(d, msg)
        PROVE  MeshInv'
    BY <1>1, <2>4, ReceivePreserves, LosePreserves
  <2> QED  BY <1>1, <2>1, <2>2, <2>3, <2>4 DEF Next
<1> QED  BY <1>1, MeshInvInit, PTL DEF Spec

(***************************************************************************)
(* PairDiscovered: because run subscribes before it announces, of two      *)
(* neighbours between which nothing is under way one lists the other, for  *)
(* any number of daemons, restarts and interleavings.                      *)
(***************************************************************************)
THEOREM PairTheorem == Spec => []PairDiscovered
<1>1. MeshInv => PairDiscovered
  BY DEF MeshInv, OneWasTold, PairDiscovered
<1> QED  BY <1>1, MeshInvariant, PTL

(***************************************************************************)
(* OnlyMembersAreListed: a registry lists only agents it accepts that      *)
(* joined, announced and had their user identity, and only in this life.   *)
(***************************************************************************)
THEOREM MembersTheorem == Spec => []OnlyMembersAreListed
<1>1. MeshInv => OnlyMembersAreListed
  BY DEF MeshInv
<1> QED  BY <1>1, MeshInvariant, PTL

(***************************************************************************)
(* Who can tell d of e: what is on its way to d afterwards was on its way  *)
(* before, or e has published it in this step.                             *)
(***************************************************************************)
LEMMA NothingNewOnItsWay ==
  ASSUME TypeOK, NEW d \in Daemons, NEW e \in Daemons, ~ OnItsWay(d, e),
         [Next]_vars, ~ announce_local_capability(e)
  PROVE  ~ OnItsWay(d, e)'
<1>1. ASSUME NEW f \in Daemons, f # e, announce_local_capability(f) PROVE ~ OnItsWay(d, e)'
  <2>1. inbox'[d] \subseteq inbox[d] \cup {[from |-> f, life |-> life[f]]}
    BY <1>1 DEF announce_local_capability, Publish
  <2> QED  BY <1>1, <2>1 DEF OnItsWay
<1>2. ASSUME inbox'[d] \subseteq inbox[d] PROVE ~ OnItsWay(d, e)'
  BY <1>2 DEF OnItsWay
<1>3. CASE UNCHANGED vars
  BY <1>2, <1>3 DEF vars
<1>4. ASSUME NEW f \in Daemons,
             from_config(f) \/ JoinNetwork(f) \/ StayLocal(f) \/ Subscribe(f) \/ StaySilent(f) \/ Serve(f)
      PROVE  inbox' = inbox
  BY <1>4 DEF from_config, JoinNetwork, StayLocal, Subscribe, StaySilent, Serve
<1>5. ASSUME NEW f \in Daemons, Stop(f) \/ SubscriptionEnds(f) PROVE inbox'[d] \subseteq inbox[d]
  BY <1>5 DEF TypeOK, Stop, SubscriptionEnds
<1>6. ASSUME NEW f \in Daemons, NEW msg \in inbox[f], Receive(f, msg) \/ Lose(f, msg)
      PROVE  inbox'[d] \subseteq inbox[d]
  BY <1>6 DEF TypeOK, Receive, Lose
<1> QED  BY <1>1, <1>2, <1>3, <1>4, <1>5, <1>6 DEF Next, Startup

\* Nor does d come to list e without a message of e.
LEMMA NothingNewListed ==
  ASSUME TypeOK, NEW d \in Daemons, NEW e \in Daemons, ~ OnItsWay(d, e), ~ Knows(d, e),
         [Next]_vars
  PROVE  ~ Knows(d, e)'
<1>1. ASSUME peers'[d][e] \in {0, peers[d][e]} PROVE ~ Knows(d, e)'
  BY <1>1 DEF Knows
<1>2. CASE peers' = peers
  BY <1>1, <1>2
<1>3. ASSUME NEW f \in Daemons, Stop(f) PROVE peers'[d][e] \in {0, peers[d][e]}
  BY <1>3 DEF TypeOK, Stop, NoPeers
<1>4. ASSUME NEW f \in Daemons, NEW msg \in inbox[f], Receive(f, msg)
      PROVE  peers'[d][e] = peers[d][e]
  <2>1. f = d => msg.from # e
    BY <1>4 DEF OnItsWay
  <2> QED  BY <1>4, <2>1 DEF TypeOK, Receive, apply_message
<1> QED
  BY <1>1, <1>2, <1>3, <1>4
     DEF Next, vars, from_config, Startup, JoinNetwork, StayLocal, Subscribe,
         announce_local_capability, StaySilent, Serve, SubscriptionEnds, Lose

(***************************************************************************)
(* MissedUntilRestart: whoever missed the one announcement of a process    *)
(* does not come to list it while that process, or none, runs; for any     *)
(* number of daemons, and whatever gossip loses, repeats or reorders.      *)
(***************************************************************************)
THEOREM MissedTheorem == Spec => MissedUntilRestart
<1> DEFINE Stays == \A d, e \in Daemons : Missed(d, e) /\ life'[e] = life[e] => Missed(d, e)'
<1>1. MeshInv /\ [Next]_vars => [Stays]_vars
  <2> SUFFICES ASSUME MeshInv, [Next]_vars, NEW d \in Daemons, NEW e \in Daemons,
                      Missed(d, e), life'[e] = life[e]
               PROVE  Missed(d, e)'
    OBVIOUS
  <2>1. TypeOK /\ pc[e] \in {"down", "ready", "serving"}
    BY DEF MeshInv, Missed
  <2>2. ~ announce_local_capability(e)
    BY <2>1 DEF announce_local_capability, Advance
  <2>3. ~ OnItsWay(d, e)' /\ ~ Knows(d, e)'
    BY <2>1, <2>2, NothingNewOnItsWay, NothingNewListed DEF Missed
  <2>4. pc'[e] \in {"down", "ready", "serving"}
    <3>1. ASSUME NEW f \in Daemons, from_config(f) PROVE f # e
      BY <2>1, <3>1 DEF from_config, TypeOK
    <3>2. ASSUME NEW f \in Daemons, from_config(f) \/ Startup(f) \/ Stop(f)
          PROVE  pc'[e] \in {"down", "ready", "serving"}
      BY <2>1, <3>1, <3>2
         DEF TypeOK, from_config, Startup, JoinNetwork, StayLocal, Subscribe,
             announce_local_capability, StaySilent, Serve, Stop, Advance
    <3>3. CASE pc' = pc
      BY <2>1, <3>3
    <3> QED  BY <3>2, <3>3 DEF Next, vars, SubscriptionEnds, Receive, Lose
  <2> QED  BY <2>3, <2>4 DEF Missed
<1>2. Spec => [][Stays]_vars
  <2> HIDE DEF Stays
  <2> QED  BY <1>1, MeshInvariant, PTL DEF Spec
<1> QED  BY <1>2 DEF MissedUntilRestart
=============================================================================
