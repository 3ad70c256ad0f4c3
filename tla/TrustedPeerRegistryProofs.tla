--------------------- MODULE TrustedPeerRegistryProofs ---------------------
(***************************************************************************)
(* Proofs about TrustedPeerRegistry, for every set of agents, machines,    *)
(* announcements and contact settings, and for both mesh policies.         *)
(***************************************************************************)
EXTENDS TrustedPeerRegistry, TLAPS

(***************************************************************************)
(* What a message is that passes every check of apply_message.             *)
(***************************************************************************)
LEMMA ScreenedMessage ==
  ASSUME NEW msg \in Messages, Screen(msg) = "Evaluate"
  PROVE  /\ msg.sender \in Others /\ msg.verified
         /\ msg.payload \in CapabilityAnnouncement
         /\ msg.payload.protocol_version = PROTOCOL_VERSION
         /\ msg.payload.mesh_name = mesh_name
         /\ msg.payload.agent_id = encode_agent_id(msg.sender)
         /\ msg.payload.machine_id.of \in Machines
<1>1. msg \in PubSubMessage
  BY MeshAssumption
<1>2. msg.sender # NoSender /\ msg.verified /\ msg.payload # Garbage
  BY DEF Screen
<1>3. encode_agent_id(msg.sender) # encode_agent_id(LocalAgent)
  BY DEF Screen
<1>4. /\ msg.payload.protocol_version = PROTOCOL_VERSION
      /\ msg.payload.mesh_name = mesh_name
      /\ msg.payload.agent_id = encode_agent_id(msg.sender)
      /\ msg.payload.machine_id.of # NotHex
  BY DEF Screen, parse_machine_id_hex
<1>5. msg.sender \in Others
  BY <1>1, <1>2, <1>3 DEF PubSubMessage, Others
<1>6. msg.payload \in CapabilityAnnouncement
  BY <1>1, <1>2 DEF PubSubMessage
<1>7. msg.payload.machine_id.of \in Machines
  BY <1>4, <1>6 DEF CapabilityAnnouncement, HexText
<1> QED  BY <1>2, <1>4, <1>5, <1>6, <1>7

LEMMA EncodedAgents ==
  ASSUME NEW a \in Agents
  PROVE  encode_agent_id(a) \in HexText(Agents) /\ encode_agent_id(a).of = a
  BY DEF encode_agent_id, HexText

LEMMA EvaluationType ==
  ASSUME NEW contact, NEW machine
  PROVE  evaluate(contact, machine) \in TrustDecisions
  BY DEF evaluate, TrustDecisions

LEMMA ScreenType ==
  ASSUME NEW msg, Screen(msg) # "Evaluate"
  PROVE  Screen(msg) \in CapabilityDisposition
  BY DEF Screen, CapabilityDisposition

(***************************************************************************)
(* The invariant holds initially.                                          *)
(***************************************************************************)
LEMMA RegistryInvInit == Init => RegistryInv
<1> SUFFICES ASSUME Init PROVE RegistryInv
  OBVIOUS
<1>1. DOMAIN peers = {} /\ IsRegistry(peers)
  BY DEF Init, NoPeers, IsRegistry
<1>2. TypeOK
  BY <1>1 DEF Init, TypeOK, NoDisposition
<1>3. /\ message \in Messages <=> loop \in {"contacts", "peers", "apply", "record"}
      /\ ContactsGuard => ~ contacts_writer
      /\ SnapshotIsSettled /\ DecisionIsCurrent
  BY MeshAssumption DEF Init, ContactsGuard, SnapshotIsSettled, PeersGuard, DecisionIsCurrent
<1>4. EntriesAreSigned
  BY <1>1 DEF EntriesAreSigned
<1> QED  BY <1>2, <1>3, <1>4 DEF RegistryInv

(***************************************************************************)
(* Writing the record of a message that passed every check.                *)
(***************************************************************************)
LEMMA RecordPreserves ==
  ASSUME RegistryInv, NEW now \in Times, Record(now)
  PROVE  RegistryInv'
<1> DEFINE id == message.payload.agent_id
           first == IF id \in DOMAIN peers THEN peers[id].first_seen_unix_secs ELSE now
           rec == [capability |-> message.payload, trust_decision |-> decision,
                   first_seen_unix_secs |-> first, last_seen_unix_secs |-> now]
<1>1. TypeOK /\ DecisionIsCurrent /\ EntriesAreSigned /\ loop = "record" /\ message \in Messages
  BY DEF RegistryInv, Record, Enter
<1>2. Screen(message) = "Evaluate" /\ decision = Evaluation(message)
  BY <1>1 DEF DecisionIsCurrent
<1>3. /\ message.sender \in Others /\ message.verified
      /\ message.payload \in CapabilityAnnouncement
      /\ message.payload.protocol_version = PROTOCOL_VERSION
      /\ message.payload.mesh_name = mesh_name
      /\ id = encode_agent_id(message.sender)
      /\ message.payload.machine_id.of \in Machines
  BY <1>1, <1>2, ScreenedMessage
<1>4. id \in HexText(Agents)
  BY <1>3, EncodedAgents DEF Others
<1>5. IsRegistry(peers)
  BY <1>1 DEF TypeOK
<1>6. rec \in PeerCapabilityRecord
  <2>1. first \in Times
    BY <1>5 DEF IsRegistry, PeerCapabilityRecord
  <2>2. decision \in TrustDecisions
    BY <1>2, EvaluationType DEF Evaluation
  <2> HIDE DEF first
  <2> QED  BY <1>3, <2>1, <2>2 DEF PeerCapabilityRecord
<1>7. peers' = [k \in DOMAIN peers \cup {id} |-> IF k = id THEN rec ELSE peers[k]]
  BY DEF Record, Enter
<1>8. /\ loop' = "recv" /\ message' = NoMessage /\ decision' = "None"
      /\ contacts' = contacts /\ contacts_writer' = contacts_writer /\ handler' = handler
      /\ disposition' \in [sender : Agents \cup {NoSender}, outcome : CapabilityDisposition \cup {"None"}]
  <2>1. message.sender \in Agents \cup {NoSender}
    BY <1>3 DEF Others
  <2> QED  BY <2>1 DEF Record, Enter, Done, store, CapabilityDisposition
<1> HIDE DEF id
<1>9. rec.capability = message.payload
  OBVIOUS
<1> HIDE DEF rec
<1>10. IsRegistry(peers')
  BY <1>4, <1>5, <1>6, <1>7 DEF IsRegistry
<1>11. TypeOK'
  BY <1>1, <1>8, <1>10 DEF TypeOK
<1>12. EntriesAreSigned'
  <2> SUFFICES ASSUME NEW k \in DOMAIN peers'
               PROVE  \E msg \in Messages :
                        /\ msg.verified /\ msg.sender \in Others
                        /\ k = encode_agent_id(msg.sender)
                        /\ msg.payload = peers'[k].capability
                        /\ peers'[k].capability.protocol_version = PROTOCOL_VERSION
                        /\ peers'[k].capability.mesh_name = mesh_name
                        /\ peers'[k].capability.agent_id = k
                        /\ peers'[k].capability.machine_id.of \in Machines
    BY DEF EntriesAreSigned
  <2>1. CASE k = id
    <3>1. peers'[k].capability = message.payload
      BY <1>7, <1>9, <2>1
    <3> QED  BY <1>1, <1>3, <2>1, <3>1 DEF id
  <2>2. CASE k # id
    <3>1. k \in DOMAIN peers /\ peers'[k] = peers[k]
      BY <1>7, <2>2
    <3> QED  BY <1>1, <3>1 DEF EntriesAreSigned
  <2> QED  BY <2>1, <2>2
<1>13. /\ (message \in Messages <=> loop \in {"contacts", "peers", "apply", "record"})'
       /\ (ContactsGuard => ~ contacts_writer)'
       /\ SnapshotIsSettled' /\ DecisionIsCurrent'
  BY <1>8, MeshAssumption DEF ContactsGuard, SnapshotIsSettled, PeersGuard, DecisionIsCurrent
<1> QED  BY <1>11, <1>12, <1>13 DEF RegistryInv

(***************************************************************************)
(* A step that leaves the registry and the message alone, or drops the     *)
(* message, keeps every entry signed.                                      *)
(***************************************************************************)
LEMMA EntriesKept ==
  ASSUME EntriesAreSigned, peers' = peers
  PROVE  EntriesAreSigned'
  BY DEF EntriesAreSigned

(***************************************************************************)
(* An early return of apply_message.                                       *)
(***************************************************************************)
LEMMA EarlyReturnPreserves ==
  ASSUME RegistryInv, loop = "apply", NEW outcome \in CapabilityDisposition, Done(outcome),
         UNCHANGED <<store, peers, handler>>
  PROVE  RegistryInv'
<1>1. TypeOK /\ EntriesAreSigned /\ message \in Messages
  BY DEF RegistryInv
<1>2. message.sender \in Agents \cup {NoSender}
  BY <1>1, MeshAssumption DEF PubSubMessage
<1>3. TypeOK'
  BY <1>1, <1>2 DEF TypeOK, Done, store
<1>4. /\ (message \in Messages <=> loop \in {"contacts", "peers", "apply", "record"})'
      /\ (ContactsGuard => ~ contacts_writer)'
      /\ SnapshotIsSettled' /\ DecisionIsCurrent'
  BY MeshAssumption DEF Done, ContactsGuard, SnapshotIsSettled, PeersGuard, DecisionIsCurrent
<1>5. EntriesAreSigned'
  BY <1>1, EntriesKept
<1> QED  BY <1>3, <1>4, <1>5 DEF RegistryInv

(***************************************************************************)
(* Every step preserves the invariant.                                     *)
(***************************************************************************)
LEMMA RegistryInvNext == RegistryInv /\ [Next]_vars => RegistryInv'
<1> SUFFICES ASSUME RegistryInv, [Next]_vars PROVE RegistryInv'
  OBVIOUS
<1>1. /\ TypeOK /\ EntriesAreSigned /\ DecisionIsCurrent /\ SnapshotIsSettled
      /\ message \in Messages <=> loop \in {"contacts", "peers", "apply", "record"}
      /\ ContactsGuard => ~ contacts_writer
  BY DEF RegistryInv
<1> DEFINE Control == /\ (message \in Messages <=> loop \in {"contacts", "peers", "apply", "record"})'
                      /\ (ContactsGuard => ~ contacts_writer)'
                      /\ SnapshotIsSettled'
<1>2. ASSUME NEW msg \in Messages, Recv(msg) PROVE RegistryInv'
  <2>1. TypeOK'
    BY <1>1, <1>2 DEF TypeOK, Recv, store
  <2>2. Control /\ DecisionIsCurrent'
    BY <1>1, <1>2 DEF Recv, ContactsGuard, PeersGuard, SnapshotIsSettled, DecisionIsCurrent
  <2>3. EntriesAreSigned'
    BY <1>1, <1>2, EntriesKept DEF Recv
  <2> QED  BY <2>1, <2>2, <2>3 DEF RegistryInv
<1>3. CASE SubscriptionEnds
  <2>1. TypeOK'
    BY <1>1, <1>3 DEF TypeOK, SubscriptionEnds, store
  <2>2. Control /\ DecisionIsCurrent'
    BY <1>1, <1>3 DEF SubscriptionEnds, ContactsGuard, PeersGuard, SnapshotIsSettled, DecisionIsCurrent
  <2>3. EntriesAreSigned'
    BY <1>1, <1>3, EntriesKept DEF SubscriptionEnds
  <2> QED  BY <2>1, <2>2, <2>3 DEF RegistryInv
<1>4. CASE ReadContacts
  <2>1. TypeOK'
    BY <1>1, <1>4 DEF TypeOK, ReadContacts, store
  <2>2. Control /\ DecisionIsCurrent'
    BY <1>1, <1>4 DEF ReadContacts, store, ContactsGuard, PeersGuard, SnapshotIsSettled, DecisionIsCurrent
  <2>3. EntriesAreSigned'
    BY <1>1, <1>4, EntriesKept DEF ReadContacts
  <2> QED  BY <2>1, <2>2, <2>3 DEF RegistryInv
<1>5. CASE WritePeers
  <2>1. TypeOK'
    BY <1>1, <1>5 DEF TypeOK, WritePeers, store
  <2>2. Control /\ DecisionIsCurrent'
    BY <1>1, <1>5 DEF WritePeers, store, ContactsGuard, PeersGuard, SnapshotIsSettled, DecisionIsCurrent
  <2>3. EntriesAreSigned'
    BY <1>1, <1>5, EntriesKept DEF WritePeers
  <2> QED  BY <2>1, <2>2, <2>3 DEF RegistryInv
<1>6. CASE Reject
  BY <1>6, ScreenType, EarlyReturnPreserves DEF Reject
<1>7. CASE RejectTrust
  <2>1. "RejectedTrust" \in CapabilityDisposition
    BY DEF CapabilityDisposition
  <2> QED  BY <1>7, <2>1, EarlyReturnPreserves DEF RejectTrust
<1>8. CASE Evaluate
  <2>1. decision' = Evaluation(message) /\ decision' \in TrustDecisions
    BY <1>8, EvaluationType DEF Evaluate, Evaluation
  <2>2. TypeOK'
    BY <1>1, <1>8, <2>1 DEF TypeOK, Evaluate, store
  <2>3. Control
    BY <1>1, <1>8 DEF Evaluate, store, ContactsGuard, PeersGuard, SnapshotIsSettled
  <2>4. DecisionIsCurrent'
    <3>1. message' = message /\ contacts' = contacts /\ allows_peer(Evaluation(message))
          /\ Screen(message) = "Evaluate"
      BY <1>8 DEF Evaluate, store
    <3>2. Evaluation(message)' = Evaluation(message)
      BY <3>1 DEF Evaluation
    <3> QED  BY <2>1, <3>1, <3>2 DEF DecisionIsCurrent
  <2>5. EntriesAreSigned'
    BY <1>1, <1>8, EntriesKept DEF Evaluate
  <2> QED  BY <2>2, <2>3, <2>4, <2>5 DEF RegistryInv
<1>9. ASSUME NEW h \in Handlers, PeerCapabilities(h) \/ ReadPeers(h) \/ Snapshot(h)
      PROVE  RegistryInv'
  <2>1. /\ contacts' = contacts /\ contacts_writer' = contacts_writer /\ peers' = peers
        /\ loop' = loop /\ message' = message /\ decision' = decision /\ disposition' = disposition
    BY <1>9 DEF PeerCapabilities, ReadPeers, Snapshot, store, task
  <2>2. TypeOK'
    BY <1>1, <1>9, <2>1 DEF TypeOK, PeerCapabilities, ReadPeers, Snapshot
  <2>3. SnapshotIsSettled'
    BY <1>1, <1>9, <2>1 DEF TypeOK, SnapshotIsSettled, PeersGuard, PeerCapabilities, ReadPeers, Snapshot
  <2>4. Control
    BY <1>1, <2>1, <2>3 DEF ContactsGuard
  <2>5. DecisionIsCurrent'
    BY <1>1, <2>1 DEF DecisionIsCurrent, Evaluation
  <2>6. EntriesAreSigned'
    BY <1>1, <2>1, EntriesKept
  <2> QED  BY <2>2, <2>4, <2>5, <2>6 DEF RegistryInv
<1>10. ASSUME LockContacts \/ \E a \in Others, setting \in ContactSettings : SetContact(a, setting)
       PROVE  RegistryInv'
  <2>1. /\ peers' = peers /\ handler' = handler
        /\ loop' = loop /\ message' = message /\ decision' = decision /\ disposition' = disposition
    BY <1>10 DEF LockContacts, SetContact, task
  <2>2. ~ ContactsGuard
    BY <1>1, <1>10 DEF LockContacts, SetContact
  <2>3. TypeOK'
    <3>1. CASE LockContacts
      BY <1>1, <2>1, <3>1 DEF TypeOK, LockContacts
    <3>2. ASSUME NEW a \in Others, NEW setting \in ContactSettings, SetContact(a, setting)
          PROVE  TypeOK'
      <4>1. contacts' \in [Others -> ContactSettings] /\ contacts_writer' = FALSE
        BY <1>1, <3>2 DEF TypeOK, SetContact
      <4> QED  BY <1>1, <2>1, <4>1 DEF TypeOK
    <3> QED  BY <1>10, <3>1, <3>2
  <2>4. Control
    BY <1>1, <2>1, <2>2 DEF ContactsGuard, SnapshotIsSettled, PeersGuard
  <2>5. DecisionIsCurrent'
    BY <2>1, <2>2 DEF ContactsGuard, DecisionIsCurrent
  <2>6. EntriesAreSigned'
    BY <1>1, <2>1, EntriesKept
  <2> QED  BY <2>3, <2>4, <2>5, <2>6 DEF RegistryInv
<1>11. CASE UNCHANGED vars
  <2>1. TypeOK'
    BY <1>1, <1>11 DEF TypeOK, vars, store, task
  <2>2. Control /\ DecisionIsCurrent'
    BY <1>1, <1>11
       DEF vars, store, task, ContactsGuard, PeersGuard, SnapshotIsSettled, DecisionIsCurrent, Evaluation
  <2>3. EntriesAreSigned'
    BY <1>1, <1>11, EntriesKept DEF vars
  <2> QED  BY <2>1, <2>2, <2>3 DEF RegistryInv
<1> QED
  BY <1>2, <1>3, <1>4, <1>5, <1>6, <1>7, <1>8, <1>9, <1>10, <1>11, RecordPreserves
     DEF Next, ApplyMessage, ChangeContacts

(***************************************************************************)
(* The invariant holds in every reachable state.                           *)
(***************************************************************************)
THEOREM RegistryInvariant == Spec => []RegistryInv
  BY RegistryInvInit, RegistryInvNext, PTL DEF Spec

(***************************************************************************)
(* Every listed peer announced itself, signed, for this mesh: whatever     *)
(* arrives, in whatever order, and whatever becomes of the contact store.  *)
(***************************************************************************)
THEOREM SignedEntries == Spec => []EntriesAreSigned
<1>1. RegistryInv => EntriesAreSigned
  BY DEF RegistryInv
<1> QED  BY <1>1, RegistryInvariant, PTL

(***************************************************************************)
(* An entry is written only under the trust the contact store gives at     *)
(* that instant.                                                           *)
(***************************************************************************)
THEOREM TrustedRecords == Spec => RecordedOnlyIfTrusted
<1> DEFINE Written ==
      \A a \in Others :
        LET k == encode_agent_id(a) IN
          k \in DOMAIN peers' /\ (k \in DOMAIN peers => peers'[k] # peers[k]) =>
            LET d == evaluate(contacts[a], peers'[k].capability.machine_id.of) IN
              allows_peer(d) /\ peers'[k].trust_decision = d
<1>1. RegistryInv /\ [Next]_vars => [Written]_vars
  <2> SUFFICES ASSUME RegistryInv, Next, NEW a \in Others,
                      encode_agent_id(a) \in DOMAIN peers',
                      encode_agent_id(a) \in DOMAIN peers
                        => peers'[encode_agent_id(a)] # peers[encode_agent_id(a)]
               PROVE  LET k == encode_agent_id(a)
                          d == evaluate(contacts[a], peers'[k].capability.machine_id.of)
                      IN  allows_peer(d) /\ peers'[k].trust_decision = d
    OBVIOUS
  <2> DEFINE k == encode_agent_id(a)
  <2>1. peers' # peers
    OBVIOUS
  <2>2. PICK now \in Times : Record(now)
    BY <2>1 DEF Next, Recv, SubscriptionEnds, ReadContacts, WritePeers, ApplyMessage, Reject, RejectTrust,
                Evaluate, PeerCapabilities, ReadPeers, Snapshot, LockContacts, ChangeContacts, SetContact
  <2>3. message \in Messages /\ Screen(message) = "Evaluate" /\ decision = Evaluation(message)
        /\ allows_peer(decision)
    BY <2>2 DEF RegistryInv, DecisionIsCurrent, Record, Enter
  <2>4. message.payload.agent_id = encode_agent_id(message.sender) /\ message.sender \in Others
    BY <2>3, ScreenedMessage
  <2>5. k = message.payload.agent_id
    BY <2>2 DEF Record, Enter
  <2>6. a = message.sender
    BY <2>4, <2>5, EncodedAgents DEF Others
  <2>7. peers'[k].capability = message.payload /\ peers'[k].trust_decision = decision
    BY <2>2, <2>5 DEF Record, Enter
  <2> QED
    BY <2>3, <2>6, <2>7 DEF Evaluation, parse_machine_id_hex
<1>2. Spec => [][Written]_vars
  <2> HIDE DEF Written
  <2> QED  BY <1>1, RegistryInvariant, PTL DEF Spec
<1> QED  BY <1>2 DEF RecordedOnlyIfTrusted

(***************************************************************************)
(* Types: the registry's records, and what the task holds, are always of   *)
(* their types, since the keys that are entered are encoded agent ids.     *)
(***************************************************************************)
THEOREM RegistryTypes == Spec => []TypeOK
<1>1. RegistryInv => TypeOK
  BY DEF RegistryInv
<1> QED  BY <1>1, RegistryInvariant, PTL

(***************************************************************************)
(* Only a step that records a message changes the registry.                *)
(***************************************************************************)
LEMMA RegistryChanges ==
  ASSUME Next, peers' # peers
  PROVE  \E now \in Times : Record(now)
  BY DEF Next, Recv, SubscriptionEnds, ReadContacts, WritePeers, ApplyMessage, Reject, RejectTrust,
         Evaluate, PeerCapabilities, ReadPeers, Snapshot, LockContacts, ChangeContacts, SetContact

(***************************************************************************)
(* An entry is never removed, keeps the time it was first seen, and is     *)
(* changed only by a verified message of its own agent.                    *)
(***************************************************************************)
THEOREM OwnEntries == Spec => OwnEntryOnly
<1> DEFINE Kept ==
      \A k \in DOMAIN peers :
        /\ k \in DOMAIN peers'
        /\ peers'[k].first_seen_unix_secs = peers[k].first_seen_unix_secs
        /\ peers'[k] # peers[k] => message.verified /\ encode_agent_id(message.sender) = k
<1>1. RegistryInv /\ [Next]_vars => [Kept]_vars
  <2> SUFFICES ASSUME RegistryInv, Next, peers' # peers, NEW k \in DOMAIN peers
               PROVE  /\ k \in DOMAIN peers'
                      /\ peers'[k].first_seen_unix_secs = peers[k].first_seen_unix_secs
                      /\ peers'[k] # peers[k] => message.verified /\ encode_agent_id(message.sender) = k
    OBVIOUS
  <2>1. PICK now \in Times : Record(now)
    BY RegistryChanges
  <2>2. message \in Messages /\ Screen(message) = "Evaluate"
    BY <2>1 DEF RegistryInv, DecisionIsCurrent, Record, Enter
  <2>3. message.payload.agent_id = encode_agent_id(message.sender) /\ message.verified
    BY <2>2, ScreenedMessage
  <2>4. CASE k = message.payload.agent_id
    BY <2>1, <2>3, <2>4 DEF Record, Enter
  <2>5. CASE k # message.payload.agent_id
    BY <2>1, <2>5 DEF Record, Enter
  <2> QED  BY <2>4, <2>5
<1>2. Spec => [][Kept]_vars
  <2> HIDE DEF Kept
  <2> QED  BY <1>1, RegistryInvariant, PTL DEF Spec
<1> QED  BY <1>2 DEF OwnEntryOnly

(***************************************************************************)
(* The abstract specification judges a message by the same rules.          *)
(***************************************************************************)
LEMMA SameRules ==
  ASSUME NEW msg, NEW contact, NEW machine, NEW d, NEW a, NEW text
  PROVE  /\ Atomic!encode_agent_id(a) = encode_agent_id(a)
         /\ Atomic!parse_machine_id_hex(text) = parse_machine_id_hex(text)
         /\ Atomic!evaluate(contact, machine) = evaluate(contact, machine)
         /\ Atomic!allows_peer(d) <=> allows_peer(d)
         /\ Atomic!Screen(msg) = Screen(msg)
         /\ Atomic!Others = Others
<1>1. \A b : Atomic!encode_agent_id(b) = encode_agent_id(b)
  BY DEF Atomic!encode_agent_id, encode_agent_id
<1>2. \A x : Atomic!parse_machine_id_hex(x) = parse_machine_id_hex(x)
  BY DEF Atomic!parse_machine_id_hex, parse_machine_id_hex
<1>3. Atomic!evaluate(contact, machine) = evaluate(contact, machine)
  BY DEF Atomic!evaluate, evaluate
<1>4. Atomic!allows_peer(d) <=> allows_peer(d)
  BY DEF Atomic!allows_peer, allows_peer
<1>5. Atomic!PROTOCOL_VERSION = PROTOCOL_VERSION
  BY DEF Atomic!PROTOCOL_VERSION, PROTOCOL_VERSION
<1>6. Atomic!Screen(msg) = Screen(msg)
  BY <1>1, <1>2, <1>5 DEF Atomic!Screen, Screen
<1>7. Atomic!Others = Others
  BY DEF Atomic!Others, Others
<1> QED  BY <1>1, <1>2, <1>3, <1>4, <1>6, <1>7

(***************************************************************************)
(* Recording a message is the one step of the abstract specification: the  *)
(* decision taken at Evaluate is still the contact store's.                *)
(***************************************************************************)
LEMMA RecordIsAccept ==
  ASSUME RegistryInv, NEW now \in Times, Record(now)
  PROVE  message \in Messages /\ Atomic!Accept(message, now)
<1>1. /\ message \in Messages /\ Screen(message) = "Evaluate"
      /\ decision = Evaluation(message) /\ allows_peer(decision)
  BY DEF RegistryInv, DecisionIsCurrent, Record, Enter
<1>2. message.payload.agent_id = encode_agent_id(message.sender)
  BY <1>1, ScreenedMessage
<1>3. Atomic!Judgement(message) = decision
  BY <1>1, SameRules DEF Atomic!Judgement, Evaluation
<1>4. contacts' = contacts
  BY DEF Record, Enter, store
<1>5. Atomic!Dispose(message, IF encode_agent_id(message.sender) \in DOMAIN peers
                              THEN "UpdatedPeer" ELSE "AcceptedNewPeer")
  BY <1>2 DEF Record, Enter, Done, Atomic!Dispose
<1>6. peers' = [a \in DOMAIN peers \cup {encode_agent_id(message.sender)} |->
                  IF a # encode_agent_id(message.sender) THEN peers[a]
                  ELSE [capability |-> message.payload, trust_decision |-> decision,
                        first_seen_unix_secs |->
                          IF encode_agent_id(message.sender) \in DOMAIN peers
                          THEN peers[encode_agent_id(message.sender)].first_seen_unix_secs ELSE now,
                        last_seen_unix_secs |-> now]]
  BY <1>2 DEF Record, Enter
<1>7. /\ Atomic!Screen(message) = "Evaluate" /\ Atomic!allows_peer(decision)
      /\ Atomic!encode_agent_id(message.sender) = encode_agent_id(message.sender)
  BY <1>1, SameRules
<1> QED  BY <1>1, <1>3, <1>4, <1>5, <1>6, <1>7 DEF Atomic!Accept

(***************************************************************************)
(* The task with its locks implements the atomic receive, which is what    *)
(* CapabilityMesh relies on.                                               *)
(***************************************************************************)
THEOREM AtomicReceiveImplemented == Spec => ImplementsAtomicReceive
<1>1. Init => Atomic!Init
  BY DEF Init, Atomic!Init, NoPeers, NoDisposition, Others, Atomic!NoPeers, Atomic!NoDisposition, Atomic!Others
<1>2. RegistryInv /\ [Next]_vars => [Atomic!Next]_(Atomic!vars)
  <2> SUFFICES ASSUME RegistryInv, [Next]_vars
               PROVE  Atomic!Next \/ UNCHANGED <<contacts, peers, disposition>>
    BY DEF Atomic!vars
  <2>1. ASSUME NEW msg \in Messages, Recv(msg)
        PROVE  UNCHANGED <<contacts, peers, disposition>>
    BY <2>1 DEF Recv, store
  <2>2. CASE SubscriptionEnds \/ ReadContacts \/ WritePeers \/ Evaluate \/ LockContacts \/ UNCHANGED vars
    BY <2>2 DEF SubscriptionEnds, ReadContacts, WritePeers, Evaluate, LockContacts, vars, store, task
  <2>3. CASE Reject
    <3>1. message \in Messages
      BY <2>3 DEF RegistryInv, Reject
    <3>2. Atomic!Discard(message)
      BY <2>3, SameRules DEF Reject, Done, store, Atomic!Discard, Atomic!Dispose
    <3> QED  BY <3>1, <3>2 DEF Atomic!Next
  <2>4. CASE RejectTrust
    <3>1. message \in Messages
      BY <2>4 DEF RegistryInv, RejectTrust
    <3>2. Atomic!Judgement(message) = Evaluation(message)
      BY SameRules DEF Evaluation, Atomic!Judgement
    <3>3. Atomic!Screen(message) = "Evaluate" /\ ~ Atomic!allows_peer(Evaluation(message))
      BY <2>4, SameRules DEF RejectTrust
    <3>4. Atomic!Distrust(message)
      BY <2>4, <3>2, <3>3 DEF RejectTrust, Done, store, Atomic!Distrust, Atomic!Dispose
    <3> QED  BY <3>1, <3>4 DEF Atomic!Next
  <2>5. ASSUME NEW now \in Times, Record(now)
        PROVE  Atomic!Next
    BY <2>5, RecordIsAccept DEF Atomic!Next
  <2>6. ASSUME NEW h \in Handlers, PeerCapabilities(h) \/ ReadPeers(h) \/ Snapshot(h)
        PROVE  UNCHANGED <<contacts, peers, disposition>>
    BY <2>6 DEF PeerCapabilities, ReadPeers, Snapshot, store, task
  <2>7. ASSUME NEW a \in Others, NEW setting \in ContactSettings, SetContact(a, setting)
        PROVE  Atomic!Next
    <3>1. Atomic!Configure(a, setting)
      BY <2>7 DEF SetContact, task, Atomic!Configure
    <3> QED  BY <3>1, SameRules DEF Atomic!Next
  <2> QED
    BY <2>1, <2>2, <2>3, <2>4, <2>5, <2>6, <2>7 DEF Next, ApplyMessage, ChangeContacts
<1> QED  BY <1>1, <1>2, RegistryInvariant, PTL DEF Spec, ImplementsAtomicReceive, Atomic!Spec

(***************************************************************************)
(* The atomic receive is strong enough.  A step of it that changes the     *)
(* registry accepts a message, and then:                                   *)
(***************************************************************************)
LEMMA AcceptedEntry ==
  ASSUME NEW msg \in Messages, NEW now \in Times, Atomic!Accept(msg, now)
  PROVE  LET k == encode_agent_id(msg.sender)
             d == evaluate(contacts[msg.sender], msg.payload.machine_id.of)
         IN  /\ Screen(msg) = "Evaluate" /\ allows_peer(d)
             /\ DOMAIN peers' = DOMAIN peers \cup {k}
             /\ \A a \in DOMAIN peers : a # k => peers'[a] = peers[a]
             /\ peers'[k].capability = msg.payload /\ peers'[k].trust_decision = d
<1> DEFINE k == encode_agent_id(msg.sender)
           d == evaluate(contacts[msg.sender], msg.payload.machine_id.of)
<1>1. Atomic!Judgement(msg) = d
  BY SameRules DEF Atomic!Judgement, parse_machine_id_hex
<1>2. Atomic!encode_agent_id(msg.sender) = k /\ Atomic!Screen(msg) = Screen(msg)
      /\ (Atomic!allows_peer(d) <=> allows_peer(d))
  BY SameRules
<1>3. peers' = [a \in DOMAIN peers \cup {k} |->
                  IF a # k THEN peers[a]
                  ELSE [capability |-> msg.payload, trust_decision |-> d,
                        first_seen_unix_secs |-> IF k \in DOMAIN peers
                                                 THEN peers[k].first_seen_unix_secs ELSE now,
                        last_seen_unix_secs |-> now]]
  BY <1>1, <1>2 DEF Atomic!Accept
<1>4. Screen(msg) = "Evaluate" /\ allows_peer(d)
  BY <1>1, <1>2 DEF Atomic!Accept
<1> HIDE DEF k, d
<1>5. /\ DOMAIN peers' = DOMAIN peers \cup {k}
      /\ \A a \in DOMAIN peers : a # k => peers'[a] = peers[a]
      /\ peers'[k].capability = msg.payload /\ peers'[k].trust_decision = d
  BY <1>3
<1> QED  BY <1>4, <1>5 DEF k, d

LEMMA AtomicChanges ==
  ASSUME [Atomic!Next]_(Atomic!vars), peers' # peers
  PROVE  \E msg \in Messages, now \in Times : Atomic!Accept(msg, now)
  BY DEF Atomic!Next, Atomic!vars, Atomic!Discard, Atomic!Distrust, Atomic!Configure

(***************************************************************************)
(* Whoever relies on the atomic receive alone, as CapabilityMesh does,     *)
(* still knows that every entry is signed and that entries are written     *)
(* only under the contact store's trust: the abstraction of the task and   *)
(* its locks loses neither.                                                *)
(***************************************************************************)
THEOREM AtomicReceiveSuffices ==
  ImplementsAtomicReceive => []EntriesAreSigned /\ RecordedOnlyIfTrusted
<1> DEFINE Written ==
      \A a \in Others :
        LET k == encode_agent_id(a) IN
          k \in DOMAIN peers' /\ (k \in DOMAIN peers => peers'[k] # peers[k]) =>
            LET d == evaluate(contacts[a], peers'[k].capability.machine_id.of) IN
              allows_peer(d) /\ peers'[k].trust_decision = d
<1>1. Atomic!Init => EntriesAreSigned
  <2> SUFFICES ASSUME Atomic!Init PROVE EntriesAreSigned
    OBVIOUS
  <2>1. DOMAIN peers = {}
    BY DEF Atomic!Init, Atomic!NoPeers
  <2> QED  BY <2>1 DEF EntriesAreSigned
<1>2. EntriesAreSigned /\ [Atomic!Next]_(Atomic!vars) => EntriesAreSigned'
  <2> SUFFICES ASSUME EntriesAreSigned, [Atomic!Next]_(Atomic!vars), peers' # peers
               PROVE  EntriesAreSigned'
    BY DEF EntriesAreSigned
  <2>1. PICK msg \in Messages, now \in Times : Atomic!Accept(msg, now)
    BY AtomicChanges
  <2> DEFINE k == encode_agent_id(msg.sender)
  <2>2. /\ Screen(msg) = "Evaluate" /\ DOMAIN peers' = DOMAIN peers \cup {k}
        /\ \A a \in DOMAIN peers : a # k => peers'[a] = peers[a]
        /\ peers'[k].capability = msg.payload
    BY <2>1, AcceptedEntry
  <2>3. /\ msg.sender \in Others /\ msg.verified
        /\ msg.payload.protocol_version = PROTOCOL_VERSION
        /\ msg.payload.mesh_name = mesh_name
        /\ msg.payload.agent_id = k
        /\ msg.payload.machine_id.of \in Machines
    BY <2>2, ScreenedMessage
  <2> HIDE DEF k
  <2>4. ASSUME NEW a \in DOMAIN peers, a # k
        PROVE  \E m \in Messages :
                 /\ m.verified /\ m.sender \in Others
                 /\ a = encode_agent_id(m.sender)
                 /\ m.payload = peers'[a].capability
                 /\ peers'[a].capability.protocol_version = PROTOCOL_VERSION
                 /\ peers'[a].capability.mesh_name = mesh_name
                 /\ peers'[a].capability.agent_id = a
                 /\ peers'[a].capability.machine_id.of \in Machines
    BY <2>2, <2>4 DEF EntriesAreSigned
  <2> QED  BY <2>2, <2>3, <2>4 DEF EntriesAreSigned, k
<1>3. [Atomic!Next]_(Atomic!vars) => Written
  <2> SUFFICES ASSUME [Atomic!Next]_(Atomic!vars), NEW a \in Others,
                      encode_agent_id(a) \in DOMAIN peers',
                      encode_agent_id(a) \in DOMAIN peers
                        => peers'[encode_agent_id(a)] # peers[encode_agent_id(a)]
               PROVE  LET k == encode_agent_id(a)
                          d == evaluate(contacts[a], peers'[k].capability.machine_id.of)
                      IN  allows_peer(d) /\ peers'[k].trust_decision = d
    OBVIOUS
  <2>1. peers' # peers
    OBVIOUS
  <2>2. PICK msg \in Messages, now \in Times : Atomic!Accept(msg, now)
    BY <2>1, AtomicChanges
  <2>3. Screen(msg) = "Evaluate" /\ msg.sender \in Others
    BY <2>2, AcceptedEntry, ScreenedMessage
  <2>4. encode_agent_id(a) = encode_agent_id(msg.sender)
    <3>1. /\ DOMAIN peers' = DOMAIN peers \cup {encode_agent_id(msg.sender)}
          /\ \A k \in DOMAIN peers : k # encode_agent_id(msg.sender) => peers'[k] = peers[k]
      BY <2>2, AcceptedEntry
    <3> QED  BY <3>1
  <2>5. a = msg.sender
    BY <2>3, <2>4, EncodedAgents DEF Others
  <2> QED  BY <2>2, <2>5, AcceptedEntry
<1>4. Atomic!Spec => [][Written]_vars
  <2> HIDE DEF Written
  <2> QED  BY <1>3, PTL DEF Atomic!Spec
<1>5. Atomic!Spec => []EntriesAreSigned
  BY <1>1, <1>2, PTL DEF Atomic!Spec
<1>6. Atomic!Spec => RecordedOnlyIfTrusted
  BY <1>4 DEF RecordedOnlyIfTrusted
<1> QED  BY <1>5, <1>6, PTL DEF ImplementsAtomicReceive
=============================================================================
