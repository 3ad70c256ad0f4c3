------------------------- MODULE TrustedPeerRegistry -------------------------
(***************************************************************************)
(* The registry of trusted peers (mesh.rs) inside one daemon: the task     *)
(* that receives capability announcements and applies them, the handler of *)
(* GET /v1/capabilities/peers (daemon.rs) that reads the registry, and the *)
(* x0x contact store, which somebody else changes while the daemon runs.   *)
(* Registry and contact store each sit behind a tokio RwLock.              *)
(*                                                                         *)
(* Gossip is unreliable: at any time any announcement of Messages may be   *)
(* the next one that arrives, so losses, repeats and every order of        *)
(* delivery are behaviours of the model.  The wall clock may step either   *)
(* way: a timestamp is any member of Times.                                *)
(***************************************************************************)
EXTENDS PeerMessages

CONSTANT Handlers  \* tasks serving GET /v1/capabilities/peers

VARIABLES
  contacts,         \* the x0x contact store: a setting per agent
  contacts_writer,  \* somebody holds the store's write guard
  peers,            \* TrustedPeerRegistry.peers
  loop,             \* where the subscription task is
  message,          \* the message it handles
  decision,         \* the trust decision apply_message has taken for it
  disposition,      \* the last message's sender and what became of it
  handler           \* per handler: "idle", "waiting" for the read guard, "reading"

store == <<contacts, contacts_writer>>
task == <<loop, message, decision, disposition>>
vars == <<store, peers, task, handler>>

(***************************************************************************)
(* The specification's variables.                                          *)
(***************************************************************************)
\* "recv": waits for a message; "contacts": waits for the store's read guard;
\* "peers": has it, waits for the registry's write guard; "apply": has both,
\* in apply_message; "record": past its checks; "ended": recv returned None.
TypeOK ==
  /\ contacts \in [Others -> ContactSettings]
  /\ contacts_writer \in BOOLEAN
  /\ IsRegistry(peers)
  /\ loop \in {"recv", "contacts", "peers", "apply", "record", "ended"}
  /\ message \in Messages \cup {NoMessage}
  /\ decision \in TrustDecisions \cup {"None"}
  /\ disposition \in [sender : Agents \cup {NoSender}, outcome : CapabilityDisposition \cup {"None"}]
  /\ handler \in [Handlers -> {"idle", "waiting", "reading"}]

Init ==
  /\ contacts \in [Others -> ContactSettings]
  /\ contacts_writer = FALSE
  /\ peers = NoPeers
  /\ loop = "recv"
  /\ message = NoMessage
  /\ decision = "None"
  /\ disposition = NoDisposition
  /\ handler = [h \in Handlers |-> "idle"]

\* Mutant of ContactsGuard: the store's guard is dropped before apply_message.
ContactsGuardDropped == loop = "peers"

ContactsGuard == loop \in {"peers", "apply", "record"}

PeersGuard == loop \in {"apply", "record"}

(***************************************************************************)
(* The subscription task.                                                  *)
(***************************************************************************)
Recv(msg) ==
  /\ loop = "recv"
  /\ loop' = "contacts"
  /\ message' = msg
  /\ UNCHANGED <<store, peers, decision, disposition, handler>>

SubscriptionEnds ==
  /\ loop = "recv"
  /\ loop' = "ended"
  /\ UNCHANGED <<store, peers, message, decision, disposition, handler>>

ReadContacts ==
  /\ loop = "contacts"
  /\ ~ contacts_writer
  /\ loop' = "peers"
  /\ UNCHANGED <<store, peers, message, decision, disposition, handler>>

WritePeers ==
  /\ loop = "peers"
  /\ \A h \in Handlers : handler[h] # "reading"
  /\ loop' = "apply"
  /\ UNCHANGED <<store, peers, message, decision, disposition, handler>>

\* apply_message returns: both guards and the message are dropped, and the
\* disposition is logged.
Done(outcome) ==
  /\ loop' = "recv"
  /\ message' = NoMessage
  /\ decision' = "None"
  /\ disposition' = [sender |-> message.sender, outcome |-> outcome]

\* The early returns of apply_message.
Reject ==
  /\ loop = "apply"
  /\ Screen(message) # "Evaluate"
  /\ Done(Screen(message))
  /\ UNCHANGED <<store, peers, handler>>

Evaluation(msg) == evaluate(contacts[msg.sender], parse_machine_id_hex(msg.payload.machine_id))

\* Mutant of RejectTrust: the early return leaves the guards behind.
RejectTrustKeepsGuards ==
  /\ loop = "apply"
  /\ Screen(message) = "Evaluate"
  /\ ~ allows_peer(Evaluation(message))
  /\ disposition' = [sender |-> message.sender, outcome |-> "RejectedTrust"]
  /\ UNCHANGED <<store, peers, loop, message, decision, handler>>

RejectTrust ==
  /\ loop = "apply"
  /\ Screen(message) = "Evaluate"
  /\ ~ allows_peer(Evaluation(message))
  /\ Done("RejectedTrust")
  /\ UNCHANGED <<store, peers, handler>>

\* Mutant of Evaluate: the decision is taken down, not acted on.
EvaluateAnyone ==
  /\ loop = "apply"
  /\ Screen(message) = "Evaluate"
  /\ decision' = Evaluation(message)
  /\ loop' = "record"
  /\ UNCHANGED <<store, peers, message, disposition, handler>>

Evaluate ==
  /\ loop = "apply"
  /\ Screen(message) = "Evaluate"
  /\ allows_peer(Evaluation(message))
  /\ decision' = Evaluation(message)
  /\ loop' = "record"
  /\ UNCHANGED <<store, peers, message, disposition, handler>>

\* The entry of a peer after this message, and the message's outcome.
Enter(peer_id, first_seen, now) ==
  /\ loop = "record"
  /\ peers' = [k \in DOMAIN peers \cup {peer_id} |->
                 IF k = peer_id
                 THEN [capability |-> message.payload, trust_decision |-> decision,
                       first_seen_unix_secs |-> first_seen, last_seen_unix_secs |-> now]
                 ELSE peers[k]]
  /\ Done(IF peer_id \in DOMAIN peers THEN "UpdatedPeer" ELSE "AcceptedNewPeer")
  /\ UNCHANGED <<store, handler>>

\* Mutant of Record: the registry is keyed by machine.
RecordByMachine(now) == Enter(message.payload.machine_id, now, now)

\* Mutant of Record: an update inserts a new record.
RecordAnew(now) == Enter(message.payload.agent_id, now, now)

Record(now) ==
  LET peer_id == message.payload.agent_id
  IN  Enter(peer_id,
            IF peer_id \in DOMAIN peers THEN peers[peer_id].first_seen_unix_secs ELSE now,
            now)

(***************************************************************************)
(* GET /v1/capabilities/peers, and the contact store's other users.        *)
(***************************************************************************)
PeerCapabilities(h) ==
  /\ handler[h] = "idle"
  /\ handler' = [handler EXCEPT ![h] = "waiting"]
  /\ UNCHANGED <<store, peers, task>>

\* Mutant of ReadPeers: the registry is read without its lock.
ReadPeersUnlocked(h) ==
  /\ handler[h] = "waiting"
  /\ handler' = [handler EXCEPT ![h] = "reading"]
  /\ UNCHANGED <<store, peers, task>>

ReadPeers(h) ==
  /\ handler[h] = "waiting"
  /\ ~ PeersGuard
  /\ handler' = [handler EXCEPT ![h] = "reading"]
  /\ UNCHANGED <<store, peers, task>>

\* Mutant of Snapshot: the handler keeps its guard and asks for it again.
SnapshotKeepsGuard(h) ==
  /\ handler[h] = "reading"
  /\ UNCHANGED <<store, peers, task, handler>>

Snapshot(h) ==
  /\ handler[h] = "reading"
  /\ handler' = [handler EXCEPT ![h] = "idle"]
  /\ UNCHANGED <<store, peers, task>>

LockContacts ==
  /\ ~ contacts_writer
  /\ ~ ContactsGuard
  /\ contacts_writer' = TRUE
  /\ UNCHANGED <<contacts, peers, task, handler>>

SetContact(a, setting) ==
  /\ contacts_writer
  /\ contacts' = [contacts EXCEPT ![a] = setting]
  /\ contacts_writer' = FALSE
  /\ UNCHANGED <<peers, task, handler>>

(***************************************************************************)
(* The specification.                                                      *)
(***************************************************************************)
ApplyMessage == Reject \/ RejectTrust \/ Evaluate \/ \E now \in Times : Record(now)

ChangeContacts == \E a \in Others, setting \in ContactSettings : SetContact(a, setting)

Next ==
  \/ \E msg \in Messages : Recv(msg)
  \/ SubscriptionEnds \/ ReadContacts \/ WritePeers \/ ApplyMessage
  \/ \E h \in Handlers : PeerCapabilities(h) \/ ReadPeers(h) \/ Snapshot(h)
  \/ LockContacts \/ ChangeContacts

Spec == Init /\ [][Next]_vars

\* Tasks that can run are scheduled, a guard is not held for ever, and a
\* tokio RwLock hands its guards out in the order they were asked for.
Fairness ==
  /\ WF_vars(ApplyMessage)
  /\ SF_vars(ReadContacts)
  /\ SF_vars(WritePeers)
  /\ WF_vars(ChangeContacts)
  /\ \A h \in Handlers : SF_vars(ReadPeers(h)) /\ WF_vars(Snapshot(h))

FairSpec == Spec /\ Fairness

(***************************************************************************)
(* Properties.                                                             *)
(***************************************************************************)

\* The trust decision apply_message acts on is the one the contact store
\* gives at that moment: the store's read guard is held from before the
\* evaluation until the record is written.
DecisionIsCurrent ==
  loop = "record" => /\ Screen(message) = "Evaluate"
                     /\ decision = Evaluation(message)
                     /\ allows_peer(decision)

\* A snapshot is taken while no message is being applied.
SnapshotIsSettled == \A h \in Handlers : handler[h] = "reading" => ~ PeersGuard

\* Every listed peer is there because of an announcement it signed itself:
\* verified, under its own agent id, for this mesh and protocol, with a
\* machine id that decodes, and never this daemon's own.
EntriesAreSigned ==
  \A k \in DOMAIN peers :
    \E msg \in Messages :
      /\ msg.verified /\ msg.sender \in Others
      /\ k = encode_agent_id(msg.sender)
      /\ msg.payload = peers[k].capability
      /\ peers[k].capability.protocol_version = PROTOCOL_VERSION
      /\ peers[k].capability.mesh_name = mesh_name
      /\ peers[k].capability.agent_id = k
      /\ peers[k].capability.machine_id.of \in Machines

\* The inductive invariant: in addition, the task holds a message exactly while
\* it handles one, and the locks exclude whom they should.
RegistryInv ==
  /\ TypeOK
  /\ message \in Messages <=> loop \in {"contacts", "peers", "apply", "record"}
  /\ ContactsGuard => ~ contacts_writer
  /\ SnapshotIsSettled
  /\ DecisionIsCurrent
  /\ EntriesAreSigned

\* An entry is written only when the store, at that instant, trusts the agent
\* on the machine it announces, as far as the mesh policy asks.
RecordedOnlyIfTrusted ==
  [][\A a \in Others :
       LET k == encode_agent_id(a) IN
         k \in DOMAIN peers' /\ (k \in DOMAIN peers => peers'[k] # peers[k]) =>
           LET d == evaluate(contacts[a], peers'[k].capability.machine_id.of) IN
             allows_peer(d) /\ peers'[k].trust_decision = d]_vars

\* An entry changes only by a message its own agent signed, keeps the time it
\* was first seen, and no message removes or rewrites another agent's entry.
OwnEntryOnly ==
  [][\A k \in DOMAIN peers :
       /\ k \in DOMAIN peers'
       /\ peers'[k].first_seen_unix_secs = peers[k].first_seen_unix_secs
       /\ peers'[k] # peers[k] => message.verified /\ encode_agent_id(message.sender) = k]_vars

Atomic == INSTANCE AtomicReceive

\* The steps of the task, taken between other users' steps and lock by lock,
\* amount to judging and recording each message at one instant.
ImplementsAtomicReceive == Atomic!Spec

\* Every message that is received is applied, every request is answered: the
\* task that holds the store's guard while it waits for the registry's
\* cannot be part of a cycle of waiting.
MessagesAreApplied == loop = "contacts" ~> loop = "recv"

SnapshotsAreAnswered == \A h \in Handlers : handler[h] = "waiting" ~> handler[h] = "idle"

\* "Returns a stable snapshot of the currently accepted peer capabilities":
\* a peer whose announcement was just rejected for its trust is not listed.
ListedPeersAreAccepted ==
  disposition.outcome = "RejectedTrust" =>
    encode_agent_id(disposition.sender) \notin DOMAIN peers

\* "All identifiers are encoded as full lowercase hexadecimal so they can be
\* compared": the machine ids the registry lists are spelt that way.
ListedIdsAreCanonical == \A k \in DOMAIN peers : peers[k].capability.machine_id.lowercase
=============================================================================
