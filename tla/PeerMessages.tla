---------------------------- MODULE PeerMessages ----------------------------
(***************************************************************************)
(* Capability announcements, contacts and records, and the decisions of    *)
(* apply_message (mesh.rs) about them, as both the registry and the        *)
(* abstract specification it implements use them.                          *)
(*                                                                         *)
(* An identifier travels as hexadecimal text: what it decodes to, and      *)
(* whether it is the lowercase form hex::encode writes.                    *)
(***************************************************************************)
EXTENDS Naturals

CONSTANTS
  Agents,                  \* x0x agent ids
  Machines,                \* x0x machine ids
  LocalAgent,              \* the agent of this daemon
  MeshNames, mesh_name,    \* mesh names on the network; config.mesh.name
  trusted_friends_only,    \* config.mesh
  require_trusted_contacts,
  Observations,            \* what else an announcement says: hardware, models, time
  Times,                   \* values of unix_timestamp_secs
  ContactSettings,         \* contact-store entries an agent may have
  Messages,                \* the announcements that may arrive
  NoSender, NotHex, Garbage, NoContact, NoMessage

TrustLevels == {"Unknown", "Known", "Trusted", "Blocked"}

TrustDecisions == {"Accept", "AcceptWithFlag", "RejectMachineMismatch", "RejectBlocked", "Unknown"}

HexText(ids) == [of : ids, lowercase : BOOLEAN]

PROTOCOL_VERSION == 1

CapabilityAnnouncement ==
  [protocol_version : Nat, mesh_name : MeshNames, agent_id : HexText(Agents),
   machine_id : HexText(Machines \cup {NotHex}), observed : Observations]

\* payload Garbage: bytes that are not the JSON of an announcement.
PubSubMessage ==
  [sender : Agents \cup {NoSender}, verified : BOOLEAN,
   payload : CapabilityAnnouncement \cup {Garbage}]

\* A contact of identity type Pinned lists its machines; pinned = {} for the rest.
Contact == [trust_level : TrustLevels, pinned : SUBSET Machines]

ASSUME MeshAssumption ==
  /\ LocalAgent \in Agents
  /\ mesh_name \in MeshNames
  /\ trusted_friends_only \in BOOLEAN /\ require_trusted_contacts \in BOOLEAN
  /\ ContactSettings \subseteq Contact \cup {NoContact}
  /\ Messages \subseteq PubSubMessage
  /\ NoSender \notin Agents /\ NotHex \notin Machines
  /\ Garbage \notin CapabilityAnnouncement /\ NoContact \notin Contact
  /\ NoMessage \notin Messages

PeerCapabilityRecord ==
  [capability : CapabilityAnnouncement, trust_decision : TrustDecisions,
   first_seen_unix_secs : Times, last_seen_unix_secs : Times]

CapabilityDisposition ==
  {"AcceptedNewPeer", "UpdatedPeer", "IgnoredSelf", "RejectedMissingSender",
   "RejectedUnverifiedSender", "RejectedInvalidPayload", "RejectedUnsupportedProtocol",
   "RejectedWrongMesh", "RejectedSenderMismatch", "RejectedInvalidMachineId", "RejectedTrust"}

\* Before the first message.
NoDisposition == [sender |-> NoSender, outcome |-> "None"]

\* The agents a contact may describe.
Others == Agents \ {LocalAgent}

(***************************************************************************)
(* Identifiers (x0x_identity.rs) and trust (x0x).                          *)
(***************************************************************************)
encode_agent_id(a) == [of |-> a, lowercase |-> TRUE]

\* hex::decode takes either case; NotHex is text that does not give 32 bytes.
parse_machine_id_hex(text) == text.of

\* TrustEvaluator::evaluate, as the tests of mesh.rs show it.
evaluate(contact, machine) ==
  IF contact = NoContact THEN "Unknown"
  ELSE IF contact.trust_level = "Blocked" THEN "RejectBlocked"
  ELSE IF contact.pinned # {} /\ machine \notin contact.pinned THEN "RejectMachineMismatch"
  ELSE IF contact.trust_level = "Trusted" THEN "Accept"
  ELSE IF contact.trust_level = "Known" THEN "AcceptWithFlag"
  ELSE "Unknown"

allows_peer(d) ==
  \/ d = "Accept"
  \/ d = "AcceptWithFlag" /\ ~ trusted_friends_only /\ ~ require_trusted_contacts

(***************************************************************************)
(* apply_message: the checks, in the order the code makes them.            *)
(***************************************************************************)
\* Mutant of Screen: the announced agent id is taken at its word.
ScreenTrustsPayload(msg) ==
  IF msg.sender = NoSender THEN "RejectedMissingSender"
  ELSE IF ~ msg.verified THEN "RejectedUnverifiedSender"
  ELSE IF encode_agent_id(msg.sender) = encode_agent_id(LocalAgent) THEN "IgnoredSelf"
  ELSE IF msg.payload = Garbage THEN "RejectedInvalidPayload"
  ELSE IF msg.payload.protocol_version # PROTOCOL_VERSION THEN "RejectedUnsupportedProtocol"
  ELSE IF msg.payload.mesh_name # mesh_name THEN "RejectedWrongMesh"
  ELSE IF parse_machine_id_hex(msg.payload.machine_id) = NotHex THEN "RejectedInvalidMachineId"
  ELSE "Evaluate"

Screen(msg) ==
  IF msg.sender = NoSender THEN "RejectedMissingSender"
  ELSE IF ~ msg.verified THEN "RejectedUnverifiedSender"
  ELSE IF encode_agent_id(msg.sender) = encode_agent_id(LocalAgent) THEN "IgnoredSelf"
  ELSE IF msg.payload = Garbage THEN "RejectedInvalidPayload"
  ELSE IF msg.payload.protocol_version # PROTOCOL_VERSION THEN "RejectedUnsupportedProtocol"
  ELSE IF msg.payload.mesh_name # mesh_name THEN "RejectedWrongMesh"
  ELSE IF msg.payload.agent_id # encode_agent_id(msg.sender) THEN "RejectedSenderMismatch"
  ELSE IF parse_machine_id_hex(msg.payload.machine_id) = NotHex THEN "RejectedInvalidMachineId"
  ELSE "Evaluate"

IsRegistry(map) ==
  /\ map \in [DOMAIN map -> PeerCapabilityRecord]
  /\ DOMAIN map \subseteq HexText(Agents)

NoPeers == [k \in {} |-> 0]
=============================================================================
