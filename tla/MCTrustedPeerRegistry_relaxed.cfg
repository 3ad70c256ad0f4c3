\* Neither trusted_friends_only nor require_trusted_contacts: acquaintances are admitted;
\* tasks and locks are fair.
CONSTANTS
  me = me
  bob = bob
  eve = eve
  m1 = m1
  m2 = m2
  friends = friends
  other = other
  h1 = h1
  Agents <- MCAgents
  Machines <- MCMachines
  LocalAgent = me
  MeshNames <- MCMeshNames
  mesh_name = friends
  trusted_friends_only = FALSE
  require_trusted_contacts = FALSE
  Observations = {1, 2, 3}
  Times = {0}
  ContactSettings <- MCKnownSettings
  Messages <- Genuine
  Handlers = {h1}
  NoSender = NoSender
  NotHex = NotHex
  Garbage = Garbage
  NoContact = NoContact
  NoMessage = NoMessage
SPECIFICATION FairSpec
INVARIANTS
  RegistryInv
PROPERTIES
  RecordedOnlyIfTrusted
  MessagesAreApplied
  SnapshotsAreAnswered
