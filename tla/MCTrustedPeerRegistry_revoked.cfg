\* A peer that loses its trust: what the registry says of it afterwards.
CONSTANTS
  me = me
  bob = bob
  eve = eve
  m1 = m1
  m2 = m2
  friends = friends
  other = other
  h1 = h1
  Agents <- MCAgents
  Machines <- MCMachines
  LocalAgent = me
  MeshNames <- MCMeshNames
  mesh_name = friends
  trusted_friends_only = TRUE
  require_trusted_contacts = TRUE
  Observations = {1, 2, 3}
  Times = {0}
  ContactSettings <- MCFewSettings
  Messages <- Genuine
  Handlers = {h1}
  NoSender = NoSender
  NotHex = NotHex
  Garbage = Garbage
  NoContact = NoContact
  NoMessage = NoMessage
SPECIFICATION Spec
INVARIANTS
  ListedPeersAreAccepted
