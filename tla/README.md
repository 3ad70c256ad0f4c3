# x0x-compute in TLA+

x0x-compute is a daemon that offers a machine's models to a mesh of trusted
friends. It keeps a ledger of model reservations behind a local HTTP API, and a
registry of what other daemons have announced over x0x gossip. These modules
model the daemon's own logic from its source (`src/src/*.rs`); TLC checks them on
small instances and TLAPS proves the main safety results for every instance.
File names below are relative to `src/src/` in the repository.

## 1. Inventory

| Component | Source | State | Operations |
|---|---|---|---|
| Skeleton runtime adapter | `runtime.rs` | one `Mutex`: `next_reservation_id`, `next_completion_id` (u64), `reservations` (map by id); immutable `models` | `local_models`, `create_reservation`, `reservations`, `release_reservation`, `openai_models`, `chat_completion` |
| Runtime adapter trait | `runtime.rs` | none of its own | the same six, as a promise to callers |
| HTTP API | `daemon.rs`, `error.rs` | `AppState` shared by the handlers | one handler per route; `into_response` maps an error to a status |
| Trusted peer registry | `mesh.rs` | `peers` (map by agent id) behind a tokio `RwLock` | `apply_message`, `snapshot` |
| Subscription loop | `mesh.rs` | the message in hand, a read guard on the contacts, a write guard on the registry | receive, lock, apply, log |
| Capability announcements | `capability.rs`, `mesh.rs` | none | `CapabilityAnnouncement::local`, `announce_local_capability` |
| Identity | `x0x_identity.rs` | none | hexadecimal encoding and parsing of ids, `build_agent` |
| Daemon start-up | `daemon.rs` | everything above, in memory only | `from_config`; `run`: join, subscribe, announce once, bind, serve |
| Configuration file | `config.rs` | the TOML file | `load_or_default`, `write_to_path`, `write_default` |
| Command line | `bin/*.rs` | none | `start`, `check`, `identity`, `capability`, `print-config` |
| Hardware profile | `capability.rs` | none | reads `sysinfo` |
| x0x (external crate) | used by `mesh.rs`, `x0x_identity.rs` | contact store behind an `RwLock`, keys, gossip | `TrustEvaluator::evaluate`, `publish`, `subscribe`, `join_network` |

How they interact. The handlers run as concurrent tasks; each calls the runtime
adapter, whose operations lock one mutex, or takes a read guard on the registry. The subscription loop
is one more task; for each gossip message it takes a read guard on x0x's contact
store, then a write guard on the registry, and holds both while `apply_message`
runs. The contact store is written by other users of the agent. Nothing is
persisted except the configuration file and x0x's own keys and contacts.

What is hard, and the properties that make each part correct:

* **Runtime**: several POST and DELETE requests at once. Counting the free slots,
  comparing and inserting are separate statements, so they are right only because
  of the guard. u16 sums saturate and could hide used slots; the u64 id counter
  saturates and could repeat ids. Correct means: no model over-reserved, the
  counts exact, a refusal justified in the state it is made in, ids issued and
  released once, no call waiting for ever.
* **Registry**: messages lost, repeated, reordered, forged or malformed; contacts
  changed between evaluation and record; two locks held at once. Correct means: an
  entry stands for an announcement its own agent signed, was trusted at the
  instant it was written, and is changed by nobody else; nobody waits for ever.
* **Start-up and mesh**: a daemon announces once, before it binds; a restart
  forgets the registry. Correct means: two daemons that accept each other meet,
  and a registry lists only members.
* **Reservation clients**: an answer may be lost, so a client sends again; a
  restart forgets the ledger and starts the ids at 1 again. Correct means: who
  was granted a slot keeps it, and every taken slot has a reason.
* **Configuration**: the file is read and overwritten in place by several
  processes, any of which may be stopped. Correct means: a command acts on a
  whole configuration that was there, and never waits.

`PROJECT.json` lists the hazards line by line, with the properties that cover
them or the reason why none does yet.

## 2. Modules

| Module | What it is |
|---|---|
| `SlotSums` | the saturating u16 fold of `reserved_slots_for_model`, and the exact sum it should be; both as recursive functions |
| `RuntimeInterface` | configured models, requests, replies, errors and statuses, slot accounting |
| `RuntimeAdapter` | abstract specification: each operation takes effect at one instant; and what its callers may rely on |
| `SkeletonRuntime` | the adapter as its code runs: checks, lock, count, decide, answer |
| `MCSkeletonRuntime` | instances for TLC |
| `RuntimeInterfaceProofs` | lemmas about sums, ledgers, requests and answers, for every adapter |
| `RuntimeAdapterProofs` | theorems about the trait's specification |
| `SkeletonRuntimeProofs`, `SkeletonRepliesProofs` | theorems about the skeleton runtime |
| `ReservationClients` | clients that retry, connections that lose, a daemon that restarts |
| `MCReservationClients` | instance for TLC |
| `ReservationClientsProofs` | theorems |
| `PeerMessages` | announcements, contacts, trust, and the checks of `apply_message` that need no state |
| `AtomicReceive` | abstract specification: a message is judged and recorded at one instant |
| `TrustedPeerRegistry` | subscription loop, registry, reading handlers, contact store |
| `MCTrustedPeerRegistry` | instances for TLC |
| `TrustedPeerRegistryProofs` | theorems |
| `CapabilityMesh` | several daemons: start-up, one announcement each, gossip, crash and restart |
| `MCCapabilityMesh` | instances for TLC |
| `CapabilityMeshProofs` | theorems |
| `ConfigFile` | the configuration file and the commands of both programs |
| `MCConfigFile` | instances for TLC |
| `ConfigFileProofs` | theorems |

How they compose. `SkeletonRuntime` implements `RuntimeAdapter`: an operation
takes effect at one instant. `ReservationClients` builds on that and takes each
operation as one step. `TrustedPeerRegistry` implements `AtomicReceive`, which is
why `CapabilityMesh` may take `apply_message` as one step.

A definition named "Mutant of X" is X with a plausible mistake; no specification
uses it. Substituted for X it breaks the property it is paired with in
`PROJECT.json`, which shows that the property depends on that line of the code.

### SkeletonRuntime

`next_reservation_id`, `next_completion_id` and `reservations` are the fields of
`SkeletonRuntimeState`. `guard` is the set of calls that hold a `MutexGuard`: a
set, so that mutual exclusion has to be proved. `pc`, `request`,
`available_slots` and `reply` are a handler task's progress, argument, local and
answer; each member of `Calls` is one HTTP call, served once.

| Action | Code |
|---|---|
| `Call` | the router starts the handler |
| `Reject` | early returns before `lock_state` (`CreateError`, `ChatError`, in source order) |
| `lock_state` | `self.lock_state()` |
| `CountReserved` | `reserved_slots`, `available_slots` in `create_reservation` |
| `RefuseReservation`, `GrantReservation` | the comparison, the error, or counter, insert and answer |
| `Reservations`, `LocalModels`, `OpenAiModels` | the reading operations |
| `ReleaseReservation`, `ReleaseUnknown` | `remove(..)`, `Some` and `None` |
| `ChatCompletion` | completion counter and answer |

Abstracted: a reservation id is the number behind `resv-{n:06}`, 0 for any other
text; a completion's wording and token estimates, a model's family and limits,
and timestamps are left out, since no branch reads them. A poisoned mutex is entered like
any other by `lock_state`, and no statement under the guard panics, so
poisoning is not a separate behaviour.

`models` keeps the later of two configured entries with one id, as `collect()`
into a `BTreeMap` does; the TLC instances configure such a duplicate.

### ReservationClients

`next_reservation_id` and `reservations` are the runtime's state, `life` counts
the processes of the daemon, `requests` and `answers` are under way, and `pc`,
`sends` and `held` are a client's. A reservation is known by its *tag*, the
client and the number of the POST that made it; no code sees a tag.

| Action | Code |
|---|---|
| `create_reservation`, `ModelCapacityExceeded` | `create_reservation` (handler and adapter), granted or refused |
| `release_reservation`, `ReservationNotFound` | `delete_reservation`, 204 or 404 |
| `Restart` | the process ends, `from_config` builds an empty runtime |
| `Post`, `Delete`, `Receive` | a client (external): reserves, releases what it was granted, sends again while unanswered |
| `LoseRequest`, `LoseAnswer` | the connection (external) |

A client that sends again uses a new connection: the answer to what it sent
before finds nobody, but the request itself may still be served, at any later
time and also by the next process. All requests are for one slot of one model;
sums of several slots are the subject of `SkeletonRuntime`. The counter does not
saturate here.

### TrustedPeerRegistry

`PeerMessages` holds what does not depend on its state: message and record types,
`Screen`, `evaluate`, `allows_peer`.
`loop` is where the subscription task is, and by it which guards it holds
(`ContactsGuard`, `PeersGuard`); `message` and `decision` are its locals;
`disposition` is the last outcome, which the code logs. `handler` are the tasks
serving `GET /v1/capabilities/peers`. `contacts` and `contacts_writer` stand for
x0x's contact store and are external, as is `evaluate`, whose results are those
the tests of `mesh.rs` show.

| Action | Code |
|---|---|
| `Recv`, `SubscriptionEnds` | `subscription.recv()` gives a message, or `None` |
| `ReadContacts`, `WritePeers` | `contacts.read().await`, `peers.write().await` |
| `Reject` | `apply_message` up to the machine id (`Screen`, one case per return, in source order) |
| `RejectTrust`, `Evaluate` | trust decision and `allows_peer` |
| `Record` | update or insert of the record |
| `PeerCapabilities`, `ReadPeers`, `Snapshot` | the handler |
| `LockContacts`, `SetContact` | some other user of the contact store (external) |

Identifiers travel as text: what it decodes to, and whether it is the lowercase
form. `agent_id` is compared as text with the encoded sender, so capitals are a
mismatch; `machine_id` is only parsed, so capitals pass. Gossip is any message of
`Messages` at any time, which covers loss, repetition and every order. The clock
is any member of `Times`, so it may step back.

### CapabilityMesh

`pc` is how far a daemon's process has come in `from_config` and `run`; `life`
counts its processes; `listening` says that the subscription task runs; `inbox`
holds the announcements gossip has yet to hand to it; `peers` is the registry, an
agent's entry being the life that announced it. `lost` records between whom gossip
has lost a message, so that properties can ask for none.

| Action | Code |
|---|---|
| `from_config` | `ComputeDaemon::from_config`, with `build_agent`'s refusal for want of a user identity |
| `JoinNetwork`, `StayLocal` | the two branches on `join_network_on_start` |
| `Subscribe` | `start_capability_subscription_loop` up to its return |
| `announce_local_capability`, `StaySilent` | the branch on `announce_on_start` |
| `Serve` | bind and serve |
| `Stop` | any `?` of `run`, or a crash: the process and all it knew is gone |
| `Receive` | one turn of the loop, `apply_message` as one step (its checks are those of `TrustedPeerRegistry`: not the daemon's own, same mesh, accepted) |
| `SubscriptionEnds` | `recv` returns `None` |
| `Publish`, `Lose` | x0x gossip (external): to every live subscription, unless lost; copies and any order |

Whom a daemon accepts is a constant here (`accepts`); contacts that change are the
subject of `TrustedPeerRegistry`.

### ConfigFile

`file` is what each path holds: a configuration, nothing, or a text that does not
parse (`Torn`). `command`, `pc` and `config` are a process's; `opened` says that
the file it truncated is still the one at its path; `held` records what the file
held while it was being loaded, and `printed` what the command printed.

| Action | Code |
|---|---|
| `FoundFile`, `NoFile` | `config_path.exists()`; false also where the file cannot be looked up |
| `Read`, `ReadFails` | `read_to_string` and `toml::from_str` |
| `Start`, `Inspect`, `NoUserIdentity` | `start` (or `x0x-computed`), `check`, `identity`, `capability`, and `build_agent`'s refusal |
| `CreateFile`, `WriteAll`, `WriteFails` | `write_default`: `std::fs::write` opens and truncates, then writes |
| `PrintConfig` | prints the configuration that was loaded |
| `Interrupt` | the process is killed, or fails in something else |
| `Edit` | somebody replaces the file by a whole one, or removes it (external) |

A default configuration is far shorter than what one `write` takes, so it is
written whole or not at all. Every prefix of it lacks a table that has no serde
default, so an empty or truncated file never decodes.

## 3. Runs

| Run | Instance | What it shows |
|---|---|---|
| `runtime_operations` | 3 calls, every kind of request and every early return, fair | `TypeOK`; `LedgerMatchesReplies`: the ledger is exactly the 201s without the 204s; `EachIdOnce`; `RefusedOnlyWhenFull`; `ImplementsRuntimeAdapter`: the code's steps refine the trait's atomic operations; `EveryCallAnswered` |
| `runtime_contention` | 4 calls for the slots of 2 models, 3 ids | `CapacityRespected`, `FoldIsExact`, `RuntimeInv`, also after the counter has saturated and a grant replaces a reservation; `ReleasedIdsStayReleased` before that |
| `registry_strict` | default policy, genuine and all malformed messages | `TypeOK`, `EntriesAreSigned`, `RecordedOnlyIfTrusted`, `OwnEntryOnly`; `ImplementsAtomicReceive`: the steps between the two guards refine one atomic receive |
| `registry_relaxed` | both policy switches off, known contacts, fair | `RegistryInv`, `RecordedOnlyIfTrusted`, `MessagesAreApplied`, `SnapshotsAreAnswered` |
| `registry_revoked` | a contact that is blocked later | finding: `ListedPeersAreAccepted` fails |
| `registry_canonical` | a machine id in capitals | finding: `ListedIdsAreCanonical` fails |
| `mesh_restarts` | 2 daemons, 2 lives each, fair | `PairDiscovered`: once nothing is under way between two daemons that accept each other, one lists the other; `MeshInv`; `MissedUntilRestart`: who missed a daemon's announcement does not list it until it is restarted; `NeighboursMeet` |
| `mesh_policy` | 5 daemons: one plain, one silent, one not joined, one without its user identity, one of another mesh | `OnlyMembersAreListed` |
| `mesh_late` | 2 daemons, fair | finding: `NeighboursMeetBothWays` fails |
| `clients_retries` | 2 clients, 4 requests each, 2 slots, 2 lives | `HeldUnlessStaleDelete`: a grant of this life stands until its client deletes it, or a DELETE from before the restart names its number; `SlotsAreAccountedFor`: a taken slot is known to its client, or the work of a POST that was given up or still waits; `LeakedUntilRestart`: such a slot is never freed; `StarvedUntilRestart`: a model that has lost all its slots that way grants nothing more; `ClientsInv` |
| `config_commands` | 2 commands of any kind on one path, 2 edits, fair | `TornOnlyWhileWritten`, `LoadedWasOnDisk`, `ConfigInv`, `TornStaysTorn`: no command mends a torn file; `EveryCommandEnds` |
| `config_printed` | the same without edits | finding: `PrintsWhatItWrote` fails |

Bounds. `MaxU16 = 3` is u16::MAX and the capacity of one model, so the sums
reach the width at which the fold would saturate. `MaxU64` is u64::MAX: 4 in `runtime_operations`, out of reach of three grants,
since its properties are about distinct ids; 3 in `runtime_contention`, where the
fourth grant finds the counter saturated. Two racing creates, a
release and a later create need four calls; each race in the code is between
two holders of one guard. The registry has two remote agents, of which one has
two machines (they overwrite each other's entry), and one reading handler: more
readers exclude the writer no differently. Message sets hold one message per
early return. `Calls` is symmetric in `runtime_contention`, which checks no
liveness.

The mesh properties speak of pairs, so two daemons suffice; two lives let an
announcement of an old life arrive after one of a new. `MaxLives` bounds only how
often a process is started.

Four requests let a client POST, give up, POST again, be granted, and repeat a
DELETE; two lives and two clients let a DELETE of the first life meet a grant of
the second, and two slots let a lost answer take one while the other is in use.
`Clients` is symmetric; the run checks no liveness. Two commands give every pair
of a writer and a reader, or of two writers, on one path; one is reached by
`--config`, the other below the working directory, so that a path resolved
differently for reading and writing would show. Two edits let a file vanish and
come back between two steps of a command.

Deadlock is checked in the runtime's and the registry's runs. In the others the
system may really stop: no daemon need be started again, a client may have sent
all it sends, every command may have ended. `Quiet` lets a runtime whose calls are all
answered stutter; in the registry the contact store and the handlers can always
go on.

Fairness. A handler task that can run is eventually polled (weak fairness of
`Step`). With finitely many calls that each hold the mutex for finitely many
steps, this alone gives the mutex to everyone, so no fair mutex is assumed. For
the registry, weak fairness of the task's and the handlers' own steps, weak
fairness of releasing the contact store's write guard, and strong fairness of
taking a guard of a tokio `RwLock`, whose documentation promises a first-come
queue: without it, an unending stream of readers could starve the writer.
Nothing is assumed of the arrival of messages or requests. In the mesh a
process goes on with its start-up, and an announcement that stays under way is
received; it may be lost instead, and nobody has to start a daemon. A command
that can go on does (weak fairness of a process's own steps); nobody has to kill
one or edit the file. The clients' run assumes no fairness.

## 4. Findings

* **A peer whose trust is withdrawn stays listed** (`registry_revoked`,
  `mesh.rs:118`). `snapshot` is documented as "the currently accepted peer
  capabilities", but a rejected announcement returns early and no code removes an
  entry: a contact that is blocked after it was recorded remains in the answers
  of `/v1/capabilities/peers` until the daemon restarts.
* **Listed machine ids need not be lowercase** (`registry_canonical`,
  `mesh.rs:108`). `AgentIdentitySnapshot` is documented as lowercase "so they can
  be compared", but an announced `machine_id` is stored as it came once it
  decodes, and decoding takes capitals.
* **A late daemon never learns of earlier ones** (`mesh_late`, `daemon.rs:82`).
  The configuration carries `resource_announce_interval_secs = 60`, but nothing
  reads it: a daemon announces once, while it starts. One that subscribes later
  does not list it, however long both run. (Gossip is taken to reach the
  subscriptions that exist when a message is published.)
* **`print-config --write-default` prints what it overwrote** (`config_printed`,
  `bin/x0x-compute.rs:75`). The flag is documented as "Write the default config
  to disk before printing it", but `main` loads the configuration before it
  matches the command, and prints that one.

Three more things the model shows, though no line of the repository promises
otherwise. After a restart, a DELETE from before it releases whatever reservation
has got the same number since (the second disjunct of `HeldUnlessStaleDelete`;
TLC reaches it). And `--write-default` is no remedy for a file that does not
parse, since the command fails when it loads that file (`TornStaysTorn`). And
since nothing expires a reservation, as many lost answers as a model has slots
close it to everybody until the daemon restarts (`StarvedUntilRestart`).

## 5. Proofs

All theorems hold for every set of calls, requests, models, agents, messages and
contact settings that the named assumptions allow: `MaxU16`, `MaxU64` positive
naturals, `ModelConfigs` a sequence of entries with u16 capacities, `Requests`
well-typed; `MeshAssumption` for the registry (typed constants, distinct
placeholders) and for the mesh (per-daemon settings); `ClientsAssumption`
(natural bounds) and `ConfigAssumption` (typed paths and settings, the default
requires no user identity). TLC evaluates these assumptions in every run.

**Sums and ledgers** (`RuntimeInterfaceProofs`). `ExactSum` and `SaturatingSum` are recursive
functions; their defining equations are derived first, then what an update of one
summand does to the exact sum, and that the saturating fold is the exact sum
capped at `MaxU16`. Induction goes through a set of naturals closed under
successor (`SetInduction`), because the provers cannot instantiate the library's
induction rule, which takes an operator. On these rest the lemmas both runtime
specifications use: an insertion adds its slots to its own model and to no other,
a removal adds none, a request that passes the checks asks for a record the
ledger may hold, and answers of different kinds differ.

**The trait** (`RuntimeAdapterProofs`). What callers want to know is not what the
trait's specification says step by step, but follows from it: `CallersMayRelyOn`
(no model is overcommitted, the answers tell the ledger, ids are unique),
`IdsAreNotReused` and `ListingsAgree` (a listing agrees with every answer given
before it, to any call). `AdapterInv` adds that a call is answered once, that the
ids issued are those granted and that what was released had been granted. No
hypothesis about counters is needed, since the specification grants only new ids.
A second backend has to be shown to implement `RuntimeAdapter` and inherits all
of it. Theorems: `AdapterTheorem`, `ReuseTheorem`, `ListingTheorem`.

**Runtime** (`SkeletonRuntimeProofs`). `CapacityRespected` is not inductive: a
grant is safe only if the count it compares with is still true. `RuntimeInv` adds
why it is: the guard is held by one call (`OneHolder`), only its holder changes
the ledger, and so a counted call's `available_slots` is what counting again would give
(`CountIsCurrent`). A grant of at most that many slots keeps the exact sum within
the capacity, and since a capacity is a u16 the fold does not saturate. With a
saturated counter a grant replaces a reservation, which only takes slots away
first. Theorems: `RuntimeInvariant`, `TypeCorrect`, `CapacityTheorem`,
`FoldTheorem`, `RefusalTheorem`, `ReleaseTheorem`.

**Answers** (`SkeletonRepliesProofs`). `LedgerMatchesReplies` and `EachIdOnce`
relate the ledger to all answers so far. `RepliesInv` adds that a call is answered
once, that granted ids were issued and that what was released had been granted;
then a grant's id is new, and a release's was not released before.
`RuntimeAdapterImplemented` proves the refinement: each step up to the one that
answers is a stutter, and the answering step is the trait's operation, because by
`CountIsCurrent` what was counted under the guard is true in the state in which it is used.
It assumes `CountersLast`: once a u64 counter has saturated, ids repeat and the
trait's promise of a new id is broken, as the code has it. How long that takes is
proved too. Each answered call advances at most one counter, by one, so the two
counters together never exceed the number of answered calls (`CountersEarned`),
and a daemon that serves fewer than u64::MAX calls in its life (`FewCalls`) never
gets there: `CountersTheorem`. For such a daemon the condition disappears from the
refinement (`TraitTheorem`), and what the trait promises callers holds of the code
in every state (`CallersTheorem`, `SkeletonReuseTheorem`,
`SkeletonListingTheorem`). Theorems: `LedgerTheorem`, `IdsTheorem`,
`RuntimeAdapterImplemented` and those just named.

**Clients** (`ReservationClientsProofs`). What a client holds and what the ledger
holds are related only through requests and answers under way, so `ClientsInv`
speaks of those too: a request is served once (`RequestInv`), an answer belongs to
what its client last sent (`AnswerInv`), and in one life ids and granted POSTs
correspond one to one wherever a grant still shows (`GrantsAreUnique`). A DELETE
of this life therefore frees only its sender's slot. A POST that was given up
stays unanswered, since its connection is closed (`GivenUpStays`), so its slot
cannot be named later either; when every slot of a model is of that kind, nothing
is granted and nothing is freed (`StarvedTheorem`). The exception both properties
make, a DELETE from before a restart, is one the code has. Theorems:
`ClientsInvariant`, `HeldTheorem`, `SlotsTheorem`, `LeakedTheorem`,
`StarvedTheorem`.

**Registry** (`TrustedPeerRegistryProofs`). `RegistryInv` says that the task holds
a message exactly while it handles one, that the locks exclude whom they should,
and that at `record` the decision is the one the store gives now: the store
cannot change while the task holds its guard. From it follow `SignedEntries`,
`TrustedRecords`, `RegistryTypes`, `OwnEntries` (the key an entry is filed under is
its sender's) and `AtomicReceiveImplemented`: the decision taken at `Evaluate` is
the one of the instant of `Record`, so that `Record` alone is the abstract
`Accept` and every step before it a stutter. `AtomicReceiveSuffices` looks at the
abstraction from the other side: the atomic receive alone implies
`EntriesAreSigned` and `RecordedOnlyIfTrusted`, so a model that uses it in place of
the task and its locks, as `CapabilityMesh` does, loses neither.

**Mesh** (`CapabilityMeshProofs`). `PairDiscovered` speaks of states in which
nothing is under way; the invariant `MeshInv` covers the others: of two neighbours
one lists the other or is about to be told (`OneWasTold`). It is inductive because
a daemon that announces finds every neighbour-to-be already listening, which
`StartedInOrder` says of every daemon that has announced. `MessagesAreGenuine`
carries the configuration's limits from the sender to the registry.
`MissedTheorem` is the general form of the finding `mesh_late`: what is on its way
to a daemon afterwards was on its way before or is published in that step by the
agent it is from, and a process publishes once; so for any number of daemons a
missed announcement stays missed until its sender restarts. Theorems:
`MeshInvariant`, `PairTheorem`, `MembersTheorem`, `MissedTheorem`.

**Configuration** (`ConfigFileProofs`). `ConfigInv` says that a file which is open
was truncated by a command that had loaded its configuration first, and that while a command is
loading, what the file holds now is among what it held. `TornStaysTorn` follows
because a torn file sends every command that has yet to load it to its error.
Theorems: `ConfigInvariant`, `TornTheorem`, `LoadedTheorem`,
`TornStaysTornTheorem`.

**Only model-checked.** Liveness (`EveryCallAnswered`, `MessagesAreApplied`,
`SnapshotsAreAnswered`, `NeighboursMeet`, `EveryCommandEnds`): fairness and
ENABLED are beyond TLAPS. Every other property of a passing run is a theorem. What a `RECURSIVE` operator
computes is out of TLAPS's reach, so none is used.

## 6. Not modelled

* The handlers for health, identity, local capability and configuration return
  values fixed at start-up.
* The wording of a completion, the choice of the prompt and the token estimates
  are functions of one request: no state, no branch and no other call depends on
  them. The actions keep the completion id, which is shared state.
* The hardware profile, logging and argument parsing: plain I/O without decisions.
* Key files and their paths: `build_agent` hands them to x0x.
* What becomes of a subscription that ended: nothing in the code restarts it.
  Reads are still answered (`SnapshotsAreAnswered`), and the properties about
  discovery ask that it has not happened.
* x0x itself: contacts, trust evaluation and gossip appear only as this code uses
  them.

## 7. State of the plan

Every component with state is modelled, its invariants and refinements are proved,
and its liveness is model-checked. If the code gains one of the following, the
model to extend is:

1. A periodic announcement (`resource_announce_interval_secs`): `CapabilityMesh`,
   where `NeighboursMeetBothWays` should then hold and `MissedUntilRestart` fail.
2. Eviction of peers: `AtomicReceive` and `TrustedPeerRegistry`, where
   `ListedPeersAreAccepted` should then hold.
3. Expiry or persistence of reservations: `ReservationClients`, where
   `LeakedUntilRestart`, `StarvedUntilRestart` and the exception in
   `HeldUnlessStaleDelete` should then fall away.
4. A second runtime backend: one more implementation of `RuntimeAdapter`, to
   which the theorems of `RuntimeAdapterProofs` then apply.
