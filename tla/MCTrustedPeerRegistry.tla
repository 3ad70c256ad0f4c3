----------------------- MODULE MCTrustedPeerRegistry -----------------------
(***************************************************************************)
(* Instances of TrustedPeerRegistry for TLC.                               *)
(***************************************************************************)
EXTENDS TrustedPeerRegistry

CONSTANTS me, bob, eve, m1, m2, friends, other, h1

MCAgents == {me, bob, eve}
MCMachines == {m1, m2}
MCMeshNames == {friends, other}

Lower(x) == [of |-> x, lowercase |-> TRUE]
Mixed(x) == [of |-> x, lowercase |-> FALSE]

Cap(version, mesh, agent, machine, obs) ==
  [protocol_version |-> version, mesh_name |-> mesh, agent_id |-> agent,
   machine_id |-> machine, observed |-> obs]

Signed(a, cap) == [sender |-> a, verified |-> TRUE, payload |-> cap]

\* Two announcements of bob, one per machine, and one that eve makes in her
\* own name; then everything apply_message has an early return for.
Genuine ==
  {Signed(bob, Cap(1, friends, Lower(bob), Lower(m1), 1)),
   Signed(bob, Cap(1, friends, Lower(bob), Lower(m2), 2)),
   Signed(eve, Cap(1, friends, Lower(eve), Lower(m1), 1))}

Malformed ==
  {[sender |-> NoSender, verified |-> FALSE, payload |-> Cap(1, friends, Lower(bob), Lower(m1), 3)],
   [sender |-> bob, verified |-> FALSE, payload |-> Cap(1, friends, Lower(bob), Lower(m1), 3)],
   Signed(me, Cap(1, friends, Lower(me), Lower(m1), 1)),
   Signed(bob, Garbage),
   Signed(bob, Cap(2, friends, Lower(bob), Lower(m1), 3)),
   Signed(bob, Cap(1, other, Lower(bob), Lower(m1), 3)),
   Signed(eve, Cap(1, friends, Lower(bob), Lower(m1), 3)),
   Signed(bob, Cap(1, friends, Mixed(bob), Lower(m1), 3)),
   Signed(bob, Cap(1, friends, Lower(bob), Lower(NotHex), 3))}

MCMessages == Genuine \cup Malformed

\* One announcement whose machine id is spelt in capitals.
MCUppercaseMessages == Genuine \cup {Signed(bob, Cap(1, friends, Lower(bob), Mixed(m1), 1))}

Entry(level, pinned) == [trust_level |-> level, pinned |-> pinned]

\* Strangers, friends pinned to a machine, friends on any, blocked ones.
MCContactSettings ==
  {NoContact, Entry("Trusted", {}), Entry("Trusted", {m1}), Entry("Blocked", {})}

\* Acquaintances, which only a relaxed policy admits.
MCKnownSettings == {Entry("Unknown", {}), Entry("Known", {}), Entry("Known", {m2}), Entry("Trusted", {})}

MCFewSettings == {Entry("Trusted", {}), Entry("Blocked", {})}
=============================================================================
