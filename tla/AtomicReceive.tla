---------------------------- MODULE AtomicReceive ----------------------------
(***************************************************************************)
(* What the subscription loop (mesh.rs) promises the rest of the daemon,   *)
(* and what CapabilityMesh takes for granted: a message that is received   *)
(* is judged and recorded at one instant, by the contacts of that instant, *)
(* and nothing but a message changes the registry.                         *)
(***************************************************************************)
EXTENDS PeerMessages

VARIABLES contacts, peers, disposition

vars == <<contacts, peers, disposition>>

Init ==
  /\ contacts \in [Others -> ContactSettings]
  /\ peers = NoPeers
  /\ disposition = NoDisposition

Dispose(msg, outcome) == disposition' = [sender |-> msg.sender, outcome |-> outcome]

\* A malformed, foreign or forged message, or the daemon's own.
Discard(msg) ==
  /\ Screen(msg) # "Evaluate"
  /\ Dispose(msg, Screen(msg))
  /\ UNCHANGED <<contacts, peers>>

Judgement(msg) == evaluate(contacts[msg.sender], parse_machine_id_hex(msg.payload.machine_id))

Distrust(msg) ==
  /\ Screen(msg) = "Evaluate" /\ ~ allows_peer(Judgement(msg))
  /\ Dispose(msg, "RejectedTrust")
  /\ UNCHANGED <<contacts, peers>>

\* The sender's entry, and only its, is what it announced now.
Accept(msg, now) ==
  LET k   == encode_agent_id(msg.sender)
      old == k \in DOMAIN peers
  IN  /\ Screen(msg) = "Evaluate" /\ allows_peer(Judgement(msg))
      /\ peers' = [a \in DOMAIN peers \cup {k} |->
                     IF a # k THEN peers[a]
                     ELSE [capability |-> msg.payload, trust_decision |-> Judgement(msg),
                           first_seen_unix_secs |-> IF old THEN peers[k].first_seen_unix_secs ELSE now,
                           last_seen_unix_secs |-> now]]
      /\ Dispose(msg, IF old THEN "UpdatedPeer" ELSE "AcceptedNewPeer")
      /\ UNCHANGED contacts

Configure(a, setting) ==
  /\ contacts' = [contacts EXCEPT ![a] = setting]
  /\ UNCHANGED <<peers, disposition>>

Next ==
  \/ \E msg \in Messages : Discard(msg) \/ Distrust(msg) \/ \E now \in Times : Accept(msg, now)
  \/ \E a \in Others, setting \in ContactSettings : Configure(a, setting)

Spec == Init /\ [][Next]_vars
==============================================================================
