-------------------------- MODULE MCCapabilityMesh --------------------------
(***************************************************************************)
(* Instances of CapabilityMesh for TLC.                                    *)
(***************************************************************************)
EXTENDS CapabilityMesh

CONSTANTS ann, ben, cat, dan, eve, friends, lab

MCPair == {ann, ben}
MCMixed == {ann, ben, cat, dan, eve}

Everyone(value) == [d \in Daemons |-> value]
MCAlways == Everyone(TRUE)
MCNever == Everyone(FALSE)
MCFriends == Everyone(friends)
MCAcceptAll == Everyone(Daemons)

\* ann announces itself and accepts everybody; ben only listens; cat announces
\* without joining; dan requires a user identity it has not; eve is of
\* another mesh.
MCMixedJoin == [d \in Daemons |-> d # cat]
MCMixedAnnounce == [d \in Daemons |-> d # ben]
MCMixedRequire == [d \in Daemons |-> d = dan]
MCMixedMeshes == [d \in Daemons |-> IF d = eve THEN lab ELSE friends]
=============================================================================
