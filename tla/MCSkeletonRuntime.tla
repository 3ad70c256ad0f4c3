------------------------- MODULE MCSkeletonRuntime -------------------------
(***************************************************************************)
(* Instances of SkeletonRuntime for TLC.                                   *)
(***************************************************************************)
EXTENDS SkeletonRuntime, TLC

CONSTANTS c1, c2, c3, c4, qwen, gemma, ghost, alice, blank

Config(id, n) == [id |-> id, max_parallel_reservations |-> n]
Create(m, who, n) ==
  [op |-> "create_reservation", model |-> m, consumer |-> who, requested_slots |-> n]
Release(id) == [op |-> "release_reservation", reservation_id |-> id]
Chat(m, stream, empty) ==
  [op |-> "chat_completion", model |-> m, stream |-> stream, messages_is_empty |-> empty]
Get(op) == [op |-> op]

MCCalls3 == {c1, c2, c3}
MCCalls4 == {c1, c2, c3, c4}
MCModelIds == {qwen, gemma, ghost}
MCConsumers == {alice, blank}

\* A model configured twice (the later entry counts) and one without slots.
MCModelConfigs == <<Config(qwen, 1), Config(gemma, 0), Config(qwen, 3)>>

\* Every operation, every early return.
MCAllRequests ==
  {Create(qwen, alice, 0), Create(qwen, blank, 1), Create(ghost, alice, 1),
   Create(gemma, alice, 1), Create(qwen, alice, 1), Create(qwen, alice, 2),
   Release(0), Release(1), Get("reservations"), Get("local_models"),
   Get("openai_models"), Chat(qwen, FALSE, FALSE), Chat(ghost, FALSE, FALSE),
   Chat(qwen, TRUE, FALSE), Chat(qwen, FALSE, TRUE)}

\* Two models with slots, and the operations that contend for them.
MCTwoModelConfigs == <<Config(qwen, 3), Config(gemma, 2)>>
MCContendingRequests ==
  {Create(qwen, alice, 1), Create(qwen, alice, 2), Create(qwen, alice, 3),
   Create(gemma, alice, 2), Release(1), Release(2), Get("local_models"),
   Chat(qwen, FALSE, FALSE)}

CallSymmetry == Permutations(Calls)
=============================================================================
