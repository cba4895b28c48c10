---------------------- MODULE AssistantConversationMC ----------------------
(* A conversation of two messages, one for the assistant and one for the   *)
(* office, sent and sent again by interchangeable requests of a guest and  *)
(* of interchangeable clients.                                             *)
EXTENDS AssistantConversation, TLC

Symmetry == Permutations(Requests) \cup Permutations(Clients)
=============================================================================
