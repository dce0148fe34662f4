-------------------------- MODULE MCConversation --------------------------
(* Conversation.tla for TLC. *)
EXTENDS Conversation, TLC

\* Handlers are interchangeable; sound for the safety runs.
HandlerSymmetry == Permutations(Handlers)

=============================================================================
