------------------------ MODULE MCConversationTurns ------------------------
(* ConversationTurns for TLC: interchangeable turns. *)
EXTENDS ConversationTurns, TLC

TurnSymmetry == Permutations(Turns)

=============================================================================
