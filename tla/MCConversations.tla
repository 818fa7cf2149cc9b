--------------------------- MODULE MCConversations ---------------------------
(* Requests and persons are interchangeable.                                 *)
EXTENDS Conversations, TLC

Symmetry == Permutations(Requests) \cup Permutations(Persons)
=============================================================================
