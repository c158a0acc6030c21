---------------------------- MODULE MCChatRoster ----------------------------
EXTENDS ChatRoster

Symmetry == Permutations(SessionIds) \cup Permutations(Names)

=============================================================================
