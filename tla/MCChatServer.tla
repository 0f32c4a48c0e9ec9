---------------------------- MODULE MCChatServer ----------------------------
(***************************************************************************)
(* ChatServer on small instances: three characters with a socket each, or  *)
(* two characters with one socket, or with three to reconnect with.        *)
(***************************************************************************)
EXTENDS ChatServer, TLC

\* The only names that differ in capitalization are "bob" and "Bob".
MCToLower == [n \in Names |-> IF n = "Bob" THEN "bob" ELSE n]

\* No client unsubscribes.
KeepAll == {}

\* Clients unsubscribe from custom channels, and from group topics too.
DropSome == {Custom(t) : t \in UserTopics} \cup {GroupTopic(g) : g \in GroupIds}

Symmetry == Permutations(Names) \cup Permutations(Sockets) \cup Permutations(GroupIds)
SpareSymmetry == Permutations(Sockets) \cup Permutations(GroupIds)

=============================================================================
