--------------------------- MODULE MCAdminAccess ----------------------------
(***************************************************************************)
(* AdminAccess with an administrator and a player.                         *)
(***************************************************************************)
EXTENDS AdminAccess, TLC

Symmetry == Permutations(Characters)

=============================================================================
