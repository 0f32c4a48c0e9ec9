------------------------ MODULE MCGroupController --------------------------
(***************************************************************************)
(* GroupController with two bots and one game client.                      *)
(***************************************************************************)
EXTENDS GroupController

MCToLower == [n \in Names |-> n]

=============================================================================
