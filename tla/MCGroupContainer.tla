-------------------------- MODULE MCGroupContainer --------------------------
(***************************************************************************)
(* GroupContainer on a small instance.                                     *)
(***************************************************************************)
EXTENDS GroupContainer, TLC

\* No two names of this instance differ only in capitalization.
MCToLower == [n \in Names |-> n]

Symmetry == Permutations(Names) \cup Permutations(GroupIds)

\* Keep is remove_if followed by erase: it keeps the selected entries in order.
ASSUME EraseIsSelectSeq ==
    \A size \in 0 .. 4 : \A groups \in [1 .. size -> [name : 1 .. 3]] : \A n \in 1 .. 3 :
        Erase(groups, n) = SelectSeq(groups, LAMBDA member : member.name # n)

=============================================================================
