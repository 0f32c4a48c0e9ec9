--------------------------- MODULE GroupRegistry ----------------------------
(***************************************************************************)
(* What the groups promise to their users, without vectors: who is in      *)
(* which group, who leads it and who is marked online.                     *)
(***************************************************************************)
EXTENDS Naturals, FiniteSets

CONSTANTS Names, GroupIds, NoGroup, NoName, MyMaxGroupMembers

VARIABLES
    group,      \* the group of each character, or NoGroup
    leader,     \* the leader of each group, or NoName
    online      \* the members marked online
vars == <<group, leader, online>>

In(g) == {n \in Names : group[n] = g}

Init ==
    /\ group = [n \in Names |-> NoGroup]
    /\ leader = [g \in GroupIds |-> NoName]
    /\ online = {}

\* A character with no group founds one and leads it.
Found(n, g) ==
    /\ group[n] = NoGroup /\ In(g) = {}
    /\ group' = [group EXCEPT ![n] = g]
    /\ leader' = [leader EXCEPT ![g] = n]
    /\ online' = online \cup {n}

\* A character with no group enters a group that has room.
Enter(n, g) ==
    /\ group[n] = NoGroup
    /\ In(g) # {} /\ Cardinality(In(g)) < MyMaxGroupMembers
    /\ group' = [group EXCEPT ![n] = g]
    /\ online' = online \cup {n}
    /\ UNCHANGED leader

\* A member leaves or is removed.  Leadership changes hands only when the
\* leader goes, and then to a member that stays, if there is one.
Leave(n) ==
    LET g == group[n]
    IN  /\ g # NoGroup
        /\ group' = [group EXCEPT ![n] = NoGroup]
        /\ online' = online \ {n}
        /\ \/ leader[g] # n /\ UNCHANGED leader
           \/ /\ leader[g] = n
              /\ \E heir \in IF In(g) = {n} THEN {NoName} ELSE In(g) \ {n} :
                    leader' = [leader EXCEPT ![g] = heir]

\* The only member of a group moves to another group that has room.
Move(n, g) ==
    LET own == group[n]
    IN  /\ own \notin {NoGroup, g} /\ In(own) = {n}
        /\ In(g) # {} /\ Cardinality(In(g)) < MyMaxGroupMembers
        /\ group' = [group EXCEPT ![n] = g]
        /\ leader' = [leader EXCEPT ![own] = NoName]
        /\ online' = online \cup {n}

\* A member connects or disconnects.
Presence(n) ==
    /\ group[n] # NoGroup
    /\ online' \in {online \cup {n}, online \ {n}}
    /\ UNCHANGED <<group, leader>>

Next ==
    \E n \in Names :
        \/ Leave(n)
        \/ Presence(n)
        \/ \E g \in GroupIds : Found(n, g) \/ Enter(n, g) \/ Move(n, g)

Spec == Init /\ [][Next]_vars

=============================================================================
