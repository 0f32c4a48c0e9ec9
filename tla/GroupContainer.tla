--------------------------- MODULE GroupContainer ---------------------------
(***************************************************************************)
(* The in-memory registry of groups and invitations, GroupContainer.cpp:   *)
(* the two vectors as variables and one action per public operation that   *)
(* changes them.  A call that is refused returns an error code and changes *)
(* nothing, so it is the absence of a step.  The server, which decides in  *)
(* which order these operations are called, is module ChatServer.          *)
(***************************************************************************)
EXTENDS GroupOps

CONSTANT MaxInvites     \* bound of the model: invitations kept at a time
ASSUME MaxInvitesAssumption == MaxInvites \in Nat

VARIABLES
    MyGroups,           \* a sequence of GroupMember
    MyInvites           \* a set of GroupInvite
vars == <<MyGroups, MyInvites>>

Init == MyGroups = <<>> /\ MyInvites = {}

-----------------------------------------------------------------------------

\* The new id is a random UUID: any id that no group uses.
Start(n) ==
    /\ GroupStartAccepted(MyGroups, n)
    /\ \E g \in GroupIds \ GetUniqueGroupIds(MyGroups) :
          MyGroups' = GroupStartGroup(MyGroups, n, g)
    /\ UNCHANGED MyInvites

Join(n, leader) ==
    /\ GroupJoinAccepted(MyGroups, n, leader)
    /\ MyGroups' = GroupJoin(MyGroups, n, leader)
    /\ UNCHANGED MyInvites

Kick(n, leader) ==
    /\ GroupKickAccepted(MyGroups, n, leader)
    /\ MyGroups' = GroupKickMember(MyGroups, n)
    /\ UNCHANGED MyInvites

Disband(n) ==
    /\ MyGroups' = GroupDisband(MyGroups, n)
    /\ MyInvites' = GroupDisbandInvites(MyGroups, MyInvites, n)

SetOnline(n, online) ==
    /\ MyGroups' = SetMemberOnline(MyGroups, n, online)
    /\ UNCHANGED MyInvites

Alive(n) ==
    /\ MyGroups' = AliveMsg(MyGroups, n)
    /\ UNCHANGED MyInvites

Invite(leader, n) ==
    /\ Cardinality(MyInvites) < MaxInvites
    /\ MyInvites' = AddInvite(MyInvites, leader, n)
    /\ UNCHANGED MyGroups

Uninvite(leader, n) ==
    /\ MyInvites' = RemoveInvite(MyInvites, leader, n)
    /\ UNCHANGED MyGroups

Expire ==
    /\ MyInvites' = RemoveOldInvites(MyInvites)
    /\ UNCHANGED MyGroups

Tick ==
    /\ MyInvites' = Older(MyInvites)
    /\ UNCHANGED MyGroups

Next ==
    \/ \E n \in Names : Start(n) \/ Disband(n) \/ Alive(n)
    \/ \E n \in Names, online \in BOOLEAN : SetOnline(n, online)
    \/ \E n, leader \in Names :
          Join(n, leader) \/ Kick(n, leader) \/ Invite(leader, n) \/ Uninvite(leader, n)
    \/ Expire
    \/ Tick

Spec == Init /\ [][Next]_vars

-----------------------------------------------------------------------------

\* Type invariant: the two vectors hold members and invitations.
TypeOK ==
    /\ MyGroups \in Seq(GroupMember)
    /\ MyInvites \in SUBSET GroupInvite

\* A character is in one group at most.  Every lookup by name (GetGroupInfo,
\* AliveMsg, SetMemberOnline) stops at the first entry and every removal takes
\* all of them, so the code is only right when there is one entry per name.
OneGroupPerCharacter == UniqueNames(MyGroups)

\* Every group has exactly one leader, the member that has been in it longest:
\* the flag of a joining member, AssignLeader and the removals of GroupDisband
\* and GroupKickMember agree on it.
LeaderIsFirst == \A i \in DOMAIN MyGroups : LedByFirst(MyGroups, i)

\* No group has more members than MyMaxGroupMembers, the offline ones included.
WithinCapacity ==
    \A g \in GroupIds : MemberCount(MyGroups, g) <= MyMaxGroupMembers

\* The invitations of a group die with it: when the last member of a group
\* leaves, none of that member's invitations is left ("Invitations from this
\* now-defunct solo group must not follow its former leader").
DissolvedGroupHasNoInvites ==
    [][\A i \in DOMAIN MyGroups :
          MyGroups[i].groupId \notin GetUniqueGroupIds(MyGroups')
          => \A v \in MyInvites' : v.leaderName # MyGroups[i].name]_vars

-----------------------------------------------------------------------------
\* The abstract registry this module implements.

Registry ==
    INSTANCE GroupRegistry WITH
        group <- [n \in Names |-> GroupOf(MyGroups, n)],
        leader <- [g \in GroupIds |-> LeaderOf(MyGroups, g)],
        online <- {n \in Names : \E i \in EntriesOf(MyGroups, n) : MyGroups[i].isOnline}

\* The container implements the registry: leadership changes hands only when
\* the leader leaves, and no operation touches another character's membership.
ImplementsRegistry == Registry!Spec

=============================================================================
