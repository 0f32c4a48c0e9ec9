------------------------------ MODULE GroupOps ------------------------------
(***************************************************************************)
(* The operations of GroupContainer.cpp as operators on the values of its  *)
(* two vectors.  MyGroups is a sequence, because AssignLeader depends on   *)
(* its order.  MyInvites is a set: no operation depends on the order or    *)
(* the multiplicity of its entries.  The storeTime of an invitation is     *)
(* kept as its age in seconds, which stops growing once the invitation is  *)
(* too old.  The zone, health and storeTime of a member are left out: no   *)
(* operation reads them to decide anything.                                *)
(***************************************************************************)
EXTENDS Naturals, Sequences, FiniteSets

CONSTANTS
    Names,              \* the character names, every spelling a client may send
    ToLower,            \* the spelling that strcasecmp and ToLower compare names by
    GroupIds,           \* the group ids GetNewGroupId may produce
    NoGroup,            \* the empty groupId
    NoName,             \* the empty leaderName
    MyMaxGroupMembers,  \* members a group may have, the offline ones included
    MaxAge              \* seconds an invitation stays valid (180)

ASSUME NamesAssumption ==
    /\ NoName \notin Names
    /\ ToLower \in [Names -> Names]
    /\ \A n \in Names : ToLower[ToLower[n]] = ToLower[n]
ASSUME GroupIdsAssumption == NoGroup \notin GroupIds
ASSUME LimitsAssumption == MyMaxGroupMembers \in Nat \ {0} /\ MaxAge \in Nat

GroupMember == [name : Names, groupId : GroupIds, isLeader : BOOLEAN, isOnline : BOOLEAN]
GroupInvite == [leaderName : Names, memberName : Names, age : 0 .. MaxAge + 1]

-----------------------------------------------------------------------------
\* Reading MyGroups.

\* Mutation of EntriesOf: names compared without regard to case.
EntriesOfAnyCase(groups, n) == {i \in DOMAIN groups : ToLower[groups[i].name] = ToLower[n]}
EntriesOf(groups, n) == {i \in DOMAIN groups : groups[i].name = n}
MembersOf(groups, g) == {i \in DOMAIN groups : groups[i].groupId = g}
First(I) == CHOOSE i \in I : \A j \in I : i <= j
Last(I)  == CHOOSE i \in I : \A j \in I : j <= i

MemberCount(groups, g) == Cardinality(MembersOf(groups, g))

GroupOf(groups, n) ==
    IF EntriesOf(groups, n) = {} THEN NoGroup
    ELSE groups[First(EntriesOf(groups, n))].groupId

LeaderOf(groups, g) ==
    LET leaders == {i \in MembersOf(groups, g) : groups[i].isLeader}
    IN  IF leaders = {} THEN NoName ELSE groups[Last(leaders)].name

IsLeader(groups, n) ==
    /\ GroupOf(groups, n) # NoGroup
    /\ LeaderOf(groups, GroupOf(groups, n)) = n

GetUniqueGroupIds(groups) == {groups[i].groupId : i \in DOMAIN groups}

\* What the payload of a GroupInfo message says of group g.
Roster(groups, g) ==
    [leaderName |-> LeaderOf(groups, g),
     members |-> {[name |-> groups[i].name, isOnline |-> groups[i].isOnline] :
                     i \in MembersOf(groups, g)}]

-----------------------------------------------------------------------------
\* Changing MyGroups.  An operation is accepted when its ...Accepted holds
\* and changes nothing otherwise.

\* The kept positions of a vector after remove_if and erase: K is a set of
\* positions, and Nth(K, k) the k-th of them.
Nth(K, k) == CHOOSE i \in K : Cardinality({j \in K : j <= i}) = k
Keep(groups, K) == [k \in 1 .. Cardinality(K) |-> groups[Nth(K, k)]]

Erase(groups, n) == Keep(groups, {i \in DOMAIN groups : groups[i].name # n})

NewMember(n, g, leader) == [name |-> n, groupId |-> g, isLeader |-> leader, isOnline |-> TRUE]

GroupStartAccepted(groups, n) == GroupOf(groups, n) = NoGroup
GroupStartGroup(groups, n, g) == Append(groups, NewMember(n, g, TRUE))

\* Mutations of GroupJoinAccepted: no check that the leader has a group, that the
\* joining character has none, and a capacity check that is one too late.
GroupJoinUnledGroup(groups, member, leader) ==
    /\ MemberCount(groups, GroupOf(groups, leader)) < MyMaxGroupMembers
    /\ GroupOf(groups, member) = NoGroup
GroupJoinTwice(groups, member, leader) ==
    LET g == GroupOf(groups, leader)
    IN  g # NoGroup /\ MemberCount(groups, g) < MyMaxGroupMembers
GroupJoinOverfull(groups, member, leader) ==
    LET g == GroupOf(groups, leader)
    IN  /\ g # NoGroup
        /\ MemberCount(groups, g) <= MyMaxGroupMembers
        /\ GroupOf(groups, member) = NoGroup

GroupJoinAccepted(groups, member, leader) ==
    LET g == GroupOf(groups, leader)
    IN  /\ g # NoGroup
        /\ MemberCount(groups, g) < MyMaxGroupMembers
        /\ GroupOf(groups, member) = NoGroup
GroupJoin(groups, member, leader) ==
    Append(groups, NewMember(member, GroupOf(groups, leader), FALSE))

GroupInviteAccepted(groups, member, leader) ==
    /\ IsLeader(groups, leader)
    /\ LET g == GroupOf(groups, member)
       IN  \/ g = NoGroup
           \/ g # GroupOf(groups, leader) /\ MemberCount(groups, g) <= 1

\* Mutation of GroupKickAccepted: a leader may kick itself.
GroupKickSelf(groups, member, leader) ==
    IsLeader(groups, leader) /\ GroupOf(groups, member) = GroupOf(groups, leader)

GroupKickAccepted(groups, member, leader) ==
    /\ member # leader
    /\ IsLeader(groups, leader)
    /\ GroupOf(groups, member) = GroupOf(groups, leader)
GroupKickMember(groups, member) == Erase(groups, member)

AssignLeader(groups, g) ==
    [i \in DOMAIN groups |->
        IF groups[i].groupId # g THEN groups[i]
        ELSE [groups[i] EXCEPT !.isLeader = \A j \in 1 .. i - 1 : groups[j].groupId # g]]

\* Mutations of GroupDisband: no new leader is assigned, and the whole group of
\* the character is dissolved.
GroupDisbandUnled(groups, n) == Erase(groups, n)
GroupDisbandAll(groups, n) ==
    Keep(groups, {i \in DOMAIN groups : groups[i].groupId # GroupOf(groups, n)})

GroupDisband(groups, n) ==
    IF IsLeader(groups, n)
    THEN AssignLeader(Erase(groups, n), GroupOf(groups, n))
    ELSE Erase(groups, n)

\* Mutation of GroupDisbandInvites: it cancels the invitations the character got.
GroupDisbandInvitesReceived(groups, invites, n) ==
    IF GroupOf(groups, n) # NoGroup /\ MemberCount(groups, GroupOf(groups, n)) = 1
    THEN {v \in invites : v.memberName # n}
    ELSE invites

\* GroupDisband also cancels the invitations of a group it dissolves.
GroupDisbandInvites(groups, invites, n) ==
    IF GroupOf(groups, n) # NoGroup /\ MemberCount(groups, GroupOf(groups, n)) = 1
    THEN {v \in invites : v.leaderName # n}
    ELSE invites

SetMemberOnline(groups, n, online) ==
    [i \in DOMAIN groups |->
        IF i \in EntriesOf(groups, n) /\ i = First(EntriesOf(groups, n))
        THEN [groups[i] EXCEPT !.isOnline = online]
        ELSE groups[i]]

\* An Alive message or frame refreshes a membership and marks it online.
AliveMsg(groups, n) == SetMemberOnline(groups, n, TRUE)

-----------------------------------------------------------------------------
\* What a well-formed MyGroups is.

UniqueNames(groups) ==
    \A i, j \in DOMAIN groups : groups[i].name = groups[j].name => i = j

\* Position i holds the leader flag exactly when it is the first of its group.
LedByFirst(groups, i) ==
    groups[i].isLeader <=> \A j \in 1 .. i - 1 : groups[j].groupId # groups[i].groupId

-----------------------------------------------------------------------------
\* MyInvites.

SameName(m, n) == ToLower[m] = ToLower[n]

RemoveOldInvites(invites) == {v \in invites : v.age <= MaxAge}

RemoveInvite(invites, leader, member) ==
    {v \in invites : ~(v.leaderName = leader /\ v.memberName = member)}

\* Mutation of CheckHasInvited: any invitation admits to any group.
CheckHasInvitation(invites, leader, member) ==
    \E v \in invites : SameName(v.memberName, member)

CheckHasInvited(invites, leader, member) ==
    \E v \in invites : SameName(v.leaderName, leader) /\ SameName(v.memberName, member)

AddInvite(invites, leader, member) ==
    invites \cup {[leaderName |-> leader, memberName |-> member, age |-> 0]}

\* One second passes: std::time(nullptr) - storeTime grows.
Older(invites) ==
    {[v EXCEPT !.age = IF v.age > MaxAge THEN v.age ELSE v.age + 1] : v \in invites}

=============================================================================
