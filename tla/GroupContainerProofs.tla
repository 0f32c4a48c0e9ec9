------------------------ MODULE GroupContainerProofs ------------------------
(***************************************************************************)
(* What module GroupContainer guarantees for every set of names and group  *)
(* ids and for every limit.                                                *)
(***************************************************************************)
EXTENDS GroupContainer, GroupOpsProofs

IInv ==
    /\ TypeOK
    /\ OneGroupPerCharacter
    /\ LeaderIsFirst

\* The inductive invariant: every operation keeps MyGroups well formed, and no
\* operation stores an invitation that is not one.
THEOREM InductiveInvariant == Spec => []IInv
<1>1. Init => IInv
  BY DEF Init, IInv, TypeOK, OneGroupPerCharacter, LeaderIsFirst, UniqueNames
<1>2. IInv /\ [Next]_vars => IInv'
  <2> SUFFICES ASSUME IInv, [Next]_vars
               PROVE  IInv'
    OBVIOUS
  <2>1. WellFormed(MyGroups) /\ MyInvites \in SUBSET GroupInvite
    BY DEF IInv, TypeOK, OneGroupPerCharacter, LeaderIsFirst, WellFormed
  <2>2. SUFFICES WellFormed(MyGroups') /\ MyInvites' \in SUBSET GroupInvite
    BY DEF IInv, TypeOK, OneGroupPerCharacter, LeaderIsFirst, WellFormed
  <2>3. ASSUME NEW n \in Names, Start(n)
        PROVE  WellFormed(MyGroups') /\ MyInvites' \in SUBSET GroupInvite
    <3>1. PICK g \in GroupIds \ GetUniqueGroupIds(MyGroups) :
             MyGroups' = GroupStartGroup(MyGroups, n, g)
      BY <2>3 DEF Start
    <3>2. WellFormed(MyGroups')
      BY <2>1, <2>3, <3>1, StartWellFormed DEF Start
    <3> QED BY <2>1, <2>3, <3>2 DEF Start
  <2>4. ASSUME NEW n \in Names, NEW leader \in Names, Join(n, leader)
        PROVE  WellFormed(MyGroups') /\ MyInvites' \in SUBSET GroupInvite
    BY <2>1, <2>4, JoinWellFormed DEF Join
  <2>5. ASSUME NEW n \in Names, NEW leader \in Names, Kick(n, leader)
        PROVE  WellFormed(MyGroups') /\ MyInvites' \in SUBSET GroupInvite
    BY <2>1, <2>5, KickWellFormed DEF Kick
  <2>6. ASSUME NEW n \in Names, Disband(n)
        PROVE  WellFormed(MyGroups') /\ MyInvites' \in SUBSET GroupInvite
    BY <2>1, <2>6, GroupDisbandWellFormed DEF Disband, GroupDisbandInvites
  <2>7. ASSUME NEW n \in Names, NEW online \in BOOLEAN, SetOnline(n, online) \/ Alive(n)
        PROVE  WellFormed(MyGroups') /\ MyInvites' \in SUBSET GroupInvite
    BY <2>1, <2>7, SetMemberOnlineWellFormed DEF SetOnline, Alive, AliveMsg
  <2>8. ASSUME NEW n \in Names, NEW leader \in Names, Invite(leader, n)
        PROVE  WellFormed(MyGroups') /\ MyInvites' \in SUBSET GroupInvite
    BY <2>1, <2>8, LimitsAssumption DEF Invite, AddInvite, GroupInvite
  <2>9. ASSUME NEW n \in Names, NEW leader \in Names, Uninvite(leader, n)
        PROVE  WellFormed(MyGroups') /\ MyInvites' \in SUBSET GroupInvite
    BY <2>1, <2>9 DEF Uninvite, RemoveInvite
  <2>10. ASSUME Tick
         PROVE  WellFormed(MyGroups') /\ MyInvites' \in SUBSET GroupInvite
    BY <2>1, <2>10, LimitsAssumption DEF Tick, Older, GroupInvite
  <2>11. ASSUME Expire
         PROVE  WellFormed(MyGroups') /\ MyInvites' \in SUBSET GroupInvite
    BY <2>1, <2>11 DEF Expire, RemoveOldInvites
  <2>12. CASE UNCHANGED vars
    BY <2>1, <2>12 DEF vars
  <2> QED BY <2>3, <2>4, <2>5, <2>6, <2>7, <2>8, <2>9, <2>10, <2>11, <2>12 DEF Next
<1> QED BY <1>1, <1>2, PTL DEF Spec

\* Type correctness: MyGroups holds members and MyInvites invitations.
THEOREM TypeCorrect == Spec => []TypeOK
BY InductiveInvariant, PTL DEF IInv

\* A character never has two memberships, whatever calls are made.
THEOREM NeverInTwoGroups == Spec => []OneGroupPerCharacter
BY InductiveInvariant, PTL DEF IInv

\* Every group always has one leader, its longest standing member.
THEOREM AlwaysLedByFirst == Spec => []LeaderIsFirst
BY InductiveInvariant, PTL DEF IInv

-----------------------------------------------------------------------------

\* No group ever exceeds its capacity: the check of GroupJoin is enough for
\* every sequence of calls.
THEOREM NeverOverCapacity == Spec => []WithinCapacity
<1>1. Init => WithinCapacity
  <2>1. MyGroups = <<>> => \A g \in GroupIds : MembersOf(MyGroups, g) = {}
    BY DEF MembersOf
  <2> QED BY <2>1, FS_EmptySet, LimitsAssumption DEF Init, WithinCapacity, MemberCount
<1>2. IInv /\ WithinCapacity /\ [Next]_vars => WithinCapacity'
  <2> SUFFICES ASSUME IInv, WithinCapacity, [Next]_vars, NEW g \in GroupIds
               PROVE  MemberCount(MyGroups', g) <= MyMaxGroupMembers
    BY DEF WithinCapacity
  <2>1. /\ MyGroups \in Seq(GroupMember)
        /\ MemberCount(MyGroups, g) \in Nat /\ MyMaxGroupMembers \in Nat \ {0}
        /\ MemberCount(MyGroups, g) <= MyMaxGroupMembers
        /\ WellFormed(MyGroups)
    BY MembersFinite, LimitsAssumption
       DEF IInv, TypeOK, OneGroupPerCharacter, LeaderIsFirst, WellFormed, WithinCapacity
  <2>2. ASSUME NEW n \in Names, Start(n)
        PROVE  MemberCount(MyGroups', g) <= MyMaxGroupMembers
    <3>1. PICK h \in GroupIds \ GetUniqueGroupIds(MyGroups) :
             MyGroups' = Append(MyGroups, NewMember(n, h, TRUE))
      BY <2>2 DEF Start, GroupStartGroup
    <3>2. NewMember(n, h, TRUE) \in GroupMember /\ NewMember(n, h, TRUE).groupId = h
      BY DEF NewMember, GroupMember
    <3>3. MemberCount(MyGroups, h) = 0
      <4>1. MembersOf(MyGroups, h) = {}
        BY DEF MembersOf, GetUniqueGroupIds
      <4> QED BY <4>1, FS_EmptySet DEF MemberCount
    <3>4. MemberCount(MyGroups', g) = MemberCount(MyGroups, g) + IF h = g THEN 1 ELSE 0
      <4> HIDE DEF NewMember
      <4> QED BY <2>1, <3>1, <3>2, AppendMemberCount
    <3> QED BY <2>1, <3>3, <3>4
  <2>3. ASSUME NEW n \in Names, NEW leader \in Names, Join(n, leader)
        PROVE  MemberCount(MyGroups', g) <= MyMaxGroupMembers
    <3> DEFINE h == GroupOf(MyGroups, leader)
               member == NewMember(n, h, FALSE)
    <3>1. /\ h # NoGroup /\ MemberCount(MyGroups, h) < MyMaxGroupMembers
          /\ MyGroups' = Append(MyGroups, member)
      BY <2>3 DEF Join, GroupJoinAccepted, GroupJoin
    <3>2. member \in GroupMember /\ member.groupId = h
      <4>1. EntriesOf(MyGroups, leader) # {}
        BY <3>1 DEF GroupOf
      <4>2. PICK i \in EntriesOf(MyGroups, leader) : MyGroups[i].groupId = h
        BY <2>1, <4>1, LookupProperties
      <4>3. h \in GroupIds
        <5>1. i \in DOMAIN MyGroups
          BY DEF EntriesOf
        <5>2. MyGroups[i] \in GroupMember
          BY <2>1, <5>1
        <5> QED BY <4>2, <5>2 DEF GroupMember
      <4> QED BY <4>3 DEF NewMember, GroupMember
    <3>3. MemberCount(MyGroups', g) = MemberCount(MyGroups, g) + IF h = g THEN 1 ELSE 0
      <4> HIDE DEF h, member
      <4> QED BY <2>1, <3>1, <3>2, AppendMemberCount
    <3>4. CASE h = g
      <4>1. MemberCount(MyGroups, g) < MyMaxGroupMembers
        BY <3>1, <3>4
      <4> QED BY <2>1, <3>3, <3>4, <4>1
    <3>5. CASE h # g
      BY <2>1, <3>3, <3>5
    <3> QED BY <3>4, <3>5
  <2>4. ASSUME NEW n \in Names
        PROVE  MemberCount(Erase(MyGroups, n), g) <= MyMaxGroupMembers
    <3>1. MemberCount(Erase(MyGroups, n), g) \in Nat
      BY <2>1, EraseProperties, MembersFinite
    <3> QED BY <2>1, <3>1, EraseMemberCount
  <2>5. ASSUME NEW n \in Names, Disband(n) \/ \E leader \in Names : Kick(n, leader)
        PROVE  MemberCount(MyGroups', g) <= MyMaxGroupMembers
    <3>1. \/ MyGroups' = Erase(MyGroups, n)
          \/ \E h : MyGroups' = AssignLeader(Erase(MyGroups, n), h)
      BY <2>5 DEF Disband, GroupDisband, Kick, GroupKickMember
    <3> QED BY <2>4, <3>1, AssignLeaderMemberCount
  <2>6. ASSUME NEW n \in Names, Alive(n) \/ \E online \in BOOLEAN : SetOnline(n, online)
        PROVE  MemberCount(MyGroups', g) <= MyMaxGroupMembers
    <3>1. PICK online \in BOOLEAN : MyGroups' = SetMemberOnline(MyGroups, n, online)
      BY <2>6 DEF Alive, AliveMsg, SetOnline
    <3>2. MemberCount(MyGroups', g) = MemberCount(MyGroups, g)
      BY <3>1, SetMemberOnlineMemberCount
    <3> QED BY <2>1, <3>2
  <2>7. ASSUME UNCHANGED MyGroups
        PROVE  MemberCount(MyGroups', g) <= MyMaxGroupMembers
    BY <2>1, <2>7
  <2> QED
    BY <2>2, <2>3, <2>5, <2>6, <2>7 DEF Next, Invite, Uninvite, Expire, Tick, vars
<1> QED BY <1>1, <1>2, InductiveInvariant, PTL DEF Spec

-----------------------------------------------------------------------------

\* When a group vanishes, its last member's invitations vanish with it.
THEOREM DissolvingCancelsInvites == Spec => DissolvedGroupHasNoInvites
<1>1. IInv /\ [Next]_vars =>
         [\A i \in DOMAIN MyGroups :
             MyGroups[i].groupId \notin GetUniqueGroupIds(MyGroups')
             => \A v \in MyInvites' : v.leaderName # MyGroups[i].name]_vars
  <2> SUFFICES ASSUME IInv, Next, NEW i \in DOMAIN MyGroups,
                      MyGroups[i].groupId \notin GetUniqueGroupIds(MyGroups')
               PROVE  \A v \in MyInvites' : v.leaderName # MyGroups[i].name
    OBVIOUS
  <2>1. /\ MyGroups \in Seq(GroupMember) /\ MyGroups[i] \in GroupMember
        /\ WellFormed(MyGroups)
    BY DEF IInv, TypeOK, OneGroupPerCharacter, LeaderIsFirst, WellFormed
  <2>2. MyGroups[i].groupId \in GetUniqueGroupIds(MyGroups)
    BY DEF GetUniqueGroupIds
  <2>4. ASSUME NEW n \in Names, Start(n) \/ \E leader \in Names : Join(n, leader)
        PROVE  FALSE
    <3>1. \E member : MyGroups' = Append(MyGroups, member)
      BY <2>4 DEF Start, GroupStartGroup, Join, GroupJoin
    <3>2. PICK member : MyGroups' = Append(MyGroups, member)
      BY <3>1
    <3>3. i \in DOMAIN MyGroups' /\ MyGroups'[i] = MyGroups[i]
      BY <2>1, <3>2
    <3> QED BY <3>3 DEF GetUniqueGroupIds
  <2>5. ASSUME NEW n \in Names, Alive(n) \/ \E online \in BOOLEAN : SetOnline(n, online)
        PROVE  FALSE
    <3>1. PICK online \in BOOLEAN : MyGroups' = SetMemberOnline(MyGroups, n, online)
      BY <2>5 DEF Alive, AliveMsg, SetOnline
    <3>2. GetUniqueGroupIds(MyGroups') = GetUniqueGroupIds(MyGroups)
      BY <3>1, FlagsKeepGroups
    <3> QED BY <2>2, <3>2
  <2>6. ASSUME UNCHANGED MyGroups
        PROVE  FALSE
    BY <2>2, <2>6
  <2>7. ASSUME NEW n \in Names, NEW leader \in Names, Kick(n, leader)
        PROVE  FALSE
    <3>1. /\ n # leader /\ IsLeader(MyGroups, leader)
          /\ GroupOf(MyGroups, n) = GroupOf(MyGroups, leader)
          /\ MyGroups' = Erase(MyGroups, n)
      BY <2>7 DEF Kick, GroupKickAccepted, GroupKickMember
    <3>2. PICK k \in EntriesOf(MyGroups, leader) : MyGroups[k].groupId = GroupOf(MyGroups, leader)
      BY <2>1, <3>1, LookupProperties
    <3>3. k \in DOMAIN MyGroups /\ MyGroups[k].name # n
      BY <3>1 DEF EntriesOf
    <3>4. CASE MyGroups[i].name # n
      BY <2>1, <3>1, <3>4, EraseKeepsGroups
    <3>5. CASE MyGroups[i].name = n
      <4>1. MyGroups[i].groupId = MyGroups[k].groupId
        <5>1. i \in EntriesOf(MyGroups, n)
          BY <3>5 DEF EntriesOf
        <5>2. MyGroups[i].groupId = GroupOf(MyGroups, n)
          BY <2>1, <5>1, LookupProperties
        <5> QED BY <3>1, <3>2, <5>2
      <4> QED BY <2>1, <3>1, <3>3, <4>1, EraseKeepsGroups
    <3> QED BY <3>4, <3>5
  <2>8. ASSUME NEW n \in Names, Disband(n)
        PROVE  \A v \in MyInvites' : v.leaderName # MyGroups[i].name
    <3> DEFINE g == MyGroups[i].groupId
    <3>1. GetUniqueGroupIds(MyGroups') = GetUniqueGroupIds(Erase(MyGroups, n))
      BY <2>8, FlagsKeepGroups DEF Disband, GroupDisband
    <3>2. \A k \in MembersOf(MyGroups, g) : MyGroups[k].name = n
      BY <2>1, <3>1, EraseKeepsGroups DEF MembersOf
    <3>3. MyGroups[i].name = n /\ i \in EntriesOf(MyGroups, n)
      BY <3>2 DEF MembersOf, EntriesOf
    <3>4. GroupOf(MyGroups, n) = g /\ g # NoGroup
      BY <2>1, <3>3, LookupProperties, GroupIdsAssumption DEF GroupMember
    <3>5. MembersOf(MyGroups, g) = {i}
      BY <2>1, <3>2, <3>3 DEF MembersOf, WellFormed, UniqueNames
    <3>6. MemberCount(MyGroups, g) = 1
      BY <3>5, FS_Singleton DEF MemberCount
    <3> QED BY <2>8, <3>3, <3>4, <3>6 DEF Disband, GroupDisbandInvites
  <2> QED
    BY <2>4, <2>5, <2>6, <2>7, <2>8 DEF Next, Invite, Uninvite, Expire, Tick
<1> QED BY <1>1, InductiveInvariant, PTL DEF Spec, DissolvedGroupHasNoInvites

-----------------------------------------------------------------------------

\* Every step of the container is a step of the registry, or none.
LEMMA StepsImplementRegistry ==
    ASSUME IInv, IInv', [Next]_vars
    PROVE  [Registry!Next]_(Registry!vars)
<1>1. WellFormed(MyGroups) /\ WellFormed(MyGroups')
  BY DEF IInv, TypeOK, OneGroupPerCharacter, LeaderIsFirst, WellFormed
<1>2. \A g : Registry!In(g) = InGroup(MyGroups, g)
  BY DEF Registry!In, InGroup
<1>3. ASSUME NEW n \in Names, NEW g \in GroupIds,
              /\ GroupsOf(MyGroups)[n] = NoGroup
              /\ InGroup(MyGroups, g) = {}
              /\ GroupsOf(MyGroups') = [GroupsOf(MyGroups) EXCEPT ![n] = g]
              /\ LeadersOf(MyGroups') = [LeadersOf(MyGroups) EXCEPT ![g] = n]
              /\ OnlineOf(MyGroups') = OnlineOf(MyGroups) \cup {n}
       PROVE  Registry!Found(n, g)
  BY <1>2, <1>3 DEF Registry!Found, GroupsOf, LeadersOf, OnlineOf
<1>4. ASSUME NEW n \in Names, NEW g \in GroupIds,
              /\ GroupsOf(MyGroups)[n] = NoGroup
              /\ InGroup(MyGroups, g) # {}
              /\ Cardinality(InGroup(MyGroups, g)) < MyMaxGroupMembers
              /\ GroupsOf(MyGroups') = [GroupsOf(MyGroups) EXCEPT ![n] = g]
              /\ OnlineOf(MyGroups') = OnlineOf(MyGroups) \cup {n}
              /\ LeadersOf(MyGroups') = LeadersOf(MyGroups)
       PROVE  Registry!Enter(n, g)
  <2>1. \A S : Registry!Cardinality(S) = Cardinality(S)
    BY DEF Registry!Cardinality, Cardinality
  <2> QED BY <1>2, <1>4, <2>1 DEF Registry!Enter, GroupsOf, LeadersOf, OnlineOf
<1>5. ASSUME NEW n \in Names
      PROVE  /\ Registry!Leave(n) <=>
                  LET g == GroupsOf(MyGroups)[n]
                      in == InGroup(MyGroups, g)
                  IN  /\ g # NoGroup
                      /\ GroupsOf(MyGroups') = [GroupsOf(MyGroups) EXCEPT ![n] = NoGroup]
                      /\ OnlineOf(MyGroups') = OnlineOf(MyGroups) \ {n}
                      /\ \/ LeadersOf(MyGroups)[g] # n /\ LeadersOf(MyGroups') = LeadersOf(MyGroups)
                         \/ /\ LeadersOf(MyGroups)[g] = n
                            /\ \E heir \in IF in = {n} THEN {NoName} ELSE in \ {n} :
                                  LeadersOf(MyGroups') = [LeadersOf(MyGroups) EXCEPT ![g] = heir]
             /\ Registry!Presence(n) <=>
                  /\ GroupsOf(MyGroups)[n] # NoGroup
                  /\ OnlineOf(MyGroups') \in {OnlineOf(MyGroups) \cup {n}, OnlineOf(MyGroups) \ {n}}
                  /\ GroupsOf(MyGroups') = GroupsOf(MyGroups)
                  /\ LeadersOf(MyGroups') = LeadersOf(MyGroups)
  BY DEF Registry!Leave, Registry!Presence, Registry!In, GroupsOf, InGroup, LeadersOf, OnlineOf
<1>6. UNCHANGED (Registry!vars) <=>
         /\ GroupsOf(MyGroups') = GroupsOf(MyGroups)
         /\ LeadersOf(MyGroups') = LeadersOf(MyGroups)
         /\ OnlineOf(MyGroups') = OnlineOf(MyGroups)
  BY DEF Registry!vars, GroupsOf, LeadersOf, OnlineOf
<1>7. /\ \A n \in Names : GroupsOf(MyGroups)[n] = GroupOf(MyGroups, n)
      /\ \A g \in GroupIds : LeadersOf(MyGroups)[g] = LeaderOf(MyGroups, g)
  BY DEF GroupsOf, LeadersOf
<1>8. ASSUME NEW n \in Names, Start(n)
      PROVE  Registry!Next
  <2>1. PICK g \in GroupIds \ GetUniqueGroupIds(MyGroups) : MyGroups' = GroupStartGroup(MyGroups, n, g)
    BY <1>8 DEF Start
  <2>2. /\ GroupsOf(MyGroups)[n] = NoGroup
        /\ InGroup(MyGroups, g) = {}
        /\ GroupsOf(MyGroups') = [GroupsOf(MyGroups) EXCEPT ![n] = g]
        /\ LeadersOf(MyGroups') = [LeadersOf(MyGroups) EXCEPT ![g] = n]
        /\ OnlineOf(MyGroups') = OnlineOf(MyGroups) \cup {n}
    BY <1>1, <1>8, <2>1, StartFounds DEF Start
  <2>3. Registry!Found(n, g)
    BY <1>3, <2>2
  <2> QED BY <2>3 DEF Registry!Next
<1>9. ASSUME NEW n \in Names, NEW leader \in Names, Join(n, leader)
      PROVE  Registry!Next
  <2>1. GroupJoinAccepted(MyGroups, n, leader) /\ MyGroups' = GroupJoin(MyGroups, n, leader)
    BY <1>9 DEF Join
  <2>2. GroupOf(MyGroups, leader) \in GroupIds
    BY <1>1, <2>1, JoinEnters
  <2>3. PICK g \in GroupIds : g = GroupOf(MyGroups, leader)
    BY <2>2
  <2>4. /\ GroupsOf(MyGroups)[n] = NoGroup
        /\ InGroup(MyGroups, g) # {}
        /\ Cardinality(InGroup(MyGroups, g)) < MyMaxGroupMembers
        /\ GroupsOf(MyGroups') = [GroupsOf(MyGroups) EXCEPT ![n] = g]
        /\ OnlineOf(MyGroups') = OnlineOf(MyGroups) \cup {n}
        /\ LeadersOf(MyGroups') = LeadersOf(MyGroups)
    BY <1>1, <2>1, <2>3, JoinEnters
  <2>5. Registry!Enter(n, g)
    BY <1>4, <2>4
  <2> QED BY <2>5 DEF Registry!Next
<1>10. ASSUME NEW n \in Names, NEW leader \in Names, Kick(n, leader)
      PROVE  Registry!Next
  <2> DEFINE g == GroupOf(MyGroups, n)
  <2>1. GroupKickAccepted(MyGroups, n, leader) /\ MyGroups' = GroupKickMember(MyGroups, n)
    BY <1>10 DEF Kick
  <2>2. /\ g \in GroupIds
        /\ LeaderOf(MyGroups, g) # n
        /\ GroupsOf(MyGroups') = [GroupsOf(MyGroups) EXCEPT ![n] = NoGroup]
        /\ LeadersOf(MyGroups') = LeadersOf(MyGroups)
        /\ OnlineOf(MyGroups') = OnlineOf(MyGroups) \ {n}
    BY <1>1, <2>1, KickLeaves
  <2>3. Registry!Leave(n)
    BY <1>5, <1>7, <2>2, GroupIdsAssumption
  <2> QED BY <2>3 DEF Registry!Next
<1>11. ASSUME NEW n \in Names, Disband(n)
      PROVE  Registry!Next \/ UNCHANGED (Registry!vars)
  <2> DEFINE g == GroupOf(MyGroups, n)
             in == InGroup(MyGroups, g)
  <2>1. MyGroups' = GroupDisband(MyGroups, n)
    BY <1>11 DEF Disband
  <2>2. /\ GroupsOf(MyGroups') = [GroupsOf(MyGroups) EXCEPT ![n] = NoGroup]
        /\ OnlineOf(MyGroups') = OnlineOf(MyGroups) \ {n}
        /\ g = NoGroup => /\ n \notin OnlineOf(MyGroups)
                          /\ LeadersOf(MyGroups') = LeadersOf(MyGroups)
        /\ g # NoGroup => /\ g \in GroupIds
                          /\ LeaderOf(MyGroups, g) # n => LeadersOf(MyGroups') = LeadersOf(MyGroups)
                          /\ LeaderOf(MyGroups, g) = n =>
                                \E heir \in IF in = {n} THEN {NoName} ELSE in \ {n} :
                                   LeadersOf(MyGroups') = [LeadersOf(MyGroups) EXCEPT ![g] = heir]
    BY <1>1, <2>1, DisbandLeaves
  <2>3. CASE g = NoGroup
    <3>1. [GroupsOf(MyGroups) EXCEPT ![n] = NoGroup] = GroupsOf(MyGroups)
      BY <2>3 DEF GroupsOf
    <3> QED BY <1>6, <2>2, <2>3, <3>1
  <2>4. CASE g # NoGroup
    <3>1. g = GroupsOf(MyGroups)[n] /\ LeadersOf(MyGroups)[g] = LeaderOf(MyGroups, g)
      BY <1>7, <2>2, <2>4
    <3> HIDE DEF g
    <3>2. Registry!Leave(n)
      BY <1>5, <2>2, <2>4, <3>1
    <3> QED BY <3>2 DEF Registry!Next
  <2> QED BY <2>3, <2>4
<1>12. ASSUME NEW n \in Names, NEW online \in BOOLEAN, MyGroups' = SetMemberOnline(MyGroups, n, online)
       PROVE  Registry!Next \/ UNCHANGED (Registry!vars)
  <2>1. /\ GroupsOf(MyGroups') = GroupsOf(MyGroups)
        /\ LeadersOf(MyGroups') = LeadersOf(MyGroups)
        /\ OnlineOf(MyGroups') = IF GroupOf(MyGroups, n) # NoGroup /\ online
                                 THEN OnlineOf(MyGroups) \cup {n} ELSE OnlineOf(MyGroups) \ {n}
    BY <1>1, <1>12, OnlineEffect
  <2>2. CASE GroupOf(MyGroups, n) = NoGroup
    <3>1. n \notin OnlineOf(MyGroups)
      BY <1>1, <2>2, GroupOfProperties
    <3> QED BY <1>6, <2>1, <2>2, <3>1
  <2>3. CASE GroupOf(MyGroups, n) # NoGroup
    <3>1. Registry!Presence(n)
      BY <1>5, <1>7, <2>1, <2>3
    <3> QED BY <3>1 DEF Registry!Next
  <2> QED BY <2>2, <2>3
<1>13. ASSUME UNCHANGED MyGroups
       PROVE  UNCHANGED (Registry!vars)
  BY <1>6, <1>13
<1>14. ASSUME NEW n \in Names, Alive(n) \/ \E online \in BOOLEAN : SetOnline(n, online)
       PROVE  Registry!Next \/ UNCHANGED (Registry!vars)
  <2>1. \E online \in BOOLEAN : MyGroups' = SetMemberOnline(MyGroups, n, online)
    BY <1>14 DEF Alive, AliveMsg, SetOnline
  <2> QED BY <1>12, <2>1
<1>15. CASE UNCHANGED vars
  BY <1>13, <1>15 DEF vars
<1>16. CASE Next
  BY <1>8, <1>9, <1>10, <1>11, <1>13, <1>14, <1>16 DEF Next, Invite, Uninvite, Expire, Tick
<1> QED BY <1>15, <1>16

\* The container implements the registry: for every number of characters, groups
\* and members, what the operations of the code do to memberships, leaders and
\* presence is what the registry allows.
THEOREM ContainerImplementsRegistry == Spec => ImplementsRegistry
<1>1. Init => Registry!Init
  <2> SUFFICES ASSUME Init
               PROVE  Registry!Init
    OBVIOUS
  <2>1. \A n \in Names : EntriesOf(MyGroups, n) = {}
    BY DEF Init, EntriesOf
  <2>2. \A g \in GroupIds : MembersOf(MyGroups, g) = {}
    BY DEF Init, MembersOf
  <2>3. \A n \in Names : GroupOf(MyGroups, n) = NoGroup
    BY <2>1 DEF GroupOf
  <2>4. \A g \in GroupIds : LeaderOf(MyGroups, g) = NoName
    BY <2>2 DEF LeaderOf
  <2> QED BY <2>1, <2>3, <2>4 DEF Registry!Init
<1>2. IInv /\ IInv' /\ [Next]_vars => [Registry!Next]_(Registry!vars)
  BY StepsImplementRegistry
<1> QED BY <1>1, <1>2, InductiveInvariant, PTL DEF Spec, ImplementsRegistry, Registry!Spec

=============================================================================
