-------------------------- MODULE ChatServerProofs --------------------------
(***************************************************************************)
(* What the server guarantees for every number of characters, sockets,     *)
(* slots, channels and invitations, and for both moments at which the      *)
(* close handler of an ended socket may run.                               *)
(***************************************************************************)
EXTENDS ChatServer, GroupOpsProofs

\* A connection in group g, or in none: every subscription but those to placeholders
\* is in a slot, and no slot holds another group's topic or the same one again.
Endpoint == [topics : [1 .. NumSlots -> Topics \cup Placeholders \cup {Unused}],
             subs : SUBSET (Topics \cup Placeholders)]
Recorded(e) ==
    \A t \in e.subs : ~IsPlaceholder(t) => \E i \in 1 .. NumSlots : e.topics[i] = t
EndpointOK(e, g) ==
    /\ e \in Endpoint
    /\ Recorded(e)
    /\ \A i \in 1 .. NumSlots :
          IsGroupTopic(e.topics[i]) => g # NoGroup /\ e.topics[i] = GroupTopic(g)
    /\ \A i, j \in 1 .. NumSlots :
          IsGroupTopic(e.topics[i]) /\ IsGroupTopic(e.topics[j]) => i = j

\* Topics of one kind are not those of another.
LEMMA TopicKinds ==
    /\ \A g \in GroupIds : GroupTopic(g) \in Topics /\ IsGroupTopic(GroupTopic(g))
    /\ \A g, h : GroupTopic(g) = GroupTopic(h) => g = h
    /\ \A t \in UserTopics : Custom(t) \in Topics /\ ~IsGroupTopic(Custom(t))
    /\ \A n \in Names : Tell(n) \in Topics /\ ~IsGroupTopic(Tell(n))
    /\ World \in Topics /\ ~IsGroupTopic(World)
    /\ Zone \in Topics /\ ~IsGroupTopic(Zone)
    /\ ~IsGroupTopic(Unused) /\ ~InUse(Unused) /\ Unused \notin Topics
    /\ \A t \in Topics : InUse(t) /\ ~IsPlaceholder(t)
    /\ \A p \in Placeholders : IsPlaceholder(p) /\ ~InUse(p) /\ ~IsGroupTopic(p)
<1>1. \A g : GroupTopic(g)[1] = "group" /\ GroupTopic(g)[2] = g
  BY DEF GroupTopic
<1>2. /\ \A t : Custom(t)[1] = "custom"
      /\ \A n : Tell(n)[1] = "tell"
      /\ World[1] = "world" /\ Zone[1] = "zone" /\ Unused[1] = "unused"
  BY DEF Custom, Tell, World, Zone, Unused
<1>3. Unused \notin Topics
  BY <1>1, <1>2 DEF Topics
<1>4. /\ \A g \in GroupIds : GroupTopic(g) \in Topics
      /\ \A t \in UserTopics : Custom(t) \in Topics
      /\ \A n \in Names : Tell(n) \in Topics
      /\ World \in Topics /\ Zone \in Topics
  BY DEF Topics
<1>5. \A t \in Topics : t[1] \in {"world", "zone", "tell", "group", "custom"}
  BY <1>1, <1>2 DEF Topics
<1>6. \A p \in Placeholders : p[1] = "placeholder"
  BY DEF Placeholders, Placeholder
<1> QED BY <1>1, <1>2, <1>3, <1>4, <1>5, <1>6 DEF IsGroupTopic, InUse, IsPlaceholder

\* An empty connection is in order in any group.
LEMMA NoEndpointOK == \A g : EndpointOK(NoEndpoint, g)
  BY TopicKinds DEF EndpointOK, Endpoint, Recorded, NoEndpoint

\* Nor does a socket that has just been opened hear anything of a group.
LEMMA NewEndpointOK == \A s \in Sockets : \A g : EndpointOK(NewEndpoint(s), g)
<1> SUFFICES ASSUME NEW s \in Sockets, NEW g
             PROVE  EndpointOK(NewEndpoint(s), g)
  OBVIOUS
<1>1. \A i \in 1 .. NumSlots : Placeholder(s, i) \in Placeholders
  BY DEF Placeholders
<1> QED BY <1>1, TopicKinds DEF EndpointOK, Endpoint, Recorded, NewEndpoint

\* Subscribing keeps what is recorded, and takes a slot that is free or has the topic.
LEMMA SubscribeOK ==
    ASSUME NEW e \in Endpoint, NEW t \in Topics, Recorded(e)
    PROVE  LET new == Subscribe(e, t)
           IN  /\ new \in Endpoint /\ Recorded(new)
               /\ \/ new = e
                  \/ \E k \in 1 .. NumSlots :
                        /\ ~InUse(e.topics[k]) \/ e.topics[k] = t
                        /\ new.topics[k] = t /\ new.subs = e.subs \cup {t}
                        /\ \A i \in 1 .. NumSlots : i # k => new.topics[i] = e.topics[i]
<1> DEFINE usable == {i \in 1 .. NumSlots : ~InUse(e.topics[i]) \/ e.topics[i] = t}
           k == First(usable)
           new == Subscribe(e, t)
<1>1. CASE usable = {}
  BY <1>1 DEF Subscribe
<1>2. CASE usable # {}
  <2>1. k \in usable
    <3>1. usable \in SUBSET (1 .. NumSlots) /\ NumSlots \in Nat
      BY SlotsAssumption
    <3> HIDE DEF usable
    <3> QED BY <1>2, <3>1, FirstProperties
  <2>2. new = [e EXCEPT !.topics[k] = t, !.subs = @ \cup {t}]
    BY <1>2 DEF Subscribe
  <2> HIDE DEF new, k
  <2>3. /\ new \in Endpoint /\ new.subs = e.subs \cup {t} /\ new.topics[k] = t
        /\ \A i \in 1 .. NumSlots : i # k => new.topics[i] = e.topics[i]
    BY <2>1, <2>2 DEF Endpoint
  <2>4. ASSUME NEW u \in new.subs, ~IsPlaceholder(u)
        PROVE  \E i \in 1 .. NumSlots : new.topics[i] = u
    <3>1. CASE u = t
      BY <2>1, <2>3, <3>1
    <3>2. CASE u # t
      <4>1. PICK i \in 1 .. NumSlots : e.topics[i] = u
        BY <2>3, <2>4, <3>2 DEF Recorded
      <4>2. u \in Topics /\ InUse(u)
        BY <2>3, <2>4, <3>2, TopicKinds DEF Endpoint
      <4>3. i # k
        BY <2>1, <3>2, <4>1, <4>2
      <4> QED BY <2>3, <4>1, <4>3
    <3> QED BY <3>1, <3>2
  <2> QED BY <2>1, <2>3, <2>4 DEF new, Recorded
<1> QED BY <1>1, <1>2

\* Channels of other kinds leave the group's topic alone.
LEMMA SubscribeChannelOK ==
    ASSUME NEW g, NEW e, EndpointOK(e, g), NEW t \in Topics, ~IsGroupTopic(t)
    PROVE  EndpointOK(Subscribe(e, t), g)
<1> DEFINE new == Subscribe(e, t)
<1>1. /\ new \in Endpoint /\ Recorded(new)
      /\ \/ new = e
         \/ \E k \in 1 .. NumSlots :
               /\ new.topics[k] = t
               /\ \A i \in 1 .. NumSlots : i # k => new.topics[i] = e.topics[i]
  BY SubscribeOK DEF EndpointOK
<1> HIDE DEF new
<1>2. \A i \in 1 .. NumSlots : IsGroupTopic(new.topics[i]) => new.topics[i] = e.topics[i]
  BY <1>1
<1> QED BY <1>1, <1>2 DEF EndpointOK, new

\* A connection without a group subscribes to the topic of its new one.
LEMMA SubscribeGroupOK ==
    ASSUME NEW e, EndpointOK(e, NoGroup), NEW g \in GroupIds \cup {NoGroup}
    PROVE  EndpointOK(SubscribeGroupTopic(e, g), g)
<1>1. CASE g = NoGroup
  BY <1>1 DEF SubscribeGroupTopic
<1>2. CASE g # NoGroup
  <2> DEFINE new == Subscribe(e, GroupTopic(g))
  <2>1. /\ new \in Endpoint /\ Recorded(new)
        /\ \/ new = e
           \/ \E k \in 1 .. NumSlots :
                 /\ new.topics[k] = GroupTopic(g)
                 /\ \A i \in 1 .. NumSlots : i # k => new.topics[i] = e.topics[i]
    BY <1>2, SubscribeOK, TopicKinds DEF EndpointOK
  <2>2. SubscribeGroupTopic(e, g) = new
    BY <1>2 DEF SubscribeGroupTopic
  <2> HIDE DEF new
  <2>3. \A i \in 1 .. NumSlots : ~IsGroupTopic(e.topics[i])
    BY DEF EndpointOK
  <2> QED BY <1>2, <2>1, <2>2, <2>3 DEF EndpointOK
<1> QED BY <1>1, <1>2

\* A login subscribes to the automatic topics.
LEMMA StandardTopicsOK ==
    ASSUME NEW e, EndpointOK(e, NoGroup), NEW n \in Names, NEW g \in GroupIds \cup {NoGroup}
    PROVE  EndpointOK(SubscribeStandardTopics(e, n, g), g)
<1>1. EndpointOK(Subscribe(e, World), NoGroup)
  BY SubscribeChannelOK, TopicKinds
<1>2. EndpointOK(Subscribe(Subscribe(e, World), Zone), NoGroup)
  BY <1>1, SubscribeChannelOK, TopicKinds
<1>3. EndpointOK(Subscribe(Subscribe(Subscribe(e, World), Zone), Tell(n)), NoGroup)
  BY <1>2, SubscribeChannelOK, TopicKinds
<1> QED BY <1>3, SubscribeGroupOK DEF SubscribeStandardTopics

\* Freeing one slot unsubscribes its topic and nothing else.
LEMMA FreeFirstOK ==
    ASSUME NEW g, NEW e, EndpointOK(e, g), NEW slots \in SUBSET (1 .. NumSlots)
    PROVE  /\ EndpointOK(FreeFirst(e, slots), g)
           /\ slots # {} => \E k \in slots :
                 /\ FreeFirst(e, slots).topics[k] = Unused
                 /\ FreeFirst(e, slots).subs = e.subs \ {e.topics[k]}
                 /\ \A i \in 1 .. NumSlots : i # k => FreeFirst(e, slots).topics[i] = e.topics[i]
<1> DEFINE new == FreeFirst(e, slots)
           k == First(slots)
<1>1. CASE slots = {}
  BY <1>1 DEF FreeFirst
<1>2. CASE slots # {}
  <2>1. k \in slots
    BY <1>2, FirstProperties, SlotsAssumption
  <2>2. new = [e EXCEPT !.topics[k] = Unused, !.subs = @ \ {e.topics[k]}]
    BY <1>2 DEF FreeFirst
  <2> HIDE DEF new, k
  <2>3. /\ new \in Endpoint /\ new.subs = e.subs \ {e.topics[k]} /\ new.topics[k] = Unused
        /\ \A i \in 1 .. NumSlots : i # k => new.topics[i] = e.topics[i]
    BY <2>1, <2>2 DEF Endpoint, EndpointOK
  <2>4. ASSUME NEW u \in new.subs, ~IsPlaceholder(u)
        PROVE  \E i \in 1 .. NumSlots : new.topics[i] = u
    <3>1. PICK i \in 1 .. NumSlots : e.topics[i] = u
      BY <2>3, <2>4 DEF EndpointOK, Recorded
    <3>2. i # k
      BY <2>3, <3>1
    <3> QED BY <2>3, <3>1, <3>2
  <2>5. \A i \in 1 .. NumSlots : IsGroupTopic(new.topics[i]) => new.topics[i] = e.topics[i]
    BY <2>3, TopicKinds
  <2>6. EndpointOK(new, g)
    BY <2>3, <2>4, <2>5 DEF EndpointOK, Recorded
  <2> QED BY <2>1, <2>3, <2>6 DEF new
<1> QED BY <1>1, <1>2

\* Leaving a group leaves no trace of its topic.
LEMMA RemoveGroupOK ==
    ASSUME NEW g, NEW e, EndpointOK(e, g)
    PROVE  EndpointOK(RemoveGroupSubscription(e), NoGroup)
<1> DEFINE slots == {i \in 1 .. NumSlots : IsGroupTopic(e.topics[i])}
           new == RemoveGroupSubscription(e)
<1>1. /\ EndpointOK(new, g)
      /\ slots # {} => \E k \in slots :
            /\ new.topics[k] = Unused
            /\ \A i \in 1 .. NumSlots : i # k => new.topics[i] = e.topics[i]
  <2>1. slots \in SUBSET (1 .. NumSlots) /\ new = FreeFirst(e, slots)
    BY DEF RemoveGroupSubscription
  <2> HIDE DEF slots, new
  <2>2. /\ EndpointOK(FreeFirst(e, slots), g)
        /\ slots # {} => \E k \in slots :
              /\ FreeFirst(e, slots).topics[k] = Unused
              /\ \A i \in 1 .. NumSlots : i # k => FreeFirst(e, slots).topics[i] = e.topics[i]
    BY <2>1, FreeFirstOK
  <2> QED BY <2>1, <2>2
<1>2. slots = {} => new = e
  BY DEF RemoveGroupSubscription, FreeFirst
<1> HIDE DEF new
<1>3. \A i \in 1 .. NumSlots : ~IsGroupTopic(new.topics[i])
  BY <1>1, <1>2, TopicKinds DEF EndpointOK
<1> QED BY <1>1, <1>3 DEF EndpointOK, new

\* A client that takes back a subscription keeps the others.
LEMMA RemoveTopicOK ==
    ASSUME NEW g, NEW e, EndpointOK(e, g), NEW t \in Topics
    PROVE  /\ EndpointOK(RemoveTopicSubscription(e, t), g)
           /\ RemoveTopicSubscription(e, t).subs = e.subs \ {t}
<1> DEFINE slots == {i \in 1 .. NumSlots : InUse(e.topics[i]) /\ e.topics[i] = t}
<1>1. CASE slots = {}
  <2>1. t \notin e.subs
    BY <1>1, TopicKinds DEF EndpointOK, Recorded
  <2> QED BY <1>1, <2>1 DEF RemoveTopicSubscription, FreeFirst
<1>2. CASE slots # {}
  <2>1. slots \in SUBSET (1 .. NumSlots) /\ RemoveTopicSubscription(e, t) = FreeFirst(e, slots)
    BY DEF RemoveTopicSubscription
  <2>2. \A k \in slots : e.topics[k] = t
    OBVIOUS
  <2> HIDE DEF slots
  <2> QED BY <1>2, <2>1, <2>2, FreeFirstOK
<1> QED BY <1>1, <1>2

\* In one line: what a connection in group g, or in none, may hear.
LEMMA HearsOwnGroup ==
    ASSUME NEW g, NEW e, EndpointOK(e, g), NEW h, GroupTopic(h) \in e.subs
    PROVE  g # NoGroup /\ h = g /\ h \in GroupIds
<1>1. IsGroupTopic(GroupTopic(h)) /\ ~IsPlaceholder(GroupTopic(h))
  BY DEF IsGroupTopic, IsPlaceholder, GroupTopic
<1>2. PICK i \in 1 .. NumSlots : e.topics[i] = GroupTopic(h)
  BY <1>1 DEF EndpointOK, Recorded
<1>3. h = g /\ g # NoGroup
  BY <1>1, <1>2, TopicKinds DEF EndpointOK
<1>4. GroupTopic(h) \in Topics
  BY <1>1, TopicKinds DEF EndpointOK, Endpoint
<1>5. /\ \A m : Tell(m)[1] = "tell" /\ \A t : Custom(t)[1] = "custom"
      /\ World[1] = "world" /\ Zone[1] = "zone" /\ GroupTopic(h)[1] = "group"
  BY DEF Tell, Custom, World, Zone, GroupTopic
<1>6. \E k \in GroupIds : GroupTopic(h) = GroupTopic(k)
  BY <1>4, <1>5 DEF Topics
<1> QED BY <1>3, <1>6, TopicKinds

-----------------------------------------------------------------------------
\* The invariant.

SocketData == [state : {"closed", "open", "connected", "ending"},
               name : Characters \cup {NoName}, groupId : GroupIds \cup {NoGroup}]

\* Sessions and sockets: who is logged in has a name, and is indexed under it.
SessionsOK ==
    /\ activeSessions \in [Characters -> Sockets \cup {NoSocket}]
    /\ data \in [Sockets -> SocketData]
    /\ \A s \in Sockets : data[s].state \in {"connected", "ending"} => data[s].name \in Characters
    /\ SessionsAgree

\* The container, and what sessions and connections know of it.
MembersOK ==
    /\ WellFormed(MyGroups)
    /\ \A n \in Names : GroupOf(MyGroups, n) # NoGroup => n \in Characters
    /\ \A n \in Characters :
          n \in OnlineOf(MyGroups) <=> GroupOf(MyGroups, n) # NoGroup /\ activeSessions[n] # NoSocket
    /\ \A n \in Characters :
          activeSessions[n] # NoSocket => data[activeSessions[n]].groupId = GroupOf(MyGroups, n)

\* The group whose topic a socket may hold, and its slots.
OwnGroup(s) == IF Connected(s) THEN data[s].groupId ELSE NoGroup
EndpointsOK ==
    /\ endpoints \in [Sockets -> Endpoint]
    /\ \A s \in Sockets : EndpointOK(endpoints[s], OwnGroup(s))

\* A client that has heard of its group, or that shares it, knows what it is now.
GroupInfo == [leaderName : Names \cup {NoName}, members : SUBSET [name : Names, isOnline : BOOLEAN]]
RosterOK(seen, e, g, groups) ==
    /\ seen # NoRoster => g # NoGroup
    /\ GroupTopic(g) \in e.subs /\ (seen # NoRoster \/ MemberCount(groups, g) > 1) => seen = Roster(groups, g)
RostersOK ==
    /\ roster \in [Sockets -> GroupInfo \cup {NoRoster}]
    /\ \A s \in Sockets : RosterOK(roster[s], endpoints[s], OwnGroup(s), MyGroups)

ServerInv ==
    /\ MyInvites \in SUBSET GroupInvite
    /\ SessionsOK
    /\ MembersOK
    /\ EndpointsOK
    /\ RostersOK

\* Init, and the properties that the invariant gives.
LEMMA ServerInit == Init => ServerInv
<1> SUFFICES ASSUME Init
             PROVE  ServerInv
  OBVIOUS
<1>1. /\ MyGroups = <<>> /\ DOMAIN MyGroups = {} /\ MyGroups \in Seq(GroupMember)
      /\ \A n : EntriesOf(MyGroups, n) = {}
  BY DEF Init, EntriesOf
<1>2. WellFormed(MyGroups) /\ \A n : GroupOf(MyGroups, n) = NoGroup /\ n \notin OnlineOf(MyGroups)
  BY <1>1 DEF WellFormed, UniqueNames, GroupOf, OnlineOf
<1>3. \A s \in Sockets : data[s] = Closed /\ data[s].state = "closed"
  BY DEF Init, Closed
<1>4. SessionsOK
  BY <1>3 DEF Init, Closed, SocketData, SessionsOK, SessionsAgree, Connected
<1>5. MembersOK
  BY <1>2 DEF Init, MembersOK
<1>6. EndpointsOK
  <2>1. endpoints = [s \in Sockets |-> NoEndpoint]
    BY DEF Init
  <2>2. EndpointOK(NoEndpoint, NoGroup) /\ NoEndpoint \in Endpoint
    BY NoEndpointOK DEF EndpointOK
  <2> QED BY <1>3, <2>1, <2>2 DEF EndpointsOK, OwnGroup, Connected
<1>7. RostersOK
  <2>1. \A s \in Sockets : roster[s] = NoRoster /\ endpoints[s].subs = {}
    BY DEF Init, NoEndpoint
  <2> QED BY <2>1 DEF Init, RostersOK, RosterOK
<1> QED BY <1>4, <1>5, <1>6, <1>7 DEF Init, ServerInv

\* The invariant gives the state properties of the runs that are proved here.
LEMMA ServerInvGives ==
    ASSUME ServerInv
    PROVE  /\ TypeOK /\ SessionsAgree /\ PresenceIsConnection /\ CacheAgrees
           /\ OnlyMembersListen /\ SubscriptionsAreRecorded /\ RosterIsCurrent
<1>1. TypeOK
  <2>1. MyGroups \in Seq(GroupMember)
    BY DEF ServerInv, MembersOK, WellFormed
  <2>2. \A s \in Sockets : roster[s] # NoRoster => roster[s].leaderName \in Names \cup {NoName}
    BY DEF ServerInv, RostersOK, GroupInfo
  <2> QED BY <2>1, <2>2 DEF ServerInv, TypeOK, SessionsOK, SocketData, EndpointsOK, Endpoint
<1>2. SessionsAgree
  BY DEF ServerInv, SessionsOK
<1>3. PresenceIsConnection
  <2> SUFFICES ASSUME NEW i \in DOMAIN MyGroups
               PROVE  MyGroups[i].isOnline <=> activeSessions[MyGroups[i].name] # NoSocket
    BY DEF PresenceIsConnection
  <2>1. /\ WellFormed(MyGroups) /\ MyGroups[i] \in GroupMember
        /\ \A j \in DOMAIN MyGroups : MyGroups[j].name = MyGroups[i].name => j = i
    BY DEF ServerInv, MembersOK, WellFormed, UniqueNames
  <2>2. MyGroups[i].name \in Names /\ MyGroups[i].groupId # NoGroup
    BY <2>1, GroupIdsAssumption DEF GroupMember
  <2>3. /\ GroupOf(MyGroups, MyGroups[i].name) # NoGroup
        /\ MyGroups[i].name \in OnlineOf(MyGroups) <=> MyGroups[i].isOnline
    BY <2>1, <2>2, GroupOfProperties
  <2> QED BY <2>2, <2>3 DEF ServerInv, MembersOK
<1>4. CacheAgrees
  BY ServerAssumption DEF ServerInv, SessionsOK, MembersOK, SessionsAgree, Connected, CacheAgrees
<1>5. OnlyMembersListen
  <2> SUFFICES ASSUME NEW s \in Sockets, NEW g \in GroupIds, GroupTopic(g) \in endpoints[s].subs
               PROVE  Connected(s) /\ GroupOf(MyGroups, data[s].name) = g
    BY DEF OnlyMembersListen
  <2>1. OwnGroup(s) # NoGroup /\ g = OwnGroup(s)
    BY HearsOwnGroup DEF ServerInv, EndpointsOK
  <2> QED BY <1>4, <2>1 DEF OwnGroup, CacheAgrees
<1>6. SubscriptionsAreRecorded
  <2> SUFFICES ASSUME NEW s \in Sockets, NEW t \in endpoints[s].subs, ~IsPlaceholder(t)
               PROVE  \E i \in 1 .. NumSlots : InUse(t) /\ endpoints[s].topics[i] = t
    BY DEF SubscriptionsAreRecorded
  <2>1. \E i \in 1 .. NumSlots : endpoints[s].topics[i] = t
    BY DEF ServerInv, EndpointsOK, EndpointOK, Recorded
  <2>2. t \in Topics
    BY TopicKinds DEF ServerInv, EndpointsOK, Endpoint
  <2> QED BY <2>1, <2>2, TopicKinds
<1>7. RosterIsCurrent
  <2> SUFFICES ASSUME NEW s \in Sockets,
                      GroupTopic(data[s].groupId) \in endpoints[s].subs,
                      roster[s] # NoRoster \/ MemberCount(MyGroups, data[s].groupId) > 1
               PROVE  roster[s] = Roster(MyGroups, data[s].groupId)
    BY DEF RosterIsCurrent
  <2>1. data[s].groupId = OwnGroup(s)
    BY HearsOwnGroup DEF ServerInv, EndpointsOK
  <2> QED BY <2>1 DEF ServerInv, RostersOK, RosterOK
<1> QED BY <1>1, <1>2, <1>3, <1>4, <1>5, <1>6, <1>7

-----------------------------------------------------------------------------
\* Rosters.

\* What the container says of a group is a GroupInfo.
LEMMA RosterType ==
    ASSUME NEW groups, WellFormed(groups), NEW g
    PROVE  Roster(groups, g) \in GroupInfo
<1>1. \A i \in MembersOf(groups, g) :
         [name |-> groups[i].name, isOnline |-> groups[i].isOnline] \in [name : Names, isOnline : BOOLEAN]
  <2>1. \A i \in MembersOf(groups, g) : groups[i] \in GroupMember
    BY DEF WellFormed, MembersOf
  <2> QED BY <2>1 DEF GroupMember
<1> QED BY <1>1, LookupTypes DEF Roster, GroupInfo

\* A connection outside the groups that change needs no news.
LEMMA RosterStays ==
    ASSUME NEW groups, WellFormed(groups), NEW n \in Names, NEW g, NEW online \in BOOLEAN, NEW new,
           Moved(groups, new, n, g, online),
           NEW seen, NEW e, NEW h, EndpointOK(e, h), RosterOK(seen, e, h, groups),
           h # NoGroup => h \notin {g, GroupOf(groups, n)}
    PROVE  RosterOK(seen, e, h, new)
<1>1. CASE GroupTopic(h) \in e.subs
  <2>1. h \in GroupIds /\ h # NoGroup
    BY <1>1, HearsOwnGroup
  <2>2. Roster(new, h) = Roster(groups, h) /\ MemberCount(new, h) = MemberCount(groups, h)
    BY <2>1, RosterOfView DEF Moved
  <2> QED BY <2>2 DEF RosterOK
<1>2. CASE GroupTopic(h) \notin e.subs
  BY <1>2 DEF RosterOK
<1> QED BY <1>1, <1>2

\* A publication brings everyone it reaches up to date.
LEMMA RosterPublished ==
    ASSUME NEW seen, NEW ends, NEW groups, NEW g \in GroupIds, WellFormed(groups),
           NEW s \in Sockets, NEW h, EndpointOK(ends[s], h),
           seen[s] \in GroupInfo \cup {NoRoster},
           GroupTopic(g) \notin ends[s].subs => RosterOK(seen[s], ends[s], h, groups)
    PROVE  /\ SendGroupUpdateInfo(seen, ends, groups, g)[s] \in GroupInfo \cup {NoRoster}
           /\ RosterOK(SendGroupUpdateInfo(seen, ends, groups, g)[s], ends[s], h, groups)
<1> DEFINE now == SendGroupUpdateInfo(seen, ends, groups, g)
<1>1. now[s] = IF GroupTopic(g) \in ends[s].subs THEN Roster(groups, g) ELSE seen[s]
  BY DEF SendGroupUpdateInfo
<1> HIDE DEF now
<1>2. CASE GroupTopic(g) \in ends[s].subs
  <2>1. h # NoGroup /\ h = g
    BY <1>2, HearsOwnGroup
  <2> QED BY <1>1, <1>2, <2>1, RosterType DEF RosterOK, now
<1>3. CASE GroupTopic(g) \notin ends[s].subs
  BY <1>1, <1>3 DEF now
<1> QED BY <1>2, <1>3

\* A connection without a group has nothing to know.
LEMMA RosterOfNone ==
    ASSUME NEW e, EndpointOK(e, NoGroup), NEW groups
    PROVE  RosterOK(NoRoster, e, NoGroup, groups)
<1>1. GroupTopic(NoGroup) \notin e.subs
  BY HearsOwnGroup
<1> QED BY <1>1 DEF RosterOK

\* A socket that does not listen to a group cannot have a stale roster of it.
LEMMA RosterOfOther ==
    ASSUME NEW seen, NEW e, NEW h, NEW groups, NEW new, RosterOK(seen, e, h, groups),
           GroupTopic(h) \notin e.subs
    PROVE  RosterOK(seen, e, h, new)
  BY DEF RosterOK

-----------------------------------------------------------------------------
\* One lemma for each callback.

\* Opening a socket, and closing one that has not logged in, keep the invariant.
LEMMA OpenKeeps ==
    ASSUME ServerInv, NEW s \in Sockets, Open(s) \/ Abandon(s)
    PROVE  ServerInv'
<1>1. /\ data[s].state \in {"closed", "open"}
      /\ data' \in [Sockets -> SocketData]
      /\ data'[s].state \in {"closed", "open"}
      /\ \A t \in Sockets : t # s => data'[t] = data[t]
      /\ endpoints' = [endpoints EXCEPT ![s] = endpoints'[s]]
      /\ endpoints'[s] \in {NewEndpoint(s), NoEndpoint}
      /\ UNCHANGED <<MyGroups, MyInvites, activeSessions, roster>>
  BY DEF Open, Abandon, Closed, ServerInv, SessionsOK, SocketData, EndpointsOK
<1>2. \A n \in Characters : activeSessions[n] # s
  BY <1>1, ServerAssumption DEF ServerInv, SessionsOK, SessionsAgree
<1>3. SessionsOK'
  BY <1>1, <1>2 DEF ServerInv, SessionsOK, SessionsAgree, Connected
<1>4. MembersOK'
  BY <1>1, <1>2 DEF ServerInv, SessionsOK, MembersOK
<1>5. \A t \in Sockets : OwnGroup(t)' = OwnGroup(t)
  BY <1>1 DEF OwnGroup, Connected
<1>6. OwnGroup(s) = NoGroup /\ EndpointOK(endpoints'[s], NoGroup)
  BY <1>1, NoEndpointOK, NewEndpointOK DEF OwnGroup, Connected
<1>7. /\ endpoints' \in [Sockets -> Endpoint]
      /\ \A t \in Sockets : t # s => endpoints'[t] = endpoints[t]
  BY <1>1, <1>6 DEF ServerInv, EndpointsOK, EndpointOK
<1>8. EndpointsOK'
  BY <1>5, <1>6, <1>7 DEF ServerInv, EndpointsOK
<1>9. RostersOK'
  <2>1. roster[s] = NoRoster
    BY <1>6 DEF ServerInv, RostersOK, RosterOK
  <2>2. RosterOK(roster[s], endpoints'[s], NoGroup, MyGroups)
    BY <1>6, <2>1, RosterOfNone
  <2> QED BY <1>1, <1>5, <1>6, <1>7, <2>2 DEF ServerInv, RostersOK
<1> QED BY <1>1, <1>3, <1>4, <1>8, <1>9 DEF ServerInv

\* What is left of a connection when uWebSockets has dropped it.
LEMMA GoneOK ==
    ASSUME ServerInv, NEW s \in Sockets, data'[s].state # "connected",
           endpoints' = [endpoints EXCEPT ![s] = NoEndpoint],
           \A t \in Sockets : t # s => data'[t] = data[t]
    PROVE  /\ EndpointsOK'
           /\ OwnGroup(s)' = NoGroup /\ endpoints'[s] = NoEndpoint
           /\ \A t \in Sockets : t # s => OwnGroup(t)' = OwnGroup(t) /\ endpoints'[t] = endpoints[t]
<1>1. endpoints \in [Sockets -> Endpoint] /\ NoEndpoint \in Endpoint
  BY NoEndpointOK DEF ServerInv, EndpointsOK, EndpointOK
<1>2. OwnGroup(s)' = NoGroup
  BY DEF OwnGroup, Connected
<1>3. \A t \in Sockets : t # s => OwnGroup(t)' = OwnGroup(t) /\ endpoints'[t] = endpoints[t]
  BY <1>1 DEF OwnGroup, Connected
<1>4. endpoints' \in [Sockets -> Endpoint] /\ endpoints'[s] = NoEndpoint
  BY <1>1
<1>5. ASSUME NEW t \in Sockets
      PROVE  EndpointOK(endpoints'[t], OwnGroup(t)')
  BY <1>2, <1>3, <1>4, NoEndpointOK DEF ServerInv, EndpointsOK
<1> QED BY <1>2, <1>3, <1>4, <1>5 DEF EndpointsOK

\* The rosters after the close handler of the current socket of a character.
LEMMA RosterAfterCloseOK ==
    ASSUME ServerInv, NEW s \in Sockets, data[s].state \in {"connected", "ending"}, IsCurrent(s),
           NEW t \in Sockets, t # s
    PROVE  /\ RosterAfterClose(s)[t] \in GroupInfo \cup {NoRoster}
           /\ RosterOK(RosterAfterClose(s)[t], endpoints[t], OwnGroup(t), GroupsAfterClose(s))
<1> DEFINE n == data[s].name
           g == GroupOf(MyGroups, n)
           groups == GroupsAfterClose(s)
           ends == [endpoints EXCEPT ![s] = NoEndpoint]
           seen == [roster EXCEPT ![s] = NoRoster]
<1>1. /\ n \in Characters /\ n \in Names /\ activeSessions[n] = s /\ s # NoSocket
      /\ WellFormed(MyGroups) /\ data[s].groupId = g
  BY ServerAssumption DEF ServerInv, SessionsOK, MembersOK, IsCurrent
<1>2. Moved(MyGroups, groups, n, g, FALSE)
  BY <1>1, OnlineMoves DEF GroupsAfterClose
<1>3. g \in GroupIds \cup {NoGroup}
  BY <1>1, LookupTypes
<1>4. /\ ends[s].subs = {} /\ ends[t] = endpoints[t]
      /\ seen[s] = NoRoster /\ seen[t] = roster[t] /\ roster[t] \in GroupInfo \cup {NoRoster}
      /\ EndpointOK(endpoints[t], OwnGroup(t)) /\ RosterOK(roster[t], endpoints[t], OwnGroup(t), MyGroups)
  BY DEF ServerInv, EndpointsOK, RostersOK, NoEndpoint
<1>5. RosterAfterClose(s) = IF groups # MyGroups /\ g # NoGroup
                            THEN SendGroupUpdateInfo(seen, ends, groups, g) ELSE seen
  BY <1>1 DEF RosterAfterClose
<1>6. WellFormed(groups)
  BY <1>2 DEF Moved
<1> HIDE DEF n, groups, ends, seen
<1>7. CASE groups = MyGroups
  BY <1>4, <1>5, <1>7 DEF groups
<1>8. CASE g = NoGroup
  <2>1. RosterOK(roster[t], endpoints[t], OwnGroup(t), groups)
    BY <1>1, <1>2, <1>4, <1>8, RosterStays
  <2> QED BY <1>4, <1>5, <1>8, <2>1 DEF groups
<1>9. CASE groups # MyGroups /\ g # NoGroup
  <2>1. RosterAfterClose(s) = SendGroupUpdateInfo(seen, ends, groups, g) /\ g \in GroupIds
    BY <1>3, <1>5, <1>9
  <2>2. GroupTopic(g) \notin endpoints[t].subs => RosterOK(roster[t], endpoints[t], OwnGroup(t), groups)
    <3>1. CASE OwnGroup(t) = g
      BY <1>4, <3>1, RosterOfOther
    <3>2. CASE OwnGroup(t) # g
      BY <1>1, <1>2, <1>4, <3>2, RosterStays
    <3> QED BY <3>1, <3>2
  <2> HIDE DEF g
  <2>3. /\ SendGroupUpdateInfo(seen, ends, groups, g)[t] \in GroupInfo \cup {NoRoster}
        /\ RosterOK(SendGroupUpdateInfo(seen, ends, groups, g)[t], ends[t], OwnGroup(t), groups)
    BY <1>4, <1>6, <2>1, <2>2, RosterPublished
  <2> QED BY <1>4, <2>1, <2>3 DEF groups
<1> QED BY <1>7, <1>8, <1>9

\* The closed socket itself forgets its roster.
LEMMA RosterAfterCloseType ==
    ASSUME ServerInv, NEW s \in Sockets
    PROVE  /\ RosterAfterClose(s) = [t \in Sockets |-> RosterAfterClose(s)[t]]
           /\ RosterAfterClose(s)[s] = NoRoster
<1> DEFINE seen == [roster EXCEPT ![s] = NoRoster]
           ends == [endpoints EXCEPT ![s] = NoEndpoint]
           groups == GroupsAfterClose(s)
           g == data[s].groupId
<1>1. seen = [t \in Sockets |-> seen[t]] /\ seen[s] = NoRoster /\ ends[s].subs = {}
  BY DEF ServerInv, RostersOK, EndpointsOK, NoEndpoint
<1>2. RosterAfterClose(s) = IF groups # MyGroups /\ g # NoGroup
                            THEN SendGroupUpdateInfo(seen, ends, groups, g) ELSE seen
  BY DEF RosterAfterClose
<1> HIDE DEF seen, ends, groups, g
<1>3. /\ SendGroupUpdateInfo(seen, ends, groups, g)
            = [t \in Sockets |-> SendGroupUpdateInfo(seen, ends, groups, g)[t]]
      /\ SendGroupUpdateInfo(seen, ends, groups, g)[s] = NoRoster
  BY <1>1 DEF SendGroupUpdateInfo
<1>4. CASE groups # MyGroups /\ g # NoGroup
  <2>1. RosterAfterClose(s) = SendGroupUpdateInfo(seen, ends, groups, g)
    BY <1>2, <1>4
  <2> QED BY <1>3, <2>1
<1>5. CASE ~(groups # MyGroups /\ g # NoGroup)
  <2>1. RosterAfterClose(s) = seen
    BY <1>2, <1>5
  <2> QED BY <1>1, <2>1
<1> QED BY <1>4, <1>5

\* The close handler, whether the socket is its character's current one or has
\* been replaced.
LEMMA CloseHandlerKeeps ==
    ASSUME ServerInv, NEW s \in Sockets, data[s].state \in {"connected", "ending"}, CloseHandler(s)
    PROVE  ServerInv'
<1> DEFINE n == data[s].name
<1>1. /\ n \in Characters /\ n \in Names /\ s # NoSocket /\ WellFormed(MyGroups)
  BY ServerAssumption DEF ServerInv, SessionsOK, MembersOK
<1>2. /\ data' = [data EXCEPT ![s] = Closed] /\ endpoints' = [endpoints EXCEPT ![s] = NoEndpoint]
      /\ UNCHANGED MyInvites
  BY DEF CloseHandler
<1>3. /\ data' \in [Sockets -> SocketData] /\ data'[s].state = "closed"
      /\ \A t \in Sockets : t # s => data'[t] = data[t]
  BY <1>2 DEF Closed, SocketData, ServerInv, SessionsOK
<1>4. /\ EndpointsOK'
      /\ OwnGroup(s)' = NoGroup /\ endpoints'[s] = NoEndpoint
      /\ \A t \in Sockets : t # s => OwnGroup(t)' = OwnGroup(t) /\ endpoints'[t] = endpoints[t]
  BY <1>2, <1>3, GoneOK
<1>5. \A m \in Characters : m # n => activeSessions[m] # s
  BY <1>1 DEF ServerInv, SessionsOK, SessionsAgree
<1>6. ASSUME NEW groups
      PROVE  RosterOK(NoRoster, endpoints'[s], OwnGroup(s)', groups)
  BY <1>4, NoEndpointOK, RosterOfNone
<1>7. CASE IsCurrent(s)
  <2>1. /\ activeSessions[n] = s
        /\ activeSessions' = [activeSessions EXCEPT ![n] = NoSocket]
        /\ MyGroups' = GroupsAfterClose(s)
        /\ roster' = RosterAfterClose(s)
    BY <1>7 DEF CloseHandler, IsCurrent
  <2>2. Moved(MyGroups, MyGroups', n, GroupOf(MyGroups, n), FALSE)
    BY <1>1, <2>1, OnlineMoves DEF GroupsAfterClose
  <2>3. /\ activeSessions' \in [Characters -> Sockets \cup {NoSocket}] /\ activeSessions'[n] = NoSocket
        /\ \A m \in Characters : m # n => activeSessions'[m] = activeSessions[m]
    BY <1>1, <2>1 DEF ServerInv, SessionsOK
  <2>4. SessionsOK'
    BY <1>1, <1>3, <1>5, <2>1, <2>3 DEF ServerInv, SessionsOK, SessionsAgree, Connected
  <2>5. MembersOK'
    <3>1. \A m \in Characters : m \in Names
      BY ServerAssumption
    <3> QED BY <1>1, <1>3, <1>5, <2>2, <2>3, <3>1 DEF ServerInv, SessionsOK, MembersOK, Moved
  <2>6. RostersOK'
    <3>1. ASSUME NEW t \in Sockets
          PROVE  /\ roster'[t] \in GroupInfo \cup {NoRoster}
                 /\ RosterOK(roster'[t], endpoints'[t], OwnGroup(t)', MyGroups')
      <4>1. CASE t = s
        <5>1. roster'[s] = NoRoster
          BY <2>1, RosterAfterCloseType
        <5> QED BY <1>6, <4>1, <5>1
      <4>2. CASE t # s
        BY <1>4, <1>7, <2>1, <4>2, RosterAfterCloseOK
      <4> QED BY <4>1, <4>2
    <3>2. roster' = [t \in Sockets |-> roster'[t]]
      BY <2>1, RosterAfterCloseType
    <3> QED BY <3>1, <3>2 DEF RostersOK
  <2> QED BY <1>2, <1>4, <2>4, <2>5, <2>6 DEF ServerInv
<1>8. CASE ~IsCurrent(s)
  <2>1. /\ roster' = [roster EXCEPT ![s] = NoRoster] /\ UNCHANGED <<activeSessions, MyGroups>>
        /\ activeSessions[n] # s
    BY <1>8 DEF CloseHandler, IsCurrent
  <2>2. SessionsOK'
    BY <1>1, <1>3, <1>5, <2>1 DEF ServerInv, SessionsOK, SessionsAgree, Connected
  <2>3. MembersOK'
    BY <1>3, <1>5, <2>1 DEF ServerInv, SessionsOK, MembersOK
  <2>4. RostersOK'
    <3>1. roster' \in [Sockets -> GroupInfo \cup {NoRoster}] /\ roster'[s] = NoRoster
          /\ \A t \in Sockets : t # s => roster'[t] = roster[t]
      BY <2>1 DEF ServerInv, RostersOK
    <3> QED BY <1>4, <1>6, <2>1, <3>1 DEF ServerInv, RostersOK
  <2> QED BY <1>2, <1>4, <2>2, <2>3, <2>4 DEF ServerInv
<1> QED BY <1>7, <1>8

\* The close handler, for the current connection of a name or a replaced one, keeps the invariant.
LEMMA CloseKeeps ==
    ASSUME ServerInv, NEW s \in Sockets, Close(s)
    PROVE  ServerInv'
  BY CloseHandlerKeeps DEF Close

\* A repeated `connect:` on a socket that is logged in keeps the invariant.
LEMMA ConnectAgainKeeps ==
    ASSUME ServerInv, NEW s \in Sockets, ConnectAgain(s)
    PROVE  ServerInv'
<1>1. CASE EndClosesNow
  BY <1>1, CloseHandlerKeeps DEF ConnectAgain, Connected
<1>2. CASE ~EndClosesNow
  <2>1. /\ Connected(s) /\ data' = [data EXCEPT ![s] = [data[s] EXCEPT !.state = "ending"]]
        /\ endpoints' = [endpoints EXCEPT ![s] = NoEndpoint]
        /\ roster' = [roster EXCEPT ![s] = NoRoster]
        /\ UNCHANGED <<MyGroups, MyInvites, activeSessions>>
    BY <1>2 DEF ConnectAgain, Ended
  <2>2. /\ data' \in [Sockets -> SocketData] /\ data'[s].state = "ending"
        /\ data'[s].name = data[s].name /\ data'[s].groupId = data[s].groupId
        /\ \A t \in Sockets : t # s => data'[t] = data[t]
    BY <2>1 DEF SocketData, ServerInv, SessionsOK
  <2>3. /\ EndpointsOK'
        /\ OwnGroup(s)' = NoGroup /\ endpoints'[s] = NoEndpoint
        /\ \A t \in Sockets : t # s => OwnGroup(t)' = OwnGroup(t) /\ endpoints'[t] = endpoints[t]
    BY <2>1, <2>2, GoneOK
  <2>4. SessionsOK'
    BY <2>1, <2>2 DEF ServerInv, SessionsOK, SessionsAgree, Connected
  <2>5. MembersOK'
    BY <2>1, <2>2 DEF ServerInv, SessionsOK, MembersOK
  <2>6. RostersOK'
    <3>1. roster' \in [Sockets -> GroupInfo \cup {NoRoster}] /\ roster'[s] = NoRoster
          /\ \A t \in Sockets : t # s => roster'[t] = roster[t]
      BY <2>1 DEF ServerInv, RostersOK
    <3>2. RosterOK(NoRoster, NoEndpoint, NoGroup, MyGroups)
      BY NoEndpointOK, RosterOfNone
    <3> QED BY <2>1, <2>3, <3>1, <3>2 DEF ServerInv, RostersOK
  <2> QED BY <2>1, <2>3, <2>4, <2>5, <2>6 DEF ServerInv
<1> QED BY <1>1, <1>2

\* A login: the character is online if it is in a group, whenever the close
\* handler of the socket it replaces runs.
LEMMA LoginMoves ==
    ASSUME NEW groups, WellFormed(groups), NEW n \in Names, NEW left,
           left = groups \/ left = SetMemberOnline(groups, n, FALSE)
    PROVE  LET new == SetMemberOnline(left, n, TRUE)
               g == GroupOf(groups, n)
           IN  /\ GroupOf(left, n) = g
               /\ WellFormed(left) /\ WellFormed(new)
               /\ Moved(groups, new, n, g, g # NoGroup)
               /\ \A h \in GroupIds : LeaderOf(new, h) = LeaderOf(groups, h)
<1> DEFINE new == SetMemberOnline(left, n, TRUE)
           off == SetMemberOnline(groups, n, FALSE)
           g == GroupOf(groups, n)
<1>1. /\ Moved(groups, off, n, g, FALSE) /\ WellFormed(off)
      /\ \A h \in GroupIds : LeaderOf(off, h) = LeaderOf(groups, h)
  BY OnlineMoves DEF Moved
<1>2. /\ WellFormed(left) /\ GroupOf(left, n) = g
      /\ \A m \in Names : GroupOf(left, m) = GroupOf(groups, m)
      /\ \A m \in Names : m # n => (m \in OnlineOf(left) <=> m \in OnlineOf(groups))
      /\ \A h \in GroupIds : LeaderOf(left, h) = LeaderOf(groups, h)
  BY <1>1 DEF Moved
<1>3. /\ Moved(left, new, n, g, g # NoGroup)
      /\ \A h \in GroupIds : LeaderOf(new, h) = LeaderOf(left, h)
  BY <1>2, OnlineMoves
<1> QED BY <1>2, <1>3 DEF Moved

\* A login, with the closing of the socket that it replaces, keeps the invariant.
LEMMA ConnectKeeps ==
    ASSUME ServerInv, NEW s \in Sockets, NEW n \in Characters, Connect(s, n)
    PROVE  ServerInv'
<1> DEFINE old == activeSessions[n]
           retire == old # NoSocket
           left == IF retire /\ EndClosesNow THEN GroupsAfterClose(old) ELSE MyGroups
           g == GroupOf(left, n)
           online == SetMemberOnline(left, n, TRUE)
           ended == IF retire THEN [endpoints EXCEPT ![old] = NoEndpoint] ELSE endpoints
           ends == [ended EXCEPT ![s] = SubscribeStandardTopics(ended[s], n, g)]
           seen == CASE retire /\ EndClosesNow -> RosterAfterClose(old)
                     [] retire /\ ~EndClosesNow -> [roster EXCEPT ![old] = NoRoster]
                     [] OTHER -> roster
<1>1. /\ data[s].state = "open"
      /\ data' = [t \in Sockets |->
                     CASE t = s -> [state |-> "connected", name |-> n, groupId |-> g]
                       [] t = old -> Ended(old)
                       [] OTHER -> data[t]]
      /\ activeSessions' = [activeSessions EXCEPT ![n] = s]
      /\ MyGroups' = online
      /\ endpoints' = ends
      /\ roster' = IF g = NoGroup THEN seen ELSE SendGroupUpdateInfo(seen, ends, online, g)
      /\ UNCHANGED MyInvites
  BY DEF Connect, Previous
<1>2. /\ n \in Names /\ s # NoSocket /\ WellFormed(MyGroups)
      /\ \A m \in Characters : m \in Names /\ activeSessions[m] # s
      /\ s # old
      /\ retire => /\ old \in Sockets /\ data[old].name = n /\ data[old].state \in {"connected", "ending"}
                   /\ IsCurrent(old)
  BY <1>1, ServerAssumption DEF ServerInv, SessionsOK, MembersOK, SessionsAgree, IsCurrent
<1>3. left = MyGroups \/ left = SetMemberOnline(MyGroups, n, FALSE)
  BY <1>2 DEF GroupsAfterClose
<1>4. /\ g = GroupOf(MyGroups, n) /\ WellFormed(left) /\ WellFormed(online)
      /\ Moved(MyGroups, online, n, g, g # NoGroup)
  <2> HIDE DEF left
  <2> QED BY <1>2, <1>3, LoginMoves
<1>5. g \in GroupIds \cup {NoGroup}
  BY <1>2, <1>4, LookupTypes
<1>6. /\ data'[s] = [state |-> "connected", name |-> n, groupId |-> g]
      /\ retire => /\ data'[old] = Ended(old) /\ Ended(old) \in SocketData
                   /\ Ended(old).state # "connected"
                   /\ Ended(old).state = "ending" => Ended(old).name = n
      /\ \A t \in Sockets : t \notin {s, old} => data'[t] = data[t]
      /\ data' \in [Sockets -> SocketData]
  <2>1. retire => /\ Ended(old) \in SocketData /\ Ended(old).state # "connected"
                  /\ Ended(old).state = "ending" => Ended(old).name = n
    BY <1>2 DEF Ended, Closed, SocketData, ServerInv, SessionsOK
  <2> HIDE DEF g, left, online, ended, ends, seen
  <2>2. /\ data'[s] = [state |-> "connected", name |-> n, groupId |-> g]
        /\ [state |-> "connected", name |-> n, groupId |-> g] \in SocketData
    <3>1. [state |-> "connected", name |-> n, groupId |-> g] \in SocketData
      BY <1>5 DEF SocketData
    <3> QED BY <1>1, <1>2, <3>1
  <2>3. retire => data'[old] = Ended(old)
    BY <1>1, <1>2
  <2>4. \A t \in Sockets : t \notin {s, old} => data'[t] = data[t]
    BY <1>1
  <2>5. ASSUME NEW t \in Sockets
        PROVE  data'[t] \in SocketData
    BY <2>1, <2>2, <2>3, <2>4, ServerAssumption DEF ServerInv, SessionsOK
  <2>6. data' \in [Sockets -> SocketData]
    BY <1>1, <2>5
  <2> QED BY <2>1, <2>2, <2>3, <2>4, <2>6
<1>7. /\ activeSessions' \in [Characters -> Sockets \cup {NoSocket}] /\ activeSessions'[n] = s
      /\ \A m \in Characters : m # n => activeSessions'[m] = activeSessions[m]
  BY <1>1 DEF ServerInv, SessionsOK
<1>8. \A m \in Characters : m # n /\ activeSessions[m] # NoSocket => activeSessions[m] \notin {s, old}
  BY <1>2 DEF ServerInv, SessionsOK, SessionsAgree
<1>9. SessionsOK'
  <2> HIDE DEF g
  <2>1. \A m \in Characters : activeSessions'[m] # NoSocket =>
           /\ data'[activeSessions'[m]].name = m
           /\ data'[activeSessions'[m]].state \in {"connected", "ending"}
    BY <1>6, <1>7, <1>8 DEF ServerInv, SessionsOK, SessionsAgree
  <2>2. \A t \in Sockets : data'[t].state = "connected" => activeSessions'[data'[t].name] = t
    <3> SUFFICES ASSUME NEW t \in Sockets, data'[t].state = "connected"
                 PROVE  activeSessions'[data'[t].name] = t
      OBVIOUS
    <3>1. CASE t = s
      BY <1>6, <1>7, <3>1
    <3>2. CASE t # s
      <4>1. t # old
        BY <1>6, <1>2, ServerAssumption
      <4>2. data'[t] = data[t] /\ activeSessions[data[t].name] = t /\ data[t].name \in Characters
        BY <1>6, <3>2, <4>1 DEF ServerInv, SessionsOK, SessionsAgree, Connected
      <4> QED BY <1>7, <4>1, <4>2
    <3> QED BY <3>1, <3>2
  <2>3. \A t \in Sockets : data'[t].state \in {"connected", "ending"} => data'[t].name \in Characters
    BY <1>6, ServerAssumption DEF ServerInv, SessionsOK
  <2> QED BY <1>6, <1>7, <2>1, <2>2, <2>3 DEF SessionsOK, SessionsAgree, Connected
<1>10. MembersOK'
  <2> HIDE DEF g, online
  <2>1. \A m \in Names : GroupOf(MyGroups', m) = GroupOf(MyGroups, m)
    BY <1>1, <1>4 DEF Moved
  <2>2. \A m \in Characters : m \in OnlineOf(MyGroups') <=>
           GroupOf(MyGroups', m) # NoGroup /\ activeSessions'[m] # NoSocket
    BY <1>1, <1>2, <1>4, <1>7 DEF Moved, ServerInv, MembersOK
  <2>3. \A m \in Characters : activeSessions'[m] # NoSocket =>
           data'[activeSessions'[m]].groupId = GroupOf(MyGroups', m)
    BY <1>2, <1>4, <1>6, <1>7, <1>8, <2>1 DEF ServerInv, SessionsOK, MembersOK
  <2> QED BY <1>1, <1>4, <2>1, <2>2, <2>3 DEF ServerInv, MembersOK
<1>11. ASSUME NEW t \in Sockets
       PROVE  /\ t = s => OwnGroup(t)' = g
              /\ t = old => OwnGroup(t)' = NoGroup
              /\ t \notin {s, old} => OwnGroup(t)' = OwnGroup(t)
  <2> HIDE DEF g
  <2>1. CASE t = s
    BY <1>2, <1>6, <2>1 DEF OwnGroup, Connected
  <2>2. CASE t = old
    BY <1>2, <1>6, <2>2, ServerAssumption DEF OwnGroup, Connected
  <2>3. CASE t \notin {s, old}
    BY <1>6, <2>3 DEF OwnGroup, Connected
  <2> QED BY <2>1, <2>2, <2>3
<1>12. /\ ends \in [Sockets -> Endpoint]
       /\ EndpointOK(ends[s], g)
       /\ retire => ends[old] = NoEndpoint
       /\ \A t \in Sockets : t \notin {s, old} => ends[t] = endpoints[t]
  <2>1. /\ retire => ended[old] = NoEndpoint
        /\ \A t \in Sockets : t # old => ended[t] = endpoints[t]
    BY <1>2 DEF ServerInv, EndpointsOK
  <2>2. ended \in [Sockets -> Endpoint]
    BY NoEndpointOK DEF ServerInv, EndpointsOK, EndpointOK
  <2>3. OwnGroup(s) = NoGroup
    BY <1>1 DEF OwnGroup, Connected
  <2>4. EndpointOK(ended[s], NoGroup)
    BY <1>2, <2>1, <2>3 DEF ServerInv, EndpointsOK
  <2>5. EndpointOK(SubscribeStandardTopics(ended[s], n, g), g)
    <3> HIDE DEF ended, g
    <3> QED BY <1>2, <1>5, <2>4, StandardTopicsOK
  <2>6. SubscribeStandardTopics(ended[s], n, g) \in Endpoint
    BY <2>5 DEF EndpointOK
  <2> HIDE DEF ended, g
  <2> QED BY <1>2, <2>1, <2>2, <2>5, <2>6
<1>13. \A t \in Sockets : EndpointOK(ends[t], OwnGroup(t)')
  <2> HIDE DEF ends, g
  <2> QED BY <1>11, <1>12, NoEndpointOK, ServerAssumption DEF ServerInv, EndpointsOK
<1>14. EndpointsOK'
  BY <1>1, <1>12, <1>13 DEF EndpointsOK
<1>15. seen = [t \in Sockets |-> seen[t]]
  <2>1. CASE retire /\ EndClosesNow
    BY <1>2, <2>1, RosterAfterCloseType
  <2>2. CASE retire /\ ~EndClosesNow
    BY <2>2 DEF ServerInv, RostersOK
  <2>3. CASE ~retire
    BY <2>3 DEF ServerInv, RostersOK
  <2> QED BY <2>1, <2>2, <2>3
<1>16. ASSUME NEW t \in Sockets
       PROVE  /\ seen[t] \in GroupInfo \cup {NoRoster}
              /\ (g # NoGroup /\ GroupTopic(g) \in ends[t].subs) \/ RosterOK(seen[t], ends[t], OwnGroup(t)', online)
  <2>1. \A u \in Sockets : u # old =>
           /\ seen[u] \in GroupInfo \cup {NoRoster}
           /\ RosterOK(seen[u], endpoints[u], OwnGroup(u), left)
    <3>1. CASE retire /\ EndClosesNow
      BY <1>2, <3>1, RosterAfterCloseOK
    <3>2. CASE retire /\ ~EndClosesNow
      BY <3>2 DEF ServerInv, RostersOK
    <3>3. CASE ~retire
      BY <3>3 DEF ServerInv, RostersOK
    <3> QED BY <3>1, <3>2, <3>3
  <2>2. retire => seen[old] = NoRoster
    <3>1. CASE retire /\ EndClosesNow
      BY <1>2, <3>1, RosterAfterCloseType
    <3>2. CASE retire /\ ~EndClosesNow
      BY <1>2, <3>2 DEF ServerInv, RostersOK
    <3> QED BY <3>1, <3>2
  <2>3. Moved(left, online, n, g, g # NoGroup)
    BY <1>2, <1>4, OnlineMoves
  <2> HIDE DEF seen, ends, g, online, left
  <2>4. CASE t = s
    <3>1. OwnGroup(s) = NoGroup
      BY <1>1 DEF OwnGroup, Connected
    <3>2. seen[s] = NoRoster
      BY <1>2, <2>1, <3>1 DEF RosterOK
    <3>3. CASE g = NoGroup
      BY <1>11, <1>12, <2>4, <3>2, <3>3, RosterOfNone
    <3>4. CASE g # NoGroup
      BY <1>11, <2>4, <3>2, <3>4 DEF RosterOK
    <3> QED BY <3>2, <3>3, <3>4
  <2>5. CASE t = old
    <3>1. retire
      BY <2>5, ServerAssumption
    <3> QED BY <1>11, <1>12, <2>2, <2>5, <3>1, NoEndpointOK, RosterOfNone
  <2>6. CASE t \notin {s, old}
    <3>1. /\ ends[t] = endpoints[t] /\ OwnGroup(t)' = OwnGroup(t)
          /\ EndpointOK(endpoints[t], OwnGroup(t))
          /\ RosterOK(seen[t], endpoints[t], OwnGroup(t), left)
          /\ seen[t] \in GroupInfo \cup {NoRoster}
      BY <1>11, <1>12, <2>1, <2>6 DEF ServerInv, EndpointsOK
    <3>2. CASE OwnGroup(t) = g /\ g # NoGroup
      BY <3>1, <3>2, RosterOfOther
    <3>3. CASE ~(OwnGroup(t) = g /\ g # NoGroup)
      <4>1. GroupOf(left, n) = g
        BY DEF g
      <4>2. RosterOK(seen[t], endpoints[t], OwnGroup(t), online)
        BY <1>2, <1>4, <2>3, <3>1, <3>3, <4>1, RosterStays
      <4> QED BY <3>1, <4>2
    <3> QED BY <3>2, <3>3
  <2> QED BY <2>4, <2>5, <2>6
<1>17. RostersOK'
  <2> HIDE DEF seen, ends, g, online
  <2>1. CASE g = NoGroup
    BY <1>1, <1>15, <1>16, <2>1 DEF RostersOK
  <2>2. CASE g # NoGroup
    <3>1. \A t \in Sockets :
             /\ SendGroupUpdateInfo(seen, ends, online, g)[t] \in GroupInfo \cup {NoRoster}
             /\ RosterOK(SendGroupUpdateInfo(seen, ends, online, g)[t], ends[t], OwnGroup(t)', online)
      BY <1>4, <1>5, <1>13, <1>16, <2>2, RosterPublished
    <3>2. roster' = SendGroupUpdateInfo(seen, ends, online, g)
      BY <1>1, <2>2
    <3>3. roster' \in [Sockets -> GroupInfo \cup {NoRoster}]
      <4>1. roster' = [t \in Sockets |-> roster'[t]]
        BY <3>2 DEF SendGroupUpdateInfo
      <4> QED BY <3>1, <3>2, <4>1
    <3> QED BY <1>1, <3>1, <3>2, <3>3 DEF RostersOK
  <2> QED BY <2>1, <2>2
<1> QED BY <1>1, <1>9, <1>10, <1>14, <1>17 DEF ServerInv

\* One connection's subscriptions change, and nothing else but its roster.
LEMMA EndpointChangeKeeps ==
    ASSUME ServerInv, NEW s \in Sockets, NEW e, NEW seen \in GroupInfo \cup {NoRoster},
           EndpointOK(e, OwnGroup(s)), RosterOK(seen, e, OwnGroup(s), MyGroups),
           endpoints' = [endpoints EXCEPT ![s] = e],
           roster' = [roster EXCEPT ![s] = seen],
           UNCHANGED <<MyGroups, MyInvites, activeSessions, data>>
    PROVE  ServerInv'
<1>1. SessionsOK' /\ MembersOK'
  BY DEF ServerInv, SessionsOK, SessionsAgree, Connected, MembersOK
<1>2. \A t \in Sockets : OwnGroup(t)' = OwnGroup(t)
  BY DEF OwnGroup, Connected
<1>3. e \in Endpoint
  BY DEF EndpointOK
<1>4. /\ endpoints' \in [Sockets -> Endpoint] /\ endpoints'[s] = e
      /\ \A t \in Sockets : t # s => endpoints'[t] = endpoints[t]
  BY <1>3 DEF ServerInv, EndpointsOK
<1>5. /\ roster' \in [Sockets -> GroupInfo \cup {NoRoster}] /\ roster'[s] = seen
      /\ \A t \in Sockets : t # s => roster'[t] = roster[t]
  BY DEF ServerInv, RostersOK
<1>6. EndpointsOK'
  BY <1>2, <1>4 DEF ServerInv, EndpointsOK
<1>7. RostersOK'
  BY <1>2, <1>4, <1>5 DEF ServerInv, RostersOK
<1> QED BY <1>1, <1>6, <1>7 DEF ServerInv

\* `subscribe:` to a channel keeps the invariant: no channel is a group topic.
LEMMA HandleSubscribeMessageKeeps ==
    ASSUME ServerInv, NEW s \in Sockets, NEW t \in UserTopics, HandleSubscribeMessage(s, t)
    PROVE  ServerInv'
<1> DEFINE e == Subscribe(endpoints[s], Custom(t))
           g == OwnGroup(s)
<1>1. /\ endpoints' = [endpoints EXCEPT ![s] = e]
      /\ UNCHANGED <<MyGroups, MyInvites, activeSessions, data, roster>>
  BY DEF HandleSubscribeMessage
<1>2. EndpointOK(endpoints[s], g) /\ RosterOK(roster[s], endpoints[s], g, MyGroups)
  BY DEF ServerInv, EndpointsOK, RostersOK
<1>3. EndpointOK(e, g)
  BY <1>2, SubscribeChannelOK, TopicKinds
<1>4. e.subs \subseteq endpoints[s].subs \cup {Custom(t)}
  BY <1>2 DEF Subscribe, EndpointOK, Endpoint
<1>5. GroupTopic(g) # Custom(t)
  <2>1. GroupTopic(g)[1] = "group" /\ Custom(t)[1] = "custom"
    BY DEF GroupTopic, Custom
  <2> QED BY <2>1
<1> HIDE DEF e, g
<1>6. RosterOK(roster[s], e, g, MyGroups)
  BY <1>2, <1>4, <1>5 DEF RosterOK
<1>7. roster' = [roster EXCEPT ![s] = roster[s]] /\ roster[s] \in GroupInfo \cup {NoRoster}
  BY <1>1 DEF ServerInv, RostersOK
<1> QED BY <1>1, <1>3, <1>6, <1>7, EndpointChangeKeeps DEF g

\* `unsubscribe:` keeps the invariant.
LEMMA UnsubscribeKeeps ==
    ASSUME ServerInv, NEW s \in Sockets, NEW t \in Droppable, Unsubscribe(s, t)
    PROVE  ServerInv'
<1> DEFINE e == RemoveTopicSubscription(endpoints[s], t)
           g == OwnGroup(s)
           seen == IF t \in endpoints[s].subs /\ IsGroupTopic(t) THEN NoRoster ELSE roster[s]
<1>1. /\ endpoints' = [endpoints EXCEPT ![s] = e]
      /\ roster' = [roster EXCEPT ![s] = seen]
      /\ UNCHANGED <<MyGroups, MyInvites, activeSessions, data>>
  BY DEF Unsubscribe, ServerInv, EndpointsOK, RostersOK
<1>2. /\ EndpointOK(endpoints[s], g) /\ RosterOK(roster[s], endpoints[s], g, MyGroups)
      /\ roster[s] \in GroupInfo \cup {NoRoster}
  BY DEF ServerInv, EndpointsOK, RostersOK
<1>3. EndpointOK(e, g) /\ e.subs = endpoints[s].subs \ {t}
  BY <1>2, RemoveTopicOK, ServerAssumption
<1>4. RosterOK(seen, e, g, MyGroups)
  <2>1. CASE t \in endpoints[s].subs /\ IsGroupTopic(t)
    <3>1. t = GroupTopic(g)
      BY <1>2, <2>1, TopicKinds, ServerAssumption DEF EndpointOK, Recorded
    <3> HIDE DEF g, e
    <3> QED BY <1>3, <2>1, <3>1 DEF RosterOK
  <2>2. CASE ~(t \in endpoints[s].subs /\ IsGroupTopic(t))
    <3> HIDE DEF g, e
    <3> QED BY <1>2, <1>3, <2>2 DEF RosterOK
  <2> QED BY <2>1, <2>2
<1>5. seen \in GroupInfo \cup {NoRoster}
  BY <1>2
<1> HIDE DEF e, seen
<1> QED BY <1>1, <1>3, <1>4, <1>5, EndpointChangeKeeps

-----------------------------------------------------------------------------

\* Invitations keep their form.
LEMMA InvitesOK ==
    ASSUME MyInvites \in SUBSET GroupInvite
    PROVE  /\ \A groups : \A leader, member \in Names :
                 StoreInvite(groups, leader, member) => MyInvites' \in SUBSET GroupInvite
           /\ RemoveOldInvites(MyInvites) \in SUBSET GroupInvite
           /\ Older(MyInvites) \in SUBSET GroupInvite
<1>1. RemoveOldInvites(MyInvites) \in SUBSET GroupInvite
  BY DEF RemoveOldInvites
<1>2. ASSUME NEW groups, NEW leader \in Names, NEW member \in Names,
             StoreInvite(groups, leader, member)
      PROVE  MyInvites' \in SUBSET GroupInvite
  <2>1. [leaderName |-> leader, memberName |-> member, age |-> 0] \in GroupInvite
    BY LimitsAssumption DEF GroupInvite
  <2> QED BY <1>1, <1>2, <2>1 DEF StoreInvite, AddInvite
<1>3. Older(MyInvites) \in SUBSET GroupInvite
  <2>1. ASSUME NEW v \in MyInvites
        PROVE  [v EXCEPT !.age = IF v.age > MaxAge THEN v.age ELSE v.age + 1] \in GroupInvite
    BY LimitsAssumption DEF GroupInvite
  <2> QED BY <2>1 DEF Older
<1> QED BY <1>1, <1>2, <1>3

\* Only the invitations change.
LEMMA InvitesKeep ==
    ASSUME ServerInv, MyInvites' \in SUBSET GroupInvite,
           UNCHANGED <<MyGroups, activeSessions, data, endpoints, roster>>
    PROVE  ServerInv'
<1>1. \A s \in Sockets : OwnGroup(s)' = OwnGroup(s)
  BY DEF OwnGroup, Connected
<1> QED BY <1>1 DEF ServerInv, SessionsOK, SessionsAgree, Connected, MembersOK, EndpointsOK, RostersOK

\* A step that changes nothing keeps the invariant.
LEMMA StutterKeeps ==
    ASSUME ServerInv, UNCHANGED vars
    PROVE  ServerInv'
<1>1. MyInvites' \in SUBSET GroupInvite
  BY DEF vars, ServerInv
<1> QED BY <1>1, InvitesKeep DEF vars

\* Invitations growing older keep the invariant.
LEMMA TickKeeps ==
    ASSUME ServerInv, Tick
    PROVE  ServerInv'
  BY InvitesOK, InvitesKeep DEF Tick, ServerInv

\* A refused join, which may have dropped expired invitations, keeps the invariant.
LEMMA GroupJoinRefusedKeeps ==
    ASSUME ServerInv, NEW s \in Sockets, NEW inviter \in Names, GroupJoinRefused(s, inviter)
    PROVE  ServerInv'
  BY InvitesOK, InvitesKeep DEF GroupJoinRefused, ServerInv

\* A connected socket has a name.
LEMMA ConnectedName ==
    ASSUME ServerInv, NEW s \in Sockets, Connected(s)
    PROVE  /\ data[s].name \in Characters /\ data[s].name \in Names
           /\ activeSessions[data[s].name] = s /\ s # NoSocket
           /\ data[s].groupId = GroupOf(MyGroups, data[s].name) /\ OwnGroup(s) = data[s].groupId
           /\ data[s].groupId \in GroupIds \cup {NoGroup}
           /\ WellFormed(MyGroups)
  BY ServerAssumption DEF ServerInv, SessionsOK, SessionsAgree, SocketData, MembersOK, Connected, OwnGroup

\* An invitation from an existing group keeps the invariant.
LEMMA GroupInviteFromGroupKeeps ==
    ASSUME ServerInv, NEW s \in Sockets, NEW invited \in Names, GroupInviteFromGroup(s, invited)
    PROVE  ServerInv'
  BY InvitesOK, InvitesKeep, ConnectedName DEF GroupInviteFromGroup, ServerInv

\* An Alive message finds its sender online already.
LEMMA AliveKeeps ==
    ASSUME ServerInv, NEW s \in Sockets, Alive(s)
    PROVE  /\ ServerInv'
           /\ \A m \in Names : /\ GroupOf(MyGroups', m) = GroupOf(MyGroups, m)
                               /\ m \in OnlineOf(MyGroups') <=> m \in OnlineOf(MyGroups)
           /\ \A h \in GroupIds : LeaderOf(MyGroups', h) = LeaderOf(MyGroups, h)
<1> DEFINE n == data[s].name
<1>1. /\ n \in Characters /\ n \in Names /\ activeSessions[n] # NoSocket /\ WellFormed(MyGroups)
      /\ MyGroups' = SetMemberOnline(MyGroups, n, TRUE)
      /\ UNCHANGED <<MyInvites, activeSessions, data, endpoints, roster>>
  BY ConnectedName DEF Alive, AliveMsg
<1>2. /\ Moved(MyGroups, MyGroups', n, GroupOf(MyGroups, n), GroupOf(MyGroups, n) # NoGroup)
      /\ \A h \in GroupIds : LeaderOf(MyGroups', h) = LeaderOf(MyGroups, h)
  BY <1>1, OnlineMoves
<1> HIDE DEF n
<1>3. /\ WellFormed(MyGroups')
      /\ \A m \in Names : /\ GroupOf(MyGroups', m) = GroupOf(MyGroups, m)
                          /\ m \in OnlineOf(MyGroups') <=> m \in OnlineOf(MyGroups)
  BY <1>1, <1>2 DEF Moved, ServerInv, MembersOK
<1>4. SessionsOK'
  BY <1>1 DEF ServerInv, SessionsOK, SessionsAgree, Connected
<1>5. MembersOK'
  <2>1. \A m \in Characters : m \in Names
    BY ServerAssumption
  <2> QED BY <1>1, <1>3, <2>1 DEF ServerInv, MembersOK
<1>6. \A t \in Sockets : OwnGroup(t)' = OwnGroup(t)
  BY <1>1 DEF OwnGroup, Connected
<1>7. EndpointsOK'
  BY <1>1, <1>6 DEF ServerInv, EndpointsOK
<1>8. RostersOK'
  <2>1. ASSUME NEW t \in Sockets
        PROVE  RosterOK(roster[t], endpoints[t], OwnGroup(t), MyGroups')
    <3>1. EndpointOK(endpoints[t], OwnGroup(t)) /\ RosterOK(roster[t], endpoints[t], OwnGroup(t), MyGroups)
      BY DEF ServerInv, EndpointsOK, RostersOK
    <3>2. OwnGroup(t) \in GroupIds =>
             /\ Roster(MyGroups', OwnGroup(t)) = Roster(MyGroups, OwnGroup(t))
             /\ MemberCount(MyGroups', OwnGroup(t)) = MemberCount(MyGroups, OwnGroup(t))
      BY <1>1, <1>2, <1>3, RosterOfView
    <3> QED BY <3>1, <3>2, HearsOwnGroup DEF RosterOK
  <2> QED BY <1>1, <1>6, <2>1 DEF ServerInv, RostersOK
<1> QED BY <1>1, <1>2, <1>3, <1>4, <1>5, <1>7, <1>8 DEF ServerInv

-----------------------------------------------------------------------------

\* A connected character moves to a group or leaves its own: all but the rosters.
LEMMA MoveKeeps ==
    ASSUME ServerInv, NEW s \in Sockets, Connected(s), NEW g \in GroupIds \cup {NoGroup},
           Moved(MyGroups, MyGroups', data[s].name, g, g # NoGroup),
           data' = [data EXCEPT ![s].groupId = g],
           NEW e, EndpointOK(e, g), endpoints' = [endpoints EXCEPT ![s] = e],
           UNCHANGED activeSessions
    PROVE  /\ SessionsOK' /\ MembersOK' /\ EndpointsOK'
           /\ OwnGroup(s)' = g /\ endpoints'[s] = e
           /\ \A t \in Sockets : t # s => OwnGroup(t)' = OwnGroup(t) /\ endpoints'[t] = endpoints[t]
<1> DEFINE n == data[s].name
<1>1. /\ n \in Characters /\ n \in Names /\ activeSessions[n] = s /\ s # NoSocket
  BY ConnectedName
<1>2. /\ data' \in [Sockets -> SocketData]
      /\ data'[s].state = "connected" /\ data'[s].name = n /\ data'[s].groupId = g
      /\ \A t \in Sockets : t # s => data'[t] = data[t]
  BY DEF ServerInv, SessionsOK, SocketData, Connected
<1>3. /\ OwnGroup(s)' = g
      /\ \A t \in Sockets : t # s => OwnGroup(t)' = OwnGroup(t)
  BY <1>2 DEF OwnGroup, Connected
<1>4. e \in Endpoint
  BY DEF EndpointOK
<1>5. /\ endpoints' \in [Sockets -> Endpoint] /\ endpoints'[s] = e
      /\ \A t \in Sockets : t # s => endpoints'[t] = endpoints[t]
  BY <1>4 DEF ServerInv, EndpointsOK
<1>6. SessionsOK'
  BY <1>1, <1>2 DEF ServerInv, SessionsOK, SessionsAgree, Connected
<1>7. MembersOK'
  <2>1. \A m \in Characters : m \in Names /\ (m # n => activeSessions[m] # s)
    BY <1>1, ServerAssumption DEF ServerInv, SessionsOK, SessionsAgree
  <2> HIDE DEF n
  <2>2. Moved(MyGroups, MyGroups', n, g, g # NoGroup)
    BY DEF n
  <2>3. \A m \in Names : GroupOf(MyGroups', m) # NoGroup => m \in Characters
    BY <1>1, <2>2 DEF Moved, ServerInv, MembersOK
  <2>4. \A m \in Characters : m \in OnlineOf(MyGroups') <=>
           GroupOf(MyGroups', m) # NoGroup /\ activeSessions[m] # NoSocket
    BY <1>1, <2>1, <2>2 DEF Moved, ServerInv, MembersOK
  <2>5. \A m \in Characters : activeSessions[m] # NoSocket =>
           data'[activeSessions[m]].groupId = GroupOf(MyGroups', m)
    BY <1>1, <1>2, <2>1, <2>2 DEF Moved, ServerInv, SessionsOK, MembersOK
  <2> QED BY <2>2, <2>3, <2>4, <2>5 DEF Moved, MembersOK
<1>8. EndpointsOK'
  BY <1>3, <1>5 DEF ServerInv, EndpointsOK
<1> QED BY <1>3, <1>5, <1>6, <1>7, <1>8

\* An inviter without a group: the container has not heard of the new group, and
\* no socket holds its topic.
LEMMA GroupInviteFoundingKeeps ==
    ASSUME ServerInv, NEW s \in Sockets, NEW invited \in Names, GroupInviteFounding(s, invited)
    PROVE  /\ ServerInv'
           /\ Connected(s)
           /\ \E g \in GroupIds \ GetUniqueGroupIds(MyGroups) :
                 /\ MyGroups' = GroupStartGroup(MyGroups, data[s].name, g)
                 /\ GroupStartAccepted(MyGroups, data[s].name)
                 /\ Moved(MyGroups, MyGroups', data[s].name, g, TRUE)
<1> DEFINE n == data[s].name
<1>1. PICK g \in FreshGroupIds :
         /\ MyGroups' = GroupStartGroup(MyGroups, n, g)
         /\ data' = [data EXCEPT ![s].groupId = g]
         /\ endpoints' = [endpoints EXCEPT ![s] = SubscribeGroupTopic(@, g)]
         /\ StoreInvite(MyGroups', n, invited)
  BY DEF GroupInviteFounding
<1>2. /\ Connected(s) /\ data[s].groupId = NoGroup /\ GroupStartAccepted(MyGroups, n)
      /\ UNCHANGED <<activeSessions, roster>>
  BY DEF GroupInviteFounding
<1>3. /\ g \in GroupIds \ GetUniqueGroupIds(MyGroups) /\ g # NoGroup
      /\ \A t \in Sockets : data[t].groupId # g
  BY GroupIdsAssumption DEF FreshGroupIds
<1>4. /\ n \in Names /\ WellFormed(MyGroups) /\ OwnGroup(s) = NoGroup
  BY <1>2, ConnectedName
<1>5. Moved(MyGroups, MyGroups', n, g, TRUE) /\ MemberCount(MyGroups', g) = 1 /\ WellFormed(MyGroups')
  BY <1>1, <1>2, <1>3, <1>4, StartMoves DEF Moved
<1> DEFINE e == SubscribeGroupTopic(endpoints[s], g)
<1>6. EndpointOK(endpoints[s], NoGroup) /\ RosterOK(roster[s], endpoints[s], NoGroup, MyGroups)
  BY <1>4 DEF ServerInv, EndpointsOK, RostersOK
<1>7. EndpointOK(e, g)
  BY <1>3, <1>6, SubscribeGroupOK
<1>8. endpoints' = [endpoints EXCEPT ![s] = e]
  BY <1>1 DEF ServerInv, EndpointsOK
<1> HIDE DEF e
<1>9. Moved(MyGroups, MyGroups', n, g, g # NoGroup)
  BY <1>3, <1>5
<1>10. /\ SessionsOK' /\ MembersOK' /\ EndpointsOK'
       /\ OwnGroup(s)' = g /\ endpoints'[s] = e
       /\ \A t \in Sockets : t # s => OwnGroup(t)' = OwnGroup(t) /\ endpoints'[t] = endpoints[t]
  BY <1>1, <1>2, <1>3, <1>7, <1>8, <1>9, MoveKeeps
<1>11. MyInvites' \in SUBSET GroupInvite
  BY <1>1, <1>4, InvitesOK DEF ServerInv
<1>12. RostersOK'
  <2>1. ASSUME NEW t \in Sockets, t # s
        PROVE  RosterOK(roster[t], endpoints[t], OwnGroup(t), MyGroups')
    <3>1. EndpointOK(endpoints[t], OwnGroup(t)) /\ RosterOK(roster[t], endpoints[t], OwnGroup(t), MyGroups)
      BY DEF ServerInv, EndpointsOK, RostersOK
    <3>2. OwnGroup(t) # NoGroup => OwnGroup(t) # g
      BY <1>3 DEF OwnGroup
    <3>3. GroupOf(MyGroups, n) = NoGroup
      BY <1>2 DEF GroupStartAccepted
    <3> HIDE DEF n
    <3> QED BY <1>4, <1>5, <3>1, <3>2, <3>3, RosterStays
  <2>2. RosterOK(roster[s], e, g, MyGroups')
    BY <1>3, <1>5, <1>6 DEF RosterOK
  <2> QED BY <1>2, <1>10, <2>1, <2>2 DEF ServerInv, RostersOK
<1> QED BY <1>1, <1>2, <1>3, <1>5, <1>10, <1>11, <1>12 DEF ServerInv

\* A departure: those that stay are told.
LEMMA LeaveGroupKeeps ==
    ASSUME ServerInv, NEW s \in Sockets, LeaveGroup(s)
    PROVE  ServerInv'
<1> DEFINE n == data[s].name
           g == data[s].groupId
           e == RemoveGroupSubscription(endpoints[s])
           seen == [roster EXCEPT ![s] = NoRoster]
<1>1. /\ Connected(s) /\ g # NoGroup
      /\ MyGroups' = GroupDisband(MyGroups, n)
      /\ MyInvites' = GroupDisbandInvites(MyGroups, MyInvites, n)
      /\ data' = [data EXCEPT ![s].groupId = NoGroup]
      /\ endpoints' = [endpoints EXCEPT ![s] = e]
      /\ roster' = SendGroupUpdateInfo(seen, endpoints', MyGroups', g)
      /\ UNCHANGED activeSessions
  BY DEF LeaveGroup, ServerInv, EndpointsOK
<1>2. /\ n \in Names /\ WellFormed(MyGroups) /\ g = GroupOf(MyGroups, n) /\ OwnGroup(s) = g
      /\ g \in GroupIds
  BY <1>1, ConnectedName
<1>3. Moved(MyGroups, MyGroups', n, NoGroup, FALSE) /\ WellFormed(MyGroups')
  BY <1>1, <1>2, DisbandMoves DEF Moved
<1>4. EndpointOK(e, NoGroup)
  BY RemoveGroupOK DEF ServerInv, EndpointsOK
<1>5. Moved(MyGroups, MyGroups', n, NoGroup, NoGroup # NoGroup)
  BY <1>3
<1>6. /\ SessionsOK' /\ MembersOK' /\ EndpointsOK'
      /\ OwnGroup(s)' = NoGroup /\ endpoints'[s] = e
      /\ \A t \in Sockets : t # s => OwnGroup(t)' = OwnGroup(t) /\ endpoints'[t] = endpoints[t]
  <2> HIDE DEF e
  <2> QED BY <1>1, <1>4, <1>5, MoveKeeps
<1>7. MyInvites' \in SUBSET GroupInvite
  BY <1>1 DEF GroupDisbandInvites, ServerInv
<1>8. /\ seen \in [Sockets -> GroupInfo \cup {NoRoster}] /\ seen[s] = NoRoster
      /\ \A t \in Sockets : t # s => seen[t] = roster[t]
  BY DEF ServerInv, RostersOK
<1>9. \A t \in Sockets : EndpointOK(endpoints'[t], OwnGroup(t)')
  BY <1>6 DEF EndpointsOK
<1> HIDE DEF n, g, e, seen
<1>10. ASSUME NEW t \in Sockets, GroupTopic(g) \notin endpoints'[t].subs
       PROVE  RosterOK(seen[t], endpoints'[t], OwnGroup(t)', MyGroups')
  <2>1. CASE t = s
    BY <1>4, <1>6, <1>8, <2>1, RosterOfNone
  <2>2. CASE t # s
    <3>1. EndpointOK(endpoints[t], OwnGroup(t)) /\ RosterOK(roster[t], endpoints[t], OwnGroup(t), MyGroups)
      BY DEF ServerInv, EndpointsOK, RostersOK
    <3>2. CASE OwnGroup(t) = g
      BY <1>6, <1>8, <1>10, <2>2, <3>1, <3>2, RosterOfOther
    <3>3. CASE OwnGroup(t) # g
      BY <1>2, <1>3, <1>6, <1>8, <2>2, <3>1, <3>3, RosterStays
    <3> QED BY <3>2, <3>3
  <2> QED BY <2>1, <2>2
<1>11. ASSUME NEW t \in Sockets
       PROVE  /\ roster'[t] \in GroupInfo \cup {NoRoster}
              /\ RosterOK(roster'[t], endpoints'[t], OwnGroup(t)', MyGroups')
  <2>1. seen[t] \in GroupInfo \cup {NoRoster}
    BY <1>8
  <2>2. GroupTopic(g) \notin endpoints'[t].subs => RosterOK(seen[t], endpoints'[t], OwnGroup(t)', MyGroups')
    BY <1>10
  <2>3. /\ SendGroupUpdateInfo(seen, endpoints', MyGroups', g)[t] \in GroupInfo \cup {NoRoster}
        /\ RosterOK(SendGroupUpdateInfo(seen, endpoints', MyGroups', g)[t], endpoints'[t], OwnGroup(t)', MyGroups')
    BY <1>2, <1>3, <1>9, <2>1, <2>2, RosterPublished
  <2> QED BY <1>1, <2>3
<1>12. roster' = [t \in Sockets |-> roster'[t]]
  BY <1>1 DEF SendGroupUpdateInfo
<1> QED BY <1>6, <1>7, <1>11, <1>12 DEF ServerInv, RostersOK

\* How an accepted command ends: its sender had no group, or was alone in its own,
\* and joins; or it shares its group, and only the old invitations are gone.
LEMMA GroupJoinOutcomes ==
    ASSUME ServerInv, NEW s \in Sockets, NEW inviter \in Names, GroupJoinAccept(s, inviter)
    PROVE  LET n == data[s].name
               own == GroupOf(MyGroups, n)
               g == GroupOf(MyGroups, inviter)
           IN  /\ Connected(s) /\ JoinValidated(n, inviter) /\ UNCHANGED activeSessions
               /\ MyInvites' \in SUBSET GroupInvite
               /\ \/ /\ own # NoGroup /\ MemberCount(MyGroups, own) > 1
                     /\ UNCHANGED <<MyGroups, data, endpoints, roster>>
                  \/ /\ g \in GroupIds
                     /\ \/ own = NoGroup /\ GroupJoinAccepted(MyGroups, n, inviter)
                           /\ MyGroups' = GroupJoin(MyGroups, n, inviter)
                        \/ /\ own \in GroupIds /\ own # g /\ InGroup(MyGroups, own) = {n}
                           /\ MemberCount(MyGroups, own) = 1
                           /\ \A h \in GroupIds : LeaderOf(MyGroups', h) =
                                 IF h = own THEN NoName ELSE LeaderOf(MyGroups, h)
                     /\ Moved(MyGroups, MyGroups', n, g, TRUE)
                     /\ data' = [data EXCEPT ![s].groupId = g]
                     /\ \E e : /\ EndpointOK(e, NoGroup)
                               /\ endpoints' = [endpoints EXCEPT ![s] = SubscribeGroupTopic(e, g)]
                     /\ roster' = SendGroupUpdateInfo([roster EXCEPT ![s] = NoRoster], endpoints', MyGroups', g)
<1> DEFINE n == data[s].name
           own == GroupOf(MyGroups, n)
           target == GroupOf(MyGroups, inviter)
           solo == own # NoGroup /\ MemberCount(MyGroups, own) = 1
           live == RemoveOldInvites(MyInvites)
           groups == IF solo THEN GroupDisband(MyGroups, n) ELSE MyGroups
           invites == IF solo THEN GroupDisbandInvites(MyGroups, live, n) ELSE live
           endpoint == IF solo THEN RemoveGroupSubscription(endpoints[s]) ELSE endpoints[s]
           cached == IF solo THEN NoGroup ELSE data[s].groupId
           joins == cached = NoGroup /\ GroupJoinAccepted(groups, n, inviter)
           g == GroupOf(groups, inviter)
           seen == IF solo THEN [roster EXCEPT ![s] = NoRoster] ELSE roster
           ends == [endpoints EXCEPT ![s] = IF joins THEN SubscribeGroupTopic(endpoint, g) ELSE endpoint]
<1>1. /\ Connected(s) /\ JoinValidated(n, inviter) /\ endpoints' = ends /\ UNCHANGED activeSessions
      /\ joins => /\ MyGroups' = GroupJoin(groups, n, inviter)
                  /\ data' = [data EXCEPT ![s].groupId = g]
                  /\ MyInvites' = RemoveInvite(invites, inviter, n)
                  /\ roster' = SendGroupUpdateInfo(seen, ends, MyGroups', g)
      /\ ~joins => /\ MyGroups' = groups
                   /\ data' = [data EXCEPT ![s].groupId = cached]
                   /\ MyInvites' = invites
                   /\ roster' = seen
  BY DEF GroupJoinAccept
<1>2. /\ n \in Names /\ WellFormed(MyGroups) /\ data[s].groupId = own /\ OwnGroup(s) = own
      /\ own \in GroupIds \cup {NoGroup}
  BY <1>1, ConnectedName
<1>3. /\ target # NoGroup /\ target # own /\ MemberCount(MyGroups, target) < MyMaxGroupMembers
      /\ target \in GroupIds
  BY <1>1, <1>2, LookupTypes DEF JoinValidated
<1>4. EndpointOK(endpoints[s], own) /\ RosterOK(roster[s], endpoints[s], own, MyGroups)
  BY <1>2 DEF ServerInv, EndpointsOK, RostersOK
<1>5. MyInvites' \in SUBSET GroupInvite
  <2>1. live \in SUBSET GroupInvite
    BY InvitesOK DEF ServerInv
  <2> HIDE DEF live
  <2>2. GroupDisbandInvites(MyGroups, live, n) \in SUBSET GroupInvite
    BY <2>1 DEF GroupDisbandInvites
  <2>3. invites \in SUBSET GroupInvite
    BY <2>1, <2>2
  <2> HIDE DEF invites, joins, groups, ends, seen, cached
  <2> QED BY <1>1, <2>3 DEF RemoveInvite
<1>6. CASE solo
  <2>1. /\ GroupJoinAccepted(groups, n, inviter) /\ g = target /\ InGroup(MyGroups, own) = {n}
        /\ own \in GroupIds
        /\ Moved(MyGroups, GroupJoin(groups, n, inviter), n, target, TRUE)
        /\ \A h \in GroupIds : LeaderOf(GroupJoin(groups, n, inviter), h) =
              IF h = own THEN NoName ELSE LeaderOf(MyGroups, h)
    <3>1. groups = GroupDisband(MyGroups, n) /\ own # NoGroup /\ MemberCount(MyGroups, own) = 1
      BY <1>6
    <3>2. g = GroupOf(groups, inviter)
      OBVIOUS
    <3> HIDE DEF groups, g, n
    <3>3. /\ GroupJoinAccepted(groups, n, inviter) /\ GroupOf(groups, inviter) = target
          /\ InGroup(MyGroups, own) = {n} /\ own \in GroupIds
          /\ Moved(MyGroups, GroupJoin(groups, n, inviter), n, target, TRUE)
      BY <1>2, <1>3, <3>1, SoloMoves
    <3>4. \A h \in GroupIds : LeaderOf(GroupJoin(groups, n, inviter), h) =
             IF h = own THEN NoName ELSE LeaderOf(MyGroups, h)
      <4>1. /\ target \notin {NoGroup, own} /\ n \in Names /\ WellFormed(MyGroups)
            /\ own # NoGroup /\ MemberCount(MyGroups, own) = 1
            /\ MemberCount(MyGroups, target) < MyMaxGroupMembers
        BY <1>2, <1>3, <3>1
      <4>2. \A h \in GroupIds : LeaderOf(GroupJoin(GroupDisband(MyGroups, n), n, inviter), h) =
               IF h = own THEN NoName ELSE LeaderOf(MyGroups, h)
        BY <4>1, SoloMoves
      <4> QED BY <3>1, <4>2
    <3> QED BY <3>2, <3>3, <3>4
  <2>2. EndpointOK(endpoint, NoGroup)
    BY <1>4, <1>6, RemoveGroupOK
  <2>3. joins
    BY <1>6, <2>1
  <2>4. ends = [endpoints EXCEPT ![s] = SubscribeGroupTopic(endpoint, target)]
    BY <2>1, <2>3
  <2>5. seen = [roster EXCEPT ![s] = NoRoster]
    BY <1>6
  <2>6. MemberCount(MyGroups, own) = 1
    BY <1>6
  <2> HIDE DEF groups, endpoint, ends, seen, joins, g, invites, cached, solo, own, target, n
  <2> QED BY <1>1, <1>3, <1>5, <2>1, <2>2, <2>3, <2>4, <2>5, <2>6 DEF own, target, n
<1>7. CASE ~solo /\ own = NoGroup
  <2>1. GroupJoinAccepted(MyGroups, n, inviter) /\ groups = MyGroups /\ g = target
    BY <1>3, <1>7 DEF GroupJoinAccepted
  <2>2. joins
    BY <1>2, <1>7, <2>1
  <2>3. Moved(MyGroups, GroupJoin(MyGroups, n, inviter), n, target, TRUE)
    BY <1>2, <2>1, JoinMoves
  <2>4. endpoint = endpoints[s] /\ EndpointOK(endpoint, NoGroup)
    BY <1>4, <1>7
  <2>5. seen = [roster EXCEPT ![s] = NoRoster]
    <3>1. roster[s] = NoRoster
      BY <1>4, <1>7 DEF RosterOK
    <3> QED BY <1>7, <3>1 DEF ServerInv, RostersOK
  <2>6. ends = [endpoints EXCEPT ![s] = SubscribeGroupTopic(endpoint, target)]
    BY <2>1, <2>2
  <2>7. own = NoGroup
    BY <1>7
  <2> HIDE DEF groups, endpoint, ends, seen, joins, g, invites, cached, solo, own, target, n
  <2> QED BY <1>1, <1>3, <1>5, <2>1, <2>2, <2>3, <2>4, <2>5, <2>6, <2>7 DEF own, target, n
<1>8. CASE ~solo /\ own # NoGroup
  <2>1. ~joins /\ groups = MyGroups /\ cached = data[s].groupId /\ endpoint = endpoints[s] /\ seen = roster
    BY <1>2, <1>8
  <2>2. MemberCount(MyGroups, own) > 1
    <3>1. n \in InGroup(MyGroups, own) /\ own \in GroupIds
      BY <1>2, <1>8 DEF InGroup
    <3>2. IsFiniteSet(InGroup(MyGroups, own)) /\ Cardinality(InGroup(MyGroups, own)) \in Nat
          /\ Cardinality(InGroup(MyGroups, own)) = MemberCount(MyGroups, own)
      BY <1>2, <3>1, MembersAreEntries
    <3>3. Cardinality(InGroup(MyGroups, own)) # 0
      BY <3>1, <3>2, FS_EmptySet
    <3>4. MemberCount(MyGroups, own) # 1
      BY <1>8
    <3> HIDE DEF own
    <3> QED BY <3>2, <3>3, <3>4
  <2>3. endpoints' = endpoints
    BY <1>1, <2>1 DEF ServerInv, EndpointsOK
  <2>4. data' = data
    BY <1>1, <2>1 DEF ServerInv, SessionsOK, SocketData
  <2>5. MyGroups' = MyGroups /\ roster' = roster
    BY <1>1, <2>1
  <2>6. own # NoGroup
    BY <1>8
  <2> HIDE DEF groups, endpoint, ends, seen, joins, g, invites, cached, solo, own, target, n
  <2> QED BY <1>1, <1>5, <2>2, <2>3, <2>4, <2>5, <2>6 DEF own, target, n
<1> QED BY <1>6, <1>7, <1>8

\* An accepted join, with the departure from a solo group before it, keeps the invariant.
LEMMA GroupJoinAcceptKeeps ==
    ASSUME ServerInv, NEW s \in Sockets, NEW inviter \in Names, GroupJoinAccept(s, inviter)
    PROVE  ServerInv'
<1> DEFINE n == data[s].name
           own == GroupOf(MyGroups, n)
           g == GroupOf(MyGroups, inviter)
           seen == [roster EXCEPT ![s] = NoRoster]
<1>1. Connected(s) /\ MyInvites' \in SUBSET GroupInvite /\ UNCHANGED activeSessions
  BY GroupJoinOutcomes
<1>2. n \in Names /\ WellFormed(MyGroups) /\ OwnGroup(s) = own /\ activeSessions[n] = s
  BY <1>1, ConnectedName
<1>3. CASE UNCHANGED <<MyGroups, data, endpoints, roster>>
  BY <1>1, <1>3, InvitesKeep
<1>4. CASE ~UNCHANGED <<MyGroups, data, endpoints, roster>>
  <2>1. /\ g \in GroupIds
        /\ own = NoGroup \/ InGroup(MyGroups, own) = {n}
        /\ Moved(MyGroups, MyGroups', n, g, TRUE)
        /\ data' = [data EXCEPT ![s].groupId = g]
        /\ roster' = SendGroupUpdateInfo(seen, endpoints', MyGroups', g)
    BY <1>4, GroupJoinOutcomes
  <2>2. PICK e : /\ EndpointOK(e, NoGroup)
                 /\ endpoints' = [endpoints EXCEPT ![s] = SubscribeGroupTopic(e, g)]
    BY <1>4, GroupJoinOutcomes
  <2>3. EndpointOK(SubscribeGroupTopic(e, g), g) /\ g # NoGroup
    BY <2>1, <2>2, SubscribeGroupOK, GroupIdsAssumption
  <2>4. Moved(MyGroups, MyGroups', n, g, g # NoGroup) /\ WellFormed(MyGroups')
    BY <2>1, <2>3 DEF Moved
  <2>5. /\ SessionsOK' /\ MembersOK' /\ EndpointsOK'
        /\ OwnGroup(s)' = g
        /\ \A t \in Sockets : t # s => OwnGroup(t)' = OwnGroup(t) /\ endpoints'[t] = endpoints[t]
    BY <1>1, <2>1, <2>2, <2>3, <2>4, MoveKeeps
  <2>6. /\ seen \in [Sockets -> GroupInfo \cup {NoRoster}] /\ seen[s] = NoRoster
        /\ \A t \in Sockets : t # s => seen[t] = roster[t]
    BY DEF ServerInv, RostersOK
  <2>7. \A t \in Sockets : EndpointOK(endpoints'[t], OwnGroup(t)')
    BY <2>5 DEF EndpointsOK
  <2>8. ASSUME NEW t \in Sockets, t # s, own # NoGroup
        PROVE  OwnGroup(t) # own
    <3>1. SUFFICES ASSUME OwnGroup(t) = own
                   PROVE  FALSE
      OBVIOUS
    <3>2. Connected(t)
      BY <2>8, <3>1 DEF OwnGroup
    <3>3. /\ data[t].name \in Names /\ GroupOf(MyGroups, data[t].name) = own
          /\ activeSessions[data[t].name] = t
      BY <3>1, <3>2, ConnectedName
    <3>4. data[t].name \in InGroup(MyGroups, own)
      BY <3>3 DEF InGroup
    <3>5. data[t].name = n
      BY <2>1, <2>8, <3>4
    <3> QED BY <1>2, <2>8, <3>3, <3>5
  <2> HIDE DEF n, own, g, seen
  <2>9. ASSUME NEW t \in Sockets, GroupTopic(g) \notin endpoints'[t].subs
        PROVE  RosterOK(seen[t], endpoints'[t], OwnGroup(t)', MyGroups')
    <3>1. CASE t = s
      BY <2>3, <2>5, <2>6, <2>9, <3>1 DEF RosterOK
    <3>2. CASE t # s
      <4>1. EndpointOK(endpoints[t], OwnGroup(t)) /\ RosterOK(roster[t], endpoints[t], OwnGroup(t), MyGroups)
        BY DEF ServerInv, EndpointsOK, RostersOK
      <4>2. CASE OwnGroup(t) = g
        BY <2>5, <2>6, <2>9, <3>2, <4>1, <4>2, RosterOfOther
      <4>3. CASE OwnGroup(t) # g
        <5>1. OwnGroup(t) # NoGroup => OwnGroup(t) # GroupOf(MyGroups, n)
          BY <2>8, <3>2 DEF own
        <5>2. RosterOK(roster[t], endpoints[t], OwnGroup(t), MyGroups')
          BY <1>2, <2>1, <4>1, <4>3, <5>1, RosterStays
        <5> QED BY <2>5, <2>6, <3>2, <5>2
      <4> QED BY <4>2, <4>3
    <3> QED BY <3>1, <3>2
  <2>10. ASSUME NEW t \in Sockets
         PROVE  /\ roster'[t] \in GroupInfo \cup {NoRoster}
                /\ RosterOK(roster'[t], endpoints'[t], OwnGroup(t)', MyGroups')
    <3>1. seen[t] \in GroupInfo \cup {NoRoster}
      BY <2>6
    <3>2. GroupTopic(g) \notin endpoints'[t].subs => RosterOK(seen[t], endpoints'[t], OwnGroup(t)', MyGroups')
      BY <2>9
    <3>3. /\ SendGroupUpdateInfo(seen, endpoints', MyGroups', g)[t] \in GroupInfo \cup {NoRoster}
          /\ RosterOK(SendGroupUpdateInfo(seen, endpoints', MyGroups', g)[t], endpoints'[t], OwnGroup(t)', MyGroups')
      BY <2>1, <2>4, <2>7, <3>1, <3>2, RosterPublished
    <3> QED BY <2>1, <3>3
  <2>11. roster' = [t \in Sockets |-> roster'[t]]
    BY <2>1 DEF SendGroupUpdateInfo
  <2> QED BY <1>1, <2>5, <2>10, <2>11 DEF ServerInv, RostersOK
<1> QED BY <1>3, <1>4

-----------------------------------------------------------------------------

\* The invariant is inductive: one case for every callback.
LEMMA ServerInvIsInductive == ServerInv /\ [Next]_vars => ServerInv'
<1> SUFFICES ASSUME ServerInv, [Next]_vars
             PROVE  ServerInv'
  OBVIOUS
<1>1. CASE UNCHANGED vars
  BY <1>1, StutterKeeps
<1>2. CASE Tick
  BY <1>2, TickKeeps
<1>3. ASSUME NEW s \in Sockets, Open(s) \/ Abandon(s)
      PROVE  ServerInv'
  BY <1>3, OpenKeeps
<1>4. ASSUME NEW s \in Sockets, ConnectAgain(s) \/ Close(s) \/ LeaveGroup(s) \/ Alive(s)
      PROVE  ServerInv'
  BY <1>4, ConnectAgainKeeps, CloseKeeps, LeaveGroupKeeps, AliveKeeps
<1>5. ASSUME NEW s \in Sockets, NEW n \in Characters, Connect(s, n)
      PROVE  ServerInv'
  BY <1>5, ConnectKeeps
<1>6. ASSUME NEW s \in Sockets, NEW t \in UserTopics, HandleSubscribeMessage(s, t)
      PROVE  ServerInv'
  BY <1>6, HandleSubscribeMessageKeeps
<1>7. ASSUME NEW s \in Sockets, NEW t \in Droppable, Unsubscribe(s, t)
      PROVE  ServerInv'
  BY <1>7, UnsubscribeKeeps
<1>8. ASSUME NEW s \in Sockets, NEW n \in Names, GroupInviteFounding(s, n) \/ GroupInviteFromGroup(s, n)
      PROVE  ServerInv'
  BY <1>8, GroupInviteFoundingKeeps, GroupInviteFromGroupKeeps
<1>9. ASSUME NEW s \in Sockets, NEW n \in Names, GroupJoinRefused(s, n) \/ GroupJoinAccept(s, n)
      PROVE  ServerInv'
  BY <1>9, GroupJoinRefusedKeeps, GroupJoinAcceptKeeps
<1> QED BY <1>1, <1>2, <1>3, <1>4, <1>5, <1>6, <1>7, <1>8, <1>9 DEF Next

\* The server's invariant always holds: sessions, sockets, subscriptions, published rosters and
\* the container agree after every callback, for every number of sockets, names and slots.
THEOREM ServerInvariant == Spec => []ServerInv
<1> QED BY ServerInit, ServerInvIsInductive, PTL DEF Spec

\* The type invariant.
THEOREM TypesCorrect == Spec => []TypeOK
<1> QED BY ServerInvariant, ServerInvGives, PTL

\* However logins, commands, close events and reconnections are ordered: every
\* entry of the session index has its socket, and no character two of them.
THEOREM SessionsAlwaysAgree == Spec => []SessionsAgree
<1> QED BY ServerInvariant, ServerInvGives, PTL

\* A member is marked online exactly while its character has a session, even
\* when the close event of a replaced socket comes after the new login.
THEOREM PresenceIsAlwaysConnection == Spec => []PresenceIsConnection
<1> QED BY ServerInvariant, ServerInvGives, PTL

\* The group id cached in a connection is the one of the container.
THEOREM CacheAlwaysAgrees == Spec => []CacheAgrees
<1> QED BY ServerInvariant, ServerInvGives, PTL

\* Nobody hears a group that it is not in.
THEOREM OnlyMembersEverListen == Spec => []OnlyMembersListen
<1> QED BY ServerInvariant, ServerInvGives, PTL

\* Every subscription is in a slot.
THEOREM SubscriptionsAreAlwaysRecorded == Spec => []SubscriptionsAreRecorded
<1> QED BY ServerInvariant, ServerInvGives, PTL

\* Every client that hears a group of two or more knows what the group is now.
THEOREM RosterIsAlwaysCurrent == Spec => []RosterIsCurrent
<1> QED BY ServerInvariant, ServerInvGives, PTL

-----------------------------------------------------------------------------
\* What a step does to the groups.

\* The callbacks that move no character: at most one member's presence changes.
LEMMA PresenceSteps ==
    ASSUME ServerInv, NEW s \in Sockets,
           \/ ConnectAgain(s) \/ Close(s) \/ Alive(s)
           \/ \E n \in Characters : Connect(s, n)
    PROVE  \/ UNCHANGED MyGroups
           \/ \E n \in Names, online \in BOOLEAN :
                 /\ Moved(MyGroups, MyGroups', n, GroupOf(MyGroups, n), GroupOf(MyGroups, n) # NoGroup /\ online)
                 /\ \A h \in GroupIds : LeaderOf(MyGroups', h) = LeaderOf(MyGroups, h)
<1>1. WellFormed(MyGroups)
  BY DEF ServerInv, MembersOK
<1>2. ASSUME data[s].state \in {"connected", "ending"}, CloseHandler(s), MyGroups' # MyGroups
      PROVE  \E n \in Names, online \in BOOLEAN :
                /\ Moved(MyGroups, MyGroups', n, GroupOf(MyGroups, n), GroupOf(MyGroups, n) # NoGroup /\ online)
                /\ \A h \in GroupIds : LeaderOf(MyGroups', h) = LeaderOf(MyGroups, h)
  <2>1. data[s].name \in Names
    BY <1>2, ServerAssumption DEF ServerInv, SessionsOK
  <2>2. MyGroups' = SetMemberOnline(MyGroups, data[s].name, FALSE)
    BY <1>2 DEF CloseHandler, GroupsAfterClose
  <2> QED BY <1>1, <2>1, <2>2, OnlineMoves
<1>3. CASE ConnectAgain(s)
  BY <1>2, <1>3 DEF ConnectAgain, Connected
<1>4. CASE Close(s)
  BY <1>2, <1>4 DEF Close
<1>5. CASE Alive(s)
  <2>1. data[s].name \in Names /\ MyGroups' = SetMemberOnline(MyGroups, data[s].name, TRUE)
    BY <1>5, ConnectedName DEF Alive, AliveMsg
  <2> QED BY <1>1, <2>1, OnlineMoves
<1>6. ASSUME NEW n \in Characters, Connect(s, n)
      PROVE  \E online \in BOOLEAN :
                /\ Moved(MyGroups, MyGroups', n, GroupOf(MyGroups, n), GroupOf(MyGroups, n) # NoGroup /\ online)
                /\ \A h \in GroupIds : LeaderOf(MyGroups', h) = LeaderOf(MyGroups, h)
  <2> DEFINE old == activeSessions[n]
             left == IF old # NoSocket /\ EndClosesNow THEN GroupsAfterClose(old) ELSE MyGroups
  <2>1. MyGroups' = SetMemberOnline(left, n, TRUE)
    BY <1>6 DEF Connect, Previous
  <2>2. left = MyGroups \/ left = SetMemberOnline(MyGroups, n, FALSE)
    BY DEF GroupsAfterClose, ServerInv, SessionsOK, SessionsAgree
  <2>3. n \in Names
    BY ServerAssumption
  <2> HIDE DEF left
  <2>4. /\ Moved(MyGroups, MyGroups', n, GroupOf(MyGroups, n), GroupOf(MyGroups, n) # NoGroup)
        /\ \A h \in GroupIds : LeaderOf(MyGroups', h) = LeaderOf(MyGroups, h)
    BY <1>1, <2>1, <2>2, <2>3, LoginMoves
  <2>5. Moved(MyGroups, MyGroups', n, GroupOf(MyGroups, n), GroupOf(MyGroups, n) # NoGroup /\ TRUE)
    BY <2>4
  <2> QED BY <2>4, <2>5
<1>7. Characters \subseteq Names
  BY ServerAssumption
<1> QED BY <1>3, <1>4, <1>5, <1>6, <1>7

\* The others leave the container alone.
LEMMA OtherSteps ==
    ASSUME NEW s \in Sockets,
           \/ Open(s) \/ Abandon(s)
           \/ \E t : HandleSubscribeMessage(s, t) \/ Unsubscribe(s, t)
           \/ \E n \in Names : GroupInviteFromGroup(s, n) \/ GroupJoinRefused(s, n)
    PROVE  UNCHANGED MyGroups
  BY DEF Open, Abandon, HandleSubscribeMessage, Unsubscribe, GroupInviteFromGroup, GroupJoinRefused

\* Accepting an invitation never costs a character the group it has: once the
\* handler has left a solo group, the container cannot refuse the join.
THEOREM JoinNeverEverStrands == Spec => JoinNeverStrands
<1>1. ASSUME ServerInv, NEW s \in Sockets, NEW inviter \in Names, GroupJoinAccept(s, inviter)
      PROVE  LET n == data[s].name
             IN  \/ GroupOf(MyGroups', n) = GroupOf(MyGroups, inviter)
                 \/ /\ GroupOf(MyGroups', n) = GroupOf(MyGroups, n)
                    /\ MemberCount(MyGroups, GroupOf(MyGroups, n)) > 1
  <2> DEFINE n == data[s].name
  <2>1. n \in Names
    BY <1>1, GroupJoinOutcomes, ConnectedName
  <2>2. CASE UNCHANGED MyGroups /\ MemberCount(MyGroups, GroupOf(MyGroups, n)) > 1
    BY <2>2
  <2>3. CASE Moved(MyGroups, MyGroups', n, GroupOf(MyGroups, inviter), TRUE)
    BY <2>1, <2>3 DEF Moved
  <2> QED BY <1>1, <2>2, <2>3, GroupJoinOutcomes
<1>2. ServerInv /\ [Next]_vars =>
         [\A s \in Sockets, inviter \in Names :
             GroupJoinAccept(s, inviter) =>
                 LET n == data[s].name
                 IN  \/ GroupOf(MyGroups', n) = GroupOf(MyGroups, inviter)
                     \/ /\ GroupOf(MyGroups', n) = GroupOf(MyGroups, n)
                        /\ MemberCount(MyGroups, GroupOf(MyGroups, n)) > 1]_vars
  BY <1>1
<1> QED BY <1>2, ServerInvariant, PTL DEF Spec, JoinNeverStrands

\* Who enters an existing group has been invited by a name that is in that group.
LEMMA EntryIsByInvitation ==
    ASSUME ServerInv, [Next]_vars, NEW n \in Characters, Enters(n)
    PROVE  \E v \in LiveInvites(n), m \in Names :
              SameName(v.leaderName, m) /\ GroupOf(MyGroups, m) = GroupOf(MyGroups', n)
<1> DEFINE Invited == \E v \in LiveInvites(n), m \in Names :
               SameName(v.leaderName, m) /\ GroupOf(MyGroups, m) = GroupOf(MyGroups', n)
<1>1. NoGroup \notin GetUniqueGroupIds(MyGroups)
  <2>1. \A i \in DOMAIN MyGroups : MyGroups[i] \in GroupMember
    BY DEF ServerInv, MembersOK, WellFormed
  <2> QED BY <2>1, GroupIdsAssumption DEF GetUniqueGroupIds, GroupMember
<1>2. GroupOf(MyGroups', n) \in GetUniqueGroupIds(MyGroups) /\ GroupOf(MyGroups, n) # GroupOf(MyGroups', n)
  BY DEF Enters
<1>3. n \in Names /\ WellFormed(MyGroups)
  BY ServerAssumption DEF ServerInv, MembersOK
<1>4. ASSUME UNCHANGED MyGroups
      PROVE  Invited
  BY <1>2, <1>4
<1>5. ASSUME NEW s \in Sockets,
             ConnectAgain(s) \/ Close(s) \/ Alive(s) \/ \E m \in Characters : Connect(s, m)
      PROVE  Invited
  <2>1. GroupOf(MyGroups', n) = GroupOf(MyGroups, n)
    BY <1>3, <1>5, PresenceSteps DEF Moved
  <2> QED BY <1>2, <2>1
<1>6. ASSUME NEW s \in Sockets, LeaveGroup(s)
      PROVE  Invited
  <2>1. data[s].name \in Names /\ MyGroups' = GroupDisband(MyGroups, data[s].name)
    BY <1>6, ConnectedName DEF LeaveGroup
  <2>2. GroupOf(MyGroups', n) \in {NoGroup, GroupOf(MyGroups, n)}
    BY <1>3, <2>1, DisbandMoves DEF Moved
  <2> QED BY <1>1, <1>2, <2>2
<1>7. ASSUME NEW s \in Sockets, NEW m \in Names, GroupInviteFounding(s, m)
      PROVE  Invited
  <2>1. PICK g \in GroupIds \ GetUniqueGroupIds(MyGroups) : Moved(MyGroups, MyGroups', data[s].name, g, TRUE)
    BY <1>7, GroupInviteFoundingKeeps
  <2>2. GroupOf(MyGroups', n) \in {g, GroupOf(MyGroups, n)}
    BY <1>3, <2>1 DEF Moved
  <2> QED BY <1>2, <2>1, <2>2
<1>8. ASSUME NEW s \in Sockets, NEW inviter \in Names, GroupJoinAccept(s, inviter)
      PROVE  Invited
  <2>1. Moved(MyGroups, MyGroups', data[s].name, GroupOf(MyGroups, inviter), TRUE) \/ UNCHANGED MyGroups
    BY <1>8, GroupJoinOutcomes
  <2>2. n = data[s].name /\ GroupOf(MyGroups', n) = GroupOf(MyGroups, inviter)
    BY <1>2, <1>3, <2>1 DEF Moved
  <2>3. PICK v \in RemoveOldInvites(MyInvites) : SameName(v.leaderName, inviter) /\ SameName(v.memberName, n)
    BY <1>8, <2>2 DEF GroupJoinAccept, JoinValidated, CheckHasInvited
  <2>4. v \in LiveInvites(n)
    BY <2>3 DEF RemoveOldInvites, LiveInvites
  <2> QED BY <2>2, <2>3, <2>4
<1>9. Tick => UNCHANGED MyGroups
  BY DEF Tick
<1>10. UNCHANGED vars => UNCHANGED MyGroups
  BY DEF vars
<1> HIDE DEF Invited
<1>11. ASSUME NEW s \in Sockets,
              \/ Open(s) \/ Abandon(s)
              \/ \E t \in UserTopics : HandleSubscribeMessage(s, t)
              \/ \E t \in Droppable : Unsubscribe(s, t)
              \/ \E m \in Names : GroupInviteFromGroup(s, m) \/ GroupJoinRefused(s, m)
       PROVE  Invited
  <2>1. UNCHANGED MyGroups
    BY <1>11 DEF Open, Abandon, HandleSubscribeMessage, Unsubscribe, GroupInviteFromGroup, GroupJoinRefused
  <2> QED BY <1>4, <2>1
<1>12. ASSUME Next
       PROVE  Invited
  BY <1>4, <1>5, <1>6, <1>7, <1>8, <1>9, <1>11, <1>12, Zenon DEF Next
<1>13. Invited
  BY <1>4, <1>10, <1>12
<1> QED BY <1>13 DEF Invited

\* Nobody enters an existing group without an invitation that is not too old and bears
\* the name of a member of that group, in some capitalization.
THEOREM EntryAlwaysNeedsNamedInvitation == Spec => EntryNeedsNamedInvitation
<1>1. ServerInv /\ [Next]_vars =>
         [\A n \in Characters : Enters(n) =>
             \E v \in LiveInvites(n), m \in Names :
                SameName(v.leaderName, m) /\ GroupOf(MyGroups, m) = GroupOf(MyGroups', n)]_vars
  BY EntryIsByInvitation
<1> QED BY <1>1, ServerInvariant, PTL DEF Spec, EntryNeedsNamedInvitation

\* Where no two names differ in nothing but capitalization, the character that issued the
\* invitation is itself a member of the group.
THEOREM EntryAlwaysNeedsInvitation ==
    (\A m, n \in Names : SameName(m, n) => m = n) => (Spec => EntryNeedsInvitation)
<1> SUFFICES ASSUME \A m, n \in Names : SameName(m, n) => m = n
             PROVE  Spec => EntryNeedsInvitation
  OBVIOUS
<1>1. ASSUME ServerInv, [Next]_vars, NEW n \in Characters, Enters(n)
      PROVE  \E v \in LiveInvites(n) : GroupOf(MyGroups, v.leaderName) = GroupOf(MyGroups', n)
  <2>1. PICK v \in LiveInvites(n), m \in Names :
           SameName(v.leaderName, m) /\ GroupOf(MyGroups, m) = GroupOf(MyGroups', n)
    BY <1>1, EntryIsByInvitation
  <2>2. v.leaderName \in Names
    BY <1>1 DEF ServerInv, LiveInvites, GroupInvite
  <2>3. v.leaderName = m
    BY <2>1, <2>2
  <2> QED BY <2>1, <2>3
<1>2. ServerInv /\ [Next]_vars =>
         [\A n \in Characters : Enters(n) =>
             \E v \in LiveInvites(n) : GroupOf(MyGroups, v.leaderName) = GroupOf(MyGroups', n)]_vars
  BY <1>1
<1> QED BY <1>2, ServerInvariant, PTL DEF Spec, EntryNeedsInvitation

-----------------------------------------------------------------------------

\* Every callback is a step of the registry, or none.
LEMMA StepsImplementRegistry == ServerInv /\ [Next]_vars => [Registry!Next]_(Registry!vars)
<1> SUFFICES ASSUME ServerInv, [Next]_vars
             PROVE  [Registry!Next]_(Registry!vars)
  OBVIOUS
<1>1. WellFormed(MyGroups)
  BY DEF ServerInv, MembersOK
<1>2. \A g : Registry!In(g) = InGroup(MyGroups, g)
  BY DEF Registry!In, InGroup
<1>3. \A S : Registry!Cardinality(S) = Cardinality(S)
  BY DEF Registry!Cardinality, Cardinality
<1>4. UNCHANGED (Registry!vars) <=>
         /\ GroupsOf(MyGroups') = GroupsOf(MyGroups)
         /\ LeadersOf(MyGroups') = LeadersOf(MyGroups)
         /\ OnlineOf(MyGroups') = OnlineOf(MyGroups)
  BY DEF Registry!vars, GroupsOf, LeadersOf, OnlineOf
<1>5. UNCHANGED MyGroups => UNCHANGED (Registry!vars)
  BY <1>4
<1>6. \A n \in Names :
         /\ GroupsOf(MyGroups)[n] = GroupOf(MyGroups, n)
         /\ GroupOf(MyGroups, n) \in GroupIds \cup {NoGroup}
  BY <1>1, LookupTypes, ViewAtPoint
<1>7. OnlineOf(MyGroups') \subseteq Names /\ OnlineOf(MyGroups) \subseteq Names
  BY DEF OnlineOf
<1>8. ASSUME NEW s \in Sockets,
             ConnectAgain(s) \/ Close(s) \/ Alive(s) \/ \E n \in Characters : Connect(s, n)
      PROVE  [Registry!Next]_(Registry!vars)
  <2>1. CASE UNCHANGED MyGroups
    BY <1>5, <2>1
  <2>2. ASSUME NEW n \in Names, NEW online \in BOOLEAN,
               Moved(MyGroups, MyGroups', n, GroupOf(MyGroups, n), GroupOf(MyGroups, n) # NoGroup /\ online),
               \A h \in GroupIds : LeaderOf(MyGroups', h) = LeaderOf(MyGroups, h)
        PROVE  [Registry!Next]_(Registry!vars)
    <3>1. /\ GroupsOf(MyGroups') = GroupsOf(MyGroups)
          /\ OnlineOf(MyGroups') = IF GroupOf(MyGroups, n) # NoGroup /\ online
                                   THEN OnlineOf(MyGroups) \cup {n} ELSE OnlineOf(MyGroups) \ {n}
      <4>1. GroupsOf(MyGroups') = GroupsOf(MyGroups)
        BY <2>2 DEF Moved, GroupsOf
      <4>2. \A m \in Names : m \in OnlineOf(MyGroups') <=>
               IF m = n THEN GroupOf(MyGroups, n) # NoGroup /\ online ELSE m \in OnlineOf(MyGroups)
        BY <2>2 DEF Moved
      <4> QED BY <1>7, <4>1, <4>2
    <3>2. LeadersOf(MyGroups') = LeadersOf(MyGroups)
      BY <2>2 DEF LeadersOf
    <3>3. CASE GroupOf(MyGroups, n) = NoGroup
      <4>1. n \notin OnlineOf(MyGroups)
        BY <1>1, <3>3, GroupOfProperties
      <4> QED BY <1>4, <3>1, <3>2, <3>3, <4>1
    <3>4. CASE GroupOf(MyGroups, n) # NoGroup
      <4>1. Registry!Presence(n) <=>
              /\ GroupsOf(MyGroups)[n] # NoGroup
              /\ OnlineOf(MyGroups') \in {OnlineOf(MyGroups) \cup {n}, OnlineOf(MyGroups) \ {n}}
              /\ GroupsOf(MyGroups') = GroupsOf(MyGroups)
              /\ LeadersOf(MyGroups') = LeadersOf(MyGroups)
        BY DEF Registry!Presence, GroupsOf, LeadersOf, OnlineOf
      <4>2. Registry!Presence(n)
        BY <1>6, <3>1, <3>2, <3>4, <4>1
      <4> QED BY <4>2 DEF Registry!Next
    <3> QED BY <3>3, <3>4
  <2> QED BY <1>8, <2>1, <2>2, PresenceSteps
<1>9. ASSUME NEW s \in Sockets, NEW m \in Names, GroupInviteFounding(s, m)
      PROVE  Registry!Next
  <2>1. PICK n \in Names : n = data[s].name
    BY <1>9, GroupInviteFoundingKeeps, ConnectedName
  <2>2. PICK g \in GroupIds \ GetUniqueGroupIds(MyGroups) :
           MyGroups' = GroupStartGroup(MyGroups, n, g) /\ GroupStartAccepted(MyGroups, n)
    BY <1>9, <2>1, GroupInviteFoundingKeeps
  <2>3. /\ GroupsOf(MyGroups)[n] = NoGroup
        /\ InGroup(MyGroups, g) = {}
        /\ GroupsOf(MyGroups') = [GroupsOf(MyGroups) EXCEPT ![n] = g]
        /\ LeadersOf(MyGroups') = [LeadersOf(MyGroups) EXCEPT ![g] = n]
        /\ OnlineOf(MyGroups') = OnlineOf(MyGroups) \cup {n}
    BY <1>1, <2>2, StartFounds
  <2>4. Registry!Found(n, g)
    BY <1>2, <2>3 DEF Registry!Found, GroupsOf, LeadersOf, OnlineOf
  <2> QED BY <2>4 DEF Registry!Next
<1>10. ASSUME NEW s \in Sockets, LeaveGroup(s)
      PROVE  Registry!Next
  <2>1. PICK n \in Names : n = data[s].name
    BY <1>10, ConnectedName DEF LeaveGroup
  <2> DEFINE g == GroupOf(MyGroups, n)
             in == InGroup(MyGroups, g)
  <2>2. MyGroups' = GroupDisband(MyGroups, n) /\ g # NoGroup
    BY <1>10, <2>1, ConnectedName DEF LeaveGroup
  <2>3. /\ GroupsOf(MyGroups') = [GroupsOf(MyGroups) EXCEPT ![n] = NoGroup]
        /\ OnlineOf(MyGroups') = OnlineOf(MyGroups) \ {n}
        /\ g \in GroupIds
        /\ LeaderOf(MyGroups, g) # n => LeadersOf(MyGroups') = LeadersOf(MyGroups)
        /\ LeaderOf(MyGroups, g) = n =>
              \E heir \in IF in = {n} THEN {NoName} ELSE in \ {n} :
                 LeadersOf(MyGroups') = [LeadersOf(MyGroups) EXCEPT ![g] = heir]
    BY <1>1, <2>2, DisbandLeaves
  <2>4. g = GroupsOf(MyGroups)[n] /\ LeadersOf(MyGroups)[g] = LeaderOf(MyGroups, g)
    BY <2>3, ViewAtPoint
  <2>5. Registry!Leave(n) <=>
          LET h == GroupsOf(MyGroups)[n]
              inside == InGroup(MyGroups, h)
          IN  /\ h # NoGroup
              /\ GroupsOf(MyGroups') = [GroupsOf(MyGroups) EXCEPT ![n] = NoGroup]
              /\ OnlineOf(MyGroups') = OnlineOf(MyGroups) \ {n}
              /\ \/ LeadersOf(MyGroups)[h] # n /\ LeadersOf(MyGroups') = LeadersOf(MyGroups)
                 \/ /\ LeadersOf(MyGroups)[h] = n
                    /\ \E heir \in IF inside = {n} THEN {NoName} ELSE inside \ {n} :
                          LeadersOf(MyGroups') = [LeadersOf(MyGroups) EXCEPT ![h] = heir]
    BY DEF Registry!Leave, Registry!In, GroupsOf, InGroup, LeadersOf, OnlineOf
  <2> HIDE DEF g
  <2>6. Registry!Leave(n)
    BY <2>2, <2>3, <2>4, <2>5
  <2> QED BY <2>6 DEF Registry!Next
<1>11. ASSUME NEW s \in Sockets, NEW inviter \in Names, GroupJoinAccept(s, inviter), MyGroups' # MyGroups
       PROVE  Registry!Next
  <2>1. PICK n \in Names : n = data[s].name
    BY <1>11, GroupJoinOutcomes, ConnectedName
  <2>2. PICK g \in GroupIds : g = GroupOf(MyGroups, inviter)
    BY <1>11, GroupJoinOutcomes
  <2>3. PICK own \in GroupIds \cup {NoGroup} : own = GroupOf(MyGroups, n)
    BY <1>6
  <2>4. /\ Moved(MyGroups, MyGroups', n, g, TRUE)
        /\ \/ own = NoGroup /\ GroupJoinAccepted(MyGroups, n, inviter)
              /\ MyGroups' = GroupJoin(MyGroups, n, inviter)
           \/ /\ own \in GroupIds /\ own # g /\ InGroup(MyGroups, own) = {n}
              /\ \A h \in GroupIds : LeaderOf(MyGroups', h) =
                    IF h = own THEN NoName ELSE LeaderOf(MyGroups, h)
    BY <1>11, <2>1, <2>2, <2>3, GroupJoinOutcomes
  <2>5. /\ GroupsOf(MyGroups') = [GroupsOf(MyGroups) EXCEPT ![n] = g]
        /\ OnlineOf(MyGroups') = OnlineOf(MyGroups) \cup {n}
        /\ GroupsOf(MyGroups)[n] = own
    <3>1. GroupsOf(MyGroups') = [GroupsOf(MyGroups) EXCEPT ![n] = g]
      BY <2>4 DEF Moved, GroupsOf
    <3>2. \A m \in Names : m \in OnlineOf(MyGroups') <=> m = n \/ m \in OnlineOf(MyGroups)
      BY <2>4 DEF Moved
    <3> QED BY <1>6, <1>7, <2>3, <3>1, <3>2
  <2>6. InGroup(MyGroups, g) # {} /\ Cardinality(InGroup(MyGroups, g)) < MyMaxGroupMembers
    <3>1. MemberCount(MyGroups, g) < MyMaxGroupMembers
      BY <1>11, <2>2 DEF GroupJoinAccept, JoinValidated
    <3>2. inviter \in InGroup(MyGroups, g)
      BY <2>2 DEF InGroup
    <3> QED BY <1>1, <3>1, <3>2, MembersAreEntries
  <2>7. CASE own = NoGroup
    <3>1. LeadersOf(MyGroups') = LeadersOf(MyGroups)
      BY <1>1, <2>4, <2>7, JoinEnters, GroupIdsAssumption
    <3>2. Registry!Enter(n, g)
      BY <1>2, <1>3, <2>5, <2>6, <2>7, <3>1 DEF Registry!Enter, GroupsOf, LeadersOf, OnlineOf
    <3> QED BY <3>2 DEF Registry!Next
  <2>8. CASE own # NoGroup
    <3>1. LeadersOf(MyGroups') = [LeadersOf(MyGroups) EXCEPT ![own] = NoName]
      BY <2>4, <2>8 DEF LeadersOf
    <3>2. own # g /\ InGroup(MyGroups, own) = {n}
      BY <2>4, <2>8
    <3>3. Registry!Move(n, g) <=>
            LET h == GroupsOf(MyGroups)[n]
            IN  /\ h \notin {NoGroup, g} /\ InGroup(MyGroups, h) = {n}
                /\ InGroup(MyGroups, g) # {} /\ Registry!Cardinality(InGroup(MyGroups, g)) < MyMaxGroupMembers
                /\ GroupsOf(MyGroups') = [GroupsOf(MyGroups) EXCEPT ![n] = g]
                /\ LeadersOf(MyGroups') = [LeadersOf(MyGroups) EXCEPT ![h] = NoName]
                /\ OnlineOf(MyGroups') = OnlineOf(MyGroups) \cup {n}
      BY DEF Registry!Move, Registry!In, GroupsOf, InGroup, LeadersOf, OnlineOf
    <3>4. Registry!Move(n, g)
      BY <1>3, <2>5, <2>6, <2>8, <3>1, <3>2, <3>3
    <3> QED BY <3>4 DEF Registry!Next
  <2> QED BY <2>7, <2>8
<1>12. Tick => UNCHANGED MyGroups
  BY DEF Tick
<1>13. UNCHANGED vars => UNCHANGED MyGroups
  BY DEF vars
<1> QED BY <1>5, <1>8, <1>9, <1>10, <1>11, <1>12, <1>13, OtherSteps DEF Next

\* The server implements the registry, for every number of characters, sockets,
\* slots and invitations: no command of one client changes another character's
\* membership, and leadership changes hands only when the leader leaves.
THEOREM ServerImplementsRegistry == Spec => ImplementsRegistry
<1>1. Init => Registry!Init
  <2> SUFFICES ASSUME Init
               PROVE  Registry!Init
    OBVIOUS
  <2>1. /\ \A n \in Names : EntriesOf(MyGroups, n) = {}
        /\ \A g \in GroupIds : MembersOf(MyGroups, g) = {}
    BY DEF Init, EntriesOf, MembersOf
  <2>2. /\ \A n \in Names : GroupOf(MyGroups, n) = NoGroup
        /\ \A g \in GroupIds : LeaderOf(MyGroups, g) = NoName
    BY <2>1 DEF GroupOf, LeaderOf
  <2> QED BY <2>1, <2>2 DEF Registry!Init
<1> QED BY <1>1, StepsImplementRegistry, ServerInvariant, PTL DEF Spec, ImplementsRegistry, Registry!Spec

-----------------------------------------------------------------------------
\* Clients that use no channels of their own always have a slot for their group.

\* The automatic topics in the order in which a login subscribes to them, and a
\* connection that hears the first k of them, has them in the first slots and has
\* no other slot in use.
AutomaticTopic(n, g, i) ==
    CASE i = 1 -> World
      [] i = 2 -> Zone
      [] i = 3 -> Tell(n)
      [] OTHER -> GroupTopic(g)
Holds(e, n, g, k) ==
    /\ e \in Endpoint
    /\ \A i \in 1 .. k : e.topics[i] = AutomaticTopic(n, g, i) /\ AutomaticTopic(n, g, i) \in e.subs
    /\ \A i \in 1 .. NumSlots : i > k => ~InUse(e.topics[i])

\* Every connection holds the automatic topics, the one of its group being the last.
AutomaticAt(s) ==
    /\ data[s].state = "open" => Holds(endpoints[s], NoName, NoGroup, 0)
    /\ Connected(s) => Holds(endpoints[s], data[s].name, data[s].groupId,
                             IF data[s].groupId = NoGroup THEN 3 ELSE 4)
OnlyAutomatic == \A s \in Sockets : AutomaticAt(s)

\* The automatic topics are told apart, and only the last is a group's.
LEMMA AutomaticTopicsDiffer ==
    ASSUME NEW n, NEW g, NEW i \in 1 .. 4
    PROVE  /\ InUse(AutomaticTopic(n, g, i))
           /\ \A j \in 1 .. 4 : AutomaticTopic(n, g, i) = AutomaticTopic(n, g, j) => i = j
           /\ IsGroupTopic(AutomaticTopic(n, g, i)) <=> i = 4
<1>1. /\ World[1] = "world" /\ Zone[1] = "zone"
      /\ Tell(n)[1] = "tell" /\ GroupTopic(g)[1] = "group"
  BY DEF World, Zone, Tell, GroupTopic
<1>2. \A j \in 1 .. 4 : j \in {1, 2, 3, 4}
  BY SMT
<1>3. /\ AutomaticTopic(n, g, 1) = World /\ AutomaticTopic(n, g, 2) = Zone
      /\ AutomaticTopic(n, g, 3) = Tell(n) /\ AutomaticTopic(n, g, 4) = GroupTopic(g)
  BY DEF AutomaticTopic
<1>4. i = 1 \/ i = 2 \/ i = 3 \/ i = 4
  BY <1>2
<1> QED BY <1>1, <1>2, <1>3, <1>4 DEF IsGroupTopic, InUse

\* First fit: the slot that a topic gets.
LEMMA SubscribeAt ==
    ASSUME NEW e \in Endpoint, NEW t \in Topics, NEW k \in 1 .. NumSlots, ~InUse(e.topics[k]),
           \A i \in 1 .. NumSlots : i < k => InUse(e.topics[i]) /\ e.topics[i] # t
    PROVE  LET new == Subscribe(e, t)
           IN  /\ new \in Endpoint /\ new.subs = e.subs \cup {t} /\ new.topics[k] = t
               /\ \A i \in 1 .. NumSlots : i # k => new.topics[i] = e.topics[i]
<1> DEFINE usable == {i \in 1 .. NumSlots : ~InUse(e.topics[i]) \/ e.topics[i] = t}
           first == First(usable)
<1>1. k \in usable /\ usable \in SUBSET (1 .. NumSlots) /\ NumSlots \in Nat
  BY SlotsAssumption
<1>2. first \in usable /\ first <= k
  <2> HIDE DEF usable
  <2> QED BY <1>1, FirstProperties
<1>3. first \in 1 .. NumSlots /\ ~(first < k)
  BY <1>2
<1>4. first = k
  <2> HIDE DEF first
  <2> QED BY <1>2, <1>3, SlotsAssumption, SMT
<1>5. Subscribe(e, t) = [e EXCEPT !.topics[k] = t, !.subs = @ \cup {t}]
  BY <1>1, <1>4 DEF Subscribe
<1> QED BY <1>5 DEF Endpoint

\* The next of the automatic topics takes the next slot.
LEMMA NextAutomatic ==
    ASSUME NumSlots >= 4, NEW n, NEW g, NEW k \in 0 .. 3, NEW e, Holds(e, n, g, k),
           AutomaticTopic(n, g, k + 1) \in Topics
    PROVE  Holds(Subscribe(e, AutomaticTopic(n, g, k + 1)), n, g, k + 1)
<1> DEFINE T(i) == AutomaticTopic(n, g, i)
           new == Subscribe(e, T(k + 1))
<1>1. /\ NumSlots \in Nat /\ k \in Nat /\ k + 1 \in 1 .. NumSlots /\ k + 1 \in 1 .. 4
      /\ \A i \in 1 .. k : i \in 1 .. 4 /\ i # k + 1 /\ i \in 1 .. NumSlots
  BY SlotsAssumption, SMT
<1>2. ~InUse(e.topics[k + 1])
  <2>1. k + 1 > k
    BY <1>1, SMT
  <2> QED BY <1>1, <2>1 DEF Holds
<1>3. ASSUME NEW i \in 1 .. NumSlots, i < k + 1
      PROVE  InUse(e.topics[i]) /\ e.topics[i] # T(k + 1)
  <2>1. i \in 1 .. k
    BY <1>1, <1>3, SMT
  <2>2. i \in 1 .. 4 /\ i # k + 1 /\ e.topics[i] = T(i)
    BY <1>1, <2>1 DEF Holds
  <2> QED BY <1>1, <2>2, AutomaticTopicsDiffer, Zenon
<1>4. /\ new \in Endpoint /\ new.subs = e.subs \cup {T(k + 1)} /\ new.topics[k + 1] = T(k + 1)
      /\ \A i \in 1 .. NumSlots : i # k + 1 => new.topics[i] = e.topics[i]
  <2> HIDE DEF T
  <2>1. e \in Endpoint /\ T(k + 1) \in Topics
    BY DEF Holds, T
  <2> QED BY <1>1, <1>2, <1>3, <2>1, SubscribeAt
<1> HIDE DEF new
<1>5. ASSUME NEW i \in 1 .. k + 1
      PROVE  new.topics[i] = T(i) /\ T(i) \in new.subs
  <2>1. i \in 1 .. k \/ i = k + 1
    BY <1>1, SMT
  <2> HIDE DEF T
  <2>2. CASE i \in 1 .. k
    BY <1>1, <1>4, <2>2 DEF Holds, T
  <2>3. CASE i = k + 1
    BY <1>4, <2>3
  <2> QED BY <2>1, <2>2, <2>3
<1>6. ASSUME NEW i \in 1 .. NumSlots, i > k + 1
      PROVE  ~InUse(new.topics[i])
  <2>1. i > k /\ i # k + 1
    BY <1>1, <1>6, SMT
  <2> QED BY <1>4, <2>1 DEF Holds
<1> QED BY <1>4, <1>5, <1>6 DEF Holds, new

\* Leaving a group frees the last of the slots in use.
LEMMA LastAutomatic ==
    ASSUME NumSlots >= 4, NEW n, NEW g, NEW e, Holds(e, n, g, 4)
    PROVE  Holds(RemoveGroupSubscription(e), n, g, 3)
<1> DEFINE T(i) == AutomaticTopic(n, g, i)
           slots == {i \in 1 .. NumSlots : IsGroupTopic(e.topics[i])}
           new == RemoveGroupSubscription(e)
<1>1. /\ NumSlots \in Nat /\ 4 \in 1 .. NumSlots /\ 4 \in 1 .. 4
      /\ \A i \in 1 .. 3 : i \in 1 .. 4 /\ i # 4 /\ i \in 1 .. NumSlots
      /\ \A i \in 1 .. NumSlots : i \in 1 .. 4 \/ i > 4
      /\ \A i \in 1 .. NumSlots : i > 3 => i = 4 \/ i > 4
  BY SlotsAssumption, SMT
<1>2. /\ \A i \in 1 .. 4 : e.topics[i] = T(i) /\ T(i) \in e.subs
      /\ \A i \in 1 .. NumSlots : i > 4 => ~InUse(e.topics[i])
      /\ e \in Endpoint
  BY DEF Holds
<1>3. ASSUME NEW i \in 1 .. NumSlots
      PROVE  IsGroupTopic(e.topics[i]) <=> i = 4
  <2>1. CASE i \in 1 .. 4
    BY <1>2, <2>1, AutomaticTopicsDiffer
  <2>2. CASE i > 4
    <3>1. ~InUse(e.topics[i]) /\ i # 4
      BY <1>2, <2>2
    <3> QED BY <3>1 DEF InUse, IsGroupTopic
  <2> QED BY <1>1, <2>1, <2>2
<1>4. slots # {} /\ First(slots) = 4
  <2>1. slots = {4}
    BY <1>1, <1>3
  <2> HIDE DEF slots
  <2> QED BY <1>1, <2>1, FirstProperties
<1>5. new = [e EXCEPT !.topics[4] = Unused, !.subs = @ \ {e.topics[4]}]
  BY <1>4 DEF RemoveGroupSubscription, FreeFirst
<1> HIDE DEF new
<1>6. /\ new \in Endpoint /\ new.subs = e.subs \ {T(4)} /\ new.topics[4] = Unused
      /\ \A i \in 1 .. NumSlots : i # 4 => new.topics[i] = e.topics[i]
  <2> HIDE DEF T
  <2> QED BY <1>1, <1>2, <1>5 DEF Endpoint
<1>7. ASSUME NEW i \in 1 .. 3
      PROVE  new.topics[i] = T(i) /\ T(i) \in new.subs
  <2>1. i \in 1 .. 4 /\ i # 4 /\ i \in 1 .. NumSlots
    BY <1>1
  <2>2. T(i) # T(4)
    BY <1>1, <2>1, AutomaticTopicsDiffer, Zenon
  <2> HIDE DEF T
  <2> QED BY <1>2, <1>6, <2>1, <2>2
<1>8. ASSUME NEW i \in 1 .. NumSlots, i > 3
      PROVE  ~InUse(new.topics[i])
  <2>1. CASE i = 4
    BY <1>6, <2>1, TopicKinds
  <2>2. CASE i > 4
    <3>1. i # 4
      BY <2>2
    <3> QED BY <1>2, <1>6, <2>2, <3>1
  <2> QED BY <1>1, <1>8, <2>1, <2>2
<1> QED BY <1>6, <1>7, <1>8 DEF Holds, new

\* No slot is in use when a login begins, and it fills three or four.
LEMMA LoginSlots ==
    ASSUME NumSlots >= 4, NEW n \in Names, NEW g \in GroupIds \cup {NoGroup},
           NEW e, Holds(e, NoName, NoGroup, 0)
    PROVE  Holds(SubscribeStandardTopics(e, n, g), n, g, IF g = NoGroup THEN 3 ELSE 4)
<1>1. /\ AutomaticTopic(n, g, 1) = World /\ AutomaticTopic(n, g, 2) = Zone
      /\ AutomaticTopic(n, g, 3) = Tell(n) /\ AutomaticTopic(n, g, 4) = GroupTopic(g)
  BY DEF AutomaticTopic
<1>2. /\ 0 \in 0 .. 3 /\ 1 \in 0 .. 3 /\ 2 \in 0 .. 3 /\ 3 \in 0 .. 3
      /\ 0 + 1 = 1 /\ 1 + 1 = 2 /\ 2 + 1 = 3 /\ 3 + 1 = 4
      /\ \A i : i \notin 1 .. 0
  BY SMT
<1>3. Holds(e, n, g, 0)
  BY <1>2 DEF Holds
<1>4. ASSUME NEW k \in 0 .. 3, NEW j, j = k + 1, NEW t, t = AutomaticTopic(n, g, j), t \in Topics,
             NEW f, Holds(f, n, g, k)
      PROVE  Holds(Subscribe(f, t), n, g, j)
  BY <1>4, NextAutomatic, Zenon
<1>5. Holds(Subscribe(e, World), n, g, 1)
  BY <1>1, <1>2, <1>3, <1>4, TopicKinds, Zenon
<1>6. Holds(Subscribe(Subscribe(e, World), Zone), n, g, 2)
  BY <1>1, <1>2, <1>4, <1>5, TopicKinds, Zenon
<1>7. Holds(Subscribe(Subscribe(Subscribe(e, World), Zone), Tell(n)), n, g, 3)
  BY <1>1, <1>2, <1>4, <1>6, TopicKinds, Zenon
<1>8. ASSUME g # NoGroup
      PROVE  Holds(Subscribe(Subscribe(Subscribe(Subscribe(e, World), Zone), Tell(n)), GroupTopic(g)), n, g, 4)
  <2>1. GroupTopic(g) \in Topics
    BY <1>8, TopicKinds
  <2>2. 3 \in 0 .. 3 /\ 4 = 3 + 1
    BY SMT
  <2>3. PICK f : f = Subscribe(Subscribe(Subscribe(e, World), Zone), Tell(n))
    OBVIOUS
  <2>4. PICK t : t = GroupTopic(g)
    OBVIOUS
  <2>5. Holds(f, n, g, 3) /\ t \in Topics /\ t = AutomaticTopic(n, g, 4)
    BY <1>1, <1>7, <2>1, <2>3, <2>4, Zenon
  <2>6. Holds(Subscribe(f, t), n, g, 4)
    BY <1>4, <2>2, <2>5, Zenon
  <2> QED BY <2>3, <2>4, <2>6, Zenon
<1> QED BY <1>7, <1>8, Zenon DEF SubscribeStandardTopics, SubscribeGroupTopic

\* The first three topics do not depend on the group.
LEMMA ThreeAutomatic ==
    ASSUME NEW e, NEW n, NEW g, NEW h, Holds(e, n, g, 3)
    PROVE  Holds(e, n, h, 3)
<1>1. \A i \in 1 .. 3 : i = 1 \/ i = 2 \/ i = 3
  BY SMT
<1>2. \A i \in 1 .. 3 : AutomaticTopic(n, g, i) = AutomaticTopic(n, h, i)
  BY <1>1 DEF AutomaticTopic
<1> QED BY <1>2, Zenon DEF Holds

\* A connection that joins a group, from none, takes the fourth slot.
LEMMA JoinSlots ==
    ASSUME NumSlots >= 4, NEW n, NEW g \in GroupIds \cup {NoGroup}, NEW e, Holds(e, n, NoGroup, 3)
    PROVE  Holds(SubscribeGroupTopic(e, g), n, g, IF g = NoGroup THEN 3 ELSE 4)
<1>1. Holds(e, n, g, 3)
  BY ThreeAutomatic
<1>2. 3 \in 0 .. 3 /\ 3 + 1 = 4 /\ AutomaticTopic(n, g, 3 + 1) = GroupTopic(g)
  BY SMT DEF AutomaticTopic
<1>3. ASSUME g # NoGroup PROVE Holds(Subscribe(e, GroupTopic(g)), n, g, 4)
  <2>1. GroupTopic(g) \in Topics
    BY <1>3, TopicKinds
  <2> QED BY <1>1, <1>2, <2>1, NextAutomatic
<1> QED BY <1>1, <1>3, Zenon DEF SubscribeGroupTopic

\* Every callback leaves connections with the automatic topics and nothing else.
LEMMA OnlyAutomaticStep ==
    ASSUME NumSlots >= 4, UserTopics = {}, Droppable = {}, OnlyAutomatic, [Next]_vars, ServerInv, ServerInv'
    PROVE  OnlyAutomatic'
<1> DEFINE Slots(g) == IF g = NoGroup THEN 3 ELSE 4
<1>0. /\ data \in [Sockets -> SocketData] /\ data' \in [Sockets -> SocketData]
      /\ endpoints \in [Sockets -> Endpoint]
      /\ DOMAIN endpoints = Sockets /\ DOMAIN endpoints' = Sockets
  BY DEF ServerInv, SessionsOK, EndpointsOK
<1>1. \A s \in Sockets : AutomaticAt(s)
  BY DEF OnlyAutomatic
<1>2. \A s \in Sockets : data'[s] = data[s] /\ endpoints'[s] = endpoints[s] => AutomaticAt(s)'
  BY <1>1 DEF AutomaticAt, Connected
<1>3. ASSUME NEW s \in Sockets,
             \A t \in Sockets \ {s} : data'[t] = data[t] /\ endpoints'[t] = endpoints[t],
             AutomaticAt(s)'
      PROVE  OnlyAutomatic'
  BY <1>2, <1>3 DEF OnlyAutomatic
<1>4. ASSUME UNCHANGED <<data, endpoints>>
      PROVE  OnlyAutomatic'
  BY <1>2, <1>4 DEF OnlyAutomatic
<1>5. ASSUME NEW s \in Sockets, Open(s) \/ Abandon(s) \/ ConnectAgain(s) \/ Close(s)
      PROVE  OnlyAutomatic'
  <2>1. /\ \A t \in Sockets \ {s} : data'[t] = data[t] /\ endpoints'[t] = endpoints[t]
        /\ \/ data'[s].state \in {"closed", "ending"}
           \/ data'[s].state = "open" /\ endpoints'[s] = NewEndpoint(s)
    <3>1. CASE Open(s) \/ Abandon(s)
      BY <1>0, <3>1 DEF Open, Abandon, Closed, SocketData
    <3>2. CASE CloseHandler(s)
      BY <1>0, <3>2 DEF CloseHandler, Closed
    <3>3. CASE ConnectAgain(s) /\ ~EndClosesNow
      BY <1>0, <3>3 DEF ConnectAgain, Ended, SocketData
    <3> QED BY <1>5, <3>1, <3>2, <3>3 DEF ConnectAgain, Close
  <2>2. Holds(NewEndpoint(s), NoName, NoGroup, 0)
    <3>1. \A i \in 1 .. NumSlots : Placeholder(s, i) \in Placeholders
      BY DEF Placeholders
    <3>2. NewEndpoint(s) \in Endpoint
      BY NewEndpointOK DEF EndpointOK
    <3>3. \A i : i \notin 1 .. 0
      BY SMT
    <3> QED BY <3>1, <3>2, <3>3, TopicKinds DEF Holds, NewEndpoint
  <2> QED BY <1>3, <2>1, <2>2 DEF AutomaticAt, Connected
<1>6. ASSUME NEW s \in Sockets, NEW n \in Characters, Connect(s, n)
      PROVE  OnlyAutomatic'
  <2> SUFFICES ASSUME NEW t \in Sockets
               PROVE  AutomaticAt(t)'
    BY DEF OnlyAutomatic
  <2> DEFINE old == activeSessions[n]
             groups == IF old # NoSocket /\ EndClosesNow THEN GroupsAfterClose(old) ELSE MyGroups
             ended == IF old # NoSocket THEN [endpoints EXCEPT ![old] = NoEndpoint] ELSE endpoints
             g == data'[s].groupId
  <2>1. /\ data[s].state = "open" /\ s # old
        /\ data' = [u \in Sockets |->
                       CASE u = s -> [state |-> "connected", name |-> n, groupId |-> GroupOf(groups, n)]
                         [] u = old -> Ended(old)
                         [] OTHER -> data[u]]
        /\ endpoints' = [ended EXCEPT ![s] = SubscribeStandardTopics(ended[s], n, GroupOf(groups, n))]
    <3>1. s # old
      BY <1>6, ServerAssumption DEF Connect, ServerInv, SessionsOK, SessionsAgree
    <3> QED BY <1>6, <3>1 DEF Connect, Previous
  <2>2. DOMAIN ended = Sockets /\ \A u \in Sockets : u # old => ended[u] = endpoints[u]
    BY <1>0
  <2> HIDE DEF old, groups, ended
  <2>3. CASE t = s
    <3>1. /\ data'[s].name = n /\ g = GroupOf(groups, n) /\ Connected(s)'
          /\ g \in GroupIds \cup {NoGroup}
      BY <1>0, <2>1 DEF Connected, SocketData
    <3>2. endpoints'[s] = SubscribeStandardTopics(endpoints[s], n, g)
      BY <2>1, <2>2, <3>1
    <3>3. Holds(endpoints[s], NoName, NoGroup, 0)
      BY <1>1, <2>1 DEF AutomaticAt
    <3> HIDE DEF g
    <3>4. Holds(endpoints'[s], n, g, Slots(g))
      BY <3>1, <3>2, <3>3, LoginSlots, ServerAssumption
    <3> QED BY <2>3, <3>1, <3>4 DEF AutomaticAt, g, Connected
  <2>4. CASE t = old /\ t # s
    <3>1. data'[t].state \in {"closed", "ending"}
      BY <1>0, <2>1, <2>4 DEF Ended, Closed, SocketData
    <3> QED BY <3>1 DEF AutomaticAt, Connected
  <2>5. CASE t \notin {s, old}
    BY <1>2, <2>1, <2>2, <2>5
  <2> QED BY <2>3, <2>4, <2>5
<1>7. ASSUME NEW s \in Sockets, LeaveGroup(s)
      PROVE  OnlyAutomatic'
  <2> DEFINE n == data[s].name
             g == data[s].groupId
  <2>1. /\ Connected(s) /\ g # NoGroup
        /\ data' = [data EXCEPT ![s].groupId = NoGroup]
        /\ endpoints' = [endpoints EXCEPT ![s] = RemoveGroupSubscription(endpoints[s])]
    BY <1>7 DEF LeaveGroup
  <2>2. Holds(endpoints[s], n, g, 4)
    BY <1>1, <2>1 DEF AutomaticAt
  <2>3. Holds(endpoints'[s], n, NoGroup, 3)
    BY <1>0, <2>1, <2>2, LastAutomatic, ThreeAutomatic
  <2>4. data'[s].name = n /\ data'[s].groupId = NoGroup /\ data'[s].state = "connected"
    BY <1>0, <2>1 DEF SocketData, Connected
  <2>5. AutomaticAt(s)'
    BY <2>3, <2>4 DEF AutomaticAt
  <2> QED BY <1>0, <1>3, <2>1, <2>5
<1>8. ASSUME NEW s \in Sockets, NEW invited \in Names, GroupInviteFounding(s, invited)
      PROVE  OnlyAutomatic'
  <2> DEFINE n == data[s].name
  <2>1. PICK g \in GroupIds :
                 /\ Connected(s) /\ data[s].groupId = NoGroup
                 /\ data' = [data EXCEPT ![s].groupId = g]
                 /\ endpoints' = [endpoints EXCEPT ![s] = SubscribeGroupTopic(endpoints[s], g)]
    BY <1>8 DEF GroupInviteFounding, FreshGroupIds
  <2>2. Holds(endpoints[s], n, NoGroup, 3)
    BY <1>1, <2>1 DEF AutomaticAt
  <2>3. Holds(endpoints'[s], n, g, Slots(g))
    BY <1>0, <2>1, <2>2, JoinSlots
  <2>4. data'[s].name = n /\ data'[s].groupId = g /\ data'[s].state = "connected"
    BY <1>0, <2>1 DEF SocketData, Connected
  <2>5. AutomaticAt(s)'
    BY <2>3, <2>4 DEF AutomaticAt
  <2> QED BY <1>0, <1>3, <2>1, <2>5
<1>9. ASSUME NEW s \in Sockets, NEW inviter \in Names, GroupJoinAccept(s, inviter)
      PROVE  OnlyAutomatic'
  <2> DEFINE n == data[s].name
             own == GroupOf(MyGroups, n)
             solo == own # NoGroup /\ MemberCount(MyGroups, own) = 1
             groups == IF solo THEN GroupDisband(MyGroups, n) ELSE MyGroups
             endpoint == IF solo THEN RemoveGroupSubscription(endpoints[s]) ELSE endpoints[s]
             cached == IF solo THEN NoGroup ELSE data[s].groupId
             joins == cached = NoGroup /\ GroupJoinAccepted(groups, n, inviter)
             g == GroupOf(groups, inviter)
             h == IF joins THEN g ELSE cached
  <2>1. /\ Connected(s)
        /\ endpoints' = [endpoints EXCEPT ![s] = IF joins THEN SubscribeGroupTopic(endpoint, g) ELSE endpoint]
        /\ data' = [data EXCEPT ![s].groupId = h]
    BY <1>9 DEF GroupJoinAccept
  <2>2. data[s].groupId = own
    <3>1. n \in Characters /\ activeSessions[n] = s /\ s # NoSocket
      BY <2>1, ServerAssumption DEF ServerInv, SessionsOK, SessionsAgree, Connected
    <3> QED BY <3>1 DEF ServerInv, MembersOK
  <2>3. Holds(endpoint, n, cached, Slots(cached))
    <3>1. Holds(endpoints[s], n, own, Slots(own))
      BY <1>1, <2>1, <2>2 DEF AutomaticAt
    <3>2. CASE solo
      <4>1. Holds(endpoints[s], n, own, 4)
        BY <3>1, <3>2
      <4> HIDE DEF own
      <4>2. Holds(RemoveGroupSubscription(endpoints[s]), n, NoGroup, 3)
        BY <4>1, LastAutomatic, ThreeAutomatic
      <4> QED BY <3>2, <4>2
    <3>3. CASE ~solo
      BY <2>2, <3>1, <3>3
    <3> QED BY <3>2, <3>3
  <2> HIDE DEF endpoint, cached, joins, g
  <2>4. joins => cached = NoGroup
    BY DEF joins
  <2>5. data'[s].name = n /\ data'[s].groupId = h /\ data'[s].state = "connected" /\ h \in GroupIds \cup {NoGroup}
    BY <1>0, <2>1 DEF SocketData, Connected
  <2>6. Holds(endpoints'[s], n, h, Slots(h))
    <3>1. CASE joins
      BY <1>0, <2>1, <2>3, <2>4, <2>5, <3>1, JoinSlots
    <3>2. CASE ~joins
      BY <1>0, <2>1, <2>3, <3>2
    <3> QED BY <3>1, <3>2
  <2> HIDE DEF h
  <2>7. AutomaticAt(s)'
    BY <2>5, <2>6 DEF AutomaticAt
  <2> QED BY <1>0, <1>3, <2>1, <2>7
<1>10. ASSUME NEW s \in Sockets, NEW n \in Names,
              Alive(s) \/ GroupInviteFromGroup(s, n) \/ GroupJoinRefused(s, n) \/ Tick
       PROVE  OnlyAutomatic'
  BY <1>4, <1>10 DEF Alive, GroupInviteFromGroup, GroupJoinRefused, Tick
<1>11. ASSUME \/ UNCHANGED vars \/ Tick \/ \E s \in Sockets : Alive(s)
       PROVE  OnlyAutomatic'
  BY <1>4, <1>11 DEF vars, Tick, Alive
<1> QED BY <1>5, <1>6, <1>7, <1>8, <1>9, <1>10, <1>11 DEF Next

\* Where clients neither subscribe to channels of their own nor unsubscribe, four slots are
\* enough: every connected member of a group hears it.  (With channels in its slots a member
\* may have none left for its group: SubscribeGroupTopic ignores that.)
THEOREM MembersAlwaysListen ==
    NumSlots >= 4 /\ UserTopics = {} /\ Droppable = {} => (Spec => []MembersListen)
<1> SUFFICES ASSUME NumSlots >= 4, UserTopics = {}, Droppable = {}
             PROVE  Spec => []MembersListen
  OBVIOUS
<1>1. Init => OnlyAutomatic
  <2> SUFFICES ASSUME Init PROVE OnlyAutomatic
    OBVIOUS
  <2>1. \A s \in Sockets : data[s].state = "closed"
    BY DEF Init, Closed
  <2> QED BY <2>1 DEF OnlyAutomatic, AutomaticAt, Connected
<1>2. ServerInv /\ ServerInv' /\ OnlyAutomatic /\ [Next]_vars => OnlyAutomatic'
  BY OnlyAutomaticStep
<1>3. OnlyAutomatic => MembersListen
  <2> SUFFICES ASSUME OnlyAutomatic, NEW s \in Sockets, Connected(s), data[s].groupId # NoGroup
               PROVE  GroupTopic(data[s].groupId) \in endpoints[s].subs
    BY DEF MembersListen
  <2>1. Holds(endpoints[s], data[s].name, data[s].groupId, 4)
    BY DEF OnlyAutomatic, AutomaticAt
  <2>2. 4 \in 1 .. 4 /\ AutomaticTopic(data[s].name, data[s].groupId, 4) = GroupTopic(data[s].groupId)
    BY SMT DEF AutomaticTopic
  <2> QED BY <2>1, <2>2 DEF Holds
<1> QED BY <1>1, <1>2, <1>3, ServerInvariant, PTL DEF Spec

-----------------------------------------------------------------------------
\* What an administrator is told, where end() runs the close handler.

\* No socket then waits for its close event.
NoneEnding == \A s \in Sockets : data[s].state # "ending"

\* Sockets that are ended are gone at once.
LEMMA NoneEndingStep ==
    ASSUME EndClosesNow, ServerInv, NoneEnding, [Next]_vars
    PROVE  NoneEnding'
<1> USE DEF NoneEnding
<1>1. data \in [Sockets -> SocketData]
  BY DEF ServerInv, SessionsOK
<1>2. ASSUME NEW s \in Sockets,
             \E new \in {"closed", "open", "connected"} : data' = [data EXCEPT ![s].state = new]
      PROVE  NoneEnding'
  BY <1>1, <1>2 DEF SocketData
<1>3. ASSUME NEW s \in Sockets, data' = [data EXCEPT ![s] = Closed]
      PROVE  NoneEnding'
  BY <1>1, <1>3 DEF Closed
<1>4. ASSUME NEW s \in Sockets, \E g : data' = [data EXCEPT ![s].groupId = g]
      PROVE  NoneEnding'
  BY <1>1, <1>4 DEF SocketData
<1>5. ASSUME data' = data
      PROVE  NoneEnding'
  BY <1>5
<1>6. ASSUME NEW s \in Sockets, NEW n \in Characters, Connect(s, n)
      PROVE  NoneEnding'
  BY <1>6 DEF Connect, Ended, Closed
<1>7. ASSUME NEW s \in Sockets, Open(s) \/ Abandon(s) \/ ConnectAgain(s) \/ Close(s)
      PROVE  NoneEnding'
  BY <1>2, <1>3, <1>7 DEF Open, Abandon, ConnectAgain, Close, CloseHandler
<1>8. ASSUME NEW s \in Sockets, LeaveGroup(s) \/ Alive(s)
      PROVE  NoneEnding'
  BY <1>4, <1>5, <1>8 DEF LeaveGroup, Alive
<1>9. ASSUME NEW s \in Sockets,
             \/ \E t \in UserTopics : HandleSubscribeMessage(s, t)
             \/ \E t \in Droppable : Unsubscribe(s, t)
      PROVE  NoneEnding'
  BY <1>5, <1>9 DEF HandleSubscribeMessage, Unsubscribe
<1>10. ASSUME NEW s \in Sockets, NEW n \in Names,
              \/ GroupInviteFounding(s, n) \/ GroupInviteFromGroup(s, n)
              \/ GroupJoinRefused(s, n) \/ GroupJoinAccept(s, n)
       PROVE  NoneEnding'
  <2>1. CASE GroupInviteFounding(s, n)  BY <1>4, <2>1 DEF GroupInviteFounding
  <2>2. CASE GroupInviteFromGroup(s, n) \/ GroupJoinRefused(s, n)
    BY <1>5, <2>2 DEF GroupInviteFromGroup, GroupJoinRefused
  <2>3. CASE GroupJoinAccept(s, n)
    <3>1. \E g : data' = [data EXCEPT ![s].groupId = g]
      BY <2>3 DEF GroupJoinAccept
    <3> QED BY <1>4, <3>1
  <2> QED BY <1>10, <2>1, <2>2, <2>3
<1>11. ASSUME Tick \/ UNCHANGED vars
       PROVE  NoneEnding'
  BY <1>5, <1>11 DEF Tick, vars
<1> QED BY <1>6, <1>7, <1>8, <1>9, <1>10, <1>11 DEF Next

\* A finite set has no more members than one it is mapped into without collisions.
LEMMA NoMoreThan ==
    ASSUME NEW S, NEW T, IsFiniteSet(T), NEW f \in [S -> T],
           \A x, y \in S : f[x] = f[y] => x = y
    PROVE  IsFiniteSet(S) /\ Cardinality(S) <= Cardinality(T)
<1>1. f \in Injection(S, T)
  BY DEF Injection, IsInjective
<1> QED BY <1>1, FS_Injection

\* The groups that count as online are those of the connections.
LEMMA OnlineGroupsAreConnected ==
    ASSUME ServerInv, NoneEnding
    PROVE  OnlineGroups = {data[s].groupId : s \in {t \in Sockets : Connected(t)}} \ {NoGroup}
<1> DEFINE own == {data[s].groupId : s \in {t \in Sockets : Connected(t)}} \ {NoGroup}
<1>1. WellFormed(MyGroups) /\ \A i \in DOMAIN MyGroups : MyGroups[i] \in GroupMember
  BY DEF ServerInv, MembersOK, WellFormed
<1>2. PresenceIsConnection /\ CacheAgrees /\ SessionsAgree
  BY ServerInvGives
<1>3. ASSUME NEW g \in OnlineGroups PROVE g \in own
  <2>1. PICK i \in DOMAIN MyGroups : MyGroups[i].groupId = g /\ MyGroups[i].isOnline
    BY <1>3 DEF OnlineGroups, MembersOf
  <2> DEFINE n == MyGroups[i].name
             s == activeSessions[n]
  <2>2. n \in Names /\ g # NoGroup
    BY <1>1, <2>1, GroupIdsAssumption DEF GroupMember
  <2>3. GroupOf(MyGroups, n) = g /\ s # NoSocket
    BY <1>1, <1>2, <2>1, <2>2, GroupOfProperties DEF PresenceIsConnection
  <2>4. n \in Characters
    BY <2>2, <2>3 DEF ServerInv, MembersOK
  <2>5. s \in Sockets /\ data[s].state = "connected" /\ data[s].groupId = g
    BY <1>2, <2>3, <2>4 DEF ServerInv, SessionsOK, MembersOK, SessionsAgree, NoneEnding
  <2> QED BY <2>2, <2>5 DEF Connected
<1>4. ASSUME NEW s \in Sockets, Connected(s), data[s].groupId # NoGroup
      PROVE  data[s].groupId \in OnlineGroups
  <2> DEFINE n == data[s].name
             g == data[s].groupId
  <2>1. n \in Characters /\ n \in Names /\ activeSessions[n] = s /\ s # NoSocket
    BY <1>2, <1>4, ServerAssumption DEF ServerInv, SessionsOK, SessionsAgree, Connected
  <2>2. GroupOf(MyGroups, n) = g
    BY <1>2, <1>4 DEF CacheAgrees
  <2>3. PICK i \in DOMAIN MyGroups : MyGroups[i].name = n
    BY <1>1, <1>4, <2>1, <2>2, GroupOfProperties
  <2>4. MyGroups[i].groupId = g /\ MyGroups[i].isOnline
    BY <1>1, <1>2, <2>1, <2>2, <2>3, GroupOfProperties DEF PresenceIsConnection
  <2> QED BY <2>3, <2>4 DEF OnlineGroups, GetUniqueGroupIds, MembersOf
<1> QED BY <1>3, <1>4

\* Where nothing is ending, sessions and connections are in one-to-one correspondence.
LEMMA SessionsAreConnections ==
    ASSUME ServerInv, NoneEnding
    PROVE  LET connected == {s \in Sockets : Connected(s)}
               sessions == {n \in Characters : activeSessions[n] # NoSocket}
           IN  /\ \A n \in sessions : activeSessions[n] \in connected /\ data[activeSessions[n]].name = n
               /\ \A s \in connected : data[s].name \in sessions /\ activeSessions[data[s].name] = s
  BY ServerAssumption DEF ServerInv, SessionsOK, SessionsAgree, NoneEnding, Connected

\* Two finite sets of which each is mapped into the other without collisions are equally large.
LEMMA EquallyMany ==
    ASSUME NEW S, NEW T, IsFiniteSet(T), NEW f \in [S -> T], NEW h \in [T -> S],
           \A x, y \in S : f[x] = f[y] => x = y,
           \A x, y \in T : h[x] = h[y] => x = y
    PROVE  Cardinality(S) = Cardinality(T)
<1>1. IsFiniteSet(S) /\ Cardinality(S) <= Cardinality(T)
  BY NoMoreThan
<1>2. Cardinality(T) <= Cardinality(S)
  BY <1>1, NoMoreThan
<1> QED BY <1>1, <1>2, FS_CardinalityType, SMT

\* The numbers of clients and of online groups that an administrator is told are those of the
\* connections.  (Where close events come late, a socket that is ending counts until its event
\* has come.)
THEOREM SnapshotAlwaysAgrees ==
    IsFiniteSet(Sockets) /\ EndClosesNow => (Spec => []SnapshotAgrees)
<1> SUFFICES ASSUME IsFiniteSet(Sockets), EndClosesNow
             PROVE  Spec => []SnapshotAgrees
  OBVIOUS
<1>1. Init => NoneEnding
  BY DEF Init, NoneEnding, Closed
<1>2. ServerInv /\ NoneEnding /\ [Next]_vars => NoneEnding'
  BY NoneEndingStep
<1>3. ASSUME ServerInv, NoneEnding PROVE SnapshotAgrees
  <2> DEFINE connected == {s \in Sockets : Connected(s)}
             sessions == {n \in Characters : activeSessions[n] # NoSocket}
             socket == [n \in sessions |-> activeSessions[n]]
             name == [s \in connected |-> data[s].name]
  <2>1. /\ \A n \in sessions : activeSessions[n] \in connected /\ data[activeSessions[n]].name = n
        /\ \A s \in connected : data[s].name \in sessions /\ activeSessions[data[s].name] = s
    BY <1>3, SessionsAreConnections
  <2>2. IsFiniteSet(connected)
    BY FS_Subset
  <2>3. /\ socket \in [sessions -> connected] /\ name \in [connected -> sessions]
        /\ \A m, n \in sessions : socket[m] = socket[n] => m = n
        /\ \A s, t \in connected : name[s] = name[t] => s = t
    <3> HIDE DEF sessions, connected
    <3> QED BY <2>1
  <2>4. Cardinality(sessions) = Cardinality(connected)
    <3> HIDE DEF sessions, connected, socket, name
    <3> QED BY <2>2, <2>3, EquallyMany
  <2>5. OnlineGroups = {data[s].groupId : s \in connected} \ {NoGroup}
    BY <1>3, OnlineGroupsAreConnected
  <2> QED BY <2>4, <2>5 DEF SnapshotAgrees, CollectAdminSnapshot
<1> QED BY <1>1, <1>2, <1>3, ServerInvariant, PTL DEF Spec

-----------------------------------------------------------------------------
\* The figures of the channels.

\* A channel that is in a slot is subscribed to.
Listens(e) == \A i \in 1 .. NumSlots : IsChannel(e.topics[i]) => e.topics[i] \in e.subs
ChannelsListen == \A s \in Sockets : Listens(endpoints[s])

\* Topics that are not in use are no channels, and neither are those of groups.
LEMMA ChannelKinds ==
    /\ \A t : IsChannel(t) => InUse(t) /\ ~IsGroupTopic(t) /\ ~IsPlaceholder(t)
    /\ ~IsChannel(Unused)
    /\ \A s, i : ~IsChannel(Placeholder(s, i))
<1>1. Unused[1] = "unused" /\ \A s, i : Placeholder(s, i)[1] = "placeholder"
  BY DEF Unused, Placeholder
<1> QED BY <1>1 DEF IsChannel, InUse, IsGroupTopic, IsPlaceholder

\* A connection to which nothing has been subscribed yet.
LEMMA FreshListens == Listens(NoEndpoint) /\ \A s : Listens(NewEndpoint(s))
  BY ChannelKinds DEF Listens, NoEndpoint, NewEndpoint

\* Subscribing leaves no channel unheard.
LEMMA SubscribeListens ==
    ASSUME NEW e \in Endpoint, Recorded(e), Listens(e), NEW t \in Topics
    PROVE  Listens(Subscribe(e, t))
<1> DEFINE new == Subscribe(e, t)
<1>1. \/ new = e
      \/ \E k \in 1 .. NumSlots :
            /\ new.topics[k] = t /\ new.subs = e.subs \cup {t}
            /\ \A i \in 1 .. NumSlots : i # k => new.topics[i] = e.topics[i]
  BY SubscribeOK
<1> HIDE DEF new
<1>2. CASE new = e
  BY <1>2 DEF new
<1>3. ASSUME NEW k \in 1 .. NumSlots, new.topics[k] = t, new.subs = e.subs \cup {t},
             \A i \in 1 .. NumSlots : i # k => new.topics[i] = e.topics[i]
      PROVE  Listens(new)
  <2> SUFFICES ASSUME NEW i \in 1 .. NumSlots, IsChannel(new.topics[i])
               PROVE  new.topics[i] \in new.subs
    BY DEF Listens
  <2>1. CASE i = k
    BY <1>3, <2>1
  <2>2. CASE i # k
    <3>1. new.topics[i] = e.topics[i]
      BY <1>3, <2>2
    <3> QED BY <1>3, <3>1 DEF Listens
  <2> QED BY <2>1, <2>2
<1> QED BY <1>1, <1>2, <1>3 DEF new

\* A login subscribes to all that it puts into slots.
LEMMA StandardListens ==
    ASSUME NEW e, EndpointOK(e, NoGroup), Listens(e), NEW n \in Names, NEW g \in GroupIds \cup {NoGroup}
    PROVE  Listens(SubscribeStandardTopics(e, n, g))
<1> DEFINE Good(f) == f \in Endpoint /\ Recorded(f) /\ Listens(f)
<1>1. ASSUME NEW f, Good(f), NEW t \in Topics
      PROVE  Good(Subscribe(f, t))
  <2>1. Subscribe(f, t) \in Endpoint /\ Recorded(Subscribe(f, t))
    BY <1>1, SubscribeOK
  <2> QED BY <1>1, <2>1, SubscribeListens
<1>2. Good(e)
  BY DEF EndpointOK
<1> HIDE DEF Good
<1>3. Good(Subscribe(Subscribe(Subscribe(e, World), Zone), Tell(n)))
  BY <1>1, <1>2, TopicKinds
<1>4. Good(SubscribeStandardTopics(e, n, g))
  <2>1. CASE g = NoGroup
    BY <1>3, <2>1 DEF SubscribeStandardTopics, SubscribeGroupTopic
  <2>2. CASE g # NoGroup
    <3>1. GroupTopic(g) \in Topics
      BY <2>2, TopicKinds
    <3> QED BY <1>1, <1>3, <2>2, <3>1 DEF SubscribeStandardTopics, SubscribeGroupTopic
  <2> QED BY <2>1, <2>2
<1> QED BY <1>4 DEF Good

\* Joining a group leaves no channel unheard.
LEMMA JoinListens ==
    ASSUME NEW e, NEW h, EndpointOK(e, h), Listens(e), NEW g \in GroupIds \cup {NoGroup}
    PROVE  Listens(SubscribeGroupTopic(e, g))
<1>1. g # NoGroup => GroupTopic(g) \in Topics
  BY TopicKinds
<1> QED BY <1>1, SubscribeListens DEF SubscribeGroupTopic, EndpointOK

\* Freeing slots of groups leaves the channels alone.
LEMMA FreeListens ==
    ASSUME NEW g, NEW e, EndpointOK(e, g), Listens(e), NEW slots \in SUBSET (1 .. NumSlots),
           \A i \in slots : ~IsChannel(e.topics[i])
    PROVE  Listens(FreeFirst(e, slots))
<1> DEFINE new == FreeFirst(e, slots)
<1>1. slots # {} => \E k \in slots :
         /\ new.topics[k] = Unused /\ new.subs = e.subs \ {e.topics[k]}
         /\ \A i \in 1 .. NumSlots : i # k => new.topics[i] = e.topics[i]
  BY FreeFirstOK
<1>2. slots = {} => new = e
  BY DEF FreeFirst
<1> HIDE DEF new
<1>3. CASE slots = {}
  BY <1>2, <1>3 DEF new
<1>4. ASSUME NEW k \in slots, new.topics[k] = Unused, new.subs = e.subs \ {e.topics[k]},
             \A i \in 1 .. NumSlots : i # k => new.topics[i] = e.topics[i]
      PROVE  Listens(new)
  <2> SUFFICES ASSUME NEW i \in 1 .. NumSlots, IsChannel(new.topics[i])
               PROVE  new.topics[i] \in new.subs
    BY DEF Listens
  <2>1. i # k /\ new.topics[i] = e.topics[i]
    BY <1>4, ChannelKinds
  <2>2. e.topics[i] \in e.subs /\ e.topics[i] # e.topics[k]
    BY <2>1 DEF Listens
  <2> QED BY <1>4, <2>1, <2>2
<1> QED BY <1>1, <1>3, <1>4 DEF new

\* Leaving a group leaves the channels alone.
LEMMA LeaveListens ==
    ASSUME NEW g, NEW e, EndpointOK(e, g), Listens(e)
    PROVE  Listens(RemoveGroupSubscription(e))
<1> DEFINE slots == {i \in 1 .. NumSlots : IsGroupTopic(e.topics[i])}
<1>1. slots \in SUBSET (1 .. NumSlots) /\ \A i \in slots : ~IsChannel(e.topics[i])
  BY ChannelKinds
<1> HIDE DEF slots
<1>2. Listens(FreeFirst(e, slots))
  BY <1>1, FreeListens
<1> QED BY <1>2 DEF RemoveGroupSubscription, slots

\* Taking back a topic that is no channel leaves the channels alone.
LEMMA UnsubscribeListens ==
    ASSUME NEW g, NEW e, EndpointOK(e, g), Listens(e), NEW t, ~IsChannel(t)
    PROVE  Listens(RemoveTopicSubscription(e, t))
<1> DEFINE slots == {i \in 1 .. NumSlots : InUse(e.topics[i]) /\ e.topics[i] = t}
<1>1. slots \in SUBSET (1 .. NumSlots) /\ \A i \in slots : ~IsChannel(e.topics[i])
  OBVIOUS
<1> HIDE DEF slots
<1>2. Listens(FreeFirst(e, slots))
  BY <1>1, FreeListens
<1> QED BY <1>2 DEF RemoveTopicSubscription, slots

\* No step leaves a channel in a slot unheard, as long as nobody takes a channel back: then
\* a second slot may hold it too.
LEMMA ChannelsListenStep ==
    ASSUME \A t \in Droppable : ~IsChannel(t), ServerInv, ChannelsListen, [Next]_vars
    PROVE  ChannelsListen'
<1>1. /\ endpoints \in [Sockets -> Endpoint]
      /\ \A s \in Sockets : EndpointOK(endpoints[s], OwnGroup(s)) /\ Listens(endpoints[s])
      /\ \A s \in Sockets : data[s].groupId \in GroupIds \cup {NoGroup}
  BY DEF ServerInv, SessionsOK, SocketData, EndpointsOK, ChannelsListen
<1>2. ASSUME NEW s \in Sockets, NEW e, Listens(e), endpoints' = [endpoints EXCEPT ![s] = e]
      PROVE  ChannelsListen'
  BY <1>1, <1>2 DEF ChannelsListen
<1>3. ASSUME UNCHANGED endpoints
      PROVE  ChannelsListen'
  BY <1>1, <1>3 DEF ChannelsListen
<1>4. ASSUME NEW s \in Sockets, Open(s) \/ Abandon(s) \/ ConnectAgain(s) \/ Close(s)
      PROVE  ChannelsListen'
  <2>1. \E e \in {NoEndpoint, NewEndpoint(s)} : endpoints' = [endpoints EXCEPT ![s] = e]
    BY <1>4 DEF Open, Abandon, ConnectAgain, Close, CloseHandler
  <2> QED BY <1>2, <2>1, FreshListens
<1>5. ASSUME NEW s \in Sockets, NEW n \in Characters, Connect(s, n)
      PROVE  ChannelsListen'
  <2> DEFINE old == activeSessions[n]
             groups == IF old # NoSocket /\ EndClosesNow THEN GroupsAfterClose(old) ELSE MyGroups
             ended == IF old # NoSocket THEN [endpoints EXCEPT ![old] = NoEndpoint] ELSE endpoints
             g == GroupOf(groups, n)
  <2>1. /\ endpoints' = [ended EXCEPT ![s] = SubscribeStandardTopics(ended[s], n, g)]
        /\ OwnGroup(s) = NoGroup
        /\ g = data'[s].groupId
    <3>1. endpoints' = [ended EXCEPT ![s] = SubscribeStandardTopics(ended[s], n, g)]
      BY <1>5 DEF Connect, Previous
    <3>2. /\ data[s].state = "open"
          /\ data' = [u \in Sockets |->
                         CASE u = s -> [state |-> "connected", name |-> n, groupId |-> g]
                           [] u = old -> Ended(old)
                           [] OTHER -> data[u]]
      BY <1>5 DEF Connect, Previous
    <3>3. s # old
      BY <3>2, ServerAssumption DEF ServerInv, SessionsOK, SessionsAgree
    <3> HIDE DEF g, ended, old
    <3>4. data'[s] = [state |-> "connected", name |-> n, groupId |-> g]
      BY <3>2, <3>3
    <3> QED BY <3>1, <3>2, <3>4 DEF OwnGroup, Connected
  <2>2. ServerInv'
    BY ServerInvIsInductive
  <2>3. g \in GroupIds \cup {NoGroup}
    <3> HIDE DEF g
    <3> QED BY <2>1, <2>2 DEF ServerInv, SessionsOK, SocketData
  <2>4. /\ DOMAIN ended = Sockets
        /\ \A t \in Sockets : ended[t] \in {NoEndpoint, endpoints[t]}
    BY <1>1
  <2>5. \A t \in Sockets : Listens(ended[t])
    <3> HIDE DEF ended
    <3> QED BY <1>1, <2>4, FreshListens
  <2> HIDE DEF ended, g
  <2>6. EndpointOK(ended[s], NoGroup)
    BY <1>1, <2>1, <2>4, NoEndpointOK
  <2>7. n \in Names
    BY ServerAssumption
  <2>8. Listens(SubscribeStandardTopics(ended[s], n, g))
    BY <2>3, <2>5, <2>6, <2>7, StandardListens
  <2> QED BY <2>1, <2>4, <2>5, <2>8 DEF ChannelsListen
<1>6. ASSUME NEW s \in Sockets, NEW t \in UserTopics, HandleSubscribeMessage(s, t)
      PROVE  ChannelsListen'
  <2>1. Listens(Subscribe(endpoints[s], Custom(t)))
    BY <1>1, SubscribeListens, TopicKinds DEF EndpointOK
  <2> QED BY <1>2, <1>6, <2>1 DEF HandleSubscribeMessage
<1>7. ASSUME NEW s \in Sockets, NEW t \in Droppable, Unsubscribe(s, t)
      PROVE  ChannelsListen'
  <2>1. Listens(RemoveTopicSubscription(endpoints[s], t))
    BY <1>1, UnsubscribeListens
  <2> QED BY <1>2, <1>7, <2>1 DEF Unsubscribe
<1>8. ASSUME NEW s \in Sockets, LeaveGroup(s)
      PROVE  ChannelsListen'
  <2>1. Listens(RemoveGroupSubscription(endpoints[s]))
    BY <1>1, LeaveListens
  <2> QED BY <1>2, <1>8, <2>1 DEF LeaveGroup
<1>9. ASSUME NEW s \in Sockets, NEW n \in Names, GroupInviteFounding(s, n)
      PROVE  ChannelsListen'
  <2>1. PICK g \in GroupIds : endpoints' = [endpoints EXCEPT ![s] = SubscribeGroupTopic(endpoints[s], g)]
    BY <1>9 DEF GroupInviteFounding, FreshGroupIds
  <2>2. Listens(SubscribeGroupTopic(endpoints[s], g))
    BY <1>1, JoinListens
  <2> QED BY <1>2, <2>1, <2>2
<1>10. ASSUME NEW s \in Sockets, NEW inviter \in Names, GroupJoinAccept(s, inviter)
       PROVE  ChannelsListen'
  <2> DEFINE n == data[s].name
             own == GroupOf(MyGroups, n)
             solo == own # NoGroup /\ MemberCount(MyGroups, own) = 1
             groups == IF solo THEN GroupDisband(MyGroups, n) ELSE MyGroups
             endpoint == IF solo THEN RemoveGroupSubscription(endpoints[s]) ELSE endpoints[s]
             cached == IF solo THEN NoGroup ELSE data[s].groupId
             joins == cached = NoGroup /\ GroupJoinAccepted(groups, n, inviter)
             g == GroupOf(groups, inviter)
             h == IF joins THEN g ELSE cached
  <2>1. /\ endpoints' = [endpoints EXCEPT ![s] = IF joins THEN SubscribeGroupTopic(endpoint, g) ELSE endpoint]
        /\ data' = [data EXCEPT ![s].groupId = h]
    BY <1>10 DEF GroupJoinAccept
  <2>2. Listens(endpoint) /\ \E k : EndpointOK(endpoint, k)
    <3>1. CASE solo
      <4>1. /\ Listens(RemoveGroupSubscription(endpoints[s]))
            /\ EndpointOK(RemoveGroupSubscription(endpoints[s]), NoGroup)
        BY <1>1, LeaveListens, RemoveGroupOK
      <4> QED BY <3>1, <4>1
    <3>2. CASE ~solo
      BY <1>1, <3>2
    <3> QED BY <3>1, <3>2
  <2>3. ServerInv'
    BY ServerInvIsInductive
  <2>4. joins => g \in GroupIds \cup {NoGroup}
    <3>1. data'[s].groupId = h
      <4> HIDE DEF h
      <4> QED BY <2>1 DEF ServerInv, SessionsOK, SocketData
    <3> HIDE DEF g, joins, cached
    <3> QED BY <2>3, <3>1 DEF ServerInv, SessionsOK, SocketData
  <2> HIDE DEF endpoint, joins, g
  <2>5. Listens(IF joins THEN SubscribeGroupTopic(endpoint, g) ELSE endpoint)
    BY <2>2, <2>4, JoinListens
  <2> QED BY <1>2, <2>1, <2>5
<1>11. ASSUME NEW s \in Sockets, NEW n \in Names,
              Alive(s) \/ GroupInviteFromGroup(s, n) \/ GroupJoinRefused(s, n)
       PROVE  ChannelsListen'
  BY <1>3, <1>11 DEF Alive, GroupInviteFromGroup, GroupJoinRefused
<1>12. ASSUME \/ UNCHANGED vars \/ Tick \/ \E s \in Sockets : Alive(s)
       PROVE  ChannelsListen'
  BY <1>3, <1>12 DEF vars, Tick, Alive
<1> QED BY <1>4, <1>5, <1>6, <1>7, <1>8, <1>9, <1>10, <1>11, <1>12 DEF Next

\* The figure of every channel that an administrator is told is the number of connected clients
\* that hear it, where end() runs the close handler and no client takes a channel back.
\* (One that does can leave the channel in a second slot: see ChannelsHaveSubscribers.)
THEOREM ChannelsAlwaysAgree ==
    IsFiniteSet(Sockets) /\ EndClosesNow /\ (\A t \in Droppable : ~IsChannel(t))
        => (Spec => []ChannelsAgree)
<1> SUFFICES ASSUME IsFiniteSet(Sockets), EndClosesNow, \A t \in Droppable : ~IsChannel(t)
             PROVE  Spec => []ChannelsAgree
  OBVIOUS
<1>1. Init => NoneEnding /\ ChannelsListen
  BY FreshListens DEF Init, NoneEnding, Closed, ChannelsListen
<1>2. ServerInv /\ NoneEnding /\ ChannelsListen /\ [Next]_vars => NoneEnding' /\ ChannelsListen'
  BY NoneEndingStep, ChannelsListenStep
<1>3. ASSUME ServerInv, NoneEnding, ChannelsListen, NEW t \in Topics, IsChannel(t)
      PROVE  CollectAdminSnapshot.channels[t] =
                 Cardinality({s \in Sockets : Connected(s) /\ t \in endpoints[s].subs})
  <2> DEFINE connected == {s \in Sockets : Connected(s)}
             sessions == {n \in Characters : activeSessions[n] # NoSocket}
             hearing == {s \in Sockets : Connected(s) /\ t \in endpoints[s].subs}
             counted == Listeners(sessions, t)
             socket == [n \in counted |-> activeSessions[n]]
             name == [s \in hearing |-> data[s].name]
  <2>1. /\ \A n \in sessions : activeSessions[n] \in connected /\ data[activeSessions[n]].name = n
        /\ \A s \in connected : data[s].name \in sessions /\ activeSessions[data[s].name] = s
    BY <1>3, SessionsAreConnections
  <2>2. \A s \in Sockets : t \in endpoints[s].subs <=> \E i \in 1 .. NumSlots : endpoints[s].topics[i] = t
    <3>1. \A s \in Sockets : t \in endpoints[s].subs => \E i \in 1 .. NumSlots : endpoints[s].topics[i] = t
      BY <1>3, ChannelKinds DEF ServerInv, EndpointsOK, EndpointOK, Recorded
    <3>2. \A s \in Sockets : (\E i \in 1 .. NumSlots : endpoints[s].topics[i] = t) => t \in endpoints[s].subs
      BY <1>3 DEF ChannelsListen, Listens
    <3> QED BY <3>1, <3>2
  <2>3. /\ hearing = {s \in connected : t \in endpoints[s].subs}
        /\ hearing \subseteq Sockets
    OBVIOUS
  <2>4. connected \subseteq Sockets
    OBVIOUS
  <2> HIDE DEF connected, sessions
  <2>5. counted = {n \in sessions : t \in endpoints[activeSessions[n]].subs}
    BY <2>1, <2>2, <2>4 DEF Listeners
  <2> HIDE DEF hearing, counted
  <2>6. /\ socket \in [counted -> hearing] /\ name \in [hearing -> counted]
        /\ \A m, n \in counted : socket[m] = socket[n] => m = n
        /\ \A s, u \in hearing : name[s] = name[u] => s = u
    BY <2>1, <2>3, <2>5
  <2>7. IsFiniteSet(hearing)
    BY <2>3, FS_Subset
  <2>8. Cardinality(counted) = Cardinality(hearing)
    <3> HIDE DEF socket, name
    <3> QED BY <2>6, <2>7, EquallyMany
  <2>9. CollectAdminSnapshot.channels[t] = Cardinality(counted)
    BY <1>3 DEF CollectAdminSnapshot, counted, sessions
  <2> QED BY <2>8, <2>9 DEF hearing
<1>4. DOMAIN CollectAdminSnapshot.channels = {u \in Topics : IsChannel(u)}
  BY DEF CollectAdminSnapshot
<1>5. ServerInv /\ NoneEnding /\ ChannelsListen => ChannelsAgree
  BY <1>3, <1>4 DEF ChannelsAgree
<1> QED BY <1>1, <1>2, <1>5, ServerInvariant, PTL DEF Spec

=============================================================================
