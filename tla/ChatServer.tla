----------------------------- MODULE ChatServer -----------------------------
(***************************************************************************)
(* The server, uDaraChatServer.cpp, over the group container: sessions,    *)
(* presence, topic subscriptions and the group commands.  The server is    *)
(* one event loop, so each callback of uWebSockets is one action.          *)
(*                                                                         *)
(* A socket is reused once it is closed, as the addresses of the sockets   *)
(* are.  Chat that only passes through (Channel, Zone, Group, Tell,        *)
(* AliveInfo) changes no state of the server: who would receive it is what *)
(* the subscriptions say.                                                  *)
(***************************************************************************)
EXTENDS SlotOps

CONSTANTS
    Characters,     \* the names that JWTs are issued for
    Sockets,        \* the connections that can be open at a time
    NoSocket,       \* no entry in activeSessions
    NoRoster,       \* no GroupInfo received yet
    EndClosesNow,   \* whether end() runs the close handler before it returns
    Droppable,      \* the topics that clients unsubscribe from
    MaxInvites      \* bound of the model: invitations kept at a time

ASSUME ServerAssumption ==
    /\ Characters \subseteq Names
    /\ NoSocket \notin Sockets
    /\ EndClosesNow \in BOOLEAN
    /\ Droppable \subseteq Topics
    /\ MaxInvites \in Nat

VARIABLES
    MyGroups,       \* the members of all groups
    MyInvites,      \* the pending invitations
    activeSessions, \* the socket of each connected character
    data,           \* PerSocketData of each socket, and the state of the socket
    endpoints,      \* topic slots and subscriptions of each socket
    roster          \* the last GroupInfo each client has received for its group
vars == <<MyGroups, MyInvites, activeSessions, data, endpoints, roster>>

\* A socket is closed, open without login, connected, or ended by the server
\* while its close event is still to come.
Closed == [state |-> "closed", name |-> NoName, groupId |-> NoGroup]

Init ==
    /\ MyGroups = <<>>
    /\ MyInvites = {}
    /\ activeSessions = [n \in Characters |-> NoSocket]
    /\ data = [s \in Sockets |-> Closed]
    /\ endpoints = [s \in Sockets |-> NoEndpoint]
    /\ roster = [s \in Sockets |-> NoRoster]

Connected(s) == data[s].state = "connected"

-----------------------------------------------------------------------------

\* SendGroupUpdateInfo: everyone who is subscribed to the group's topic now
\* learns what the container says of the group now.
SendGroupUpdateInfo(seen, ends, groups, g) ==
    [s \in Sockets |-> IF GroupTopic(g) \in ends[s].subs THEN Roster(groups, g) ELSE seen[s]]

\* The close handler for socket s of a login, once uWebSockets has dropped the
\* subscriptions of s: a socket that has been replaced is ignored, the others
\* take their character offline and tell its group.
\* Mutation of IsCurrent: a replaced socket is treated like the current one.
AlwaysCurrent(s) == TRUE
IsCurrent(s) == activeSessions[data[s].name] = s
GroupsAfterClose(s) == SetMemberOnline(MyGroups, data[s].name, FALSE)
\* Mutation of RosterAfterClose: the group is not told.
RosterUnaware(s) == [roster EXCEPT ![s] = NoRoster]
RosterAfterClose(s) ==
    LET ends == [endpoints EXCEPT ![s] = NoEndpoint]
        seen == [roster EXCEPT ![s] = NoRoster]
    IN  IF GroupsAfterClose(s) # MyGroups /\ data[s].groupId # NoGroup
        THEN SendGroupUpdateInfo(seen, ends, GroupsAfterClose(s), data[s].groupId)
        ELSE seen

\* What end() leaves of a socket: its subscriptions are gone at once, its data
\* with its close event.  (Its slots are dropped at once here, though they go
\* with its data: only the channel counts of an administrator still read them.)
Ended(s) == IF EndClosesNow THEN Closed ELSE [data[s] EXCEPT !.state = "ending"]

\* The close handler runs for s and s is gone.
CloseHandler(s) ==
    /\ data' = [data EXCEPT ![s] = Closed]
    /\ endpoints' = [endpoints EXCEPT ![s] = NoEndpoint]
    /\ IF IsCurrent(s)
       THEN /\ activeSessions' = [activeSessions EXCEPT ![data[s].name] = NoSocket]
            /\ MyGroups' = GroupsAfterClose(s)
            /\ roster' = RosterAfterClose(s)
       ELSE /\ roster' = [roster EXCEPT ![s] = NoRoster]
            /\ UNCHANGED <<activeSessions, MyGroups>>
    /\ UNCHANGED MyInvites

-----------------------------------------------------------------------------
\* The callbacks of a connection.

\* The open handler fills the slots with placeholders and subscribes to them.
Open(s) ==
    /\ data[s].state = "closed"
    /\ data' = [data EXCEPT ![s].state = "open"]
    /\ endpoints' = [endpoints EXCEPT ![s] = NewEndpoint(s)]
    /\ UNCHANGED <<MyGroups, MyInvites, activeSessions, roster>>

\* The socket that a login replaces, and a mutation that forgets it.
ForgetPrevious(n) == NoSocket
Previous(n) == activeSessions[n]

\* "connect:" with a login that VerifyLogin accepts.  The previous socket of
\* the character is ended first; its close handler sees itself in
\* activeSessions if it runs at once, and the new socket if it runs later.
Connect(s, n) ==
    LET old == Previous(n)
        retire == old # NoSocket
        groups == IF retire /\ EndClosesNow THEN GroupsAfterClose(old) ELSE MyGroups
        g == GroupOf(groups, n)
        online == SetMemberOnline(groups, n, TRUE)
        ended == IF retire THEN [endpoints EXCEPT ![old] = NoEndpoint] ELSE endpoints
        ends == [ended EXCEPT ![s] = SubscribeStandardTopics(@, n, g)]
        seen == CASE retire /\ EndClosesNow -> RosterAfterClose(old)
                  [] retire /\ ~EndClosesNow -> [roster EXCEPT ![old] = NoRoster]
                  [] OTHER -> roster
    IN  /\ data[s].state = "open"
        /\ data' = [t \in Sockets |->
                       CASE t = s -> [state |-> "connected", name |-> n, groupId |-> g]
                         [] t = old -> Ended(old)
                         [] OTHER -> data[t]]
        /\ activeSessions' = [activeSessions EXCEPT ![n] = s]
        /\ MyGroups' = online
        /\ endpoints' = ends
        /\ roster' = IF g = NoGroup THEN seen ELSE SendGroupUpdateInfo(seen, ends, online, g)
        /\ UNCHANGED MyInvites

\* "connect:" with a login that is refused, or the client of an open socket
\* goes away: the close handler ignores a socket without login.
Abandon(s) ==
    /\ data[s].state = "open"
    /\ data' = [data EXCEPT ![s] = Closed]
    /\ endpoints' = [endpoints EXCEPT ![s] = NoEndpoint]
    /\ UNCHANGED <<MyGroups, MyInvites, activeSessions, roster>>

\* "connect:" on a connected socket ends it.
ConnectAgain(s) ==
    /\ Connected(s)
    /\ IF EndClosesNow THEN CloseHandler(s)
       ELSE /\ data' = [data EXCEPT ![s] = Ended(s)]
            /\ endpoints' = [endpoints EXCEPT ![s] = NoEndpoint]
            /\ roster' = [roster EXCEPT ![s] = NoRoster]
            /\ UNCHANGED <<MyGroups, MyInvites, activeSessions>>

\* The peer closes, the connection is lost or idle for too long, or the close
\* event of an ended socket arrives.
Close(s) ==
    /\ data[s].state \in {"connected", "ending"}
    /\ CloseHandler(s)

HandleSubscribeMessage(s, t) ==
    /\ Connected(s)
    /\ endpoints' = [endpoints EXCEPT ![s] = Subscribe(@, Custom(t))]
    /\ UNCHANGED <<MyGroups, MyInvites, activeSessions, data, roster>>

\* "unsubscribe:" takes any topic, the automatic ones included.
Unsubscribe(s, t) ==
    /\ Connected(s)
    /\ endpoints' = [endpoints EXCEPT ![s] = RemoveTopicSubscription(@, t)]
    /\ roster' = [roster EXCEPT ![s] =
                     IF t \in endpoints[s].subs /\ IsGroupTopic(t) THEN NoRoster ELSE @]
    /\ UNCHANGED <<MyGroups, MyInvites, activeSessions, data>>

-----------------------------------------------------------------------------
\* The group commands.

\* A fresh random group id is one that no member and no connection has.
FreshGroupIds ==
    GroupIds \ (GetUniqueGroupIds(MyGroups)
                \cup {data[s].groupId : s \in Sockets}
                \cup {t[2] : t \in {u \in UNION {endpoints[s].subs : s \in Sockets} : IsGroupTopic(u)}})

\* The invitation is checked, stored and sent to the invited character.  It is
\* neither stored nor sent when the container refuses it.
StoreInvite(groups, leader, member) ==
    IF GroupInviteAccepted(groups, member, leader)
    THEN /\ MyInvites' = AddInvite(RemoveOldInvites(MyInvites), leader, member)
         /\ Cardinality(MyInvites') <= MaxInvites
    ELSE UNCHANGED MyInvites

\* An inviter without a group founds one first, and keeps it when the
\* invitation is then refused.
GroupInviteFounding(s, invited) ==
    LET n == data[s].name IN
    /\ Connected(s)
    /\ data[s].groupId = NoGroup
    /\ GroupStartAccepted(MyGroups, n)
    /\ \E g \in FreshGroupIds :
          /\ MyGroups' = GroupStartGroup(MyGroups, n, g)
          /\ data' = [data EXCEPT ![s].groupId = g]
          /\ endpoints' = [endpoints EXCEPT ![s] = SubscribeGroupTopic(@, g)]
          /\ StoreInvite(MyGroups', n, invited)
    /\ UNCHANGED <<activeSessions, roster>>

GroupInviteFromGroup(s, invited) ==
    /\ Connected(s)
    /\ data[s].groupId # NoGroup
    /\ StoreInvite(MyGroups, data[s].name, invited)
    /\ UNCHANGED <<MyGroups, activeSessions, data, endpoints, roster>>

\* Mutation of JoinValidated: the capacity is only checked after leaving.
JoinValidatedLate(n, inviter) ==
    LET target == GroupOf(MyGroups, inviter)
    IN  /\ CheckHasInvited(RemoveOldInvites(MyInvites), inviter, n)
        /\ target \notin {NoGroup, GroupOf(MyGroups, n)}

\* What the GroupJoin handler checks before it changes any group.
JoinValidated(n, inviter) ==
    LET target == GroupOf(MyGroups, inviter)
    IN  /\ CheckHasInvited(RemoveOldInvites(MyInvites), inviter, n)
        /\ target # NoGroup
        /\ MemberCount(MyGroups, target) < MyMaxGroupMembers
        /\ GroupOf(MyGroups, n) # target

\* Refused: only the expired invitations are gone.
GroupJoinRefused(s, inviter) ==
    /\ Connected(s)
    /\ ~JoinValidated(data[s].name, inviter)
    /\ MyInvites' = RemoveOldInvites(MyInvites)
    /\ UNCHANGED <<MyGroups, activeSessions, data, endpoints, roster>>

\* Accepted: a solo group is left, then the group of the inviter is joined,
\* unless the connection still counts itself in a group.
GroupJoinAccept(s, inviter) ==
    LET n == data[s].name
        own == GroupOf(MyGroups, n)
        solo == own # NoGroup /\ MemberCount(MyGroups, own) = 1
        live == RemoveOldInvites(MyInvites)
        groups == IF solo THEN GroupDisband(MyGroups, n) ELSE MyGroups
        invites == IF solo THEN GroupDisbandInvites(MyGroups, live, n) ELSE live
        endpoint == IF solo THEN RemoveGroupSubscription(endpoints[s]) ELSE endpoints[s]
        cached == IF solo THEN NoGroup ELSE data[s].groupId
        joins == cached = NoGroup /\ GroupJoinAccepted(groups, n, inviter)
        g == GroupOf(groups, inviter)
        seen == IF solo THEN [roster EXCEPT ![s] = NoRoster] ELSE roster
        ends == [endpoints EXCEPT ![s] = IF joins THEN SubscribeGroupTopic(endpoint, g) ELSE endpoint]
    IN  /\ Connected(s)
        /\ JoinValidated(n, inviter)
        /\ endpoints' = ends
        /\ IF joins
           THEN /\ MyGroups' = GroupJoin(groups, n, inviter)
                /\ data' = [data EXCEPT ![s].groupId = g]
                /\ MyInvites' = RemoveInvite(invites, inviter, n)
                /\ roster' = SendGroupUpdateInfo(seen, ends, MyGroups', g)
           ELSE /\ MyGroups' = groups
                /\ data' = [data EXCEPT ![s].groupId = cached]
                /\ MyInvites' = invites
                /\ roster' = seen
        /\ UNCHANGED activeSessions

\* GroupDisband: the sender leaves its group, and the ones it leaves are told.
LeaveGroup(s) ==
    LET n == data[s].name
        g == data[s].groupId
        ends == [endpoints EXCEPT ![s] = RemoveGroupSubscription(@)]
    IN  /\ Connected(s)
        /\ g # NoGroup
        /\ MyGroups' = GroupDisband(MyGroups, n)
        /\ MyInvites' = GroupDisbandInvites(MyGroups, MyInvites, n)
        /\ data' = [data EXCEPT ![s].groupId = NoGroup]
        /\ endpoints' = ends
        /\ roster' = SendGroupUpdateInfo([roster EXCEPT ![s] = NoRoster], ends, MyGroups', g)
        /\ UNCHANGED activeSessions

\* An Alive message, or a valid position frame, refreshes the membership.
Alive(s) ==
    /\ Connected(s)
    /\ MyGroups' = AliveMsg(MyGroups, data[s].name)
    /\ UNCHANGED <<MyInvites, activeSessions, data, endpoints, roster>>

\* One second passes.
Tick ==
    /\ MyInvites' = Older(MyInvites)
    /\ UNCHANGED <<MyGroups, activeSessions, data, endpoints, roster>>

Next ==
    \/ \E s \in Sockets :
          \/ Open(s) \/ Abandon(s) \/ ConnectAgain(s) \/ Close(s) \/ LeaveGroup(s) \/ Alive(s)
          \/ \E n \in Characters : Connect(s, n)
          \/ \E t \in UserTopics : HandleSubscribeMessage(s, t)
          \/ \E t \in Droppable : Unsubscribe(s, t)
          \/ \E n \in Names :
                \/ GroupInviteFounding(s, n) \/ GroupInviteFromGroup(s, n)
                \/ GroupJoinRefused(s, n) \/ GroupJoinAccept(s, n)
    \/ Tick

Spec == Init /\ [][Next]_vars

-----------------------------------------------------------------------------
\* What the administrator queries are answered from.

\* Mutation of OnlineGroups: a group counts only when all its members are online.
AllOnlineGroups ==
    {g \in GetUniqueGroupIds(MyGroups) : \A i \in MembersOf(MyGroups, g) : MyGroups[i].isOnline}
OnlineGroups ==
    {g \in GetUniqueGroupIds(MyGroups) : \E i \in MembersOf(MyGroups, g) : MyGroups[i].isOnline}

\* The channels are those in slots, World and the custom ones, and a session counts
\* once for each.
IsChannel(t) == t[1] \in {"world", "custom"}
Listeners(sessions, t) ==
    {n \in sessions : \E i \in 1 .. NumSlots : endpoints[activeSessions[n]].topics[i] = t}

CollectAdminSnapshot ==
    LET sessions == {n \in Characters : activeSessions[n] # NoSocket}
    IN  [connectedClients |-> Cardinality(sessions),
         totalGroups |-> Cardinality(GetUniqueGroupIds(MyGroups)),
         onlineGroups |-> Cardinality(OnlineGroups),
         channels |-> [t \in {u \in Topics : IsChannel(u)} |->
                          Cardinality(Listeners(sessions, t))]]

-----------------------------------------------------------------------------

\* Type invariant.
Placeholders == {Placeholder(s, i) : s \in Sockets, i \in 1 .. NumSlots}
TypeOK ==
    /\ MyGroups \in Seq(GroupMember)
    /\ MyInvites \in SUBSET GroupInvite
    /\ activeSessions \in [Characters -> Sockets \cup {NoSocket}]
    /\ data \in [Sockets -> [state : {"closed", "open", "connected", "ending"},
                              name : Characters \cup {NoName},
                              groupId : GroupIds \cup {NoGroup}]]
    /\ endpoints \in [Sockets -> [topics : [1 .. NumSlots -> Topics \cup Placeholders \cup {Unused}],
                                   subs : SUBSET (Topics \cup Placeholders)]]
    /\ \A s \in Sockets : roster[s] # NoRoster => roster[s].leaderName \in Names \cup {NoName}

\* The session index and the sockets agree: an entry never outlives its socket
\* (CollectAdminSnapshot follows the pointer), and every connected socket is the
\* one its character is indexed under, so no character has two connections.
SessionsAgree ==
    /\ \A n \in Characters : activeSessions[n] # NoSocket =>
          /\ data[activeSessions[n]].name = n
          /\ data[activeSessions[n]].state \in {"connected", "ending"}
    /\ \A s \in Sockets : Connected(s) => activeSessions[data[s].name] = s

\* A member is marked online exactly while its character has a session, however
\* reconnections and late close events are ordered.
PresenceIsConnection ==
    \A i \in DOMAIN MyGroups :
        MyGroups[i].isOnline <=> activeSessions[MyGroups[i].name] # NoSocket

\* The group id cached in a connection is the group its character is in.
CacheAgrees ==
    \A s \in Sockets : Connected(s) => data[s].groupId = GroupOf(MyGroups, data[s].name)

\* Only connected members of a group are subscribed to its topic: nobody keeps
\* reading a group that it has left, and no replaced socket does.
OnlyMembersListen ==
    \A s \in Sockets, g \in GroupIds : GroupTopic(g) \in endpoints[s].subs =>
        Connected(s) /\ GroupOf(MyGroups, data[s].name) = g

\* Every client that listens to a group of two or more has been told what the
\* group is now: its members, its leader and who is online.
RosterIsCurrent ==
    \A s \in Sockets :
        LET g == data[s].groupId
        IN  GroupTopic(g) \in endpoints[s].subs
            /\ (roster[s] # NoRoster \/ MemberCount(MyGroups, g) > 1)
            => roster[s] = Roster(MyGroups, g)

\* Every topic that a login, a command or a client has subscribed a connection to is
\* in a slot that is in use, so that unsubscribing and leaving a group can find it.
\* (The placeholders of the open handler are the exception: their slots are not in
\* use, then overwritten, and a connection stays subscribed to them until it closes.)
SubscriptionsAreRecorded ==
    \A s \in Sockets : \A t \in endpoints[s].subs :
        ~IsPlaceholder(t) => \E i \in 1 .. NumSlots : InUse(t) /\ endpoints[s].topics[i] = t

\* What an administrator is told agrees with the connections: every connected
\* client is counted once, and a group is online exactly when one of its members
\* is connected.
SnapshotAgrees ==
    LET connected == {s \in Sockets : Connected(s)}
    IN  /\ CollectAdminSnapshot.connectedClients = Cardinality(connected)
        /\ CollectAdminSnapshot.onlineGroups = Cardinality({data[s].groupId : s \in connected} \ {NoGroup})

\* The figure of a channel is the number of connected clients that hear it, however
\* its topic is spread over slots by groups that are joined and left in between.
\* This is for clients that take back no channel; for the others see
\* ChannelsHaveSubscribers.
ChannelsAgree ==
    \A t \in DOMAIN CollectAdminSnapshot.channels :
        CollectAdminSnapshot.channels[t] = Cardinality({s \in Sockets : Connected(s) /\ t \in endpoints[s].subs})

\* Accepting an invitation never costs a character the group it has: it ends in
\* the inviter's group or stays in a group it shares with others.
JoinNeverStrands ==
    [][\A s \in Sockets, inviter \in Names :
          GroupJoinAccept(s, inviter) =>
              LET n == data[s].name
              IN  \/ GroupOf(MyGroups', n) = GroupOf(MyGroups, inviter)
                  \/ /\ GroupOf(MyGroups', n) = GroupOf(MyGroups, n)
                     /\ MemberCount(MyGroups, GroupOf(MyGroups, n)) > 1]_vars

\* Entering an existing group, and an invitation to n that is not older than the limit.
Enters(n) ==
    LET g == GroupOf(MyGroups', n)
    IN  g \in GetUniqueGroupIds(MyGroups) /\ GroupOf(MyGroups, n) # g
LiveInvites(n) == {v \in MyInvites : v.age <= MaxAge /\ SameName(v.memberName, n)}

\* Nobody enters an existing group without a live invitation from a character that
\* is in that group.  This is for characters whose names differ in more than
\* capitalization.
EntryNeedsInvitation ==
    [][\A n \in Characters : Enters(n) =>
          \E v \in LiveInvites(n) : GroupOf(MyGroups, v.leaderName) = GroupOf(MyGroups', n)]_vars

\* What is left of that when two names may differ in nothing else: a member of the
\* group bears the name of the inviter, in some capitalization, and need not be it.
EntryNeedsNamedInvitation ==
    [][\A n \in Characters : Enters(n) =>
          \E v \in LiveInvites(n), m \in Names :
              SameName(v.leaderName, m) /\ GroupOf(MyGroups, m) = GroupOf(MyGroups', n)]_vars

\* The rules of the documentation that the code does not keep.

\* Whoever enters a group was invited by the one who leads it ("In existing
\* groups, only the leader can invite members").
EntryNeedsLeader ==
    [][\A n \in Characters : Enters(n) =>
          \E v \in MyInvites :
              /\ SameName(v.memberName, n)
              /\ SameName(v.leaderName, LeaderOf(MyGroups, GroupOf(MyGroups', n)))]_vars

\* A channel that the administrator is told of has a connected subscriber ("Channels
\* with no connected subscribers do not appear").
ChannelsHaveSubscribers ==
    \A t \in DOMAIN CollectAdminSnapshot.channels :
        CollectAdminSnapshot.channels[t] > 0 => \E s \in Sockets : Connected(s) /\ t \in endpoints[s].subs

\* A connection in a group is subscribed to its topic ("On success, Bob
\* automatically subscribes to the group topic").
MembersListen ==
    \A s \in Sockets : Connected(s) /\ data[s].groupId # NoGroup =>
        GroupTopic(data[s].groupId) \in endpoints[s].subs

-----------------------------------------------------------------------------

Registry ==
    INSTANCE GroupRegistry WITH
        group <- [n \in Names |-> GroupOf(MyGroups, n)],
        leader <- [g \in GroupIds |-> LeaderOf(MyGroups, g)],
        online <- {n \in Names : \E i \in EntriesOf(MyGroups, n) : MyGroups[i].isOnline}

\* Every callback is at most one step of the abstract registry: no command of
\* one client changes another character's membership, and leadership changes
\* hands only when the leader leaves.
ImplementsRegistry == Registry!Spec

=============================================================================
