-------------------------- MODULE GroupController ---------------------------
(***************************************************************************)
(* The group test controller, tools/group_test_controller.py: one process  *)
(* per bot, one thread per process that reads its output, and the one view *)
(* of the groups that all these threads update from what each bot reports. *)
(*                                                                         *)
(* The group container is that of GroupOps.  Of the chat server only what  *)
(* it sends to group topics matters here, of a bot that it accepts every   *)
(* invitation and prints what it receives and each leave it sends.  The    *)
(* characters that are not bots are those of the game clients (Unreal).    *)
(*                                                                         *)
(* A bot prints a message as soon as it is sent, but its own requests take *)
(* any time to reach the server, so all orders of the two are covered.     *)
(* Presence, expiry and the texts of the greetings are left out.           *)
(***************************************************************************)
EXTENDS GroupOps

CONSTANTS
    Bots,           \* the names of the bots
    Unknown,        \* None: no confirmed update
    MaxProcesses,   \* bound of the model: processes started for a bot
    MaxCommands,    \* bound of the model: commands of the user and of the game clients
    MaxPaced        \* bound of the model: the same if every command is paced

ASSUME ControllerAssumption ==
    /\ Bots \subseteq Names
    /\ Unknown \notin GroupIds \cup {NoGroup}
    /\ MaxProcesses \in Nat \ {0} /\ MaxCommands \in Nat /\ MaxPaced \in Nat

Processes == Bots \X (1 .. MaxProcesses)
NoProcess == 0

VARIABLES
    paced,              \* whether every command waits until all output has been read
    groupData, invites, \* MyGroups and MyInvites
    session,            \* the process of a bot that the server has a session with
    requests,           \* what each bot has sent and the server has not yet handled
    process,            \* the number of the process of each bot, processes
    running,            \* the bots whose process runs, proc.poll() is None
    output,             \* the lines of each process that its reader has not read
    greeting,           \* the readers that are about to send a group greeting
    groups,             \* the last reported group of each bot
    greeted_groups,     \* the group each bot has greeted, NoGroup when none
    commands,           \* how many commands there have been
    founded,            \* the group ids used so far: GetNewGroupId repeats none
    hailed,             \* history: the group each bot greeted last, and how often since
                        \* it left it, was seen to leave or was started
    departed            \* history: the bots that have ever left a group
server == <<groupData, invites, session, requests>>
view == <<groups, greeted_groups, hailed>>
vars == <<paced, server, process, running, output, greeting, view, commands, founded, departed>>

RosterLine(g, members) == [type |-> "GroupInfo", group |-> g, names |-> members]
DepartureLine(n) == [type |-> "GroupDisbandInfo", name |-> n]
LeaveLine == [type |-> "CONTROL SENT leave"]
JoinRequest(leader) == [type |-> "GroupJoin", leaderName |-> leader]
LeaveRequest == [type |-> "GroupDisband", leaderName |-> NoName]

\* Everything that a bot may print, and that it may ask of the server.
Line == [type : {"GroupInfo"}, group : GroupIds, names : SUBSET Names]
            \cup [type : {"GroupDisbandInfo"}, name : Names] \cup {LeaveLine}
Request == [type : {"GroupJoin"}, leaderName : Names] \cup {LeaveRequest}

NotHailed == [group |-> NoGroup, times |-> 0]
Current(b) == <<b, process[b]>>
Connected(b) == b \in running /\ session[b] = process[b]
NamesOf(data, g) == {data[i].name : i \in MembersOf(data, g)}

Init ==
    /\ paced \in BOOLEAN
    /\ groupData = <<>> /\ invites = {}
    /\ session = [b \in Bots |-> 1]
    /\ requests = [b \in Bots |-> <<>>]
    /\ process = [b \in Bots |-> 1]
    /\ running = Bots
    /\ output = [p \in Processes |-> <<>>]
    /\ greeting = {}
    /\ groups = [b \in Bots |-> Unknown]
    /\ greeted_groups = [b \in Bots |-> NoGroup]
    /\ commands = 0
    /\ founded = {}
    /\ hailed = [b \in Bots |-> NotHailed]
    /\ departed = {}

-----------------------------------------------------------------------------
\* What the server sends and the bots print.

\* The output of every connected bot in receivers, grown by these lines.
Printed(receivers, new) ==
    [p \in Processes |->
        IF p[1] \in receivers /\ Connected(p[1]) /\ p = Current(p[1]) THEN output[p] \o new
        ELSE output[p]]

\* SendGroupUpdateInfo to the members of g in data.
Update(data, g) == output' = Printed(NamesOf(data, g) \cap Bots, <<RosterLine(g, NamesOf(data, g))>>)

\* All output has been read and acted on, and the server has seen every request,
\* disconnection and login.
Quiet ==
    /\ \A p \in Processes : output[p] = <<>>
    /\ greeting = {}
    /\ \A b \in Bots : requests[b] = <<>>
    /\ \A b \in Bots : session[b] = IF b \in running THEN process[b] ELSE NoProcess
Command ==
    /\ commands < IF paced THEN MaxPaced ELSE MaxCommands
    /\ paced => Quiet
    /\ commands' = commands + 1

\* A leader invites: a bot on command, a game client when it likes.  Who has no
\* group founds one first, and nobody is told.  A bot that is invited answers.
Invite(leader, member, g) ==
    LET founds == GroupStartAccepted(groupData, leader)
        data == IF founds THEN GroupStartGroup(groupData, leader, g) ELSE groupData
        accepted == GroupInviteAccepted(data, member, leader)
    IN  /\ Command
        /\ leader # member
        /\ leader \in Bots => Connected(leader)
        /\ IF founds THEN g \notin founded ELSE g = GroupOf(groupData, leader)
        /\ founded' = founded \cup {g}
        /\ groupData' = data
        /\ invites' = IF accepted THEN AddInvite(invites, leader, member) ELSE invites
        /\ requests' = [b \in Bots |-> IF accepted /\ b = member /\ Connected(b)
                                       THEN Append(requests[b], JoinRequest(leader)) ELSE requests[b]]
        /\ UNCHANGED <<paced, session, process, running, output, greeting, view, departed>>

\* The GroupJoin of an invited character arrives.
\* Mutation of CanJoin: the inviter may have left its group.
CanJoinUnled(n, leader) ==
    /\ CheckHasInvited(invites, leader, n)
    /\ GroupOf(groupData, leader) # GroupOf(groupData, n)
    /\ MemberCount(groupData, GroupOf(groupData, leader)) < MyMaxGroupMembers
    /\ MemberCount(groupData, GroupOf(groupData, n)) <= 1
CanJoin(n, leader) ==
    /\ CheckHasInvited(invites, leader, n)
    /\ GroupOf(groupData, leader) \notin {NoGroup, GroupOf(groupData, n)}
    /\ MemberCount(groupData, GroupOf(groupData, leader)) < MyMaxGroupMembers
    /\ MemberCount(groupData, GroupOf(groupData, n)) <= 1
Joined(n, leader) ==
    LET solo == GroupOf(groupData, n) # NoGroup
        data == IF solo THEN GroupDisband(groupData, n) ELSE groupData
        left == IF solo THEN GroupDisbandInvites(groupData, invites, n) ELSE invites
    IN  IF CanJoin(n, leader)
        THEN /\ groupData' = GroupJoin(data, n, leader)
             /\ invites' = RemoveInvite(left, leader, n)
             /\ Update(groupData', GroupOf(data, leader))
             /\ departed' = IF solo THEN departed \cup {n} ELSE departed
        ELSE UNCHANGED <<groupData, invites, output, departed>>

ClientJoins(v) ==
    /\ v \in invites /\ v.memberName \notin Bots
    /\ CanJoin(v.memberName, v.leaderName)
    /\ paced => Quiet
    /\ Joined(v.memberName, v.leaderName)
    /\ UNCHANGED <<paced, session, requests, process, running, greeting, view, commands, founded>>

\* The GroupDisband of a character arrives.
Left(n) ==
    LET g == GroupOf(groupData, n)
    IN  IF g = NoGroup
        THEN UNCHANGED <<groupData, invites, output, hailed, departed>>
        ELSE /\ groupData' = GroupDisband(groupData, n)
             /\ invites' = GroupDisbandInvites(groupData, invites, n)
             /\ output' = Printed(NamesOf(groupData', g) \cap Bots,
                                  <<DepartureLine(n), RosterLine(g, NamesOf(groupData', g))>>)
             /\ hailed' = [b \in Bots |-> IF b = n THEN NotHailed ELSE hailed[b]]
             /\ departed' = departed \cup {n}

\* The oldest request of a bot arrives.
Arrives(b) ==
    /\ requests[b] # <<>> /\ session[b] # NoProcess
    /\ requests' = [requests EXCEPT ![b] = Tail(@)]
    /\ LET request == Head(requests[b])
       IN  \/ request.type = "GroupJoin" /\ Joined(b, request.leaderName) /\ UNCHANGED hailed
           \/ request.type = "GroupDisband" /\ Left(b)
    /\ UNCHANGED <<paced, session, process, running, greeting, groups, greeted_groups, commands, founded>>

ClientLeaves(n) ==
    /\ n \in Names \ Bots
    /\ GroupOf(groupData, n) # NoGroup
    /\ Command
    /\ Left(n)
    /\ UNCHANGED <<paced, session, requests, process, running, greeting, groups, greeted_groups, founded>>

\* The close handler and the login of a bot: the roster goes to its group.  A
\* login ends the old session, and with it what has not arrived.
Closed(b) ==
    /\ session[b] # NoProcess /\ ~Connected(b)
    /\ requests[b] = <<>>
    /\ session' = [session EXCEPT ![b] = NoProcess]
    /\ IF GroupOf(groupData, b) = NoGroup THEN UNCHANGED output
       ELSE Update(groupData, GroupOf(groupData, b))
    /\ UNCHANGED <<paced, groupData, invites, requests, process, running, greeting, view, commands,
                   founded, departed>>

Login(b) ==
    LET g == GroupOf(groupData, b)
    IN  /\ b \in running /\ ~Connected(b)
        /\ session' = [session EXCEPT ![b] = process[b]]
        /\ requests' = [requests EXCEPT ![b] = <<>>]
        /\ output' = IF g = NoGroup THEN output
                     ELSE [Printed(NamesOf(groupData, g) \cap Bots, <<RosterLine(g, NamesOf(groupData, g))>>)
                             EXCEPT ![Current(b)] = Append(@, RosterLine(g, NamesOf(groupData, g)))]
        /\ UNCHANGED <<paced, groupData, invites, process, running, greeting, view, commands, founded, departed>>

-----------------------------------------------------------------------------
\* Commands of the user of the controller.

\* "leave": the bot sends GroupDisband and prints that it has.
Leave(b) ==
    /\ Command
    /\ Connected(b)
    /\ requests' = [requests EXCEPT ![b] = Append(@, LeaveRequest)]
    /\ output' = [output EXCEPT ![Current(b)] = Append(@, LeaveLine)]
    /\ UNCHANGED <<paced, groupData, invites, session, process, running, greeting, view, founded, departed>>

\* "disconnect": the process ends; what it has printed is still read.
Stop(b) ==
    /\ Command
    /\ b \in running
    /\ running' = running \ {b}
    /\ UNCHANGED <<paced, server, process, output, greeting, view, founded, departed>>

\* Mutation of Forgotten: the new process does not greet its group again.
StillRemembered(b) == greeted_groups
Forgotten(b) == [greeted_groups EXCEPT ![b] = NoGroup]

\* "reconnect": a new process, with a reader of its own.
Start(b) ==
    /\ Command
    /\ b \notin running /\ process[b] < MaxProcesses
    /\ running' = running \cup {b}
    /\ process' = [process EXCEPT ![b] = @ + 1]
    /\ greeted_groups' = Forgotten(b)
    /\ hailed' = [hailed EXCEPT ![b] = NotHailed]
    /\ UNCHANGED <<paced, server, output, greeting, groups, founded, departed>>

-----------------------------------------------------------------------------
\* observe_group: what the reader of a process of bot makes of a line.

\* Mutation of Leavers: a bot that a roster does not list has left its group.
AllLeavers(g, members) == Bots \ members

\* The bots last reported in g that a roster of g no longer lists.
Leavers(g, members) == {b \in Bots \ members : groups[b] = g}

\* Mutation of Greets: every roster is greeted.
GreetsAlways(bot, line, before) == bot \in line.names /\ bot \in running

Greets(bot, line, before) ==
    bot \in line.names /\ bot \in running /\ before[bot] # line.group

ObserveRoster(bot, p, line) ==
    LET leavers == Leavers(line.group, line.names)
        before == [b \in Bots |-> IF b \in leavers THEN NoGroup ELSE greeted_groups[b]]
        greet == Greets(bot, line, before)
    IN  /\ line.type = "GroupInfo"
        /\ groups' = [b \in Bots |-> IF b \in line.names THEN line.group
                                     ELSE IF b \in leavers THEN NoGroup ELSE groups[b]]
        /\ greeted_groups' = [before EXCEPT ![bot] = IF greet THEN line.group ELSE @]
        /\ greeting' = IF greet THEN greeting \cup {p} ELSE greeting
        /\ hailed' = [hailed EXCEPT ![bot] =
                         IF ~greet THEN @
                         ELSE [group |-> line.group, times |-> IF @.group = line.group THEN 2 ELSE 1]]

ObserveLeave(bot, line) ==
    /\ line.type = "CONTROL SENT leave"
    /\ groups' = [groups EXCEPT ![bot] = Unknown]
    /\ greeted_groups' = [greeted_groups EXCEPT ![bot] = NoGroup]
    /\ hailed' = [hailed EXCEPT ![bot] = NotHailed]
    /\ UNCHANGED greeting

ObserveDeparture(bot, line) ==
    /\ line.type = "GroupDisbandInfo"
    /\ IF /\ line.name \in Bots
          /\ groups[bot] \notin {Unknown, NoGroup}
          /\ groups[line.name] = groups[bot]
       THEN /\ groups' = [groups EXCEPT ![line.name] = NoGroup]
            /\ greeted_groups' = [greeted_groups EXCEPT ![line.name] = NoGroup]
       ELSE UNCHANGED <<groups, greeted_groups>>
    /\ UNCHANGED <<greeting, hailed>>

\* A reader that is sending a greeting reads no line until it is done.
Observe(p) ==
    /\ p \notin greeting
    /\ output[p] # <<>>
    /\ LET line == Head(output[p])
       IN  ObserveRoster(p[1], p, line) \/ ObserveLeave(p[1], line) \/ ObserveDeparture(p[1], line)
    /\ output' = [output EXCEPT ![p] = Tail(@)]
    /\ UNCHANGED <<paced, server, process, running, commands, founded, departed>>

\* send, and the pause after it.  It raises an error when the process of the bot
\* has stopped, which ends the reader.
Greet(p) ==
    /\ p \in greeting
    /\ greeting' = greeting \ {p}
    /\ output' = IF p[1] \in running THEN output ELSE [output EXCEPT ![p] = <<>>]
    /\ UNCHANGED <<paced, server, process, running, view, commands, founded, departed>>

-----------------------------------------------------------------------------
Next ==
    \/ \E leader, member \in Names, g \in GroupIds : Invite(leader, member, g)
    \/ \E v \in invites : ClientJoins(v)
    \/ \E n \in Names : ClientLeaves(n)
    \/ \E b \in Bots : Leave(b) \/ Arrives(b) \/ Stop(b) \/ Closed(b) \/ Start(b) \/ Login(b)
    \/ \E p \in Processes : Observe(p) \/ Greet(p)

Spec == Init /\ [][Next]_vars

\* Every reader is a thread that goes on reading, and what is on its way arrives.
FairSpec ==
    /\ Spec
    /\ \A p \in Processes : WF_vars(Observe(p) \/ Greet(p))
    /\ \A b \in Bots : WF_vars(Arrives(b)) /\ WF_vars(Closed(b)) /\ WF_vars(Login(b))

-----------------------------------------------------------------------------

\* Type invariant.
TypeOK ==
    /\ paced \in BOOLEAN /\ commands \in Nat
    /\ groupData \in Seq(GroupMember) /\ invites \subseteq GroupInvite
    /\ session \in [Bots -> 0 .. MaxProcesses] /\ process \in [Bots -> 1 .. MaxProcesses]
    /\ requests \in [Bots -> Seq(Request)]
    /\ running \subseteq Bots
    /\ output \in [Processes -> Seq(Line)]
    /\ greeting \subseteq Processes
    /\ groups \in [Bots -> GroupIds \cup {NoGroup, Unknown}]
    /\ greeted_groups \in [Bots -> GroupIds \cup {NoGroup}]
    /\ hailed \in [Bots -> [group : GroupIds \cup {NoGroup}, times : 0 .. 2]]
    /\ founded \subseteq GroupIds /\ departed \subseteq Names

\* No bot has left a group or been disconnected.
Undisturbed == departed \cap Bots = {} /\ running = Bots /\ \A b \in Bots : process[b] = 1

\* Once everything has been read, "groups" shows every bot in the group it is in,
\* whatever the order in which the readers took the lines.  Of a group with one
\* member, or of one that grew while its bot was disconnected, nothing may have
\* been heard, and a bot that has left its group is shown as "none" or unknown.
\* Readers that lag behind may get it wrong for good once a bot has left or been
\* disconnected, so then only if the commands were paced.
SettledView ==
    Quiet /\ (paced \/ Undisturbed) =>
        \A b \in Bots :
            LET g == GroupOf(groupData, b)
            IN  \/ groups[b] = g
                \/ /\ g = NoGroup \/ MemberCount(groupData, g) = 1 \/ b \notin running
                   /\ groups[b] \in {NoGroup, Unknown}

\* "Repeated roster updates do not repeat the greeting."
GreetedOnce == \A b \in Bots : hailed[b].times <= 1

\* They do not, at least, if no reader ever lags behind a command.
GreetedOncePaced == paced => GreetedOnce

\* "Bots send a distinct greeting into group chat when their own server roster
\* update confirms membership", also after leaving and joining again.
EventuallyGreeted ==
    \A b \in Bots :
        paced /\ MemberCount(groupData, GroupOf(groupData, b)) > 1 /\ Connected(b)
            ~> (hailed[b].group = GroupOf(groupData, b) \/ ~Connected(b))

=============================================================================
