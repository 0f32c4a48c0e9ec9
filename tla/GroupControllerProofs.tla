----------------------- MODULE GroupControllerProofs ------------------------
(***************************************************************************)
(* What the view of the group test controller is worth, for every number   *)
(* of bots, processes, groups and game clients: what it shows once all     *)
(* output has been read, and how often a bot greets its group.             *)
(***************************************************************************)
EXTENDS GroupController, GroupOpsProofs, SequenceTheorems

Has(g) == \E n \in Names : GroupOf(groupData, n) = g
Lines(p) == {output[p][i] : i \in DOMAIN output[p]}
Lists(line, b) == line.type = "GroupInfo" /\ b \in line.names

\* A reader is still to learn that b is in the group it is in.
IsToLearn(b) == \E p \in Processes : \E line \in Lines(p) : Lists(line, b)

\* Bot b shares its group with somebody.
Shares(b) ==
    /\ GroupOf(groupData, b) # NoGroup
    /\ \E n \in Names \ {b} : GroupOf(groupData, n) = GroupOf(groupData, b)

\* Every group that anybody knows of has been founded.
GroupsFounded == GetUniqueGroupIds(groupData) \subseteq founded
ViewFounded ==
    \A b \in Bots : /\ groups[b] \in GroupIds => groups[b] \in founded
                    /\ hailed[b].group \in founded \cup {NoGroup}
LinesFounded ==
    \A p \in Processes : \A line \in Lines(p) : line.type = "GroupInfo" => line.group \in founded

\* What holds whether the commands are paced or not.
Common == TypeOK /\ WellFormed(groupData) /\ GroupsFounded /\ ViewFounded /\ LinesFounded

-----------------------------------------------------------------------------
\* Paced commands.

Settled == \A b \in Bots : session[b] = IF b \in running THEN process[b] ELSE NoProcess

\* One request is on its way at a time, and nothing has been printed since, but
\* for the line that says so.
OneRequest ==
    \A b \in Bots : requests[b] # <<>> =>
        /\ Settled
        /\ \E r \in Request : requests[b] = <<r>>
        /\ \A c \in Bots : requests[c] # <<>> => c = b
        /\ \A p \in Processes : \A line \in Lines(p) :
              requests[b] = <<LeaveRequest>> /\ p = Current(b) /\ line = LeaveLine

\* Every line is still true when it is read.
LinesAreCurrent ==
    \A p \in Processes : \A line \in Lines(p) :
        /\ line.type = "GroupInfo" =>
              line.names = NamesOf(groupData, line.group) /\ p[1] \in line.names
        /\ line.type = "GroupDisbandInfo" => GroupOf(groupData, line.name) = NoGroup
        /\ line = LeaveLine =>
              p = Current(p[1]) /\
              (GroupOf(groupData, p[1]) = NoGroup \/ requests[p[1]] = <<LeaveRequest>>)

\* A bot remembers the group that it greeted last as long as it is in it.
HailsAreRemembered ==
    \A b \in Bots : hailed[b].group # NoGroup =>
        /\ greeted_groups[b] = hailed[b].group
        /\ GroupOf(groupData, b) # NoGroup
        /\ GroupOf(groupData, b) = hailed[b].group \/ ~Has(hailed[b].group)

\* The view is right or about to be.
ViewIsRight ==
    \A b \in Bots :
        /\ groups[b] \in GroupIds =>
              \/ groups[b] = GroupOf(groupData, b)
              \/ ~Has(groups[b]) /\ IsToLearn(b)
              \/ GroupOf(groupData, b) = NoGroup /\ LeaveLine \in Lines(Current(b))
        /\ groups[b] \notin GroupIds /\ Shares(b) /\ Connected(b) =>
              IsToLearn(b) \/ requests[b] = <<LeaveRequest>>
        /\ groups[b] \in GroupIds /\ requests[b] = <<LeaveRequest>> => LeaveLine \in Lines(Current(b))

GreetersRun == \A p \in greeting : p[1] \in running

PacedInv ==
    OneRequest /\ LinesAreCurrent /\ HailsAreRemembered /\ ViewIsRight /\ GreetersRun /\ GreetedOnce

-----------------------------------------------------------------------------
\* Commands at any pace, as long as no bot leaves.

\* A later line of p tells that b is in its group.
LearnsAfter(p, i, b) == \E j \in DOMAIN output[p] : i < j /\ Lists(output[p][j], b)

\* Bot b has asked to leave its group.
WantsToLeave(b) == \E k \in DOMAIN requests[b] : requests[b][k] = LeaveRequest

\* Whatever may hide that a bot is in a group is followed by the news that it is.
LineIsHarmless(p, i) ==
    LET line == output[p][i]
    IN  /\ p = Current(p[1])
        /\ line.type = "GroupInfo" =>
              /\ p[1] \in line.names
              /\ \A b \in Bots :
                    /\ b \in line.names => GroupOf(groupData, b) = line.group
                    /\ Shares(b) /\ GroupOf(groupData, b) = line.group /\ b \notin line.names => LearnsAfter(p, i, b)
        /\ line.type = "GroupDisbandInfo" => line.name \notin Bots
        /\ line = LeaveLine /\ Shares(p[1]) => LearnsAfter(p, i, p[1]) \/ WantsToLeave(p[1])

UndisturbedInv ==
    /\ \A b \in Bots : Connected(b)
    /\ \A p \in Processes : \A i \in DOMAIN output[p] : LineIsHarmless(p, i)
    /\ \A b \in Bots :
          /\ groups[b] \in GroupIds => groups[b] = GroupOf(groupData, b)
          /\ groups[b] \notin GroupIds /\ Shares(b) => IsToLearn(b) \/ WantsToLeave(b)

ControllerInv == Common /\ (paced => PacedInv) /\ (Undisturbed => UndisturbedInv)

-----------------------------------------------------------------------------
\* Groups as sets of names.

\* What the vector of members says in terms of names.
LEMMA GroupsAsNames ==
    ASSUME NEW data, WellFormed(data)
    PROVE  /\ \A n \in Names : GroupOf(data, n) \in GroupIds \cup {NoGroup}
           /\ \A g \in GroupIds : NamesOf(data, g) = InGroup(data, g)
           /\ \A g : g \in GetUniqueGroupIds(data) <=>
                 g \in GroupIds /\ \E n \in Names : GroupOf(data, n) = g
<1>1. \A n \in Names : GroupOf(data, n) \in GroupIds \cup {NoGroup}
  BY LookupTypes
<1>2. \A g \in GroupIds : NamesOf(data, g) = InGroup(data, g)
  BY MembersAreEntries DEF NamesOf
<1>3. \A i \in DOMAIN data : /\ data[i].name \in Names /\ data[i].groupId \in GroupIds
                             /\ GroupOf(data, data[i].name) = data[i].groupId
  <2> SUFFICES ASSUME NEW i \in DOMAIN data
               PROVE  /\ data[i].name \in Names /\ data[i].groupId \in GroupIds
                      /\ GroupOf(data, data[i].name) = data[i].groupId
    OBVIOUS
  <2>1. data[i] \in GroupMember
    BY ElementOfSeq DEF WellFormed
  <2> QED BY <2>1, GroupOfProperties DEF GroupMember
<1>4. ASSUME NEW g \in GroupIds, NEW n \in Names, GroupOf(data, n) = g
      PROVE  g \in GetUniqueGroupIds(data)
  <2>1. PICK i \in DOMAIN data : data[i].name = n
    BY <1>4, GroupOfProperties, GroupIdsAssumption
  <2> QED BY <1>3, <1>4, <2>1 DEF GetUniqueGroupIds
<1> QED BY <1>1, <1>2, <1>3, <1>4 DEF GetUniqueGroupIds

\* A group with at most one member has no two, and one with others more than one.
LEMMA CountOfOne ==
    ASSUME NEW data, WellFormed(data), NEW n \in Names, GroupOf(data, n) # NoGroup
    PROVE  LET g == GroupOf(data, n)
           IN  /\ MemberCount(data, g) <= 1 => InGroup(data, g) = {n} /\ MemberCount(data, g) = 1
               /\ InGroup(data, g) = {n} => MemberCount(data, g) = 1
<1> DEFINE g == GroupOf(data, n)
           S == InGroup(data, g)
<1>1. g \in GroupIds
  BY GroupsAsNames
<1>2. IsFiniteSet(S) /\ Cardinality(S) = MemberCount(data, g) /\ Cardinality(S) \in Nat
  BY <1>1, MembersAreEntries
<1>3. n \in S
  BY DEF InGroup
<1> HIDE DEF S
<1>4. IsFiniteSet(S \ {n}) /\ Cardinality(S \ {n}) = Cardinality(S) - 1 /\ Cardinality(S \ {n}) \in Nat
  BY <1>2, <1>3, FS_RemoveElement, FS_CardinalityType
<1>5. Cardinality(S) <= 1 => S \ {n} = {} /\ Cardinality(S) = 1
  BY <1>2, <1>4, FS_EmptySet, SMT
<1>6. S = {n} => Cardinality(S) = 1
  BY FS_Singleton
<1> QED BY <1>2, <1>3, <1>5, <1>6 DEF S

\* Where everybody is after n has gone into g, or out of its group if that is none.
Goes(n, g) ==
    /\ WellFormed(groupData')
    /\ \A m \in Names : GroupOf(groupData', m) = IF m = n THEN g ELSE GroupOf(groupData, m)

\* What the bots of a group are told, each that is connected.
Told(g, new) == output' = Printed(InGroup(groupData', g) \cap Bots, new)
NewRoster(g) == RosterLine(g, InGroup(groupData', g))
TellsRoster(g) == <<NewRoster(g)>>
TellsDeparture(n, g) == <<DepartureLine(n), NewRoster(g)>>

\* A join puts a character that is alone, or in no group, into the group of another
\* one, and everybody in it is told; or nothing happens.
LEMMA JoinedFacts ==
    ASSUME WellFormed(groupData), invites \subseteq GroupInvite,
           NEW n \in Names, NEW leader \in Names, Joined(n, leader)
    PROVE  \/ UNCHANGED <<groupData, invites, output, departed>>
           \/ LET g == GroupOf(groupData, leader)
              IN  /\ g \in GroupIds /\ g # GroupOf(groupData, n) /\ leader # n
                  /\ \A m \in Names \ {n} : GroupOf(groupData, m) = GroupOf(groupData, n)
                                              => GroupOf(groupData, n) = NoGroup
                  /\ Goes(n, g) /\ Told(g, TellsRoster(g))
                  /\ invites' \subseteq GroupInvite
                  /\ departed' = IF GroupOf(groupData, n) = NoGroup THEN departed ELSE departed \cup {n}
<1> DEFINE g == GroupOf(groupData, leader)
           own == GroupOf(groupData, n)
           left == GroupDisband(groupData, n)
           cancelled == GroupDisbandInvites(groupData, invites, n)
<1>1. CASE ~CanJoin(n, leader)
  BY <1>1 DEF Joined
<1>2. CASE CanJoin(n, leader)
  <2>1. /\ g # NoGroup /\ g # own /\ leader # n
        /\ MemberCount(groupData, g) < MyMaxGroupMembers
        /\ MemberCount(groupData, own) <= 1
    BY <1>2 DEF CanJoin
  <2>2. g \in GroupIds
    BY <2>1, GroupsAsNames
  <2>3. \A m \in Names \ {n} : GroupOf(groupData, m) = own => own = NoGroup
    BY <2>1, CountOfOne DEF InGroup
  <2>4. CASE own = NoGroup
    <3>1. /\ groupData' = GroupJoin(groupData, n, leader)
          /\ invites' = RemoveInvite(invites, leader, n)
          /\ Update(groupData', g) /\ departed' = departed
      BY <1>2, <2>4 DEF Joined
    <3>2. GroupJoinAccepted(groupData, n, leader)
      BY <2>1, <2>4 DEF GroupJoinAccepted
    <3>3. Goes(n, g)
      BY <3>1, <3>2, JoinMoves DEF Moved, Goes
    <3>4. Told(g, TellsRoster(g))
      BY <2>2, <3>1, <3>3, GroupsAsNames DEF Goes, Update, Told, TellsRoster, NewRoster
    <3>5. invites' \subseteq GroupInvite
      BY <3>1 DEF RemoveInvite
    <3> QED BY <2>1, <2>2, <2>3, <2>4, <3>1, <3>3, <3>4, <3>5
  <2>5. CASE own # NoGroup
    <3>1. MemberCount(groupData, own) = 1
      BY <2>1, <2>5, CountOfOne
    <3>2. /\ GroupOf(left, leader) = g
          /\ Moved(groupData, GroupJoin(left, n, leader), n, g, TRUE)
      BY <2>1, <2>5, <3>1, SoloMoves
    <3>3. /\ groupData' = GroupJoin(left, n, leader)
          /\ invites' = RemoveInvite(cancelled, leader, n)
          /\ Update(groupData', GroupOf(left, leader)) /\ departed' = departed \cup {n}
      BY <1>2, <2>5 DEF Joined
    <3>4. Goes(n, g)
      BY <3>2, <3>3 DEF Moved, Goes
    <3>5. Told(g, TellsRoster(g))
      BY <2>2, <3>2, <3>3, <3>4, GroupsAsNames DEF Goes, Update, Told, TellsRoster, NewRoster
    <3>6. invites' \subseteq GroupInvite
      BY <3>3 DEF RemoveInvite, GroupDisbandInvites
    <3> QED BY <2>1, <2>2, <2>3, <2>5, <3>3, <3>4, <3>5, <3>6
  <2> QED BY <2>4, <2>5
<1> QED BY <1>1, <1>2

\* A departure takes a character out of its group, and who stays is told.
LEMMA LeftFacts ==
    ASSUME WellFormed(groupData), invites \subseteq GroupInvite, NEW n \in Names, Left(n)
    PROVE  \/ GroupOf(groupData, n) = NoGroup /\ UNCHANGED <<groupData, invites, output, hailed, departed>>
           \/ LET g == GroupOf(groupData, n)
              IN  /\ g \in GroupIds /\ Goes(n, NoGroup)
                  /\ Told(g, TellsDeparture(n, g))
                  /\ invites' \subseteq GroupInvite
                  /\ hailed' = [b \in Bots |-> IF b = n THEN NotHailed ELSE hailed[b]]
                  /\ departed' = departed \cup {n}
<1> DEFINE g == GroupOf(groupData, n)
<1>1. CASE g = NoGroup
  BY <1>1 DEF Left
<1>2. CASE g # NoGroup
  <2>1. g \in GroupIds
    BY <1>2, GroupsAsNames
  <2>2. /\ groupData' = GroupDisband(groupData, n)
        /\ invites' = GroupDisbandInvites(groupData, invites, n)
        /\ output' = Printed(NamesOf(groupData', g) \cap Bots,
                             <<DepartureLine(n), RosterLine(g, NamesOf(groupData', g))>>)
        /\ hailed' = [b \in Bots |-> IF b = n THEN NotHailed ELSE hailed[b]]
        /\ departed' = departed \cup {n}
    BY <1>2 DEF Left
  <2>3. Goes(n, NoGroup)
    BY <2>2, DisbandMoves DEF Moved, Goes
  <2>4. NamesOf(groupData', g) = InGroup(groupData', g)
    BY <2>1, <2>3, GroupsAsNames DEF Goes
  <2>5. invites' \subseteq GroupInvite
    BY <2>2 DEF GroupDisbandInvites
  <2> QED BY <2>1, <2>2, <2>3, <2>4, <2>5 DEF Told, TellsDeparture, NewRoster
<1> QED BY <1>1, <1>2

\* An invitation moves nobody but a founder.
LEMMA InviteFacts ==
    ASSUME Common, NEW leader \in Names, NEW member \in Names, NEW g \in GroupIds,
           Invite(leader, member, g)
    PROVE  /\ \/ UNCHANGED groupData
              \/ GroupOf(groupData, leader) = NoGroup /\ g \notin founded /\ Goes(leader, g)
           /\ WellFormed(groupData') /\ founded' = founded \cup {g}
           /\ invites' \subseteq GroupInvite
<1>1. g \notin founded => g \notin GetUniqueGroupIds(groupData)
  BY DEF Common, GroupsFounded
<1>2. invites' \subseteq GroupInvite
  <2>1. AddInvite(invites, leader, member) \subseteq GroupInvite
    BY LimitsAssumption, SMT DEF AddInvite, GroupInvite, Common, TypeOK
  <2> QED BY <2>1 DEF Invite, Common, TypeOK
<1>3. CASE GroupStartAccepted(groupData, leader)
  <2>1. g \notin founded /\ groupData' = GroupStartGroup(groupData, leader, g)
    BY <1>3 DEF Invite
  <2>2. Goes(leader, g)
    BY <1>1, <1>3, <2>1, StartMoves DEF Common, Moved, Goes
  <2> QED BY <1>2, <1>3, <2>1, <2>2 DEF Invite, GroupStartAccepted, Goes
<1>4. CASE ~GroupStartAccepted(groupData, leader)
  BY <1>2, <1>4 DEF Invite, Common
<1> QED BY <1>3, <1>4

-----------------------------------------------------------------------------
\* Lines.

\* A process is one of a bot, and a bot is a character.
LEMMA ProcessesOfBots ==
    /\ \A p \in Processes : p[1] \in Bots /\ p[2] \in 1 .. MaxProcesses /\ p = <<p[1], p[2]>>
    /\ Bots \subseteq Names
  BY ControllerAssumption DEF Processes

\* The current process of a bot is one.
LEMMA CurrentOf ==
    ASSUME TypeOK, NEW b \in Bots
    PROVE  Current(b) \in Processes /\ Current(b)[1] = b
  BY DEF TypeOK, Current, Processes

\* The three kinds of lines.
LEMMA KindsOfLines ==
    /\ LeaveLine \in Line /\ LeaveLine.type = "CONTROL SENT leave"
    /\ \A n \in Names : /\ DepartureLine(n) \in Line /\ DepartureLine(n).type = "GroupDisbandInfo"
                        /\ DepartureLine(n).name = n
    /\ \A g \in GroupIds, S \in SUBSET Names :
          /\ RosterLine(g, S) \in Line /\ RosterLine(g, S).type = "GroupInfo"
          /\ RosterLine(g, S).group = g /\ RosterLine(g, S).names = S
    /\ \A line \in Line :
          /\ line.type = "GroupInfo" => line.group \in GroupIds /\ line.names \in SUBSET Names
          /\ line.type = "GroupDisbandInfo" => line.name \in Names
          /\ line.type \notin {"GroupInfo", "GroupDisbandInfo"} => line = LeaveLine
<1>1. LeaveLine \in Line /\ LeaveLine.type = "CONTROL SENT leave"
  BY DEF Line, LeaveLine
<1>2. \A n \in Names : /\ DepartureLine(n) \in Line /\ DepartureLine(n).type = "GroupDisbandInfo"
                       /\ DepartureLine(n).name = n
  BY DEF Line, DepartureLine
<1>3. \A g \in GroupIds, S \in SUBSET Names :
          /\ RosterLine(g, S) \in Line /\ RosterLine(g, S).type = "GroupInfo"
          /\ RosterLine(g, S).group = g /\ RosterLine(g, S).names = S
  BY DEF Line, RosterLine
<1>4. ASSUME NEW line \in Line
      PROVE  /\ line.type = "GroupInfo" => line.group \in GroupIds /\ line.names \in SUBSET Names
             /\ line.type = "GroupDisbandInfo" => line.name \in Names
             /\ line.type \notin {"GroupInfo", "GroupDisbandInfo"} => line = LeaveLine
  <2>1. CASE line \in [type : {"GroupInfo"}, group : GroupIds, names : SUBSET Names]
    BY <2>1
  <2>2. CASE line \in [type : {"GroupDisbandInfo"}, name : Names]
    BY <2>2
  <2>3. CASE line = LeaveLine
    BY <1>1, <2>3
  <2> QED BY <2>1, <2>2, <2>3 DEF Line
<1> QED BY <1>1, <1>2, <1>3, <1>4

\* A single line is a sequence of lines.
LEMMA OneLine ==
    \A x \in Line : <<x>> \in Seq(Line) /\ {<<x>>[i] : i \in DOMAIN <<x>>} = {x}
  OBVIOUS

\* Every line of a process is one.
LEMMA LinesAreLines ==
    ASSUME TypeOK, NEW p \in Processes
    PROVE  output[p] \in Seq(Line) /\ \A line \in Lines(p) : line \in Line
<1>1. output[p] \in Seq(Line)
  BY DEF TypeOK
<1> QED BY <1>1, ElementOfSeq DEF Lines

\* The processes of R print these lines, and no other process prints any.
Extends(R, new) ==
    /\ output' \in [Processes -> Seq(Line)]
    /\ \A p \in Processes : output'[p] = IF p \in R THEN output[p] \o new ELSE output[p]
    /\ \A p \in Processes : Lines(p)' = IF p \in R THEN Lines(p) \cup {new[i] : i \in DOMAIN new}
                                                   ELSE Lines(p)

\* Printing adds the new lines behind the old ones.
LEMMA PrintedLines ==
    ASSUME TypeOK, NEW R, NEW new \in Seq(Line), output' = [p \in Processes |-> output'[p]],
           \A p \in Processes : output'[p] = IF p \in R THEN output[p] \o new ELSE output[p]
    PROVE  Extends(R, new)
<1> SUFFICES ASSUME NEW p \in Processes
             PROVE  /\ output'[p] \in Seq(Line)
                    /\ Lines(p)' = IF p \in R THEN Lines(p) \cup {new[i] : i \in DOMAIN new} ELSE Lines(p)
  BY DEF Extends
<1>1. output[p] \in Seq(Line)
  BY DEF TypeOK
<1>2. /\ output[p] \o new \in Seq(Line)
      /\ {(output[p] \o new)[i] : i \in DOMAIN (output[p] \o new)}
            = {output[p][i] : i \in DOMAIN output[p]} \cup {new[i] : i \in DOMAIN new}
  <2> DEFINE old == output[p]
             all == old \o new
  <2>1. /\ all \in Seq(Line) /\ Len(all) = Len(old) + Len(new)
        /\ \A i \in 1 .. Len(old) + Len(new) : all[i] = IF i <= Len(old) THEN old[i] ELSE new[i - Len(old)]
    BY <1>1, ConcatProperties
  <2>2. /\ Len(old) \in Nat /\ Len(new) \in Nat
        /\ DOMAIN all = 1 .. Len(all) /\ DOMAIN old = 1 .. Len(old) /\ DOMAIN new = 1 .. Len(new)
    BY <1>1, <2>1, LenProperties
  <2> HIDE DEF old, all
  <2>3. ASSUME NEW i \in DOMAIN all
        PROVE  all[i] \in {old[j] : j \in DOMAIN old} \cup {new[j] : j \in DOMAIN new}
    <3>1. CASE i <= Len(old)
      <4>1. i \in DOMAIN old /\ all[i] = old[i]
        BY <2>1, <2>2, <2>3, <3>1, SMT
      <4> QED BY <4>1
    <3>2. CASE ~(i <= Len(old))
      <4>1. i - Len(old) \in DOMAIN new /\ all[i] = new[i - Len(old)]
        BY <2>1, <2>2, <2>3, <3>2, SMT
      <4> QED BY <4>1
    <3> QED BY <3>1, <3>2
  <2>4. ASSUME NEW j \in DOMAIN old
        PROVE  \E i \in DOMAIN all : all[i] = old[j]
    BY <2>1, <2>2, <2>4, SMT
  <2>5. ASSUME NEW j \in DOMAIN new
        PROVE  \E i \in DOMAIN all : all[i] = new[j]
    <3>1. j + Len(old) \in DOMAIN all /\ all[j + Len(old)] = new[j]
      BY <2>1, <2>2, <2>5, SMT
    <3> QED BY <3>1
  <2>6. {all[i] : i \in DOMAIN all} = {old[j] : j \in DOMAIN old} \cup {new[j] : j \in DOMAIN new}
    BY <2>3, <2>4, <2>5
  <2> QED BY <2>1, <2>6 DEF old, all
<1>3. CASE p \in R
  BY <1>2, <1>3 DEF Lines
<1>4. CASE p \notin R
  BY <1>1, <1>4 DEF Lines
<1> QED BY <1>3, <1>4

\* Reading takes the oldest line of one process away.
LEMMA ReadLines ==
    ASSUME TypeOK, NEW p \in Processes, output[p] # <<>>, output' = [output EXCEPT ![p] = Tail(@)]
    PROVE  /\ output' \in [Processes -> Seq(Line)]
           /\ Head(output[p]) \in Lines(p) /\ Head(output[p]) \in Line /\ Head(output[p]) = output[p][1]
           /\ Lines(p) = Lines(p)' \cup {Head(output[p])}
           /\ DOMAIN output[p]' = 1 .. Len(output[p]) - 1 /\ DOMAIN output[p] = 1 .. Len(output[p])
           /\ \A i \in DOMAIN output[p]' : output[p]'[i] = output[p][i + 1]
           /\ \A q \in Processes \ {p} : output[q]' = output[q] /\ Lines(q)' = Lines(q)
<1> DEFINE old == output[p]
           new == Tail(old)
<1>1. old \in Seq(Line)
  BY DEF TypeOK
<1>2. /\ new \in Seq(Line) /\ Head(old) = old[1] /\ Head(old) \in Line
      /\ Len(new) = Len(old) - 1 /\ \A i \in 1 .. Len(new) : new[i] = old[i + 1]
      /\ DOMAIN new = 1 .. Len(new) /\ DOMAIN old = 1 .. Len(old) /\ Len(old) \in Nat /\ Len(old) > 0
  <2>1. Len(old) \in Nat /\ DOMAIN old = 1 .. Len(old) /\ Len(old) # 0
    BY <1>1, LenProperties, EmptySeq
  <2>2. Head(old) = old[1] /\ new \in Seq(Line) /\ Len(new) = Len(old) - 1
        /\ \A i \in 1 .. Len(new) : new[i] = old[i + 1]
    BY <1>1, <2>1, HeadTailProperties
  <2>3. DOMAIN new = 1 .. Len(new)
    BY <2>2, LenProperties
  <2>4. old[1] \in Line
    BY <1>1, <2>1, ElementOfSeq, SMT
  <2> QED BY <2>1, <2>2, <2>3, <2>4, SMT
<1>3. output'[p] = new /\ \A q \in Processes \ {p} : output'[q] = output[q]
  BY DEF TypeOK
<1>4. output' \in [Processes -> Seq(Line)]
  BY <1>2 DEF TypeOK
<1> HIDE DEF new, old
<1>5. {old[i] : i \in DOMAIN old} = {new[i] : i \in DOMAIN new} \cup {Head(old)}
  <2>1. ASSUME NEW i \in DOMAIN old PROVE old[i] = Head(old) \/ \E j \in DOMAIN new : new[j] = old[i]
    <3>1. i # 1 => i - 1 \in DOMAIN new /\ new[i - 1] = old[i]
      BY <1>2, <2>1, SMT
    <3> QED BY <1>2, <3>1
  <2>2. ASSUME NEW j \in DOMAIN new PROVE \E i \in DOMAIN old : old[i] = new[j]
    <3>1. j + 1 \in DOMAIN old
      BY <1>2, <2>2, SMT
    <3> QED BY <1>2, <3>1
  <2>3. 1 \in DOMAIN old
    BY <1>2, SMT
  <2> QED BY <1>2, <2>1, <2>2, <2>3
<1>6. Lines(p)' = {new[i] : i \in DOMAIN new} /\ Lines(p) = {old[i] : i \in DOMAIN old}
  BY <1>3 DEF Lines, old
<1>7. \A q \in Processes \ {p} : Lines(q)' = Lines(q)
  BY <1>3 DEF Lines
<1>8. Head(old) \in Lines(p)
  BY <1>5, <1>6
<1> QED BY <1>2, <1>3, <1>4, <1>5, <1>6, <1>7, <1>8 DEF old

\* Everybody in group g who is connected when the step is done.
Hearers(g) == {p \in Processes : /\ GroupOf(groupData', p[1]) = g
                                 /\ Connected(p[1])' /\ p = Current(p[1])}

\* What a roster, and a departure with a roster, add.
LEMMA NewLines ==
    ASSUME NEW g \in GroupIds, NEW n \in Names
    PROVE  /\ NewRoster(g) \in Line /\ NewRoster(g).type = "GroupInfo" /\ NewRoster(g).group = g
           /\ NewRoster(g).names = InGroup(groupData', g)
           /\ TellsRoster(g) \in Seq(Line) /\ TellsDeparture(n, g) \in Seq(Line)
           /\ {TellsRoster(g)[i] : i \in DOMAIN TellsRoster(g)} = {NewRoster(g)}
           /\ {TellsDeparture(n, g)[i] : i \in DOMAIN TellsDeparture(n, g)} = {DepartureLine(n), NewRoster(g)}
<1>1. /\ NewRoster(g) \in Line /\ NewRoster(g).type = "GroupInfo" /\ NewRoster(g).group = g
      /\ NewRoster(g).names = InGroup(groupData', g)
  <2> DEFINE S == InGroup(groupData', g)
  <2>1. S \in SUBSET Names
    BY DEF InGroup
  <2> HIDE DEF S
  <2>2. \A T \in SUBSET Names :
           /\ RosterLine(g, T) \in Line /\ RosterLine(g, T).type = "GroupInfo"
           /\ RosterLine(g, T).group = g /\ RosterLine(g, T).names = T
    BY KindsOfLines
  <2>3. /\ RosterLine(g, S) \in Line /\ RosterLine(g, S).type = "GroupInfo"
        /\ RosterLine(g, S).group = g /\ RosterLine(g, S).names = S
    BY <2>1, <2>2
  <2> QED BY <2>3 DEF S, NewRoster
<1>2. DepartureLine(n) \in Line
  BY KindsOfLines
<1>3. \A x, y \in Line : /\ <<x>> \in Seq(Line) /\ <<x, y>> \in Seq(Line)
                         /\ {<<x>>[i] : i \in DOMAIN <<x>>} = {x}
  OBVIOUS
<1>4. \A x, y \in Line : {<<x, y>>[i] : i \in DOMAIN <<x, y>>} = {x, y}
  <2> SUFFICES ASSUME NEW x \in Line, NEW y \in Line
               PROVE  {<<x, y>>[i] : i \in DOMAIN <<x, y>>} = {x, y}
    OBVIOUS
  <2>1. DOMAIN <<x, y>> = {1, 2} /\ <<x, y>>[1] = x /\ <<x, y>>[2] = y
    BY SMT
  <2> QED BY <2>1
<1> QED BY <1>1, <1>2, <1>3, <1>4 DEF TellsRoster, TellsDeparture

\* What is told to a group is printed by the current processes of its bots.
LEMMA ToldExtends ==
    ASSUME TypeOK, NEW g, NEW new \in Seq(Line), Told(g, new),
           \A b \in Bots : Connected(b)' = Connected(b)
    PROVE  Extends(Hearers(g), new)
<1>1. \A p \in Processes : p \in Hearers(g) <=>
         p[1] \in InGroup(groupData', g) \cap Bots /\ Connected(p[1]) /\ p = Current(p[1])
  BY ProcessesOfBots DEF Hearers, InGroup
<1> DEFINE R == InGroup(groupData', g) \cap Bots
<1>2. output' = Printed(R, new)
  BY DEF Told
<1> HIDE DEF R
<1>3. \A p \in Processes : p \in Hearers(g) <=> p[1] \in R /\ Connected(p[1]) /\ p = Current(p[1])
  BY <1>1 DEF R
<1> QED BY <1>2, <1>3, PrintedLines DEF Printed

\* A login tells the group of the bot, and the bot itself, what the group is.
LEMMA LoginExtends ==
    ASSUME Common, NEW b \in Bots, Login(b), GroupOf(groupData, b) # NoGroup
    PROVE  LET g == GroupOf(groupData, b)
           IN  g \in GroupIds /\ Extends(Hearers(g), TellsRoster(g))
<1> DEFINE g == GroupOf(groupData, b)
           line == RosterLine(g, NamesOf(groupData, g))
           printed == Printed(NamesOf(groupData, g) \cap Bots, <<line>>)
<1>1. TypeOK /\ WellFormed(groupData) /\ g \in GroupIds /\ b \in Names
  BY GroupsAsNames, ProcessesOfBots DEF Common
<1>2. NamesOf(groupData, g) = InGroup(groupData, g) /\ groupData' = groupData
  BY <1>1, GroupsAsNames DEF Login
<1>3. TellsRoster(g) = <<line>> /\ line \in Line
  BY <1>1, <1>2, KindsOfLines DEF TellsRoster, NewRoster, InGroup
<1>4. output' = [printed EXCEPT ![Current(b)] = Append(@, line)]
  BY DEF Login
<1>5. Current(b) \in Processes /\ Current(b)[1] = b
  BY <1>1, CurrentOf
<1>6. ~Connected(b) /\ session' = [session EXCEPT ![b] = process[b]]
      /\ process' = process /\ running' = running /\ b \in running
  BY DEF Login
<1>7. \A c \in Bots : Connected(c)' <=> Connected(c) \/ c = b
  BY <1>1, <1>6 DEF Connected, TypeOK
<1>8. \A p \in Processes : p \in Hearers(g) <=>
          \/ p[1] \in InGroup(groupData, g) \cap Bots /\ Connected(p[1]) /\ p = Current(p[1])
          \/ p = Current(b)
  BY <1>1, <1>2, <1>5, <1>6, <1>7, ProcessesOfBots DEF Hearers, InGroup, Current
<1>9. \A p \in Processes :
          output'[p] = IF p = Current(b) THEN Append(printed[p], line) ELSE printed[p]
  BY <1>4 DEF Printed
<1>10. printed[Current(b)] = output[Current(b)]
  BY <1>5, <1>6 DEF Printed
<1>11. \A p \in Processes : output[p] \in Seq(Line)
  BY <1>1 DEF TypeOK
<1>12. \A p \in Processes : Append(output[p], line) = output[p] \o <<line>>
  BY <1>3, <1>11, AppendIsConcat
<1>13. \A p \in Processes : output'[p] = IF p \in Hearers(g) THEN output[p] \o <<line>> ELSE output[p]
  <2> SUFFICES ASSUME NEW p \in Processes
               PROVE  output'[p] = IF p \in Hearers(g) THEN output[p] \o <<line>> ELSE output[p]
    OBVIOUS
  <2>1. CASE p = Current(b)
    <3>1. p \in Hearers(g)
      BY <1>8, <2>1
    <3>2. output'[p] = Append(output[p], line)
      BY <1>9, <1>10, <2>1
    <3> QED BY <1>12, <3>1, <3>2
  <2>2. CASE p # Current(b)
    <3>1. output'[p] = printed[p]
      BY <1>9, <2>2
    <3>2. printed[p] = IF p[1] \in InGroup(groupData, g) \cap Bots /\ Connected(p[1]) /\ p = Current(p[1])
                       THEN output[p] \o <<line>> ELSE output[p]
      BY <1>2 DEF Printed
    <3>3. p \in Hearers(g) <=>
              p[1] \in InGroup(groupData, g) \cap Bots /\ Connected(p[1]) /\ p = Current(p[1])
      BY <1>8, <2>2
    <3> HIDE DEF printed
    <3> QED BY <3>1, <3>2, <3>3
  <2> QED BY <2>1, <2>2
<1>14. output' = [p \in Processes |-> output'[p]]
  BY <1>4 DEF Printed
<1>15. <<line>> \in Seq(Line)
  BY <1>3, OneLine
<1> HIDE DEF line
<1>16. Extends(Hearers(g), <<line>>)
  BY <1>1, <1>13, <1>14, <1>15, PrintedLines
<1> QED BY <1>1, <1>3, <1>16

\* A disconnection tells those of its group that are connected.
LEMMA ClosedExtends ==
    ASSUME Common, NEW b \in Bots, Closed(b), GroupOf(groupData, b) # NoGroup
    PROVE  LET g == GroupOf(groupData, b)
           IN  g \in GroupIds /\ Extends(Hearers(g), TellsRoster(g))
<1> DEFINE g == GroupOf(groupData, b)
<1>1. TypeOK /\ WellFormed(groupData) /\ g \in GroupIds /\ b \in Names
  BY GroupsAsNames, ProcessesOfBots DEF Common
<1>2. NamesOf(groupData, g) = InGroup(groupData, g) /\ groupData' = groupData
  BY <1>1, GroupsAsNames DEF Closed
<1>3. Told(g, TellsRoster(g))
  BY <1>2 DEF Closed, Update, Told, TellsRoster, NewRoster
<1>4. process[b] # NoProcess
  BY <1>1, SMT DEF TypeOK, NoProcess
<1>5. \A c \in Bots : Connected(c)' = Connected(c)
  BY <1>1, <1>4 DEF Closed, Connected, TypeOK
<1> QED BY <1>1, <1>3, <1>5, ToldExtends, NewLines

\* A bot prints that it has asked to leave.
LEMMA LeaveExtends ==
    ASSUME TypeOK, NEW b \in Bots, Leave(b)
    PROVE  Extends({Current(b)}, <<LeaveLine>>)
<1>1. Current(b) \in Processes /\ LeaveLine \in Line /\ <<LeaveLine>> \in Seq(Line)
  <2>1. LeaveLine \in Line
    BY KindsOfLines
  <2> QED BY <2>1, CurrentOf, OneLine
<1>2. \A p \in Processes : output[p] \in Seq(Line)
  BY DEF TypeOK
<1>3. \A p \in Processes : Append(output[p], LeaveLine) = output[p] \o <<LeaveLine>>
  BY <1>1, <1>2, AppendIsConcat
<1>4. /\ output' = [p \in Processes |-> output'[p]]
      /\ \A p \in Processes : output'[p] = IF p \in {Current(b)} THEN output[p] \o <<LeaveLine>> ELSE output[p]
  BY <1>1, <1>3 DEF Leave, TypeOK
<1> QED BY <1>1, <1>4, PrintedLines DEF TypeOK

-----------------------------------------------------------------------------
\* The part of the invariant that does not depend on the pace.

\* Groups only become known by being founded.
LEMMA FoundedStays ==
    ASSUME Common, NEW n \in Names, NEW g, Goes(n, g), founded \subseteq founded', g \in founded' \cup {NoGroup}
    PROVE  GetUniqueGroupIds(groupData') \subseteq founded'
<1> SUFFICES ASSUME NEW h \in GetUniqueGroupIds(groupData')
             PROVE  h \in founded'
  OBVIOUS
<1>1. PICK m \in Names : GroupOf(groupData', m) = h /\ h \in GroupIds
  BY GroupsAsNames DEF Goes
<1>2. m # n => h \in GetUniqueGroupIds(groupData)
  BY <1>1, GroupsAsNames DEF Goes, Common
<1> QED BY <1>1, <1>2, GroupIdsAssumption DEF Goes, Common, GroupsFounded

\* The group of a character has been founded.
LEMMA GroupsAreFounded ==
    ASSUME Common, NEW n \in Names, GroupOf(groupData, n) # NoGroup
    PROVE  GroupOf(groupData, n) \in GroupIds /\ GroupOf(groupData, n) \in founded
  BY GroupsAsNames DEF Common, GroupsFounded

\* The head of the requests of a bot, and what is left of them.
LEMMA RequestTypes ==
    ASSUME TypeOK, NEW b \in Bots
    PROVE  /\ requests[b] \in Seq(Request)
           /\ requests[b] # <<>> => Head(requests[b]) \in Request /\ Tail(requests[b]) \in Seq(Request)
           /\ \A r \in Request : Append(requests[b], r) \in Seq(Request)
           /\ LeaveRequest \in Request /\ \A n \in Names : JoinRequest(n) \in Request
           /\ \A r \in Request : /\ r.type = "GroupJoin" => r.leaderName \in Names /\ r # LeaveRequest
                                 /\ r.type = "GroupDisband" => r = LeaveRequest
<1>1. requests[b] \in Seq(Request)
  BY DEF TypeOK
<1>2. requests[b] # <<>> => Head(requests[b]) \in Request /\ Tail(requests[b]) \in Seq(Request)
  BY <1>1, HeadTailProperties
<1>3. \A r \in Request : Append(requests[b], r) \in Seq(Request)
  BY <1>1, AppendProperties
<1>4. LeaveRequest \in Request /\ \A n \in Names : JoinRequest(n) \in Request
  BY DEF Request, JoinRequest
<1>5. \A r \in Request : /\ r.type = "GroupJoin" => r.leaderName \in Names /\ r # LeaveRequest
                         /\ r.type = "GroupDisband" => r = LeaveRequest
  BY DEF Request, LeaveRequest
<1> QED BY <1>1, <1>2, <1>3, <1>4, <1>5

\* A message of the server keeps the lines what they are.
LEMMA ToldCommon ==
    ASSUME Common, NEW R, NEW new \in Seq(Line), Extends(R, new), founded \subseteq founded',
           \A i \in DOMAIN new : new[i].type = "GroupInfo" => new[i].group \in founded'
    PROVE  output' \in [Processes -> Seq(Line)] /\ LinesFounded'
<1> SUFFICES ASSUME NEW p \in Processes, NEW line \in Lines(p)', line.type = "GroupInfo"
             PROVE  line.group \in founded'
  BY DEF Extends, LinesFounded
<1>1. line \in Lines(p) \/ \E i \in DOMAIN new : line = new[i]
  BY DEF Extends
<1> QED BY <1>1 DEF Common, LinesFounded

\* The common part, action by action: a join.
LEMMA JoinedCommon ==
    ASSUME Common, NEW n \in Names, NEW leader \in Names, Joined(n, leader),
           UNCHANGED <<session, process, running, founded>>
    PROVE  /\ groupData' \in Seq(GroupMember) /\ invites' \subseteq GroupInvite
           /\ output' \in [Processes -> Seq(Line)] /\ departed' \subseteq Names
           /\ WellFormed(groupData') /\ GroupsFounded' /\ LinesFounded'
<1> DEFINE g == GroupOf(groupData, leader)
<1>1. CASE UNCHANGED <<groupData, invites, output, departed>>
  BY <1>1 DEF Common, TypeOK, GroupsFounded, LinesFounded, Lines
<1>2. CASE /\ g \in GroupIds /\ Goes(n, g) /\ Told(g, TellsRoster(g))
           /\ invites' \subseteq GroupInvite
           /\ departed' = IF GroupOf(groupData, n) = NoGroup THEN departed ELSE departed \cup {n}
  <2>1. g \in founded
    BY <1>2, GroupsAreFounded, GroupIdsAssumption
  <2>2. GroupsFounded'
    BY <1>2, <2>1, FoundedStays DEF GroupsFounded
  <2>3. Extends(Hearers(g), TellsRoster(g))
    <3>1. \A b \in Bots : Connected(b)' = Connected(b)
      BY DEF Connected
    <3> QED BY <1>2, <3>1, ToldExtends, NewLines DEF Common
  <2>4. \A i \in DOMAIN TellsRoster(g) : TellsRoster(g)[i].group = g
    <3>1. \A i \in DOMAIN TellsRoster(g) : TellsRoster(g)[i] = NewRoster(g)
      BY DEF TellsRoster
    <3> QED BY <1>2, <3>1, NewLines
  <2>5. output' \in [Processes -> Seq(Line)] /\ LinesFounded'
    BY <1>2, <2>1, <2>3, <2>4, NewLines, ToldCommon
  <2> QED BY <1>2, <2>2, <2>5 DEF Common, TypeOK, Goes, WellFormed
<1> QED BY <1>1, <1>2, JoinedFacts DEF Common, TypeOK

\* A departure.
LEMMA LeftCommon ==
    ASSUME Common, NEW n \in Names, Left(n), UNCHANGED <<session, process, running, founded>>
    PROVE  /\ groupData' \in Seq(GroupMember) /\ invites' \subseteq GroupInvite
           /\ output' \in [Processes -> Seq(Line)] /\ departed' \subseteq Names
           /\ hailed' \in [Bots -> [group : GroupIds \cup {NoGroup}, times : 0 .. 2]]
           /\ \A b \in Bots : hailed'[b].group \in founded \cup {NoGroup}
           /\ WellFormed(groupData') /\ GroupsFounded' /\ LinesFounded'
<1> DEFINE g == GroupOf(groupData, n)
           new == TellsDeparture(n, g)
<1>1. CASE UNCHANGED <<groupData, invites, output, hailed, departed>>
  BY <1>1 DEF Common, TypeOK, GroupsFounded, ViewFounded, LinesFounded, Lines
<1>2. CASE /\ g \in GroupIds /\ Goes(n, NoGroup) /\ Told(g, new)
           /\ invites' \subseteq GroupInvite
           /\ hailed' = [b \in Bots |-> IF b = n THEN NotHailed ELSE hailed[b]]
           /\ departed' = departed \cup {n}
  <2>1. g \in founded
    BY <1>2, GroupsAreFounded, GroupIdsAssumption
  <2>2. GroupsFounded'
    BY <1>2, FoundedStays DEF GroupsFounded
  <2>3. /\ new \in Seq(Line)
        /\ \A i \in DOMAIN new : new[i].type = "GroupInfo" => new[i].group = g
    <3>1. \A i \in DOMAIN new : new[i] \in {DepartureLine(n), NewRoster(g)}
      BY DEF TellsDeparture
    <3>2. DepartureLine(n).type # "GroupInfo"
      BY DEF DepartureLine
    <3>3. NewRoster(g).group = g /\ new \in Seq(Line)
      BY <1>2, NewLines
    <3> QED BY <3>1, <3>2, <3>3
  <2>4. Extends(Hearers(g), new)
    <3>1. \A b \in Bots : Connected(b)' = Connected(b)
      BY DEF Connected
    <3> QED BY <1>2, <2>3, <3>1, ToldExtends DEF Common
  <2>5. output' \in [Processes -> Seq(Line)] /\ LinesFounded'
    BY <1>2, <2>1, <2>3, <2>4, ToldCommon
  <2>6. /\ hailed' \in [Bots -> [group : GroupIds \cup {NoGroup}, times : 0 .. 2]]
        /\ \A b \in Bots : hailed'[b].group \in founded \cup {NoGroup}
    BY <1>2 DEF Common, TypeOK, ViewFounded, NotHailed
  <2> QED BY <1>2, <2>2, <2>5, <2>6 DEF Common, TypeOK, Goes, WellFormed
<1> QED BY <1>1, <1>2, LeftFacts DEF Common, TypeOK

\* An invitation.
LEMMA InviteCommon ==
    ASSUME Common, NEW leader \in Names, NEW member \in Names, NEW g \in GroupIds,
           Invite(leader, member, g)
    PROVE  Common'
<1>1. WellFormed(groupData') /\ founded' = founded \cup {g} /\ invites' \subseteq GroupInvite
  BY InviteFacts
<1>2. GroupsFounded'
  <2>1. CASE UNCHANGED groupData
    BY <1>1, <2>1 DEF Common, GroupsFounded
  <2>2. CASE Goes(leader, g)
    BY <1>1, <2>2, FoundedStays DEF GroupsFounded
  <2> QED BY <2>1, <2>2, InviteFacts
<1>3. requests' \in [Bots -> Seq(Request)]
  <2> DEFINE asks(b) == GroupInviteAccepted(groupData', member, leader) /\ b = member /\ Connected(b)
  <2>1. \A b \in Bots : requests[b] \in Seq(Request) /\ Append(requests[b], JoinRequest(leader)) \in Seq(Request)
    BY RequestTypes DEF Common
  <2>2. requests' = [b \in Bots |-> IF asks(b) THEN Append(requests[b], JoinRequest(leader)) ELSE requests[b]]
    BY DEF Invite
  <2> HIDE DEF asks
  <2> QED BY <2>1, <2>2
<1>4. TypeOK'
  BY <1>1, <1>3 DEF Common, TypeOK, WellFormed, Invite, Command, view
<1>5. ViewFounded' /\ LinesFounded'
  BY <1>1 DEF Common, ViewFounded, LinesFounded, Lines, Invite, view
<1> QED BY <1>1, <1>2, <1>4, <1>5 DEF Common

\* A game client joins.
LEMMA JoinsCommon ==
    ASSUME Common, NEW v \in invites, ClientJoins(v)
    PROVE  Common'
<1>1. v.memberName \in Names /\ v.leaderName \in Names
  BY DEF Common, TypeOK, GroupInvite
<1>2. Joined(v.memberName, v.leaderName) /\ UNCHANGED <<session, process, running, founded>>
  BY DEF ClientJoins
<1>3. /\ groupData' \in Seq(GroupMember) /\ invites' \subseteq GroupInvite
      /\ output' \in [Processes -> Seq(Line)] /\ departed' \subseteq Names
      /\ WellFormed(groupData') /\ GroupsFounded' /\ LinesFounded'
  BY <1>1, <1>2, JoinedCommon
<1>4. TypeOK' /\ ViewFounded'
  BY <1>3 DEF Common, TypeOK, ViewFounded, ClientJoins, view
<1> QED BY <1>3, <1>4 DEF Common

\* A game client leaves.
LEMMA LeavesCommon ==
    ASSUME Common, NEW n \in Names, ClientLeaves(n)
    PROVE  Common'
<1>1. Left(n) /\ UNCHANGED <<session, process, running, founded>>
  BY DEF ClientLeaves
<1>2. /\ groupData' \in Seq(GroupMember) /\ invites' \subseteq GroupInvite
      /\ output' \in [Processes -> Seq(Line)] /\ departed' \subseteq Names
      /\ hailed' \in [Bots -> [group : GroupIds \cup {NoGroup}, times : 0 .. 2]]
      /\ \A b \in Bots : hailed'[b].group \in founded \cup {NoGroup}
      /\ WellFormed(groupData') /\ GroupsFounded' /\ LinesFounded'
  BY <1>1, LeftCommon
<1>3. TypeOK' /\ ViewFounded'
  BY <1>2 DEF Common, TypeOK, ViewFounded, ClientLeaves, Command
<1> QED BY <1>2, <1>3 DEF Common

\* A bot's request arrives.
LEMMA ArrivesCommon ==
    ASSUME Common, NEW b \in Bots, Arrives(b)
    PROVE  Common'
<1>1. b \in Names /\ Head(requests[b]) \in Request /\ Tail(requests[b]) \in Seq(Request)
  BY RequestTypes, ProcessesOfBots DEF Common, Arrives
<1>2. requests' \in [Bots -> Seq(Request)]
  BY <1>1 DEF Common, TypeOK, Arrives
<1>3. UNCHANGED <<session, process, running, founded>>
  BY DEF Arrives
<1>4. /\ groupData' \in Seq(GroupMember) /\ invites' \subseteq GroupInvite
      /\ output' \in [Processes -> Seq(Line)] /\ departed' \subseteq Names
      /\ hailed' \in [Bots -> [group : GroupIds \cup {NoGroup}, times : 0 .. 2]]
      /\ \A c \in Bots : hailed'[c].group \in founded \cup {NoGroup}
      /\ WellFormed(groupData') /\ GroupsFounded' /\ LinesFounded'
  <2>1. CASE Head(requests[b]).type = "GroupJoin" /\ Joined(b, Head(requests[b]).leaderName) /\ UNCHANGED hailed
    <3>1. Head(requests[b]).leaderName \in Names
      BY <1>1, <2>1, RequestTypes DEF Common
    <3>2. hailed' \in [Bots -> [group : GroupIds \cup {NoGroup}, times : 0 .. 2]]
          /\ \A c \in Bots : hailed'[c].group \in founded \cup {NoGroup}
      BY <2>1 DEF Common, TypeOK, ViewFounded
    <3> QED BY <1>1, <1>3, <2>1, <3>1, <3>2, JoinedCommon
  <2>2. CASE Left(b)
    BY <1>1, <1>3, <2>2, LeftCommon
  <2> QED BY <2>1, <2>2 DEF Arrives
<1>5. TypeOK'
  BY <1>2, <1>4 DEF Common, TypeOK, Arrives
<1>6. ViewFounded'
  BY <1>3, <1>4 DEF Common, ViewFounded, Arrives
<1> QED BY <1>4, <1>5, <1>6 DEF Common

\* A session ends.
LEMMA ClosedCommon ==
    ASSUME Common, NEW b \in Bots, Closed(b)
    PROVE  Common'
<1> DEFINE g == GroupOf(groupData, b)
<1>1. b \in Names /\ WellFormed(groupData) /\ UNCHANGED <<groupData, founded>>
  BY ProcessesOfBots DEF Common, Closed
<1>2. output' \in [Processes -> Seq(Line)] /\ LinesFounded'
  <2>1. CASE g = NoGroup
    BY <2>1 DEF Closed, Common, TypeOK, LinesFounded, Lines
  <2>2. CASE g # NoGroup
    <3>1. g \in GroupIds /\ g \in founded
      BY <1>1, <2>2, GroupsAreFounded
    <3>2. Extends(Hearers(g), TellsRoster(g))
      BY <2>2, ClosedExtends
    <3>3. TellsRoster(g) \in Seq(Line) /\ TellsRoster(g) = <<NewRoster(g)>> /\ NewRoster(g).group = g
      BY <1>1, <3>1, NewLines DEF TellsRoster
    <3>4. \A i \in DOMAIN TellsRoster(g) : TellsRoster(g)[i].group = g
      BY <3>3
    <3> QED BY <1>1, <3>1, <3>2, <3>3, <3>4, ToldCommon
  <2> QED BY <2>1, <2>2
<1>3. TypeOK'
  <2>1. session' \in [Bots -> 0 .. MaxProcesses]
    BY ControllerAssumption, SMT DEF Common, TypeOK, Closed, NoProcess
  <2> QED BY <1>2, <2>1 DEF Common, TypeOK, Closed, view
<1>4. GroupsFounded' /\ ViewFounded'
  BY <1>1 DEF Common, GroupsFounded, ViewFounded, Closed, view
<1> QED BY <1>1, <1>2, <1>3, <1>4 DEF Common

\* A new process logs in.
LEMMA LoginCommon ==
    ASSUME Common, NEW b \in Bots, Login(b)
    PROVE  Common'
<1> DEFINE g == GroupOf(groupData, b)
<1>1. b \in Names /\ WellFormed(groupData) /\ UNCHANGED <<groupData, founded>>
  BY ProcessesOfBots DEF Common, Login
<1>2. output' \in [Processes -> Seq(Line)] /\ LinesFounded'
  <2>1. CASE g = NoGroup
    BY <2>1 DEF Login, Common, TypeOK, LinesFounded, Lines
  <2>2. CASE g # NoGroup
    <3>1. g \in GroupIds /\ g \in founded
      BY <1>1, <2>2, GroupsAreFounded
    <3>2. Extends(Hearers(g), TellsRoster(g))
      BY <2>2, LoginExtends
    <3>3. TellsRoster(g) \in Seq(Line) /\ TellsRoster(g) = <<NewRoster(g)>> /\ NewRoster(g).group = g
      BY <1>1, <3>1, NewLines DEF TellsRoster
    <3>4. \A i \in DOMAIN TellsRoster(g) : TellsRoster(g)[i].group = g
      BY <3>3
    <3> QED BY <1>1, <3>1, <3>2, <3>3, <3>4, ToldCommon
  <2> QED BY <2>1, <2>2
<1>3. TypeOK'
  <2>1. session' \in [Bots -> 0 .. MaxProcesses]
    BY ControllerAssumption, SMT DEF Common, TypeOK, Login
  <2>2. requests' \in [Bots -> Seq(Request)]
    BY DEF Common, TypeOK, Login
  <2> QED BY <1>2, <2>1, <2>2 DEF Common, TypeOK, Login, view
<1>4. GroupsFounded' /\ ViewFounded'
  BY <1>1 DEF Common, GroupsFounded, ViewFounded, Login, view
<1> QED BY <1>1, <1>2, <1>3, <1>4 DEF Common

\* A bot is told to leave.
LEMMA LeaveCommon ==
    ASSUME Common, NEW b \in Bots, Leave(b)
    PROVE  Common'
<1>1. TypeOK /\ Current(b) \in Processes
  BY CurrentOf DEF Common
<1>2. requests' \in [Bots -> Seq(Request)]
  <2>1. Append(requests[b], LeaveRequest) \in Seq(Request)
    BY <1>1, RequestTypes
  <2> QED BY <1>1, <2>1 DEF TypeOK, Leave
<1>3. Extends({Current(b)}, <<LeaveLine>>)
  BY <1>1, LeaveExtends
<1>4. output' \in [Processes -> Seq(Line)] /\ LinesFounded'
  <2>1. LeaveLine \in Line /\ LeaveLine.type # "GroupInfo"
    BY KindsOfLines DEF LeaveLine
  <2>2. founded' = founded
    BY DEF Leave
  <2>3. <<LeaveLine>> \in Seq(Line) /\ \A i \in DOMAIN <<LeaveLine>> : <<LeaveLine>>[i] = LeaveLine
    BY <2>1, OneLine
  <2> QED BY <1>3, <2>1, <2>2, <2>3, ToldCommon
<1>5. TypeOK'
  BY <1>2, <1>4 DEF Common, TypeOK, Leave, Command, view
<1>6. UNCHANGED <<groupData, groups, hailed, founded>>
  BY DEF Leave, view
<1> QED BY <1>4, <1>5, <1>6 DEF Common, GroupsFounded, ViewFounded

\* A process is stopped.
LEMMA StopCommon ==
    ASSUME Common, NEW b \in Bots, Stop(b)
    PROVE  Common'
<1>1. TypeOK'
  BY DEF Common, TypeOK, Stop, Command, server, view
<1> QED BY <1>1 DEF Common, GroupsFounded, ViewFounded, LinesFounded, Lines, Stop, server, view

\* A process is started.
LEMMA StartCommon ==
    ASSUME Common, NEW b \in Bots, Start(b)
    PROVE  Common'
<1>1. TypeOK'
  <2>1. process' \in [Bots -> 1 .. MaxProcesses]
    BY ControllerAssumption, SMT DEF Common, TypeOK, Start
  <2>2. /\ greeted_groups' \in [Bots -> GroupIds \cup {NoGroup}]
        /\ hailed' \in [Bots -> [group : GroupIds \cup {NoGroup}, times : 0 .. 2]]
    BY DEF Common, TypeOK, Start, Forgotten, NotHailed
  <2> QED BY <2>1, <2>2 DEF Common, TypeOK, Start, Command, server
<1>2. ViewFounded'
  BY DEF Common, TypeOK, ViewFounded, Start, NotHailed
<1> QED BY <1>1, <1>2 DEF Common, GroupsFounded, LinesFounded, Lines, Start, server

\* A reader takes a line.
LEMMA ObserveCommon ==
    ASSUME Common, NEW p \in Processes, Observe(p)
    PROVE  Common'
<1> DEFINE line == Head(output[p])
           bot == p[1]
<1>1. /\ output' \in [Processes -> Seq(Line)]
      /\ line \in Lines(p) /\ line \in Line /\ Lines(p)' \subseteq Lines(p)
      /\ \A q \in Processes \ {p} : Lines(q)' = Lines(q)
      /\ bot \in Bots /\ Bots \subseteq Names
  BY ReadLines, ProcessesOfBots DEF Common, Observe
<1> HIDE DEF line
<1>2. LinesFounded'
  BY <1>1 DEF Common, LinesFounded, Observe
<1>3. ASSUME groups' \in [Bots -> GroupIds \cup {NoGroup, Unknown}],
             greeted_groups' \in [Bots -> GroupIds \cup {NoGroup}],
             hailed' \in [Bots -> [group : GroupIds \cup {NoGroup}, times : 0 .. 2]],
             greeting' \subseteq Processes, ViewFounded'
      PROVE  Common'
  <2>1. TypeOK'
    BY <1>1, <1>3 DEF Common, TypeOK, Observe, server
  <2>2. UNCHANGED <<groupData, founded>>
    BY DEF Observe, server
  <2> QED BY <1>2, <1>3, <2>1, <2>2 DEF Common, GroupsFounded
<1>4. founded' = founded
  BY DEF Observe
<1>5. CASE ObserveRoster(bot, p, line)
  <2>1. line.group \in GroupIds /\ line.group \in founded
    BY <1>1, <1>5, KindsOfLines DEF ObserveRoster, Common, LinesFounded
  <2>2. groups' \in [Bots -> GroupIds \cup {NoGroup, Unknown}]
    BY <2>1, <1>5 DEF ObserveRoster, Common, TypeOK
  <2>3. greeted_groups' \in [Bots -> GroupIds \cup {NoGroup}]
    BY <2>1, <1>1, <1>5 DEF ObserveRoster, Common, TypeOK
  <2>4. hailed' \in [Bots -> [group : GroupIds \cup {NoGroup}, times : 0 .. 2]]
    BY <2>1, <1>1, <1>5 DEF ObserveRoster, Common, TypeOK
  <2>5. greeting' \subseteq Processes
    BY <1>5 DEF ObserveRoster, Common, TypeOK
  <2>6. \A b \in Bots : groups'[b] \in {groups[b], line.group, NoGroup}
    BY <1>5 DEF ObserveRoster
  <2>7. \A b \in Bots : hailed'[b].group \in {hailed[b].group, line.group}
    BY <1>1, <1>5 DEF ObserveRoster, Common, TypeOK
  <2>8. ViewFounded'
    BY <1>4, <2>1, <2>6, <2>7, GroupIdsAssumption DEF Common, ViewFounded
  <2> QED BY <1>3, <2>2, <2>3, <2>4, <2>5, <2>8
<1>6. CASE ObserveLeave(bot, line)
  <2>1. /\ groups' \in [Bots -> GroupIds \cup {NoGroup, Unknown}]
        /\ greeted_groups' \in [Bots -> GroupIds \cup {NoGroup}]
        /\ hailed' \in [Bots -> [group : GroupIds \cup {NoGroup}, times : 0 .. 2]]
        /\ greeting' \subseteq Processes
    <3>1. NotHailed \in [group : GroupIds \cup {NoGroup}, times : 0 .. 2]
      BY DEF NotHailed
    <3> HIDE DEF bot
    <3> QED BY <1>1, <1>6, <3>1 DEF ObserveLeave, Common, TypeOK
  <2>2. ViewFounded'
    BY <1>1, <1>4, <1>6, ControllerAssumption DEF ObserveLeave, Common, TypeOK, ViewFounded, NotHailed
  <2> QED BY <1>3, <2>1, <2>2
<1>7. CASE ObserveDeparture(bot, line)
  <2>1. /\ groups' \in [Bots -> GroupIds \cup {NoGroup, Unknown}]
        /\ greeted_groups' \in [Bots -> GroupIds \cup {NoGroup}]
        /\ hailed' = hailed /\ greeting' = greeting
        /\ \A b \in Bots : groups'[b] \in {groups[b], NoGroup}
    BY <1>1, <1>7 DEF ObserveDeparture, Common, TypeOK
  <2>2. ViewFounded'
    BY <1>4, <2>1, GroupIdsAssumption DEF Common, ViewFounded
  <2> QED BY <1>3, <2>1, <2>2 DEF Common, TypeOK
<1> QED BY <1>5, <1>6, <1>7 DEF Observe, line

\* A reader has sent its greeting.
LEMMA GreetCommon ==
    ASSUME Common, NEW p \in Processes, Greet(p)
    PROVE  Common'
<1>1. output' \in [Processes -> Seq(Line)]
  BY DEF Common, TypeOK, Greet
<1>2. TypeOK'
  BY <1>1 DEF Common, TypeOK, Greet, server, view
<1>3. \A q \in Processes : Lines(q)' \subseteq Lines(q)
  BY DEF Common, TypeOK, Greet, Lines
<1> QED BY <1>2, <1>3 DEF Common, GroupsFounded, ViewFounded, LinesFounded, Greet, server, view

\* What does not depend on the pace holds initially, and every step keeps it.
LEMMA CommonInit == Init => Common
<1> SUFFICES ASSUME Init PROVE Common
  OBVIOUS
<1>1. TypeOK
  BY ControllerAssumption DEF Init, TypeOK, NotHailed
<1>2. WellFormed(groupData) /\ GroupsFounded
  BY DEF Init, GroupsFounded, GetUniqueGroupIds, WellFormed, UniqueNames
<1>3. ViewFounded /\ LinesFounded
  BY ControllerAssumption DEF Init, ViewFounded, LinesFounded, Lines, NotHailed
<1> QED BY <1>1, <1>2, <1>3 DEF Common

\* Every step keeps the common part.
LEMMA CommonStep ==
    ASSUME Common, [Next]_vars
    PROVE  Common'
<1>1. CASE UNCHANGED vars
  BY <1>1 DEF vars, server, view, Common, TypeOK, GroupsFounded, ViewFounded, LinesFounded, Lines
<1>2. CASE \E leader, member \in Names, g \in GroupIds : Invite(leader, member, g)
  BY <1>2, InviteCommon
<1>3. CASE \E v \in invites : ClientJoins(v)
  BY <1>3, JoinsCommon
<1>4. CASE \E n \in Names : ClientLeaves(n)
  BY <1>4, LeavesCommon
<1>5. CASE \E b \in Bots : Leave(b) \/ Arrives(b) \/ Stop(b) \/ Closed(b) \/ Start(b) \/ Login(b)
  BY <1>5, LeaveCommon, ArrivesCommon, StopCommon, ClosedCommon, StartCommon, LoginCommon
<1>6. CASE \E p \in Processes : Observe(p) \/ Greet(p)
  BY <1>6, ObserveCommon, GreetCommon
<1> QED BY <1>1, <1>2, <1>3, <1>4, <1>5, <1>6 DEF Next

-----------------------------------------------------------------------------
\* Paced commands, step by step.

\* All has been read, so the view is right but for what nothing was heard of.
Calm ==
    /\ \A p \in Processes : Lines(p) = {}
    /\ \A b \in Bots : /\ groups[b] \in GroupIds => groups[b] = GroupOf(groupData, b)
                       /\ groups[b] \notin GroupIds /\ Shares(b) => ~Connected(b)

\* With nothing printed, nothing is about to change the view.
LEMMA CalmWithoutLines ==
    ASSUME PacedInv, \A p \in Processes : Lines(p) = {}, TypeOK,
           \A b \in Bots : requests[b] # <<LeaveRequest>>
    PROVE  Calm
<1>1. \A b \in Bots : ~IsToLearn(b)
  BY DEF IsToLearn
<1>2. \A b \in Bots : LeaveLine \notin Lines(Current(b))
  BY CurrentOf
<1> QED BY <1>1, <1>2 DEF PacedInv, ViewIsRight, Calm

\* So it is when everything is quiet.
LEMMA CalmWhenQuiet ==
    ASSUME PacedInv, Quiet, TypeOK
    PROVE  Calm /\ Settled /\ greeting = {} /\ \A b \in Bots : requests[b] = <<>>
<1>1. \A p \in Processes : Lines(p) = {}
  BY DEF Quiet, Lines
<1>2. \A b \in Bots : requests[b] = <<>>
  BY DEF Quiet
<1> QED BY <1>1, <1>2, CalmWithoutLines DEF Quiet, Settled

\* What remembers the greetings does not notice that somebody moves, unless it
\* is into a group that was greeted before.
LEMMA HailsKept ==
    ASSUME HailsAreRemembered, NEW n \in Names, NEW g, Goes(n, g), UNCHANGED <<greeted_groups, hailed>>,
           n \in Bots => g # NoGroup \/ hailed[n].group = NoGroup,
           n \in Bots /\ hailed[n].group # NoGroup =>
              hailed[n].group # g /\ \A m \in Names \ {n} : GroupOf(groupData, m) # GroupOf(groupData, n),
           \A b \in Bots : hailed[b].group # NoGroup => hailed[b].group # g \/ GroupOf(groupData, b) = g
    PROVE  HailsAreRemembered'
<1> SUFFICES ASSUME NEW b \in Bots, hailed[b].group # NoGroup
             PROVE  /\ greeted_groups[b] = hailed[b].group
                    /\ GroupOf(groupData', b) # NoGroup
                    /\ GroupOf(groupData', b) = hailed[b].group \/ ~Has(hailed[b].group)'
  BY DEF HailsAreRemembered
<1> DEFINE h == hailed[b].group
<1>1. b \in Names /\ greeted_groups[b] = h /\ GroupOf(groupData, b) # NoGroup
      /\ (GroupOf(groupData, b) = h \/ ~Has(h))
  BY ProcessesOfBots DEF HailsAreRemembered
<1>2. GroupOf(groupData', b) # NoGroup
  BY <1>1 DEF Goes
<1>3. CASE b = n
  BY <1>1, <1>2, <1>3 DEF Goes, Has
<1>4. CASE b # n
  BY <1>1, <1>2, <1>4 DEF Goes, Has
<1> QED BY <1>1, <1>2, <1>3, <1>4

\* The paced part, action by action: an invitation.
LEMMA InvitePaced ==
    ASSUME Common, PacedInv, paced, NEW leader \in Names, NEW member \in Names, NEW g \in GroupIds,
           Invite(leader, member, g)
    PROVE  PacedInv'
<1>1. Calm /\ Settled /\ greeting = {} /\ \A b \in Bots : requests[b] = <<>>
  BY CalmWhenQuiet DEF Invite, Command, Common
<1>2. UNCHANGED <<session, process, running, output, greeting, groups, greeted_groups, hailed>>
  BY DEF Invite, view
<1>3. \A p \in Processes : Lines(p)' = {}
  BY <1>1, <1>2 DEF Calm, Lines
<1>4. \A b \in Bots : requests'[b] # <<>> => b = member /\ requests'[b] = <<JoinRequest(leader)>>
  <2>1. \A b \in Bots : requests'[b] # <<>> => b = member /\ requests'[b] = Append(<<>>, JoinRequest(leader))
    BY <1>1 DEF Invite
  <2>2. Append(<<>>, JoinRequest(leader)) = <<JoinRequest(leader)>>
    OBVIOUS
  <2> QED BY <2>1, <2>2
<1>5. JoinRequest(leader) \in Request /\ JoinRequest(leader) # LeaveRequest
  BY DEF Request, JoinRequest, LeaveRequest
<1>6. OneRequest'
  BY <1>1, <1>2, <1>3, <1>4, <1>5 DEF OneRequest, Settled
<1>7. \/ UNCHANGED groupData
      \/ GroupOf(groupData, leader) = NoGroup /\ Goes(leader, g) /\ ~Has(g)
         /\ \A b \in Bots : hailed[b].group # g
  <2>1. g \notin founded => ~Has(g) /\ \A b \in Bots : hailed[b].group # g
    BY GroupsAsNames, GroupIdsAssumption DEF Common, GroupsFounded, ViewFounded, Has
  <2> QED BY <2>1, InviteFacts
<1>8. HailsAreRemembered'
  <2>1. CASE UNCHANGED groupData
    BY <1>2, <2>1 DEF PacedInv, HailsAreRemembered, Has
  <2>2. CASE GroupOf(groupData, leader) = NoGroup /\ Goes(leader, g) /\ ~Has(g)
             /\ \A b \in Bots : hailed[b].group # g
    BY <1>2, <2>2, HailsKept DEF PacedInv, HailsAreRemembered
  <2> QED BY <1>7, <2>1, <2>2
<1>9. \A b \in Bots : /\ GroupOf(groupData, b) # NoGroup => GroupOf(groupData', b) = GroupOf(groupData, b)
                      /\ Shares(b)' => Shares(b)
                      /\ Connected(b)' = Connected(b)
  BY <1>2, <1>7, ProcessesOfBots, GroupIdsAssumption DEF Goes, Has, Shares, Connected
<1>10. ViewIsRight'
  BY <1>1, <1>2, <1>4, <1>5, <1>9, GroupIdsAssumption DEF Calm, ViewIsRight
<1> QED BY <1>1, <1>2, <1>3, <1>6, <1>8, <1>10 DEF PacedInv, LinesAreCurrent, GreetersRun, GreetedOnce

\* A bot is told to leave.
LEMMA LeavePaced ==
    ASSUME Common, PacedInv, paced, NEW b \in Bots, Leave(b)
    PROVE  PacedInv'
<1>1. Calm /\ Settled /\ greeting = {} /\ \A c \in Bots : requests[c] = <<>>
  BY CalmWhenQuiet DEF Leave, Command, Common
<1>2. /\ UNCHANGED <<groupData, session, process, running, greeting, groups, greeted_groups, hailed>>
      /\ \A c \in Bots : Connected(c)' = Connected(c) /\ Current(c)' = Current(c)
  BY DEF Leave, view, Connected, Current
<1>3. Current(b) \in Processes /\ Current(b)[1] = b
  BY CurrentOf DEF Common
<1>4. \A c \in Bots : requests'[c] = IF c = b THEN <<LeaveRequest>> ELSE <<>>
  <2>1. Append(<<>>, LeaveRequest) = <<LeaveRequest>>
    OBVIOUS
  <2>2. \A c \in Bots : requests'[c] = IF c = b THEN Append(<<>>, LeaveRequest) ELSE <<>>
    BY <1>1 DEF Leave, Common, TypeOK
  <2> QED BY <2>1, <2>2
<1>5. \A p \in Processes : Lines(p)' = IF p = Current(b) THEN {LeaveLine} ELSE {}
  <2>1. {<<LeaveLine>>[i] : i \in DOMAIN <<LeaveLine>>} = {LeaveLine}
    BY OneLine, KindsOfLines
  <2> QED BY <1>1, <2>1, LeaveExtends DEF Common, Extends, Calm
<1>6. LeaveRequest \in Request
  BY DEF Request
<1>7. OneRequest'
  BY <1>1, <1>2, <1>4, <1>5, <1>6 DEF OneRequest, Settled
<1>8. LinesAreCurrent'
  <2>1. LeaveLine.type \notin {"GroupInfo", "GroupDisbandInfo"}
    BY DEF LeaveLine
  <2> QED BY <1>2, <1>3, <1>4, <1>5, <2>1 DEF LinesAreCurrent
<1>9. HailsAreRemembered'
  BY <1>2 DEF PacedInv, HailsAreRemembered, Has
<1>10. ViewIsRight'
  BY <1>1, <1>2, <1>3, <1>4, <1>5 DEF Calm, ViewIsRight, Shares
<1> QED BY <1>1, <1>2, <1>7, <1>8, <1>9, <1>10 DEF PacedInv, GreetersRun, GreetedOnce

\* A process is stopped.
LEMMA StopPaced ==
    ASSUME Common, PacedInv, paced, NEW b \in Bots, Stop(b)
    PROVE  PacedInv'
<1>1. Calm /\ Settled /\ greeting = {} /\ \A c \in Bots : requests[c] = <<>>
  BY CalmWhenQuiet DEF Stop, Command, Common
<1>2. /\ UNCHANGED <<groupData, requests, session, process, output, greeting, groups, greeted_groups, hailed>>
      /\ \A c \in Bots : Connected(c)' => Connected(c)
  BY DEF Stop, server, view, Connected
<1>3. \A p \in Processes : Lines(p)' = {}
  BY <1>1, <1>2 DEF Calm, Lines
<1>4. OneRequest' /\ LinesAreCurrent'
  BY <1>1, <1>2, <1>3 DEF OneRequest, LinesAreCurrent
<1>5. HailsAreRemembered'
  BY <1>2 DEF PacedInv, HailsAreRemembered, Has
<1>6. ViewIsRight'
  BY <1>1, <1>2 DEF Calm, ViewIsRight, Shares
<1> QED BY <1>1, <1>2, <1>4, <1>5, <1>6 DEF PacedInv, GreetersRun, GreetedOnce

\* A process is started.
LEMMA StartPaced ==
    ASSUME Common, PacedInv, paced, NEW b \in Bots, Start(b)
    PROVE  PacedInv'
<1>1. Calm /\ Settled /\ greeting = {} /\ \A c \in Bots : requests[c] = <<>>
  BY CalmWhenQuiet DEF Start, Command, Common
<1>2. UNCHANGED <<groupData, requests, session, output, greeting, groups>>
  BY DEF Start, server
<1>3. \A c \in Bots : Connected(c)' => Connected(c)
  <2>1. process'[b] = process[b] + 1 /\ process[b] \in 1 .. MaxProcesses /\ session[b] = 0
    BY <1>1 DEF Start, Common, TypeOK, Settled, NoProcess
  <2>2. ~Connected(b)'
    BY <1>2, <2>1, SMT DEF Connected
  <2>3. \A c \in Bots \ {b} : Connected(c)' = Connected(c)
    BY <1>2 DEF Start, Connected, Common, TypeOK
  <2> QED BY <2>2, <2>3
<1>4. \A p \in Processes : Lines(p)' = {}
  BY <1>1, <1>2 DEF Calm, Lines
<1>5. OneRequest' /\ LinesAreCurrent'
  BY <1>1, <1>2, <1>4 DEF OneRequest, LinesAreCurrent
<1>6. \A c \in Bots : /\ hailed'[c] = IF c = b THEN NotHailed ELSE hailed[c]
                      /\ c # b => greeted_groups'[c] = greeted_groups[c]
  BY DEF Start, Forgotten, Common, TypeOK
<1>7. HailsAreRemembered' /\ GreetedOnce'
  BY <1>2, <1>6 DEF PacedInv, HailsAreRemembered, Has, GreetedOnce, NotHailed
<1>8. ViewIsRight'
  BY <1>1, <1>2, <1>3 DEF Calm, ViewIsRight, Shares
<1> QED BY <1>1, <1>2, <1>5, <1>7, <1>8 DEF PacedInv, GreetersRun

\* A join that meets nothing that is still to be read.
LEMMA JoinedPaced ==
    ASSUME Common, Common', PacedInv, Calm, NEW n \in Names, NEW leader \in Names, Joined(n, leader),
           n \in Bots => Connected(n), \A b \in Bots : requests'[b] = <<>>,
           UNCHANGED <<session, process, running, greeting, groups, greeted_groups, hailed>>
    PROVE  PacedInv'
<1> DEFINE g == GroupOf(groupData, leader)
<1>1. \A b \in Bots : Connected(b)' = Connected(b) /\ Current(b)' = Current(b)
  BY DEF Connected, Current
<1>2. OneRequest' /\ GreetersRun' /\ GreetedOnce'
  BY DEF PacedInv, OneRequest, GreetersRun, GreetedOnce
<1>3. CASE UNCHANGED <<groupData, invites, output, departed>>
  <2>1. \A p \in Processes : Lines(p)' = {}
    BY <1>3 DEF Calm, Lines
  <2>2. LinesAreCurrent' /\ HailsAreRemembered'
    BY <1>3, <2>1 DEF PacedInv, LinesAreCurrent, HailsAreRemembered, Has
  <2>3. ViewIsRight'
    BY <1>1, <1>3 DEF Calm, ViewIsRight, Shares
  <2> QED BY <1>2, <2>2, <2>3 DEF PacedInv
<1>4. CASE /\ g \in GroupIds /\ g # GroupOf(groupData, n) /\ leader # n
           /\ \A m \in Names \ {n} : GroupOf(groupData, m) = GroupOf(groupData, n)
                                       => GroupOf(groupData, n) = NoGroup
           /\ Goes(n, g) /\ Told(g, TellsRoster(g))
  <2>1. Extends(Hearers(g), TellsRoster(g))
    BY <1>1, <1>4, ToldExtends, NewLines DEF Common
  <2>2. \A p \in Processes : Lines(p)' = IF p \in Hearers(g) THEN {NewRoster(g)} ELSE {}
    BY <1>4, <2>1, NewLines DEF Calm, Extends
  <2>3. LinesAreCurrent'
    <3>1. \A p \in Hearers(g) : p \in Processes /\ p[1] \in InGroup(groupData', g)
      BY ProcessesOfBots DEF Hearers, InGroup
    <3>2. NamesOf(groupData', g) = InGroup(groupData', g)
      BY <1>4, GroupsAsNames DEF Common
    <3>3. NewRoster(g).type = "GroupInfo" /\ NewRoster(g).group = g /\ NewRoster(g).names = InGroup(groupData', g)
      BY <1>4, NewLines
    <3>4. NewRoster(g) # LeaveLine
      BY <3>3, KindsOfLines
    <3> QED BY <2>2, <3>1, <3>2, <3>3, <3>4 DEF LinesAreCurrent
  <2>4. Has(g)
    BY DEF Has
  <2>5. HailsAreRemembered'
    BY <1>4, <2>4, ProcessesOfBots, GroupIdsAssumption, HailsKept DEF PacedInv, HailsAreRemembered, Has
  <2>6. ASSUME NEW b \in Bots, GroupOf(groupData', b) = g, Connected(b)
        PROVE  IsToLearn(b)'
    <3>1. Current(b) \in Hearers(g) /\ Current(b) \in Processes
      BY <1>1, <2>6, CurrentOf DEF Hearers, Common
    <3>2. NewRoster(g) \in Lines(Current(b))'
      BY <1>1, <2>2, <3>1
    <3>3. Lists(NewRoster(g), b)
      BY <1>4, <2>6, NewLines, ProcessesOfBots DEF Lists, InGroup
    <3> QED BY <1>1, <3>1, <3>2, <3>3 DEF IsToLearn
  <2>7. ViewIsRight'
    <3> SUFFICES ASSUME NEW b \in Bots
                 PROVE  /\ groups[b] \in GroupIds =>
                              \/ groups[b] = GroupOf(groupData', b)
                              \/ ~Has(groups[b])' /\ IsToLearn(b)'
                        /\ groups[b] \notin GroupIds /\ Shares(b)' /\ Connected(b) => IsToLearn(b)'
      BY <1>1 DEF ViewIsRight
    <3>1. b \in Names
      BY ProcessesOfBots
    <3>2. groups[b] \in GroupIds =>
             groups[b] = GroupOf(groupData', b) \/ (~Has(groups[b])' /\ IsToLearn(b)')
      <4> SUFFICES ASSUME groups[b] \in GroupIds, groups[b] = GroupOf(groupData, b)
                   PROVE  groups[b] = GroupOf(groupData', b) \/ (~Has(groups[b])' /\ IsToLearn(b)')
        BY DEF Calm
      <4>1. CASE b # n
        BY <1>4, <3>1, <4>1 DEF Goes
      <4>2. CASE b = n
        <5>1. IsToLearn(b)'
          BY <1>4, <2>6, <3>1, <4>2 DEF Goes
        <5>2. \A m \in Names \ {n} : GroupOf(groupData', m) # groups[b]
          BY <1>4, <4>2, GroupIdsAssumption DEF Goes
        <5>3. GroupOf(groupData', n) # groups[b]
          BY <1>4, <4>2 DEF Goes
        <5> QED BY <5>1, <5>2, <5>3 DEF Has
      <4> QED BY <4>1, <4>2
    <3>3. GroupOf(groupData', b) # g /\ Shares(b)' => Shares(b)
      BY <1>4, <3>1 DEF Goes, Shares
    <3> QED BY <2>6, <3>2, <3>3 DEF Calm
  <2> QED BY <1>2, <2>3, <2>5, <2>7 DEF PacedInv
<1> QED BY <1>3, <1>4, JoinedFacts DEF Common, TypeOK

\* A departure that meets nothing that is still to be read but that it was asked for.
LEMMA LeftPaced ==
    ASSUME Common, Common', PacedInv, NEW n \in Names, Left(n),
           \A p \in Processes : \A line \in Lines(p) : n \in Bots /\ p = Current(n) /\ line = LeaveLine,
           n \in Bots => requests[n] = <<LeaveRequest>>, \A b \in Bots \ {n} : requests[b] = <<>>,
           \A b \in Bots : requests'[b] = <<>>,
           UNCHANGED <<session, process, running, greeting, groups, greeted_groups>>
    PROVE  PacedInv'
<1> DEFINE g == GroupOf(groupData, n)
<1>1. \A b \in Bots : Connected(b)' = Connected(b) /\ Current(b)' = Current(b)
  BY DEF Connected, Current
<1>2. OneRequest' /\ GreetersRun'
  BY DEF PacedInv, OneRequest, GreetersRun
<1>3. LeaveLine.type = "CONTROL SENT leave" /\ \A b \in Bots : Current(b) \in Processes /\ Current(b)[1] = b
  BY CurrentOf DEF LeaveLine, Common
<1>4. \A b \in Bots : ~IsToLearn(b)
  BY <1>3 DEF IsToLearn, Lists
<1>5. ASSUME NEW b \in Bots
      PROVE  /\ groups[b] \in GroupIds => \/ groups[b] = GroupOf(groupData, b)
                                          \/ b = n /\ LeaveLine \in Lines(Current(b))
             /\ groups[b] \in GroupIds /\ b = n => LeaveLine \in Lines(Current(b))
             /\ groups[b] \notin GroupIds /\ Shares(b) /\ Connected(b) => b = n
  <2>1. requests[b] = <<LeaveRequest>> <=> b = n
    BY <1>5
  <2>2. LeaveLine \in Lines(Current(b)) => b = n
    BY <1>3
  <2> QED BY <1>4, <2>1, <2>2 DEF PacedInv, ViewIsRight
<1>6. CASE g = NoGroup /\ UNCHANGED <<groupData, invites, output, hailed, departed>>
  <2>1. \A p \in Processes : Lines(p)' = Lines(p)
    BY <1>6 DEF Lines
  <2>2. LinesAreCurrent'
    BY <1>1, <1>3, <1>6, <2>1 DEF LinesAreCurrent
  <2>3. HailsAreRemembered' /\ GreetedOnce'
    BY <1>6 DEF PacedInv, HailsAreRemembered, GreetedOnce, Has
  <2>4. \A b \in Bots : requests'[b] # <<LeaveRequest>> /\ Lines(Current(b))' = Lines(Current(b))
    <3>1. \A b \in Bots : requests'[b] # <<LeaveRequest>>
      OBVIOUS
    <3>2. \A b \in Bots : Lines(Current(b))' = Lines(Current(b))
      BY <1>1, <1>6 DEF Lines
    <3> QED BY <3>1, <3>2
  <2>5. ~Shares(n) /\ \A b \in Bots : Shares(b)' = Shares(b)
    BY <1>6 DEF Shares
  <2>6. ViewIsRight'
    BY <1>1, <1>5, <1>6, <2>4, <2>5 DEF ViewIsRight
  <2> QED BY <1>2, <2>2, <2>3, <2>6 DEF PacedInv
<1>7. CASE /\ g \in GroupIds /\ Goes(n, NoGroup) /\ Told(g, TellsDeparture(n, g))
           /\ hailed' = [b \in Bots |-> IF b = n THEN NotHailed ELSE hailed[b]]
  <2>1. Extends(Hearers(g), TellsDeparture(n, g))
    BY <1>1, <1>7, ToldExtends, NewLines DEF Common
  <2>2. \A p \in Processes : Lines(p)' = IF p \in Hearers(g) THEN Lines(p) \cup {DepartureLine(n), NewRoster(g)}
                                                         ELSE Lines(p)
    BY <1>7, <2>1, NewLines DEF Extends
  <2>3. /\ NewRoster(g).type = "GroupInfo" /\ NewRoster(g).group = g
        /\ NewRoster(g).names = InGroup(groupData', g)
        /\ DepartureLine(n).type = "GroupDisbandInfo" /\ DepartureLine(n).name = n
    BY <1>7, NewLines DEF DepartureLine
  <2>4. GroupOf(groupData', n) = NoGroup
    BY <1>7 DEF Goes
  <2>5. LinesAreCurrent'
    <3>1. \A p \in Hearers(g) : p \in Processes /\ p[1] \in InGroup(groupData', g)
      BY ProcessesOfBots DEF Hearers, InGroup
    <3>2. NamesOf(groupData', g) = InGroup(groupData', g)
      BY <1>7, GroupsAsNames DEF Common
    <3> SUFFICES ASSUME NEW p \in Processes, NEW line \in Lines(p)'
                 PROVE  /\ line.type = "GroupInfo" => line.names = NamesOf(groupData', line.group) /\ p[1] \in line.names
                        /\ line.type = "GroupDisbandInfo" => GroupOf(groupData', line.name) = NoGroup
                        /\ line = LeaveLine => p = Current(p[1])' /\ GroupOf(groupData', p[1]) = NoGroup
      BY DEF LinesAreCurrent
    <3>3. CASE line \in Lines(p)
      BY <1>1, <1>3, <2>4, <3>3
    <3>4. CASE line \notin Lines(p)
      BY <1>3, <2>2, <2>3, <2>4, <3>1, <3>2, <3>4
    <3> QED BY <3>3, <3>4
  <2>6. HailsAreRemembered'
    <3>1. ASSUME NEW b \in Bots, hailed'[b].group # NoGroup
          PROVE  /\ greeted_groups[b] = hailed'[b].group
                 /\ GroupOf(groupData', b) # NoGroup
                 /\ GroupOf(groupData', b) = hailed'[b].group
                    \/ \A m \in Names : GroupOf(groupData', m) # hailed'[b].group
      <4>1. b # n /\ hailed'[b] = hailed[b] /\ b \in Names
        BY <1>7, <3>1, ProcessesOfBots DEF NotHailed
      <4>2. /\ greeted_groups[b] = hailed[b].group
            /\ GroupOf(groupData, b) # NoGroup
            /\ GroupOf(groupData, b) = hailed[b].group
               \/ \A m \in Names : GroupOf(groupData, m) # hailed[b].group
        BY <3>1, <4>1 DEF PacedInv, HailsAreRemembered, Has
      <4> QED BY <1>7, <3>1, <4>1, <4>2 DEF Goes
    <3> QED BY <3>1 DEF HailsAreRemembered, Has
  <2>7. GreetedOnce'
    BY <1>7 DEF PacedInv, GreetedOnce, NotHailed
  <2>8. ASSUME NEW b \in Bots, GroupOf(groupData', b) = g, Connected(b)
        PROVE  IsToLearn(b)'
    <3>1. Current(b) \in Hearers(g) /\ Current(b) \in Processes
      BY <1>1, <1>3, <2>8 DEF Hearers
    <3>2. NewRoster(g) \in Lines(Current(b))'
      BY <1>1, <2>2, <3>1
    <3>3. Lists(NewRoster(g), b)
      BY <2>3, <2>8, ProcessesOfBots DEF Lists, InGroup
    <3> QED BY <1>1, <3>1, <3>2, <3>3 DEF IsToLearn
  <2>9. ViewIsRight'
    <3> SUFFICES ASSUME NEW b \in Bots
                 PROVE  /\ groups[b] \in GroupIds =>
                              \/ groups[b] = GroupOf(groupData', b)
                              \/ GroupOf(groupData', b) = NoGroup /\ LeaveLine \in Lines(Current(b))'
                        /\ groups[b] \notin GroupIds /\ Shares(b)' /\ Connected(b) => IsToLearn(b)'
      BY <1>1 DEF ViewIsRight
    <3>1. b \in Names
      BY ProcessesOfBots
    <3>2. Lines(Current(b)) \subseteq Lines(Current(b))'
      BY <1>1, <1>3, <2>2
    <3>3. groups[b] \in GroupIds =>
             \/ groups[b] = GroupOf(groupData', b)
             \/ GroupOf(groupData', b) = NoGroup /\ LeaveLine \in Lines(Current(b))'
      BY <1>5, <1>7, <2>4, <3>1, <3>2 DEF Goes
    <3>4. b # n /\ GroupOf(groupData', b) # g /\ Shares(b)' => Shares(b)
      BY <1>7, <3>1 DEF Goes, Shares
    <3>5. ~Shares(n)'
      BY <2>4 DEF Shares
    <3> QED BY <1>5, <2>8, <3>3, <3>4, <3>5
  <2> QED BY <1>2, <2>5, <2>6, <2>7, <2>9 DEF PacedInv
<1> QED BY <1>6, <1>7, LeftFacts DEF Common, TypeOK

\* A game client joins.
LEMMA ClientJoinsPaced ==
    ASSUME Common, Common', PacedInv, paced, NEW v \in invites, ClientJoins(v)
    PROVE  PacedInv'
<1>1. v.memberName \in Names \ Bots /\ v.leaderName \in Names
  BY DEF Common, TypeOK, GroupInvite, ClientJoins
<1>2. Calm /\ \A c \in Bots : requests[c] = <<>>
  BY CalmWhenQuiet DEF ClientJoins, Common
<1>3. Joined(v.memberName, v.leaderName)
      /\ UNCHANGED <<requests, session, process, running, greeting, groups, greeted_groups, hailed>>
  BY DEF ClientJoins, view
<1> QED BY <1>1, <1>2, <1>3, JoinedPaced

\* A game client leaves.
LEMMA ClientLeavesPaced ==
    ASSUME Common, Common', PacedInv, paced, NEW n \in Names, ClientLeaves(n)
    PROVE  PacedInv'
<1>1. Calm /\ \A c \in Bots : requests[c] = <<>>
  BY CalmWhenQuiet DEF ClientLeaves, Command, Common
<1>2. n \notin Bots /\ Left(n) /\ UNCHANGED <<requests, session, process, running, greeting, groups, greeted_groups>>
  BY DEF ClientLeaves
<1>3. \A p \in Processes : Lines(p) = {}
  BY <1>1 DEF Calm
<1> QED BY <1>1, <1>2, <1>3, LeftPaced

\* A bot's request arrives.
LEMMA ArrivesPaced ==
    ASSUME Common, Common', PacedInv, NEW b \in Bots, Arrives(b)
    PROVE  PacedInv'
<1>1. PICK r \in Request : requests[b] = <<r>>
  BY DEF PacedInv, OneRequest, Arrives
<1>2. Head(requests[b]) = r /\ Tail(requests[b]) = <<>> /\ requests[b] # <<>>
  BY <1>1
<1>3. /\ Settled /\ \A c \in Bots \ {b} : requests[c] = <<>>
      /\ \A p \in Processes : \A line \in Lines(p) : r = LeaveRequest /\ p = Current(b) /\ line = LeaveLine
  BY <1>1, <1>2 DEF PacedInv, OneRequest
<1>4. \A c \in Bots : requests'[c] = <<>>
  BY <1>2, <1>3 DEF Arrives, Common, TypeOK
<1>5. Connected(b) /\ b \in Names
  BY <1>3, ProcessesOfBots DEF Arrives, Settled, Connected
<1>6. UNCHANGED <<session, process, running, greeting, groups, greeted_groups>>
  BY DEF Arrives
<1>7. CASE r.type = "GroupJoin" /\ Joined(b, r.leaderName) /\ UNCHANGED hailed
  <2>1. r # LeaveRequest /\ r.leaderName \in Names
    BY <1>7, RequestTypes DEF Common
  <2>2. \A c \in Bots : requests[c] # <<LeaveRequest>>
    BY <1>1, <1>3, <2>1
  <2>3. \A p \in Processes : Lines(p) = {}
    BY <1>3, <2>1
  <2>4. Calm
    BY <2>2, <2>3, CalmWithoutLines DEF Common
  <2> QED BY <1>4, <1>5, <1>6, <1>7, <2>1, <2>4, JoinedPaced
<1>8. CASE r.type = "GroupDisband" /\ Left(b)
  <2>1. requests[b] = <<LeaveRequest>>
    BY <1>1, <1>8, RequestTypes DEF Common
  <2> QED BY <1>3, <1>4, <1>5, <1>6, <1>8, <2>1, LeftPaced
<1> QED BY <1>2, <1>7, <1>8 DEF Arrives

\* A disconnection or a login, when no request is on its way: whoever is in the
\* group of the bot is told.
LEMMA AnnouncedPaced ==
    ASSUME Common, Common', PacedInv, NEW b \in Bots,
           \A c \in Bots : requests[c] = <<>> /\ requests'[c] = <<>>,
           UNCHANGED <<groupData, process, running, greeting, groups, greeted_groups, hailed>>,
           \A c \in Bots \ {b} : Connected(c)' = Connected(c),
           GroupOf(groupData, b) = NoGroup => UNCHANGED output,
           GroupOf(groupData, b) # NoGroup =>
              LET g == GroupOf(groupData, b) IN g \in GroupIds /\ Extends(Hearers(g), TellsRoster(g))
    PROVE  PacedInv'
<1> DEFINE g == GroupOf(groupData, b)
<1>1. \A c \in Bots : Current(c)' = Current(c) /\ Current(c) \in Processes /\ Current(c)[1] = c
  BY CurrentOf DEF Current, Common
<1>2. OneRequest' /\ GreetersRun' /\ GreetedOnce'
  BY DEF PacedInv, OneRequest, GreetersRun, GreetedOnce
<1>3. HailsAreRemembered'
  BY DEF PacedInv, HailsAreRemembered, Has
<1>4. \A c \in Bots : Shares(c)' = Shares(c)
  BY DEF Shares
<1>5. \A h : Has(h)' = Has(h)
  BY DEF Has
<1>6. \A c \in Bots : requests[c] # <<LeaveRequest>> /\ requests'[c] # <<LeaveRequest>>
  <2>1. \A r : r = <<>> => r # <<LeaveRequest>>
    OBVIOUS
  <2>2. \A c \in Bots : requests[c] = <<>> /\ requests'[c] = <<>>
    OBVIOUS
  <2> QED BY ONLY <2>1, <2>2
<1>7. CASE g = NoGroup
  <2>1. \A p \in Processes : Lines(p)' = Lines(p)
    BY <1>7 DEF Lines
  <2>2. LinesAreCurrent'
    BY <1>1, <1>6, <2>1, ProcessesOfBots DEF PacedInv, LinesAreCurrent, NamesOf
  <2>3. \A c \in Bots : /\ IsToLearn(c)' = IsToLearn(c) /\ Lines(Current(c))' = Lines(Current(c))
                        /\ Shares(c) /\ Connected(c)' => Connected(c)
    BY <1>1, <1>7, <2>1 DEF IsToLearn, Shares
  <2>4. ViewIsRight'
    BY <1>4, <1>5, <1>6, <2>3 DEF PacedInv, ViewIsRight
  <2> QED BY <1>2, <1>3, <2>2, <2>4 DEF PacedInv
<1>8. CASE g # NoGroup
  <2>1. g \in GroupIds /\ Extends(Hearers(g), TellsRoster(g))
    BY <1>8
  <2>2. \A p \in Processes : Lines(p)' = IF p \in Hearers(g) THEN Lines(p) \cup {NewRoster(g)} ELSE Lines(p)
    BY <2>1, NewLines, ProcessesOfBots DEF Extends
  <2>3. /\ NewRoster(g).type = "GroupInfo" /\ NewRoster(g).group = g
        /\ NewRoster(g).names = InGroup(groupData', g) /\ NewRoster(g) # LeaveLine
        /\ NamesOf(groupData, g) = InGroup(groupData', g)
    <3>1. /\ NewRoster(g).type = "GroupInfo" /\ NewRoster(g).group = g
          /\ NewRoster(g).names = InGroup(groupData', g)
      BY <2>1, NewLines, ProcessesOfBots
    <3>2. NewRoster(g) # LeaveLine
      BY <3>1, KindsOfLines
    <3>3. NamesOf(groupData, g) = InGroup(groupData', g)
      BY <2>1, GroupsAsNames DEF Common
    <3> QED BY <3>1, <3>2, <3>3
  <2>4. \A p \in Hearers(g) : p \in Processes /\ p[1] \in InGroup(groupData', g)
    BY ProcessesOfBots DEF Hearers, InGroup
  <2>5. LinesAreCurrent'
    <3> SUFFICES ASSUME NEW p \in Processes, NEW line \in Lines(p)'
                 PROVE  /\ line.type = "GroupInfo" => line.names = NamesOf(groupData, line.group) /\ p[1] \in line.names
                        /\ line.type = "GroupDisbandInfo" => GroupOf(groupData, line.name) = NoGroup
                        /\ line = LeaveLine => p = Current(p[1]) /\ GroupOf(groupData, p[1]) = NoGroup
      BY <1>1, ProcessesOfBots DEF LinesAreCurrent
    <3>1. CASE line \in Lines(p)
      BY <1>6, <3>1, ProcessesOfBots DEF PacedInv, LinesAreCurrent
    <3>2. CASE line \notin Lines(p)
      BY <2>2, <2>3, <2>4, <3>2
    <3> QED BY <3>1, <3>2
  <2>6. ASSUME NEW c \in Bots, GroupOf(groupData, c) = g, Connected(c)'
        PROVE  IsToLearn(c)'
    <3>1. Current(c) \in Hearers(g) /\ Current(c) \in Processes
      BY <1>1, <2>6 DEF Hearers
    <3>2. NewRoster(g) \in Lines(Current(c))'
      BY <1>1, <2>2, <3>1
    <3>3. Lists(NewRoster(g), c)
      BY <2>3, <2>6, ProcessesOfBots DEF Lists, InGroup
    <3> QED BY <1>1, <3>1, <3>2, <3>3 DEF IsToLearn
  <2>7. \A c \in Bots : IsToLearn(c) => IsToLearn(c)'
    BY <2>2 DEF IsToLearn
  <2>8. \A c \in Bots : LeaveLine \in Lines(Current(c)) => LeaveLine \in Lines(Current(c))'
    BY <1>1, <2>2
  <2>9. \A c \in Bots : Shares(c) /\ Connected(c)' => Connected(c) \/ IsToLearn(c)'
    BY <2>6
  <2>10. ViewIsRight'
    BY <1>4, <1>5, <1>6, <2>7, <2>8, <2>9 DEF PacedInv, ViewIsRight
  <2> QED BY <1>2, <1>3, <2>5, <2>10 DEF PacedInv
<1> QED BY <1>7, <1>8

\* A bot whose login or disconnection the server has not seen has no request.
LEMMA UnsettledHasNoRequest ==
    ASSUME TypeOK, PacedInv, NEW b \in Bots, ~Connected(b),
           b \in running \/ session[b] # NoProcess
    PROVE  \A c \in Bots : requests[c] = <<>>
<1>1. ~Settled
  BY DEF Settled, Connected
<1> QED BY <1>1 DEF PacedInv, OneRequest

\* A session ends.
LEMMA ClosedPaced ==
    ASSUME Common, Common', PacedInv, NEW b \in Bots, Closed(b)
    PROVE  PacedInv'
<1>1. \A c \in Bots : requests[c] = <<>>
  BY UnsettledHasNoRequest DEF Common, Closed
<1>2. UNCHANGED <<groupData, requests, process, running, greeting, groups, greeted_groups, hailed>>
  BY DEF Closed, view
<1>3. \A c \in Bots \ {b} : Connected(c)' = Connected(c)
  BY DEF Closed, Connected, Common, TypeOK
<1>4. GroupOf(groupData, b) = NoGroup => UNCHANGED output
  BY DEF Closed
<1> QED BY <1>1, <1>2, <1>3, <1>4, ClosedExtends, AnnouncedPaced

\* A new process logs in.
LEMMA LoginPaced ==
    ASSUME Common, Common', PacedInv, NEW b \in Bots, Login(b)
    PROVE  PacedInv'
<1>1. \A c \in Bots : requests[c] = <<>>
  BY UnsettledHasNoRequest DEF Common, Login
<1>2. UNCHANGED <<groupData, process, running, greeting, groups, greeted_groups, hailed>>
  BY DEF Login, view
<1>3. \A c \in Bots \ {b} : Connected(c)' = Connected(c)
  BY DEF Login, Connected, Common, TypeOK
<1>4. GroupOf(groupData, b) = NoGroup => UNCHANGED output
  BY DEF Login
<1>5. \A c \in Bots : requests'[c] = <<>>
  BY <1>1 DEF Login, Common, TypeOK
<1> QED BY <1>1, <1>2, <1>3, <1>4, <1>5, LoginExtends, AnnouncedPaced

\* Reading a line: what other lines tell is still to be learnt.
LEMMA ReadPaced ==
    ASSUME Common, PacedInv, NEW p \in Processes, Observe(p)
    PROVE  LET line == Head(output[p])
           IN  /\ line \in Lines(p) /\ line \in Line /\ p[1] \in Bots
               /\ UNCHANGED <<groupData, requests, session, process, running>>
               /\ \A b \in Bots : /\ Connected(b)' = Connected(b) /\ Shares(b)' = Shares(b)
                                  /\ Current(b)' = Current(b) /\ Current(b)[1] = b
                                  /\ IsToLearn(b) => IsToLearn(b)' \/ Lists(line, b)
                                  /\ LeaveLine \in Lines(Current(b)) =>
                                        \/ LeaveLine \in Lines(Current(b))'
                                        \/ line = LeaveLine /\ p = Current(b)
               /\ \A g : Has(g)' = Has(g)
               /\ OneRequest' /\ LinesAreCurrent'
<1> DEFINE line == Head(output[p])
<1>1. /\ line \in Lines(p) /\ line \in Line /\ Lines(p) = Lines(p)' \cup {line}
      /\ \A q \in Processes \ {p} : Lines(q)' = Lines(q)
      /\ p[1] \in Bots
  BY ReadLines, ProcessesOfBots DEF Observe, Common
<1> HIDE DEF line
<1>2. UNCHANGED <<groupData, requests, session, process, running>>
  BY DEF Observe, server
<1>3. \A b \in Bots : /\ Connected(b)' = Connected(b) /\ Shares(b)' = Shares(b)
                      /\ Current(b)' = Current(b) /\ Current(b)[1] = b /\ Current(b) \in Processes
  BY <1>2, CurrentOf DEF Connected, Shares, Current, Common
<1>4. ASSUME NEW b \in Bots
      PROVE  /\ IsToLearn(b) => IsToLearn(b)' \/ Lists(line, b)
             /\ LeaveLine \in Lines(Current(b)) =>
                   LeaveLine \in Lines(Current(b))' \/ (line = LeaveLine /\ p = Current(b))
  <2>1. IsToLearn(b) => IsToLearn(b)' \/ Lists(line, b)
    BY <1>1 DEF IsToLearn
  <2>2. LeaveLine \in Lines(Current(b)) =>
           LeaveLine \in Lines(Current(b))' \/ (line = LeaveLine /\ p = Current(b))
    BY <1>1, <1>3
  <2> QED BY <2>1, <2>2
<1>5. \A g : Has(g)' = Has(g)
  BY <1>2 DEF Has
<1>6. \A q \in Processes : Lines(q)' \subseteq Lines(q)
  BY <1>1
<1>7. OneRequest'
  BY <1>2, <1>3, <1>6 DEF PacedInv, OneRequest, Settled
<1>8. LinesAreCurrent'
  BY <1>2, <1>3, <1>6, ProcessesOfBots DEF PacedInv, LinesAreCurrent, NamesOf
<1> QED BY <1>1, <1>2, <1>3, <1>4, <1>5, <1>7, <1>8 DEF line

\* A reader takes a line.
LEMMA ObservePaced ==
    ASSUME Common, PacedInv, NEW p \in Processes, Observe(p)
    PROVE  PacedInv'
<1> DEFINE line == Head(output[p])
           bot == p[1]
           has(h) == \E n \in Names : GroupOf(groupData, n) = h
<1>1. /\ line \in Lines(p) /\ line \in Line /\ bot \in Bots
      /\ UNCHANGED <<groupData, requests, session, process, running>>
      /\ \A g : Has(g)' = Has(g)
      /\ OneRequest' /\ LinesAreCurrent'
  BY ReadPaced
<1>2. \A b \in Bots : /\ Connected(b)' = Connected(b) /\ Shares(b)' = Shares(b)
                      /\ Current(b)' = Current(b) /\ Current(b)[1] = b
                      /\ IsToLearn(b) => IsToLearn(b)' \/ Lists(line, b)
                      /\ LeaveLine \in Lines(Current(b)) =>
                            LeaveLine \in Lines(Current(b))' \/ (line = LeaveLine /\ p = Current(b))
  BY ReadPaced
<1> HIDE DEF line
<1>3. line # LeaveLine => \A b \in Bots : requests[b] = <<>>
  BY <1>1 DEF PacedInv, OneRequest
<1>4. <<>> # <<LeaveRequest>>
  OBVIOUS
<1>5. CASE ObserveRoster(bot, p, line)
  <2> DEFINE g == line.group
             leavers == Leavers(g, line.names)
             greet == Greets(bot, line, [b \in Bots |-> IF b \in leavers THEN NoGroup ELSE greeted_groups[b]])
  <2>1. line.type = "GroupInfo" /\ line # LeaveLine /\ g \in GroupIds /\ line.names = NamesOf(groupData, g)
        /\ bot \in line.names
    <3>1. line.type = "GroupInfo"
      BY <1>5 DEF ObserveRoster
    <3>2. line # LeaveLine /\ g \in GroupIds
      BY <1>1, <3>1, KindsOfLines
    <3>3. line.names = NamesOf(groupData, g) /\ bot \in line.names
      BY <1>1, <3>1 DEF PacedInv, LinesAreCurrent
    <3> QED BY <3>1, <3>2, <3>3
  <2>2. \A b \in Bots : b \in line.names <=> GroupOf(groupData, b) = g
    BY <2>1, GroupsAsNames, ProcessesOfBots DEF Common, InGroup
  <2>3. Has(g)
    BY <1>1, <2>1, <2>2, ProcessesOfBots DEF Has
  <2>4. \A b \in leavers : b \in Bots /\ groups[b] = g /\ b \notin line.names /\ b # bot
                           /\ GroupOf(groupData, b) = NoGroup /\ hailed[b].group = NoGroup
    <3>1. \A b \in leavers : b \in Bots /\ groups[b] = g /\ b \notin line.names /\ b # bot
      BY <2>1 DEF Leavers
    <3>2. \A b \in leavers : GroupOf(groupData, b) = NoGroup
      BY <2>1, <2>2, <2>3, <3>1 DEF PacedInv, ViewIsRight
    <3> QED BY <3>1, <3>2 DEF PacedInv, HailsAreRemembered
  <2>5. \A b \in Bots : groups'[b] = IF b \in line.names THEN g
                                     ELSE IF b \in leavers THEN NoGroup ELSE groups[b]
    BY <1>5 DEF ObserveRoster
  <2>6. greet => bot \in running /\ greeted_groups[bot] # g
    BY <1>1, <2>4 DEF Greets
  <2>7. \A b \in Bots : greeted_groups'[b] = IF b = bot /\ greet THEN g
                                             ELSE IF b \in leavers THEN NoGroup ELSE greeted_groups[b]
    BY <1>1, <1>5, <2>4 DEF ObserveRoster
  <2>8. \A b \in Bots : IF b = bot /\ greet
                        THEN /\ hailed'[b].group = g
                             /\ hailed[b].group # g => hailed'[b].times = 1
                        ELSE hailed'[b] = hailed[b]
    <3>1. hailed' = [hailed EXCEPT ![bot] =
                        IF ~greet THEN @ ELSE [group |-> g, times |-> IF @.group = g THEN 2 ELSE 1]]
      BY <1>5 DEF ObserveRoster
    <3> HIDE DEF greet
    <3> QED BY <1>1, <3>1 DEF Common, TypeOK
  <2>9. greeting' = IF greet THEN greeting \cup {p} ELSE greeting
    BY <1>5 DEF ObserveRoster
  <2> HIDE DEF greet, leavers
  <2>10. greet => hailed[bot].group # g
    BY <1>1, <2>1, <2>6, GroupIdsAssumption DEF PacedInv, HailsAreRemembered
  <2>11. HailsAreRemembered'
    <3> SUFFICES ASSUME NEW b \in Bots, hailed'[b].group # NoGroup
                 PROVE  /\ greeted_groups'[b] = hailed'[b].group
                        /\ GroupOf(groupData, b) # NoGroup
                        /\ GroupOf(groupData, b) = hailed'[b].group \/ ~has(hailed'[b].group)
      BY <1>1 DEF HailsAreRemembered, Has
    <3>1. CASE b = bot /\ greet
      <4>1. hailed'[b].group = g /\ greeted_groups'[b] = g /\ GroupOf(groupData, b) = g
        BY <2>1, <2>2, <2>7, <2>8, <3>1
      <4>2. g # NoGroup
        BY <2>1, GroupIdsAssumption
      <4>3. GroupOf(groupData, b) # NoGroup
        BY <4>1, <4>2
      <4>4. GroupOf(groupData, b) = hailed'[b].group /\ greeted_groups'[b] = hailed'[b].group
        BY <4>1
      <4> QED BY <4>3, <4>4
    <3>2. CASE ~(b = bot /\ greet)
      <4>1. hailed'[b] = hailed[b] /\ hailed[b].group # NoGroup /\ b \notin leavers
        BY <2>4, <2>8, <3>2
      <4>2. greeted_groups'[b] = greeted_groups[b]
        BY <2>7, <3>2, <4>1
      <4>3. /\ greeted_groups[b] = hailed[b].group
            /\ GroupOf(groupData, b) # NoGroup
            /\ GroupOf(groupData, b) = hailed[b].group \/ ~has(hailed[b].group)
        BY <4>1 DEF PacedInv, HailsAreRemembered, Has
      <4> QED BY <4>1, <4>2, <4>3
    <3> QED BY <3>1, <3>2
  <2>12. GreetedOnce'
    BY <2>8, <2>10 DEF PacedInv, GreetedOnce
  <2>13. GreetersRun'
    BY <1>1, <2>6, <2>9 DEF PacedInv, GreetersRun
  <2>14. ViewIsRight'
    <3> SUFFICES ASSUME NEW b \in Bots
                 PROVE  /\ groups'[b] \in GroupIds =>
                              \/ groups'[b] = GroupOf(groupData, b)
                              \/ ~has(groups'[b]) /\ IsToLearn(b)'
                              \/ GroupOf(groupData, b) = NoGroup /\ LeaveLine \in Lines(Current(b))'
                        /\ groups'[b] \notin GroupIds /\ Shares(b) /\ Connected(b) => IsToLearn(b)'
      BY <1>1, <1>2, <1>3, <1>4, <2>1 DEF ViewIsRight, Has
    <3>1. CASE b \in line.names
      BY <2>1, <2>2, <2>5, <3>1
    <3>2. CASE b \in leavers
      <4>1. groups'[b] = NoGroup /\ ~Shares(b)
        BY <2>4, <2>5, <3>2 DEF Shares
      <4> QED BY <4>1, GroupIdsAssumption
    <3>3. CASE b \notin line.names /\ b \notin leavers
      <4>1. groups'[b] = groups[b]
        BY <2>5, <3>3
      <4>2. IsToLearn(b) => IsToLearn(b)'
        BY <1>2, <3>3 DEF Lists
      <4>3. LeaveLine \in Lines(Current(b)) => LeaveLine \in Lines(Current(b))'
        BY <1>2, <2>1
      <4>4. requests[b] # <<LeaveRequest>>
        BY <1>3, <1>4, <2>1
      <4>5. /\ groups[b] \in GroupIds =>
                  \/ groups[b] = GroupOf(groupData, b)
                  \/ ~Has(groups[b]) /\ IsToLearn(b)
                  \/ GroupOf(groupData, b) = NoGroup /\ LeaveLine \in Lines(Current(b))
            /\ groups[b] \notin GroupIds /\ Shares(b) /\ Connected(b) => IsToLearn(b)
        BY <4>4 DEF PacedInv, ViewIsRight
      <4>6. ~Has(groups[b]) => ~has(groups'[b])
        BY <4>1 DEF Has
      <4> QED BY <4>1, <4>2, <4>3, <4>5, <4>6
    <3> QED BY <3>1, <3>2, <3>3
  <2> QED BY <1>1, <2>11, <2>12, <2>13, <2>14 DEF PacedInv
<1>6. CASE ObserveLeave(bot, line)
  <2>1. line = LeaveLine
    BY <1>1, <1>6, KindsOfLines DEF ObserveLeave
  <2>2. p = Current(bot) /\ (GroupOf(groupData, bot) = NoGroup \/ requests[bot] = <<LeaveRequest>>)
    BY <1>1, <2>1 DEF PacedInv, LinesAreCurrent
  <2>3. \A b \in Bots : /\ groups'[b] = IF b = bot THEN Unknown ELSE groups[b]
                        /\ greeted_groups'[b] = IF b = bot THEN NoGroup ELSE greeted_groups[b]
                        /\ hailed'[b] = IF b = bot THEN NotHailed ELSE hailed[b]
    BY <1>6 DEF ObserveLeave, Common, TypeOK
  <2>4. greeting' = greeting
    BY <1>6 DEF ObserveLeave
  <2>5. HailsAreRemembered' /\ GreetedOnce'
    BY <1>1, <2>3 DEF PacedInv, HailsAreRemembered, GreetedOnce, NotHailed, Has
  <2>6. \A b \in Bots : /\ IsToLearn(b) => IsToLearn(b)'
                        /\ b # bot /\ LeaveLine \in Lines(Current(b)) => LeaveLine \in Lines(Current(b))'
    BY <1>2, <2>1, <2>2 DEF Lists, LeaveLine
  <2>7. ViewIsRight'
    <3> SUFFICES ASSUME NEW b \in Bots
                 PROVE  /\ groups'[b] \in GroupIds =>
                              \/ groups'[b] = GroupOf(groupData, b)
                              \/ ~has(groups'[b]) /\ IsToLearn(b)'
                              \/ GroupOf(groupData, b) = NoGroup /\ LeaveLine \in Lines(Current(b))'
                        /\ groups'[b] \notin GroupIds /\ Shares(b) /\ Connected(b) =>
                              IsToLearn(b)' \/ requests[b] = <<LeaveRequest>>
                        /\ groups'[b] \in GroupIds /\ requests[b] = <<LeaveRequest>> =>
                              LeaveLine \in Lines(Current(b))'
      BY <1>1, <1>2 DEF ViewIsRight, Has
    <3>1. CASE b = bot
      BY <2>2, <2>3, <3>1, ControllerAssumption DEF Shares
    <3>2. CASE b # bot
      <4>1. groups'[b] = groups[b]
        BY <2>3, <3>2
      <4>2. ~Has(groups[b]) => ~has(groups'[b])
        BY <4>1 DEF Has
      <4> QED BY <2>6, <3>2, <4>1, <4>2 DEF PacedInv, ViewIsRight
    <3> QED BY <3>1, <3>2
  <2> QED BY <1>1, <2>4, <2>5, <2>7 DEF PacedInv, GreetersRun
<1>7. CASE ObserveDeparture(bot, line)
  <2>1. line # LeaveLine /\ GroupOf(groupData, line.name) = NoGroup /\ line.type = "GroupDisbandInfo"
    <3>1. line.type = "GroupDisbandInfo"
      BY <1>7 DEF ObserveDeparture
    <3>2. line # LeaveLine
      BY <1>1, <3>1, KindsOfLines
    <3>3. GroupOf(groupData, line.name) = NoGroup
      BY <1>1, <3>1 DEF PacedInv, LinesAreCurrent
    <3> QED BY <3>1, <3>2, <3>3
  <2>2. \A b \in Bots : \/ groups'[b] = groups[b] /\ greeted_groups'[b] = greeted_groups[b]
                        \/ groups'[b] = NoGroup /\ GroupOf(groupData, b) = NoGroup
    BY <1>7, <2>1 DEF ObserveDeparture, Common, TypeOK
  <2>3. hailed' = hailed /\ greeting' = greeting
    BY <1>7 DEF ObserveDeparture
  <2>4. HailsAreRemembered'
    BY <1>1, <2>2, <2>3 DEF PacedInv, HailsAreRemembered, Has
  <2>5. \A b \in Bots : /\ IsToLearn(b) => IsToLearn(b)'
                        /\ LeaveLine \in Lines(Current(b)) => LeaveLine \in Lines(Current(b))'
    BY <1>2, <2>1 DEF Lists
  <2>6. ViewIsRight'
    <3> SUFFICES ASSUME NEW b \in Bots
                 PROVE  /\ groups'[b] \in GroupIds =>
                              \/ groups'[b] = GroupOf(groupData, b)
                              \/ ~has(groups'[b]) /\ IsToLearn(b)'
                              \/ GroupOf(groupData, b) = NoGroup /\ LeaveLine \in Lines(Current(b))'
                        /\ groups'[b] \notin GroupIds /\ Shares(b) /\ Connected(b) => IsToLearn(b)'
      BY <1>1, <1>2, <1>3, <1>4, <2>1 DEF ViewIsRight, Has
    <3>1. CASE groups'[b] = NoGroup /\ GroupOf(groupData, b) = NoGroup
      BY <3>1, GroupIdsAssumption DEF Shares
    <3>2. CASE groups'[b] = groups[b]
      <4>1. ~Has(groups[b]) => ~has(groups'[b])
        BY <3>2 DEF Has
      <4>2. requests[b] # <<LeaveRequest>>
        BY <1>3, <1>4, <2>1
      <4> QED BY <2>5, <3>2, <4>1, <4>2 DEF PacedInv, ViewIsRight
    <3> QED BY <2>2, <3>1, <3>2
  <2> QED BY <1>1, <2>3, <2>4, <2>6 DEF PacedInv, GreetersRun, GreetedOnce
<1> QED BY <1>5, <1>6, <1>7 DEF Observe, line

\* Where nothing that the paced part speaks of changes, it is kept.
LEMMA NothingMoves ==
    ASSUME PacedInv, greeting' \subseteq greeting,
           UNCHANGED <<groupData, requests, session, process, running, output, groups, greeted_groups, hailed>>
    PROVE  PacedInv'
<1>1. /\ \A p : Lines(p)' = Lines(p)
      /\ \A b : /\ Current(b)' = Current(b) /\ Lines(Current(b))' = Lines(Current(b)) /\ Shares(b)' = Shares(b)
                /\ Connected(b)' = Connected(b) /\ IsToLearn(b)' = IsToLearn(b)
      /\ \A g : Has(g)' = Has(g)
  BY DEF Lines, Current, Shares, Connected, IsToLearn, Has
<1>2. OneRequest'
  BY <1>1 DEF PacedInv, OneRequest, Settled
<1>3. LinesAreCurrent'
  BY <1>1 DEF PacedInv, LinesAreCurrent, NamesOf
<1>4. HailsAreRemembered' /\ GreetersRun' /\ GreetedOnce'
  BY DEF PacedInv, HailsAreRemembered, GreetersRun, GreetedOnce, Has
<1>5. ViewIsRight'
  <2>1. \A b \in Bots : ~Has(groups[b]) => ~Has(groups[b])'
    BY DEF Has
  <2> QED BY <1>1, <2>1 DEF PacedInv, ViewIsRight
<1> QED BY <1>2, <1>3, <1>4, <1>5 DEF PacedInv

\* A reader has sent its greeting.
LEMMA GreetPaced ==
    ASSUME Common, PacedInv, NEW p \in Processes, Greet(p)
    PROVE  PacedInv'
<1>1. p[1] \in running
  BY DEF PacedInv, GreetersRun, Greet
<1>2. /\ UNCHANGED <<groupData, requests, session, process, running, output, groups, greeted_groups, hailed>>
      /\ greeting' \subseteq greeting
  BY <1>1 DEF Greet, server, view
<1> QED BY <1>2, NothingMoves

\* Every step keeps the paced part.
LEMMA PacedStep ==
    ASSUME Common, paced, PacedInv, [Next]_vars
    PROVE  PacedInv'
<1>1. Common'
  BY CommonStep
<1>2. CASE UNCHANGED vars
  BY <1>2, NothingMoves DEF vars, server, view
<1>3. CASE \E leader, member \in Names, g \in GroupIds : Invite(leader, member, g)
  BY <1>3, InvitePaced
<1>4. CASE \E v \in invites : ClientJoins(v)
  BY <1>1, <1>4, ClientJoinsPaced
<1>5. CASE \E n \in Names : ClientLeaves(n)
  BY <1>1, <1>5, ClientLeavesPaced
<1>6. CASE \E b \in Bots : Leave(b) \/ Arrives(b) \/ Stop(b) \/ Closed(b) \/ Start(b) \/ Login(b)
  BY <1>1, <1>6, LeavePaced, ArrivesPaced, StopPaced, ClosedPaced, StartPaced, LoginPaced
<1>7. CASE \E p \in Processes : Observe(p) \/ Greet(p)
  BY <1>7, ObservePaced, GreetPaced
<1> QED BY <1>2, <1>3, <1>4, <1>5, <1>6, <1>7 DEF Next

\* It holds at the beginning.
LEMMA PacedInit == Init => PacedInv
<1> SUFFICES ASSUME Init PROVE PacedInv
  OBVIOUS
<1>1. TypeOK
  BY CommonInit DEF Common
<1>2. \A p \in Processes : Lines(p) = {}
  BY DEF Init, Lines
<1>3. \A b \in Bots : groups[b] \notin GroupIds /\ hailed[b] = NotHailed /\ requests[b] = <<>>
                     /\ GroupOf(groupData, b) = NoGroup
  <2>1. \A b \in Bots : GroupOf(groupData, b) = NoGroup
    BY DEF Init, GroupOf, EntriesOf
  <2> QED BY <2>1, ControllerAssumption DEF Init
<1>4. OneRequest /\ LinesAreCurrent
  BY <1>2, <1>3 DEF OneRequest, LinesAreCurrent
<1>5. HailsAreRemembered /\ GreetedOnce
  BY <1>3 DEF HailsAreRemembered, GreetedOnce, NotHailed
<1>6. ViewIsRight
  BY <1>3 DEF ViewIsRight, Shares
<1>7. GreetersRun
  BY DEF Init, GreetersRun
<1> QED BY <1>4, <1>5, <1>6, <1>7 DEF PacedInv

-----------------------------------------------------------------------------
\* Commands at any pace, step by step.

\* Where the lines are that a process has printed.
LEMMA ExtendedLines ==
    ASSUME TypeOK, NEW R, NEW new \in Seq(Line), Extends(R, new), NEW p \in Processes
    PROVE  /\ \A i \in DOMAIN output[p] : i \in DOMAIN output'[p] /\ output'[p][i] = output[p][i]
           /\ \A i \in DOMAIN output'[p] :
                 i \in DOMAIN output[p] \/ (p \in R /\ \E k \in DOMAIN new : output'[p][i] = new[k])
           /\ p \in R => \A i \in DOMAIN output[p], k \in DOMAIN new :
                            \E j \in DOMAIN output'[p] : i < j /\ output'[p][j] = new[k]
<1> DEFINE old == output[p]
           all == old \o new
<1>1. /\ old \in Seq(Line) /\ all \in Seq(Line) /\ Len(all) = Len(old) + Len(new)
      /\ \A i \in 1 .. Len(old) + Len(new) : all[i] = IF i <= Len(old) THEN old[i] ELSE new[i - Len(old)]
  BY ConcatProperties DEF TypeOK
<1>2. /\ Len(old) \in Nat /\ Len(new) \in Nat
      /\ DOMAIN all = 1 .. Len(all) /\ DOMAIN old = 1 .. Len(old) /\ DOMAIN new = 1 .. Len(new)
  BY <1>1, LenProperties
<1>3. output'[p] = IF p \in R THEN all ELSE old
  BY DEF Extends
<1> HIDE DEF all, old
<1>4. \A i \in DOMAIN old : i \in DOMAIN all /\ all[i] = old[i]
  BY <1>1, <1>2, SMT
<1>5. ASSUME NEW i \in DOMAIN all, i \notin DOMAIN old
      PROVE  \E k \in DOMAIN new : all[i] = new[k]
  <2>1. i - Len(old) \in DOMAIN new /\ all[i] = new[i - Len(old)]
    BY <1>1, <1>2, <1>5, SMT
  <2> QED BY <2>1
<1>6. ASSUME NEW i \in DOMAIN old, NEW k \in DOMAIN new
      PROVE  \E j \in DOMAIN all : i < j /\ all[j] = new[k]
  <2>1. /\ k + Len(old) \in 1 .. Len(old) + Len(new) /\ i < k + Len(old)
        /\ ~(k + Len(old) <= Len(old)) /\ (k + Len(old)) - Len(old) = k
    BY <1>2, <1>6, SMT
  <2>2. all[k + Len(old)] = new[k]
    BY <1>1, <2>1
  <2> QED BY <1>1, <1>2, <2>1, <2>2
<1>7. CASE p \in R
  BY <1>3, <1>4, <1>5, <1>6, <1>7 DEF old
<1>8. CASE p \notin R
  BY <1>3, <1>8 DEF old
<1> QED BY <1>7, <1>8

\* The processes of R print what is true, and whoever no longer is alone with what
\* the view knows of it is on a roster that all of its group print.
BotsKeepGroups(R, new) ==
    \A b \in Bots :
        /\ Connected(b)' /\ Current(b)' = Current(b)
        /\ GroupOf(groupData, b) # NoGroup => GroupOf(groupData', b) = GroupOf(groupData, b)
        /\ WantsToLeave(b) /\ Shares(b)' => WantsToLeave(b)'
        /\ Shares(b)' =>
              \/ Shares(b)
              \/ /\ \A c \in Bots : GroupOf(groupData', c) = GroupOf(groupData', b) => Current(c) \in R
                 /\ \E k \in DOMAIN new : Lists(new[k], b)
NewsAreTrue(R, new) ==
    \A p \in R, k \in DOMAIN new :
        /\ new[k].type = "GroupInfo" =>
              p[1] \in new[k].names /\ \A b \in Bots : b \in new[k].names <=> GroupOf(groupData', b) = new[k].group
        /\ new[k].type = "GroupDisbandInfo" => new[k].name \notin Bots
        /\ new[k] = LeaveLine => WantsToLeave(p[1])'

\* More lines at the end keep the undisturbed part, if they are true and keep bots in their groups.
LEMMA UndisturbedGrows ==
    ASSUME Common, UndisturbedInv, NEW R, NEW new \in Seq(Line), Extends(R, new), UNCHANGED groups,
           \A p \in R : p = Current(p[1]), BotsKeepGroups(R, new), NewsAreTrue(R, new)
    PROVE  UndisturbedInv'
<1>0. /\ \A b \in Bots : /\ Connected(b)' /\ Current(b)' = Current(b)
                         /\ GroupOf(groupData, b) # NoGroup => GroupOf(groupData', b) = GroupOf(groupData, b)
                         /\ WantsToLeave(b) /\ Shares(b)' => WantsToLeave(b)'
      /\ \A b \in Bots : Shares(b)' =>
            \/ Shares(b)
            \/ /\ \A c \in Bots : GroupOf(groupData', c) = GroupOf(groupData', b) => Current(c) \in R
               /\ \E k \in DOMAIN new : Lists(new[k], b)
  BY DEF BotsKeepGroups
<1>1. ASSUME NEW p \in Processes, NEW i \in DOMAIN output[p], NEW b \in Bots, LearnsAfter(p, i, b)
      PROVE  LearnsAfter(p, i, b)'
  BY <1>1, ExtendedLines DEF LearnsAfter, Common
<1>2. ASSUME NEW p \in Processes, NEW i \in DOMAIN output[p], NEW b \in Bots, p \in R,
             \E k \in DOMAIN new : Lists(new[k], b)
      PROVE  LearnsAfter(p, i, b)'
  BY <1>2, ExtendedLines DEF LearnsAfter, Common
<1>3. \A b \in Bots : Shares(b) => GroupOf(groupData, b) # NoGroup
  BY DEF Shares
<1>4. ASSUME NEW p \in Processes, NEW i \in DOMAIN output'[p]
      PROVE  LineIsHarmless(p, i)'
  <2> DEFINE line == output'[p][i]
  <2>0. p[1] \in Bots
    BY ProcessesOfBots
  <2>1. CASE i \in DOMAIN output[p]
    <3>1. line = output[p][i] /\ LineIsHarmless(p, i) /\ line \in Line
      BY <2>1, ExtendedLines, LinesAreLines DEF UndisturbedInv, Common, Lines
    <3> HIDE DEF line
    <3>2. p = Current(p[1]) /\ p = Current(p[1])'
      BY <1>0, <2>0, <3>1 DEF LineIsHarmless
    <3>3. ASSUME line.type = "GroupInfo"
          PROVE  /\ p[1] \in line.names
                 /\ \A b \in Bots :
                       /\ b \in line.names => GroupOf(groupData', b) = line.group
                       /\ Shares(b)' /\ GroupOf(groupData', b) = line.group /\ b \notin line.names
                            => LearnsAfter(p, i, b)'
      <4>1. line.group # NoGroup
        <5>1. line.group \in GroupIds
          BY <3>1, <3>3, KindsOfLines
        <5> QED BY <5>1, GroupIdsAssumption
      <4>2. /\ p[1] \in line.names
            /\ \A b \in Bots :
                  /\ b \in line.names => GroupOf(groupData, b) = line.group
                  /\ Shares(b) /\ GroupOf(groupData, b) = line.group /\ b \notin line.names => LearnsAfter(p, i, b)
        BY <3>1, <3>3 DEF LineIsHarmless
      <4>3. \A b \in Bots : b \in line.names => GroupOf(groupData', b) = line.group
        BY <1>0, <4>1, <4>2
      <4>4. ASSUME NEW b \in Bots, Shares(b)', GroupOf(groupData', b) = line.group, b \notin line.names
            PROVE  LearnsAfter(p, i, b)'
        <5>1. CASE Shares(b)
          BY <1>0, <1>1, <1>3, <2>1, <4>2, <4>4, <5>1
        <5>2. CASE ~Shares(b)
          <6>1. GroupOf(groupData', p[1]) = GroupOf(groupData', b)
            BY <2>0, <4>2, <4>3, <4>4
          <6>2. p \in R /\ \E k \in DOMAIN new : Lists(new[k], b)
            BY <1>0, <2>0, <3>2, <4>4, <5>2, <6>1
          <6> QED BY <1>2, <2>1, <6>2
        <5> QED BY <5>1, <5>2
      <4> QED BY <4>2, <4>3, <4>4
    <3>4. line.type = "GroupDisbandInfo" => line.name \notin Bots
      BY <3>1 DEF LineIsHarmless
    <3>5. ASSUME line = LeaveLine, Shares(p[1])'
          PROVE  LearnsAfter(p, i, p[1])' \/ WantsToLeave(p[1])'
      <4>1. CASE Shares(p[1])
        <5>1. LearnsAfter(p, i, p[1]) \/ WantsToLeave(p[1])
          BY <3>1, <3>5, <4>1 DEF LineIsHarmless
        <5> QED BY <1>0, <1>1, <2>0, <2>1, <3>5, <5>1
      <4>2. CASE ~Shares(p[1])
        <5>1. p \in R /\ \E k \in DOMAIN new : Lists(new[k], p[1])
          BY <1>0, <2>0, <3>2, <3>5, <4>2
        <5> QED BY <1>2, <2>0, <2>1, <5>1
      <4> QED BY <4>1, <4>2
    <3> QED BY <3>2, <3>3, <3>4, <3>5 DEF LineIsHarmless, line
  <2>2. CASE i \notin DOMAIN output[p]
    <3>1. PICK k \in DOMAIN new : p \in R /\ line = new[k]
      BY <2>2, ExtendedLines DEF Common
    <3>2. p = Current(p[1])'
      BY <1>0, <2>0, <3>1
    <3> HIDE DEF line
    <3>3. /\ line.type = "GroupInfo" =>
                p[1] \in line.names /\ \A b \in Bots : b \in line.names <=> GroupOf(groupData', b) = line.group
          /\ line.type = "GroupDisbandInfo" => line.name \notin Bots
          /\ line = LeaveLine => WantsToLeave(p[1])'
      BY <3>1 DEF NewsAreTrue
    <3> QED BY <3>2, <3>3 DEF LineIsHarmless, line
  <2> QED BY <2>1, <2>2
<1>5. ASSUME NEW b \in Bots
      PROVE  /\ groups[b] \in GroupIds => groups[b] = GroupOf(groupData', b)
             /\ groups[b] \notin GroupIds /\ Shares(b)' => IsToLearn(b)' \/ WantsToLeave(b)'
  <2>1. groups[b] \in GroupIds => groups[b] = GroupOf(groupData', b)
    BY <1>0, GroupIdsAssumption DEF UndisturbedInv
  <2>2. ASSUME groups[b] \notin GroupIds, Shares(b)'
        PROVE  IsToLearn(b)' \/ WantsToLeave(b)'
    <3>1. CASE Shares(b)
      <4>1. IsToLearn(b) \/ WantsToLeave(b)
        BY <2>2, <3>1 DEF UndisturbedInv
      <4>2. IsToLearn(b) => IsToLearn(b)'
        BY DEF IsToLearn, Extends
      <4> QED BY <1>0, <2>2, <4>1, <4>2
    <3>2. CASE ~Shares(b)
      <4>1. Current(b) \in R /\ Current(b) \in Processes /\ \E k \in DOMAIN new : Lists(new[k], b)
        BY <1>0, <2>2, <3>2, CurrentOf DEF Common
      <4>2. Lines(Current(b))' = Lines(Current(b)) \cup {new[k] : k \in DOMAIN new}
        BY <1>0, <4>1 DEF Extends
      <4> QED BY <1>0, <4>1, <4>2 DEF IsToLearn
    <3> QED BY <3>1, <3>2
  <2> QED BY <2>1, <2>2
<1> QED BY <1>0, <1>4, <1>5 DEF UndisturbedInv

\* A step that prints nothing.
LEMMA NothingPrinted ==
    ASSUME TypeOK, UNCHANGED output
    PROVE  Extends({}, <<>>) /\ <<>> \in Seq(Line)
  BY DEF Extends, TypeOK, Lines

\* A request that is sent is behind those that were.
LEMMA AppendedWish ==
    ASSUME TypeOK, NEW b \in Bots, NEW r, requests'[b] = Append(requests[b], r)
    PROVE  /\ WantsToLeave(b) => WantsToLeave(b)'
           /\ r = LeaveRequest => WantsToLeave(b)'
<1> DEFINE old == requests[b]
           all == Append(old, r)
<1>1. old \in Seq(Request)
  BY DEF TypeOK
<1>2. /\ Len(old) \in Nat /\ DOMAIN old = 1 .. Len(old) /\ DOMAIN all = 1 .. Len(old) + 1
      /\ all[Len(old) + 1] = r /\ \A i \in 1 .. Len(old) : all[i] = old[i]
  BY <1>1, SMT
<1>3. Len(old) + 1 \in DOMAIN all /\ \A i \in DOMAIN old : i \in DOMAIN all /\ all[i] = old[i]
  BY <1>2, SMT
<1> QED BY <1>2, <1>3 DEF WantsToLeave

\* In the undisturbed case bots are never without a session.
LEMMA InviteUndisturbed ==
    ASSUME Common, UndisturbedInv, NEW leader \in Names, NEW member \in Names, NEW g \in GroupIds,
           Invite(leader, member, g)
    PROVE  UndisturbedInv'
<1>1. UNCHANGED <<session, process, running, output, groups>>
  BY DEF Invite, view
<1>2. Extends({}, <<>>) /\ <<>> \in Seq(Line)
  BY <1>1, NothingPrinted DEF Common
<1>3. \/ UNCHANGED groupData
      \/ GroupOf(groupData, leader) = NoGroup /\ Goes(leader, g) /\ ~Has(g)
  <2>1. g \notin founded => ~Has(g)
    BY GroupsAsNames DEF Common, GroupsFounded, Has
  <2> QED BY <2>1, InviteFacts
<1>4. ASSUME NEW b \in Bots
      PROVE  /\ Connected(b)' /\ Current(b)' = Current(b)
             /\ GroupOf(groupData, b) # NoGroup => GroupOf(groupData', b) = GroupOf(groupData, b)
             /\ Shares(b)' => Shares(b)
  <2>1. b \in Names
    BY ProcessesOfBots
  <2> QED BY <1>1, <1>3, <2>1, GroupIdsAssumption DEF UndisturbedInv, Connected, Current, Goes, Shares, Has
<1>5. ASSUME NEW b \in Bots, WantsToLeave(b)
      PROVE  WantsToLeave(b)'
  <2>1. requests'[b] = requests[b] \/ requests'[b] = Append(requests[b], JoinRequest(leader))
    BY DEF Invite
  <2>2. CASE requests'[b] = requests[b]
    BY <1>5, <2>2 DEF WantsToLeave
  <2>3. CASE requests'[b] = Append(requests[b], JoinRequest(leader))
    BY <1>5, <2>3, AppendedWish DEF Common
  <2> QED BY <2>1, <2>2, <2>3
<1>6. BotsKeepGroups({}, <<>>) /\ NewsAreTrue({}, <<>>)
  BY <1>4, <1>5 DEF BotsKeepGroups, NewsAreTrue
<1> QED BY <1>1, <1>2, <1>6, UndisturbedGrows

\* The undisturbed part, action by action: a bot is told to leave.
LEMMA LeaveUndisturbed ==
    ASSUME Common, UndisturbedInv, NEW b \in Bots, Leave(b)
    PROVE  UndisturbedInv'
<1>1. UNCHANGED <<groupData, session, process, running, groups>>
  BY DEF Leave, view
<1>2. Extends({Current(b)}, <<LeaveLine>>) /\ <<LeaveLine>> \in Seq(Line)
  BY LeaveExtends, OneLine, KindsOfLines DEF Common
<1>3. \A c \in Bots : /\ Connected(c)' /\ Current(c)' = Current(c) /\ Current(c)[1] = c
                      /\ Shares(c)' = Shares(c)
  BY <1>1, CurrentOf DEF UndisturbedInv, Connected, Current, Shares, Common
<1>4. WantsToLeave(b)'
  <2>1. requests'[b] = Append(requests[b], LeaveRequest)
    BY DEF Leave, Common, TypeOK
  <2> QED BY <2>1, AppendedWish DEF Common
<1>5. \A c \in Bots : WantsToLeave(c) => WantsToLeave(c)'
  <2>1. \A c \in Bots \ {b} : requests'[c] = requests[c]
    BY DEF Leave, Common, TypeOK
  <2> QED BY <1>4, <2>1 DEF WantsToLeave
<1>6. LeaveLine.type \notin {"GroupInfo", "GroupDisbandInfo"}
  BY DEF LeaveLine
<1>7. \A k \in DOMAIN <<LeaveLine>> : <<LeaveLine>>[k] = LeaveLine
  OBVIOUS
<1>8. \A p \in {Current(b)} : p[1] = b /\ p = Current(p[1])
  BY <1>3
<1>9. BotsKeepGroups({Current(b)}, <<LeaveLine>>)
  BY <1>1, <1>3, <1>5 DEF BotsKeepGroups
<1>10. NewsAreTrue({Current(b)}, <<LeaveLine>>)
  BY <1>4, <1>6, <1>7, <1>8 DEF NewsAreTrue
<1> DEFINE R == {Current(b)}
           new == <<LeaveLine>>
<1>11. /\ new \in Seq(Line) /\ Extends(R, new) /\ UNCHANGED groups
       /\ \A p \in R : p = Current(p[1])
       /\ BotsKeepGroups(R, new) /\ NewsAreTrue(R, new)
  BY <1>1, <1>2, <1>8, <1>9, <1>10
<1> HIDE DEF R, new
<1> QED BY <1>11, UndisturbedGrows

\* A character joins, and it is a game client or a bot without a group.
LEMMA JoinedUndisturbed ==
    ASSUME Common, UndisturbedInv, NEW n \in Names, NEW leader \in Names, Joined(n, leader),
           n \in departed' => n \notin Bots,
           UNCHANGED <<session, process, running, groups>>,
           \A b \in Bots : WantsToLeave(b) => WantsToLeave(b)'
    PROVE  UndisturbedInv'
<1> DEFINE g == GroupOf(groupData, leader)
<1>1. \A b \in Bots : /\ Connected(b)' /\ Connected(b)' = Connected(b) /\ Current(b)' = Current(b)
                      /\ Current(b) \in Processes /\ Current(b)[1] = b
  BY CurrentOf DEF UndisturbedInv, Connected, Current, Common
<1>2. CASE UNCHANGED <<groupData, invites, output, departed>>
  <2>1. Extends({}, <<>>) /\ <<>> \in Seq(Line)
    BY <1>2, NothingPrinted DEF Common
  <2>2. \A b \in Bots : Shares(b)' = Shares(b)
    BY <1>2 DEF Shares
  <2>3. BotsKeepGroups({}, <<>>) /\ NewsAreTrue({}, <<>>)
    BY <1>1, <1>2, <2>2 DEF BotsKeepGroups, NewsAreTrue
  <2> QED BY <2>1, <2>3, UndisturbedGrows
<1>3. CASE /\ g \in GroupIds /\ g # GroupOf(groupData, n) /\ leader # n
           /\ Goes(n, g) /\ Told(g, TellsRoster(g))
           /\ departed' = IF GroupOf(groupData, n) = NoGroup THEN departed ELSE departed \cup {n}
  <2>1. Extends(Hearers(g), TellsRoster(g)) /\ TellsRoster(g) \in Seq(Line)
    BY <1>1, <1>3, ToldExtends, NewLines DEF Common
  <2>2. n \in Bots => GroupOf(groupData, n) = NoGroup
    BY <1>3
  <2>3. /\ NewRoster(g).type = "GroupInfo" /\ NewRoster(g).group = g
        /\ NewRoster(g).names = InGroup(groupData', g) /\ NewRoster(g) # LeaveLine
    <3>1. /\ NewRoster(g).type = "GroupInfo" /\ NewRoster(g).group = g
          /\ NewRoster(g).names = InGroup(groupData', g)
      BY <1>3, NewLines
    <3>2. NewRoster(g) # LeaveLine
      BY <3>1, KindsOfLines
    <3> QED BY <3>1, <3>2
  <2>4. \A b \in Bots : b \in NewRoster(g).names <=> GroupOf(groupData', b) = g
    BY <2>3, ProcessesOfBots DEF InGroup
  <2>5. \A k \in DOMAIN TellsRoster(g) : TellsRoster(g)[k] = NewRoster(g)
    BY DEF TellsRoster
  <2>6. 1 \in DOMAIN TellsRoster(g)
    BY DEF TellsRoster
  <2>7. \A p \in Hearers(g) : /\ p = Current(p[1]) /\ p[1] \in Bots /\ GroupOf(groupData', p[1]) = g
    BY ProcessesOfBots DEF Hearers
  <2>8. ASSUME NEW b \in Bots, Shares(b)', ~Shares(b)
        PROVE  /\ \A c \in Bots : GroupOf(groupData', c) = GroupOf(groupData', b) => Current(c) \in Hearers(g)
               /\ \E k \in DOMAIN TellsRoster(g) : Lists(TellsRoster(g)[k], b)
    <3>1. GroupOf(groupData', b) = g
      BY <1>3, <2>8, ProcessesOfBots DEF Goes, Shares
    <3>2. \A c \in Bots : GroupOf(groupData', c) = g => Current(c) \in Hearers(g)
      BY <1>1 DEF Hearers
    <3>3. Lists(NewRoster(g), b)
      BY <2>3, <2>4, <3>1 DEF Lists
    <3> QED BY <2>5, <2>6, <3>1, <3>2, <3>3
  <2>9. \A b \in Bots : GroupOf(groupData, b) # NoGroup => GroupOf(groupData', b) = GroupOf(groupData, b)
    BY <1>3, <2>2, ProcessesOfBots DEF Goes
  <2>10. NewsAreTrue(Hearers(g), TellsRoster(g))
    BY <2>3, <2>4, <2>5, <2>7 DEF NewsAreTrue
  <2>11. BotsKeepGroups(Hearers(g), TellsRoster(g))
    BY <1>1, <2>8, <2>9 DEF BotsKeepGroups
  <2> HIDE DEF g
  <2> QED BY <2>1, <2>7, <2>10, <2>11, UndisturbedGrows
<1> QED BY <1>2, <1>3, JoinedFacts DEF Common, TypeOK

\* A character departs, and it is a game client or a bot without a group.
LEMMA LeftUndisturbed ==
    ASSUME Common, UndisturbedInv, NEW n \in Names, Left(n),
           n \in departed' => n \notin Bots,
           UNCHANGED <<session, process, running, groups>>,
           \A b \in Bots \ {n} : WantsToLeave(b) => WantsToLeave(b)',
           n \in Bots \/ UNCHANGED requests
    PROVE  UndisturbedInv'
<1> DEFINE g == GroupOf(groupData, n)
<1>1. \A b \in Bots : /\ Connected(b)' /\ Connected(b)' = Connected(b) /\ Current(b)' = Current(b)
                      /\ Current(b) \in Processes /\ Current(b)[1] = b
  BY CurrentOf DEF UndisturbedInv, Connected, Current, Common
<1>2. CASE g = NoGroup /\ UNCHANGED <<groupData, invites, output, hailed, departed>>
  <2>1. Extends({}, <<>>) /\ <<>> \in Seq(Line)
    BY <1>2, NothingPrinted DEF Common
  <2>2. \A b \in Bots : Shares(b)' = Shares(b) /\ (Shares(b)' => b # n)
    BY <1>2 DEF Shares
  <2>3. BotsKeepGroups({}, <<>>) /\ NewsAreTrue({}, <<>>)
    BY <1>1, <1>2, <2>2 DEF BotsKeepGroups, NewsAreTrue
  <2> QED BY <2>1, <2>3, UndisturbedGrows
<1>3. CASE /\ g \in GroupIds /\ Goes(n, NoGroup) /\ Told(g, TellsDeparture(n, g))
           /\ departed' = departed \cup {n}
  <2>1. Extends(Hearers(g), TellsDeparture(n, g)) /\ TellsDeparture(n, g) \in Seq(Line)
    BY <1>1, <1>3, ToldExtends, NewLines DEF Common
  <2>2. n \notin Bots
    BY <1>3
  <2>3. /\ NewRoster(g).type = "GroupInfo" /\ NewRoster(g).group = g
        /\ NewRoster(g).names = InGroup(groupData', g) /\ NewRoster(g) # LeaveLine
        /\ DepartureLine(n).type = "GroupDisbandInfo" /\ DepartureLine(n).name = n /\ DepartureLine(n) # LeaveLine
    <3>1. /\ NewRoster(g).type = "GroupInfo" /\ NewRoster(g).group = g
          /\ NewRoster(g).names = InGroup(groupData', g)
      BY <1>3, NewLines
    <3>2. DepartureLine(n).type = "GroupDisbandInfo" /\ DepartureLine(n).name = n
      BY KindsOfLines
    <3>3. NewRoster(g) # LeaveLine /\ DepartureLine(n) # LeaveLine
      BY <3>1, <3>2, KindsOfLines
    <3> QED BY <3>1, <3>2, <3>3
  <2>4. \A b \in Bots : b \in NewRoster(g).names <=> GroupOf(groupData', b) = g
    BY <2>3, ProcessesOfBots DEF InGroup
  <2>5. \A k \in DOMAIN TellsDeparture(n, g) : TellsDeparture(n, g)[k] \in {DepartureLine(n), NewRoster(g)}
    BY DEF TellsDeparture
  <2>6. \A p \in Hearers(g) : /\ p = Current(p[1]) /\ p[1] \in Bots /\ GroupOf(groupData', p[1]) = g
    BY ProcessesOfBots DEF Hearers
  <2>7. \A b \in Bots : /\ GroupOf(groupData', b) = GroupOf(groupData, b)
                        /\ Shares(b)' => Shares(b)
    BY <1>3, <2>2, ProcessesOfBots DEF Goes, Shares
  <2>8. NewsAreTrue(Hearers(g), TellsDeparture(n, g))
    BY <2>2, <2>3, <2>4, <2>5, <2>6 DEF NewsAreTrue
  <2>9. BotsKeepGroups(Hearers(g), TellsDeparture(n, g))
    BY <1>1, <2>2, <2>7 DEF BotsKeepGroups
  <2> HIDE DEF g
  <2> QED BY <2>1, <2>6, <2>8, <2>9, UndisturbedGrows
<1> QED BY <1>2, <1>3, LeftFacts DEF Common, TypeOK

\* A bot's request arrives.
LEMMA ArrivesUndisturbed ==
    ASSUME Common, UndisturbedInv, NEW b \in Bots, Arrives(b), departed' \cap Bots = {}
    PROVE  UndisturbedInv'
<1> DEFINE r == Head(requests[b])
<1>1. b \in Names /\ r \in Request /\ requests[b] \in Seq(Request) /\ requests[b] # <<>>
  BY RequestTypes, ProcessesOfBots DEF Common, Arrives
<1>2. UNCHANGED <<session, process, running, groups>>
  BY DEF Arrives
<1>3. \A c \in Bots \ {b} : WantsToLeave(c) => WantsToLeave(c)'
  BY DEF Arrives, WantsToLeave, Common, TypeOK
<1>4. r # LeaveRequest /\ WantsToLeave(b) => WantsToLeave(b)'
  <2> DEFINE old == requests[b]
             new == Tail(old)
  <2>1. requests'[b] = new
    BY DEF Arrives, Common, TypeOK
  <2>2. /\ Len(old) \in Nat /\ DOMAIN old = 1 .. Len(old) /\ DOMAIN new = 1 .. Len(old) - 1
        /\ r = old[1] /\ \A i \in 1 .. Len(old) - 1 : new[i] = old[i + 1]
    BY <1>1, SMT
  <2> HIDE DEF old, new
  <2> SUFFICES ASSUME r # LeaveRequest, NEW k \in DOMAIN old, old[k] = LeaveRequest
               PROVE  \E i \in DOMAIN new : new[i] = LeaveRequest
    BY <2>1 DEF WantsToLeave, old
  <2>3. k # 1
    BY <2>2
  <2>4. k - 1 \in 1 .. Len(old) - 1 /\ (k - 1) + 1 = k
    BY <2>2, <2>3, SMT
  <2>5. new[k - 1] = old[k]
    BY <2>2, <2>4
  <2> QED BY <2>2, <2>4, <2>5
<1>5. CASE r.type = "GroupJoin" /\ Joined(b, r.leaderName)
  <2>1. r # LeaveRequest /\ r.leaderName \in Names
    BY <1>1, <1>5, RequestTypes DEF Common
  <2>2. \A c \in Bots : WantsToLeave(c) => WantsToLeave(c)'
    BY <1>3, <1>4, <2>1
  <2>3. b \notin departed'
    OBVIOUS
  <2> HIDE DEF r
  <2> QED BY <1>1, <1>2, <1>5, <2>1, <2>2, <2>3, JoinedUndisturbed
<1>6. CASE Left(b)
  BY <1>1, <1>2, <1>3, <1>6, LeftUndisturbed
<1> QED BY <1>5, <1>6 DEF Arrives

\* A game client joins.
LEMMA ClientJoinsUndisturbed ==
    ASSUME Common, UndisturbedInv, NEW v \in invites, ClientJoins(v)
    PROVE  UndisturbedInv'
<1>1. v.memberName \in Names \ Bots /\ v.leaderName \in Names
  BY DEF Common, TypeOK, GroupInvite, ClientJoins
<1>2. Joined(v.memberName, v.leaderName) /\ UNCHANGED <<requests, session, process, running, groups>>
  BY DEF ClientJoins, view
<1>3. \A b \in Bots : WantsToLeave(b) => WantsToLeave(b)'
  BY <1>2 DEF WantsToLeave
<1> QED BY <1>1, <1>2, <1>3, JoinedUndisturbed

\* A game client leaves.
LEMMA ClientLeavesUndisturbed ==
    ASSUME Common, UndisturbedInv, NEW n \in Names, ClientLeaves(n)
    PROVE  UndisturbedInv'
<1>1. n \notin Bots /\ Left(n) /\ UNCHANGED <<requests, session, process, running, groups>>
  BY DEF ClientLeaves
<1>2. \A b \in Bots : WantsToLeave(b) => WantsToLeave(b)'
  BY <1>1 DEF WantsToLeave
<1> QED BY <1>1, <1>2, LeftUndisturbed

\* Reading a line moves the others one place up.
LEMMA ObserveUndisturbed ==
    ASSUME Common, UndisturbedInv, NEW p \in Processes, Observe(p)
    PROVE  UndisturbedInv'
<1> DEFINE line == Head(output[p])
           bot == p[1]
<1>1. /\ line \in Lines(p) /\ line \in Line /\ line = output[p][1] /\ Lines(p) = Lines(p)' \cup {line}
      /\ DOMAIN output[p]' = 1 .. Len(output[p]) - 1 /\ DOMAIN output[p] = 1 .. Len(output[p])
      /\ \A i \in DOMAIN output[p]' : output[p]'[i] = output[p][i + 1]
      /\ \A q \in Processes \ {p} : output[q]' = output[q] /\ Lines(q)' = Lines(q)
      /\ bot \in Bots
  BY ReadLines, ProcessesOfBots DEF Observe, Common
<1> HIDE DEF line
<1>2. UNCHANGED <<groupData, requests, session, process, running>>
  BY DEF Observe, server
<1>3. \A b \in Bots : /\ Connected(b)' /\ Shares(b)' = Shares(b) /\ Current(b)' = Current(b)
                      /\ WantsToLeave(b)' = WantsToLeave(b)
  BY <1>2 DEF UndisturbedInv, Connected, Shares, Current, WantsToLeave
<1>4. Len(output[p]) \in Nat /\ Len(output[p]) # 0 /\ 1 \in DOMAIN output[p]
  <2>1. output[p] \in Seq(Line) /\ output[p] # <<>>
    BY DEF Observe, Common, TypeOK
  <2>2. Len(output[p]) \in Nat /\ Len(output[p]) # 0
    BY <2>1, LenProperties, EmptySeq
  <2> QED BY <1>1, <2>2, SMT
<1>5. ASSUME NEW i \in DOMAIN output[p]'
      PROVE  i + 1 \in DOMAIN output[p] /\ output[p]'[i] = output[p][i + 1]
  BY <1>1, <1>4, <1>5, SMT
<1>6. ASSUME NEW i \in Nat, NEW b \in Bots, LearnsAfter(p, i + 1, b)
      PROVE  LearnsAfter(p, i, b)'
  <2>1. PICK j \in DOMAIN output[p] : i + 1 < j /\ Lists(output[p][j], b)
    BY <1>6 DEF LearnsAfter
  <2>2. j - 1 \in DOMAIN output[p]' /\ i < j - 1 /\ (j - 1) + 1 = j
    BY <1>1, <1>4, <2>1, SMT
  <2>3. output[p]'[j - 1] = output[p][j]
    BY <1>1, <2>2
  <2> QED BY <2>1, <2>2, <2>3 DEF LearnsAfter
<1>7. ASSUME NEW q \in Processes, NEW i \in DOMAIN output[q]'
      PROVE  LineIsHarmless(q, i)'
  <2>1. q[1] \in Bots
    BY ProcessesOfBots
  <2>2. CASE q # p
    <3>1. output[q]' = output[q] /\ LineIsHarmless(q, i)
      BY <1>1, <1>7, <2>2 DEF UndisturbedInv
    <3>2. \A b \in Bots : LearnsAfter(q, i, b)' = LearnsAfter(q, i, b)
      BY <3>1 DEF LearnsAfter
    <3> QED BY <1>2, <1>3, <2>1, <3>1, <3>2 DEF LineIsHarmless
  <2>3. CASE q = p
    <3>1. i + 1 \in DOMAIN output[p] /\ output[p]'[i] = output[p][i + 1] /\ i \in Nat
      BY <1>1, <1>4, <1>5, <1>7, <2>3, SMT
    <3>2. LineIsHarmless(p, i + 1)
      BY <3>1 DEF UndisturbedInv
    <3>3. \A b \in Bots : LearnsAfter(p, i + 1, b) => LearnsAfter(p, i, b)'
      BY <1>6, <3>1
    <3> QED BY <1>2, <1>3, <2>1, <2>3, <3>1, <3>2, <3>3 DEF LineIsHarmless
  <2> QED BY <2>2, <2>3
<1>8. \A b \in Bots : IsToLearn(b) => IsToLearn(b)' \/ Lists(line, b)
  BY <1>1 DEF IsToLearn
<1>9. ASSUME NEW b \in Bots, LearnsAfter(p, 1, b)
      PROVE  IsToLearn(b)'
  <2>1. LearnsAfter(p, 0 + 1, b)
    BY <1>9
  <2>2. LearnsAfter(p, 0, b)'
    BY <1>6, <2>1
  <2> QED BY <2>2 DEF LearnsAfter, IsToLearn, Lines
<1>10. LineIsHarmless(p, 1)
  BY <1>4 DEF UndisturbedInv
<1>11. ASSUME NEW b \in Bots
       PROVE  /\ groups'[b] \in GroupIds => groups'[b] = GroupOf(groupData, b)
              /\ groups'[b] \notin GroupIds /\ Shares(b) => IsToLearn(b)' \/ WantsToLeave(b)
  <2>1. /\ groups[b] \in GroupIds => groups[b] = GroupOf(groupData, b)
        /\ groups[b] \notin GroupIds /\ Shares(b) => IsToLearn(b) \/ WantsToLeave(b)
    BY DEF UndisturbedInv
  <2>2. CASE ObserveRoster(bot, p, line)
    <3>1. line.type = "GroupInfo"
      BY <2>2 DEF ObserveRoster
    <3>2. /\ b \in line.names => GroupOf(groupData, b) = line.group
          /\ Shares(b) /\ GroupOf(groupData, b) = line.group /\ b \notin line.names => LearnsAfter(p, 1, b)
      BY <1>1, <1>10, <3>1 DEF LineIsHarmless
    <3>3. groups'[b] = IF b \in line.names THEN line.group
                       ELSE IF b \in Leavers(line.group, line.names) THEN NoGroup ELSE groups[b]
      BY <2>2 DEF ObserveRoster
    <3>4. line.group \in GroupIds
      BY <1>1, <3>1, KindsOfLines
    <3>5. CASE b \in line.names
      BY <3>2, <3>3, <3>4, <3>5
    <3>6. CASE b \notin line.names /\ b \in Leavers(line.group, line.names)
      <4>1. groups[b] = line.group /\ groups'[b] = NoGroup
        BY <3>3, <3>6 DEF Leavers
      <4>2. Shares(b) => IsToLearn(b)'
        BY <1>9, <2>1, <3>2, <3>4, <3>6, <4>1
      <4> QED BY <4>1, <4>2, GroupIdsAssumption
    <3>7. CASE b \notin line.names /\ b \notin Leavers(line.group, line.names)
      BY <1>8, <2>1, <3>3, <3>7 DEF Lists
    <3> QED BY <3>5, <3>6, <3>7
  <2>3. CASE ObserveLeave(bot, line)
    <3>1. line = LeaveLine /\ ~Lists(line, b)
      BY <1>1, <2>3, KindsOfLines DEF ObserveLeave, Lists
    <3>2. Shares(bot) => LearnsAfter(p, 1, bot) \/ WantsToLeave(bot)
      BY <1>1, <1>10, <3>1 DEF LineIsHarmless
    <3>3. groups'[b] = IF b = bot THEN Unknown ELSE groups[b]
      BY <2>3 DEF ObserveLeave, Common, TypeOK
    <3>4. CASE b = bot
      BY <1>9, <3>2, <3>3, <3>4, ControllerAssumption
    <3>5. CASE b # bot
      BY <1>8, <2>1, <3>1, <3>3, <3>5
    <3> QED BY <3>4, <3>5
  <2>4. CASE ObserveDeparture(bot, line)
    <3>1. line.type = "GroupDisbandInfo"
      BY <2>4 DEF ObserveDeparture
    <3>2. line.name \notin Bots /\ ~Lists(line, b)
      BY <1>1, <1>10, <3>1 DEF LineIsHarmless, Lists
    <3>3. groups' = groups
      BY <2>4, <3>2 DEF ObserveDeparture
    <3> QED BY <1>8, <2>1, <3>2, <3>3
  <2> QED BY <2>2, <2>3, <2>4 DEF Observe, line
<1> QED BY <1>2, <1>3, <1>7, <1>11 DEF UndisturbedInv

\* What has been disturbed stays so.
LEMMA DisturbedForGood ==
    ASSUME Common, [Next]_vars, Undisturbed'
    PROVE  /\ Undisturbed
           /\ \A b \in Bots : ~Stop(b) /\ ~Start(b)
<1>1. \A b \in Bots : ~Start(b)
  <2> SUFFICES ASSUME NEW b \in Bots, Start(b) PROVE FALSE
    OBVIOUS
  <2>1. process'[b] = process[b] + 1 /\ process[b] \in 1 .. MaxProcesses
    BY DEF Start, Common, TypeOK
  <2> QED BY <2>1, SMT DEF Undisturbed
<1>2. \A b \in Bots : ~Stop(b)
  BY DEF Undisturbed, Stop
<1>3. departed \subseteq departed' /\ running' = running /\ process' = process
  <2>1. ASSUME NEW n \in Names, NEW leader \in Names, Joined(n, leader)
        PROVE  departed \subseteq departed'
    BY <2>1 DEF Joined
  <2>2. ASSUME NEW n, Left(n) PROVE departed \subseteq departed'
    BY <2>2 DEF Left
  <2>3. CASE UNCHANGED vars
    BY <2>3 DEF vars
  <2>4. CASE \E leader, member \in Names, g \in GroupIds : Invite(leader, member, g)
    BY <2>4 DEF Invite
  <2>5. CASE \E v \in invites : ClientJoins(v)
    <3>1. PICK v \in invites : ClientJoins(v)
      BY <2>5
    <3>2. v.memberName \in Names /\ v.leaderName \in Names
      BY DEF Common, TypeOK, GroupInvite
    <3> QED BY <2>1, <3>1, <3>2 DEF ClientJoins
  <2>6. CASE \E n \in Names : ClientLeaves(n)
    BY <2>2, <2>6 DEF ClientLeaves
  <2>7. CASE \E b \in Bots : Leave(b) \/ Closed(b) \/ Login(b)
    BY <2>7 DEF Leave, Closed, Login
  <2>8. ASSUME NEW b \in Bots, Arrives(b)
        PROVE  departed \subseteq departed' /\ running' = running /\ process' = process
    <3>1. b \in Names /\ Head(requests[b]) \in Request
      BY <2>8, RequestTypes, ProcessesOfBots DEF Common, Arrives
    <3>2. CASE Head(requests[b]).type = "GroupJoin" /\ Joined(b, Head(requests[b]).leaderName)
      <4>1. Head(requests[b]).leaderName \in Names
        BY <3>1, <3>2, RequestTypes DEF Common
      <4> QED BY <2>1, <2>8, <3>1, <3>2, <4>1 DEF Arrives
    <3>3. CASE Left(b)
      BY <2>2, <2>8, <3>3 DEF Arrives
    <3> QED BY <2>8, <3>2, <3>3 DEF Arrives
  <2>9. CASE \E p \in Processes : Observe(p) \/ Greet(p)
    BY <2>9 DEF Observe, Greet
  <2> QED BY <1>1, <1>2, <2>3, <2>4, <2>5, <2>6, <2>7, <2>8, <2>9 DEF Next
<1> QED BY <1>1, <1>2, <1>3 DEF Undisturbed

\* Every step keeps the undisturbed part.
LEMMA UndisturbedStep ==
    ASSUME Common, Undisturbed => UndisturbedInv, [Next]_vars, Undisturbed'
    PROVE  UndisturbedInv'
<1>1. Undisturbed /\ UndisturbedInv /\ \A b \in Bots : Connected(b) /\ ~Stop(b) /\ ~Start(b)
  BY DisturbedForGood DEF UndisturbedInv
<1>2. departed' \cap Bots = {} /\ running = Bots
  BY <1>1 DEF Undisturbed
<1>3. ASSUME UNCHANGED <<groupData, requests, session, process, running, output, groups>>
      PROVE  UndisturbedInv'
  BY <1>1, <1>3 DEF UndisturbedInv, LineIsHarmless, LearnsAfter, IsToLearn, WantsToLeave, Lines, Current,
                    Connected, Shares
<1>4. CASE UNCHANGED vars
  BY <1>3, <1>4 DEF vars, server, view
<1>5. CASE \E leader, member \in Names, g \in GroupIds : Invite(leader, member, g)
  BY <1>1, <1>5, InviteUndisturbed
<1>6. CASE \E v \in invites : ClientJoins(v)
  BY <1>1, <1>6, ClientJoinsUndisturbed
<1>7. CASE \E n \in Names : ClientLeaves(n)
  BY <1>1, <1>7, ClientLeavesUndisturbed
<1>8. CASE \E b \in Bots : Leave(b) \/ Arrives(b)
  BY <1>1, <1>2, <1>8, LeaveUndisturbed, ArrivesUndisturbed
<1>9. ~\E b \in Bots : Closed(b) \/ Login(b)
  BY <1>1 DEF Closed, Login
<1>10. CASE \E p \in Processes : Observe(p)
  BY <1>1, <1>10, ObserveUndisturbed
<1>11. CASE \E p \in Processes : Greet(p)
  BY <1>2, <1>3, <1>11, ProcessesOfBots DEF Greet, server, view
<1> QED BY <1>1, <1>4, <1>5, <1>6, <1>7, <1>8, <1>9, <1>10, <1>11 DEF Next

\* The invariant holds in every reachable state.
LEMMA ControllerInvHolds == Spec => []ControllerInv
<1>1. Init => ControllerInv
  <2> SUFFICES ASSUME Init PROVE UndisturbedInv
    BY CommonInit, PacedInit DEF ControllerInv
  <2>1. \A b \in Bots : GroupOf(groupData, b) = NoGroup
    BY DEF Init, GroupOf, EntriesOf
  <2>2. \A b \in Bots : Connected(b) /\ ~Shares(b) /\ groups[b] \notin GroupIds
    BY <2>1, ControllerAssumption DEF Init, Connected, Shares
  <2>3. \A p \in Processes : DOMAIN output[p] = {}
    BY DEF Init
  <2> QED BY <2>2, <2>3 DEF UndisturbedInv
<1>2. ControllerInv /\ [Next]_vars => ControllerInv'
  <2> SUFFICES ASSUME ControllerInv, [Next]_vars PROVE ControllerInv'
    OBVIOUS
  <2>1. paced' = paced
    BY DEF Next, vars, Invite, ClientJoins, ClientLeaves, Leave, Arrives, Stop, Closed, Start, Login, Observe, Greet
  <2> QED BY <2>1, CommonStep, PacedStep, UndisturbedStep DEF ControllerInv
<1> QED BY <1>1, <1>2, PTL DEF Spec

\* The view, the processes and what is on its way are always what they should be.
THEOREM TypeCorrect == Spec => []TypeOK
<1>1. ControllerInv => TypeOK
  BY DEF ControllerInv, Common
<1> QED BY <1>1, ControllerInvHolds, PTL

\* If no reader lags behind a command, no bot greets its group twice.
THEOREM NoSecondGreeting == Spec => []GreetedOncePaced
<1>1. ControllerInv => GreetedOncePaced
  BY DEF ControllerInv, PacedInv, GreetedOncePaced
<1> QED BY <1>1, ControllerInvHolds, PTL

\* When everything has been read, the view shows each bot in its group, if the
\* commands were paced or no bot ever left or was disconnected.
THEOREM ViewSettles == Spec => []SettledView
<1>1. ControllerInv => SettledView
  <2> SUFFICES ASSUME ControllerInv, Quiet, paced \/ Undisturbed, NEW b \in Bots
               PROVE  LET g == GroupOf(groupData, b)
                      IN  \/ groups[b] = g
                          \/ /\ g = NoGroup \/ MemberCount(groupData, g) = 1 \/ b \notin running
                             /\ groups[b] \in {NoGroup, Unknown}
    BY DEF SettledView
  <2> DEFINE g == GroupOf(groupData, b)
  <2>1. TypeOK /\ WellFormed(groupData) /\ b \in Names
    BY ProcessesOfBots DEF ControllerInv, Common
  <2>2. /\ groups[b] \in GroupIds => groups[b] = g
        /\ groups[b] \notin GroupIds => ~Shares(b) \/ b \notin running
    <3>1. CASE paced
      <4>1. Calm /\ Settled
        BY <2>1, <3>1, CalmWhenQuiet DEF ControllerInv
      <4> QED BY <4>1 DEF Calm, Settled, Connected
    <3>2. CASE Undisturbed
      <4>1. ~IsToLearn(b)
        BY DEF Quiet, IsToLearn, Lines
      <4>2. ~WantsToLeave(b)
        BY DEF Quiet, WantsToLeave
      <4> QED BY <3>2, <4>1, <4>2 DEF ControllerInv, UndisturbedInv
    <3> QED BY <3>1, <3>2
  <2>3. groups[b] \notin GroupIds => groups[b] \in {NoGroup, Unknown}
    BY <2>1 DEF TypeOK
  <2>4. g # NoGroup /\ ~Shares(b) => MemberCount(groupData, g) = 1
    <3> SUFFICES ASSUME g # NoGroup, ~Shares(b) PROVE MemberCount(groupData, g) = 1
      OBVIOUS
    <3>1. InGroup(groupData, g) = {b}
      BY <2>1 DEF Shares, InGroup
    <3> QED BY <2>1, <3>1, CountOfOne
  <2> QED BY <2>2, <2>3, <2>4
<1> QED BY <1>1, ControllerInvHolds, PTL

=============================================================================
