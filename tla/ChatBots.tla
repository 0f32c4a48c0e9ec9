------------------------------ MODULE ChatBots ------------------------------
(***************************************************************************)
(* Several bots, uDaraChatBot.cpp, on one chat server.  Each bot has a     *)
(* connection, which delivers in order in both directions, a loop that     *)
(* sends what its mode prescribes, and a thread that answers what comes    *)
(* in.  Loop and thread share a mutex around everything they send, so a    *)
(* turn of the loop and a reply are atomic.                                *)
(*                                                                         *)
(* The server is that of ChatServer.  Messages that change nothing there   *)
(* and that ChatReply ignores are left out (Channel, Zone and Group chat,  *)
(* schedule:, the custom channels), and so is time: a bot answers an       *)
(* invitation long before it expires.  The bots stay connected.            *)
(***************************************************************************)
EXTENDS ChatServer, ChatMessages

CONSTANTS
    Mode,           \* the --mode of each bot
    Partner,        \* the --recipient of each bot
    MaxQueue        \* bound of the model: a loop waits while this many messages wait for its bot

ASSUME BotsAssumption ==
    /\ Sockets = Characters         \* the connection of a bot is named after it
    /\ Mode \in [Characters -> {"chatting", "inviting", "grouptests", "groupmember",
                                 "groupleader", "pingpong", "silent"}]
    /\ Partner \in [Characters -> Names]
    /\ MaxQueue \in Nat \ {0}

VARIABLES
    count,          \* the turns of each bot's loop since it last began again
    toServer,       \* what each bot has sent and the server has not handled
    toBot           \* what the server has sent to each bot and it has not handled
botvars == <<vars, count, toServer, toBot>>

Message(type, peer, text) == [type |-> type, peer |-> peer, text |-> text]
Nothing == "empty"
On(queue) == {queue[i] : i \in DOMAIN queue}

\* The bots have connected, and their logins are still to be handled.
InitBots ==
    /\ Init
    /\ count = [n \in Characters |-> 0]
    /\ toServer = [n \in Characters |-> <<Message("connect", n, Nothing)>>]
    /\ toBot = [n \in Characters |-> <<>>]

-----------------------------------------------------------------------------
\* The bot.  In a message from the server, peer is its sender; in one to the
\* server, its recipient.

\* The texts of a Tell as ChatReply tells them apart by their beginning; "chat"
\* is any other, the answer to a Hello included.
\* Mutation of TellReply: a Pong is answered like any other text.
PongAnswered == [Ping |-> "Pong", Pong |-> "Hello", Hello |-> "chat", chat |-> "Hello"]
TellReply == [Ping |-> "Pong", Pong |-> Nothing, Hello |-> "chat", chat |-> "Hello"]

ChatReply(m) ==
    CASE m.type = "GroupInvite" -> <<Message("GroupJoin", m.peer, Nothing)>>
      [] m.type = "Tell" /\ m.text = "InviteMe" -> <<Message("GroupInvite", m.peer, Nothing)>>
      [] m.type = "Tell" /\ m.text # "InviteMe" /\ TellReply[m.text] # Nothing ->
            <<Message("Tell", m.peer, TellReply[m.text])>>
      [] m.type = "GroupInfo" -> <<Message("Alive", NoName, Nothing)>>
      [] OTHER -> <<>>

\* Mutation of onWSMsg: of the messages that are waiting only the last is answered.
onLatestWSMsg(n) ==
    /\ toBot[n] # <<>>
    /\ toBot' = [toBot EXCEPT ![n] = <<>>]
    /\ toServer' = [toServer EXCEPT ![n] = @ \o ChatReply(toBot[n][Len(toBot[n])])]
    /\ UNCHANGED <<vars, count>>

onWSMsg(n) ==
    /\ toBot[n] # <<>>
    /\ toBot' = [toBot EXCEPT ![n] = Tail(@)]
    /\ toServer' = [toServer EXCEPT ![n] = @ \o ChatReply(Head(toBot[n]))]
    /\ UNCHANGED <<vars, count>>

\* The turn in which a mode sends something, what, and the length of its cycle.
Cycle == [chatting |-> 4, inviting |-> 1, grouptests |-> 5, groupmember |-> 10,
          groupleader |-> 5, pingpong |-> 4, silent |-> 1]

\* In the position of a bot.
MaxHealth == 100

\* Chatter has one partner to choose from.
GetRandomInvite(n) == <<Message("GroupInvite", Partner[n], Nothing)>>
GetRandomTellMsg(n) == <<Message("Tell", Partner[n], "chat")>>

Script(n, turn) ==
    LET leave == <<Message("GroupDisband", NoName, Nothing)>>
        join == <<Message("GroupJoin", Partner[n], Nothing)>>
        at == <<Mode[n], turn>>
    IN  CASE at \in {<<"grouptests", 2>>, <<"groupmember", 1>>, <<"groupmember", 10>>} -> leave
          [] at \in {<<"grouptests", 5>>, <<"groupmember", 4>>} -> join
          [] at \in {<<"groupleader", 2>>, <<"inviting", 1>>} -> GetRandomInvite(n)
          [] at = <<"pingpong", 4>> -> <<Message("Tell", Partner[n], "Ping")>>
          [] at = <<"chatting", 3>> -> GetRandomTellMsg(n)
          [] OTHER -> <<>>

\* Bound of the model: seconds pass between two turns of a loop, so that what it
\* has sent has been handled and answered, and only MaxQueue messages of others wait.
Paced(n) ==
    /\ \A m \in On(toServer[n]) : m.type = "Alive" \/ m.peer \notin {Partner[n], NoName}
    /\ \A m \in On(toBot[Partner[n]]) : m.peer # n
    /\ \A m \in On(toServer[Partner[n]]) : m.type \in {"Tell", "GroupJoin"} => m.peer # n
    /\ Len(toServer[n]) + Len(toBot[n]) < MaxQueue

ChatLoop(n) ==
    /\ data[n].state = "connected"
    /\ Paced(n)
    /\ count' = [count EXCEPT ![n] = IF @ + 1 = Cycle[Mode[n]] THEN 0 ELSE @ + 1]
    /\ toServer' = [toServer EXCEPT ![n] = @ \o Script(n, count[n] + 1)]
    /\ UNCHANGED <<vars, toBot>>

-----------------------------------------------------------------------------
\* The server takes the next message of bot n.

\* The first of n's messages, and the queues of the bots after the server has
\* published some more to everyone who is subscribed to a topic.
Request(n) == Head(toServer[n])
Takes(n, type) ==
    /\ toServer[n] # <<>> /\ Request(n).type = type
    /\ toServer' = [toServer EXCEPT ![n] = Tail(@)]
    /\ UNCHANGED count
Publish(topic, messages) ==
    toBot' = [m \in Characters |->
                 IF topic \in endpoints'[m].subs THEN toBot[m] \o messages ELSE toBot[m]]
Update == <<Message("GroupInfo", NoName, Nothing)>>

Opens(n) == Open(n) /\ UNCHANGED <<count, toServer, toBot>>

LogsIn(n) == Takes(n, "connect") /\ Connect(n, n) /\ UNCHANGED toBot

\* A Tell reaches the connections that listen to its recipient's tell topic.
PassesOn(n) ==
    /\ Takes(n, "Tell")
    /\ UNCHANGED vars
    /\ Publish(Tell(Request(n).peer), <<Message("Tell", n, Request(n).text)>>)

Invites(n) ==
    LET invited == Request(n).peer
    IN  /\ Takes(n, "GroupInvite")
        /\ GroupInviteFounding(n, invited) \/ GroupInviteFromGroup(n, invited)
        /\ IF GroupInviteAccepted(MyGroups', invited, n)
           THEN Publish(Tell(invited), <<Message("GroupInvite", n, Nothing)>>)
           ELSE UNCHANGED toBot

Joins(n) ==
    LET inviter == Request(n).peer
    IN  /\ Takes(n, "GroupJoin")
        /\ \/ GroupJoinRefused(n, inviter) /\ UNCHANGED toBot
           \/ /\ GroupJoinAccept(n, inviter)
              /\ IF data'[n].groupId = GroupOf(MyGroups', inviter)
                 THEN Publish(GroupTopic(data'[n].groupId), Update)
                 ELSE UNCHANGED toBot

Leaves(n) ==
    /\ Takes(n, "GroupDisband")
    /\ \/ LeaveGroup(n) /\ Publish(GroupTopic(data[n].groupId),
                                   <<Message("GroupDisbandInfo", n, Nothing)>> \o Update)
       \/ data[n].groupId = NoGroup /\ UNCHANGED <<vars, toBot>>

\* A position frame of a bot is dropped before anything is changed: the server
\* does not accept what the bot makes of its position, in a group or not.
Reports(n) ==
    /\ Takes(n, "Alive")
    /\ ~Validates(SerializedFrame(MaxHealth))
    /\ UNCHANGED <<vars, toBot>>

Serves(n) ==
    Opens(n) \/ LogsIn(n) \/ PassesOn(n) \/ Invites(n) \/ Joins(n) \/ Leaves(n) \/ Reports(n)

NextBots == \E n \in Characters : Serves(n) \/ onWSMsg(n) \/ ChatLoop(n)

\* The server's event loop serves every connection, the poll thread of a bot
\* looks for messages every 10 milliseconds, and its loop takes its turns.  The
\* last fairness is strong because only the bound of the model disables a turn.
BotsSpec ==
    /\ InitBots /\ [][NextBots]_botvars
    /\ \A n \in Characters :
          WF_botvars(Serves(n)) /\ WF_botvars(onWSMsg(n)) /\ SF_botvars(ChatLoop(n))

-----------------------------------------------------------------------------

Together(n, m) == GroupOf(MyGroups, n) # NoGroup /\ GroupOf(MyGroups, n) = GroupOf(MyGroups, m)

\* A bot in the mode groupmember whose partner leads gets into the leader's group
\* again and again and never stays there, however its leaving, its joining, the
\* invitations and its replies to them are ordered.
MembersComeAndGo ==
    \A n \in Characters :
        Mode[n] = "groupmember" /\ Mode[Partner[n]] = "groupleader" /\ Partner[Partner[n]] = n =>
            []<>Together(n, Partner[n]) /\ []<>~Together(n, Partner[n])

Pingers == {n \in Characters : Mode[n] = "pingpong"}

\* The Pings of n that are on their way to its partner, and the Pongs on their way
\* back that the server has still to pass on.
Places(queue, m) == {i \in DOMAIN queue : queue[i] = m}
Away(n) ==
    Cardinality(Places(toServer[n], Message("Tell", Partner[n], "Ping")))
    + Cardinality(Places(toBot[Partner[n]], Message("Tell", n, "Ping")))
    + Cardinality(Places(toServer[Partner[n]], Message("Tell", n, "Pong")))

\* Every Ping comes back as a Pong, whatever else its recipient has to answer: what is
\* away grows less only by one Ping or Pong at a time, with the Pong that reaches the bot,
\* or when the server has to pass on a Ping to a recipient that is not logged in; and
\* nothing stays away for ever.
PingsComeBack ==
    /\ [][\A n \in Pingers : Away(n)' < Away(n) =>
            /\ Away(n)' = Away(n) - 1
            /\ \/ toBot'[n] = Append(toBot[n], Message("Tell", Partner[n], "Pong"))
               \/ PassesOn(n) /\ ~Connected(Partner[n])]_botvars
    /\ \A n \in Pingers : Away(n) > 0 ~> Away(n) = 0

\* As long as no bot's loop sends chat of its own, bots do not start to greet
\* each other (which they would never stop): all they tell each other is Ping,
\* once per cycle of a pinging bot, and Pong to the bot that pinged.
BotsStayQuiet ==
    (\A n \in Characters : Mode[n] # "chatting") =>
        \A n \in Characters :
            /\ \A m \in On(toServer[n]) : m.type = "Tell" =>
                  \/ m.text = "Ping" /\ Mode[n] = "pingpong"
                  \/ m.text = "Pong" /\ Mode[m.peer] = "pingpong"
            /\ \A m \in On(toBot[n]) : m.type = "Tell" => m.text \in {"Ping", "Pong"}

=============================================================================
