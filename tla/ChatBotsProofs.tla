--------------------------- MODULE ChatBotsProofs ---------------------------
(***************************************************************************)
(* What the text messages of ChatLibrary.cpp keep of what is put into      *)
(* them, which position frames their reader accepts, and, for any number   *)
(* of bots in any modes on one server, what they tell each other and that  *)
(* they drive the server only the way ChatServer says.                     *)
(***************************************************************************)
EXTENDS ChatBots, ChatServerProofs, SequenceTheorems

\* A message comes back as it was sent if the two names are without a colon,
\* whatever colons its text has.
THEOREM RoundTrip ==
    ASSUME NEW Part, NEW type \in EChatCmdType, NEW sender \in Part, NEW recipient \in Part,
           NEW message \in Seq(Part), Len(message) > 0,
           EChatCmdType \subseteq Part
    PROVE  LET msg == FDaraChatMsg(type, <<sender>>, <<recipient>>, message)
           IN  Parses(SerializeMsg(msg)) /\ Parsed(SerializeMsg(msg)) = msg
  <1> DEFINE text == <<type>> \o <<sender>> \o <<recipient>> \o message
  <1>1. text = SerializeMsg(FDaraChatMsg(type, <<sender>>, <<recipient>>, message))
    BY DEF SerializeMsg, FDaraChatMsg
  <1>2. /\ text \in Seq(Part) /\ Len(text) = 3 + Len(message)
        /\ text[1] = type /\ text[2] = sender /\ text[3] = recipient
        /\ \A i \in 1 .. Len(message) : text[3 + i] = message[i]
    <2> DEFINE names == <<type>> \o <<sender>> \o <<recipient>>
    <2>1. /\ names \in Seq(Part) /\ Len(names) = 3
          /\ names[1] = type /\ names[2] = sender /\ names[3] = recipient
      BY SMT
    <2> HIDE DEF names
    <2>2. /\ names \o message \in Seq(Part)
          /\ Len(names \o message) = Len(names) + Len(message)
          /\ \A i \in 1 .. Len(names) + Len(message) :
                (names \o message)[i] = IF i <= Len(names) THEN names[i] ELSE message[i - Len(names)]
      BY <2>1, ConcatProperties
    <2>3. text = names \o message
      BY DEF names
    <2>4. Len(message) \in Nat
      BY LenProperties
    <2> QED BY <2>1, <2>2, <2>3, <2>4, SMT
  <1> HIDE DEF text
  <1>3. ChatCmdTypeFromString(text[1]) = type
    BY <1>2 DEF ChatCmdTypeFromString
  <1>4. type # "None"
    BY DEF EChatCmdType
  <1>5. SubSeq(text, 4, Len(text)) = message
    BY <1>2, SMT
  <1>6. Parses(text)
    BY <1>2, <1>3, <1>4, SMT DEF Parses
  <1>7. Parsed(text) = FDaraChatMsg(type, <<sender>>, <<recipient>>, message)
    BY <1>2, <1>3, <1>5 DEF Parsed
  <1> QED BY <1>1, <1>6, <1>7

\* What is accepted is passed on unchanged: a parsed message makes the same text.
THEOREM AcceptedTextIsKept ==
    ASSUME NEW Part, NEW input \in Seq(Part), Parses(input)
    PROVE  SerializeMsg(Parsed(input)) = input
  <1>1. Len(input) >= 4 /\ input[1] \in EChatCmdType
    BY DEF Parses, ChatCmdTypeFromString
  <1>2. SerializeMsg(Parsed(input))
          = <<input[1]>> \o <<input[2]>> \o <<input[3]>> \o SubSeq(input, 4, Len(input))
    BY <1>1 DEF SerializeMsg, Parsed, FDaraChatMsg, ChatCmdTypeFromString
  <1>3. @ = input
    BY <1>1, SMT
  <1> QED BY <1>2, <1>3

\* A colon in the name of the sender shifts what follows: the rest of the name is
\* taken for the recipient.
THEOREM ColonShifts ==
    ASSUME NEW Part, NEW type \in EChatCmdType, NEW first \in Part, NEW second \in Part,
           NEW recipient \in Part, NEW message \in Seq(Part), Len(message) > 0,
           EChatCmdType \subseteq Part
    PROVE  LET read == Parsed(SerializeMsg(
                           FDaraChatMsg(type, <<first, second>>, <<recipient>>, message)))
           IN  read.Sender = <<first>> /\ read.Recipient = <<second>>
  <1> DEFINE text == <<type>> \o <<first, second>> \o <<recipient>> \o message
  <1>1. text = SerializeMsg(FDaraChatMsg(type, <<first, second>>, <<recipient>>, message))
    BY DEF SerializeMsg, FDaraChatMsg
  <1>2. text[2] = first /\ text[3] = second
    BY SMT
  <1> HIDE DEF text
  <1>3. Parsed(text).Sender = <<first>> /\ Parsed(text).Recipient = <<second>>
    BY <1>2 DEF Parsed, FDaraChatMsg
  <1> QED BY <1>1, <1>3

-----------------------------------------------------------------------------
\* The sizes of a frame's fixed parts, as numbers.
LEMMA Sizes == HeaderSize = 4 /\ LengthSize = 4 /\ CharSize = 4 /\ StringsBegin = 40
  BY SMT DEF HeaderSize, LengthSize, CharSize, StringsBegin, Floats, FloatSize

\* Whatever a frame claims of its strings, all that is read of it lies in it.
THEOREM ReadsStayInside ==
    ASSUME NEW frame \in Frame, Deserializes(frame)
    PROVE  LET zone == StringsBegin
               name == After(frame, zone)
           IN  /\ zone + LengthSize <= name /\ name + LengthSize <= After(frame, name)
               /\ After(frame, name) <= frame.size
  <1> DEFINE zone == StringsBegin
             name == After(frame, zone)
  <1>1. zone = 40 /\ frame.size \in Nat /\ frame.int32[zone] \in Int
    BY Sizes DEF Frame
  <1>2. frame.int32[zone] >= 0 /\ name = 44 + frame.int32[zone] /\ name \in Nat
    BY <1>1, Sizes, SMT DEF Deserializes, StringOk, After
  <1>3. frame.int32[name] \in Int
    BY <1>2 DEF Frame
  <1> HIDE DEF name
  <1>4. /\ frame.int32[name] >= 0
        /\ name + 4 + frame.int32[name] * 4 <= frame.size
    BY Sizes DEF Deserializes, StringOk, name
  <1>5. After(frame, name) = name + 4 + frame.int32[name]
    BY Sizes DEF After
  <1> QED BY <1>1, <1>2, <1>3, <1>4, <1>5, Sizes, SMT DEF name

\* The frames that the program writes itself are refused by its reader.
THEOREM OwnFramesRefused == \A health \in Int : ~Deserializes(SerializedFrame(health))
  BY Sizes, SMT DEF Deserializes, StringOk, SerializedFrame

\* So are frames that hold two strings the way the reader takes them and nothing
\* else, unless the name is empty and the zone no longer than a byte.
THEOREM ExactFramesRefused ==
    ASSUME NEW frame \in Frame, Deserializes(frame),
           frame.size = After(frame, After(frame, StringsBegin))
    PROVE  /\ frame.int32[After(frame, StringsBegin)] = 0
           /\ frame.int32[StringsBegin] <= 1
  <1> DEFINE name == After(frame, StringsBegin)
  <1>1. frame.size \in Nat /\ frame.int32[StringsBegin] \in Int
    BY Sizes DEF Frame
  <1>2. /\ frame.int32[StringsBegin] >= 0 /\ name = 44 + frame.int32[StringsBegin] /\ name \in Nat
        /\ 44 + frame.int32[StringsBegin] * 4 <= frame.size
    BY <1>1, Sizes, SMT DEF Deserializes, StringOk, After
  <1>3. frame.int32[name] \in Int
    BY <1>2 DEF Frame
  <1> HIDE DEF name
  <1>4. /\ frame.int32[name] >= 0
        /\ name + 4 + frame.int32[name] * 4 <= frame.size
        /\ frame.size = name + 4 + frame.int32[name]
    BY Sizes DEF Deserializes, StringOk, After, name
  <1>5. frame.int32[name] = 0 /\ frame.int32[StringsBegin] <= 1
    BY <1>1, <1>2, <1>3, <1>4, SMT
  <1> QED BY <1>5 DEF name

-----------------------------------------------------------------------------
\* The bots.

Chatting == \E n \in Characters : Mode[n] = "chatting"
Texts == {"Ping", "Pong", "Hello", "chat"}

\* What bot n may have sent, and what may be on its way to a bot: when no bot's
\* loop chats, only Ping from a bot that pings, and Pong to one.
Tells == [type : {"Tell"}, peer : Names, text : Texts]
Outgoing(n) ==
    {m \in Tells : \/ Chatting
                   \/ m.text = "Ping" /\ Mode[n] = "pingpong"
                   \/ m.text = "Pong" /\ Mode[m.peer] = "pingpong"}
    \cup [type : {"connect", "GroupInvite", "GroupJoin"}, peer : Names, text : {Nothing}]
    \cup [type : {"Alive", "GroupDisband"}, peer : {NoName}, text : {Nothing}]
Incoming ==
    {m \in Tells : /\ m.peer \in Characters
                   /\ \/ Chatting
                      \/ m.text = "Ping" /\ Mode[m.peer] = "pingpong"
                      \/ m.text = "Pong"}
    \cup [type : {"GroupInvite", "GroupDisbandInfo"}, peer : Characters, text : {Nothing}]
    \cup [type : {"GroupInfo"}, peer : {NoName}, text : {Nothing}]

\* The inductive invariant.
QueuesOK ==
    /\ DOMAIN toServer = Characters /\ DOMAIN toBot = Characters
    /\ \A n \in Characters : toServer[n] \in Seq(Outgoing(n)) /\ toBot[n] \in Seq(Incoming)

\* A bot answers only with what it may send.
LEMMA ReplyOK ==
    ASSUME NEW n \in Characters, NEW m \in Incoming
    PROVE  ChatReply(m) \in Seq(Outgoing(n))
<1>1. Characters \subseteq Names
  BY ServerAssumption
<1>2. CASE m.type = "Tell"
  <2>1. m \in Tells /\ m.peer \in Names /\ m.text \in Texts
    BY <1>2 DEF Incoming, Tells
  <2>2. m.text # "InviteMe"
    BY <2>1 DEF Texts
  <2>3. ChatReply(m) = IF TellReply[m.text] # Nothing
                       THEN <<Message("Tell", m.peer, TellReply[m.text])>> ELSE <<>>
    BY <1>2, <2>2 DEF ChatReply
  <2>4. CASE TellReply[m.text] = Nothing
    BY <2>3, <2>4
  <2>5. CASE TellReply[m.text] # Nothing
    <3>1. TellReply[m.text] \in Texts
      BY <2>1, <2>5 DEF TellReply, Texts, Nothing
    <3>2. Message("Tell", m.peer, TellReply[m.text]) \in Tells
      BY <2>1, <3>1 DEF Message, Tells
    <3>3. CASE Chatting
      BY <2>3, <2>5, <3>2, <3>3 DEF Outgoing
    <3>4. CASE ~Chatting
      <4>1. m.text # "Pong"
        BY <2>5 DEF TellReply
      <4>2. m.text = "Ping" /\ Mode[m.peer] = "pingpong"
        BY <1>2, <3>4, <4>1 DEF Incoming
      <4>3. TellReply[m.text] = "Pong"
        BY <4>2 DEF TellReply
      <4>4. Message("Tell", m.peer, "Pong") \in Outgoing(n)
        BY <3>2, <4>2, <4>3 DEF Outgoing, Message
      <4> QED BY <2>3, <2>5, <4>3, <4>4
    <3> QED BY <3>3, <3>4
  <2> QED BY <2>4, <2>5
<1>3. CASE m.type = "GroupInvite"
  <2>1. m.peer \in Names
    BY <1>1, <1>3 DEF Incoming, Tells
  <2>2. ChatReply(m) = <<Message("GroupJoin", m.peer, Nothing)>>
    BY <1>3 DEF ChatReply
  <2> QED BY <2>1, <2>2 DEF Outgoing, Message
<1>4. CASE m.type = "GroupInfo"
  <2>1. ChatReply(m) = <<Message("Alive", NoName, Nothing)>>
    BY <1>4 DEF ChatReply
  <2> QED BY <2>1 DEF Outgoing, Message
<1>5. CASE m.type = "GroupDisbandInfo"
  <2>1. ChatReply(m) = <<>>
    BY <1>5 DEF ChatReply
  <2> QED BY <2>1
<1> QED BY <1>2, <1>3, <1>4, <1>5 DEF Incoming, Tells

\* A loop sends only what its bot may send.
LEMMA ScriptOK ==
    ASSUME NEW n \in Characters, NEW turn
    PROVE  Script(n, turn) \in Seq(Outgoing(n))
<1> DEFINE at == <<Mode[n], turn>>
<1>1. Partner[n] \in Names
  BY BotsAssumption
<1>2. Message("GroupDisband", NoName, Nothing) \in Outgoing(n)
  BY DEF Outgoing, Message
<1>3. Message("GroupJoin", Partner[n], Nothing) \in Outgoing(n)
  BY <1>1 DEF Outgoing, Message
<1>4. Message("GroupInvite", Partner[n], Nothing) \in Outgoing(n)
  BY <1>1 DEF Outgoing, Message
<1>5. Mode[n] = "pingpong" => Message("Tell", Partner[n], "Ping") \in Outgoing(n)
  BY <1>1 DEF Outgoing, Message, Tells, Texts
<1>6. Mode[n] = "chatting" => Message("Tell", Partner[n], "chat") \in Outgoing(n)
  BY <1>1 DEF Outgoing, Message, Tells, Texts, Chatting
<1>7. /\ at = <<"pingpong", 4>> => Mode[n] = "pingpong"
      /\ at = <<"chatting", 3>> => Mode[n] = "chatting"
  OBVIOUS
<1> HIDE DEF at
<1>8. \/ Script(n, turn) = <<Message("GroupDisband", NoName, Nothing)>>
      \/ Script(n, turn) = <<Message("GroupJoin", Partner[n], Nothing)>>
      \/ Script(n, turn) = <<Message("GroupInvite", Partner[n], Nothing)>>
      \/ Mode[n] = "pingpong" /\ Script(n, turn) = <<Message("Tell", Partner[n], "Ping")>>
      \/ Mode[n] = "chatting" /\ Script(n, turn) = <<Message("Tell", Partner[n], "chat")>>
      \/ Script(n, turn) = <<>>
  BY <1>7 DEF Script, GetRandomInvite, GetRandomTellMsg, at
<1>9. \A m \in Outgoing(n) : <<m>> \in Seq(Outgoing(n))
  OBVIOUS
<1>10. <<>> \in Seq(Outgoing(n))
  OBVIOUS
<1> QED BY <1>2, <1>3, <1>4, <1>5, <1>6, <1>8, <1>9, <1>10, Zenon

\* The server takes one message of a bot; what it publishes stays in order.
LEMMA TakesOK ==
    ASSUME QueuesOK, NEW n \in Characters, NEW type, Takes(n, type)
    PROVE  /\ Request(n) \in Outgoing(n) /\ Request(n).type = type
           /\ DOMAIN toServer' = Characters
           /\ \A m \in Characters : toServer'[m] \in Seq(Outgoing(m))
<1>1. toServer[n] \in Seq(Outgoing(n)) /\ toServer[n] # <<>>
  BY DEF QueuesOK, Takes
<1>2. Head(toServer[n]) \in Outgoing(n) /\ Tail(toServer[n]) \in Seq(Outgoing(n))
  BY <1>1, HeadTailProperties
<1> QED BY <1>2 DEF Takes, Request, QueuesOK

\* Publishing to a topic only adds messages that bots understand.
LEMMA PublishOK ==
    ASSUME QueuesOK, NEW topic, NEW messages \in Seq(Incoming), Publish(topic, messages)
    PROVE  /\ DOMAIN toBot' = Characters
           /\ \A m \in Characters : toBot'[m] \in Seq(Incoming)
<1>1. \A m \in Characters : toBot[m] \o messages \in Seq(Incoming)
  BY ConcatProperties DEF QueuesOK
<1> QED BY <1>1 DEF Publish, QueuesOK

\* The messages of the server itself.
LEMMA ServerMessages ==
    /\ Message("GroupInfo", NoName, Nothing) \in Incoming
    /\ \A n \in Characters : /\ Message("GroupInvite", n, Nothing) \in Incoming
                             /\ Message("GroupDisbandInfo", n, Nothing) \in Incoming
    /\ Update \in Seq(Incoming)
    /\ \A n \in Characters : <<Message("GroupDisbandInfo", n, Nothing)>> \o Update \in Seq(Incoming)
<1>1. Message("GroupInfo", NoName, Nothing) \in Incoming
  BY DEF Incoming, Message
<1>2. \A n \in Characters : /\ Message("GroupInvite", n, Nothing) \in Incoming
                            /\ Message("GroupDisbandInfo", n, Nothing) \in Incoming
  BY DEF Incoming, Message
<1>3. Update \in Seq(Incoming)
  BY <1>1 DEF Update
<1>4. \A n \in Characters : <<Message("GroupDisbandInfo", n, Nothing)>> \o Update \in Seq(Incoming)
  BY <1>2, <1>3, ConcatProperties
<1> QED BY <1>1, <1>2, <1>3, <1>4

\* A Tell that is passed on is one its recipient may get from n.
LEMMA PassedOnOK ==
    ASSUME NEW n \in Characters, NEW m \in Outgoing(n), m.type = "Tell"
    PROVE  Message("Tell", n, m.text) \in Incoming
<1>1. n \in Names /\ m \in Tells /\ m.text \in Texts
  BY ServerAssumption DEF Outgoing, Tells
<1>2. \/ Chatting
      \/ m.text = "Ping" /\ Mode[n] = "pingpong"
      \/ m.text = "Pong"
  BY DEF Outgoing
<1> QED BY <1>1, <1>2 DEF Incoming, Tells, Message

\* The invariant of the queues is inductive.
LEMMA QueuesInductive == QueuesOK /\ [NextBots]_botvars => QueuesOK'
<1> SUFFICES ASSUME QueuesOK, [NextBots]_botvars
             PROVE  QueuesOK'
  OBVIOUS
<1>1. CASE UNCHANGED botvars
  BY <1>1 DEF QueuesOK, botvars
<1>2. ASSUME NEW n \in Characters, onWSMsg(n)
      PROVE  QueuesOK'
  <2>1. Head(toBot[n]) \in Incoming /\ Tail(toBot[n]) \in Seq(Incoming)
    BY <1>2, HeadTailProperties DEF QueuesOK, onWSMsg
  <2>2. toServer[n] \o ChatReply(Head(toBot[n])) \in Seq(Outgoing(n))
    BY <2>1, ReplyOK, ConcatProperties DEF QueuesOK
  <2> QED BY <1>2, <2>1, <2>2 DEF QueuesOK, onWSMsg
<1>3. ASSUME NEW n \in Characters, ChatLoop(n)
      PROVE  QueuesOK'
  <2>1. toServer[n] \o Script(n, count[n] + 1) \in Seq(Outgoing(n))
    BY ScriptOK, ConcatProperties DEF QueuesOK
  <2> QED BY <1>3, <2>1 DEF QueuesOK, ChatLoop
<1>4. ASSUME NEW n \in Characters, NEW type, Takes(n, type),
             \/ UNCHANGED toBot
             \/ \E topic, messages : messages \in Seq(Incoming) /\ Publish(topic, messages)
      PROVE  QueuesOK'
  BY <1>4, TakesOK, PublishOK DEF QueuesOK
<1>5. ASSUME NEW n \in Characters, Serves(n)
      PROVE  QueuesOK'
  <2>1. CASE Opens(n)
    BY <2>1 DEF Opens, QueuesOK
  <2>2. CASE LogsIn(n)
    BY <1>4, <2>2 DEF LogsIn
  <2>3. CASE PassesOn(n)
    <3>1. Takes(n, "Tell") /\ Publish(Tell(Request(n).peer), <<Message("Tell", n, Request(n).text)>>)
      BY <2>3 DEF PassesOn
    <3>2. Message("Tell", n, Request(n).text) \in Incoming
      BY <3>1, TakesOK, PassedOnOK
    <3>3. <<Message("Tell", n, Request(n).text)>> \in Seq(Incoming)
      BY <3>2
    <3> QED BY <1>4, <3>1, <3>3
  <2>4. CASE Invites(n)
    <3>1. <<Message("GroupInvite", n, Nothing)>> \in Seq(Incoming)
      BY ServerMessages
    <3> QED BY <1>4, <2>4, <3>1 DEF Invites
  <2>5. CASE Joins(n)
    BY <1>4, <2>5, ServerMessages DEF Joins
  <2>6. CASE Leaves(n)
    BY <1>4, <2>6, ServerMessages DEF Leaves
  <2>7. CASE Reports(n)
    BY <1>4, <2>7 DEF Reports
  <2> QED BY <1>5, <2>1, <2>2, <2>3, <2>4, <2>5, <2>6, <2>7 DEF Serves
<1> QED BY <1>1, <1>2, <1>3, <1>5 DEF NextBots

\* It holds in every reachable state.
LEMMA QueuesAlwaysOK == BotsSpec => []QueuesOK
<1>1. InitBots => QueuesOK
  <2> SUFFICES ASSUME InitBots
               PROVE  QueuesOK
    OBVIOUS
  <2>1. ASSUME NEW n \in Characters
        PROVE  <<Message("connect", n, Nothing)>> \in Seq(Outgoing(n))
    <3>1. n \in Names
      BY ServerAssumption
    <3>2. Message("connect", n, Nothing) \in Outgoing(n)
      BY <3>1 DEF Outgoing, Message
    <3> QED BY <3>2
  <2> QED BY <2>1 DEF InitBots, QueuesOK
<1> QED BY <1>1, QueuesInductive, PTL DEF BotsSpec

\* However many bots there are, in whatever modes, and however their messages
\* cross: unless a loop chats they never start to greet each other, and every
\* Pong goes to a bot that pings.
THEOREM BotsAlwaysStayQuiet == BotsSpec => []BotsStayQuiet
<1>1. QueuesOK => BotsStayQuiet
  <2> SUFFICES ASSUME QueuesOK, ~Chatting, NEW n \in Characters
               PROVE  /\ \A m \in On(toServer[n]) : m.type = "Tell" =>
                            \/ m.text = "Ping" /\ Mode[n] = "pingpong"
                            \/ m.text = "Pong" /\ Mode[m.peer] = "pingpong"
                      /\ \A m \in On(toBot[n]) : m.type = "Tell" => m.text \in {"Ping", "Pong"}
    BY DEF BotsStayQuiet, Chatting
  <2>1. ASSUME NEW m \in On(toServer[n]) PROVE m \in Outgoing(n)
    BY <2>1, ElementOfSeq DEF On, QueuesOK
  <2>2. ASSUME NEW m \in On(toBot[n]) PROVE m \in Incoming
    BY <2>2, ElementOfSeq DEF On, QueuesOK
  <2> QED BY <2>1, <2>2 DEF Outgoing, Incoming
<1> QED BY <1>1, QueuesAlwaysOK, PTL

-----------------------------------------------------------------------------
\* The bots use the server as ChatServer allows it.

\* The peer of an invitation or an answer to one is a name.
LEMMA PeersAreNames ==
    ASSUME NEW n \in Characters, NEW m \in Outgoing(n), m.type \in {"GroupInvite", "GroupJoin"}
    PROVE  m.peer \in Names
  BY DEF Outgoing, Tells

\* A step of the bots is a step of the server or leaves it alone.
LEMMA BotsStepServer == QueuesOK /\ [NextBots]_botvars => [Next]_vars
<1> SUFFICES ASSUME QueuesOK, [NextBots]_botvars
             PROVE  [Next]_vars
  OBVIOUS
<1>1. Characters \subseteq Names /\ Sockets = Characters
  BY ServerAssumption, BotsAssumption
<1>2. CASE UNCHANGED botvars
  BY <1>2 DEF botvars
<1>3. ASSUME NEW n \in Characters, onWSMsg(n) \/ ChatLoop(n)
      PROVE  [Next]_vars
  BY <1>3 DEF onWSMsg, ChatLoop
<1>4. ASSUME NEW n \in Characters, Serves(n)
      PROVE  [Next]_vars
  <2>1. CASE Opens(n)
    BY <1>1, <2>1 DEF Opens, Next
  <2>2. CASE LogsIn(n)
    BY <1>1, <2>2 DEF LogsIn, Next
  <2>3. CASE PassesOn(n) \/ Reports(n)
    BY <2>3 DEF PassesOn, Reports
  <2>4. CASE Invites(n)
    <3>1. Request(n).peer \in Names
      BY <2>4, TakesOK, PeersAreNames DEF Invites
    <3> QED BY <1>1, <2>4, <3>1 DEF Invites, Next
  <2>5. CASE Joins(n)
    <3>1. Request(n).peer \in Names
      BY <2>5, TakesOK, PeersAreNames DEF Joins
    <3> QED BY <1>1, <2>5, <3>1 DEF Joins, Next
  <2>6. CASE Leaves(n)
    BY <1>1, <2>6 DEF Leaves, Next
  <2> QED BY <1>4, <2>1, <2>2, <2>3, <2>4, <2>5, <2>6 DEF Serves
<1> QED BY <1>2, <1>3, <1>4 DEF NextBots

\* Bots and server together implement the server module, so that everything
\* proved of ChatServer holds whatever the bots do.
THEOREM BotsImplementServer == BotsSpec => Spec
<1>1. InitBots => Init
  BY DEF InitBots
<1>2. QueuesOK /\ [NextBots]_botvars => [Next]_vars
  BY BotsStepServer
<1> QED BY <1>1, <1>2, QueuesAlwaysOK, PTL DEF BotsSpec, Spec

\* The groups, sessions and subscriptions behind a crowd of bots are in order.
THEOREM BotsKeepServerInOrder ==
    BotsSpec => [](SessionsAgree /\ PresenceIsConnection /\ CacheAgrees /\ OnlyMembersListen
                   /\ RosterIsCurrent /\ SubscriptionsAreRecorded)
<1>1. Spec => [](SessionsAgree /\ PresenceIsConnection /\ CacheAgrees /\ OnlyMembersListen
                 /\ RosterIsCurrent /\ SubscriptionsAreRecorded)
  BY SessionsAlwaysAgree, PresenceIsAlwaysConnection, CacheAlwaysAgrees, OnlyMembersEverListen,
     RosterIsAlwaysCurrent, SubscriptionsAreAlwaysRecorded, PTL
<1> QED BY <1>1, BotsImplementServer, PTL

=============================================================================
