# Verification of uDaraChat

TLA+ models of the chat server, of the bots that talk to it and of the tool that
drives the bots, with TLC configurations that check them on small instances and
TLAPS proofs of what matters most for every instance. Paths and line numbers
refer to the repository's source tree (`src/`).

Contents: [1 The system](#1-the-system) · [2 The modules](#2-the-modules) ·
[3 The runs](#3-the-runs) · [4 Disagreements](#4-where-the-code-and-its-documentation-disagree) ·
[5 Fairness](#5-fairness-and-deadlock) · [6 Proofs](#6-what-is-proved) ·
[7 Abstractions](#7-abstractions-and-what-is-not-modelled) ·
[8 Observations](#8-observations-without-a-property) · [9 Plan](#9-plan) ·
[10 Running it](#10-running-it)

## 1 The system

One server process relays chat between game clients and keeps groups. Bots are
test clients with a WebSocket client of their own. A Python tool starts several
bots and steers them through scenarios with the game client. The game server, or
the token tool, issues signed tokens (JWT) that clients log in with.

```
 game client ─┐  ws/TLS                                  ┌─ group_test_controller.py
              ├────────►  uDaraChatServer                │     (reader thread per bot)
 uDaraChatBot ┘           ├ activeSessions, PerSocketData│           │ stdin/stdout
   BotWebsocket.h         ├ topic slots + uWS topics     └───────────┴─► uDaraChatBot ...
   Chatter                ├ GroupContainer
                          └ JwtAuth.h, AdminQueries.h   ◄── admin_token.py (token)
```

| Component | State | Operations | Hard behaviour | What makes it correct |
| --- | --- | --- | --- | --- |
| **Group container** `GroupContainer.cpp` | vectors `MyGroups` (name, group id, leader flag, online flag) and `MyInvites` (leader, invited, time) | start, join, kick, disband, invite, remove invite, expire, alive, set online | lookups take the *first* entry of a name and removals take *all*; leadership is spread over a flag in each entry; invitations outlive the group they were issued in | one entry per name, one leader per group, capacity, invitations die with a dissolved group |
| **Chat server** `uDaraChatServer.cpp` | `activeSessions`, `PerSocketData` of every socket (name, cached group id, slots), the subscriptions uWebSockets keeps | open, `connect:`, close, `subscribe:`, `unsubscribe:`, group commands, Alive, chat | a reconnection replaces a live socket whose close handler runs inside the new login or after it; four structures must move together; 32 slots may run out; publication order | sessions, presence, cached ids, subscriptions and published rosters agree with the container |
| **Login verification** `JwtAuth.h` | none | `VerifyLogin` | clocks that differ, tolerance on both ends | valid tokens work, others do not |
| **Administrator queries** `AdminQueries.h` | permission and expiry kept per connection | answer or refuse a query; snapshot | a connection outlives its token; the snapshot is counted from three structures | no disclosure without a live token; counts agree with connections |
| **Chat messages, position frames** `ChatLibrary.cpp` | none | parse, serialize | a frame tells its own string lengths; fields are separated by a character that names may contain; writer and reader of a frame differ | what is written is read back; nothing is read outside of a frame |
| **Bot WebSocket transport** `BotWebsocket.h` | receive buffer, fragment buffer, connection state | handshake, send, read, handle frames, close | reads cut frames anywhere; compaction with `memcpy`; fragments with control frames in between; a frame is sent in two writes, either of which may fail and close the connection | each message delivered once, in order, in full; always room to read; nothing left waiting; whole frames are sent; closures are reported |
| **Chat bot** `uDaraChatBot.cpp`, `Chatter.cpp` | mode, turn counter, flag `running` | loop by mode, replies to messages, commands on stdin | two threads on one connection; stdin read ahead by stdio; SIGINT, end of input and loss of the connection at any time; bots answer bots | whatever is to stop the bot does; commands in order; pings are answered; scripted members get in and out for ever; no endless greeting |
| **Group test controller** `tools/group_test_controller.py` | processes, `groups`, `greeted_groups` | invite, leave, disconnect, reconnect, observe | one reader thread per bot updates one view, in any order | the view is right once everything is read; one greeting per membership |
| **Token tool** `tools/admin_token.py` | none | sign a token | clock of the issuer | with login verification |
| **Example clients, echo sample** `client/`, `main.cpp` | – | – | – | legacy samples, not part of the build of server or bot |
| **Vendored jwt-cpp** `third_party/` | – | – | – | third-party code |

The server is single-threaded: every uWebSockets callback runs to its end before
the next. What it cannot choose is the order in which callbacks arrive, and
`end()` on another socket may run that socket's close handler at once, in the
middle of a login, or leave it for later. A bot has two threads, the loop and the
poll thread, that lock one mutex to read and to write, and test their loop
conditions without it. The controller has the user's thread and a reader
per bot process, under one lock. `PROJECT.json` lists the hazards at their lines
and the properties that would catch each.

## 2 The modules

| Module | Models | Correspondence |
| --- | --- | --- |
| `GroupOps` | the operations of `GroupContainer.cpp` as operators on a sequence of members and a set of invitations | each `...Accepted` is the early returns of the function, the operator of the function's name what it does to the vector |
| `GroupContainer` | the container on its own: one action per public operation | `MyGroups`, `MyInvites` are the two vectors; a refused call is the absence of a step |
| `GroupRegistry` | *abstract*: who is in which group, who leads it, who is online | a membership changes only by the member's own founding, entering, moving or leaving or its removal; leadership passes on only when the leader goes |
| `SlotOps` | the topic slots of a connection and the subscriptions of uWebSockets beside them, from the placeholders that the open handler subscribes to on | `NewEndpoint` (open handler), `StoreTopicSubscription`, `RemoveTopicSubscription`, `SubscribeGroupTopic`, ... |
| `ChatServer` | sessions, presence, subscriptions and group commands, over the operators of `GroupOps` | one action per callback; a handler with several outcomes has one action per outcome (`GroupInviteFounding`, `GroupInviteFromGroup`, `GroupJoinRefused`, `GroupJoinAccept`). `roster` is what a client knows of its group: the last `GroupInfo` it was sent |
| `AdminAccess` | tokens, logins, queries over time | `VerifyLogin` of `JwtAuth.h`, `AnswerAdminQuery` and the `DEBUG` tell of the message handler, `Issue` of `admin_token.py` |
| `ChatMessages` | the text messages and the binary position frames, as operators | `SerializeMsg` and `TryParseMessage`; `FDaraRawChatMsg::Serialize` and `Deserialize` |
| `ChatBots` | several bots on one server: `EXTENDS ChatServer` and `ChatMessages`, reuses the actions of the server, and adds a first-in first-out queue in each direction per bot | `ChatLoop` and its script by mode, `ChatReply`, `onWSMsg` |
| `WsReceiver` | the receiving side of the bot's WebSocket client | `head`/`tail` delimit the bytes in the buffer; a `Read` is one turn of the poll thread: read, handshake or `handleWSMsg`, `handleOneWSMsg` per frame, compaction |
| `WsFrames` | the bytes of a frame's header, as operators | `send` on the one side, the beginning of `handleOneWSMsg` on the other |
| `BotClient` | one bot process: main thread, poll thread, their mutex, stdin, the connection | each place of a thread (`mainAt`, `pollAt`) is one in `run()` or in its loops; a `Write` is one of the writes of a frame; `PollReads` one `wsclient.poll` |
| `GroupController` | the controller with its reader threads, on the container of `GroupOps` | `Observe` is one `observe_group`; commands of the user are actions; requests of bots and lines of their output are queues |
| `GroupOpsProofs` | facts on the operations of the container, used by `GroupContainerProofs` and `ChatServerProofs` | section 6 |
| `GroupContainerProofs`, `ChatServerProofs`, `AdminAccessProofs`, `WsReceiverProofs`, `BotClientProofs`, `ChatBotsProofs`, `GroupControllerProofs` | theorems about the module they are named for; `WsReceiverProofs` also about `WsFrames`, `ChatBotsProofs` about `ChatMessages` | section 6 |
| `MC*` | instances of the above for TLC | definitions for constants, and symmetry sets |

Composition: `GroupOps` is the base of `GroupContainer`, of `SlotOps` → `ChatServer`
→ `ChatBots`, and of `GroupController`. So the container's code is translated
once, and a change there is felt by every module above. `GroupContainer` and
`ChatServer` each instantiate `GroupRegistry` with the same refinement mapping
(`group` by the first entry of a name, `leader` by the flag, `online` by the
flag). For the server this says that *every callback is at most one step of the
registry*: a join that first leaves a solo group is the single step `Move`, a
login that runs the old socket's close handler in its middle is at most a
`Presence` step.

The transport is modelled in three layers that take each other's result for
granted: `WsFrames` shows that a header says to its reader what its writer meant,
`WsReceiver` turns headers and sizes into messages, however reads cut them, and
`BotClient` has whole messages and is about the threads that read and write them.

Operators beside an operation and named for a fault (`GroupJoinOverfull`,
`RosterUnaware`, `NoMutex`, ...) are not part of any specification. Each is a
plausible bug in the operation that follows it, and substituting it violates the
property that `PROJECT.json` names under `mutants`.

## 3 The runs

State counts are distinct states as TLC reports them.

| Run | Instance | States | Shows |
| --- | --- | --- | --- |
| `container` | 4 characters, 4 groups, capacity 3, one invitation | 8 907 | every sequence of container calls keeps one entry per name (`OneGroupPerCharacter`), one leader per group who is the longest-standing member (`LeaderIsFirst`), the capacity (`WithinCapacity`), and cancels the invitations of a dissolved group (`DissolvedGroupHasNoInvites`); each call implements `GroupRegistry` (`ImplementsRegistry`) |
| `server` | names `alice`, `bob`, `Bob`; 3 sockets; capacity 2; 2 invitations; 4 slots; `end()` closes at once | 49 444 | presence, cached group ids, subscriptions, rosters and the administrator's numbers of clients and groups agree with the sockets and the container (`PresenceIsConnection`, `CacheAgrees`, `MembersListen`, `RosterIsCurrent`, `SnapshotAgrees`); accepting an invitation never leaves a character with nothing (`JoinNeverStrands`); nobody enters without an invitation in the name of a member (`EntryNeedsNamedInvitation`); the server implements `GroupRegistry` |
| `topics` | 2 characters, 3 sockets, 5 slots, 2 custom channels, unsubscribing allowed; close events arrive late | 84 088 | when a replaced socket's close event comes after any number of other events and slots run out, sessions and presence agree (`SessionsAgree`, `PresenceIsConnection`), nobody listens to a group it is not in (`OnlyMembersListen`) and every subscription after the placeholders stays recorded (`SubscriptionsAreRecorded`) |
| `receiver` | buffer of 6 bytes, 5 frames of 9 shapes, frames may follow the handshake response at once | 32 180 | every cut of the stream delivers each message once, in order, in full (`ReceivedAsMeant`); there is always room for the next read (`RoomToRead`), the connection is given up only for a long frame (`FullOnlyForLongFrames`), no complete frame waits (`NothingWaits`), and what is moved to the front of the buffer does not overlap its source (`RestMovesApart`) |
| `client` | both kinds of mode, 2 lines on stdin, 2 messages of the server, 3 of both together | 164 590 | the bot writes whole frames (`FramesAreWhole`); closures are reported once, with their code (`ClosuresAreReported`); commands are carried out in order and the end of the input drops none (`CommandsInOrder`); whatever is to stop the bot does (`BotStops`); Pings are answered (`PingsAreAnswered`) |
| `controller` | 2 bots, 1 game client, 2 groups, 2 processes per bot; 3 commands with readers that lag at will, or 6 that each wait for quiet | 150 055 | without departures the view is right once everything is read, in whatever order readers ran; with departures, disconnections and reconnections it is if the commands were paced (`SettledView`); then each membership is also greeted once (`GreetedOncePaced`), and eventually (`EventuallyGreeted`) |
| `admin` | 2 characters, tolerance 1, clock off by up to 1, lifetimes 1 and 3, 2 tokens, 5 seconds | 132 423 | disclosure needs an unexpired administrator's token (`AdminNeedsLiveToken`), a refused connection stays refused (`ForbiddenUntilReconnect`), a token works as long as it is valid (`FreshTokensAreAccepted`) |
| `bots` | a `groupleader`, a `groupmember`, a `pingpong` bot; queues of 2 | 57 970 | the member gets into the group again and again and never stays (`MembersComeAndGo`), each Ping comes back as a Pong of its own (`PingsComeBack`), bots do not start to chat with each other (`BotsStayQuiet`) |
| `finding_*` | see section 4 | – | four statements of the documentation that the code does not keep |

Two runs also evaluate an assumption of their MC module: `container` that the
operator `Keep`, written without recursion for the proofs, is the library's
`SelectSeq` on all inputs of up to four entries (`EraseIsSelectSeq`), `receiver` that
frame headers are read back at the boundaries of their three forms
(`HeadersAreReadBack`, which section 6 has for all lengths).

**Why the bounds are enough.** *Container:* capacity 3 of 4 characters gives a
full group and somebody outside it, an heir that is not the only one left, and up
to four groups at once. *Server:* every handler concerns at most an actor, the one
whose invitation it uses and a bystander; capacity 2 makes the race for the last
place as short as it can be; two of the three names differ only in
capitalization, because the code compares exactly in some places and without case
in others. Three sockets for two characters (`topics`) let one reconnect while
its replaced socket is still to close. Four slots are exactly the automatic
topics (World, Zone, Tell, group); the fifth in `topics` with two custom channels
makes the slots fragment and run out. `MaxAge = 0` and ages up to 1: an invitation
is live or expired, and the three-minute limit is nothing but that boundary.
*Receiver:* the threshold is half the buffer and frames are shorter than, equal to
and longer than both half and the whole of it, so each branch of the compaction
and of the refusal is taken; fragments fit together or do not. *Client:* two
messages can arrive together or apart, with a close frame behind a Ping; two lines
that come together are read ahead by stdio, and one of each kind meets both
threads at once; the close frame and the loss of the connection come at any point.
*Admin:* a tolerance of 1 second already separates "expired", "expired within the
tolerance" and "too late", on both ends. *Controller:* three unpaced commands
suffice for a second roster to overtake a first, and for the counterexample of
section 4; six paced ones for found, join, leave, invite and join again, and for a
restart. *Bots:* the queues bound how far ahead a loop runs of the answers to it
(`Paced`); turns of a loop are seconds apart and a round trip is milliseconds.

**Bounds of the models**, all named: `MaxInvites` (guard of the invite actions),
`MaxFrames`, `MaxTokens`, `MaxNow`, `MaxProcesses`, `MaxCommands`, `MaxPaced`,
`MaxLines`, `MaxMessages`, `MaxInputs`, `MaxQueue` with `Paced`. `GroupIds` stands for
the random UUIDs: a new id is any that nobody uses.

**Symmetry** is used for interchangeable names, sockets and groups and only in
runs without liveness properties. The server run leaves the names out of it, since
two of them are related by their capitalization.

## 4 Where the code and its documentation disagree

Each is a run that TLC ends with a counterexample.

* `finding_channels` – `StoreTopicSubscription` takes the first slot that is free *or*
  holds the topic (`uDaraChatServer.cpp:185`). A client subscribes to a channel behind
  its group's topic, leaves the group and subscribes to the channel again: now the
  channel is in two slots. Unsubscribing frees one of them, and `AdminChannels` keeps
  counting the client. `docs/ADMIN.md:97`: "Channels with no connected subscribers do
  not appear." `ChannelsAlwaysAgree` (section 6) shows that it takes a client that takes
  a channel back.
* `finding_leader` – `GroupDisband` cancels the leaver's invitations only when it
  was the last member. A leader that invites, leaves a larger group and joins
  another leader's group admits the invited character there. `INTERFACE.md:172-173`:
  "only the leader can invite members".
* `finding_slots` – `SubscribeGroupTopic` ignores that no slot was free
  (`uDaraChatServer.cpp:261`): a client with custom channels in all its slots is a
  member that never hears its group. `INTERFACE.md:194`: "automatically subscribes
  to the group topic". `MembersAlwaysListen` (section 6) is the other side: without
  channels of its own and with four slots, every member hears its group.
* `finding_greets` – a reader that lags behind processes an older roster, takes a
  bot it does not list for one that has left, and drops its greeting: the bot greets
  again. `docs/GROUP_TEST_CONTROLLER.md:144`: "Repeated roster updates do not repeat
  the greeting". `GreetedOncePaced` of the `controller` run shows that it takes a
  lagging reader.

## 5 Fairness and deadlock

Safety runs assume none. The three that check liveness assume:

* `client` – weak fairness of the steps of both threads, strong fairness of taking
  the mutex. Each loop sleeps between two turns with the mutex released
  (`uDaraChatBot.cpp:59`, the pause or the `poll` on stdin in the main loop), so a
  thread that waits for it does not lose it for ever. Writes are taken to end: `write`
  repeats a write that has to wait without a limit (`BotWebsocket.h:121`), and a
  server that stops reading for good would stop the bot; that is outside the
  properties. Nothing obliges the server, the network or the user of stdin.
* `controller` – weak fairness of each reader (`Observe` or `Greet`): it is a
  thread that loops over its process's output; of `Arrives`, `Closed`, `Login`: what
  is sent reaches a server that serves every connection. The user and the game
  clients need not do anything, ever.
* `bots` – weak fairness of the server for each connection (its event loop) and of
  `onWSMsg` (the poll thread); strong fairness of `ChatLoop`. In the program a loop
  sleeps and takes its turn, so it is always enabled. In the model it is disabled
  from time to time by the bound `Paced`, which is why weak fairness would say
  less than the code does.

Deadlock is checked except in `receiver` (a closed connection, or all frames sent
and handled), `client` (the process has ended) and the controller's runs (all
commands used), where stopping is right.

## 6 What is proved

All of it for every value of the constants, under the named assumptions on them
that TLC evaluates in the runs.

**`GroupContainerProofs`**, on `GroupOpsProofs` – from `NamesAssumption` (folding
case is idempotent and stays within the names), `GroupIdsAssumption`,
`LimitsAssumption`, `MaxInvitesAssumption`: `InductiveInvariant` (`IInv`),
`TypeCorrect`, `NeverInTwoGroups`, `AlwaysLedByFirst`, `NeverOverCapacity`,
`DissolvingCancelsInvites`, and the refinement `ContainerImplementsRegistry`.

`IInv` is `TypeOK /\ OneGroupPerCharacter /\ LeaderIsFirst`, and none of the three
is inductive alone. Lookups by name take the first entry and removals all of them,
so a second entry of a name would let `GroupJoin` act on a group that the name is
removed from elsewhere; and that a new leader is the first remaining member is
only consistent with the flags if the flags were on first members before. The
argument: `remove_if` is `Keep` of the positions that stay. `NthProperties` (the
k-th of a set of positions exists, is in the set, and grows with k) gives
`EraseProperties` (an erased vector embeds into the old one in order and loses
nothing else). From these, one lemma per operation says that it keeps a well-formed
vector well formed (`AppendWellFormed`, `AssignLeaderWellFormed`,
`GroupDisbandWellFormed`, `SetMemberOnlineWellFormed`). `NeverOverCapacity` adds
lemmas on how each operation changes `MemberCount`; `DissolvingCancelsInvites` that a
group can only vanish by the departure of its last member, which is the case in
which invitations are dropped. The refinement needs what each operation does to the
three maps of the registry: `StartFounds`, `JoinEnters`, `KickLeaves`,
`DisbandLeaves`, `OnlineEffect` say that it changes `group` at one name at most,
`online` of that name, and `leader` only of a group that is founded or whose
leader has gone.

**`ChatServerProofs`** – for every number of characters, sockets, slots, channels
and invitations, and for both moments at which the close handler of an ended socket
may run: `ServerInvariant` (`ServerInv`), `TypesCorrect`, `SessionsAlwaysAgree`,
`PresenceIsAlwaysConnection`, `CacheAlwaysAgrees`, `OnlyMembersEverListen`,
`SubscriptionsAreAlwaysRecorded`, `RosterIsAlwaysCurrent`, the action properties
`JoinNeverEverStrands` and `EntryAlwaysNeedsNamedInvitation`, the refinement
`ServerImplementsRegistry`, and, under conditions, `EntryAlwaysNeedsInvitation`,
`MembersAlwaysListen`, `SnapshotAlwaysAgrees` and `ChannelsAlwaysAgree`. `ServerInv` has five parts:

* `SessionsOK` – a socket that is logged in is the one that `activeSessions` has
  under its name, and the reverse. The guard of the close handler turns on this.
* `MembersOK` – the container is well formed; only characters that exist are in it;
  who is online in it is who has a session; the cached id of a session is the group
  in the container. Each handler looks up one of the two and writes both.
* `EndpointsOK` – every subscription but those to placeholders is in a slot, and at most
  one slot holds the topic of a group, that of the connection's own group. Unsubscribing frees one slot,
  so "at most one" is what keeps a leaver from hearing its old group.
* `RostersOK` – a client that has heard of its group, or shares it, knows it as the
  container has it now. A step either leaves a group as it was (`RosterStays`) or
  publishes it to those that listen (`RosterPublished`). A member without a slot has
  heard nothing, so it is left out by its subscription and not by assumption.
* the invitations are typed.

Joining out of a group of one leaves it first and joins then; `SoloMoves` says that
the second half cannot be refused once the first is done, and that both together
are one step `Move`.

Who enters a group has a live invitation whose inviter has the name of a member in some
capitalization (`EntryIsByInvitation`, without conditions): `JoinValidated` looks for the
invitation without case and for the group of the exact name. `EntryAlwaysNeedsInvitation`,
which asks that the inviter itself is in the group, therefore has the condition that
no two names differ in capitalization only. It is needed (section 8).

`MembersAlwaysListen` has conditions: four slots at least, no custom channels, no
unsubscribing (`UserTopics = {}`, `Droppable = {}`). Its invariant `OnlyAutomatic` says
exactly what the slots hold: World, Zone and Tell in the first three, the group's
topic, if there is a group, in the fourth, and nothing that is in use behind them. The
run `finding_slots` shows that the conditions are needed.

`SnapshotAlwaysAgrees` is for finitely many sockets and an `end()` that runs the close
handler (`EndClosesNow`): then no socket is ever left "ending" (`NoneEnding`), and sessions
and connections are counted one for one. `ChannelsAlwaysAgree` has the further condition
that clients take back no channel (they may take back any other topic). It rests on
`ChannelsListen`: a channel in a slot is subscribed to. Freeing a slot of another topic
keeps that, even if the channel is in two slots; freeing one of the two does not, and that
is `finding_channels`.

**`WsReceiverProofs`** – from `ReceiverAssumption` (the buffer has at least two
bytes, shapes have headers) and `ControlAssumption` (only text frames and continuations
are ever unfinished): `AlwaysRoomToRead`, `AlwaysFullOnlyForLongFrames`,
`RestAlwaysMovesApart` (for a buffer of even size), `NothingEverWaits`,
`AlwaysReceivedAsMeant`, `ReceiverTypeCorrect`, for every buffer size, all frame lengths
and however the stream is cut. The invariant `BufferInv` is `StreamOK` (each frame
ends its size after the one before it, and so the ends grow; only the first is the
handshake response), `BufferOK` (`head <= tail` within the buffer, with room behind
`tail` while the connection is open) and `FullOnlyForLongFrames`. The step that
matters is `ReadBuffer`: where the handled frames end decides between an empty
buffer, a rest that moves to the front and a rest in the first half; only the last
can reach the end of the buffer, and then the frame at its front, which is not
complete, is longer than the half behind it. `StreamOK` is needed to turn "not
complete" into a bound on that frame's size. For `NothingEverWaits` the invariant
gains `OnlySent`: the buffer ends where the stream ends at the latest, so a new frame
cannot already be complete in it.

`AlwaysReceivedAsMeant` is about what is handed to `onWSMsg`, and compares two things
that are built in different ways: `received` grows frame by frame with `frame_size` and
`recv_opcode` kept in between, while `Meant` is read off the whole stream, as the frames
that end a message and the fragments since the frame that began it. The invariant
`MessageInv` adds `GrammarOK` (a continuation only comes within a message, a new text
only outside one) and `HandlingOK`: what was handed over is what is meant so far, and
what is kept are the fragments of the message that is open, in order, if one is
(`Collected`); if none is, the opcode kept is that of a continuation only before the first
text. The last part is what makes a refusal safe: a fragment is refused for its length
only behind another one, since a complete frame always fits (`CompleteFits`). One frame
keeps it (`FrameHandled`, a case for each branch of `handleOneWSMsg`, on
`FirstFragment`, `NextFragment`, `LastFragment`); a read handles any number of frames by
the recursive function `HandledUpTo`, so the argument is an induction over them. It is
made on a set of numbers, as `InductionUpTo`, from the library's theorem that a non-empty
set has a minimal element under a well-founded relation: `HandledUpToUnfolds` shows so
that the recursion has a solution, `ReadMessages` that each frame of the read keeps
`HandlingOK`. `SortedGrows` (the sorted sequence of a set grows at its end with a new
maximum) is the lemma that relates `Append` to `Meant`.

Of `WsFrames`, for all lengths below 2^32: `HeaderIsReadBack` and `PartOfHeaderWaits` (no
proper part of a header passes for a whole one).

**`AdminAccessProofs`** – from `AdminAssumption` (the clocks differ by no more than
the tolerance): `AdminAlwaysNeedsLiveToken`, `FreshTokensAlwaysAccepted`,
`AlwaysForbiddenUntilReconnect`. The invariant `AdminInv` adds `SessionsBacked`: the
permission and expiry that a connection keeps are those of a token that was issued
to this character, which is what a check long after the login relies on.
`RefusedStay` adds that a refused character has no connection that may administer:
time only takes the permission away.

**`BotClientProofs`** – for any number of messages and lines: `BotClientInvariant`,
`FramesAlwaysWhole`, `ClosuresAlwaysReported`, `CommandsAlwaysInOrder`. `MutexOK` ties the mutex to the places
of the threads and to what they still have to send; `PhaseOK` the connection to the
start and end of the threads; `ClosureOK` says what the poll thread knows of a
closure at each of its places. The last is what the report needs: between the test of
the loop and the report only the main thread can have closed the connection. For the
commands, `LinesOK` says that what has been done, the line taken, what stdio has read
ahead and the pipe are, in this order, what was written, as long as the connection is
not closed (then a line may be dropped, and only a prefix is left to claim); `EndOK`
says why the loop may have ended.

**`ChatBotsProofs`** – of text messages and frames: `RoundTrip` (a message comes back
as it was if its names have no colon, whatever its text has), `AcceptedTextIsKept` (what
is parsed and written again is unchanged), `ColonShifts` (a colon in the sender's name
does shift the fields), `ReadsStayInside` (whatever lengths a frame claims, what is read
of its strings lies in it), `OwnFramesRefused` and `ExactFramesRefused` (the reader
refuses the program's own frames, and those that have exactly the two strings it asks
for, but for an empty name and a zone of at most one byte).

Of any number of bots in any modes: `BotsAlwaysStayQuiet`, from the invariant `QueuesOK`:
a queue to the server only holds what the bot's mode lets it say, which is Ping for one
whose turns ping and Pong for an answer, and a Pong is addressed to a bot that pings. It
has to speak of the queues in both directions, since a Tell read at one end was put in
at the other, and the server puts its own messages in between. `BotsImplementServer`
says that `ChatBots` refines `ChatServer` – a step of a bot or of a queue is one callback
of the server or none – and `BotsKeepServerInOrder` draws the conclusion: the safety
invariants of `ChatServerProofs` hold behind the bots, without being proved twice.

**`GroupControllerProofs`** – for any number of bots, processes, groups and game clients:
`TypeCorrect`, `NoSecondGreeting`, `ViewSettles`. The invariant is `ControllerInv`,
`Common /\ (paced => PacedInv) /\ (Undisturbed => UndisturbedInv)`, and the two cases
are different arguments, because the view is right for different reasons.

* `Common` – types, a well-formed container, and that every group that the view or a
  line speaks of has been founded. `GetNewGroupId` repeats no id, so what was said of a
  group can never be true of another one by accident.
* `PacedInv`, when each command waits for quiet. One request is on its way at a time and
  was sent into silence (`OneRequest`); so each line is still true when it is read, in
  whatever order readers run (`LinesAreCurrent`); a bot that greeted a group it is still
  in has not forgotten it (`HailsAreRemembered`), from which `GreetedOnce` follows; and
  the view of a bot is right, or a line that will correct it is there, or it has asked
  to leave (`ViewIsRight`). The last part of `HailsAreRemembered` matters: a bot can be
  in another group than it greeted only if that group is gone, otherwise a late roster
  of it would make the bot greet again.
* `UndisturbedInv`, at any pace, while no bot left or was disconnected. Lines may now be
  old: a roster may not list a bot that has joined since, and `observe_group` would take
  that bot out of the view again. The invariant is about positions: a line that hides
  the group of a bot has a later line of the *same* process that lists it
  (`LineIsHarmless`, `LearnsAfter`). The same process is enough because every roster goes
  to all of a group at once, and a reader keeps the order of its process. A bot that has
  sent a leave is excepted (`WantsToLeave`): once it arrives, the run is disturbed.

`SettledView` is both cases at rest: without lines, `ViewIsRight` and the second part of
`UndisturbedInv` leave only the true view.

**Only model-checked:** the liveness properties `BotStops`, `PingsAreAnswered`,
`EventuallyGreeted`, `MembersComeAndGo` and `PingsComeBack`, which the proof system does
not treat, with the action part of `PingsComeBack`. Every other action property and every
invariant of a passing run is a theorem. `EntryNeedsInvitation` and `ChannelsAgree` are
theorems only, under their conditions.

## 7 Abstractions and what is not modelled

* **Time.** An invitation has an age instead of a stored time, and `Tick` ages all
  of them; `Expire` and the expiry inside invite and join are the code's. There is
  no time in `ChatBots`: bots answer long before an invitation expires.
* **Invitations are a set.** The code appends to a vector, but every search and
  every removal is by content, so neither the position of an invitation nor how often
  it is stored makes a difference.
* **One zone.** Zones come from the game client and change no state of the server.
* **Pass-through chat** (Channel, Zone, Group, Tell, AliveInfo) changes no state: who
  receives it is what the subscriptions say, and those are modelled. In `ChatBots`,
  where replies matter, Tell is modelled and a text is one of the kinds that
  `ChatReply` tells apart by their beginning.
* **A socket address can be reused** once it is closed, as allocators do. `end()` is
  modelled both ways, by `EndClosesNow`; in the late variant the slots of an ended
  socket are dropped at once, though they go with its data. Only the channel counts
  of an administrator still read them, and that count is not checked there.
* **A placeholder** is the socket and the number of its slot; the name,
  `<address>-<i>`, is nobody else's, since `CheckValidTopicName` refuses the hyphen. The slots of a closed socket, which has none, are written as unused.
* **Left out:** text formats (GroupInfo, JSON, dumps), logging, TLS and the command
  line; uptime and zones in the snapshot; the optional `nbf` claim (the token tool sets none);
  signatures and claims other than times, name and role, which being an issued token
  stands for; in `GroupController` the scenarios' prompts and the startup deadline:
  commands come in any order.
* **`ChatBots`:** connections stay up; `chatting` between bots is possible in the
  model but not part of its instance (see below).
* **`ChatMessages`:** a text is its parts between colons, a part is any value; of a
  frame only what steers the reader is there. `wchar_t` has four bytes, as on
  the platform the comments in the code name (`ChatLibrary.cpp:219`).
* **`WsReceiver`:** bytes are counted, not modelled. The server fragments no control
  frames (`ControlAssumption`; RFC 6455, 5.5, forbids it). A frame handled after the
  connection is already closed by a too long message is handled as the code does.
* **`WsFrames`:** lengths below 2^32, as `send` takes them; the client's masking key
  is zero in the code, so masking leaves the payload as it is.
* **`BotClient`:** messages are whole; partial writes are one write that is done,
  fails or waits. All modes but `controlled` are one kind, whose turn sends something
  or nothing. Reading from a connection that is already gone crashes or returns an
  error: both are possible.
* **Not modelled:** `GroupInfo::Deserialize` (`GroupContainer.cpp:51-86`), which
  nothing calls, and the printing of the container and its self-test; the HTTP text of
  the handshake and the server class `WSServer`, which nothing uses; UTF-8 conversion;
  the example clients and the echo sample, which no target of the `Makefile` for server or bot
  builds; vendored code.

## 8 Observations without a property

Met while modelling; they contradict nothing that the repository states, or are
documented already.

* The open handler subscribes every socket to 32 placeholder topics, `<address>-<i>`,
  whose slots are not in use (`uDaraChatServer.cpp:415-421`). The first topic stored in such
  a slot overwrites its name (`:191`), and the subscription to the placeholder can be
  found no more; it goes with the socket. Nobody publishes to these topics.
  `SubscriptionsAreRecorded` excepts them.
* Names that differ only in capitalization. `INTERFACE.md:22` asks to "always use the same
  capitalization for consistent group management", and these are what happens otherwise. An
  invitation written in another capitalization is delivered and accepted, since
  `CheckHasInvited` ignores case (`GroupContainer.cpp:745`), but not removed, since
  `RemoveInvite` compares exactly (`:735`): it can be used again until it expires. And an
  accepted invitation is looked up without case, but the group of the inviter by the exact
  name in the command (`uDaraChatServer.cpp:640`): invited by `bob`, a character gets into
  the group of `Bob`, who has invited nobody. `EntryNeedsInvitation` fails on the instance
  of the run `server`, where there are both; `EntryNeedsNamedInvitation`, which that run
  checks, is what is left of it.
* Frames that arrive with the handshake response wait in the buffer until more
  bytes come. `NothingWaits` excepts them.
* After a fragmented message that is too long has closed the connection, the frames
  behind it in the buffer are still handled.
* `poll` on stdin (`uDaraChatBot.cpp:91`) does not know what `std::getline` has read
  ahead. Of two lines that come together, the second is carried out when more input or
  its end comes. `CommandsInOrder` says that it is neither lost nor overtaken.
* When a send of the main thread meets the loss of the connection, both loops may end
  with nothing reported; `ClosuresAreReported` says which closures are. If the poll thread
  has tested its condition before and gets the mutex after, it reads from a null TLS
  pointer.
* SIGINT while the bot is still connecting is lost, since `run()` sets the flag again
  (`uDaraChatBot.cpp:46`). Afterwards it is honoured at the next test of the loop, after
  the pause of a turn.
* A colon in a character's name shifts the fields of its messages (`ColonShifts`).
* The binary position frame and its reader do not match, as `INTERFACE.md:305-317`
  says itself: the reader asks for two strings that the writer leaves out, and counts
  them once in characters and once in bytes. The server drops the bots' own frames.
* `kick` is a command of the bot and the controller, and
  `docs/GROUP_TEST_CONTROLLER.md:83-84` speaks of the server's leader checks, but the
  server has no handler for it (`INTERFACE.md:326`). `Kick` is in `GroupContainer`
  and not in `ChatServer`.
* A bot answers any Tell but a Pong, so two bots, once one has sent the other
  ordinary text, greet each other without end. `BotsStayQuiet` is about bots whose
  mode does not chat.
* The controller forgets a greeting when it sees a leave being *sent*. If a roster of
  the group is still on its way, that roster counts as a membership, and rejoining
  the same group goes without a greeting. `EventuallyGreeted` holds with paced
  commands.

## 9 Plan

Done, in this order, the most central behaviour first: container and its proofs;
server; transport and its proofs; controller; administrator access and its
proofs; bots on the server; the refinement proofs of container and server, and the
server's invariant, from which all its safety properties follow; the figures that an
administrator is told; the bot process and
its proofs; chat messages and position frames; frame headers; the proofs of the
controller, of the composition of bots and server, and of the messages received.

Next:

1. **Refinement by the transport.** A queue of whole messages as the abstract
   specification of `WsReceiver`, of which `Meant(done)` is what has been delivered.
2. **Zones** in the snapshot, as a value that each client's Alive message carries.
3. **The controller's scenarios** as sequences of paced commands, with the startup
   deadline.

## 10 Running it

`tlc -config MCChatServer.cfg MCChatServer` checks a run (module and configuration of
each are in `PROJECT.json`); `tlapm GroupContainerProofs.tla` checks the proofs of a
module. Each run finishes within a few minutes on two workers.
