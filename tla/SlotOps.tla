------------------------------ MODULE SlotOps -------------------------------
(***************************************************************************)
(* The topic slots of a connection: uDaraChatServer.cpp records in a fixed *)
(* number of slots which topics it has subscribed a socket to, beside the  *)
(* subscriptions that uWebSockets itself keeps.  An endpoint is the pair   *)
(* of the two: topics is the slot vector, subs the set of subscriptions.   *)
(***************************************************************************)
EXTENDS GroupOps

CONSTANTS
    NumSlots,       \* slots of a connection (32)
    UserTopics      \* the custom channel names CheckValidTopicName accepts

ASSUME SlotsAssumption == NumSlots \in Nat \ {0}

\* Topics by the prefix of their name.  Zones are not told apart.
World        == <<"world", NoName>>
Zone         == <<"zone", NoName>>
Tell(n)      == <<"tell", ToLower[n]>>
GroupTopic(g) == <<"group", g>>
Custom(t)    == <<"custom", t>>

Topics ==
    {World, Zone}
    \cup {Tell(n) : n \in Names}
    \cup {GroupTopic(g) : g \in GroupIds}
    \cup {Custom(t) : t \in UserTopics}

\* A slot that is not marked as used holds the name "none" once it has been freed,
\* and before its first use a placeholder, made of the address of the socket and
\* the number of the slot.
Unused == <<"unused", NoName>>
Placeholder(s, i) == <<"placeholder", <<s, i>>>>
InUse(t) == t[1] \notin {"unused", "placeholder"}

\* A socket that is not open has no slots and no subscriptions; one that has just
\* been opened is subscribed to the placeholders in its slots.  Nothing undoes these
\* subscriptions while it is open: only topics of slots in use are ever unsubscribed.
NoEndpoint == [topics |-> [i \in 1 .. NumSlots |-> Unused], subs |-> {}]
NewEndpoint(s) ==
    [topics |-> [i \in 1 .. NumSlots |-> Placeholder(s, i)],
     subs |-> {Placeholder(s, i) : i \in 1 .. NumSlots}]

IsPlaceholder(t) == t[1] = "placeholder"
IsGroupTopic(t) == t[1] = "group"

\* Mutation of Subscribe: the last slot is overwritten when all are in use.
SubscribeEvicting(endpoint, t) ==
    LET usable == {i \in 1 .. NumSlots :
                      ~InUse(endpoint.topics[i]) \/ endpoint.topics[i] = t \/ i = NumSlots}
    IN  [endpoint EXCEPT !.topics[First(usable)] = t, !.subs = @ \cup {t}]

\* StoreTopicSubscription takes the first slot that is free or already holds
\* the topic, whichever comes first; the callers subscribe when it finds one.
Subscribe(endpoint, t) ==
    LET usable == {i \in 1 .. NumSlots : ~InUse(endpoint.topics[i]) \/ endpoint.topics[i] = t}
    IN  IF usable = {} THEN endpoint
        ELSE [endpoint EXCEPT !.topics[First(usable)] = t,
                              !.subs = @ \cup {t}]

\* The first of the given slots is freed and its topic unsubscribed.
FreeFirst(endpoint, slots) ==
    IF slots = {} THEN endpoint
    ELSE [endpoint EXCEPT !.topics[First(slots)] = Unused,
                          !.subs = @ \ {endpoint.topics[First(slots)]}]

RemoveTopicSubscription(endpoint, t) ==
    FreeFirst(endpoint, {i \in 1 .. NumSlots : InUse(endpoint.topics[i]) /\ endpoint.topics[i] = t})

\* Mutation of RemoveGroupSubscription: the group topic is taken to be in the last slot.
RemoveLastSubscription(endpoint) ==
    FreeFirst(endpoint, {i \in {NumSlots} : InUse(endpoint.topics[i])})

RemoveGroupSubscription(endpoint) ==
    FreeFirst(endpoint, {i \in 1 .. NumSlots : IsGroupTopic(endpoint.topics[i])})

\* Mutation of SubscribeGroupTopic: no check that there is a group.
SubscribeAnyGroupTopic(endpoint, g) == Subscribe(endpoint, GroupTopic(g))

SubscribeGroupTopic(endpoint, g) ==
    IF g = NoGroup THEN endpoint ELSE Subscribe(endpoint, GroupTopic(g))

\* Mutation of SubscribeStandardTopics: the group is forgotten on reconnection.
SubscribeAllButGroup(endpoint, n, g) ==
    Subscribe(Subscribe(Subscribe(endpoint, World), Zone), Tell(n))

SubscribeStandardTopics(endpoint, n, g) ==
    SubscribeGroupTopic(Subscribe(Subscribe(Subscribe(endpoint, World), Zone), Tell(n)), g)

=============================================================================
