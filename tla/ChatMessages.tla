---------------------------- MODULE ChatMessages ----------------------------
(***************************************************************************)
(* The two formats of ChatLibrary.cpp: the text messages                   *)
(* Type:Sender:Recipient:Message, and the binary position frames.          *)
(*                                                                         *)
(* A text is the sequence of its parts between colons, so a text without a *)
(* colon has one part, and texts put together with a colon between them    *)
(* are sequences concatenated.  Of a frame only what steers its reader is  *)
(* there: its size, whether the signature is DARA, MaxHealth, and the      *)
(* int32 that the bytes at each offset make.                               *)
(***************************************************************************)
EXTENDS Integers, Sequences

\* EChatCmdType without None.  A type is spelled like its name.
EChatCmdType == {
    "Tell", "Group", "Raid", "Zone", "Channel", "GroupInvite", "GroupJoin", "GroupJoinInfo",
    "GroupDisband", "GroupDisbandInfo", "GroupKick", "GroupKickInfo", "GroupInfo", "Alive",
    "AliveInfo", "AdminStatus", "AdminGroups", "AdminZones", "AdminChannels", "AdminInfo",
    "AdminError"}

ChatCmdTypeFromString(str) == IF str \in EChatCmdType THEN str ELSE "None"

FDaraChatMsg(type, sender, recipient, message) ==
    [Type |-> type, Sender |-> sender, Recipient |-> recipient, Message |-> message]

SerializeMsg(msg) == <<msg.Type>> \o msg.Sender \o msg.Recipient \o msg.Message

\* TryParseMessage: three colons at least, and a known type that is in use.
Parses(input) == Len(input) >= 4 /\ ChatCmdTypeFromString(input[1]) # "None"
Parsed(input) ==
    FDaraChatMsg(ChatCmdTypeFromString(input[1]), <<input[2]>>, <<input[3]>>, SubSeq(input, 4, Len(input)))

-----------------------------------------------------------------------------
HeaderSize == 4
FloatSize == 4
LengthSize == 4
CharSize == 4               \* sizeof(wchar_t) on Linux
Floats == 9                 \* Location, Health, Mana and Energy with their maxima
StringsBegin == HeaderSize + Floats * FloatSize

Frame == [size : Nat, dara : BOOLEAN, maxHealth : Int, int32 : [Nat -> Int]]

\* readString: the length is checked as if the string were of wide characters, but
\* it is read, and the offset grows, as if they were bytes.
StringOk(frame, offset) ==
    LET strLen == frame.int32[offset]
        text == offset + LengthSize
    IN  /\ text <= frame.size
        /\ strLen >= 0 /\ text + strLen * CharSize <= frame.size
After(frame, offset) == offset + LengthSize + frame.int32[offset]

\* FDaraRawChatMsg::Deserialize.
Deserializes(frame) ==
    /\ frame.size >= HeaderSize /\ frame.dara
    /\ StringsBegin <= frame.size
    /\ StringOk(frame, StringsBegin)
    /\ StringOk(frame, After(frame, StringsBegin))

\* FDaraRawChatMsg::Serialize: the two strings are left out.
SerializedFrame(health) ==
    [size |-> StringsBegin, dara |-> TRUE, maxHealth |-> health, int32 |-> [offset \in Nat |-> 0]]

\* What the server asks of a frame before it passes it on to the group.
Validates(frame) == Deserializes(frame) /\ frame.maxHealth > 0

=============================================================================
