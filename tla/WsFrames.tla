------------------------------ MODULE WsFrames ------------------------------
(***************************************************************************)
(* The header of a WebSocket frame as BotWebsocket.h writes it (send) and  *)
(* reads it (handleOneWSMsg).  WsReceiver works with the sizes only; this  *)
(* module is about the bytes.  A client masks what it sends, with a key of *)
(* zeros, which leaves the payload as it is.                               *)
(***************************************************************************)
EXTENDS Integers, Sequences

Bit7(set) == IF set THEN 128 ELSE 0

\* htobe16, and htobe64 of an uint32.
BigEndian16(n) == <<n \div 256, n % 256>>
BigEndian64(n) ==
    LET high == n \div 65536
    IN  <<0, 0, 0, 0, high \div 256, high % 256, (n \div 256) % 256, n % 256>>

\* The payload length in the second byte, and the bytes that follow for a longer one.
ShortLength(length) == IF length < 126 THEN length ELSE IF length < 65536 THEN 126 ELSE 127
LongLength(length) ==
    IF length < 126 THEN <<>> ELSE IF length < 65536 THEN BigEndian16(length) ELSE BigEndian64(length)

Header(opcode, fin, masks, length) ==
    <<opcode + Bit7(fin), ShortLength(length) + Bit7(masks)>>
        \o LongLength(length) \o (IF masks THEN <<0, 0, 0, 0>> ELSE <<>>)

-----------------------------------------------------------------------------
\* handleOneWSMsg.

Opcode(data) == data[1] % 16
Fin(data) == data[1] >= 128
Masks(data) == data[2] >= 128
Extended(data) == IF data[2] % 128 = 126 THEN 2 ELSE IF data[2] % 128 = 127 THEN 8 ELSE 0
HeaderLength(data) == 2 + Extended(data) + (IF Masks(data) THEN 4 ELSE 0)

\* Whether the header is there as a whole.
HeaderComplete(data) == Len(data) >= 2 /\ Len(data) >= HeaderLength(data)

\* pl_len, for lengths below 2^32.
PayloadLength(data) ==
    IF Extended(data) = 2 THEN data[3] * 256 + data[4]
    ELSE IF Extended(data) = 8
    THEN (data[7] * 256 + data[8]) * 65536 + data[9] * 256 + data[10]
    ELSE data[2] % 128

=============================================================================
