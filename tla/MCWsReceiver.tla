---------------------------- MODULE MCWsReceiver ----------------------------
(***************************************************************************)
(* WsReceiver with a buffer of a few bytes.                                *)
(***************************************************************************)
EXTENDS WsReceiver, TLC

Frame(opcode, fin, header, payload) ==
    [opcode |-> opcode, fin |-> fin, header |-> header, payload |-> payload]

MCResponse == Frame("upgrade", TRUE, 1, 2)

\* Short and long messages, fragments that fit together or do not, a frame that
\* fills more than half of the buffer and one that cannot fit.
MCShapes == {
    Frame("text", TRUE, 1, 0), Frame("text", TRUE, 1, 4), Frame("text", TRUE, 2, 7),
    Frame("text", FALSE, 1, 3), Frame("text", FALSE, 1, 1), Frame("cont", FALSE, 1, 3), Frame("cont", TRUE, 1, 1),
    Frame("ping", TRUE, 1, 0), Frame("close", TRUE, 1, 1)}

\* The headers at the boundaries of their three forms are read back as written.
Frames == INSTANCE WsFrames

ASSUME HeadersAreReadBack ==
    \A length \in {0, 1, 125, 126, 127, 255, 256, 65535, 65536, 65537, 16777216, 2147483647},
       opcode \in {0, 1, 2, 8, 9, 10}, fin, masks \in BOOLEAN :
        LET data == Frames!Header(opcode, fin, masks, length)
        IN  /\ Frames!HeaderComplete(data) /\ Frames!HeaderLength(data) = Len(data)
            /\ Frames!Opcode(data) = opcode /\ Frames!Fin(data) = fin /\ Frames!Masks(data) = masks
            /\ Frames!PayloadLength(data) = length
            /\ \A n \in 0 .. Len(data) - 1 : ~Frames!HeaderComplete(SubSeq(data, 1, n))

=============================================================================
