-------------------------- MODULE WsReceiverProofs --------------------------
(***************************************************************************)
(* The receive buffer of BotWebsocket.h never runs full unnoticed, only a  *)
(* frame longer than half of it can fill it, no complete frame waits in it *)
(* for another read, and the messages are received as they were meant, for *)
(* every buffer size, every set of frames and every way the stream is cut  *)
(* into reads and the messages into fragments.  And a frame header is read *)
(* back as it was written, for every length that a frame can have, and no  *)
(* part of one is taken for all of it.                                     *)
(***************************************************************************)
EXTENDS WsReceiver, WsFrames, TLAPS, WellFoundedInduction, FiniteSetTheorems,
        SequenceTheorems

Entry == [shape : Shape, end : Nat]

\* The stream: every frame ends where the frame before it ends plus its size,
\* only the first is the response, and nothing follows it too early.
StreamOK ==
    /\ sent \in Seq(Entry) /\ Len(sent) > 0
    /\ sent[1].end = Size(sent[1].shape)
    /\ \A i \in 2 .. Len(sent) : sent[i].end = sent[i - 1].end + Size(sent[i].shape)
    /\ \A i, j \in 1 .. Len(sent) : i <= j => sent[i].end <= sent[j].end
    /\ \A i \in 2 .. Len(sent) : sent[i].shape.opcode # "upgrade"
    /\ done = 0 /\ ~EarlyFrames => Len(sent) = 1

\* The buffer: between two reads an open connection has room in it.
BufferOK ==
    /\ done \in 0 .. Len(sent)
    /\ head \in Nat /\ tail \in Nat
    /\ head <= tail /\ tail <= RecvBufSize
    /\ status = "open" => tail < RecvBufSize

\* The inductive invariant.
BufferInv == StreamOK /\ BufferOK /\ FullOnlyForLongFrames

-----------------------------------------------------------------------------
\* Half of the buffer is positive and shorter than the buffer.
LEMMA HalfType == Half \in Nat /\ Half > 0 /\ Half < RecvBufSize
  BY ReceiverAssumption, SMT DEF Half

\* The bytes moved to the front of a buffer of even size never overlap the
\* place they come from, so memcpy may move them.
LEMMA RestDoesNotOverlap ==
    ASSUME RecvBufSize % 2 = 0, NEW front \in Nat, NEW back \in Nat,
           front >= Half, back <= RecvBufSize
    PROVE  back - front <= front
  BY ReceiverAssumption, SMT DEF Half

\* Every frame has a positive number of bytes.
LEMMA SizeType == \A f \in Shape : Size(f) \in Nat /\ Size(f) > 0
  BY SMT DEF Shape, Size

\* Offsets of ends: natural numbers, each the one before plus a size.
LEMMA EndType ==
    ASSUME StreamOK
    PROVE  /\ \A n \in 0 .. Len(sent) : End(n) \in Nat
           /\ \A n \in 0 .. Len(sent) - 1 : End(n + 1) = End(n) + Size(sent[n + 1].shape)
  <1>1. ASSUME NEW n \in 0 .. Len(sent) PROVE End(n) \in Nat
    <2>1. n # 0 => sent[n] \in Entry
      BY SMT DEF StreamOK
    <2> QED BY <2>1, SMT DEF End, Entry
  <1>2. ASSUME NEW n \in 0 .. Len(sent) - 1
        PROVE  End(n + 1) = End(n) + Size(sent[n + 1].shape)
    <2>1. CASE n = 0
      <3>1. sent[1] \in Entry
        BY SMT DEF StreamOK
      <3>2. Size(sent[1].shape) \in Nat
        BY <3>1, SizeType DEF Entry
      <3> QED BY <2>1, <3>2, SMT DEF StreamOK, End
    <2>2. CASE n # 0
      <3>1. n + 1 \in 2 .. Len(sent) /\ (n + 1) - 1 = n
        BY <2>2, SMT DEF StreamOK
      <3> QED BY <2>2, <3>1, SMT DEF StreamOK, End
    <2> QED BY <2>1, <2>2
  <1> QED BY <1>1, <1>2

-----------------------------------------------------------------------------
\* Later frames end further along the stream.
LEMMA EndGrows ==
    ASSUME StreamOK, NEW i \in 0 .. Len(sent), NEW j \in 0 .. Len(sent), i <= j
    PROVE  End(i) <= End(j)
  <1>1. CASE i = 0
    BY <1>1, EndType, SMT DEF End
  <1>2. CASE i # 0
    <2>1. i \in 1 .. Len(sent) /\ j \in 1 .. Len(sent)
      BY <1>2, SMT DEF StreamOK
    <2> QED BY <2>1, SMT DEF StreamOK, End
  <1> QED BY <1>1, <1>2

-----------------------------------------------------------------------------
\* The buffer invariant holds at the start.
LEMMA InitBuffer == Init => BufferInv
  <1> SUFFICES ASSUME Init PROVE BufferInv
    OBVIOUS
  <1>1. Response \in Shape /\ Size(Response) \in Nat
    BY ReceiverAssumption, SizeType
  <1>2. Ending(Response, Size(Response)) \in Entry
    BY <1>1 DEF Ending, Entry
  <1>3. /\ sent \in Seq(Entry) /\ Len(sent) = 1
        /\ sent[1] = Ending(Response, Size(Response))
    BY <1>2, SMT DEF Init
  <1>4. sent[1].end \in Nat /\ sent[1].end = Size(sent[1].shape)
    BY <1>1, <1>3 DEF Ending
  <1>5. StreamOK
    BY <1>3, <1>4, SMT DEF StreamOK
  <1>6. BufferOK
    BY <1>3, ReceiverAssumption, SMT DEF BufferOK, Init
  <1> QED BY <1>5, <1>6 DEF BufferInv, FullOnlyForLongFrames, Init

\* The peer sending a frame keeps the buffer invariant.
LEMMA SendBuffer ==
    ASSUME BufferInv, NEW f \in Shapes, Send(f)
    PROVE  BufferInv'
  <1> DEFINE e == Ending(f, End(Len(sent)) + Size(f))
  <1>0. f \in Shape /\ f.opcode # "upgrade" /\ Size(f) \in Nat
    BY ReceiverAssumption, SizeType
  <1>1. e.shape = f /\ e.end = sent[Len(sent)].end + Size(f) /\ e.end \in Nat
    <2>1. Len(sent) \in Nat /\ Len(sent) # 0 /\ sent[Len(sent)] \in Entry
      BY SMT DEF BufferInv, StreamOK
    <2> QED BY <1>0, <2>1, SMT DEF Ending, End, Entry
  <1>2. e \in Entry
    BY <1>0, <1>1 DEF Entry, Ending
  <1>3. sent' = Append(sent, e)
    BY DEF Send
  <1>4. /\ sent' \in Seq(Entry) /\ Len(sent') = Len(sent) + 1
        /\ sent'[Len(sent) + 1] = e
        /\ \A i \in 1 .. Len(sent) : sent'[i] = sent[i]
    <2> HIDE DEF e
    <2> QED BY <1>2, <1>3, SMT DEF BufferInv, StreamOK
  <1>5. UNCHANGED <<done, head, tail, status>>
    BY DEF Send
  <1> HIDE DEF e
  <1>6. StreamOK'
    <2>0. Len(sent) \in Nat /\ Len(sent) > 0 /\ \A i \in 1 .. Len(sent) : sent[i].end \in Nat
      <3>1. sent \in Seq(Entry) /\ Len(sent) \in Nat /\ Len(sent) > 0
        BY SMT DEF BufferInv, StreamOK
      <3>2. \A i \in 1 .. Len(sent) : sent[i] \in Entry
        BY <3>1, SMT
      <3> QED BY <3>1, <3>2 DEF Entry
    <2>1. sent'[1].end = Size(sent'[1].shape)
      BY <1>4, <2>0, SMT DEF BufferInv, StreamOK
    <2>2. \A i \in 2 .. Len(sent') : sent'[i].end = sent'[i - 1].end + Size(sent'[i].shape)
      <3> SUFFICES ASSUME NEW i \in 2 .. Len(sent')
                   PROVE  sent'[i].end = sent'[i - 1].end + Size(sent'[i].shape)
        OBVIOUS
      <3>1. CASE i = Len(sent) + 1
        <4>1. i - 1 = Len(sent) /\ sent'[i - 1] = sent[Len(sent)]
          BY <1>4, <2>0, <3>1, SMT
        <4> QED BY <1>1, <1>4, <3>1, <4>1
      <3>2. CASE i # Len(sent) + 1
        <4>1. i \in 2 .. Len(sent) /\ i \in 1 .. Len(sent) /\ i - 1 \in 1 .. Len(sent)
          BY <1>4, <2>0, <3>2, SMT
        <4>2. sent'[i] = sent[i] /\ sent'[i - 1] = sent[i - 1]
          BY <1>4, <4>1
        <4> QED BY <4>1, <4>2 DEF BufferInv, StreamOK
      <3> QED BY <3>1, <3>2
    <2>3. \A i, j \in 1 .. Len(sent') : i <= j => sent'[i].end <= sent'[j].end
      <3> SUFFICES ASSUME NEW i \in 1 .. Len(sent'), NEW j \in 1 .. Len(sent'), i <= j
                   PROVE  sent'[i].end <= sent'[j].end
        OBVIOUS
      <3>0. \A k \in 1 .. Len(sent) : sent[k].end <= sent[Len(sent)].end
        BY <2>0, SMT DEF BufferInv, StreamOK
      <3>1. CASE j = Len(sent) + 1 /\ i # j
        <4>1. i \in 1 .. Len(sent) /\ sent'[i] = sent[i] /\ sent'[j] = e
          BY <1>4, <2>0, <3>1, SMT
        <4>2. /\ sent[i].end <= sent[Len(sent)].end
              /\ sent[i].end \in Nat /\ sent[Len(sent)].end \in Nat
          BY <2>0, <3>0, <4>1, SMT
        <4> QED BY <1>0, <1>1, <4>1, <4>2, SMT
      <3>2. CASE i = j
        <4>1. sent'[i].end \in Nat
          <5>1. sent'[i] \in Entry
            BY <1>4, SMT
          <5> QED BY <5>1 DEF Entry
        <4> QED BY <3>2, <4>1, SMT
      <3>3. CASE j # Len(sent) + 1
        <4>1. i \in 1 .. Len(sent) /\ j \in 1 .. Len(sent)
          BY <1>4, <2>0, <3>3, SMT
        <4>2. sent'[i] = sent[i] /\ sent'[j] = sent[j]
          BY <1>4, <4>1
        <4> QED BY <4>1, <4>2 DEF BufferInv, StreamOK
      <3> QED BY <3>1, <3>2, <3>3
    <2>4. \A i \in 2 .. Len(sent') : sent'[i].shape.opcode # "upgrade"
      BY <1>0, <1>1, <1>4, <2>0, SMT DEF BufferInv, StreamOK
    <2>5. done' = 0 /\ ~EarlyFrames => Len(sent') = 1
      BY <1>5, SMT DEF Send, BufferInv, BufferOK
    <2> QED BY <1>4, <2>0, <2>1, <2>2, <2>3, <2>4, <2>5, SMT DEF StreamOK
  <1>7. BufferOK'
    BY <1>4, <1>5, SMT DEF BufferInv, BufferOK, StreamOK
  <1>8. FullOnlyForLongFrames'
    BY <1>4, <1>5, SMT DEF BufferInv, BufferOK, StreamOK, FullOnlyForLongFrames
  <1> QED BY <1>6, <1>7, <1>8 DEF BufferInv

\* One read leaves room in the buffer of an open connection, and finds it full
\* only behind a frame longer than half of it.
LEMMA ReadBuffer ==
    ASSUME BufferInv, NEW count \in 1 .. RecvBufSize, NEW last \in done .. Len(sent),
           Read(count, last)
    PROVE  BufferInv'
  <1> DEFINE back == tail + count
             size == back - head
             closing == last > done /\ sent[last].shape.opcode = "close"
             unhandled == size - (End(last) - End(done))
             remaining == IF closing THEN 0 ELSE unhandled
             front == back - remaining
             ended == HandledUpTo(last).ended \/ TooLong(last, remaining)
  <1>1. /\ status = "open" /\ back <= RecvBufSize
        /\ End(done) + size <= End(Len(sent))
        /\ LastHandled(last, size)
        /\ done' = last
        /\ head' = Compacted(front, back)[1] /\ tail' = Compacted(front, back)[2]
        /\ status' = IF ended THEN "closed" ELSE IF IsFull(front, back) THEN "full" ELSE "open"
        /\ UNCHANGED sent
    BY DEF Read
  <1>2. /\ Len(sent) \in Nat /\ Len(sent) > 0 /\ done \in 0 .. Len(sent)
        /\ last \in 0 .. Len(sent) /\ last >= done
        /\ head \in Nat /\ tail \in Nat /\ head <= tail /\ count \in Nat
        /\ RecvBufSize \in Nat
    BY ReceiverAssumption, SMT DEF BufferInv, StreamOK, BufferOK
  <1>3. /\ End(last) \in Nat /\ End(done) \in Nat /\ End(Len(sent)) \in Nat
        /\ End(done) <= End(last)
    BY <1>2, EndType, EndGrows, SMT DEF BufferInv
  <1>4. End(last) - End(done) <= size
    BY <1>1 DEF LastHandled
  <1>5. /\ back \in Nat /\ size \in Nat /\ size <= back
        /\ unhandled \in Nat /\ unhandled <= size
    BY <1>2, <1>3, <1>4, SMT
  <1>6. remaining \in Nat /\ remaining <= back /\ front \in Nat /\ front <= back
    BY <1>5, SMT
  <1>7. StreamOK'
    <2>1. UNCHANGED <<sent, Len(sent)>>
      BY <1>1
    <2>2. ~EarlyFrames /\ done' = 0 => Len(sent') = 1
      BY <1>1, <1>2, <2>1, SMT DEF BufferInv, StreamOK
    <2> QED BY <2>1, <2>2 DEF BufferInv, StreamOK
  <1> HIDE DEF remaining, ended
  <1>8. BufferOK'
    <2>1. done' \in 0 .. Len(sent')
      BY <1>1, <1>2
    <2>2. CASE front = back
      <3>1. head' = 0 /\ tail' = 0
        BY <1>1, <2>2, SMT DEF Compacted
      <3> QED BY <2>1, <3>1, ReceiverAssumption, SMT DEF BufferOK
    <2>3. CASE front # back /\ front >= Half
      <3>1. head' = 0 /\ tail' = back - front
        BY <1>1, <2>3, SMT DEF Compacted
      <3> QED BY <1>1, <1>2, <1>6, <2>1, <2>3, <3>1, HalfType, SMT DEF BufferOK
    <2>4. CASE front # back /\ ~(front >= Half)
      <3>1. head' = front /\ tail' = back
        BY <1>1, <2>4, SMT DEF Compacted
      <3>2. status' = "open" => back # RecvBufSize
        BY <1>1, <1>6, <2>4, HalfType, SMT DEF IsFull
      <3> QED BY <1>1, <1>2, <1>6, <2>1, <3>1, <3>2, SMT DEF BufferOK
    <2> QED BY <2>2, <2>3, <2>4
  <1>9. FullOnlyForLongFrames'
    <2> SUFFICES ASSUME status' = "full"
                 PROVE  \/ done' = 1 /\ EarlyFrames
                        \/ /\ done' < Len(sent')
                           /\ Size(sent'[done' + 1].shape) > RecvBufSize - Half
      BY DEF FullOnlyForLongFrames
    <2>1. front # back /\ front < Half /\ back = RecvBufSize
      BY <1>1, SMT DEF IsFull
    <2>2. remaining > RecvBufSize - Half
      BY <1>2, <1>6, <2>1, HalfType, SMT
    <2>3. ~closing /\ unhandled = remaining
      BY <1>2, <2>2, HalfType, SMT DEF remaining
    <2>4. last # Len(sent)
      BY <1>1, <1>2, <1>3, <1>5, <2>2, <2>3, HalfType, SMT
    <2>5. CASE last > done /\ sent[last].shape.opcode \in {"close", "upgrade"}
      <3>1. sent[last].shape.opcode = "upgrade"
        BY <2>3, <2>5
      <3>2. last = 1 /\ done = 0
        BY <1>2, <2>5, <3>1, SMT DEF BufferInv, StreamOK
      <3>3. EarlyFrames
        BY <1>2, <2>4, <3>2, SMT DEF BufferInv, StreamOK
      <3> QED BY <1>1, <3>2, <3>3
    <2>6. CASE last < Len(sent) /\ End(last + 1) - End(done) > size
      <3>1. last \in 0 .. Len(sent) - 1 /\ sent[last + 1].shape \in Shape
        <4>1. sent[last + 1] \in Entry
          BY <1>2, <2>6, SMT DEF BufferInv, StreamOK
        <4> QED BY <1>2, <2>6, <4>1, SMT DEF Entry
      <3>2. End(last + 1) = End(last) + Size(sent[last + 1].shape)
        BY <3>1, EndType DEF BufferInv
      <3>3. Size(sent[last + 1].shape) \in Nat
        BY <3>1, SizeType
      <3>4. Size(sent[last + 1].shape) > RecvBufSize - Half
        BY <1>2, <1>3, <1>5, <2>2, <2>3, <2>6, <3>2, <3>3, HalfType, SMT
      <3> QED BY <1>1, <2>6, <3>4
    <2> QED BY <1>1, <2>4, <2>5, <2>6 DEF LastHandled
  <1> QED BY <1>7, <1>8, <1>9 DEF BufferInv

-----------------------------------------------------------------------------
\* The buffer invariant is inductive.
LEMMA BufferInductive == BufferInv /\ [Next]_vars => BufferInv'
  <1> SUFFICES ASSUME BufferInv, [Next]_vars PROVE BufferInv'
    OBVIOUS
  <1>1. CASE \E f \in Shapes : Send(f)
    BY <1>1, SendBuffer
  <1>2. CASE ReadSome
    BY <1>2, ReadBuffer DEF ReadSome
  <1>3. CASE Lost
    BY <1>3, SMT DEF Lost, BufferInv, StreamOK, BufferOK, FullOnlyForLongFrames, End
  <1>4. CASE UNCHANGED vars
    BY <1>4 DEF vars, BufferInv, StreamOK, BufferOK, FullOnlyForLongFrames
  <1> QED BY <1>1, <1>2, <1>3, <1>4 DEF Next

\* The bytes in the buffer always lie within it, whatever the peer sends and
\* however the reads cut it: read of SocketTcpConnection never runs out of room
\* unnoticed.
THEOREM AlwaysRoomToRead == Spec => []RoomToRead
  <1>1. BufferInv => RoomToRead
    BY DEF BufferInv, BufferOK, RoomToRead
  <1> QED BY <1>1, InitBuffer, BufferInductive, PTL DEF Spec

\* "recv buf full" ends a connection only when a frame longer than half the
\* buffer, or the frames that follow the handshake at once, are waiting.
THEOREM AlwaysFullOnlyForLongFrames == Spec => []FullOnlyForLongFrames
  <1>1. BufferInv => FullOnlyForLongFrames
    BY DEF BufferInv
  <1> QED BY <1>1, InitBuffer, BufferInductive, PTL DEF Spec

-----------------------------------------------------------------------------
\* The handled bytes end where the rest begins, so a rest that moves to the front
\* comes from the second half of the buffer.
LEMMA ReadMovesApart ==
    ASSUME RecvBufSize % 2 = 0, BufferInv,
           NEW count \in 1 .. RecvBufSize, NEW last \in done .. Len(sent), Read(count, last),
           head' = 0, tail' > 0, head + End(done') - End(done) > 0
    PROVE  tail' <= head + End(done') - End(done)
  <1> DEFINE back == tail + count
             size == back - head
             closing == last > done /\ sent[last].shape.opcode = "close"
             remaining == IF closing THEN 0 ELSE size - (End(last) - End(done))
             front == back - remaining
  <1>1. /\ back <= RecvBufSize /\ done' = last /\ LastHandled(last, size)
        /\ head' = Compacted(front, back)[1] /\ tail' = Compacted(front, back)[2]
    BY DEF Read
  <1>2. /\ head \in Nat /\ tail \in Nat /\ head <= tail /\ count \in Nat /\ RecvBufSize \in Nat
        /\ last \in 0 .. Len(sent) /\ done \in 0 .. Len(sent) /\ done <= last
    BY ReceiverAssumption, SMT DEF BufferInv, BufferOK, StreamOK
  <1>3. End(last) \in Nat /\ End(done) \in Nat /\ End(done) <= End(last)
    BY <1>2, EndType, EndGrows, SMT DEF BufferInv
  <1>4. End(last) - End(done) <= size
    BY <1>1 DEF LastHandled
  <1>5. back \in Nat /\ size \in Nat /\ front \in Nat /\ front <= back
    BY <1>2, <1>3, <1>4, SMT
  <1>6. front # back
    BY <1>1, SMT DEF Compacted
  <1>7. front = head + End(done') - End(done)
    <2>1. ~closing
      BY <1>2, <1>6, SMT
    <2> QED BY <1>1, <1>2, <1>3, <2>1, SMT
  <1> HIDE DEF front
  <1>8. front >= Half
    BY <1>1, <1>5, <1>6, <1>7, SMT DEF Compacted
  <1>9. tail' = back - front
    BY <1>1, <1>6, <1>8, SMT DEF Compacted
  <1> QED BY <1>1, <1>5, <1>7, <1>8, <1>9, RestDoesNotOverlap

\* memcpy in read of SocketTcpConnection never gets areas that overlap, for every
\* buffer of even size.
THEOREM RestAlwaysMovesApart == RecvBufSize % 2 = 0 => (Spec => RestMovesApart)
  <1> SUFFICES ASSUME RecvBufSize % 2 = 0 PROVE Spec => RestMovesApart
    OBVIOUS
  <1> DEFINE Apart == LET from == head + End(done') - End(done)
                      IN  head' = 0 /\ tail' > 0 /\ from > 0 => tail' <= from
  <1>1. BufferInv /\ [Next]_vars => [Apart]_vars
    <2> SUFFICES ASSUME BufferInv, Next,
                        head' = 0, tail' > 0, head + End(done') - End(done) > 0
                 PROVE  tail' <= head + End(done') - End(done)
      OBVIOUS
    <2>1. CASE ReadSome
      BY <2>1, ReadMovesApart DEF ReadSome
    <2>2. CASE (\E f \in Shapes : Send(f)) \/ Lost
      <3>1. UNCHANGED <<done, head, tail>>
        BY <2>2 DEF Send, Lost
      <3>2. End(done) \in Nat
        BY EndType DEF BufferInv, BufferOK
      <3> QED BY <3>1, <3>2, SMT DEF BufferInv, BufferOK
    <2> QED BY <2>1, <2>2 DEF Next
  <1>2. Spec => [][Apart]_vars
    BY <1>1, InitBuffer, BufferInductive, PTL DEF Spec
  <1> QED BY <1>2 DEF RestMovesApart

-----------------------------------------------------------------------------
\* The buffer holds nothing but bytes of frames that were sent and not handled.
OnlySent == tail + End(done) <= head + End(Len(sent))

\* The invariant for NothingWaits: when all frames are handled the buffer is empty,
\* so that a frame sent after that cannot be there yet.
WaitInv == BufferInv /\ OnlySent /\ NothingWaits

\* A frame that the peer sends is not in the buffer before it is read.
LEMMA SendWaits ==
    ASSUME WaitInv, NEW f \in Shapes, Send(f)
    PROVE  OnlySent' /\ NothingWaits'
  <1> DEFINE e == Ending(f, End(Len(sent)) + Size(f))
  <1>1. /\ sent' = Append(sent, e)
        /\ UNCHANGED <<done, head, tail, status>>
    BY DEF Send
  <1>2. f \in Shape /\ Size(f) \in Nat /\ Size(f) > 0
    BY ReceiverAssumption, SizeType
  <1>3. /\ sent \in Seq(Entry) /\ Len(sent) \in Nat /\ Len(sent) > 0 /\ done \in 0 .. Len(sent)
        /\ head \in Nat /\ tail \in Nat /\ head <= tail
    BY SMT DEF WaitInv, BufferInv, StreamOK, BufferOK
  <1>4. End(done) \in Nat /\ End(Len(sent)) \in Nat
    BY <1>3, EndType, SMT DEF WaitInv, BufferInv
  <1>5. e.shape = f /\ e.end = End(Len(sent)) + Size(f) /\ e \in Entry
    BY <1>2, <1>4 DEF Ending, Entry
  <1> HIDE DEF e
  <1>6. /\ Len(sent') = Len(sent) + 1 /\ sent'[Len(sent) + 1] = e
        /\ \A i \in 1 .. Len(sent) : sent'[i] = sent[i]
    BY <1>1, <1>3, <1>5, SMT
  <1>7. End(done)' = End(done) /\ End(Len(sent))' = End(Len(sent)) + Size(f)
    <2>1. End(done)' = End(done)
      BY <1>1, <1>3, <1>6, SMT DEF End
    <2>2. End(Len(sent))' = sent'[Len(sent')].end
      BY <1>3, <1>6, SMT DEF End
    <2> QED BY <1>5, <1>6, <2>1, <2>2
  <1>8. OnlySent'
    BY <1>1, <1>2, <1>3, <1>4, <1>7, SMT DEF WaitInv, OnlySent
  <1>9. NothingWaits'
    <2> SUFFICES ASSUME status = "open", done > 1
                 PROVE  tail - head < Size(sent'[done + 1].shape)
      BY <1>1 DEF NothingWaits
    <2>1. CASE done = Len(sent)
      <3>1. tail <= head
        BY <1>3, <1>4, <2>1, SMT DEF WaitInv, OnlySent
      <3> QED BY <1>2, <1>3, <1>5, <1>6, <2>1, <3>1, SMT
    <2>2. CASE done # Len(sent)
      <3>1. done < Len(sent) /\ done + 1 \in 1 .. Len(sent)
        BY <1>3, <2>2, SMT
      <3> QED BY <1>6, <3>1 DEF WaitInv, NothingWaits
    <2> QED BY <2>1, <2>2
  <1> QED BY <1>8, <1>9

\* A read handles every frame that is complete: the rest is shorter than the next one.
LEMMA ReadWaits ==
    ASSUME WaitInv, NEW count \in 1 .. RecvBufSize, NEW last \in done .. Len(sent),
           Read(count, last)
    PROVE  OnlySent' /\ NothingWaits'
  <1> DEFINE back == tail + count
             size == back - head
             closing == last > done /\ sent[last].shape.opcode = "close"
             unhandled == size - (End(last) - End(done))
             remaining == IF closing THEN 0 ELSE unhandled
             front == back - remaining
  <1>1. /\ End(done) + size <= End(Len(sent)) /\ LastHandled(last, size)
        /\ done' = last /\ UNCHANGED sent
        /\ head' = Compacted(front, back)[1] /\ tail' = Compacted(front, back)[2]
    BY DEF Read
  <1>2. /\ Len(sent) \in Nat /\ done \in 0 .. Len(sent) /\ last \in 0 .. Len(sent) /\ done <= last
        /\ head \in Nat /\ tail \in Nat /\ head <= tail /\ count \in Nat
    BY ReceiverAssumption, SMT DEF WaitInv, BufferInv, StreamOK, BufferOK
  <1>3. /\ End(last) \in Nat /\ End(done) \in Nat /\ End(Len(sent)) \in Nat
        /\ End(done) <= End(last) /\ End(last) <= End(Len(sent))
    BY <1>2, EndType, EndGrows, SMT DEF WaitInv, BufferInv
  <1>4. End(last) - End(done) <= size
    BY <1>1 DEF LastHandled
  <1>5. /\ back \in Nat /\ unhandled \in Nat /\ unhandled <= back
        /\ unhandled + End(last) <= End(Len(sent))
    <2>1. back \in Nat /\ size \in Nat /\ size <= back
      BY <1>2, SMT
    <2>2. End(done) + size <= End(Len(sent))
      BY <1>1
    <2> HIDE DEF size, back
    <2> QED BY <1>3, <1>4, <2>1, <2>2, SMT
  <1>6. /\ remaining \in Nat /\ remaining <= unhandled /\ front \in Nat /\ front <= back
    BY <1>5, SMT
  <1> HIDE DEF remaining, unhandled, back
  <1>7. head' \in Nat /\ tail' = head' + remaining
    <2>1. CASE front = back
      <3>1. head' = 0 /\ tail' = 0
        BY <1>1, <2>1, SMT DEF Compacted
      <3>2. remaining = 0
        BY <1>5, <1>6, <2>1, SMT
      <3> QED BY <3>1, <3>2, SMT
    <2>2. CASE front # back /\ front >= Half
      <3>1. head' = 0 /\ tail' = back - front
        BY <1>1, <2>2, SMT DEF Compacted
      <3>2. back - front = remaining
        BY <1>5, <1>6, SMT
      <3> QED BY <1>6, <3>1, <3>2, SMT
    <2>3. CASE front # back /\ ~(front >= Half)
      <3>1. head' = front /\ tail' = back
        BY <1>1, <2>3, SMT DEF Compacted
      <3>2. front + remaining = back
        BY <1>5, <1>6, SMT
      <3> QED BY <1>6, <3>1, <3>2
    <2> QED BY <2>1, <2>2, <2>3
  <1>9. OnlySent'
    <2>1. End(done)' = End(last) /\ End(Len(sent))' = End(Len(sent))
      BY <1>1 DEF End
    <2>2. tail' + End(last) <= head' + End(Len(sent))
      BY <1>3, <1>5, <1>6, <1>7, SMT
    <2> QED BY <2>1, <2>2 DEF OnlySent
  <1>10. NothingWaits'
    <2> SUFFICES ASSUME last > 1, last < Len(sent)
                 PROVE  remaining < Size(sent[last + 1].shape)
      <3>0. \A h, r \in Nat : (h + r) - h = r
        BY SMT
      <3>1. tail' - head' = remaining
        BY <1>6, <1>7, <3>0, Zenon
      <3> QED BY <1>1, <3>1 DEF NothingWaits
    <2>1. last \in 0 .. Len(sent) - 1 /\ Size(sent[last + 1].shape) \in Nat
          /\ Size(sent[last + 1].shape) > 0
      <3>1. sent[last + 1] \in Entry
        BY <1>2, SMT DEF WaitInv, BufferInv, StreamOK
      <3> QED BY <1>2, <3>1, SizeType, SMT DEF Entry
    <2>2. End(last + 1) = End(last) + Size(sent[last + 1].shape)
      BY <2>1, EndType DEF WaitInv, BufferInv
    <2>3. CASE closing
      BY <2>1, <2>3, SMT DEF remaining
    <2>4. CASE ~closing
      <3>1. sent[last].shape.opcode # "upgrade"
        BY <1>2, SMT DEF WaitInv, BufferInv, StreamOK
      <3>2. End(last + 1) - End(done) > size
        BY <1>1, <1>2, <2>4, <3>1 DEF LastHandled
      <3> QED BY <1>2, <1>3, <2>1, <2>2, <2>4, <3>2, SMT DEF remaining, unhandled, back
    <2> QED BY <2>3, <2>4
  <1> QED BY <1>9, <1>10

\* handleWSMsg leaves no complete frame in the buffer that was not there with the
\* answer to the handshake, whatever the sizes of buffer and frames.
THEOREM NothingEverWaits == Spec => []NothingWaits
  <1>1. Init => WaitInv
    <2> SUFFICES ASSUME Init PROVE OnlySent /\ NothingWaits
      BY InitBuffer DEF WaitInv
    <2>1. Len(sent) \in Nat /\ Len(sent) > 0 /\ End(Len(sent)) \in Nat
      BY InitBuffer, EndType, SMT DEF BufferInv, StreamOK
    <2> QED BY <2>1, SMT DEF Init, OnlySent, NothingWaits, End
  <1>2. WaitInv /\ [Next]_vars => WaitInv'
    <2> SUFFICES ASSUME WaitInv, [Next]_vars PROVE OnlySent' /\ NothingWaits'
      BY BufferInductive DEF WaitInv
    <2>1. CASE \E f \in Shapes : Send(f)
      BY <2>1, SendWaits
    <2>2. CASE ReadSome
      BY <2>2, ReadWaits DEF ReadSome
    <2>3. CASE Lost
      BY <2>3 DEF Lost, WaitInv, OnlySent, NothingWaits, End
    <2>4. CASE UNCHANGED vars
      BY <2>4 DEF vars, WaitInv, OnlySent, NothingWaits, End
    <2> QED BY <2>1, <2>2, <2>3, <2>4 DEF Next
  <1>3. WaitInv => NothingWaits
    BY DEF WaitInv
  <1> QED BY <1>1, <1>2, <1>3, PTL DEF Spec

-----------------------------------------------------------------------------
\* Induction over the frames of a read, by way of the set of those it holds for.

\* A set of numbers has a least element.
LEMMA LeastOf ==
    ASSUME NEW T \in SUBSET Nat, T # {}
    PROVE  \E n \in T : \A m \in T : n <= m
  <1>1. \E n \in T : \A m \in T : ~ (<<m, n>> \in OpToRel(<, Nat))
    BY NatLessThanWellFounded, WFMin
  <1>2. PICK n \in T : \A m \in T : ~ (<<m, n>> \in OpToRel(<, Nat))
    BY <1>1
  <1>3. \A m \in T : ~(m < n)
    BY <1>2 DEF OpToRel
  <1> QED BY <1>3, SMT

\* Induction from first to last, on a set.
LEMMA InductionUpTo ==
    ASSUME NEW first \in Nat, NEW last \in Nat, NEW T,
           first \in T, \A n \in first .. last - 1 : n \in T => n + 1 \in T
    PROVE  \A n \in first .. last : n \in T
  <1> DEFINE Out == {n \in first .. last : n \notin T}
  <1> SUFFICES ASSUME Out # {} PROVE FALSE
    OBVIOUS
  <1>0. Out \in SUBSET Nat
    BY SMT
  <1>1. PICK n \in Out : \A m \in Out : n <= m
    <2> HIDE DEF Out
    <2> QED BY <1>0, LeastOf
  <1>2. n \in first .. last /\ n \notin T /\ n # first
    OBVIOUS
  <1>3. n - 1 \in first .. last - 1 /\ n - 1 \notin Out /\ (n - 1) + 1 = n
    BY <1>1, <1>2, SMT
  <1>4. n - 1 \in T
    BY <1>3, SMT
  <1> QED BY <1>2, <1>3, <1>4

\* The recursion of HandledUpTo defines a function: one frame after the other.
LEMMA HandledUpToUnfolds ==
    ASSUME done \in Nat, NEW last \in Nat, done <= last
    PROVE  \E conn : /\ conn[done] = [partial |-> partial, received |-> received, ended |-> FALSE]
                     /\ \A n \in done + 1 .. last : conn[n] = Handled(conn[n - 1], n)
                     /\ HandledUpTo(last) = conn[last]
  <1> DEFINE start == [partial |-> partial, received |-> received, ended |-> FALSE]
             After(conn, m) ==
                [n \in done .. m |-> IF n = done THEN start ELSE Handled(conn[n - 1], n)]
             T == {m \in done .. last : \E conn : conn = After(conn, m)}
  <1> HIDE DEF start
  <1>1. done \in T
    <2> DEFINE one == [n \in done .. done |-> start]
    <2>1. one = After(one, done)
      BY SMT
    <2>2. done \in done .. last
      BY SMT
    <2> HIDE DEF After, one
    <2> QED BY <2>1, <2>2
  <1>2. ASSUME NEW m \in done .. last - 1, m \in T PROVE m + 1 \in T
    <2>1. PICK conn : conn = After(conn, m)
      BY <1>2
    <2> DEFINE longer == [n \in done .. m + 1 |->
                             IF n = m + 1 THEN Handled(conn[m], m + 1) ELSE conn[n]]
    <2>2. \A n \in done .. m : conn[n] = IF n = done THEN start ELSE Handled(conn[n - 1], n)
      BY <2>1
    <2>3. \A n \in done .. m + 1 :
             longer[n] = IF n = done THEN start ELSE Handled(longer[n - 1], n)
      <3> SUFFICES ASSUME NEW n \in done .. m + 1
                   PROVE  longer[n] = IF n = done THEN start ELSE Handled(longer[n - 1], n)
        OBVIOUS
      <3>1. CASE n = m + 1
        <4>1. longer[n] = Handled(conn[m], m + 1) /\ n - 1 = m /\ n # done /\ longer[m] = conn[m]
          BY <3>1, SMT
        <4> HIDE DEF longer
        <4> QED BY <3>1, <4>1
      <3>2. CASE n # m + 1
        <4>1. n \in done .. m /\ longer[n] = conn[n]
          BY <3>2, SMT
        <4>2. n # done => longer[n - 1] = conn[n - 1]
          BY <3>2, SMT
        <4> HIDE DEF longer
        <4> QED BY <2>2, <4>1, <4>2
      <3> QED BY <3>1, <3>2
    <2>4. longer = After(longer, m + 1)
      <3>1. longer = [n \in done .. m + 1 |-> longer[n]]
        OBVIOUS
      <3> HIDE DEF longer
      <3> QED BY <2>3, <3>1
    <2>5. m + 1 \in done .. last
      BY SMT
    <2> HIDE DEF After, longer
    <2> QED BY <2>4, <2>5
  <1>3. last \in T
    <2> HIDE DEF T
    <2>1. \A n \in done .. last : n \in T
      BY <1>1, <1>2, InductionUpTo
    <2> QED BY <2>1, SMT
  <1> DEFINE conn == CHOOSE conn : conn = After(conn, last)
  <1>4. conn = After(conn, last)
    BY <1>3
  <1>5. HandledUpTo(last) = conn[last]
    BY DEF HandledUpTo, start
  <1> HIDE DEF conn
  <1>6. conn[done] = start /\ \A n \in done + 1 .. last : conn[n] = Handled(conn[n - 1], n)
    BY <1>4, SMT
  <1> QED BY <1>5, <1>6 DEF start

\* A longer sequence, entry by entry.
LEMMA AppendEntries ==
    ASSUME NEW size \in Nat, NEW s, s = [k \in 1 .. size |-> s[k]], NEW e
    PROVE  Append(s, e) = [k \in 1 .. size + 1 |-> IF k = size + 1 THEN e ELSE s[k]]
  <1> DEFINE Values == {s[k] : k \in 1 .. size} \cup {e}
  <1>1. s \in [1 .. size -> Values]
    OBVIOUS
  <1>2. s \in Seq(Values) /\ Len(s) = size /\ e \in Values
    <2>1. s \in Seq(Values)
      BY <1>1, SeqDef
    <2> HIDE DEF Values
    <2> QED BY <1>1, <2>1, LenProperties, SMT DEF Values
  <1> HIDE DEF Values
  <1>3. /\ Append(s, e) \in Seq(Values) /\ Len(Append(s, e)) = size + 1
        /\ \A k \in 1 .. size : Append(s, e)[k] = s[k]
        /\ Append(s, e)[size + 1] = e
    BY <1>2, AppendProperties
  <1>4. Append(s, e) = [k \in 1 .. size + 1 |-> Append(s, e)[k]]
    BY <1>3, SMT
  <1>5. \A k \in 1 .. size + 1 : Append(s, e)[k] = IF k = size + 1 THEN e ELSE s[k]
    BY <1>3, SMT
  <1> QED BY <1>4, <1>5, Zenon

\* In a set with one more element, which is greater than all others, it is the last.
LEMMA SortedGrows ==
    ASSUME NEW n \in Nat, NEW S \in SUBSET (1 .. n), NEW m \in Nat, n < m
    PROVE  /\ Cardinality(S) \in Nat /\ Cardinality(S \cup {m}) = Cardinality(S) + 1
           /\ Sorted(S \cup {m}) = Append(Sorted(S), m)
  <1> DEFINE size == Cardinality(S)
             T == S \cup {m}
             Rank(K, i) == Cardinality({j \in K : j <= i})
             At(K, k) == CHOOSE i \in K : Rank(K, i) = k
  <1>0. m \notin S /\ \A i \in S : i \in Nat /\ i <= m
    BY SMT
  <1>1. IsFiniteSet(S) /\ size \in Nat
    <2>1. IsFiniteSet(1 .. n)
      BY FS_Interval
    <2> QED BY <2>1, FS_Subset, FS_CardinalityType
  <1>2. Cardinality(T) = size + 1
    BY <1>0, <1>1, FS_AddElement
  <1>3. \A i \in S : {j \in T : j <= i} = {j \in S : j <= i}
    OBVIOUS
  <1>4. {j \in T : j <= m} = T
    <2>1. m <= m
      BY SMT
    <2> QED BY <1>0, <2>1
  <1>5. \A i \in S : Rank(T, i) = Rank(S, i) /\ Rank(S, i) <= size
    <2> SUFFICES ASSUME NEW i \in S PROVE Rank(T, i) = Rank(S, i) /\ Rank(S, i) <= size
      OBVIOUS
    <2>1. {j \in S : j <= i} \in SUBSET S
      OBVIOUS
    <2>2. Cardinality({j \in S : j <= i}) <= Cardinality(S)
      BY <1>1, <2>1, FS_Subset
    <2> QED BY <1>3, <2>2
  <1>6. Rank(T, m) = size + 1
    BY <1>2, <1>4
  <1> HIDE DEF size, Rank
  <1>7. \A k \in 1 .. size : At(T, k) = At(S, k)
    <2> SUFFICES ASSUME NEW k \in 1 .. size PROVE At(T, k) = At(S, k)
      OBVIOUS
    <2>1. \A i : i \in T /\ Rank(T, i) = k <=> i \in S /\ Rank(S, i) = k
      <3>1. ASSUME NEW i \in S PROVE i \in T /\ (Rank(T, i) = k <=> Rank(S, i) = k)
        BY <1>5
      <3>2. Rank(T, m) # k
        BY <1>1, <1>6, SMT
      <3> QED BY <3>1, <3>2
    <2> HIDE DEF T
    <2> QED BY <2>1, Zenon
  <1>8. At(T, size + 1) = m
    <2>1. \A i \in T : Rank(T, i) = size + 1 <=> i = m
      <3>1. ASSUME NEW i \in S PROVE Rank(T, i) # size + 1 /\ i # m
        <4>1. Rank(T, i) <= size
          BY <1>5
        <4> QED BY <1>0, <1>1, <4>1, SMT
      <3> QED BY <1>6, <3>1
    <2>2. m \in T
      OBVIOUS
    <2> HIDE DEF T
    <2> QED BY <2>1, <2>2
  <1>9. Sorted(S) = [k \in 1 .. size |-> At(S, k)]
    BY DEF Sorted, size, Rank
  <1>10. Sorted(T) = [k \in 1 .. size + 1 |-> At(T, k)]
    BY <1>2 DEF Sorted, Rank
  <1> HIDE DEF T, At
  <1>11. Sorted(S) = [k \in 1 .. size |-> Sorted(S)[k]]
    BY <1>9
  <1>12. Append(Sorted(S), m) = [k \in 1 .. size + 1 |-> IF k = size + 1 THEN m ELSE Sorted(S)[k]]
    BY <1>1, <1>11, AppendEntries
  <1>13. \A k \in 1 .. size + 1 : At(T, k) = IF k = size + 1 THEN m ELSE Sorted(S)[k]
    BY <1>1, <1>7, <1>8, <1>9, SMT
  <1>14. Sorted(T) = Append(Sorted(S), m)
    BY <1>10, <1>12, <1>13, Zenon
  <1> QED BY <1>1, <1>2, <1>14 DEF size, T

-----------------------------------------------------------------------------
\* What the stream means so far.

\* A fragmented message has begun among the first n frames and has not ended.
OpenAt(n) ==
    \E i \in 1 .. n : /\ ~sent[i].shape.fin
                      /\ \A j \in i + 1 .. n : ~(sent[j].shape.opcode = "cont" /\ sent[j].shape.fin)

\* The stream as the peer may send it.
GrammarOK ==
    /\ sent \in Seq([shape : Shapes \cup {Response}, end : Nat])
    /\ Len(sent) > 0 /\ (Len(sent) = 1 \/ Len(sent) <= MaxFrames)
    /\ sent[1].shape = Response
    /\ \A i \in 2 .. Len(sent) :
          /\ sent[i].shape \in Shapes
          /\ sent[i].shape.opcode = "cont" => OpenAt(i - 1)
          /\ sent[i].shape.opcode = "text" => ~OpenAt(i - 1)

\* The message being put together holds the fragments of the one that is open.
Collected(message, n) ==
    IF OpenAt(n)
    THEN \E b \in Begins(n) : /\ \A k \in Begins(n) : k <= b
                              /\ message.opcode = sent[b].shape.opcode
                              /\ message.frames = Sorted(Fragments(b, n))
    ELSE message.frames = <<>>

\* What is kept of a message and what the handler of messages is given.
Indices == Seq(1 .. MaxFrames)
Partial == [opcode : {"cont", "text"}, size : 0 .. RecvBufSize, frames : Indices]
Message == [opcode : {"text", "ping"}, frames : Indices]
Handling == [partial : Partial, received : Seq(Message), ended : BOOLEAN]

\* What the handler of messages has been given after n frames, and what is kept of
\* them.  After the end of the connection only the types remain.
HandlingOK(conn, n) ==
    /\ conn \in Handling
    /\ conn.partial.opcode = "cont" => conn.partial.size = 0 /\ ~OpenAt(n)
    /\ ~conn.ended => conn.received = Meant(n) /\ Collected(conn.partial, n)

\* The next frame and what it changes of the sets that the messages are defined by.
LEMMA NextFrame ==
    ASSUME GrammarOK, NEW n \in 0 .. Len(sent) - 1
    PROVE  LET f == sent[n + 1].shape
           IN  /\ f \in Shape
               /\ n = 0 => f.opcode = "upgrade"
               /\ n # 0 => f.opcode # "upgrade" /\ n + 1 \in 1 .. MaxFrames
               /\ f.opcode \notin {"text", "cont"} => f.fin
               /\ f.opcode = "cont" => OpenAt(n)
               /\ f.opcode = "text" => ~OpenAt(n)
  <1> DEFINE f == sent[n + 1].shape
  <1>1. Len(sent) \in Nat /\ n \in Nat /\ n + 1 \in 1 .. Len(sent)
    BY SMT DEF GrammarOK
  <1>2. CASE n = 0
    <2>1. f = Response
      BY <1>2, SMT DEF GrammarOK
    <2> QED BY <1>2, <2>1, ReceiverAssumption, ControlAssumption
  <1>3. CASE n # 0
    <2>1. n + 1 \in 2 .. Len(sent) /\ (n + 1) - 1 = n /\ n + 1 \in 1 .. MaxFrames
      BY <1>1, <1>3, ReceiverAssumption, SMT DEF GrammarOK
    <2>2. /\ f \in Shapes /\ (f.opcode = "cont" => OpenAt(n)) /\ (f.opcode = "text" => ~OpenAt(n))
      BY <2>1 DEF GrammarOK
    <2> QED BY <1>3, <2>1, <2>2, ReceiverAssumption, ControlAssumption
  <1> QED BY <1>2, <1>3

\* A message is open after a frame that begins or continues one, and still open
\* after one that is no final continuation.
LEMMA OpenAfter ==
    ASSUME NEW n \in Nat
    PROVE  OpenAt(n + 1) <=> \/ ~sent[n + 1].shape.fin
                             \/ sent[n + 1].shape.opcode # "cont" /\ OpenAt(n)
  <1> DEFINE Ended(j) == sent[j].shape.opcode = "cont" /\ sent[j].shape.fin
             Begun(i) == ~sent[i].shape.fin
  <1>1. \A i \in 1 .. n + 1 : i \in 1 .. n \/ i = n + 1
    BY SMT
  <1>2. n + 1 \in 1 .. n + 1 /\ (\A i \in 1 .. n : i \in 1 .. n + 1)
        /\ (n + 1) + 1 .. n + 1 = {}
    BY SMT
  <1>3. \A i \in 1 .. n : i + 1 .. n + 1 = (i + 1 .. n) \cup {n + 1}
    BY SMT
  <1>4. Begun(n + 1) => ~Ended(n + 1)
    OBVIOUS
  <1>5. OpenAt(n) <=> \E i \in 1 .. n : Begun(i) /\ \A j \in i + 1 .. n : ~Ended(j)
    BY DEF OpenAt
  <1>6. OpenAt(n + 1) <=> \E i \in 1 .. n + 1 : Begun(i) /\ \A j \in i + 1 .. n + 1 : ~Ended(j)
    BY DEF OpenAt
  <1>8. ~Ended(n + 1) <=> Begun(n + 1) \/ sent[n + 1].shape.opcode # "cont"
    OBVIOUS
  <1> HIDE DEF Ended, Begun
  <1>9. OpenAt(n + 1) <=> Begun(n + 1) \/ (~Ended(n + 1) /\ OpenAt(n))
    <2>1. ASSUME OpenAt(n + 1) PROVE Begun(n + 1) \/ (~Ended(n + 1) /\ OpenAt(n))
      BY <1>1, <1>3, <1>5, <1>6, <2>1
    <2>2. ASSUME Begun(n + 1) PROVE OpenAt(n + 1)
      BY <1>2, <1>6, <2>2
    <2>3. ASSUME ~Ended(n + 1), OpenAt(n) PROVE OpenAt(n + 1)
      BY <1>2, <1>3, <1>5, <1>6, <2>3
    <2> QED BY <2>1, <2>2, <2>3
  <1> QED BY <1>8, <1>9 DEF Begun

\* The same for the first fragments, the last frames and the fragments of messages.
LEMMA SetsAfter ==
    ASSUME NEW n \in Nat
    PROVE  LET f == sent[n + 1].shape
           IN  /\ Begins(n + 1) = Begins(n) \cup
                     (IF ~Whole(f) /\ f.opcode # "cont" THEN {n + 1} ELSE {})
               /\ Ends(n + 1) = Ends(n) \cup
                     (IF f.fin /\ f.opcode \notin {"upgrade", "close"} THEN {n + 1} ELSE {})
               /\ \A b \in 1 .. n + 1 :
                     Fragments(b, n + 1) = Fragments(b, n) \cup (IF ~Whole(f) THEN {n + 1} ELSE {})
  <1>1. 1 .. n + 1 = (1 .. n) \cup {n + 1}
    BY SMT
  <1>2. \A b \in 1 .. n + 1 : b .. n + 1 = (b .. n) \cup {n + 1}
    BY SMT
  <1>3. Begins(n + 1) = Begins(n) \cup
           (IF ~Whole(sent[n + 1].shape) /\ sent[n + 1].shape.opcode # "cont" THEN {n + 1} ELSE {})
    BY <1>1 DEF Begins
  <1>4. Ends(n + 1) = Ends(n) \cup
           (IF sent[n + 1].shape.fin /\ sent[n + 1].shape.opcode \notin {"upgrade", "close"}
            THEN {n + 1} ELSE {})
    BY <1>1 DEF Ends
  <1>5. \A b \in 1 .. n + 1 :
           Fragments(b, n + 1) = Fragments(b, n) \cup (IF ~Whole(sent[n + 1].shape) THEN {n + 1} ELSE {})
    BY <1>2 DEF Fragments
  <1> QED BY <1>3, <1>4, <1>5

\* A frame that ends a message adds it to those that are meant.
LEMMA MeantGrows ==
    ASSUME NEW n \in Nat, Ends(n + 1) = Ends(n) \cup {n + 1}
    PROVE  Meant(n + 1) = Append(Meant(n), MessageEndingAt(n + 1))
  <1> DEFINE size == Cardinality(Ends(n))
             order == Sorted(Ends(n))
  <1>1. Ends(n) \in SUBSET (1 .. n)
    BY DEF Ends
  <1>2. /\ size \in Nat /\ Cardinality(Ends(n + 1)) = size + 1
        /\ Sorted(Ends(n + 1)) = Append(order, n + 1)
    <2>1. n + 1 \in Nat /\ n < n + 1
      BY SMT
    <2> QED BY <1>1, <2>1, SortedGrows
  <1>3. order = [k \in 1 .. size |-> order[k]]
    BY DEF Sorted
  <1>4. Meant(n) = [k \in 1 .. size |-> MessageEndingAt(order[k])]
    BY DEF Meant
  <1>5. Meant(n + 1) = [k \in 1 .. size + 1 |-> MessageEndingAt(Append(order, n + 1)[k])]
    BY <1>2 DEF Meant
  <1> HIDE DEF size, order
  <1>6. Append(order, n + 1) = [k \in 1 .. size + 1 |-> IF k = size + 1 THEN n + 1 ELSE order[k]]
    BY <1>2, <1>3, AppendEntries
  <1>7. Append(Meant(n), MessageEndingAt(n + 1))
           = [k \in 1 .. size + 1 |-> IF k = size + 1 THEN MessageEndingAt(n + 1) ELSE Meant(n)[k]]
    <2>1. Meant(n) = [k \in 1 .. size |-> Meant(n)[k]]
      BY <1>4
    <2> QED BY <1>2, <2>1, AppendEntries
  <1>8. \A k \in 1 .. size + 1 : MessageEndingAt(Append(order, n + 1)[k])
           = IF k = size + 1 THEN MessageEndingAt(n + 1) ELSE Meant(n)[k]
    <2> SUFFICES ASSUME NEW k \in 1 .. size + 1
                 PROVE  MessageEndingAt(Append(order, n + 1)[k])
                           = IF k = size + 1 THEN MessageEndingAt(n + 1) ELSE Meant(n)[k]
      OBVIOUS
    <2>1. Append(order, n + 1)[k] = IF k = size + 1 THEN n + 1 ELSE order[k]
      BY <1>6
    <2>2. k # size + 1 => k \in 1 .. size
      BY <1>2, SMT
    <2>3. k # size + 1 => Meant(n)[k] = MessageEndingAt(order[k])
      BY <1>4, <2>2
    <2> QED BY <2>1, <2>3
  <1> QED BY <1>5, <1>7, <1>8, Zenon

-----------------------------------------------------------------------------
\* What a frame does, case by case.
LEMMA HandledCases ==
    ASSUME NEW conn, NEW i, sent[i].shape.opcode \notin {"text", "cont"} => sent[i].shape.fin
    PROVE  LET f == sent[i].shape
               message == Grown(conn.partial, i)
           IN  /\ f.opcode = "upgrade" => Handled(conn, i) = conn
               /\ f.opcode = "close" => Handled(conn, i) = [conn EXCEPT !.ended = TRUE]
               /\ f.opcode \notin {"upgrade", "close"} /\ Whole(f) =>
                     Handled(conn, i) = [conn EXCEPT !.received =
                                            Append(@, [opcode |-> f.opcode, frames |-> <<i>>])]
               /\ f.opcode \notin {"upgrade", "close"} /\ ~Whole(f) =>
                     /\ ~Fits(message.size) => Handled(conn, i) = [conn EXCEPT !.ended = TRUE]
                     /\ Fits(message.size) /\ ~f.fin =>
                           Handled(conn, i) = [conn EXCEPT !.partial = message]
                     /\ Fits(message.size) /\ f.fin =>
                           Handled(conn, i) =
                              [conn EXCEPT !.partial = Finished(message),
                                           !.received = Append(@, [opcode |-> message.opcode,
                                                                   frames |-> message.frames])]
  <1> DEFINE f == sent[i].shape
             message == Grown(conn.partial, i)
             upgrades == f.opcode = "upgrade"
             closes == f.opcode = "close"
             delivered == [opcode |-> message.opcode, frames |-> message.frames]
  <1>1. Handled(conn, i) =
           CASE upgrades -> conn
             [] closes -> [conn EXCEPT !.ended = TRUE]
             [] f.opcode \notin {"upgrade", "close"} /\ Whole(f) ->
                   [conn EXCEPT !.received = Append(@, [opcode |-> f.opcode, frames |-> <<i>>])]
             [] ~Whole(f) /\ ~Fits(message.size) -> [conn EXCEPT !.ended = TRUE]
             [] ~Whole(f) /\ Fits(message.size) /\ ~f.fin -> [conn EXCEPT !.partial = message]
             [] OTHER -> [conn EXCEPT !.partial = Finished(message),
                                      !.received = Append(@, delivered)]
    BY DEF Handled
  <1>2. upgrades => ~closes /\ f.opcode \in {"upgrade", "close"} /\ Whole(f)
    BY DEF Whole
  <1>3. closes => ~upgrades /\ f.opcode \in {"upgrade", "close"} /\ Whole(f)
    BY DEF Whole
  <1>4. f.opcode \notin {"upgrade", "close"} <=> ~upgrades /\ ~closes
    OBVIOUS
  <1> DEFINE whole == Whole(f)
             fits == Fits(message.size)
             text == [opcode |-> f.opcode, frames |-> <<i>>]
  <1> HIDE DEF message, upgrades, closes, delivered, whole, fits, text
  <1>5. upgrades => Handled(conn, i) = conn
    BY <1>1, <1>2
  <1>6. closes => Handled(conn, i) = [conn EXCEPT !.ended = TRUE]
    BY <1>1, <1>3
  <1>7. ASSUME ~upgrades, ~closes, whole
        PROVE  Handled(conn, i) = [conn EXCEPT !.received = Append(@, text)]
    BY <1>1, <1>4, <1>7 DEF whole, text
  <1>8. ASSUME ~upgrades, ~closes, ~whole, ~fits
        PROVE  Handled(conn, i) = [conn EXCEPT !.ended = TRUE]
    BY <1>1, <1>4, <1>8 DEF whole, fits
  <1>9. ASSUME ~upgrades, ~closes, ~whole, fits, ~f.fin
        PROVE  Handled(conn, i) = [conn EXCEPT !.partial = message]
    BY <1>1, <1>4, <1>9 DEF whole, fits
  <1>10. ASSUME ~upgrades, ~closes, ~whole, fits, f.fin
         PROVE  Handled(conn, i) = [conn EXCEPT !.partial = Finished(message),
                                                !.received = Append(@, delivered)]
    BY <1>1, <1>4, <1>10 DEF whole, fits
  <1> QED BY <1>5, <1>6, <1>7, <1>8, <1>9, <1>10 DEF message, upgrades, closes, delivered, whole, fits, text

\* A frame that is no fragment leaves the message being put together as it is.
LEMMA OutsideOfFragments ==
    ASSUME NEW n \in Nat, Whole(sent[n + 1].shape), NEW message
    PROVE  /\ OpenAt(n + 1) <=> OpenAt(n)
           /\ Collected(message, n + 1) <=> Collected(message, n)
  <1>1. OpenAt(n + 1) <=> OpenAt(n)
    BY OpenAfter DEF Whole
  <1>2. Begins(n + 1) = Begins(n)
    BY SetsAfter
  <1>3. \A b \in Begins(n) : Fragments(b, n + 1) = Fragments(b, n)
    <2>1. \A b \in Begins(n) : b \in 1 .. n + 1
      BY SMT DEF Begins
    <2>2. \A b \in 1 .. n + 1 : Fragments(b, n + 1) = Fragments(b, n) \cup {}
      BY SetsAfter
    <2> QED BY <2>1, <2>2
  <1> QED BY <1>1, <1>2, <1>3 DEF Collected

\* The first fragment of a message is all that is kept of it.
LEMMA FirstFragment ==
    ASSUME NEW n \in Nat, NEW message, ~Whole(sent[n + 1].shape), sent[n + 1].shape.opcode # "cont"
    PROVE  /\ n + 1 \in Begins(n + 1) /\ \A k \in Begins(n + 1) : k <= n + 1
           /\ Sorted(Fragments(n + 1, n + 1)) = <<n + 1>>
  <1>1. n + 1 \in Begins(n + 1) /\ \A k \in Begins(n + 1) : k <= n + 1
    BY SMT DEF Begins
  <1>2. Fragments(n + 1, n) = {} /\ n + 1 \in 1 .. n + 1
    BY SMT DEF Fragments
  <1>3. Fragments(n + 1, n + 1) = {} \cup {n + 1}
    BY <1>2, SetsAfter
  <1>4. Sorted({}) = <<>>
    BY FS_EmptySet, SMT DEF Sorted
  <1>5. {} \in SUBSET (1 .. n) /\ n + 1 \in Nat /\ n < n + 1
    BY SMT
  <1>6. Sorted({} \cup {n + 1}) = Append(<<>>, n + 1)
    BY <1>4, <1>5, SortedGrows
  <1>7. Append(<<>>, n + 1) = <<n + 1>>
    BY SMT
  <1> QED BY <1>1, <1>3, <1>6, <1>7

\* A later fragment goes to the end of what is kept.
LEMMA NextFragment ==
    ASSUME NEW n \in Nat, sent[n + 1].shape.opcode = "cont"
    PROVE  /\ Begins(n + 1) = Begins(n)
           /\ \A b \in Begins(n) : Sorted(Fragments(b, n + 1)) = Append(Sorted(Fragments(b, n)), n + 1)
  <1>1. ~Whole(sent[n + 1].shape)
    BY DEF Whole
  <1>2. Begins(n + 1) = Begins(n)
    BY <1>1, SetsAfter
  <1>3. ASSUME NEW b \in Begins(n)
        PROVE  Sorted(Fragments(b, n + 1)) = Append(Sorted(Fragments(b, n)), n + 1)
    <2>1. b \in 1 .. n + 1
      BY SMT DEF Begins
    <2>2. Fragments(b, n + 1) = Fragments(b, n) \cup {n + 1}
      BY <1>1, <2>1, SetsAfter
    <2>3. Fragments(b, n) \in SUBSET (1 .. n) /\ n + 1 \in Nat /\ n < n + 1
      BY <2>1, SMT DEF Fragments
    <2> QED BY <2>2, <2>3, SortedGrows
  <1> QED BY <1>2, <1>3

\* The last fragment of a message: what it completes is what is meant.
LEMMA LastFragment ==
    ASSUME NEW n \in Nat, sent[n + 1].shape.opcode = "cont", NEW b \in Begins(n),
           \A k \in Begins(n) : k <= b
    PROVE  MessageEndingAt(n + 1) = [opcode |-> sent[b].shape.opcode,
                                     frames |-> Append(Sorted(Fragments(b, n)), n + 1)]
  <1> DEFINE begin == CHOOSE j \in Begins(n + 1) : \A k \in Begins(n + 1) : k <= j
  <1>1. Begins(n + 1) = Begins(n) /\ Sorted(Fragments(b, n + 1)) = Append(Sorted(Fragments(b, n)), n + 1)
    BY NextFragment
  <1>2. \A j \in Begins(n) : j \in Nat
    BY SMT DEF Begins
  <1>3. begin \in Begins(n) /\ \A k \in Begins(n) : k <= begin
    BY <1>1
  <1>4. begin = b
    <2> HIDE DEF begin
    <2> QED BY <1>2, <1>3, SMT
  <1>5. ~Whole(sent[n + 1].shape)
    BY DEF Whole
  <1>6. MessageEndingAt(n + 1) = [opcode |-> sent[begin].shape.opcode,
                                  frames |-> Sorted(Fragments(begin, n + 1))]
    BY <1>5 DEF MessageEndingAt
  <1> HIDE DEF begin
  <1> QED BY <1>1, <1>4, <1>6

\* The two ways in which a frame is handled but for the end of the connection:
\* what the handler is given, and what is kept.
LEMMA Given ==
    ASSUME NEW conn \in Handling, NEW message \in Message
    PROVE  LET next == [conn EXCEPT !.received = Append(@, message)]
           IN  /\ next \in Handling /\ next.received = Append(conn.received, message)
               /\ next.partial = conn.partial /\ next.ended = conn.ended
  <1>1. conn.received \in Seq(Message)
    BY DEF Handling
  <1>2. Append(conn.received, message) \in Seq(Message)
    BY <1>1, AppendProperties
  <1> QED BY <1>2 DEF Handling

\* A message starts again: its opcode is kept, its fragments are not.
LEMMA FinishedIsEmpty ==
    ASSUME NEW message \in [opcode : {"text"}, size : Nat, frames : Indices]
    PROVE  /\ Finished(message) \in Partial
           /\ Finished(message).opcode = "text" /\ Finished(message).frames = <<>>
  <1> DEFINE finished == Finished(message)
  <1>1. <<>> \in Indices /\ 0 \in 0 .. RecvBufSize
    BY ReceiverAssumption, SMT DEF Indices
  <1>2. /\ finished \in [opcode : {"text"}, size : Nat, frames : Indices]
        /\ finished.size = 0 /\ finished.frames = <<>>
    BY <1>1 DEF Finished
  <1> HIDE DEF finished
  <1>3. finished = [opcode |-> finished.opcode, size |-> finished.size, frames |-> finished.frames]
        /\ finished.opcode = "text"
    BY <1>2
  <1>4. finished \in Partial
    BY <1>1, <1>2, <1>3 DEF Partial
  <1> QED BY <1>2, <1>3, <1>4 DEF finished

\* One more frame.
LEMMA FrameHandled ==
    ASSUME GrammarOK, NEW n \in 0 .. Len(sent) - 1, NEW conn, HandlingOK(conn, n),
           sent[n + 1].shape.payload <= RecvBufSize
    PROVE  HandlingOK(Handled(conn, n + 1), n + 1)
  <1> DEFINE i == n + 1
             f == sent[i].shape
             next == Handled(conn, i)
             message == Grown(conn.partial, i)
  <1> SUFFICES HandlingOK(next, i)
    OBVIOUS
  <1>1. /\ f \in Shape
        /\ n = 0 => f.opcode = "upgrade"
        /\ n # 0 => f.opcode # "upgrade" /\ i \in 1 .. MaxFrames
        /\ f.opcode \notin {"text", "cont"} => f.fin
        /\ f.opcode = "cont" => OpenAt(n)
        /\ f.opcode = "text" => ~OpenAt(n)
    BY NextFrame
  <1>2. n \in Nat
    BY SMT DEF GrammarOK
  <1>3. /\ conn \in Handling /\ conn.partial \in Partial
        /\ conn.partial.opcode = "cont" => conn.partial.size = 0 /\ ~OpenAt(n)
        /\ ~conn.ended => conn.received = Meant(n) /\ Collected(conn.partial, n)
    BY DEF HandlingOK, Handling
  <1>4. /\ OpenAt(i) <=> ~f.fin \/ (f.opcode # "cont" /\ OpenAt(n))
        /\ Ends(i) = Ends(n) \cup (IF f.fin /\ f.opcode \notin {"upgrade", "close"} THEN {i} ELSE {})
    BY <1>2, OpenAfter, SetsAfter
  <1>5. f.opcode \in {"upgrade", "text", "cont", "ping", "close"} /\ f.fin \in BOOLEAN /\ f.payload \in Nat
    BY <1>1 DEF Shape
  <1>6. Ends(i) = Ends(n) => Meant(i) = Meant(n)
    BY DEF Meant
  <1>7. Ends(i) = Ends(n) \cup {i} => Meant(i) = Append(Meant(n), MessageEndingAt(i))
    BY <1>2, MeantGrows
  <1>8. CASE f.opcode = "upgrade"
    <2>1. Whole(f) /\ next = conn /\ Ends(i) = Ends(n)
      BY <1>1, <1>4, <1>8, HandledCases DEF Whole
    <2>2. (OpenAt(i) <=> OpenAt(n)) /\ (Collected(conn.partial, i) <=> Collected(conn.partial, n))
      BY <1>2, <2>1, OutsideOfFragments
    <2> QED BY <1>3, <1>6, <2>1, <2>2 DEF HandlingOK
  <1>9. CASE f.opcode = "close"
    <2>1. Whole(f) /\ next = [conn EXCEPT !.ended = TRUE]
      BY <1>1, <1>9, HandledCases DEF Whole
    <2>2. OpenAt(i) <=> OpenAt(n)
      BY <1>2, <2>1, OutsideOfFragments
    <2>3. next \in Handling /\ next.partial = conn.partial /\ next.ended
      BY <1>3, <2>1 DEF Handling
    <2> HIDE DEF next
    <2> QED BY <1>3, <2>2, <2>3 DEF HandlingOK
  <1>10. CASE f.opcode \notin {"upgrade", "close"} /\ Whole(f)
    <2> DEFINE given == [opcode |-> f.opcode, frames |-> <<i>>]
    <2>1. next = [conn EXCEPT !.received = Append(@, given)]
      BY <1>1, <1>10, HandledCases
    <2>2. f.opcode \in {"text", "ping"} /\ i \in 1 .. MaxFrames /\ f.fin
      BY <1>1, <1>5, <1>10 DEF Whole
    <2>3. given \in Message
      BY <2>2 DEF Message, Indices
    <2>4. MessageEndingAt(i) = given
      BY <1>10 DEF MessageEndingAt
    <2> HIDE DEF given, next
    <2>5. /\ next \in Handling /\ next.received = Append(conn.received, given)
          /\ next.partial = conn.partial /\ next.ended = conn.ended
      BY <1>3, <2>1, <2>3, Given
    <2>6. (OpenAt(i) <=> OpenAt(n)) /\ (Collected(conn.partial, i) <=> Collected(conn.partial, n))
      BY <1>2, <1>10, OutsideOfFragments
    <2>7. Meant(i) = Append(Meant(n), given)
      BY <1>4, <1>7, <1>10, <2>2, <2>4
    <2> QED BY <1>3, <2>5, <2>6, <2>7 DEF HandlingOK
  <1>11. CASE f.opcode \notin {"upgrade", "close"} /\ ~Whole(f)
    <2>1. /\ i \in 1 .. MaxFrames
          /\ \/ f.opcode = "text" /\ ~f.fin /\ ~OpenAt(n)
             \/ f.opcode = "cont" /\ OpenAt(n)
      BY <1>1, <1>5, <1>11 DEF Whole
    <2>2. /\ message.opcode = (IF f.opcode = "cont" THEN conn.partial.opcode ELSE f.opcode)
          /\ message.size = conn.partial.size + f.payload
          /\ message.frames = Append(conn.partial.frames, i)
          /\ message = [opcode |-> message.opcode, size |-> message.size, frames |-> message.frames]
      BY DEF Grown
    <2>3. message.opcode = "text" /\ message.size \in Nat /\ message.frames \in Indices
      <3>1. conn.partial.opcode \in {"cont", "text"} /\ conn.partial.size \in Nat /\ conn.partial.frames \in Indices
        BY <1>3, ReceiverAssumption, SMT DEF Partial
      <3>2. message.opcode = "text"
        BY <1>3, <2>1, <2>2, <3>1
      <3>3. Append(conn.partial.frames, i) \in Indices
        BY <2>1, <3>1, AppendProperties DEF Indices
      <3> HIDE DEF message
      <3> QED BY <1>5, <2>2, <3>1, <3>2, <3>3, SMT
    <2>4. CASE ~Fits(message.size)
      <3>1. next = [conn EXCEPT !.ended = TRUE]
        BY <1>1, <1>11, <2>4, HandledCases
      <3>2. next \in Handling /\ next.partial = conn.partial /\ next.ended
        BY <1>3, <3>1 DEF Handling
      <3>3. conn.partial.opcode # "cont"
        <4>1. conn.partial.opcode = "cont" => message.size <= RecvBufSize
          BY <1>3, <1>5, <2>2, ReceiverAssumption, SMT
        <4> QED BY <2>4, <4>1 DEF Fits
      <3> HIDE DEF next
      <3> QED BY <3>2, <3>3 DEF HandlingOK
    <2> HIDE DEF message
    <2>5. CASE Fits(message.size) /\ ~f.fin
      <3>1. next = [conn EXCEPT !.partial = message]
        BY <1>1, <1>11, <2>5, HandledCases DEF message
      <3>2. message \in Partial
        <4>1. message.size \in 0 .. RecvBufSize
          BY <2>3, <2>5, ReceiverAssumption, SMT DEF Fits
        <4> QED BY <2>2, <2>3, <4>1 DEF Partial
      <3>3. /\ next \in Handling /\ next.partial = message
            /\ next.received = conn.received /\ next.ended = conn.ended
        BY <1>3, <3>1, <3>2 DEF Handling
      <3>4. OpenAt(i) /\ Meant(i) = Meant(n)
        BY <1>4, <1>6, <2>5
      <3>5. ASSUME ~conn.ended PROVE Collected(message, i)
        <4>1. Collected(conn.partial, n)
          BY <1>3, <3>5
        <4>2. CASE f.opcode = "text"
          <5>1. conn.partial.frames = <<>>
            BY <1>1, <4>1, <4>2 DEF Collected
          <5>2. message.frames = <<i>>
            BY <2>2, <5>1, SMT
          <5>3. /\ i \in Begins(i) /\ \A k \in Begins(i) : k <= i
                /\ Sorted(Fragments(i, i)) = <<i>>
            BY <1>2, <1>11, <4>2, FirstFragment
          <5> HIDE DEF f
          <5> QED BY <2>3, <3>4, <4>2, <5>2, <5>3 DEF Collected, f
        <4>3. CASE f.opcode = "cont"
          <5>1. PICK b \in Begins(n) : /\ \A k \in Begins(n) : k <= b
                                       /\ conn.partial.opcode = sent[b].shape.opcode
                                       /\ conn.partial.frames = Sorted(Fragments(b, n))
            BY <1>1, <4>1, <4>3 DEF Collected
          <5>2. Begins(i) = Begins(n) /\ Sorted(Fragments(b, i)) = Append(Sorted(Fragments(b, n)), i)
            BY <1>2, <4>3, NextFragment
          <5>3. message.opcode = sent[b].shape.opcode /\ message.frames = Sorted(Fragments(b, i))
            BY <2>2, <4>3, <5>1, <5>2
          <5> QED BY <3>4, <5>1, <5>2, <5>3 DEF Collected
        <4> QED BY <2>1, <4>2, <4>3
      <3> HIDE DEF next
      <3> QED BY <1>3, <2>3, <3>3, <3>4, <3>5 DEF HandlingOK
    <2>6. CASE Fits(message.size) /\ f.fin
      <3> DEFINE given == [opcode |-> message.opcode, frames |-> message.frames]
      <3>1. next = [conn EXCEPT !.partial = Finished(message), !.received = Append(@, given)]
        BY <1>1, <1>11, <2>6, HandledCases DEF message
      <3>2. /\ Finished(message) \in Partial
            /\ Finished(message).opcode = "text" /\ Finished(message).frames = <<>>
        <4>1. message \in [opcode : {"text"}, size : Nat, frames : Indices]
          BY <2>2, <2>3
        <4> QED BY <4>1, FinishedIsEmpty
      <3>3. given \in Message
        BY <2>3 DEF Message
      <3>4. /\ next \in Handling /\ next.partial = Finished(message)
            /\ next.received = Append(conn.received, given) /\ next.ended = conn.ended
        <4>1. Append(conn.received, given) \in Seq(Message)
          BY <1>3, <3>3, AppendProperties DEF Handling
        <4> HIDE DEF given
        <4> QED BY <1>3, <3>1, <3>2, <4>1 DEF Handling
      <3>5. f.opcode = "cont" /\ ~OpenAt(i) /\ OpenAt(n)
        BY <1>4, <2>1, <2>6
      <3>6. Meant(i) = Append(Meant(n), MessageEndingAt(i))
        BY <1>4, <1>7, <2>6, <3>5
      <3>7. ASSUME ~conn.ended PROVE MessageEndingAt(i) = given
        <4>1. PICK b \in Begins(n) : /\ \A k \in Begins(n) : k <= b
                                     /\ conn.partial.opcode = sent[b].shape.opcode
                                     /\ conn.partial.frames = Sorted(Fragments(b, n))
          BY <1>3, <3>5, <3>7 DEF Collected
        <4>2. MessageEndingAt(i) = [opcode |-> sent[b].shape.opcode,
                                    frames |-> Append(Sorted(Fragments(b, n)), i)]
          BY <1>2, <3>5, <4>1, LastFragment
        <4> QED BY <2>2, <3>5, <4>1, <4>2
      <3> HIDE DEF next, given
      <3>8. ~conn.ended => next.received = Meant(i)
        BY <1>3, <3>4, <3>6, <3>7
      <3>9. Collected(next.partial, i)
        BY <3>2, <3>4, <3>5 DEF Collected
      <3> QED BY <3>2, <3>4, <3>8, <3>9 DEF HandlingOK
    <2> QED BY <1>5, <2>4, <2>5, <2>6
  <1> HIDE DEF f, next, i
  <1> QED BY <1>8, <1>9, <1>10, <1>11

-----------------------------------------------------------------------------
\* The connection between two reads.
HandledSoFar == [partial |-> partial, received |-> received, ended |-> status # "open"]

\* The inductive invariant for what is received: the stream is one the peer may
\* send, and what has been handed over and what is kept are what it means so far.
StatusOK == status \in {"open", "full", "closed"}
MessageInv == BufferInv /\ StatusOK /\ GrammarOK /\ HandlingOK(HandledSoFar, done)

\* Sorting a set of numbers gives numbers of the set.
LEMMA SortedMembers ==
    ASSUME NEW n \in Nat, NEW S \in SUBSET (1 .. n)
    PROVE  \A k \in 1 .. Cardinality(S) : Sorted(S)[k] \in S
  <1> DEFINE Low(m) == {i \in S : i <= m}
             Good(m) == /\ Cardinality(Low(m)) \in Nat
                        /\ \A k \in 1 .. Cardinality(Low(m)) : Sorted(Low(m))[k] \in Low(m)
             T == {m \in 0 .. n : Good(m)}
  <1>0. \A i \in S : i \in Nat /\ 1 <= i /\ i <= n
    BY SMT
  <1>1. 0 \in T
    <2>1. Low(0) = {} /\ 0 \in 0 .. n
      <3>1. \A i \in S : ~(i <= 0)
        BY <1>0, SMT
      <3>2. 0 \in 0 .. n
        BY SMT
      <3> QED BY <3>1, <3>2
    <2>2. Good(0)
      <3> HIDE DEF Low
      <3> QED BY <2>1, FS_EmptySet, SMT
    <2> HIDE DEF Good
    <2> QED BY <2>1, <2>2
  <1>2. ASSUME NEW m \in 0 .. n - 1, m \in T PROVE m + 1 \in T
    <2>1. /\ m \in Nat /\ m + 1 \in 0 .. n /\ m < m + 1 /\ m + 1 \in Nat /\ Good(m)
      BY <1>2, SMT
    <2>2. Low(m) \in SUBSET (1 .. m)
      <3>1. \A i \in S : i <= m => i \in 1 .. m
        BY <1>0, <2>1, SMT
      <3> QED BY <3>1
    <2>3. Low(m + 1) = IF m + 1 \in S THEN Low(m) \cup {m + 1} ELSE Low(m)
      <3>1. \A i \in S : i <= m + 1 <=> i <= m \/ i = m + 1
        BY <1>0, <2>1, SMT
      <3> QED BY <3>1
    <2>4. Good(m + 1)
      <3>1. CASE m + 1 \notin S
        <4> HIDE DEF Low
        <4> QED BY <2>1, <2>3, <3>1
      <3>2. CASE m + 1 \in S
        <4> DEFINE size == Cardinality(Low(m))
        <4> HIDE DEF Low
        <4>1. /\ Cardinality(Low(m + 1)) = size + 1 /\ size \in Nat
              /\ Sorted(Low(m + 1)) = Append(Sorted(Low(m)), m + 1)
          BY <2>1, <2>2, <2>3, <3>2, SortedGrows
        <4>2. Sorted(Low(m)) = [k \in 1 .. size |-> Sorted(Low(m))[k]]
          BY DEF Sorted
        <4>3. Sorted(Low(m + 1)) = [k \in 1 .. size + 1 |-> IF k = size + 1 THEN m + 1
                                                            ELSE Sorted(Low(m))[k]]
          <5> DEFINE order == Sorted(Low(m))
          <5>1. order = [k \in 1 .. size |-> order[k]] /\ size \in Nat
            BY <4>1, <4>2
          <5> HIDE DEF size, order
          <5>2. Append(order, m + 1) = [k \in 1 .. size + 1 |-> IF k = size + 1 THEN m + 1 ELSE order[k]]
            BY <5>1, AppendEntries
          <5> QED BY <4>1, <5>2 DEF order
        <4>4. \A k \in 1 .. size : Sorted(Low(m))[k] \in Low(m)
          BY <2>1
        <4> HIDE DEF size
        <4>5. ASSUME NEW k \in 1 .. size + 1 PROVE Sorted(Low(m + 1))[k] \in Low(m + 1)
          <5>1. k = size + 1 \/ k \in 1 .. size
            BY <4>1, SMT
          <5> QED BY <2>3, <3>2, <4>3, <4>4, <5>1
        <4> QED BY <4>1, <4>5, SMT
      <3> QED BY <3>1, <3>2
    <2> HIDE DEF Good
    <2> QED BY <2>1, <2>4
  <1>3. n \in T
    <2> HIDE DEF T
    <2>1. \A m \in 0 .. n : m \in T
      BY <1>1, <1>2, InductionUpTo, SMT
    <2> QED BY <2>1, SMT
  <1>4. Low(n) = S
    BY <1>0
  <1> HIDE DEF Low
  <1> QED BY <1>3, <1>4

\* Nothing has been received of nothing handled.
LEMMA InitMessages == Init => GrammarOK /\ HandlingOK(HandledSoFar, done)
  <1> SUFFICES ASSUME Init PROVE GrammarOK /\ HandlingOK(HandledSoFar, done)
    OBVIOUS
  <1>1. /\ sent \in Seq([shape : Shapes \cup {Response}, end : Nat])
        /\ Len(sent) = 1 /\ sent[1].shape = Response
    <2>1. Size(Response) \in Nat
      BY ReceiverAssumption, SizeType
    <2>2. Ending(Response, Size(Response)) \in [shape : Shapes \cup {Response}, end : Nat]
      BY <2>1 DEF Ending
    <2>3. Ending(Response, Size(Response)).shape = Response
      BY DEF Ending
    <2> HIDE DEF Size
    <2> QED BY <2>2, <2>3, SMT DEF Init
  <1>2. GrammarOK
    BY <1>1, SMT DEF GrammarOK
  <1>3. Meant(0) = <<>> /\ ~OpenAt(0)
    <2>0. 1 .. 0 = {}
      BY SMT
    <2>1. Ends(0) = {} /\ ~OpenAt(0)
      BY <2>0 DEF Ends, OpenAt
    <2>2. Meant(0) = [k \in {} |-> MessageEndingAt(Sorted({})[k])]
      BY <2>0, <2>1, FS_EmptySet DEF Meant
    <2>3. @ = <<>>
      BY SMT
    <2> QED BY <2>1, <2>2, <2>3
  <1>4. NoPartial \in Partial /\ NoPartial.size = 0 /\ NoPartial.frames = <<>>
    BY ReceiverAssumption, SMT DEF NoPartial, Partial, Indices
  <1>5. HandledSoFar \in Handling /\ HandledSoFar.partial = NoPartial /\ HandledSoFar.received = <<>>
    BY <1>4, SMT DEF Init, HandledSoFar, Handling
  <1>6. done = 0
    BY DEF Init
  <1> QED BY <1>2, <1>3, <1>4, <1>5, <1>6 DEF HandlingOK, Collected

\* A message that is open has begun.
LEMMA OpenHasBegun ==
    ASSUME GrammarOK, NEW n \in 0 .. Len(sent), OpenAt(n)
    PROVE  \E b \in Begins(n) : \A k \in Begins(n) : k <= b
  <1> DEFINE Begun(m) == \E b \in Begins(m) : \A k \in Begins(m) : k <= b
             T == {m \in 0 .. n : OpenAt(m) => Begun(m)}
  <1>0. Len(sent) \in Nat /\ n \in Nat
    BY SMT DEF GrammarOK
  <1>1. 0 \in T
    <2>1. ~OpenAt(0) /\ 0 \in 0 .. n
      BY <1>0, SMT DEF OpenAt
    <2> QED BY <2>1
  <1>2. ASSUME NEW m \in 0 .. n - 1, m \in T PROVE m + 1 \in T
    <2> DEFINE f == sent[m + 1].shape
    <2>1. /\ m \in 0 .. Len(sent) - 1 /\ m \in Nat /\ m + 1 \in 0 .. n
          /\ OpenAt(m) => Begun(m)
      BY <1>0, <1>2, SMT
    <2>2. (f.opcode = "cont" => OpenAt(m)) /\ (f.opcode \notin {"text", "cont"} => f.fin)
      BY <2>1, NextFrame
    <2> HIDE DEF Begun
    <2> SUFFICES ASSUME OpenAt(m + 1) PROVE Begun(m + 1)
      BY <2>1
    <2>3. CASE Whole(f)
      <3>1. OpenAt(m)
        BY <2>1, <2>3, OpenAfter DEF Whole
      <3>2. Begins(m + 1) = Begins(m)
        BY <2>1, <2>3, SetsAfter
      <3> QED BY <2>1, <3>1, <3>2 DEF Begun
    <2>4. CASE f.opcode = "cont"
      <3>1. Begins(m + 1) = Begins(m)
        BY <2>1, <2>4, NextFragment
      <3> QED BY <2>1, <2>2, <2>4, <3>1 DEF Begun
    <2>5. CASE ~Whole(f) /\ f.opcode # "cont"
      BY <2>1, <2>5, FirstFragment DEF Begun
    <2> QED BY <2>3, <2>4, <2>5
  <1> HIDE DEF T
  <1>3. \A m \in 0 .. n : m \in T
    BY <1>0, <1>1, <1>2, InductionUpTo, SMT
  <1>4. n \in T
    BY <1>0, <1>3, SMT
  <1> QED BY <1>4 DEF T

\* What is meant by the frames so far does not change when more are sent.
LEMMA SentStays ==
    ASSUME GrammarOK, \A i \in 1 .. Len(sent) : sent'[i] = sent[i],
           NEW n \in 0 .. Len(sent)
    PROVE  /\ OpenAt(n)' <=> OpenAt(n)
           /\ Meant(n)' = Meant(n)
           /\ \A message : Collected(message, n)' <=> Collected(message, n)
  <1>0. Len(sent) \in Nat
    BY DEF GrammarOK
  <1>1. \A i \in 1 .. n : i \in 1 .. Len(sent)
    BY <1>0, SMT
  <1>2. OpenAt(n)' <=> OpenAt(n)
    <2>1. \A i \in 1 .. n : \A j \in i + 1 .. n : j \in 1 .. Len(sent)
      BY <1>0, SMT
    <2> QED BY <1>1, <2>1 DEF OpenAt
  <1>3. \A m \in 1 .. Len(sent) : Begins(m)' = Begins(m)
    <2>1. \A m \in 1 .. Len(sent) : \A i \in 1 .. m : i \in 1 .. Len(sent)
      BY SMT
    <2> QED BY <2>1 DEF Begins
  <1>4. \A b \in Nat, m \in 1 .. Len(sent) : b > 0 => Fragments(b, m)' = Fragments(b, m)
    <2>1. \A b \in Nat, m \in 1 .. Len(sent) : b > 0 => \A i \in b .. m : i \in 1 .. Len(sent)
      BY SMT
    <2> QED BY <2>1 DEF Fragments
  <1>5. Begins(n)' = Begins(n) /\ \A b \in Begins(n) : b \in 1 .. n /\ Fragments(b, n)' = Fragments(b, n)
    <2>1. Begins(n)' = Begins(n)
      BY <1>1 DEF Begins
    <2>2. \A b \in Begins(n) : b \in 1 .. n /\ b \in Nat /\ b > 0 /\ n \in 1 .. Len(sent)
      BY SMT DEF Begins
    <2> QED BY <1>4, <2>1, <2>2
  <1>6. \A message : Collected(message, n)' <=> Collected(message, n)
    BY <1>1, <1>2, <1>5 DEF Collected
  <1>7. Ends(n)' = Ends(n)
    BY <1>1 DEF Ends
  <1>8. ASSUME NEW i \in Ends(n) PROVE MessageEndingAt(i)' = MessageEndingAt(i)
    <2>1. /\ i \in 1 .. n /\ i \in 1 .. Len(sent) /\ sent'[i] = sent[i]
          /\ sent[i].shape.fin /\ sent[i].shape.opcode # "upgrade"
      BY <1>1 DEF Ends
    <2>2. CASE Whole(sent[i].shape)
      BY <2>1, <2>2 DEF MessageEndingAt, Whole
    <2>3. CASE ~Whole(sent[i].shape)
      <3> DEFINE begin == CHOOSE j \in Begins(i) : \A k \in Begins(i) : k <= j
      <3>1. sent[i].shape.opcode = "cont"
        BY <2>1, <2>3 DEF Whole
      <3>2. /\ i - 1 \in 0 .. Len(sent) - 1 /\ i - 1 \in 0 .. Len(sent) /\ i - 1 \in Nat
            /\ (i - 1) + 1 = i
        BY <1>0, <2>1, SMT
      <3>3. OpenAt(i - 1)
        BY <3>1, <3>2, NextFrame
      <3>4. Begins(i) = Begins(i - 1)
        BY <3>1, <3>2, NextFragment
      <3>5. begin \in Begins(i)
        BY <3>2, <3>3, <3>4, OpenHasBegun
      <3>6. begin \in Nat /\ begin > 0 /\ begin \in 1 .. Len(sent)
        <4>1. begin \in 1 .. i
          BY <3>5 DEF Begins
        <4> HIDE DEF begin
        <4> QED BY <1>0, <2>1, <4>1, SMT
      <3>7. PICK b : b = begin
        OBVIOUS
      <3>8. Begins(i)' = Begins(i)
        BY <1>3, <2>1
      <3>9. b = CHOOSE j \in Begins(i)' : \A k \in Begins(i)' : k <= j
        BY <3>7, <3>8
      <3>10. MessageEndingAt(i) = [opcode |-> sent[b].shape.opcode, frames |-> Sorted(Fragments(b, i))]
        BY <2>3, <3>7 DEF MessageEndingAt
      <3>11. MessageEndingAt(i)' = [opcode |-> sent'[b].shape.opcode, frames |-> Sorted(Fragments(b, i)')]
        BY <2>1, <2>3, <3>9 DEF MessageEndingAt, Whole
      <3>12. sent'[b] = sent[b] /\ Fragments(b, i)' = Fragments(b, i)
        BY <1>4, <2>1, <3>6, <3>7
      <3> QED BY <3>10, <3>11, <3>12
    <2> QED BY <2>2, <2>3
  <1>9. Meant(n)' = Meant(n)
    <2>1. PICK K : K = Ends(n) /\ K = Ends(n)'
      BY <1>7
    <2>2. \A k \in 1 .. Cardinality(K) : Sorted(K)[k] \in K
      <3>1. K \in SUBSET (1 .. n) /\ n \in Nat
        BY <1>0, <2>1, SMT DEF Ends
      <3> QED BY <3>1, SortedMembers
    <2>3. Meant(n) = [k \in 1 .. Cardinality(K) |-> MessageEndingAt(Sorted(K)[k])]
      BY <2>1 DEF Meant
    <2>4. Meant(n)' = [k \in 1 .. Cardinality(K) |-> MessageEndingAt(Sorted(K)[k])']
      BY <2>1 DEF Meant
    <2>5. \A k \in 1 .. Cardinality(K) :
             MessageEndingAt(Sorted(K)[k])' = MessageEndingAt(Sorted(K)[k])
      <3> SUFFICES ASSUME NEW k \in 1 .. Cardinality(K)
                   PROVE  MessageEndingAt(Sorted(K)[k])' = MessageEndingAt(Sorted(K)[k])
        OBVIOUS
      <3>1. PICK i : i = Sorted(K)[k]
        OBVIOUS
      <3> QED BY <1>8, <2>1, <2>2, <3>1
    <2> QED BY <2>3, <2>4, <2>5, Zenon
  <1> QED BY <1>2, <1>6, <1>9

\* A frame more is one more that the grammar of the stream allows, and nothing else.
LEMMA SendMessages ==
    ASSUME BufferInv, GrammarOK, HandlingOK(HandledSoFar, done), NEW f \in Shapes, Send(f)
    PROVE  GrammarOK' /\ HandlingOK(HandledSoFar, done)'
  <1> DEFINE e == Ending(f, End(Len(sent)) + Size(f))
             Frame == [shape : Shapes \cup {Response}, end : Nat]
  <1>1. /\ sent' = Append(sent, e) /\ Len(sent) < MaxFrames
        /\ f.opcode = "cont" => InFragments
        /\ f.opcode = "text" => ~InFragments
        /\ UNCHANGED <<done, partial, received, status>>
    BY DEF Send
  <1>2. /\ sent \in Seq(Frame) /\ Len(sent) \in Nat /\ Len(sent) > 0 /\ done \in 0 .. Len(sent)
    BY SMT DEF GrammarOK, BufferInv, BufferOK
  <1>3. e \in Frame /\ e.shape = f
    <2>1. f \in Shape /\ Size(f) \in Nat
      BY ReceiverAssumption, SizeType
    <2>2. End(Len(sent)) \in Nat
      BY <1>2, EndType, SMT DEF BufferInv
    <2>3. End(Len(sent)) + Size(f) \in Nat
      BY <2>1, <2>2, SMT
    <2> QED BY <2>3 DEF Ending
  <1> HIDE DEF e
  <1>4. /\ sent' \in Seq(Frame) /\ Len(sent') = Len(sent) + 1 /\ sent'[Len(sent) + 1] = e
        /\ \A i \in 1 .. Len(sent) : sent'[i] = sent[i]
    BY <1>1, <1>2, <1>3, AppendProperties
  <1>5. \A n \in 0 .. Len(sent) : /\ OpenAt(n)' <=> OpenAt(n)
                                  /\ Meant(n)' = Meant(n)
                                  /\ \A message : Collected(message, n)' <=> Collected(message, n)
    BY <1>4, SentStays
  <1>6. InFragments <=> OpenAt(Len(sent))
    BY DEF InFragments, OpenAt, Whole
  <1>7. GrammarOK'
    <2>1. /\ sent' \in Seq([shape : Shapes \cup {Response}, end : Nat])
          /\ Len(sent') > 0 /\ Len(sent') <= MaxFrames /\ sent'[1].shape = Response
      BY <1>1, <1>2, <1>4, ReceiverAssumption, SMT DEF GrammarOK
    <2>2. ASSUME NEW i \in 2 .. Len(sent')
          PROVE  /\ sent'[i].shape \in Shapes
                 /\ sent'[i].shape.opcode = "cont" => OpenAt(i - 1)'
                 /\ sent'[i].shape.opcode = "text" => ~OpenAt(i - 1)'
      <3>1. i - 1 \in 0 .. Len(sent) /\ (i = Len(sent) + 1 \/ i \in 2 .. Len(sent))
        BY <1>2, <1>4, SMT
      <3>2. OpenAt(i - 1)' <=> OpenAt(i - 1)
        BY <1>5, <3>1
      <3>3. CASE i = Len(sent) + 1
        <4>1. i - 1 = Len(sent) /\ sent'[i].shape = f
          BY <1>2, <1>3, <1>4, <3>3, SMT
        <4> QED BY <1>1, <1>6, <3>2, <4>1
      <3>4. CASE i \in 2 .. Len(sent)
        <4>1. sent'[i] = sent[i]
          BY <1>2, <1>4, <3>4, SMT
        <4> QED BY <3>2, <3>4, <4>1 DEF GrammarOK
      <3> QED BY <3>1, <3>3, <3>4
    <2> QED BY <2>1, <2>2 DEF GrammarOK
  <1>8. HandledSoFar' = HandledSoFar
    BY <1>1 DEF HandledSoFar
  <1>9. HandlingOK(HandledSoFar, done)'
    BY <1>1, <1>2, <1>5, <1>8 DEF HandlingOK
  <1> QED BY <1>7, <1>9

\* A complete frame is no longer than the buffer.
LEMMA CompleteFits ==
    ASSUME BufferInv, NEW last \in done .. Len(sent), End(last) - End(done) <= RecvBufSize,
           NEW n \in done .. last - 1
    PROVE  sent[n + 1].shape.payload <= RecvBufSize
  <1>1. /\ Len(sent) \in Nat /\ done \in 0 .. Len(sent) /\ last \in 0 .. Len(sent)
        /\ n \in 0 .. Len(sent) - 1 /\ n \in 0 .. Len(sent) /\ n + 1 \in 0 .. Len(sent)
        /\ done <= n /\ n + 1 <= last /\ n + 1 \in 1 .. Len(sent)
    BY SMT DEF BufferInv, BufferOK, StreamOK
  <1>2. /\ End(done) \in Nat /\ End(n) \in Nat /\ End(n + 1) \in Nat /\ End(last) \in Nat
        /\ End(done) <= End(n) /\ End(n + 1) <= End(last)
        /\ End(n + 1) = End(n) + Size(sent[n + 1].shape)
    BY <1>1, EndType, EndGrows DEF BufferInv
  <1>3. sent[n + 1].shape \in Shape
    <2>1. sent[n + 1] \in Entry
      BY <1>1, SMT DEF BufferInv, StreamOK
    <2> QED BY <2>1 DEF Entry
  <1>4. /\ Size(sent[n + 1].shape) \in Nat
        /\ sent[n + 1].shape.payload \in Nat
        /\ sent[n + 1].shape.payload <= Size(sent[n + 1].shape)
    BY <1>3, SMT DEF Shape, Size
  <1> QED BY <1>2, <1>4, ReceiverAssumption, SMT

\* A read handles its frames one after the other.
LEMMA ReadMessages ==
    ASSUME BufferInv, GrammarOK, HandlingOK(HandledSoFar, done),
           NEW count \in 1 .. RecvBufSize, NEW last \in done .. Len(sent), Read(count, last)
    PROVE  GrammarOK' /\ HandlingOK(HandledSoFar, done)'
  <1> DEFINE bytes == (tail + count) - head
  <1>1. /\ status = "open" /\ tail + count <= RecvBufSize /\ LastHandled(last, bytes)
        /\ done' = last /\ partial' = HandledUpTo(last).partial
        /\ received' = HandledUpTo(last).received
        /\ UNCHANGED sent
    <2>1. PICK now : now = HandledUpTo(last)
      OBVIOUS
    <2>2. status = "open" /\ tail + count <= RecvBufSize
      BY Zenon DEF Read
    <2>4. LastHandled(last, bytes)
      BY Zenon DEF Read
    <2>3. done' = last /\ partial' = now.partial /\ received' = now.received /\ UNCHANGED sent
      BY <2>1 DEF Read
    <2> QED BY <2>1, <2>2, <2>3, <2>4
  <1>14. HandledUpTo(last).ended => status' # "open"
    <2>1. PICK now : now = HandledUpTo(last)
      OBVIOUS
    <2>2. now.ended => status' = "closed"
      BY <2>1 DEF Read
    <2> QED BY <2>1, <2>2
  <1>2. /\ Len(sent) \in Nat /\ done \in Nat /\ last \in Nat /\ done <= last
        /\ done \in 0 .. Len(sent) /\ last \in 0 .. Len(sent)
        /\ head \in Nat /\ tail \in Nat /\ count \in Nat
    BY ReceiverAssumption, SMT DEF BufferInv, BufferOK, StreamOK
  <1>3. End(last) - End(done) <= RecvBufSize
    <2>1. End(last) - End(done) <= bytes
      BY <1>1 DEF LastHandled
    <2>2. End(last) \in Nat /\ End(done) \in Nat
      BY <1>2, EndType DEF BufferInv
    <2> QED BY <1>1, <1>2, <2>1, <2>2, ReceiverAssumption, SMT
  <1>4. PICK conn : /\ conn[done] = [partial |-> partial, received |-> received, ended |-> FALSE]
                    /\ \A n \in done + 1 .. last : conn[n] = Handled(conn[n - 1], n)
                    /\ HandledUpTo(last) = conn[last]
    BY <1>2, HandledUpToUnfolds
  <1> DEFINE T == {n \in done .. last : HandlingOK(conn[n], n)}
  <1>5. done \in T
    <2>1. conn[done] = HandledSoFar
      BY <1>1, <1>4 DEF HandledSoFar
    <2>2. done \in done .. last
      BY <1>2, SMT
    <2> QED BY <2>1, <2>2
  <1>6. ASSUME NEW n \in done .. last - 1, n \in T PROVE n + 1 \in T
    <2>1. /\ n \in 0 .. Len(sent) - 1 /\ n + 1 \in done + 1 .. last /\ n + 1 \in done .. last
          /\ (n + 1) - 1 = n
      BY <1>2, SMT
    <2>2. conn[n + 1] = Handled(conn[n], n + 1)
      BY <1>4, <2>1
    <2>3. sent[n + 1].shape.payload <= RecvBufSize
      BY <1>3, CompleteFits
    <2>4. HandlingOK(Handled(conn[n], n + 1), n + 1)
      BY <1>6, <2>1, <2>3, FrameHandled
    <2> QED BY <2>1, <2>2, <2>4
  <1>7. last \in T
    <2> HIDE DEF T
    <2>1. \A n \in done .. last : n \in T
      BY <1>2, <1>5, <1>6, InductionUpTo
    <2> QED BY <1>2, <2>1, SMT
  <1>8. HandlingOK(HandledUpTo(last), last)
    BY <1>4, <1>7
  <1>9. GrammarOK'
    BY <1>1 DEF GrammarOK, OpenAt
  <1>10. (OpenAt(last)' <=> OpenAt(last)) /\ Meant(last)' = Meant(last)
         /\ \A message : Collected(message, last)' <=> Collected(message, last)
    BY <1>1, <1>2, SentStays
  <1> DEFINE now == HandledUpTo(last)
  <1> HIDE DEF now
  <1>11. /\ now \in Handling
         /\ now.partial.opcode = "cont" => now.partial.size = 0 /\ ~OpenAt(last)
         /\ ~now.ended => now.received = Meant(last) /\ Collected(now.partial, last)
    BY <1>8 DEF HandlingOK, now
  <1>12. /\ HandledSoFar' \in Handling
         /\ HandledSoFar'.partial = now.partial /\ HandledSoFar'.received = now.received
         /\ now.ended => HandledSoFar'.ended
    <2>1. partial' = now.partial /\ received' = now.received /\ (now.ended => status' # "open")
      BY <1>1, <1>14 DEF now
    <2>2. now.partial \in Partial /\ now.received \in Seq(Message)
      BY <1>11 DEF Handling
    <2> QED BY <2>1, <2>2 DEF HandledSoFar, Handling
  <1>13. HandlingOK(HandledSoFar, done)'
    BY <1>1, <1>10, <1>11, <1>12 DEF HandlingOK
  <1> QED BY <1>9, <1>13

\* A connection is open, full or closed.
LEMMA StatusStays == StatusOK /\ [Next]_vars => StatusOK'
  <1> SUFFICES ASSUME StatusOK, [Next]_vars PROVE StatusOK'
    OBVIOUS
  <1>1. ASSUME NEW count \in 1 .. RecvBufSize, NEW last \in done .. Len(sent), Read(count, last)
        PROVE  StatusOK'
    <2>1. status' \in {"closed", "full", "open"}
      BY <1>1, Zenon DEF Read
    <2> QED BY <2>1 DEF StatusOK
  <1>2. CASE (\E f \in Shapes : Send(f)) \/ UNCHANGED vars
    <2>1. status' = status
      BY <1>2 DEF Send, vars
    <2> QED BY <2>1 DEF StatusOK
  <1>3. CASE Lost
    BY <1>3 DEF Lost, StatusOK
  <1> QED BY <1>1, <1>2, <1>3 DEF Next, ReadSome

\* The invariant is inductive.
LEMMA MessagesInductive == MessageInv /\ [Next]_vars => MessageInv'
  <1> SUFFICES ASSUME MessageInv, [Next]_vars PROVE GrammarOK' /\ HandlingOK(HandledSoFar, done)'
    BY BufferInductive, StatusStays DEF MessageInv
  <1>1. CASE \E f \in Shapes : Send(f)
    BY <1>1, SendMessages DEF MessageInv
  <1>2. CASE ReadSome
    BY <1>2, ReadMessages DEF ReadSome, MessageInv
  <1>3. CASE Lost \/ UNCHANGED vars
    <2>1. UNCHANGED <<sent, done, partial, received>> /\ (status # "open" => status' # "open")
      BY <1>3 DEF Lost, vars
    <2>2. done \in 0 .. Len(sent) /\ GrammarOK
      BY DEF MessageInv, BufferInv, BufferOK
    <2>3. GrammarOK'
      BY <2>1, <2>2 DEF GrammarOK, OpenAt
    <2>4. \A n \in 0 .. Len(sent) :
             /\ OpenAt(n)' <=> OpenAt(n)
             /\ Meant(n)' = Meant(n)
             /\ \A message : Collected(message, n)' <=> Collected(message, n)
      BY <2>1, <2>2, SentStays
    <2>5. /\ HandledSoFar' \in Handling /\ HandledSoFar'.partial = HandledSoFar.partial
          /\ HandledSoFar'.received = HandledSoFar.received
          /\ HandledSoFar.ended => HandledSoFar'.ended
      BY <2>1 DEF MessageInv, HandlingOK, HandledSoFar, Handling
    <2> QED BY <2>1, <2>2, <2>3, <2>4, <2>5 DEF MessageInv, HandlingOK
  <1> QED BY <1>1, <1>2, <1>3 DEF Next

\* The invariant holds throughout.
LEMMA MessagesHold == Spec => []MessageInv
  <1>1. Init => MessageInv
    BY InitBuffer, InitMessages DEF MessageInv, StatusOK, Init
  <1> QED BY <1>1, MessagesInductive, PTL DEF Spec

\* However the stream is cut into reads and the messages into fragments, whatever
\* control frames come in between, an open connection has handed every message to
\* onWSMsg once, in order and in full.
THEOREM AlwaysReceivedAsMeant == Spec => []ReceivedAsMeant
  <1>1. MessageInv => ReceivedAsMeant
    BY DEF MessageInv, HandlingOK, HandledSoFar, ReceivedAsMeant
  <1> QED BY <1>1, MessagesHold, PTL

\* The fragments kept never exceed the frame buffer, and what is handed over is a
\* text or a ping put together from frames that were sent.
THEOREM ReceiverTypeCorrect == Spec => []TypeOK
  <1>1. MessageInv => TypeOK
    <2> SUFFICES ASSUME MessageInv PROVE TypeOK
      OBVIOUS
    <2>1. HandledSoFar.partial \in Partial /\ HandledSoFar.received \in Seq(Message)
      BY DEF MessageInv, HandlingOK, Handling
    <2>2. partial.size \in 0 .. RecvBufSize /\ received \in Seq(Message)
      BY <2>1 DEF HandledSoFar, Partial
    <2>3. sent \in Seq([shape : Shapes \cup {Response}, end : Nat]) /\ status \in {"open", "full", "closed"}
      BY DEF MessageInv, GrammarOK, StatusOK
    <2>4. done \in 0 .. Len(sent) /\ head \in 0 .. RecvBufSize /\ tail \in head .. RecvBufSize
      BY ReceiverAssumption, SMT DEF MessageInv, BufferInv, BufferOK
    <2>5. received \in Seq([opcode : {"text", "ping"}, frames : Seq(1 .. MaxFrames)])
      BY <2>2 DEF Message, Indices
    <2> QED BY <2>2, <2>3, <2>4, <2>5 DEF TypeOK
  <1> QED BY <1>1, MessagesHold, PTL

-----------------------------------------------------------------------------
\* The headers.  The lengths they can hold.
Lengths == {n \in Nat : n \div 65536 < 65536}

\* Quotient and remainder make the number again.
LEMMA DivMod256 ==
    \A n \in Nat : n \div 256 \in Nat /\ n % 256 \in Nat /\ (n \div 256) * 256 + (n % 256) = n
  BY SMT

\* A number is its quotient and its rest by 2^16.
LEMMA DivMod65536 ==
    \A n \in Nat : n \div 65536 \in Nat /\ n % 65536 \in Nat /\ (n \div 65536) * 65536 + (n % 65536) = n
  BY SMT

\* The two low bytes of a number are those of its rest by 2^16.
LEMMA LowBytes ==
    \A n \in Nat : (n \div 256) % 256 = (n % 65536) \div 256 /\ n % 256 = (n % 65536) % 256
  BY SMT

\* The four low bytes of the long form of a length, put together again, are the length.
LEMMA Bytes64 ==
    ASSUME NEW n \in Lengths
    PROVE  LET high == n \div 65536
           IN  ((high \div 256) * 256 + (high % 256)) * 65536 + ((n \div 256) % 256) * 256 + (n % 256) = n
  <1> DEFINE high == n \div 65536
             low == n % 65536
  <1>1. n \in Nat
    BY DEF Lengths
  <1>2. high \in Nat /\ low \in Nat /\ high * 65536 + low = n
    BY <1>1, DivMod65536
  <1>3. (n \div 256) % 256 = low \div 256 /\ n % 256 = low % 256
    BY <1>1, LowBytes
  <1> HIDE DEF high, low
  <1>4. (high \div 256) * 256 + (high % 256) = high /\ (low \div 256) * 256 + (low % 256) = low
    BY <1>2, DivMod256
  <1>5. low \div 256 \in Nat /\ low % 256 \in Nat
    BY <1>2, DivMod256
  <1>6. ((high \div 256) * 256 + (high % 256)) * 65536 + (low \div 256) * 256 + (low % 256) = n
    BY <1>2, <1>4, <1>5, SMT
  <1> QED BY <1>3, <1>6 DEF high

\* Where the bytes of the longest header are.
LEMMA Bytes64At ==
    ASSUME NEW x, NEW y, NEW a, NEW b, NEW c, NEW d, NEW masks \in BOOLEAN
    PROVE  LET data == <<x, y>> \o <<0, 0, 0, 0, a, b, c, d>> \o (IF masks THEN <<0, 0, 0, 0>> ELSE <<>>)
           IN  /\ Len(data) = 10 + (IF masks THEN 4 ELSE 0)
               /\ data[7] = a /\ data[8] = b /\ data[9] = c /\ data[10] = d
  <1>1. CASE masks
    BY <1>1, SMT
  <1>2. CASE ~masks
    BY <1>2, SMT
  <1> QED BY <1>1, <1>2

\* The first two bytes say what they were made of.
LEMMA FirstBytes ==
    ASSUME NEW opcode \in 0 .. 15, NEW fin \in BOOLEAN, NEW masks \in BOOLEAN, NEW length \in Lengths,
           NEW data, data = Header(opcode, fin, masks, length)
    PROVE  /\ Opcode(data) = opcode /\ Fin(data) = fin /\ Masks(data) = masks
           /\ data[2] % 128 = ShortLength(length)
  <1>1. ShortLength(length) \in 0 .. 127
    BY SMT DEF ShortLength, Lengths
  <1>2. data[1] = opcode + Bit7(fin) /\ data[2] = ShortLength(length) + Bit7(masks)
    BY SMT DEF Header, LongLength, BigEndian16, BigEndian64
  <1>3. /\ (opcode + Bit7(fin)) % 16 = opcode
        /\ (opcode + Bit7(fin) >= 128) = fin
    BY SMT DEF Bit7
  <1>4. /\ (ShortLength(length) + Bit7(masks)) % 128 = ShortLength(length)
        /\ (ShortLength(length) + Bit7(masks) >= 128) = masks
    BY <1>1, SMT DEF Bit7
  <1> QED BY <1>2, <1>3, <1>4 DEF Opcode, Fin, Masks

\* A header is read back as it was written, at the boundaries 125 and 65535 of the
\* three encodings of the length too.
THEOREM HeaderIsReadBack ==
    ASSUME NEW opcode \in 0 .. 15, NEW fin \in BOOLEAN, NEW masks \in BOOLEAN, NEW length \in Lengths
    PROVE  LET data == Header(opcode, fin, masks, length)
           IN  /\ HeaderComplete(data) /\ HeaderLength(data) = Len(data)
               /\ Opcode(data) = opcode /\ Fin(data) = fin /\ Masks(data) = masks
               /\ PayloadLength(data) = length
  <1> DEFINE data == Header(opcode, fin, masks, length)
  <1>1. /\ Opcode(data) = opcode /\ Fin(data) = fin /\ Masks(data) = masks
        /\ data[2] % 128 = ShortLength(length)
    BY FirstBytes
  <1>2. CASE length < 126
    <2>1. Extended(data) = 0 /\ PayloadLength(data) = length
      BY <1>1, <1>2, SMT DEF Extended, PayloadLength, ShortLength, Lengths
    <2>2. Len(data) = 2 + (IF masks THEN 4 ELSE 0)
      BY <1>2, SMT DEF Header, LongLength
    <2> QED BY <1>1, <2>1, <2>2, SMT DEF HeaderComplete, HeaderLength
  <1>3. CASE length >= 126 /\ length < 65536
    <2>1. Extended(data) = 2
      BY <1>1, <1>3, SMT DEF Extended, ShortLength, Lengths
    <2>2. /\ Len(data) = 4 + (IF masks THEN 4 ELSE 0)
          /\ data[3] = length \div 256 /\ data[4] = length % 256
      BY <1>3, SMT DEF Header, LongLength, BigEndian16, Lengths
    <2> HIDE DEF data
    <2>3. PayloadLength(data) = length
      BY <1>3, <2>1, <2>2, DivMod256, SMT DEF PayloadLength, Lengths
    <2>4. HeaderComplete(data) /\ HeaderLength(data) = Len(data)
      BY <1>1, <2>1, <2>2, SMT DEF HeaderComplete, HeaderLength
    <2> QED BY <1>1, <2>3, <2>4 DEF data
  <1>4. CASE length >= 65536
    <2>1. Extended(data) = 8
      BY <1>1, <1>4, SMT DEF Extended, ShortLength, Lengths
    <2>2. /\ Len(data) = 10 + (IF masks THEN 4 ELSE 0)
          /\ data[7] = (length \div 65536) \div 256 /\ data[8] = (length \div 65536) % 256
          /\ data[9] = (length \div 256) % 256 /\ data[10] = length % 256
      <3>1. LongLength(length) = BigEndian64(length)
        BY <1>4, SMT DEF LongLength, Lengths
      <3> QED BY <3>1, Bytes64At DEF Header, BigEndian64
    <2> HIDE DEF data
    <2>3. PayloadLength(data) = length
      <3>1. PayloadLength(data)
              = (data[7] * 256 + data[8]) * 65536 + data[9] * 256 + data[10]
        BY <2>1, SMT DEF PayloadLength
      <3> QED BY <2>2, <3>1, Bytes64
    <2>4. HeaderComplete(data) /\ HeaderLength(data) = Len(data)
      BY <1>1, <2>1, <2>2, SMT DEF HeaderComplete, HeaderLength
    <2> QED BY <1>1, <2>3, <2>4 DEF data
  <1> QED BY <1>2, <1>3, <1>4, SMT DEF Lengths

\* However much of a header has arrived, it is not taken for a whole one.
THEOREM PartOfHeaderWaits ==
    ASSUME NEW opcode \in 0 .. 15, NEW fin \in BOOLEAN, NEW masks \in BOOLEAN, NEW length \in Lengths,
           NEW count \in Nat, count < Len(Header(opcode, fin, masks, length))
    PROVE  ~HeaderComplete(SubSeq(Header(opcode, fin, masks, length), 1, count))
  <1> DEFINE data == Header(opcode, fin, masks, length)
             part == SubSeq(data, 1, count)
  <1>1. HeaderLength(data) = Len(data)
    BY HeaderIsReadBack
  <1>2. data \in Seq(Int) /\ Len(data) \in Nat
    <2>1. LongLength(length) \in Seq(Int)
      BY SMT DEF LongLength, BigEndian16, BigEndian64, Lengths
    <2>2. ShortLength(length) \in Int /\ Bit7(fin) \in Int /\ Bit7(masks) \in Int
      BY SMT DEF ShortLength, Bit7, Lengths
    <2> QED BY <2>1, <2>2, SMT DEF Header
  <1>3. count < Len(data)
    OBVIOUS
  <1> HIDE DEF data
  <1>4. Len(part) = count /\ \A i \in 1 .. count : part[i] = data[i]
    BY <1>2, <1>3, SMT
  <1> HIDE DEF part
  <1>5. count < 2 => ~HeaderComplete(part)
    BY <1>4, SMT DEF HeaderComplete
  <1>6. ASSUME count >= 2 PROVE ~HeaderComplete(part)
    <2>1. part[2] = data[2]
      BY <1>4, <1>6, SMT
    <2>2. Masks(part) = Masks(data) /\ Extended(part) = Extended(data)
      BY <2>1 DEF Extended, Masks
    <2>3. HeaderLength(part) = HeaderLength(data)
      BY <2>2 DEF HeaderLength
    <2> QED BY <1>1, <1>2, <1>3, <1>4, <2>3, SMT DEF HeaderComplete
  <1>7. ~HeaderComplete(part)
    BY <1>5, <1>6, SMT
  <1> QED BY <1>7 DEF part, data

=============================================================================
