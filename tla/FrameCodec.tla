----------------------------- MODULE FrameCodec -----------------------------
(***************************************************************************)
(* One direction of a connection: LengthFieldPrepender on the writing side *)
(* and, on the reading side, LengthFieldBasedFrameDecoder below            *)
(* RpcMsgSerializeHandler.  Client and server pipelines have the same      *)
(* handlers with the same parameters (PbRpcClient.cc:46-50,                *)
(* PbRpcServer.cc:82-86).                                                  *)
(*                                                                         *)
(* TCP delivers the bytes in order, cut into reads of any size.  A read    *)
(* appends its bytes to the queue of the pipeline and runs                 *)
(* ByteToMessageDecoder's loop: decode until it returns false.  The queue  *)
(* is a chain of IOBufs; whether a read opens a new IOBuf or fills the     *)
(* room of the last one is up to the socket, and decides which part of a   *)
(* frame RpcMsgSerializeHandler::read sees.                                *)
(*                                                                         *)
(* A byte is a number below Base (256 in the code).                        *)
(***************************************************************************)
EXTENDS Integers, Sequences, SequencesExt

CONSTANTS
    Base,                        \* how many values a byte has
    lengthFieldLength,           \* the parameters of both handlers
    networkByteOrder,
    prependAdjustment,           \* LengthFieldPrepender: lengthAdjustment
    lengthIncludesLengthField,
    maxFrameLength,              \* LengthFieldBasedFrameDecoder
    lengthFieldOffset,
    lengthAdjustment,
    initialBytesToStrip,
    Content,                     \* the serialised messages written
    MaxMessages,                 \* bound: messages written in a run
    NewIOBuf                     \* can a read open a new IOBuf?

lengthFieldEndOffset == lengthFieldOffset + lengthFieldLength

\* The types of the parameters, the CHECKs of the two constructors, and a sum
\* the decoder adds in 32 bits without a sign: one below 0 would wrap (it is 2
\* in both pipelines).
ASSUME ParametersAssumption ==
    /\ Base \in Nat \ {0, 1}
    /\ lengthFieldLength \in {1, 2, 4, 8}
    /\ networkByteOrder \in BOOLEAN /\ lengthIncludesLengthField \in BOOLEAN
    /\ prependAdjustment \in Int /\ lengthAdjustment \in Int
    /\ maxFrameLength \in Nat /\ lengthFieldOffset \in Nat
    /\ initialBytesToStrip \in Nat
    /\ maxFrameLength > 0
    /\ lengthFieldOffset <= maxFrameLength - lengthFieldLength
    /\ lengthAdjustment + lengthFieldEndOffset >= 0

VARIABLES
    sent,        \* the messages handed to the socket, in order
    wire,        \* their bytes that the reader's socket has not delivered
    buf,         \* the reader's IOBufQueue: bytes, and where IOBufs begin
    reading,     \* the reader is in ByteToMessageDecoder's loop
    frames,      \* what decode has produced, in order
    exceptions   \* how many times decode fired a read exception (up to 1)

vars == <<sent, wire, buf, reading, frames, exceptions>>

Byte == 0 .. Base - 1

ASSUME ContentAssumption == Content \subseteq Seq(Byte)

Cell == [byte : Byte, head : BOOLEAN]  \* head: the first byte of its IOBuf

TypeOK ==
    /\ sent \in Seq(Content)
    /\ wire \in Seq(Byte)
    /\ buf \in Seq(Cell)
    /\ reading \in BOOLEAN
    /\ frames \in Seq(Seq(Cell))
    /\ exceptions \in {0, 1}

Init ==
    /\ sent = <<>> /\ wire = <<>> /\ buf = <<>>
    /\ reading = FALSE
    /\ frames = <<>>
    /\ exceptions = 0

-----------------------------------------------------------------------------
(* The writing side.                                                       *)

InOrder(s) == IF networkByteOrder THEN s ELSE Reverse(s)

\* How many numbers k digits can say.
Power[k \in 0 .. lengthFieldLength] == IF k = 0 THEN 1 ELSE Base * Power[k - 1]

\* The length field that says n, and the number a length field says.
Digits(n) == InOrder([i \in 1 .. lengthFieldLength |->
                        (n \div Power[lengthFieldLength - i]) % Base])

Number(s) ==
    LET number[i \in 0 .. lengthFieldLength] ==
          IF i = 0 THEN 0 ELSE number[i - 1] * Base + InOrder(s)[i]
    IN  number[lengthFieldLength]

FieldValue(m) == prependAdjustment + Len(m)
                   + (IF lengthIncludesLengthField THEN lengthFieldLength ELSE 0)

\* Otherwise write throws and nothing reaches the socket (the effect on the
\* call is ClientDispatcher!Write).
FieldFits(m) ==
    FieldValue(m) >= 0 /\ FieldValue(m) < Power[lengthFieldLength]

\* The bytes of m on the wire.
Encoded(m) == Digits(FieldValue(m)) \o m

Write(m) ==
    /\ Len(sent) < MaxMessages
    /\ FieldFits(m)
    /\ sent' = Append(sent, m)
    /\ wire' = wire \o Encoded(m)
    /\ UNCHANGED <<buf, reading, frames, exceptions>>

-----------------------------------------------------------------------------
(* The reading side.                                                       *)

\* The socket reads n bytes, into a new IOBuf or behind the last one.
Deliver(n, new) ==
    /\ ~reading
    /\ buf' = buf \o [i \in 1 .. n |->
                 [byte |-> wire[i], head |-> i = 1 /\ (new \/ buf = <<>>)]]
    /\ wire' = SubSeq(wire, n + 1, Len(wire))
    /\ reading' = TRUE
    /\ UNCHANGED <<sent, frames, exceptions>>

Bytes(cells) == [i \in DOMAIN cells |-> cells[i].byte]

\* A queue or a frame begins with an IOBuf, also where an IOBuf was cut.
AsQueue(cells) ==
    [i \in DOMAIN cells |-> [cells[i] EXCEPT !.head = @ \/ i = 1]]

\* What is left of the queue after trimStart(n) or split(n).
Drop(n) == AsQueue(SubSeq(buf, n + 1, Len(buf)))

HaveHeader == Len(buf) >= lengthFieldEndOffset

getUnadjustedFrameLength ==
    Number(SubSeq(Bytes(buf), lengthFieldOffset + 1, lengthFieldEndOffset))

frameLength ==
    getUnadjustedFrameLength + lengthAdjustment + lengthFieldEndOffset

Minimum(a, b) == IF a < b THEN a ELSE b

\* decode returned false: the loop ends, the rest waits for the next read.
EndLoop == reading' = FALSE /\ UNCHANGED <<sent, wire>>

\* decode consumed n bytes and fired a read exception.
Reject(n) == /\ buf' = Drop(n)
             /\ exceptions' = 1
             /\ UNCHANGED frames
             /\ EndLoop

DecodeIncompleteHeader ==
    /\ reading
    /\ ~HaveHeader
    /\ UNCHANGED <<buf, frames, exceptions>>
    /\ EndLoop

DecodeTooSmall ==
    /\ reading /\ HaveHeader
    /\ frameLength < lengthFieldEndOffset
    /\ Reject(lengthFieldEndOffset)

\* Mutant: a frame that is too long is taken for a frame of the maximum.
DecodeTooLargeUpToMax ==
    /\ reading /\ HaveHeader
    /\ frameLength > maxFrameLength
    /\ buf' = Drop(Minimum(maxFrameLength, Len(buf)))
    /\ UNCHANGED <<frames, exceptions>>
    /\ EndLoop

\* trimStartAtMost: the bytes of the frame still to come stay in the stream.
DecodeTooLarge ==
    /\ reading /\ HaveHeader
    /\ frameLength > maxFrameLength
    /\ Reject(Minimum(frameLength, Len(buf)))

Complete == /\ HaveHeader
            /\ frameLength \in lengthFieldEndOffset .. maxFrameLength
            /\ Len(buf) >= frameLength

DecodeIncompleteFrame ==
    /\ reading /\ HaveHeader
    /\ frameLength \in lengthFieldEndOffset .. maxFrameLength
    /\ Len(buf) < frameLength
    /\ UNCHANGED <<buf, frames, exceptions>>
    /\ EndLoop

DecodeStripTooLong ==
    /\ reading /\ Complete
    /\ initialBytesToStrip > frameLength
    /\ Reject(frameLength)

\* Mutant: the frame is split off without the header it still has.
DecodeFrameUnstripped ==
    /\ reading /\ Complete
    /\ initialBytesToStrip <= frameLength
    /\ frames' = Append(frames, AsQueue(
                     SubSeq(buf, 1, frameLength - initialBytesToStrip)))
    /\ buf' = Drop(frameLength)
    /\ UNCHANGED <<sent, wire, reading, exceptions>>

\* Mutant: the frame is copied and stays in the queue.
DecodeFrameCopied ==
    /\ reading /\ Complete
    /\ initialBytesToStrip <= frameLength
    /\ buf' = buf
    /\ UNCHANGED <<sent, wire, frames, reading, exceptions>>

\* Mutant: the loop ends after each frame.
DecodeOneFrame ==
    /\ reading /\ Complete
    /\ initialBytesToStrip <= frameLength
    /\ frames' = Append(frames, AsQueue(
                     SubSeq(buf, initialBytesToStrip + 1, frameLength)))
    /\ buf' = Drop(frameLength)
    /\ UNCHANGED exceptions
    /\ EndLoop

\* decode returned true: the frame goes up and the loop goes on.
DecodeFrame ==
    /\ reading /\ Complete
    /\ initialBytesToStrip <= frameLength
    /\ frames' = Append(frames, AsQueue(
                     SubSeq(buf, initialBytesToStrip + 1, frameLength)))
    /\ buf' = Drop(frameLength)
    /\ UNCHANGED <<sent, wire, reading, exceptions>>

Decode == \/ DecodeIncompleteHeader \/ DecodeTooSmall \/ DecodeTooLarge
          \/ DecodeIncompleteFrame \/ DecodeStripTooLong \/ DecodeFrame

\* Mutant: the IOBuf's data without what comes before the last cut.
ParsedLast(frame) ==
    LET second == {i \in 2 .. Len(frame) : frame[i].head}
    IN  Bytes(IF second = {} THEN frame
              ELSE SubSeq(frame, Min(second), Len(frame)))

\* RpcMsgSerializeHandler::read parses msg->data(), msg->length(): the first
\* IOBuf of the frame, and does not look at the result of the parse.
Parsed(frame) ==
    LET second == {i \in 2 .. Len(frame) : frame[i].head}
    IN  Bytes(IF second = {} THEN frame
              ELSE SubSeq(frame, 1, Min(second) - 1))

-----------------------------------------------------------------------------
Next == \/ \E m \in Content : Write(m)
        \/ \E n \in 1 .. Len(wire), new \in NewIOBuf : Deliver(n, new)
        \/ Decode

Spec == Init /\ [][Next]_vars

\* The IO thread goes on with the loop it is in.
FairSpec == Spec /\ WF_vars(Decode)

-----------------------------------------------------------------------------
(* Properties.                                                             *)

received == [i \in DOMAIN frames |-> Bytes(frames[i])]

Channel == INSTANCE MessageChannel
             WITH Message <- Content, sent <- sent, received <- received

\* However the stream is cut into reads, the frames that come out are the
\* messages written, whole and in order, as long as no frame exceeds
\* maxFrameLength.
ImplementsMessageChannel == Channel!Spec

\* The loop never ends with a complete frame in the queue: a message that has
\* arrived is not held back until the next one does.  The variables keep their
\* types, in particular a length field is made of bytes.
NothingHeldBack == TypeOK /\ (~reading => ~Complete)

\* Until decode reports an exception, what came out is what was written
\* without the bytes to strip: a frame is never wrong silently, also when some
\* message exceeds maxFrameLength.
ExactUntilException ==
    exceptions = 0 =>
        /\ Len(received) <= Len(sent)
        /\ \A i \in DOMAIN received : received[i] =
              LET e == Encoded(sent[i])
              IN  SubSeq(e, initialBytesToStrip + 1, Len(e))

\* The loop ends on every input, also on bytes that are no frames.
LoopEnds == reading ~> ~reading

\* What RpcMsgSerializeHandler parses is the beginning of the message that was
\* written, all of it when the frame arrived in one IOBuf: protobuf may get a
\* message that is cut, never one with bytes of another.
ParsedIsPrefix ==
    \A i \in DOMAIN frames :
        /\ Parsed(frames[i]) # <<>> /\ IsPrefix(Parsed(frames[i]), sent[i])
        /\ (\A k \in 2 .. Len(frames[i]) : ~frames[i][k].head)
              => Parsed(frames[i]) = sent[i]
=============================================================================
