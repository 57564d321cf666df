--------------------------- MODULE ProtobufCodec ---------------------------
(***************************************************************************)
(* ProtobufCodec: the frames of the proxy's protocol in the byte stream of *)
(* one connection.  The stream is cut into arbitrary chunks; onMessage     *)
(* runs on each, takes whole frames off the buffer and dispatches them.    *)
(*                                                                         *)
(* A byte in the input buffer is its position in the stream.  A frame is a *)
(* record of what the codec reads from those bytes: len and nameLen,       *)
(* whether the check sum is right, whether the type name is known, and     *)
(* body, the number of bytes after the name that make up a message.  size  *)
(* is the number of bytes the peer really sends for it, and intact says    *)
(* that fillEmptyBuffer made it.                                           *)
(***************************************************************************)
EXTENDS Buffer, Integers, FiniteSetsExt

CONSTANTS
    Streams,            \* what the peer may send: sequences of frames
    Chunks,             \* how many bytes a read may bring
    kMaxMessageLen

kHeaderLen == 4
kMinMessageLen == 2 * kHeaderLen + 2

\* The length is prepended to a fresh buffer.
ASSUME CodecAssumption == kCheapPrepend >= kHeaderLen

VARIABLES
    stream,         \* what the peer sends
    inputBuffer_,   \* the connection's Buffer
    arrived,        \* bytes read so far
    retrieved,      \* bytes taken out of the buffer
    next,           \* the frame at the front of the buffer
    dispatched,     \* frames handed to messageCallback_
    errorCode,      \* what errorCallback_ was last called with
    connected,
    inOnMessage     \* onMessage is on the stack

codecVars == <<stream, inputBuffer_, arrived, retrieved, next, dispatched, errorCode, connected, inOnMessage>>

ErrorCodes == {"kNoError", "kInvalidLength", "kCheckSumError", "kInvalidNameLen",
               "kUnknownMessageType", "kParseError"}

CodecTypeOK ==
    /\ stream \in Streams
    /\ inputBuffer_.readerIndex_ \in kCheapPrepend .. inputBuffer_.writerIndex_
    /\ inputBuffer_.writerIndex_ \in 0 .. Len(inputBuffer_.buffer_)
    /\ arrived \in Nat
    /\ retrieved \in 0 .. arrived
    /\ next \in 1 .. Len(stream) + 1
    /\ dispatched \in Seq(1 .. Len(stream))
    /\ errorCode \in ErrorCodes
    /\ {connected, inOnMessage} \subseteq BOOLEAN

CodecInit ==
    /\ stream \in Streams
    /\ inputBuffer_ = NewBuffer
    /\ arrived = 0
    /\ retrieved = 0
    /\ next = 1
    /\ dispatched = <<>>
    /\ errorCode = "kNoError"
    /\ connected = TRUE
    /\ inOnMessage = FALSE

\* fillEmptyBuffer: nameLen counts the final NUL of the type name.  The name,
\* its length, the message and the check sum are appended, then len prepended.
fillEmptyBuffer(nameSize, byte_size) ==
    LET nameLen == nameSize + 1
        named == append(append(NewBuffer, Zeros(kHeaderLen)), Zeros(nameLen))
        serialized == Written(ensureWritableBytes(named, byte_size), Zeros(byte_size))
        summed == append(serialized, Zeros(kHeaderLen))
        framed == prepend(summed, Zeros(kHeaderLen))
    IN  [len |-> readableBytes(summed), nameLen |-> nameLen, sum |-> TRUE, known |-> TRUE,
         body |-> byte_size, size |-> readableBytes(framed), intact |-> TRUE]

\* Mutant of parse: the check sum is not compared.
parseWithoutSum(f) ==
    LET dataLen == f.len - f.nameLen - 2 * kHeaderLen IN
    IF ~(f.nameLen >= 2 /\ f.nameLen <= f.len - 2 * kHeaderLen) THEN "kInvalidNameLen"
    ELSE IF ~f.known THEN "kUnknownMessageType"
    ELSE IF dataLen = f.body THEN "kNoError" ELSE "kParseError"

\* ProtobufCodec::parse
parse(f) ==
    LET dataLen == f.len - f.nameLen - 2 * kHeaderLen IN
    IF ~f.sum THEN "kCheckSumError"
    ELSE IF ~(f.nameLen >= 2 /\ f.nameLen <= f.len - 2 * kHeaderLen) THEN "kInvalidNameLen"
    ELSE IF ~f.known THEN "kUnknownMessageType"
    ELSE IF dataLen = f.body THEN "kNoError" ELSE "kParseError"

Frames == [len : Int, nameLen : Int, sum : BOOLEAN, known : BOOLEAN, body : Nat,
           size : Nat, intact : BOOLEAN]

\* The length is right, and something else is not.
DamagedInside(f) ==
    /\ f.size = kHeaderLen + f.len
    /\ \/ ~f.sum \/ ~f.known
       \/ f.nameLen \notin 2 .. f.len - 2 * kHeaderLen
       \/ f.body # f.len - f.nameLen - 2 * kHeaderLen

\* An intact frame is one that fillEmptyBuffer made and that is not too large.
\* The codec can tell a damaged one: its length is out of range, or right while
\* what it spans is not what the fields say.
ASSUME StreamsAssumption ==
    /\ kMaxMessageLen \in Nat /\ Chunks \subseteq Nat
    /\ \A s \in Streams : s \in Seq(Frames) /\ \A i \in 1 .. Len(s) :
        IF s[i].intact
        THEN /\ s[i].len <= kMaxMessageLen
             /\ \E nameSize \in 1 .. s[i].len, byte_size \in 0 .. s[i].len :
                    s[i] = fillEmptyBuffer(nameSize, byte_size)
        ELSE s[i].len \notin kMinMessageLen .. kMaxMessageLen \/ DamagedInside(s[i])

\* The number of bytes before frame i + 1.
End(s) == LET end[i \in 0 .. Len(s)] == IF i = 0 THEN 0 ELSE end[i - 1] + s[i].size IN end

\* TcpConnection::handleRead: a read brings up to n bytes, then onMessage.
Receive(n) ==
    /\ ~inOnMessage
    /\ arrived < End(stream)[Len(stream)]
    /\ LET read == Min({n, End(stream)[Len(stream)] - arrived, ReadLimit(inputBuffer_)})
       IN  /\ inputBuffer_' = readFd(inputBuffer_, [i \in 1 .. read |-> arrived + i])
           /\ arrived' = arrived + read
    /\ inOnMessage' = TRUE
    /\ UNCHANGED <<stream, retrieved, next, dispatched, errorCode, connected>>

-----------------------------------------------------------------------------
(* onMessage: one pass of the loop                                         *)

Front == stream[next]

\* Mutant of LengthOK: the largest message is refused.
LengthBelowMax == Front.len >= kMinMessageLen /\ Front.len < kMaxMessageLen

LengthOK == Front.len >= kMinMessageLen /\ Front.len <= kMaxMessageLen

\* The buffer is too short for a header and the smallest message.
EnoughToLook == readableBytes(inputBuffer_) >= kMinMessageLen + kHeaderLen

WholeFrame == readableBytes(inputBuffer_) >= Front.len + kHeaderLen

\* Mutant of Retrieve: the length field stays in the buffer.
RetrieveMessage ==
    /\ inputBuffer_' = retrieve(inputBuffer_, Front.len)
    /\ retrieved' = retrieved + Front.len

\* buf->retrieve(kHeaderLen + len)
Retrieve ==
    /\ inputBuffer_' = retrieve(inputBuffer_, kHeaderLen + Front.len)
    /\ retrieved' = retrieved + kHeaderLen + Front.len

\* Mutant of Reject: no break after the error.
RejectGoesOn(code) ==
    /\ errorCode' = code
    /\ connected' = FALSE
    /\ UNCHANGED <<stream, inputBuffer_, arrived, retrieved, next, dispatched, inOnMessage>>

\* errorCallback_ shuts the connection down; the bytes stay in the buffer.
Reject(code) ==
    /\ errorCode' = code
    /\ connected' = FALSE
    /\ inOnMessage' = FALSE
    /\ UNCHANGED <<stream, inputBuffer_, arrived, retrieved, next, dispatched>>

InvalidLength ==
    /\ inOnMessage
    /\ EnoughToLook
    /\ ~LengthOK
    /\ Reject("kInvalidLength")

Dispatch ==
    /\ inOnMessage
    /\ EnoughToLook
    /\ LengthOK
    /\ WholeFrame
    /\ parse(Front) = "kNoError"
    /\ dispatched' = Append(dispatched, next)
    /\ Retrieve
    /\ next' = next + 1
    /\ UNCHANGED <<stream, arrived, errorCode, connected, inOnMessage>>

ParseFailed ==
    /\ inOnMessage
    /\ EnoughToLook
    /\ LengthOK
    /\ WholeFrame
    /\ parse(Front) # "kNoError"
    /\ Reject(parse(Front))

\* Too little for a frame: wait for the next read.
Break ==
    /\ inOnMessage
    /\ EnoughToLook => LengthOK /\ ~WholeFrame
    /\ inOnMessage' = FALSE
    /\ UNCHANGED <<stream, inputBuffer_, arrived, retrieved, next, dispatched, errorCode, connected>>

CodecNext ==
    \/ \E n \in Chunks : Receive(n)
    \/ InvalidLength
    \/ Dispatch
    \/ ParseFailed
    \/ Break

CodecSpec == CodecInit /\ [][CodecNext]_codecVars

FairCodecSpec == CodecSpec /\ WF_codecVars(CodecNext)

-----------------------------------------------------------------------------
(* Properties                                                              *)

\* The frames before the first damaged one.
Sound == {i \in 1 .. Len(stream) : \A j \in 1 .. i : stream[j].intact}

\* Between two reads, exactly the intact frames that have arrived in full are
\* dispatched, once each and in order, up to the first damaged one: how the
\* stream is cut into reads makes no difference, and what follows a damaged
\* frame is never taken for a message.
ChunkingDoesNotMatter ==
    ~inOnMessage =>
        LET due == {i \in Sound : End(stream)[i] <= arrived}
        IN  dispatched = [k \in 1 .. Cardinality(due) |-> k]

\* The buffer holds exactly the bytes that were read and not yet retrieved, in
\* order, through every growth and move of its vector and for reads that
\* overflow into readFd's second block.
BufferHoldsStream == Content(inputBuffer_) = [i \in 1 .. arrived - retrieved |-> retrieved + i]

\* The codec shuts a connection down for a damaged frame and for nothing else:
\* never when every frame is intact, and always once the first damaged one has
\* arrived in full, with at least the bytes of the smallest message.
ClosesForDamage ==
    /\ ~connected => Cardinality(Sound) < Len(stream)
    /\ ~inOnMessage =>
        \A i \in 1 .. Len(stream) :
            /\ \A j \in 1 .. i - 1 : stream[j].intact
            /\ ~stream[i].intact
            /\ arrived >= End(stream)[i]
            /\ arrived - End(stream)[i - 1] >= kMinMessageLen + kHeaderLen
            => ~connected

\* Everything the peer sends is read to the end, and onMessage returns.
StreamIsRead == <>[](~inOnMessage /\ arrived = End(stream)[Len(stream)])

=============================================================================
