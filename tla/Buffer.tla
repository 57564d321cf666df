------------------------------- MODULE Buffer -------------------------------
(***************************************************************************)
(* muduo::net::Buffer: a vector of bytes with a reader and a writer index. *)
(* A buffer is a record and an operation a function of it.  Indexes count  *)
(* from 0 as in the code; the sequence buffer_ counts from 1.  A byte is   *)
(* whatever the user of the module puts in; 0 is the byte resize() writes. *)
(***************************************************************************)
EXTENDS Naturals, Sequences

CONSTANTS
    kCheapPrepend,
    kInitialSize,
    kExtraSize      \* sizeof extrabuf in readFd

ASSUME BufferAssumption == {kCheapPrepend, kInitialSize, kExtraSize} \subseteq Nat

Zeros(n) == [i \in 1 .. n |-> 0]

\* A fresh Buffer.
NewBuffer ==
    [buffer_ |-> Zeros(kCheapPrepend + kInitialSize),
     readerIndex_ |-> kCheapPrepend, writerIndex_ |-> kCheapPrepend]

readableBytes(b) == b.writerIndex_ - b.readerIndex_
writableBytes(b) == Len(b.buffer_) - b.writerIndex_
prependableBytes(b) == b.readerIndex_

\* The readable bytes, from peek() to beginWrite().
Content(b) == SubSeq(b.buffer_, b.readerIndex_ + 1, b.writerIndex_)

\* std::copy(data, begin() + at), where data fits.
CopyTo(bytes, at, data) ==
    SubSeq(bytes, 1, at) \o data \o SubSeq(bytes, at + Len(data) + 1, Len(bytes))

-----------------------------------------------------------------------------
(* Taking bytes out                                                        *)

retrieveAll(b) == [b EXCEPT !.readerIndex_ = kCheapPrepend, !.writerIndex_ = kCheapPrepend]

retrieve(b, len) ==
    IF len < readableBytes(b)
    THEN [b EXCEPT !.readerIndex_ = @ + len]
    ELSE retrieveAll(b)

-----------------------------------------------------------------------------
(* Putting bytes in                                                        *)

\* Grow the vector, or move the readable bytes to the front.
makeSpace(b, len) ==
    IF writableBytes(b) + prependableBytes(b) < len + kCheapPrepend
    THEN [b EXCEPT !.buffer_ = @ \o Zeros(b.writerIndex_ + len - Len(@))]
    ELSE [buffer_ |-> CopyTo(b.buffer_, kCheapPrepend, Content(b)),
          readerIndex_ |-> kCheapPrepend, writerIndex_ |-> kCheapPrepend + readableBytes(b)]

ensureWritableBytes(b, len) == IF writableBytes(b) < len THEN makeSpace(b, len) ELSE b

\* beginWrite() and hasWritten(): bytes written in place.
Written(b, data) ==
    [b EXCEPT !.buffer_ = CopyTo(@, b.writerIndex_, data), !.writerIndex_ = @ + Len(data)]

append(b, data) == Written(ensureWritableBytes(b, Len(data)), data)

\* Requires Len(data) <= prependableBytes(b).
prepend(b, data) ==
    LET at == b.readerIndex_ - Len(data)
    IN  [b EXCEPT !.buffer_ = CopyTo(@, at, data), !.readerIndex_ = at]

\* Mutant of readFd: the writer index is not moved before the second block is appended.
readFdOverwrites(b, data) ==
    LET writable == writableBytes(b) IN
    IF Len(data) <= writable
    THEN Written(b, data)
    ELSE append([Written(b, SubSeq(data, 1, writable)) EXCEPT !.writerIndex_ = b.writerIndex_],
                SubSeq(data, writable + 1, Len(data)))

\* The most a readFd may read.
ReadLimit(b) == writableBytes(b) + kExtraSize

\* readv into the writable bytes and extrabuf, which is then appended.
readFd(b, data) ==
    LET writable == writableBytes(b) IN
    IF Len(data) <= writable
    THEN Written(b, data)
    ELSE append(Written(b, SubSeq(data, 1, writable)), SubSeq(data, writable + 1, Len(data)))

=============================================================================
