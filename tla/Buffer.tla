-------------------------------- MODULE Buffer --------------------------------
(***************************************************************************)
(* Buffer (src/include/Buffer.h, src/src/Buffer.cpp): a vector of bytes    *)
(* and two indices into it.  The operations are operators on a record,     *)
(* and the actions those that a connection performs on its buffers:        *)
(*   inputBuffer_    readFd() by handleRead(), retrieve by the user        *)
(*   outputBuffer_   append() by sendInLoop(), writeFd() and retrieve()    *)
(*                   by handleWrite()                                      *)
(* Cells outside the readable part keep whatever was written there last;   *)
(* those that resize() adds are 0.                                         *)
(***************************************************************************)
EXTENDS Naturals, Sequences

CONSTANTS
  Bytes,
  Zero,            \* the byte of a cell that was never written
  kCheapPrepend,   \* 8
  kInitialSize,    \* 1024
  ExtraSize,       \* sizeof(extrabuf): 65536
  Chunks,          \* the byte strings that are appended or arrive
  MaxReadable      \* bound of the model on the bytes a Buffer holds

ASSUME BufferAssumption ==
  /\ Zero \in Bytes
  /\ kCheapPrepend \in Nat
  /\ kInitialSize \in Nat
  /\ ExtraSize \in Nat
  /\ Chunks \subseteq Seq(Bytes)
  /\ MaxReadable \in Nat

VARIABLES buf,     \* the Buffer
          given,   \* what the last operation was asked to append, or what
                   \* the socket had for it
          taken,   \* what the last operation has returned to the user, or
                   \* what writeFd() has given to the socket
          peak     \* the largest number of readable bytes so far

vars == <<buf, given, taken, peak>>

Cells(n) == 0 .. n - 1

\* readerIndex_ and writerIndex_ delimit a part of the vector that leaves
\* kCheapPrepend cells free in front of it.
Well(b) ==
  /\ b = [buffer_ |-> b.buffer_, size |-> b.size,
          readerIndex_ |-> b.readerIndex_, writerIndex_ |-> b.writerIndex_]
  /\ b.size \in Nat
  /\ b.buffer_ \in [Cells(b.size) -> Bytes]
  /\ b.readerIndex_ \in kCheapPrepend .. b.writerIndex_
  /\ b.writerIndex_ \in kCheapPrepend .. b.size

TypeOK ==
  /\ Well(buf)
  /\ given \in Seq(Bytes)
  /\ taken \in Seq(Bytes)
  /\ peak \in Nat

-----------------------------------------------------------------------------
(***************************************************************************)
(* Buffer.h: the observers.                                                *)
(***************************************************************************)

ReadableBytes(b) == b.writerIndex_ - b.readerIndex_
WritableBytes(b) == b.size - b.writerIndex_
PrependableBytes(b) == b.readerIndex_

\* The readable part, from peek() to beginWrite().
Readable(b) ==
  [i \in 1 .. ReadableBytes(b) |-> b.buffer_[b.readerIndex_ + i - 1]]

(***************************************************************************)
(* Buffer.h: retrieve(), append() and what they call.                      *)
(***************************************************************************)

New == [buffer_ |-> [i \in Cells(kCheapPrepend + kInitialSize) |-> Zero],
        size |-> kCheapPrepend + kInitialSize,
        readerIndex_ |-> kCheapPrepend,
        writerIndex_ |-> kCheapPrepend]

RetrieveAll(b) == [buffer_ |-> b.buffer_, size |-> b.size,
                   readerIndex_ |-> kCheapPrepend,
                   writerIndex_ |-> kCheapPrepend]

Retrieve(b, len) ==
  IF len < ReadableBytes(b)
  THEN [b EXCEPT !.readerIndex_ = @ + len]
  ELSE RetrieveAll(b)

\* buffer_.resize(n): only ever called to grow.
Resize(b, n) ==
  [buffer_ |-> [i \in Cells(n) |-> IF i < b.size THEN b.buffer_[i] ELSE Zero],
   size |-> n,
   readerIndex_ |-> b.readerIndex_,
   writerIndex_ |-> b.writerIndex_]

\* std::copy() of the readable part to kCheapPrepend, front to back.
MoveToFront(b) ==
  [buffer_ |-> [i \in Cells(b.size) |->
                  IF i \in kCheapPrepend .. kCheapPrepend + ReadableBytes(b) - 1
                  THEN b.buffer_[b.readerIndex_ + (i - kCheapPrepend)]
                  ELSE b.buffer_[i]],
   size |-> b.size,
   readerIndex_ |-> kCheapPrepend,
   writerIndex_ |-> kCheapPrepend + ReadableBytes(b)]

\* Room for len is compared without the reserved cells.
MakeSpaceInReserve(b, len) ==
  IF WritableBytes(b) + PrependableBytes(b) < len
  THEN Resize(b, b.writerIndex_ + len)
  ELSE MoveToFront(b)

\* The vector grows although the cells in front of the data would do.
MakeSpaceByGrowing(b, len) == Resize(b, b.writerIndex_ + len)

MakeSpace(b, len) ==
  IF WritableBytes(b) + PrependableBytes(b) < len + kCheapPrepend
  THEN Resize(b, b.writerIndex_ + len)
  ELSE MoveToFront(b)

EnsureWritableBytes(b, len) ==
  IF WritableBytes(b) < len THEN MakeSpace(b, len) ELSE b

\* Bytes copied to beginWrite(), for which there is room.
Fill(b, data) ==
  [buffer_ |-> [i \in Cells(b.size) |->
                  IF i \in b.writerIndex_ .. b.writerIndex_ + Len(data) - 1
                  THEN data[i - b.writerIndex_ + 1]
                  ELSE b.buffer_[i]],
   size |-> b.size,
   readerIndex_ |-> b.readerIndex_,
   writerIndex_ |-> b.writerIndex_ + Len(data)]

AppendTo(b, data) == Fill(EnsureWritableBytes(b, Len(data)), data)

(***************************************************************************)
(* Buffer.cpp: readFd() with n > 0 bytes from readv(), which fills the     *)
(* writable part first and then extrabuf.                                  *)
(***************************************************************************)

\* extrabuf is offered only when the writable part is smaller.
RoomToRead(b) == IF WritableBytes(b) < ExtraSize
                 THEN WritableBytes(b) + ExtraSize
                 ELSE WritableBytes(b)

\* writerIndex_ is not set to the end of the vector before extrabuf is
\* appended.
ReadFdKeepsIndex(b, data) ==
  LET writable == WritableBytes(b) IN
  IF Len(data) <= writable
  THEN Fill(b, data)
  ELSE AppendTo([Fill(b, SubSeq(data, 1, writable))
                   EXCEPT !.writerIndex_ = b.writerIndex_],
                SubSeq(data, writable + 1, Len(data)))

ReadFd(b, data) ==
  LET writable == WritableBytes(b) IN
  IF Len(data) <= writable
  THEN Fill(b, data)
  ELSE AppendTo(Fill(b, SubSeq(data, 1, writable)),
               SubSeq(data, writable + 1, Len(data)))

-----------------------------------------------------------------------------
(***************************************************************************)
(* The connection and its user.                                            *)
(***************************************************************************)

Init ==
  /\ buf = New
  /\ given = <<>>
  /\ taken = <<>>
  /\ peak = 0

Record == peak' = IF ReadableBytes(buf') > peak THEN ReadableBytes(buf')
                  ELSE peak

\* append() by sendInLoop().
Put(data) ==
  /\ ReadableBytes(buf) + Len(data) <= MaxReadable
  /\ buf' = AppendTo(buf, data)
  /\ given' = data
  /\ taken' = <<>>
  /\ Record

\* readFd() by handleRead().  A read that fails or returns 0 changes nothing.
ReadFromSocket(data) ==
  /\ Len(data) <= RoomToRead(buf)
  /\ ReadableBytes(buf) + Len(data) <= MaxReadable
  /\ buf' = ReadFd(buf, data)
  /\ given' = data
  /\ taken' = <<>>
  /\ Record

\* retrieveAsString(n), for which the caller has to see to n <= readable; or
\* writeFd() of which the kernel accepts n bytes, and then retrieve(n).
Take(n) ==
  /\ n <= ReadableBytes(buf)
  /\ given' = <<>>
  /\ taken' = SubSeq(Readable(buf), 1, n)
  /\ buf' = Retrieve(buf, n)
  /\ UNCHANGED peak

Next ==
  \/ \E data \in Chunks : Put(data) \/ ReadFromSocket(data)
  \/ \E n \in 0 .. MaxReadable : Take(n)

Spec == Init /\ [][Next]_vars

-----------------------------------------------------------------------------
(***************************************************************************)
(* Properties.                                                             *)
(***************************************************************************)

\* Whatever makeSpace() and readFd() do to the vector and its indices, the
\* readable bytes are a queue.
Queue == INSTANCE ByteQueue WITH contents <- Readable(buf)

IsQueue == Queue!Spec

\* makeSpace() reuses the cells in front of the data: a Buffer through which
\* any number of bytes has passed is at most about twice as large as what it
\* held at its fullest.
CapacityBounded ==
  \/ buf.size = kCheapPrepend + kInitialSize
  \/ buf.size < kCheapPrepend + 2 * peak
=============================================================================
