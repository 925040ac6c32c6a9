---------------------------- MODULE BufferProofs ----------------------------
(***************************************************************************)
(* That a Buffer is a queue of bytes, for every size of its reserve, of    *)
(* its vector, of extrabuf and of the chunks.  Each operation has a lemma  *)
(* that says what becomes of the indices (Well), of the readable bytes and *)
(* of the size of the vector; the theorems put them together.              *)
(***************************************************************************)
EXTENDS Buffer, SequenceTheorems, TLAPS

\* The first n elements of a sequence, and the others.
LEMMA FrontOK ==
  ASSUME NEW S, NEW s \in Seq(S), NEW n \in Nat, n <= Len(s)
  PROVE  /\ SubSeq(s, 1, n) \in Seq(S)
         /\ Len(SubSeq(s, 1, n)) = n
         /\ \A i \in 1 .. n : SubSeq(s, 1, n)[i] = s[i]
<1>1. Len(s) \in Nat /\ \A i \in 1 .. Len(s) : s[i] \in S
  BY LenProperties
<1>2. \A i \in 1 .. n : s[i] \in S
  BY <1>1
<1>3. /\ SubSeq(s, 1, n) \in Seq(S)
      /\ Len(SubSeq(s, 1, n)) = IF 1 <= n THEN n - 1 + 1 ELSE 0
      /\ \A i \in 1 .. n - 1 + 1 : SubSeq(s, 1, n)[i] = s[1 + i - 1]
  BY <1>2, SubSeqProperties
<1> QED  BY <1>3

\* The first n bytes and the rest are the whole.
LEMMA SplitOK ==
  ASSUME NEW S, NEW s \in Seq(S), NEW n \in Nat, n <= Len(s)
  PROVE  /\ SubSeq(s, 1, n) \in Seq(S)
         /\ Len(SubSeq(s, 1, n)) = n
         /\ SubSeq(s, n + 1, Len(s)) \in Seq(S)
         /\ Len(SubSeq(s, n + 1, Len(s))) = Len(s) - n
         /\ SubSeq(s, 1, n) \o SubSeq(s, n + 1, Len(s)) = s
<1> DEFINE front == SubSeq(s, 1, n)
           rest == SubSeq(s, n + 1, Len(s))
<1>1. PICK l \in Nat : l = Len(s)
  BY LenProperties
<1>2. /\ n <= l
      /\ \A i \in n + 1 .. l : s[i] \in S
  BY <1>1, LenProperties
<1>3. /\ front \in Seq(S) /\ Len(front) = n
      /\ \A i \in 1 .. n : front[i] = s[i]
  BY FrontOK
<1>4. /\ rest \in Seq(S) /\ Len(rest) = l - n
      /\ \A i \in 1 .. l - n : rest[i] = s[n + i]
  <2> DEFINE t == SubSeq(s, n + 1, l)
  <2>1. rest = t
    BY <1>1
  <2>2. /\ t \in Seq(S)
        /\ Len(t) = IF n + 1 <= l THEN l - (n + 1) + 1 ELSE 0
        /\ \A i \in 1 .. l - (n + 1) + 1 : t[i] = s[n + 1 + i - 1]
    BY <1>2, SubSeqProperties
  <2> HIDE DEF t, rest
  <2> QED  BY <1>2, <2>1, <2>2
<1> HIDE DEF front, rest
<1>5. /\ front \o rest \in Seq(S)
      /\ Len(front \o rest) = l
      /\ \A i \in 1 .. l : (front \o rest)[i] = s[i]
  <2>1. /\ front \o rest \in Seq(S)
        /\ Len(front \o rest) = Len(front) + Len(rest)
        /\ \A i \in 1 .. Len(front) + Len(rest) :
             (front \o rest)[i] = IF i <= Len(front) THEN front[i]
                                  ELSE rest[i - Len(front)]
    BY <1>3, <1>4, ConcatProperties
  <2>2. Len(front) + Len(rest) = l
    BY <1>2, <1>3, <1>4
  <2>3. ASSUME NEW i \in 1 .. l
        PROVE  (front \o rest)[i] = s[i]
    <3>1. CASE i <= n
      BY <1>3, <2>1, <2>2, <3>1
    <3>2. CASE ~(i <= n)
      <4>1. i - n \in 1 .. l - n /\ n + (i - n) = i
        BY <3>2
      <4> QED  BY <1>3, <1>4, <2>1, <2>2, <3>2, <4>1
    <3> QED  BY <3>1, <3>2
  <2> QED  BY <2>1, <2>2, <2>3
<1>6. front \o rest = s
  BY <1>1, <1>5, SeqEqual
<1> QED  BY <1>1, <1>3, <1>4, <1>6 DEF front, rest

\* The readable part is a sequence of bytes, read off the vector.
LEMMA ReadableOK ==
  ASSUME NEW b, Well(b)
  PROVE  /\ Readable(b) \in Seq(Bytes)
         /\ Len(Readable(b)) = b.writerIndex_ - b.readerIndex_
         /\ Len(Readable(b)) \in Nat
         /\ \A i \in 1 .. Len(Readable(b)) :
              Readable(b)[i] = b.buffer_[b.readerIndex_ + i - 1]
<1> DEFINE n == b.writerIndex_ - b.readerIndex_
<1>1. /\ n \in Nat
      /\ kCheapPrepend \in Nat
      /\ b.readerIndex_ \in Nat
      /\ \A i \in 1 .. n : b.readerIndex_ + i - 1 \in Cells(b.size)
  BY BufferAssumption DEF Well, Cells
<1>2. \A i \in 1 .. n : b.buffer_[b.readerIndex_ + i - 1] \in Bytes
  BY <1>1 DEF Well
<1> QED
  BY <1>1, <1>2, IsASeq DEF Readable, ReadableBytes

\* The constructor.
LEMMA NewOK == Well(New) /\ Readable(New) = <<>>
<1>1. Well(New)
  BY BufferAssumption DEF Well, New, Cells
<1>2. Len(Readable(New)) = 0
  BY <1>1, ReadableOK, BufferAssumption DEF New
<1> QED  BY <1>1, <1>2, ReadableOK, EmptySeq

\* retrieve() drops the first len bytes, or all of them.
LEMMA RetrieveOK ==
  ASSUME NEW b, Well(b), NEW len \in Nat, len <= ReadableBytes(b)
  PROVE  /\ Well(Retrieve(b, len))
         /\ Readable(Retrieve(b, len))
              = SubSeq(Readable(b), len + 1, Len(Readable(b)))
         /\ Retrieve(b, len).size = b.size
<1> DEFINE r == Retrieve(b, len)
           s == Readable(b)
<1>1. /\ b.readerIndex_ \in Nat /\ b.writerIndex_ \in Nat /\ b.size \in Nat
      /\ kCheapPrepend \in Nat
  BY BufferAssumption DEF Well
<1>2. Well(r) /\ r.size = b.size
  BY <1>1 DEF Well, Retrieve, RetrieveAll, ReadableBytes
<1>3. /\ Len(Readable(r)) = Len(s) - len
      /\ \A i \in 1 .. Len(s) - len : Readable(r)[i] = s[len + i]
  <2>1. CASE len < ReadableBytes(b)
    <3>1. /\ r.readerIndex_ = b.readerIndex_ + len
          /\ r.writerIndex_ = b.writerIndex_
          /\ r.buffer_ = b.buffer_
      BY <2>1, <1>1 DEF Retrieve, Well
    <3>2. /\ Len(s) = b.writerIndex_ - b.readerIndex_
          /\ \A i \in 1 .. Len(s) : s[i] = b.buffer_[b.readerIndex_ + i - 1]
      BY ReadableOK
    <3> HIDE DEF r, s
    <3>3. /\ Len(Readable(r)) = r.writerIndex_ - r.readerIndex_
          /\ \A i \in 1 .. Len(Readable(r)) :
               Readable(r)[i] = r.buffer_[r.readerIndex_ + i - 1]
      BY <1>2, ReadableOK
    <3>4. ASSUME NEW i \in 1 .. Len(s) - len
          PROVE  Readable(r)[i] = s[len + i]
      <4>1. i \in 1 .. Len(Readable(r)) /\ len + i \in 1 .. Len(s)
        <5>1. PICK n \in Int : n = Len(s) BY <3>2, <1>1
        <5>2. Len(Readable(r)) = n - len BY <3>1, <3>2, <3>3, <1>1, <5>1
        <5>3. i \in 1 .. n - len BY <5>1
        <5>4. len + i \in 1 .. n BY <5>3
        <5> QED BY <5>1, <5>2, <5>3, <5>4
      <4>2. r.readerIndex_ + i - 1 = b.readerIndex_ + (len + i) - 1
        BY <3>1, <1>1, <3>2
      <4> QED  BY <3>1, <3>2, <3>3, <4>1, <4>2
    <3> QED  BY <3>1, <3>2, <3>3, <3>4, <1>1
  <2>2. CASE ~(len < ReadableBytes(b))
    <3>1. r.readerIndex_ = kCheapPrepend /\ r.writerIndex_ = kCheapPrepend
      BY <2>2, <1>1 DEF Retrieve, RetrieveAll, Well
    <3>2. Len(s) = len
      BY <2>2, <1>1, ReadableOK DEF ReadableBytes
    <3> QED  BY <3>1, <3>2, <1>1, <1>2, ReadableOK
  <2> QED  BY <2>1, <2>2
<1>4. /\ Readable(r) \in Seq(Bytes)
      /\ s \in Seq(Bytes)
      /\ SubSeq(s, len + 1, Len(s)) \in Seq(Bytes)
      /\ Len(SubSeq(s, len + 1, Len(s))) = Len(s) - len
      /\ \A i \in 1 .. Len(s) - len : SubSeq(s, len + 1, Len(s))[i] = s[len + i]
  <2>1. s \in Seq(Bytes) /\ Len(s) \in Nat /\ len <= Len(s)
    BY ReadableOK DEF ReadableBytes
  <2> HIDE DEF s
  <2> QED  BY <2>1, <1>2, ReadableOK, SubSeqProperties
<1> HIDE DEF r, s
<1>5. Readable(r) = SubSeq(s, len + 1, Len(s))
  BY <1>3, <1>4, SeqEqual
<1> QED  BY <1>2, <1>5 DEF r, s

\* buffer_.resize() changes no byte and no index.
LEMMA ResizeOK ==
  ASSUME NEW b, Well(b), NEW n \in Nat, b.size <= n
  PROVE  /\ Well(Resize(b, n))
         /\ Readable(Resize(b, n)) = Readable(b)
         /\ WritableBytes(Resize(b, n)) = n - b.writerIndex_
         /\ Resize(b, n).size = n
<1> DEFINE r == Resize(b, n)
<1>1. /\ b.readerIndex_ \in Nat /\ b.writerIndex_ \in Nat /\ b.size \in Nat
      /\ kCheapPrepend \in Nat
  BY BufferAssumption DEF Well
<1>2. /\ r = [buffer_ |-> r.buffer_, size |-> n,
              readerIndex_ |-> b.readerIndex_, writerIndex_ |-> b.writerIndex_]
      /\ r.buffer_ = [i \in Cells(n) |-> IF i < b.size THEN b.buffer_[i] ELSE Zero]
  BY DEF Well, Resize
<1>3. Well(r)
  <2>1. \A i \in Cells(n) : (IF i < b.size THEN b.buffer_[i] ELSE Zero) \in Bytes
    BY <1>1, BufferAssumption DEF Well, Cells
  <2>2. r.buffer_ \in [Cells(n) -> Bytes]
    BY <1>2, <2>1
  <2>3. b.readerIndex_ \in kCheapPrepend .. b.writerIndex_
        /\ b.writerIndex_ \in kCheapPrepend .. n
    BY <1>1 DEF Well
  <2> HIDE DEF r
  <2> QED  BY <1>2, <2>2, <2>3 DEF Well
<1> HIDE DEF r
<1>4. /\ Len(Readable(r)) = Len(Readable(b))
      /\ Len(Readable(b)) = b.writerIndex_ - b.readerIndex_
  BY <1>2, <1>3, ReadableOK
<1>5. ASSUME NEW i \in 1 .. Len(Readable(b))
      PROVE  Readable(r)[i] = Readable(b)[i]
  <2>1. /\ b.readerIndex_ + i - 1 \in Cells(n)
        /\ b.readerIndex_ + i - 1 < b.size
    BY <1>1, <1>4 DEF Well, Cells
  <2>2. Readable(r)[i] = r.buffer_[b.readerIndex_ + i - 1]
    <3>1. r.readerIndex_ = b.readerIndex_
      BY <1>2
    <3>2. Readable(r)[i] = r.buffer_[r.readerIndex_ + i - 1]
      BY <1>3, <1>4, ReadableOK
    <3> QED  BY <3>1, <3>2
  <2>3. Readable(b)[i] = b.buffer_[b.readerIndex_ + i - 1]
    BY ReadableOK
  <2> QED  BY <1>2, <2>1, <2>2, <2>3
<1>6. Readable(r) = Readable(b)
  <2>1. Readable(r) \in Seq(Bytes) /\ Readable(b) \in Seq(Bytes)
    BY <1>3, ReadableOK
  <2> QED  BY <1>4, <1>5, <2>1, SeqEqual
<1> QED  BY <1>2, <1>3, <1>6 DEF r, WritableBytes

\* std::copy() to the front keeps the readable bytes: each cell is read
\* before anything is written over it.
LEMMA MoveToFrontOK ==
  ASSUME NEW b, Well(b)
  PROVE  /\ Well(MoveToFront(b))
         /\ Readable(MoveToFront(b)) = Readable(b)
         /\ MoveToFront(b).size = b.size
         /\ WritableBytes(MoveToFront(b))
              = WritableBytes(b) + PrependableBytes(b) - kCheapPrepend
<1> DEFINE r == MoveToFront(b)
           n == b.writerIndex_ - b.readerIndex_
<1>1. /\ b.readerIndex_ \in Nat /\ b.writerIndex_ \in Nat /\ b.size \in Nat
      /\ kCheapPrepend \in Nat /\ n \in Nat
      /\ kCheapPrepend <= b.readerIndex_ /\ b.writerIndex_ <= b.size
  BY BufferAssumption DEF Well
<1>2. /\ r = [buffer_ |-> r.buffer_, size |-> b.size,
              readerIndex_ |-> kCheapPrepend, writerIndex_ |-> kCheapPrepend + n]
      /\ r.buffer_ = [i \in Cells(b.size) |->
                        IF i \in kCheapPrepend .. kCheapPrepend + n - 1
                        THEN b.buffer_[b.readerIndex_ + (i - kCheapPrepend)]
                        ELSE b.buffer_[i]]
  BY DEF Well, MoveToFront, ReadableBytes
<1>3. Well(r)
  <2>1. \A i \in Cells(b.size) :
          (IF i \in kCheapPrepend .. kCheapPrepend + n - 1
           THEN b.buffer_[b.readerIndex_ + (i - kCheapPrepend)]
           ELSE b.buffer_[i]) \in Bytes
    <3>1. \A i \in kCheapPrepend .. kCheapPrepend + n - 1 :
            b.readerIndex_ + (i - kCheapPrepend) \in Cells(b.size)
      BY <1>1 DEF Cells
    <3> HIDE DEF n
    <3> QED  BY <3>1 DEF Well
  <2>2. r.buffer_ \in [Cells(b.size) -> Bytes]
    BY <1>2, <2>1
  <2>3. kCheapPrepend \in kCheapPrepend .. kCheapPrepend + n
        /\ kCheapPrepend + n \in kCheapPrepend .. b.size
    BY <1>1
  <2> HIDE DEF r, n
  <2> QED  BY <1>1, <1>2, <2>2, <2>3 DEF Well
<1>4. Len(Readable(r)) = n /\ Len(Readable(b)) = n
  BY <1>1, <1>2, <1>3, ReadableOK
<1> HIDE DEF r
<1>5. ASSUME NEW i \in 1 .. n
      PROVE  Readable(r)[i] = Readable(b)[i]
  <2>1. Readable(r)[i] = r.buffer_[kCheapPrepend + i - 1]
    BY <1>2, <1>3, <1>4, ReadableOK
  <2>2. kCheapPrepend + i - 1 \in Cells(b.size)
        /\ kCheapPrepend + i - 1 \in kCheapPrepend .. kCheapPrepend + n - 1
        /\ b.readerIndex_ + ((kCheapPrepend + i - 1) - kCheapPrepend)
             = b.readerIndex_ + i - 1
    BY <1>1 DEF Cells
  <2>3. r.buffer_[kCheapPrepend + i - 1] = b.buffer_[b.readerIndex_ + i - 1]
    BY <1>2, <2>2
  <2> QED  BY <2>1, <2>3, <1>4, ReadableOK
<1>6. Readable(r) \in Seq(Bytes) /\ Readable(b) \in Seq(Bytes)
  BY <1>3, ReadableOK
<1>7. Readable(r) = Readable(b)
  BY <1>4, <1>5, <1>6, SeqEqual
<1> QED
  BY <1>1, <1>2, <1>3, <1>7 DEF r, WritableBytes, PrependableBytes

\* ensureWritableBytes() makes room for len bytes.  It resizes only when the
\* cells in front of the data would not do, so that the vector stays in
\* proportion to what it is asked to hold.
LEMMA EnsureOK ==
  ASSUME NEW b, Well(b), NEW len \in Nat
  PROVE  LET e == EnsureWritableBytes(b, len)
         IN  /\ Well(e)
             /\ Readable(e) = Readable(b)
             /\ len <= WritableBytes(e)
             /\ \/ e.size = b.size
                \/ e.size < kCheapPrepend + ReadableBytes(b) + len + len
<1>1. /\ b.readerIndex_ \in Nat /\ b.writerIndex_ \in Nat /\ b.size \in Nat
      /\ kCheapPrepend \in Nat
      /\ kCheapPrepend <= b.readerIndex_ /\ b.readerIndex_ <= b.writerIndex_
      /\ b.writerIndex_ <= b.size
  BY BufferAssumption DEF Well
<1>2. CASE len <= WritableBytes(b)
  BY <1>1, <1>2 DEF EnsureWritableBytes, WritableBytes
<1>3. CASE /\ WritableBytes(b) < len
           /\ WritableBytes(b) + PrependableBytes(b) < len + kCheapPrepend
  <2>1. EnsureWritableBytes(b, len) = Resize(b, b.writerIndex_ + len)
    BY <1>1, <1>3 DEF EnsureWritableBytes, MakeSpace
  <2>2. b.writerIndex_ + len \in Nat /\ b.size <= b.writerIndex_ + len
    BY <1>1, <1>3 DEF WritableBytes
  <2>3. b.writerIndex_ + len < kCheapPrepend + ReadableBytes(b) + len + len
    BY <1>1, <1>3 DEF WritableBytes, PrependableBytes, ReadableBytes
  <2>4. (b.writerIndex_ + len) - b.writerIndex_ = len
    BY <1>1
  <2> QED  BY <2>1, <2>2, <2>3, <2>4, ResizeOK
<1>4. CASE /\ WritableBytes(b) < len
           /\ ~(WritableBytes(b) + PrependableBytes(b) < len + kCheapPrepend)
  <2>1. EnsureWritableBytes(b, len) = MoveToFront(b)
    BY <1>1, <1>4 DEF EnsureWritableBytes, MakeSpace
  <2>2. len <= WritableBytes(b) + PrependableBytes(b) - kCheapPrepend
    BY <1>1, <1>4 DEF WritableBytes, PrependableBytes
  <2> QED  BY <2>1, <2>2, MoveToFrontOK
<1> QED
  BY <1>1, <1>2, <1>3, <1>4 DEF WritableBytes

\* Bytes copied behind the readable ones join them.
LEMMA FillOK ==
  ASSUME NEW b, Well(b), NEW data \in Seq(Bytes), Len(data) <= WritableBytes(b)
  PROVE  /\ Well(Fill(b, data))
         /\ Readable(Fill(b, data)) = Readable(b) \o data
         /\ Fill(b, data).size = b.size
<1> DEFINE r == Fill(b, data)
<1>1. PICK k \in Nat, f \in Nat, w \in Nat, n \in Nat, l \in Nat,
           z \in Nat :
        /\ k = kCheapPrepend /\ f = b.readerIndex_ /\ w = b.writerIndex_
        /\ n = ReadableBytes(b) /\ l = Len(data) /\ z = b.size
        /\ k <= f /\ w = f + n /\ w + l <= z
  <2>1. Len(data) \in Nat
    BY LenProperties
  <2>2. /\ b.readerIndex_ \in Nat /\ b.writerIndex_ \in Nat /\ b.size \in Nat
        /\ kCheapPrepend \in Nat
        /\ kCheapPrepend <= b.readerIndex_
        /\ b.readerIndex_ <= b.writerIndex_
        /\ b.writerIndex_ + Len(data) <= b.size
    BY <2>1, BufferAssumption DEF Well, WritableBytes
  <2>3. ReadableBytes(b) \in Nat
        /\ b.writerIndex_ = b.readerIndex_ + ReadableBytes(b)
    BY <2>2 DEF ReadableBytes
  <2> QED  BY <2>1, <2>2, <2>3
<1>a. k <= f /\ w = f + n /\ w + l <= z
  BY <1>1
<1>2. /\ r = [buffer_ |-> r.buffer_, size |-> z,
              readerIndex_ |-> f, writerIndex_ |-> w + l]
      /\ r.buffer_ = [i \in Cells(z) |->
                        IF i \in w .. w + l - 1 THEN data[i - w + 1]
                        ELSE b.buffer_[i]]
      /\ r.size = z /\ r.readerIndex_ = f
      /\ r.writerIndex_ = w + l
  BY <1>1 DEF Fill
<1>3. Well(r)
  <2>1. ASSUME NEW i \in Cells(z)
        PROVE  (IF i \in w .. w + l - 1 THEN data[i - w + 1]
                ELSE b.buffer_[i]) \in Bytes
    <3>1. CASE i \in w .. w + l - 1
      <4>1. i - w + 1 \in 1 .. l
        BY <3>1
      <4>2. data[i - w + 1] \in Bytes
        <5>1. data \in [1 .. l -> Bytes]
          BY <1>1, LenProperties
        <5> QED  BY <4>1, <5>1
      <4> QED  BY <3>1, <4>2
    <3>2. CASE i \notin w .. w + l - 1
      BY <1>1, <3>2 DEF Well
    <3> QED  BY <3>1, <3>2
  <2>2. r.buffer_ \in [Cells(z) -> Bytes]
    BY <1>2, <2>1
  <2>3. /\ f \in k .. w + l
        /\ w + l \in k .. z
    BY <1>a
  <2> HIDE DEF r
  <2>4. k = kCheapPrepend
    BY <1>1
  <2> QED  BY <2>4, <1>2, <2>2, <2>3 DEF Well
<1>4. /\ Readable(b) \in Seq(Bytes) /\ Len(Readable(b)) = n
      /\ \A i \in 1 .. n : Readable(b)[i] = b.buffer_[f + i - 1]
  BY <1>1, ReadableOK DEF ReadableBytes
<1> HIDE DEF r
<1>5. /\ Readable(r) \in Seq(Bytes) /\ Len(Readable(r)) = n + l
      /\ \A i \in 1 .. n + l :
           Readable(r)[i] = r.buffer_[f + i - 1]
  <2>1. r.writerIndex_ - r.readerIndex_ = n + l
    BY <1>a, <1>2
  <2>2. /\ Readable(r) \in Seq(Bytes)
        /\ Len(Readable(r)) = n + l
        /\ \A i \in 1 .. n + l :
             Readable(r)[i] = r.buffer_[r.readerIndex_ + i - 1]
    BY <1>3, <2>1, ReadableOK
  <2>3. r.readerIndex_ = f
    BY <1>2
  <2> QED  BY <2>2, <2>3
<1>6. /\ Readable(b) \o data \in Seq(Bytes)
      /\ Len(Readable(b) \o data) = n + l
      /\ \A i \in 1 .. n + l :
           (Readable(b) \o data)[i] = IF i <= n THEN Readable(b)[i]
                                      ELSE data[i - n]
  <2>1. l = Len(data)
    BY <1>1
  <2> QED  BY <2>1, <1>4, ConcatProperties
<1>7. ASSUME NEW i \in 1 .. n + l
      PROVE  Readable(r)[i] = (Readable(b) \o data)[i]
  <2>1. f + i - 1 \in Cells(z)
    BY <1>a DEF Cells
  <2>2. CASE i <= n
    <3>1. f + i - 1 \notin w .. w + l - 1 /\ i \in 1 .. n
      BY <1>a, <2>2
    <3>2. r.buffer_[f + i - 1] = b.buffer_[f + i - 1]
      BY <1>2, <2>1, <3>1
    <3> QED  BY <1>4, <1>5, <1>6, <2>2, <3>1, <3>2
  <2>3. CASE ~(i <= n)
    <3>1. /\ f + i - 1 \in w .. w + l - 1
          /\ (f + i - 1) - w + 1 = i - n
      BY <1>a, <2>3
    <3>2. r.buffer_[f + i - 1] = data[i - n]
      BY <1>2, <2>1, <3>1
    <3> QED  BY <1>5, <1>6, <2>3, <3>2
  <2> QED  BY <2>2, <2>3
<1>8. Readable(r) = Readable(b) \o data
  BY <1>5, <1>6, <1>7, SeqEqual
<1> QED  BY <1>1, <1>2, <1>3, <1>8 DEF r

\* What append() and readFd() have in common: the bytes join the readable
\* ones, and the vector grows at most to twice what it then holds.
Appended(b, r, data) ==
  /\ Well(r)
  /\ Readable(r) = Readable(b) \o data
  /\ ReadableBytes(r) = ReadableBytes(b) + Len(data)
  /\ \/ r.size = b.size
     \/ r.size < kCheapPrepend + ReadableBytes(r) + ReadableBytes(r)

\* append(), whether makeSpace() grows or moves.
LEMMA AppendOK ==
  ASSUME NEW b, Well(b), NEW data \in Seq(Bytes)
  PROVE  Appended(b, AppendTo(b, data), data)
<1> DEFINE e == EnsureWritableBytes(b, Len(data))
           r == AppendTo(b, data)
<1>1. Len(data) \in Nat
  BY LenProperties
<1>2. /\ Well(e) /\ Readable(e) = Readable(b) /\ Len(data) <= WritableBytes(e)
      /\ \/ e.size = b.size
         \/ e.size < kCheapPrepend + ReadableBytes(b) + Len(data) + Len(data)
  BY <1>1, EnsureOK
<1> HIDE DEF e
<1>3. /\ Well(r) /\ Readable(r) = Readable(b) \o data /\ r.size = e.size
  BY <1>2, FillOK DEF AppendTo, e
<1> HIDE DEF r
<1>4. /\ ReadableBytes(r) = ReadableBytes(b) + Len(data)
      /\ ReadableBytes(b) \in Nat
  <2>1. /\ Len(Readable(r)) = ReadableBytes(r)
        /\ Len(Readable(b)) = ReadableBytes(b)
        /\ Readable(b) \in Seq(Bytes)
        /\ ReadableBytes(b) \in Nat
    BY <1>3, ReadableOK DEF ReadableBytes
  <2>2. Len(Readable(b) \o data) = Len(Readable(b)) + Len(data)
    BY <2>1, ConcatProperties
  <2> QED  BY <1>3, <2>1, <2>2
<1>5. r.size = b.size \/ r.size < kCheapPrepend + ReadableBytes(r) + ReadableBytes(r)
  <2>1. /\ e.size \in Nat /\ b.size \in Nat /\ kCheapPrepend \in Nat
    BY <1>2, BufferAssumption DEF Well
  <2> QED  BY <1>1, <1>2, <1>3, <1>4, <2>1
<1> QED  BY <1>3, <1>4, <1>5 DEF Appended, r

\* readFd(): what fits is read into the vector, the rest is appended.
LEMMA ReadFdOK ==
  ASSUME NEW b, Well(b), NEW data \in Seq(Bytes)
  PROVE  Appended(b, ReadFd(b, data), data)
<1> DEFINE n == WritableBytes(b)
           front == SubSeq(data, 1, n)
           rest == SubSeq(data, n + 1, Len(data))
<1>1. n \in Nat /\ Len(data) \in Nat
  BY LenProperties, BufferAssumption DEF WritableBytes, Well
<1>2. ReadableBytes(b) \in Nat /\ Len(Readable(b)) = ReadableBytes(b)
      /\ Readable(b) \in Seq(Bytes)
  BY ReadableOK DEF ReadableBytes
<1>3. CASE Len(data) <= n
  <2> DEFINE r == Fill(b, data)
  <2>1. Well(r) /\ Readable(r) = Readable(b) \o data /\ r.size = b.size
    BY <1>3, FillOK
  <2>2. Len(Readable(r)) = ReadableBytes(r)
    BY <2>1, ReadableOK DEF ReadableBytes
  <2>3. Len(Readable(b) \o data) = ReadableBytes(b) + Len(data)
    BY <1>2, ConcatProperties
  <2>4. ReadFd(b, data) = r
    BY <1>3 DEF ReadFd
  <2> HIDE DEF r
  <2> QED  BY <2>1, <2>2, <2>3, <2>4 DEF Appended
<1>4. CASE n < Len(data)
  <2> HIDE DEF n
  <2>1. /\ front \in Seq(Bytes) /\ Len(front) = n
        /\ rest \in Seq(Bytes) /\ Len(rest) = Len(data) - n
        /\ front \o rest = data
    <3>1. n \in Nat /\ n <= Len(data)
      BY <1>1, <1>4
    <3> QED  BY <3>1, SplitOK
  <2> DEFINE m == Fill(b, front)
             r == AppendTo(m, rest)
  <2> HIDE DEF front, rest
  <2>2. Well(m) /\ Readable(m) = Readable(b) \o front /\ m.size = b.size
    BY <1>1, <2>1, FillOK DEF n
  <2>3. ReadableBytes(m) = ReadableBytes(b) + n
    <3>1. Len(Readable(m)) = ReadableBytes(m)
      BY <2>2, ReadableOK DEF ReadableBytes
    <3>2. Len(Readable(b) \o front) = ReadableBytes(b) + n
      BY <1>2, <2>1, ConcatProperties
    <3> QED  BY <2>2, <3>1, <3>2
  <2>4. Appended(m, r, rest)
    BY <2>1, <2>2, AppendOK
  <2>5. ReadFd(b, data) = r
    BY <1>1, <1>4 DEF ReadFd, front, rest, n
  <2> HIDE DEF m, r
  <2>6. Readable(r) = Readable(b) \o data
    <3>1. Readable(r) = (Readable(b) \o front) \o rest
      BY <2>2, <2>4 DEF Appended
    <3>2. (Readable(b) \o front) \o rest = Readable(b) \o (front \o rest)
      <4>1. Readable(b) \in Seq(Bytes) /\ front \in Seq(Bytes) /\ rest \in Seq(Bytes)
        BY <1>2, <2>1
      <4> QED  BY SMTT(30), <4>1, ConcatAssociative
    <3> QED  BY <2>1, <3>1, <3>2
  <2>7. ReadableBytes(r) = ReadableBytes(b) + Len(data)
    <3>1. ReadableBytes(r) = ReadableBytes(m) + Len(rest)
      BY <2>4 DEF Appended
    <3> QED  BY <1>1, <1>2, <2>1, <2>3, <3>1
  <2> QED  BY <2>2, <2>4, <2>5, <2>6, <2>7 DEF Appended
<1> QED  BY <1>1, <1>3, <1>4

-----------------------------------------------------------------------------
(***************************************************************************)
(* The specification.                                                      *)
(***************************************************************************)

\* What each action does, in terms of Readable and Appended.
Joins(data) ==
  /\ Appended(buf, buf', data)
  /\ given' = data
  /\ taken' = <<>>
  /\ Record

\* append() and readFd() add behind what is readable.
LEMMA PutJoins ==
  ASSUME TypeOK, NEW data \in Chunks, Put(data) \/ ReadFromSocket(data)
  PROVE  Joins(data)
<1>1. data \in Seq(Bytes)
  BY BufferAssumption
<1> QED
  BY <1>1, AppendOK, ReadFdOK DEF TypeOK, Put, ReadFromSocket, Joins

\* retrieveAsString() takes from the front.
LEMMA TakeRetrieves ==
  ASSUME TypeOK, NEW n \in Nat, Take(n)
  PROVE  /\ Well(buf')
         /\ n \in 0 .. Len(Readable(buf))
         /\ Readable(buf') = SubSeq(Readable(buf), n + 1, Len(Readable(buf)))
         /\ taken' = SubSeq(Readable(buf), 1, n)
         /\ given' = <<>>
         /\ buf'.size = buf.size
<1>1. ReadableBytes(buf) = Len(Readable(buf))
  BY ReadableOK DEF TypeOK, ReadableBytes
<1> QED  BY <1>1, RetrieveOK, ReadableOK DEF TypeOK, Take

\* A new Buffer.
LEMMA InitOK == Init => TypeOK
<1>1. <<>> \in Seq(Bytes)
  BY EmptySeq
<1> QED  BY <1>1, NewOK DEF Init, TypeOK

\* Every operation leaves a well-formed Buffer.
LEMMA StepOK == TypeOK /\ [Next]_vars => TypeOK'
<1> SUFFICES ASSUME TypeOK, [Next]_vars
             PROVE  TypeOK'
  OBVIOUS
<1>0. <<>> \in Seq(Bytes)
  BY EmptySeq
<1>1. ASSUME NEW data \in Chunks, Put(data) \/ ReadFromSocket(data)
      PROVE  TypeOK'
  <2>1. Joins(data)
    BY <1>1, PutJoins
  <2>2. ReadableBytes(buf') \in Nat
    BY <2>1, ReadableOK DEF Joins, Appended, ReadableBytes
  <2>3. peak' \in Nat
    BY <2>1, <2>2 DEF Joins, Record, TypeOK
  <2> QED
    BY <1>0, <2>1, <2>3, BufferAssumption DEF Joins, Appended, TypeOK
<1>2. ASSUME NEW n \in 0 .. MaxReadable, Take(n)
      PROVE  TypeOK'
  <2>1. n \in Nat
    BY BufferAssumption
  <2>2. Well(buf') /\ n <= Len(Readable(buf))
        /\ taken' = SubSeq(Readable(buf), 1, n) /\ given' = <<>>
    BY <1>2, <2>1, TakeRetrieves
  <2>3. taken' \in Seq(Bytes)
    BY <2>1, <2>2, ReadableOK, FrontOK DEF TypeOK
  <2> QED  BY <1>0, <1>2, <2>2, <2>3 DEF Take, TypeOK
<1>3. CASE UNCHANGED vars
  BY <1>3 DEF vars, TypeOK
<1> QED  BY <1>1, <1>2, <1>3 DEF Next

\* The indices stay in order and inside the vector, with the reserve in front:
\* makeSpace() and readFd() neither read nor write outside of buffer_.
THEOREM TypeCorrect == Spec => []TypeOK
  BY InitOK, StepOK, PTL DEF Spec

\* makeSpace(), extrabuf and the indices implement a queue of bytes.
THEOREM ImplementsQueue == Spec => IsQueue
<1>1. Init => Queue!Init
  BY NewOK DEF Init, Queue!Init
<1>2. TypeOK /\ [Next]_vars => [Queue!Next]_(Queue!queueVars)
  <2> SUFFICES ASSUME TypeOK, [Next]_vars
               PROVE  Queue!Next \/ UNCHANGED Queue!queueVars
    OBVIOUS
  <2>1. ASSUME NEW data \in Chunks, Put(data) \/ ReadFromSocket(data)
        PROVE  Queue!Put(data)
    BY <2>1, PutJoins DEF Joins, Appended, Queue!Put
  <2>2. ASSUME NEW n \in 0 .. MaxReadable, Take(n)
        PROVE  n \in 0 .. Len(Readable(buf)) /\ Queue!Take(n)
    <3>1. n \in Nat
      BY BufferAssumption
    <3> QED
      BY <2>2, <3>1, TakeRetrieves DEF Queue!Take, Queue!First, Queue!Rest
  <2>3. CASE UNCHANGED vars
    BY <2>3 DEF vars, Queue!queueVars
  <2> QED  BY <2>1, <2>2, <2>3 DEF Next, Queue!Next
<1> QED  BY <1>1, <1>2, TypeCorrect, PTL DEF Spec, IsQueue, Queue!Spec

\* makeSpace() grows the vector only when the cells in front do not do: it
\* stays below twice what the Buffer has held, whatever has passed through.
THEOREM CapacityCorrect == Spec => []CapacityBounded
<1>1. Init => CapacityBounded
  BY DEF Init, New, CapacityBounded
<1>2. TypeOK /\ CapacityBounded /\ [Next]_vars => CapacityBounded'
  <2> SUFFICES ASSUME TypeOK, CapacityBounded, [Next]_vars
               PROVE  CapacityBounded'
    OBVIOUS
  <2>1. ASSUME NEW data \in Chunks, Put(data) \/ ReadFromSocket(data)
        PROVE  CapacityBounded'
    <3>1. Joins(data)
      BY <2>1, PutJoins
    <3>2. PICK z \in Nat, y \in Nat, k \in Nat, i \in Nat, p \in Nat, q \in Nat,
               n \in Nat :
            /\ z = buf.size /\ y = buf'.size /\ k = kCheapPrepend
            /\ i = kInitialSize /\ p = peak /\ q = peak'
            /\ n = ReadableBytes(buf')
            /\ q = IF n > p THEN n ELSE p
            /\ y = z \/ y < k + n + n
            /\ z = k + i \/ z < k + 2 * p
      <4>1. ReadableBytes(buf') \in Nat
        BY <3>1, ReadableOK DEF Joins, Appended, ReadableBytes
      <4>2. peak' = IF ReadableBytes(buf') > peak THEN ReadableBytes(buf') ELSE peak
        BY <3>1 DEF Joins, Record
      <4>3. peak' \in Nat
        BY <4>1, <4>2 DEF TypeOK
      <4>4. buf.size \in Nat /\ buf'.size \in Nat /\ peak \in Nat
        BY <3>1 DEF Joins, Appended, TypeOK, Well
      <4> QED
        BY <3>1, <4>1, <4>2, <4>3, <4>4, BufferAssumption
        DEF Joins, Appended, CapacityBounded
    <3>3. y = k + i \/ y < k + 2 * q
      BY <3>2
    <3> QED  BY <3>2, <3>3 DEF CapacityBounded
  <2>2. ASSUME NEW n \in 0 .. MaxReadable, Take(n)
        PROVE  CapacityBounded'
    <3>1. n \in Nat
      BY BufferAssumption
    <3> QED  BY <2>2, <3>1, TakeRetrieves DEF Take, CapacityBounded
  <2>3. CASE UNCHANGED vars
    BY <2>3 DEF vars, CapacityBounded
  <2> QED  BY <2>1, <2>2, <2>3 DEF Next
<1> QED  BY <1>1, <1>2, TypeCorrect, PTL DEF Spec
=============================================================================
