------------------------------ MODULE ByteQueue ------------------------------
(***************************************************************************)
(* What a Buffer promises to the code that uses it: bytes leave in the     *)
(* order in which they came, none is lost, none is invented.  There is no  *)
(* memory, no index and no capacity.                                       *)
(***************************************************************************)
EXTENDS Naturals, Sequences

CONSTANT Chunks     \* the byte strings that are put in

VARIABLES contents,   \* the bytes that can be read
          given,      \* what the last operation has put in
          taken       \* what the last operation has handed out

queueVars == <<contents, given, taken>>

First(q, n) == SubSeq(q, 1, n)
Rest(q, n) == SubSeq(q, n + 1, Len(q))

Init == contents = <<>> /\ given = <<>> /\ taken = <<>>

Put(data) ==
  /\ contents' = contents \o data
  /\ given' = data
  /\ taken' = <<>>

Take(n) ==
  /\ given' = <<>>
  /\ taken' = First(contents, n)
  /\ contents' = Rest(contents, n)

Next == \/ \E data \in Chunks : Put(data)
        \/ \E n \in 0 .. Len(contents) : Take(n)

Spec == Init /\ [][Next]_queueVars
=============================================================================
