------------------------------- MODULE MCBuffer -------------------------------
(***************************************************************************)
(* Buffer with small constants in the proportions of the real ones.        *)
(***************************************************************************)
EXTENDS Buffer

CONSTANT MaxChunk

MCChunks == UNION {[1 .. n -> Bytes] : n \in 0 .. MaxChunk}
=============================================================================
