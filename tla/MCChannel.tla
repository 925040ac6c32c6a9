------------------------------ MODULE MCChannel ------------------------------
(***************************************************************************)
(* An acceptor and two connections, which get the same fd number one after *)
(* the other, on the loop of a server without IO threads.                  *)
(***************************************************************************)
EXTENDS Channel, TLC

CONSTANTS a, c1, c2

MCFdOf == (a :> 1) @@ (c1 :> 2) @@ (c2 :> 2)

\* The connections are alike.
MCSymmetry == Permutations({c1, c2})
=============================================================================
