----------------------------- MODULE MCTcpServer -----------------------------
(***************************************************************************)
(* TcpServer with a pool of up to two IO threads.                          *)
(***************************************************************************)
EXTENDS TcpServer, TLC

CONSTANTS io1, io2

MCPool == <<io1, io2>>
=============================================================================
