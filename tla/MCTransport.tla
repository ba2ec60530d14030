----------------------------- MODULE MCTransport -----------------------------
(***************************************************************************)
(* Instances of the socket server.  Connections are interchangeable.       *)
(***************************************************************************)
EXTENDS Transport, TLC

Interchangeable == Permutations(Conns)
=============================================================================
