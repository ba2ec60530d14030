---------------------------- MODULE EngineLease ----------------------------
(***************************************************************************)
(* The engine implements Lease: its lock table is the lease, and a         *)
(* resource is in doubt while a job that has not been handed over is.      *)
(***************************************************************************)
EXTENDS Engine

ResourcesInDoubt ==
  UNION {Resource(j) : j \in {k \in Jobs : Stored(k) /\ jobs[k].state # "partial" /\ InDoubt(k)}}

L == INSTANCE Lease WITH owner <- locks, doubt <- ResourcesInDoubt

\* Every step of the engine and its journal is a lease step or changes neither
\* leases nor doubts (Engine.run, Store.Accept, .AcceptRecovery, .Update).
ImplementsLease == L!Spec
=============================================================================
