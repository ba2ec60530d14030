------------------------------- MODULE Lease -------------------------------
(***************************************************************************)
(* What the engine promises about resources, whatever its jobs do: a job   *)
(* leases all the resources it may affect before it affects any of them,   *)
(* and a resource on which an effect is in doubt is never free and changes *)
(* hands only to a recovery that takes over the whole lease.               *)
(***************************************************************************)
CONSTANTS Jobs, Resources, NoJob

VARIABLES
  owner,    \* the job that leases each resource, or NoJob
  doubt     \* resources with an effect neither confirmed nor excluded

vars == <<owner, doubt>>

Leased(j) == {r \in Resources : owner[r] = j}
Free == Leased(NoJob)

Init ==
  /\ owner = [r \in Resources |-> NoJob]
  /\ doubt = {}

Give(S, j) == owner' = [r \in Resources |-> IF r \in S THEN j ELSE owner[r]]

\* All the resources of a job at once, or none.
Acquire(j, S) ==
  /\ S \subseteq Free /\ Leased(j) = {}
  /\ Give(S, j)
  /\ UNCHANGED doubt

\* Effects happen under the lease only.
Begin(j) ==
  /\ doubt' = doubt \cup Leased(j)
  /\ UNCHANGED owner

Settle(j) ==
  /\ doubt' = doubt \ Leased(j)
  /\ UNCHANGED owner

Release(j) ==
  /\ Leased(j) \cap doubt = {}
  /\ Give(Leased(j), NoJob)
  /\ UNCHANGED doubt

\* A recovery inherits the lease and remains in doubt itself.
HandOver(parent, child, S) ==
  /\ parent # child /\ Leased(child) = {}
  /\ Leased(parent) \subseteq S /\ S \subseteq Leased(parent) \cup Free
  /\ Give(S, child)
  /\ doubt' = doubt \cup S

Next ==
  \/ \E j \in Jobs : Begin(j) \/ Settle(j) \/ Release(j)
  \/ \E j \in Jobs, S \in SUBSET Resources : Acquire(j, S)
  \/ \E parent, child \in Jobs, S \in SUBSET Resources : HandOver(parent, child, S)

Spec == Init /\ [][Next]_vars

\* A resource in doubt is leased.
DoubtIsLeased == doubt \subseteq UNION {Leased(j) : j \in Jobs}

\* It changes hands only together with everything its owner leases.
MovesWhole ==
  \A r \in doubt : owner'[r] # owner[r] =>
    owner'[r] # NoJob /\ \A q \in Leased(owner[r]) : owner'[q] = owner'[r]

DoubtMovesWhole == [][MovesWhole]_vars
=============================================================================
