------------------------------- MODULE Pools -------------------------------
(***************************************************************************)
(* Storage pools (internal/app, internal/backend/libvirt): a new directory *)
(* pool is reserved in the journal, defined, started and made to start     *)
(* with the host; a pool that exists is started and made to.  Collisions   *)
(* of names and folders are looked for before the definition and before    *)
(* the start, and only the lock on allocation, which every creation takes, *)
(* keeps two of them apart.                                                *)
(*                                                                         *)
(* A pool is named by its creation plan, or was there before.  Any other   *)
(* tool may start one.                                                     *)
(***************************************************************************)
EXTENDS Handlers

CONSTANTS
  PoolOf,    \* PoolOf[p]: the pool plan p is about
  PoolFolder \* PoolFolder[x]: the folder of pool x

PoolKinds == {"pool", "pool-start"}
PoolPlans == {p \in Plans : Kind[p] \in PoolKinds}
NewPools == {p \in Plans : Kind[p] = "pool"}
Pools == {PoolOf[p] : p \in PoolPlans}

\* The last step makes it start with the host, where that was asked for.
ASSUME PoolPlansAreComplete ==
  \A p \in PoolPlans :
    /\ p \in Retaining /\ p \notin RecoveryPlans
    /\ Kind[p] = "pool" => PoolOf[p] = p /\ Steps[p] \in {2, 3}
    /\ Kind[p] = "pool-start" => Steps[p] \in {1, 2}

VARIABLES
  pool,         \* of each pool: its definition, whether it runs and starts by itself
  poolReserved  \* "storage-pool-creation-v1": the job that reserved it, or NoJob

pools == <<pool, poolReserved>>

\* by: history, the job that started it.
Pool == [at : {"absent", "inactive", "active"}, autostart : BOOLEAN, by : Jobs \cup {NoJob}]

PoolsTypeOK ==
  /\ pool \in [Pools -> Pool]
  /\ poolReserved \in [NewPools -> Jobs \cup {NoJob}]

PoolsInit ==
  /\ pool = [x \in Pools |-> [at |-> IF x \in NewPools THEN "absent" ELSE "inactive",
                              autostart |-> FALSE, by |-> NoJob]]
  /\ poolReserved = [x \in NewPools |-> NoJob]

Autostarts(p) == Steps[p] = (IF Kind[p] = "pool" THEN 3 ELSE 2)

-----------------------------------------------------------------------------
(* Planning and Validate. *)

\* checkStoragePoolCollisions: no other pool has the folder, or lies in it.
NoCollision(x) ==
  \A y \in Pools \ {x} : pool[y].at # "absent" => PoolFolder[y] # PoolFolder[x]

\* storagePoolStartHandler: what the fingerprint covers.
AsFound(p) == pool[PoolOf[p]].at = "inactive" /\ pool[PoolOf[p]].autostart = review[p].autostart

PoolValid(p, owner) ==
  LET x == PoolOf[p] IN
  IF Kind[p] = "pool"
    THEN IF poolReserved[x] = NoJob THEN pool[x].at = "absent" /\ NoCollision(x)
         ELSE poolReserved[x] = owner /\ pool[x].at # "absent"
    ELSE (pool[x].at = "active" /\ owner # NoJob) \/ AsFound(p)

PlanPool(p) ==
  LET x == PoolOf[p] IN
  /\ IF Kind[p] = "pool" THEN pool[x].at = "absent" /\ NoCollision(x)
     ELSE pool[x].at = "inactive" /\ (Autostarts(p) => ~pool[x].autostart)
  /\ StorePlan(p, [autostart |-> pool[x].autostart])
  /\ UNCHANGED pools

-----------------------------------------------------------------------------
(* Execute *)

PoolStepOf(p, i) ==
  LET names == <<"define", "start", "autostart">> IN
  IF Kind[p] = "pool" THEN names[i + 1] ELSE names[i + 2]

PoolStep(j, name, at) ==
  /\ In(j, at) /\ Kind[PlanOf(j)] \in PoolKinds
  /\ PoolStepOf(PlanOf(j), runner[j].i) = name
  /\ KeepsEngine

CheckPool(j) ==
  LET x == PoolOf[PlanOf(j)] IN
  /\ PoolStep(j, "define", "idle") /\ pool[x].at = "absent" /\ NoCollision(x)
  /\ Go(j, "reserve")
  /\ UNCHANGED pools

\* ComparePut
ReservePool(j) ==
  LET x == PoolOf[PlanOf(j)] IN
  /\ PoolStep(j, "define", "reserve") /\ poolReserved[x] = NoJob
  /\ poolReserved' = [poolReserved EXCEPT ![x] = j]
  /\ Go(j, "define")
  /\ UNCHANGED pool

\* storagePoolCreationRun looks for collisions again, and reads the pool back.
DefinePool(j) ==
  LET x == PoolOf[PlanOf(j)] IN
  /\ PoolStep(j, "define", "define") /\ pool[x].at = "absent" /\ NoCollision(x)
  /\ pool' = [pool EXCEPT ![x].at = "inactive"]
  /\ Go(j, "read back")
  /\ UNCHANGED poolReserved

\* "starting is never replayed": a pool that runs is left to the reader.
StartPool(j) ==
  LET p == PlanOf(j)
      x == PoolOf[p] IN
  /\ PoolStep(j, "start", "idle")
  /\ pool[x].at = "inactive"
  /\ IF Kind[p] = "pool" THEN NoCollision(x) ELSE AsFound(p)
  /\ pool' = [pool EXCEPT ![x].at = "active", ![x].by = j]
  /\ Go(j, "read back")
  /\ UNCHANGED poolReserved

SetPoolAutostart(j) ==
  LET x == PoolOf[PlanOf(j)] IN
  /\ PoolStep(j, "autostart", "idle") /\ pool[x].at = "active"
  /\ pool' = [pool EXCEPT ![x].autostart = TRUE]
  /\ Go(j, "read back")
  /\ UNCHANGED poolReserved

\* A new definition must not run yet.
ReadPoolBack(j) ==
  LET x == PoolOf[PlanOf(j)]
      name == PoolStepOf(PlanOf(j), runner[j].i) IN
  /\ PoolStep(j, name, "read back")
  /\ Go(j, IF (name = "define") = (pool[x].at = "inactive") THEN "ok" ELSE "error")
  /\ UNCHANGED pools

-----------------------------------------------------------------------------
(* Reconcile, and the host. *)

\* Mutant of PoolDone: whoever finds the pool may claim it.
PoolDoneByAnyone(p, i, j) ==
  pool[PoolOf[p]].at # "absent" /\ (PoolStepOf(p, i) = "autostart" => pool[PoolOf[p]].autostart)

PoolDone(p, i, j) ==
  LET x == PoolOf[p] IN
  /\ Kind[p] = "pool" => poolReserved[x] = j
  /\ pool[x].at # "absent"
  /\ PoolStepOf(p, i) # "define" => pool[x].at = "active"
  /\ PoolStepOf(p, i) = "autostart" => pool[x].autostart

OthersStartPool ==
  /\ \E p \in PoolPlans :
       /\ Planned(p) /\ pool[PoolOf[p]].at = "inactive"
       /\ pool' = [pool EXCEPT ![PoolOf[p]].at = "active"]
  /\ KeepsEngine /\ UNCHANGED <<work, poolReserved>>

PoolsLosePower ==
  /\ pool' = [x \in Pools |->
       IF pool[x].at = "absent" THEN pool[x]
       ELSE [pool[x] EXCEPT !.at = IF pool[x].autostart THEN "active" ELSE "inactive"]]
  /\ UNCHANGED poolReserved

PoolWork(j) ==
  CheckPool(j) \/ ReservePool(j) \/ DefinePool(j) \/ StartPool(j) \/ SetPoolAutostart(j) \/ ReadPoolBack(j)

-----------------------------------------------------------------------------
(* What must hold; see Host. *)

\* Of two pools that share a folder, both were there before.
OwnFolder(x) ==
  \A y \in Pools \ {x} :
    pool[y].at # "absent" /\ {x, y} \cap NewPools # {} => PoolFolder[y] # PoolFolder[x]

\* The pool runs, starts with the host if that was reviewed, and no other pool
\* shares its folder.
PoolAchieved(j) ==
  LET p == jobs[j].planID
      x == PoolOf[p] IN
  /\ pool[x].at = "active" /\ OwnFolder(x)
  /\ Autostarts(p) => pool[x].autostart
  /\ Kind[p] = "pool" => poolReserved[x] = j

PoolUntouched(j) ==
  LET x == PoolOf[jobs[j].planID] IN
  pool[x].by # j /\ (x \in NewPools => poolReserved[x] # j)
=============================================================================
