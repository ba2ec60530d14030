------------------------------ MODULE Networks ------------------------------
(***************************************************************************)
(* Creating a virtual network (internal/app): its subnet is reserved in    *)
(* the journal, the network is defined, the helper filters its bridge in   *)
(* firewalld (internal/helper, network_executor_linux.go), and only then   *)
(* is it activated.  A creation that stops on the way is resumed by a      *)
(* recovery plan; the reservation stays with the first job.                *)
(*                                                                         *)
(* A network is named by its creation plan, which draws its UUID.  Its     *)
(* rules are those of the running firewall and those of the permanent      *)
(* one, added in this order; the several rules of each are one here.       *)
(***************************************************************************)
EXTENDS Helper

CONSTANTS
  Subnets,     \* address ranges that do not overlap
  GuestOnly,   \* networks without a host address: the host does not show their subnet
  Continues    \* Continues[p]: the network resume plan p is about

Runtime == 1
Permanent == 2
Rules == {Runtime, Permanent}
NetworkKinds == {"network", "network-resume"}
NetworkPlans == {p \in Plans : Kind[p] = "network"}
NetworkResumptions == {p \in Plans : Kind[p] = "network-resume"}

ASSUME NetworkPlansAreComplete ==
  /\ GuestOnly \subseteq NetworkPlans
  /\ Continues \in [Plans -> Plans]
  /\ \A p \in Plans :
       /\ Kind[p] = "network" => Steps[p] = 3 /\ p \in Retaining \ RecoveryPlans /\ Continues[p] = p
       /\ Kind[p] = "network-resume" =>
            /\ Steps[p] = 2 /\ p \in Retaining \cap RecoveryPlans /\ Continues[p] \in NetworkPlans
            /\ ResourceIDs[p] = ResourceIDs[Continues[p]]

\* networkResources: every network plan names the host's network allocation.
ASSUME NetworksAreAllocatedAlone ==
  \A p, q \in NetworkPlans : ResourceIDs[p] \cap ResourceIDs[q] # {}

VARIABLES
  network,    \* of each network: "absent", "inactive" or "active"
  reserved,   \* the job that reserved its subnet, or NoJob
  filter,     \* the rules of its bridge that firewalld has
  jobIntent,  \* helper journal: jobs with an intent
  ruleIntent, \* helper journal: <<j, r>>
  torn        \* networks of whose helper records one is incomplete

networks == <<network, reserved, filter, jobIntent, ruleIntent, torn>>

NetworkInput == [parent : Jobs \cup {NoJob}, origin : Jobs \cup {NoJob}, subnet : Subnets]

NetworksTypeOK ==
  /\ network \in [NetworkPlans -> {"absent", "inactive", "active"}]
  /\ reserved \in [NetworkPlans -> Jobs \cup {NoJob}]
  /\ filter \in [NetworkPlans -> SUBSET Rules]
  /\ jobIntent \subseteq Jobs
  /\ ruleIntent \subseteq Jobs \X Rules
  /\ torn \subseteq NetworkPlans

NetworksInit ==
  /\ network = [n \in NetworkPlans |-> "absent"]
  /\ reserved = [n \in NetworkPlans |-> NoJob]
  /\ filter = [n \in NetworkPlans |-> {}]
  /\ jobIntent = {} /\ ruleIntent = {} /\ torn = {}

NetworkOf(j) == Continues[jobs[j].planID]
Subnet(n) == review[n].subnet
Origin(p, j) == IF Kind[p] = "network" THEN j ELSE review[p].origin

-----------------------------------------------------------------------------
(* What the coordinator and the helper observe. *)

\* checkNetworkCIDR: neither a reservation nor a network occupies the range.
SubnetFree(s, own) ==
  \A n \in NetworkPlans \ {own} :
    Planned(n) /\ (reserved[n] # NoJob \/ (network[n] # "absent" /\ n \notin GuestOnly)) => Subnet(n) # s

\* The jobs and rules the helper has an intent for, by network.
Owns(n, r) == \E j \in Jobs : <<j, r>> \in ruleIntent /\ NetworkOf(j) = n

\* NetworkFirewall.Check: the helper can read its records, and every rule is its own.
HelperAgrees(n) == HelperFree /\ n \notin torn /\ \A r \in filter[n] : Owns(n, r)

\* Mutant of Filtered: an intent stands for its rule.
FilteredByIntent(n) == \A r \in Rules : Owns(n, r)

\* queryAll: every rule is there.
Filtered(n) == filter[n] = Rules

\* NetworkFirewall.Observe: the job itself intended every rule.
ObservesFilter(n, j) ==
  /\ HelperFree /\ n \notin torn /\ network[n] # "absent"
  /\ j \in jobIntent /\ Filtered(n)
  /\ \A r \in Rules : <<j, r>> \in ruleIntent

-----------------------------------------------------------------------------
(* networkCreationHandler.Validate *)

\* checkParent, while the plan is applied and in its own job.
ParentAgrees(p, owner) ==
  LET parent == review[p].parent IN
  \/ /\ owner # NoJob /\ jobs[parent].state = "partial"
     /\ jobs[parent].recoveryOperationID = owner
  \/ jobs[parent].recoveryOperationID = NoJob /\ jobs[parent].state \in Unresolved

ReservationAgrees(p, owner) ==
  LET n == Continues[p] IN
  IF Kind[p] = "network"
    THEN reserved[n] \in {NoJob, owner}
    ELSE reserved[n] # NoJob /\ reserved[n] = review[p].origin /\ ParentAgrees(p, owner)

\* Without a reservation the network is new, with one it is defined.
NetworkAgrees(n) ==
  IF reserved[n] = NoJob THEN network[n] = "absent" ELSE network[n] = "inactive"

NetworkValid(p, owner) ==
  LET n == Continues[p] IN
  /\ HelperAgrees(n) /\ ReservationAgrees(p, owner) /\ NetworkAgrees(n)
  /\ SubnetFree(Subnet(n), n)

-----------------------------------------------------------------------------
(* Planning.  The helper need not agree with a preview. *)

PlanNetwork(p) ==
  /\ \E s \in Subnets :
       /\ SubnetFree(s, p)
       /\ StorePlan(p, [parent |-> NoJob, origin |-> NoJob, subnet |-> s])
  /\ UNCHANGED <<networks, call>>

PlanNetworkResume(p) ==
  LET n == Continues[p] IN
  /\ Planned(n)
  /\ \E j \in Jobs :
       LET q == jobs[j].planID
           origin == Origin(q, j) IN
       /\ Stored(j) /\ Kind[q] \in NetworkKinds /\ Continues[q] = n
       /\ jobs[j].state \in Unresolved /\ jobs[j].recoveryOperationID = NoJob
       /\ reserved[n] = origin /\ NetworkAgrees(n) /\ SubnetFree(Subnet(n), n)
       /\ StorePlan(p, [parent |-> j, origin |-> origin, subnet |-> Subnet(n)])
  /\ UNCHANGED <<networks, call>>

-----------------------------------------------------------------------------
(* networkCreationHandler.Execute: "define", "firewall", "activate". *)

\* The step a job of plan p is at; a resumed creation has no "define".
StepOf(p, i) ==
  LET names == <<"define", "firewall", "activate">> IN
  IF Kind[p] = "network" THEN names[i + 1] ELSE names[i + 2]

NetworkStep(j, name, at) ==
  /\ In(j, at) /\ Kind[PlanOf(j)] \in NetworkKinds
  /\ StepOf(PlanOf(j), runner[j].i) = name
  /\ KeepsEngine

CheckSubnet(j) ==
  LET n == PlanOf(j) IN
  /\ NetworkStep(j, "define", "idle")
  /\ network[n] = "absent" /\ SubnetFree(Subnet(n), n)
  /\ Go(j, "reserve")
  /\ UNCHANGED <<networks, call>>

\* ComparePut: nobody else may have reserved it.
ReserveSubnet(j) ==
  LET n == PlanOf(j) IN
  /\ NetworkStep(j, "define", "reserve") /\ reserved[n] = NoJob
  /\ reserved' = [reserved EXCEPT ![n] = j]
  /\ Go(j, "define")
  /\ UNCHANGED <<network, filter, jobIntent, ruleIntent, torn, call>>

DefineNetwork(j) ==
  LET n == PlanOf(j) IN
  /\ NetworkStep(j, "define", "define") /\ network[n] = "absent"
  /\ network' = [network EXCEPT ![n] = "inactive"]
  /\ Go(j, "ok")
  /\ UNCHANGED <<reserved, filter, jobIntent, ruleIntent, torn, call>>

AskForFilter(j) ==
  /\ NetworkStep(j, "firewall", "idle") /\ NetworkValid(PlanOf(j), j)
  /\ Asks(j)
  /\ UNCHANGED networks

CheckFilter(j) ==
  /\ NetworkStep(j, "activate", "idle") /\ NetworkValid(PlanOf(j), j)
  /\ ObservesFilter(NetworkOf(j), j)
  /\ Go(j, "activate")
  /\ UNCHANGED <<networks, call>>

ActivateNetwork(j) ==
  LET n == NetworkOf(j) IN
  /\ NetworkStep(j, "activate", "activate") /\ network[n] = "inactive"
  /\ network' = [network EXCEPT ![n] = "active"]
  /\ Go(j, "ok")
  /\ UNCHANGED <<reserved, filter, jobIntent, ruleIntent, torn, call>>

-----------------------------------------------------------------------------
(* NetworkExecutor.Execute, mode "apply". *)

FiltersFor(at) ==
  /\ ~HelperFree /\ call.at = at
  /\ Kind[jobs[call.job].planID] \in NetworkKinds
  /\ KeepsEngine

\* A job has one call only.
IntendFilter ==
  LET n == NetworkOf(call.job) IN
  /\ FiltersFor("received")
  /\ n \notin torn /\ call.job \notin jobIntent /\ network[n] = "inactive"
  /\ \A r \in filter[n] : Owns(n, r)
  /\ jobIntent' = jobIntent \cup {call.job}
  /\ call' = [call EXCEPT !.at = "intend rule", !.seen = filter[n]]
  /\ UNCHANGED <<network, reserved, filter, ruleIntent, torn, work>>

\* The inventory must still be what the call saw and added itself.
IntendRule ==
  LET n == NetworkOf(call.job) IN
  /\ FiltersFor("intend rule")
  /\ network[n] = "inactive" /\ filter[n] = call.seen
  /\ ruleIntent' = ruleIntent \cup {<<call.job, call.i>>}
  /\ Proceeds("add rule")
  /\ UNCHANGED <<network, reserved, filter, jobIntent, torn, work>>

\* A rule that is there is not added again; it is queried either way.
AddRule ==
  LET n == NetworkOf(call.job) IN
  /\ FiltersFor("add rule")
  /\ filter' = [filter EXCEPT ![n] = @ \cup {call.i}]
  /\ call' = IF call.i = Permanent
               THEN [call EXCEPT !.at = "added"]
               ELSE [call EXCEPT !.at = "intend rule", !.i = @ + 1, !.seen = @ \cup {call.i}]
  /\ UNCHANGED <<network, reserved, jobIntent, ruleIntent, torn, work>>

FilterDone ==
  LET n == NetworkOf(call.job) IN
  /\ FiltersFor("added")
  /\ Filtered(n) /\ network[n] = "inactive"
  /\ Answers
  /\ UNCHANGED networks

\* A record is created and then written: what dies in between stays torn.
FilterBreaks ==
  /\ FiltersFor("received") \/ FiltersFor("intend rule") \/ FiltersFor("add rule") \/ FiltersFor("added")
  /\ Breaks
  /\ torn' \in {torn, torn \cup {NetworkOf(call.job)}}
  /\ UNCHANGED <<network, reserved, filter, jobIntent, ruleIntent>>

-----------------------------------------------------------------------------
(* The host. *)

Reloaded == [n \in NetworkPlans |-> IF Permanent \in filter[n] THEN Rules ELSE {}]

\* Another administrator reloads firewalld: it runs the permanent rules.
ReloadFirewall ==
  /\ filter' = Reloaded /\ filter' # filter
  /\ KeepsEngine
  /\ UNCHANGED <<network, reserved, jobIntent, ruleIntent, torn, work, call>>

\* Networks do not start by themselves.
NetworksLosePower ==
  /\ network' = [n \in NetworkPlans |-> IF network[n] = "active" THEN "inactive" ELSE network[n]]
  /\ filter' = Reloaded
  /\ UNCHANGED <<reserved, jobIntent, ruleIntent, torn>>

-----------------------------------------------------------------------------
(* networkCreationHandler.Reconcile *)

NetworkDone(p, i, j) ==
  LET n == Continues[p] IN
  /\ reserved[n] # NoJob /\ reserved[n] = Origin(p, j) /\ network[n] # "absent"
  /\ CASE StepOf(p, i) = "define" -> network[n] = "inactive"
       [] StepOf(p, i) = "firewall" -> network[n] = "inactive" /\ ObservesFilter(n, j)
       [] StepOf(p, i) = "activate" -> network[n] = "active" /\ ObservesFilter(n, j)

NetworkWork(j) ==
  CheckSubnet(j) \/ ReserveSubnet(j) \/ DefineNetwork(j) \/ AskForFilter(j) \/ CheckFilter(j) \/ ActivateNetwork(j)

NetworkHelper ==
  IntendFilter \/ IntendRule \/ AddRule \/ FilterDone \/ FilterBreaks

-----------------------------------------------------------------------------
(* What must hold. *)

\* A network never runs without its filter: both firewalls have every rule, and
\* the helper's journal says whose they are, whatever failed, died or was
\* reloaded while it was created (Execute, NetworkExecutor.Execute).
ActiveNetworksAreFiltered ==
  \A n \in NetworkPlans :
    network[n] = "active" => \A r \in Rules : r \in filter[n] /\ Owns(n, r)

\* No two networks have one subnet, although it is checked first and reserved
\* later and the host does not show all of them (checkNetworkCIDR, Execute).
SubnetsAreExclusive ==
  \A n, m \in NetworkPlans :
    n # m /\ reserved[n] # NoJob /\ reserved[m] # NoJob => Subnet(n) # Subnet(m)

NetworkAchieved(j) == network[NetworkOf(j)] = "active"
NetworkUntouched(j) == network[NetworkOf(j)] = "absent" /\ reserved[NetworkOf(j)] = NoJob
=============================================================================
