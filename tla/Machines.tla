------------------------------ MODULE Machines ------------------------------
(***************************************************************************)
(* The operations on one machine that need no other resource: its          *)
(* lifecycle, edits of its saved definition, changes of what it runs with, *)
(* a witnessed reboot, and the removal of its definition (internal/app:    *)
(* vmHandler, liveResourceHandler, rebootHandler, removalHandler, with the *)
(* calls of internal/backend/libvirt they make).                           *)
(*                                                                         *)
(* Its guest acts on its own: it shuts down, reboots, and answers requests *)
(* for memory whenever it gets to it.  Other administrators are left out,  *)
(* as the plans demand of them.  Settings are what they were before any    *)
(* plan or what a plan asks for.                                           *)
(***************************************************************************)
EXTENDS Handlers

CONSTANT Parts  \* Parts[p]: what live change p changes, of "cpus" and "memory"

Setting == {"old", "new"}
Lifecycle == {"start", "stop", "hard-stop", "pause", "resume", "save", "restore-saved"}
MachineKinds == Lifecycle \cup {"autostart", "set", "set-live", "reboot", "undefine"}
MachinePlans == {p \in Plans : Kind[p] \in MachineKinds}

ASSUME MachinePlansAreComplete ==
  \A p \in MachinePlans :
    /\ Steps[p] = 1 /\ p \notin RecoveryPlans \cup Retaining
    /\ Kind[p] = "set-live" => Parts[p] \in (SUBSET {"cpus", "memory"}) \ {{}}

\* Plan of each handler: the machine is the resource.
ASSUME MachinesAreChangedAlone ==
  \A p, q \in MachinePlans : ResourceIDs[p] \cap ResourceIDs[q] # {}

VARIABLES
  machine,         \* what libvirt holds of it, and the memory it asked the guest to use
  called,          \* history: jobs whose native call took effect
  reached,         \* history: jobs the machine was as requested for, since they were applied
  rebooted,        \* jobs whose subscription saw a reboot
  machineReceipt   \* "vm-reboot-receipt" and "vm-removal-receipt": jobs that have one

machines == <<machine, called, reached, rebooted, machineReceipt>>

MachinesTypeOK ==
  /\ machine \in [defined : BOOLEAN, state : {"stopped", "running", "paused"}, saved : BOOLEAN,
                  autostart : BOOLEAN, config : Setting, cpus : Setting, memory : Setting, target : Setting]
  /\ called \subseteq Jobs /\ reached \subseteq Jobs /\ rebooted \subseteq Jobs
  /\ machineReceipt \subseteq Jobs

MachinesInit ==
  /\ machine = [defined |-> TRUE, state |-> "running", saved |-> FALSE, autostart |-> FALSE,
                config |-> "old", cpus |-> "old", memory |-> "old", target |-> "old"]
  /\ called = {} /\ reached = {} /\ rebooted = {} /\ machineReceipt = {}

-----------------------------------------------------------------------------
(* What a machine reports, and what a plan asks of it. *)

\* observe: a stopped machine runs with nothing; what was asked of the guest is
\* not shown.
LiveValues(m) == IF m.state = "stopped" THEN <<>> ELSE <<m.cpus, m.memory>>
Observed(m) ==
  [defined |-> m.defined, state |-> m.state, saved |-> m.saved, autostart |-> m.autostart,
   config |-> m.config, live |-> LiveValues(m)]

Settled(p, m) == \A part \in Parts[p] : m[part] = "new"

\* The reviewed change, as vmHandler.Reconcile, observeConfiguration and
\* ObserveLiveResources look for it.
Meets(p, m) ==
  CASE Kind[p] \in {"start", "restore-saved", "resume"} -> m.state = "running"
    [] Kind[p] \in {"stop", "hard-stop"} -> m.state = "stopped"
    [] Kind[p] = "pause" -> m.state = "paused"
    [] Kind[p] = "save" -> m.state = "stopped" /\ m.saved
    [] Kind[p] = "autostart" -> m.autostart
    [] Kind[p] = "set" -> m.config = "new" /\ ~m.saved
    [] Kind[p] = "set-live" -> m.state = "running" /\ Settled(p, m)
    [] Kind[p] = "undefine" -> ~m.defined
    [] Kind[p] = "reboot" -> FALSE

\* Everything that changes the machine.
Become(m) ==
  LET pending == {j \in Jobs : Stored(j) /\ Kind[jobs[j].planID] \in MachineKinds
                               /\ jobs[j].state \notin {"succeeded", "failed", "canceled"}} IN
  /\ machine' = m
  /\ reached' = reached \cup {j \in pending : \E n \in {machine, m} : Meets(jobs[j].planID, n)}

-----------------------------------------------------------------------------
(* Planning and Validate.  What a plan saw last is its review. *)

StatesFor(kind) ==
  CASE kind \in {"start", "restore-saved", "undefine"} -> {"stopped"}
    [] kind \in {"stop", "pause", "save", "set-live", "reboot"} -> {"running"}
    [] kind = "hard-stop" -> {"running", "paused"}
    [] kind = "resume" -> {"paused"}
    [] OTHER -> {"stopped", "running", "paused"}

\* The base of an edit: an edit made while the machine runs is bound to the
\* saved definition only, a live change to what it runs with.
Unchanged(p, seen) ==
  CASE Kind[p] = "set-live" -> LiveValues(machine) = seen.live
    [] Kind[p] = "set" /\ seen.state # "stopped" -> machine.config = seen.config
    [] OTHER -> Observed(machine) = seen

Allowed(p, seen) ==
  /\ machine.defined /\ machine.state \in StatesFor(Kind[p]) /\ Unchanged(p, seen)
  /\ Kind[p] = "restore-saved" => machine.saved
  /\ Kind[p] \in {"set", "set-live", "undefine"} => ~machine.saved
  /\ Kind[p] = "undefine" => ~machine.autostart
  /\ Kind[p] = "set-live" => \A part \in Parts[p] : machine[part] # "new"

MachineValid(p) == Allowed(p, review[p])

PlanMachine(p) ==
  /\ Allowed(p, Observed(machine))
  /\ StorePlan(p, Observed(machine))
  /\ UNCHANGED machines

-----------------------------------------------------------------------------
(* vmHandler.Execute: Provider.Execute is one native call. *)

MachineStep(j, kinds, at) == In(j, at) /\ Kind[PlanOf(j)] \in kinds /\ KeepsEngine

\* d.Create restores a saved image if there is one.
Running(m) ==
  IF m.saved THEN [m EXCEPT !.state = "running", !.saved = FALSE]
  ELSE [m EXCEPT !.state = "running", !.cpus = m.config, !.memory = m.config, !.target = m.config]

\* What the guest ran with is gone.
Stopped(m) == [m EXCEPT !.state = "stopped", !.cpus = "old", !.memory = "old", !.target = "old"]

\* All that wait for nothing after the call.
SingleCalls == (Lifecycle \ {"stop"}) \cup {"autostart"}

Effect(kind, m) ==
  CASE kind \in {"start", "restore-saved"} -> Running(m)
    [] kind = "hard-stop" -> Stopped(m)
    [] kind = "pause" -> [m EXCEPT !.state = "paused"]
    [] kind = "resume" -> [m EXCEPT !.state = "running"]
    [] kind = "save" -> [m EXCEPT !.state = "stopped", !.saved = TRUE]
    [] kind = "autostart" -> [m EXCEPT !.autostart = TRUE]

CallMachine(j) ==
  LET kind == Kind[PlanOf(j)] IN
  /\ MachineStep(j, SingleCalls, "idle")
  /\ machine.defined /\ machine.state \in StatesFor(kind)
  /\ kind = "restore-saved" => machine.saved
  /\ Become(Effect(kind, machine))
  /\ called' = called \cup {j} /\ Go(j, "called")
  /\ UNCHANGED <<rebooted, machineReceipt>>

CallAnswered(j) ==
  /\ MachineStep(j, SingleCalls, "called")
  /\ Go(j, "ok")
  /\ UNCHANGED machines

\* A boot that was refused, or whose answer was lost, looks at the machine.
BootFails(j) ==
  LET kind == Kind[PlanOf(j)] IN
  /\ MachineStep(j, {"start", "restore-saved"}, "idle") \/ MachineStep(j, {"start", "restore-saved"}, "called")
  /\ Go(j, IF machine.state = "stopped" /\ (kind = "restore-saved" => machine.saved)
             THEN "not-done" ELSE "error")
  /\ UNCHANGED machines

AskToShutDown(j) ==
  /\ MachineStep(j, {"stop"}, "idle") /\ machine.state = "running"
  /\ Go(j, "waiting")
  /\ UNCHANGED machines

SeeShutDown(j) ==
  /\ MachineStep(j, {"stop"}, "waiting") /\ machine.state = "stopped"
  /\ Go(j, "ok")
  /\ UNCHANGED machines

\* WAIT_TIMEOUT after a minute.  The guest may still obey later.
GiveUpShutDown(j) ==
  /\ MachineStep(j, {"stop"}, "waiting")
  /\ Go(j, CASE machine.state = "stopped" -> "ok"
             [] machine.state = "running" -> "not-done"
             [] OTHER -> "error")
  /\ UNCHANGED machines

-----------------------------------------------------------------------------
(* executeConfiguration *)

CheckEdit(j) ==
  /\ MachineStep(j, {"set"}, "idle") /\ MachineValid(PlanOf(j))
  /\ Go(j, "define")
  /\ UNCHANGED machines

\* DomainDefineXMLFlags leaves what runs as it is.
DefineEdit(j) ==
  /\ MachineStep(j, {"set"}, "define")
  /\ Become([machine EXCEPT !.config = "new"])
  /\ called' = called \cup {j} /\ Go(j, "read back")
  /\ UNCHANGED <<rebooted, machineReceipt>>

\* editableState: only an edit reviewed on a running machine may meet one.
Editable(p) == review[p].state = "stopped" => machine.state = "stopped"

ReadEditBack(j) ==
  /\ MachineStep(j, {"set"}, "read back")
  /\ Go(j, IF Editable(PlanOf(j)) /\ Meets(PlanOf(j), machine) THEN "ok" ELSE "error")
  /\ UNCHANGED machines

-----------------------------------------------------------------------------
(* SetLiveResources: the processors, then the memory, which the guest hands *)
(* over or takes back when its balloon driver gets to it.                   *)

LiveStep(j, at) == MachineStep(j, {"set-live"}, at)
Changes(j, part) == part \in Parts[PlanOf(j)]

SetProcessors(j) ==
  /\ LiveStep(j, "idle") /\ Changes(j, "cpus") /\ MachineValid(PlanOf(j))
  /\ Become([machine EXCEPT !.cpus = "new"])
  /\ called' = called \cup {j}
  /\ Go(j, IF Changes(j, "memory") THEN "ask" ELSE "ok")
  /\ UNCHANGED <<rebooted, machineReceipt>>

AskForMemory(j) ==
  /\ \/ LiveStep(j, "ask") /\ machine.state = "running"
     \/ LiveStep(j, "idle") /\ ~Changes(j, "cpus") /\ MachineValid(PlanOf(j))
  /\ Become([machine EXCEPT !.target = "new"])
  /\ called' = called \cup {j} /\ Go(j, "settle")
  /\ UNCHANGED <<rebooted, machineReceipt>>

SeeMemory(j) ==
  /\ LiveStep(j, "settle") /\ machine.state = "running" /\ machine.memory = "new"
  /\ Go(j, "ok")
  /\ UNCHANGED machines

\* The guest did not answer: the earlier size is asked for again.
AskForMemoryBack(j) ==
  /\ LiveStep(j, "settle") /\ machine.state = "running" /\ machine.memory # "new"
  /\ Become([machine EXCEPT !.target = "old"])
  /\ Go(j, "settle back")
  /\ UNCHANGED <<called, rebooted, machineReceipt>>

SeeMemoryBack(j) ==
  /\ LiveStep(j, "settle back") /\ machine.state = "running" /\ machine.memory = "old"
  /\ Go(j, "refused")
  /\ UNCHANGED machines

\* The first native call of the change fails, perhaps after it took effect.
LiveRefused(j) ==
  /\ LiveStep(j, "idle") \/ (LiveStep(j, "settle") /\ ~Changes(j, "cpus"))
  /\ Go(j, "refused")
  /\ UNCHANGED machines

\* liveResourceHandler.Execute: is the machine running what was reviewed?
LiveRechecked(j) ==
  /\ LiveStep(j, "refused")
  /\ Go(j, IF machine.state = "running" /\ ~machine.saved /\ Unchanged(PlanOf(j), review[PlanOf(j)])
             THEN "not-done" ELSE "error")
  /\ UNCHANGED machines

-----------------------------------------------------------------------------
(* rebootWith: the machine is checked before and after the subscription,    *)
(* which counts events from just before the single request on.              *)

Listening == {"armed", "requested"}

Subscribe(j) ==
  /\ MachineStep(j, {"reboot"}, "idle") /\ MachineValid(PlanOf(j))
  /\ Go(j, "subscribed")
  /\ UNCHANGED machines

ArmReboot(j) ==
  /\ MachineStep(j, {"reboot"}, "subscribed") /\ MachineValid(PlanOf(j))
  /\ Go(j, "armed")
  /\ UNCHANGED machines

RequestReboot(j) ==
  /\ MachineStep(j, {"reboot"}, "armed") /\ machine.state = "running"
  /\ called' = called \cup {j} /\ Go(j, "requested")
  /\ UNCHANGED <<machine, reached, rebooted, machineReceipt>>

RecordReboot(j) ==
  /\ MachineStep(j, {"reboot"}, "requested") /\ j \in rebooted
  /\ machineReceipt' = machineReceipt \cup {j} /\ Go(j, "ok")
  /\ UNCHANGED <<machine, called, reached, rebooted>>

-----------------------------------------------------------------------------
(* removalHandler.Execute *)

RemoveDefinition(j) ==
  /\ MachineStep(j, {"undefine"}, "idle") /\ MachineValid(PlanOf(j))
  /\ Become([machine EXCEPT !.defined = FALSE])
  /\ called' = called \cup {j} /\ Go(j, "record")
  /\ UNCHANGED <<rebooted, machineReceipt>>

RecordRemoval(j) ==
  /\ MachineStep(j, {"undefine"}, "record")
  /\ machineReceipt' = machineReceipt \cup {j} /\ Go(j, "ok")
  /\ UNCHANGED <<machine, called, reached, rebooted>>

-----------------------------------------------------------------------------
(* Reconcile, and the guest. *)

\* Mutant of MachineDone: a machine that is off counts as saved.
MachineDoneWithoutImage(p, j) ==
  machine.defined /\ (IF Kind[p] = "save" THEN machine.state = "stopped" ELSE Meets(p, machine))

\* A state that can be read proves itself; a reboot or removal needs a receipt.
MachineDone(p, j) ==
  CASE Kind[p] = "reboot" -> j \in machineReceipt
    [] Kind[p] = "undefine" -> j \in machineReceipt /\ Meets(p, machine)
    [] Kind[p] = "set" -> machine.defined /\ Editable(p) /\ Meets(p, machine)
    [] OTHER -> machine.defined /\ Meets(p, machine)

GuestShutsDown == machine.state = "running" /\ Become(Stopped(machine)) /\ UNCHANGED rebooted

GuestReboots ==
  LET seen == {j \in Jobs : \E at \in Listening : In(j, at)} IN
  /\ machine.state = "running" /\ seen # {}
  /\ rebooted' = rebooted \cup seen
  /\ UNCHANGED <<machine, reached>>

GuestAnswers ==
  /\ machine.state = "running" /\ machine.memory # machine.target
  /\ Become([machine EXCEPT !.memory = machine.target])
  /\ UNCHANGED rebooted

\* The machine is followed once a plan is about it.
Followed == \E p \in MachinePlans : Planned(p)

GuestActs ==
  /\ Followed
  /\ GuestShutsDown \/ GuestReboots \/ GuestAnswers
  /\ KeepsEngine /\ UNCHANGED <<work, called, machineReceipt>>

\* The host boots again, and its machines that start with it.
MachinesLosePower ==
  LET off == IF machine.state = "stopped" THEN machine ELSE Stopped(machine) IN
  /\ Become(CASE ~Followed -> machine
              [] Followed /\ machine.autostart -> Running(off)
              [] OTHER -> off)
  /\ UNCHANGED <<called, rebooted, machineReceipt>>

MachineWork(j) ==
  \/ CallMachine(j) \/ CallAnswered(j) \/ BootFails(j)
  \/ AskToShutDown(j) \/ SeeShutDown(j) \/ GiveUpShutDown(j)
  \/ CheckEdit(j) \/ DefineEdit(j) \/ ReadEditBack(j)
  \/ SetProcessors(j) \/ AskForMemory(j) \/ SeeMemory(j) \/ AskForMemoryBack(j) \/ SeeMemoryBack(j)
  \/ LiveRefused(j) \/ LiveRechecked(j)
  \/ Subscribe(j) \/ ArmReboot(j) \/ RequestReboot(j) \/ RecordReboot(j)
  \/ RemoveDefinition(j) \/ RecordRemoval(j)

-----------------------------------------------------------------------------
(* What must hold; see Host. *)

\* What was asked for was so at some time since the job was accepted; a guest may
\* have moved on.
MachineAchieved(j) ==
  LET p == jobs[j].planID IN
  IF Kind[p] = "reboot" THEN j \in rebooted ELSE j \in reached \/ Meets(p, machine)

\* Nothing native took effect, or the machine is as it was: a boot left it off, a
\* restoration with its image (a plain start may have used it up), and the memory
\* asked for is the earlier one or what the guest was late to hand over.
MachineUntouched(j) ==
  LET p == jobs[j].planID IN
  \/ j \notin called
  \/ /\ Kind[p] \in {"start", "restore-saved"} /\ machine.state = "stopped"
     /\ Kind[p] = "restore-saved" => machine.saved
  \/ /\ Kind[p] = "set-live"
     /\ machine.state = "running" =>
          /\ machine.cpus = review[p].live[1]
          /\ machine.memory \in {review[p].live[2], machine.target}
=============================================================================
