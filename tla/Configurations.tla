--------------------------- MODULE Configurations ---------------------------
(***************************************************************************)
(* Changes of the saved definition of a machine: processors, memory, media *)
(* and boot order for its next start, the channel of the guest agent       *)
(* (internal/app/service.go, internal/backend/libvirt/configuration_linux) *)
(* and the step that defines an added disk, a moved disk or a clone, once  *)
(* its volumes are ready (their other steps are in Disks).                 *)
(*                                                                         *)
(* libvirt replaces a whole definition and cannot compare first.  Other    *)
(* administrators define the machine, start it and stop it at any time,    *)
(* though the plans ask them not to; what the read-back must notice.       *)
(***************************************************************************)
EXTENDS Handlers, Definitions

CONSTANTS
  Wanted,        \* Wanted[p]: what plan p asks for
  Bases,         \* bound: the definitions the machine may have at first
  MACs,          \* bound: the addresses libvirt generates
  MaxMeddling,   \* bound on what other administrators do
  NoDefinition,  \* there is no such machine; or it is not running
  NoPlace        \* nothing had to be placed

ConfigurationKinds == {"hardware", "agent", "define-added", "define-moved", "define-clone"}
ConfigurationPlans == {p \in Plans : Kind[p] \in ConfigurationKinds}

\* Those that are steps of a larger job have a receipt by then.
DefiningKinds == {"define-added", "define-moved", "define-clone"}

ASSUME ConfigurationPlansAreComplete ==
  /\ NoDefinition \notin Bases
  /\ \A p \in ConfigurationPlans : Steps[p] = 1 /\ p \notin RecoveryPlans \cup Retaining

VARIABLES
  saved,      \* the saved definition of the machine
  live,       \* the definition it runs with, or NoDefinition
  basis,      \* what the job at work read last: saved and live
  clone,      \* the saved definition of its clone, or NoDefinition
  readied,    \* jobs with a receipt that their volumes are ready
  defined,    \* history: jobs whose definition took effect
  fulfilled,  \* history: jobs it was as reviewed for, since they were applied
  author,     \* history: whose definition the saved one or the clone is, or NoJob
  meddling    \* how often other administrators acted

configurations == <<saved, live, basis, clone, readied, defined, fulfilled, author, meddling>>

Off == live = NoDefinition
Shown == [saved |-> saved, live |-> live]

ConfigurationsTypeOK ==
  /\ readied \subseteq Jobs /\ defined \subseteq Jobs /\ fulfilled \subseteq Jobs
  /\ author \in Jobs \cup {NoJob} /\ meddling \in 0..MaxMeddling
  /\ saved # NoDefinition => BootModelled(saved) /\ DisksModelled(saved) /\ AgentModelled(saved)

ConfigurationsInit ==
  /\ saved = NoDefinition /\ live = NoDefinition /\ basis = Shown /\ clone = NoDefinition
  /\ readied = {} /\ defined = {} /\ fulfilled = {} /\ author = NoJob /\ meddling = 0

-----------------------------------------------------------------------------
(* Review: what the edit is computed from, and what is confirmed by. *)

\* What planning resolves from the definition it sees.
Resolved(p, d) ==
  CASE Kind[p] = "agent" -> AgentPlace(d)
    [] Kind[p] = "define-added" -> DiskPlace(d, Wanted[p].bus)
    [] OTHER -> NoPlace

CanResolve(p, d) ==
  CASE Kind[p] = "agent" -> CanEnableAgent(d)
    [] Kind[p] = "define-added" -> CanPlaceDisk(d, Wanted[p].bus)
    [] OTHER -> TRUE

CanApply(p, d, place) ==
  CASE Kind[p] = "hardware" -> CanEditHardware(d, Wanted[p])
    [] Kind[p] = "agent" -> CanEnableAgent(d) /\ AgentPlace(d) = place
    [] Kind[p] = "define-added" -> CanAddDisk(d, place)
    [] Kind[p] = "define-moved" -> CanRetarget(d, Wanted[p].target, Wanted[p].volume)
    [] Kind[p] = "define-clone" -> CanClone(d, Wanted[p])

\* configurationXML
EditOf(p, d, place) ==
  CASE Kind[p] = "hardware" -> HardwareEdited(d, Wanted[p])
    [] Kind[p] = "agent" -> AgentEnabled(d)
    [] Kind[p] = "define-added" -> DiskAdded(d, place, Wanted[p].volume)
    [] Kind[p] = "define-moved" -> Retargeted(d, Wanted[p].target, Wanted[p].volume)
    [] Kind[p] = "define-clone" -> Cloned(d, Wanted[p])

\* hardwareRequest: an edit of resources alone is confirmed byte for byte.
ResourcesOnly(p) == Wanted[p].eject = NoTarget /\ Wanted[p].boot = <<>>

\* What the definition is compared by once it was stored.
DigestFor(p, d, place) ==
  CASE Kind[p] = "hardware" -> IF ResourcesOnly(p) THEN Digest(d) ELSE HardwareDigest(d)
    [] Kind[p] = "agent" -> AgentDigest(d, place)
    [] Kind[p] = "define-added" -> HardwareDigest(WithoutDisk(d, place.target))
    [] Kind[p] = "define-clone" -> HardwareDigest(CloneComparable(d))
    [] OTHER -> HardwareDigest(d)

\* persistentEdit: reviewed while the machine ran.
Persistent(p) == Kind[p] = "hardware" /\ review[p].live # NoDefinition

\* editBaseMatches, or the fingerprint, which covers what runs.
BaseMatches(p) ==
  IF Persistent(p) THEN Digest(saved) = Digest(review[p].base)
  ELSE saved = review[p].base /\ live = review[p].live

EditableState(p) == Persistent(p) \/ Off

ConfigurationValid(p, owner) ==
  /\ BaseMatches(p) /\ EditableState(p)
  /\ CanApply(p, saved, review[p].place)
  /\ Kind[p] = "define-clone" => clone = NoDefinition

\* The first plan finds a machine of some definition, which may be running.
PlanConfiguration(p) ==
  /\ \E d \in IF saved = NoDefinition THEN Bases ELSE {saved} :
     \E running \in IF saved = NoDefinition THEN {NoDefinition, d} ELSE {live} :
       LET place == Resolved(p, d) IN
       /\ CanResolve(p, d) /\ CanApply(p, d, place)
       /\ Kind[p] # "hardware" => running = NoDefinition
       /\ saved' = d /\ live' = running
       /\ StorePlan(p, [base |-> d, live |-> running, place |-> place,
                        expected |-> DigestFor(p, EditOf(p, d, place), place)])
  /\ UNCHANGED <<basis, clone, readied, defined, fulfilled, author, meddling>>

-----------------------------------------------------------------------------
(* How a stored definition is confirmed. *)

\* configurationMatches
Matches(p, d) ==
  /\ Kind[p] = "agent" => AgentDigestible(d, review[p].place)
  /\ DigestFor(p, d, review[p].place) = review[p].expected

\* Mutant of Added: whatever is at the target is the disk that was added.
AddedByTarget(p, d) == review[p].place.target \in Targets(d)

\* Mutant of Added: libvirt keeps the document as it was written.
AddedInPlace(p, d) == HardwareDigest(d) = HardwareDigest(EditOf(p, review[p].base, review[p].place))

\* addedDiskState: the reviewed definition and one disk more, wherever libvirt
\* filed it.
Added(p, d) ==
  LET target == review[p].place.target IN
  /\ target \in Targets(d) /\ Matches(p, d)
  /\ DiskAt(d, target).source = Wanted[p].volume /\ DiskAt(d, target).type = "volume"

\* The definition names the copy alone.
NamesCopy(p, d) ==
  /\ Names(d, Wanted[p].volume)
  /\ ~Names(d, DiskAt(review[p].base, Wanted[p].target).source)

ClonedVolumes(p, d) ==
  \A target \in DOMAIN Wanted[p].copies : Names(d, Wanted[p].copies[target])
OriginalVolumes(p, d) ==
  \E target \in DOMAIN Wanted[p].copies : Names(d, DiskAt(review[p].base, target).source)

\* liveResourcesKept and liveBootKept
LiveKept(before, after) ==
  before # NoDefinition /\ after # NoDefinition =>
    /\ ResourceValues(before).cpus = ResourceValues(after).cpus
    /\ ResourceValues(before).maximumMemory = ResourceValues(after).maximumMemory
    /\ BootView(before) = BootView(after)

\* DefineMovedDisk changes what it finds then; the others found what was reviewed.
Basis(p) == IF Kind[p] = "define-moved" THEN basis.saved ELSE review[p].base

\* What each define call demands of the definition it reads back.
ReadBackConfirms(p) ==
  CASE Kind[p] = "hardware" -> EditableState(p) /\ Matches(p, saved) /\ LiveKept(basis.live, live)
    [] Kind[p] = "agent" -> EditableState(p) /\ Matches(p, saved)
    [] Kind[p] = "define-added" -> Off /\ Added(p, saved)
    [] Kind[p] = "define-moved" ->
         /\ Off /\ NamesCopy(p, saved)
         /\ HardwareDigest(saved) = HardwareDigest(EditOf(p, Basis(p), NoPlace))
    [] Kind[p] = "define-clone" ->
         /\ clone.name = Wanted[p].name /\ Matches(p, clone)
         /\ MACAddresses(clone) \cap MACAddresses(review[p].base) = {}
         /\ ClonedVolumes(p, clone) /\ ~OriginalVolumes(p, clone)

\* Reconcile: observeConfiguration, and what the three others ask the provider.
\* A moved disk and a clone are known by the volumes they name.
ConfigurationDone(p, j) ==
  CASE Kind[p] \in {"hardware", "agent"} -> EditableState(p) /\ Matches(p, saved)
    [] Kind[p] = "define-added" -> j \in readied /\ Off /\ Added(p, saved)
    [] Kind[p] = "define-moved" -> j \in readied /\ Off /\ NamesCopy(p, saved)
    [] Kind[p] = "define-clone" ->
         /\ j \in readied /\ BaseMatches(p)
         /\ clone # NoDefinition /\ clone.name = Wanted[p].name /\ ClonedVolumes(p, clone)

-----------------------------------------------------------------------------
(* What was reviewed, said without the edit: the machine as it was, and what  *)
(* the request asks for.                                                      *)

\* Where libvirt writes what, and where it placed a controller, is not the guest's.
Guise(x) ==
  CASE Bootable(x) -> [x EXCEPT !.bootAt = "anywhere"]
    [] x.kind = "controller" -> [x EXCEPT !.address = NoAddress]
    [] OTHER -> x
Guises(d) == {Guise(d.devices[i]) : i \in DOMAIN d.devices}

\* Every identity is given once.
Unambiguous(d) ==
  /\ BootModelled(d) /\ DisksModelled(d) /\ AgentModelled(d)
  /\ Distinct(SelectSeq(d.devices, LAMBDA x : IsDisk(x) /\ x.unit # NoUnit), LAMBDA x : <<x.bus, x.unit>>)

\* The devices of the machine but for the parts an edit of hardware may touch.
Chassis(d) ==
  {IF Bootable(x) THEN [x EXCEPT !.order = Absent] ELSE x : x \in Guises(d)}

HardwareFulfilled(p, b, d) ==
  LET r == Wanted[p]
      have == ResourceValues(b)
      v == ResourceValues(d)
      Emptied(x) ==
        IF IsDisk(x) /\ x.id = r.eject THEN [x EXCEPT !.source = NoSource, !.type = "file"] ELSE x IN
  /\ v.cpus = (IF r.cpus = Absent THEN have.cpus ELSE r.cpus)
  /\ b.cpus.current # Absent => v.maximumCPUs >= have.maximumCPUs
  /\ v.memory = (IF r.memory = Absent THEN have.memory ELSE r.memory)
  /\ r.memory # Absent => v.maximumMemory = r.memory
  /\ Chassis(d) = {Emptied(x) : x \in Chassis(b)}
  /\ IF r.boot = <<>> THEN BootMode(d) = BootMode(b) /\ d.legacy = b.legacy
     ELSE /\ d.legacy = <<>>
          /\ {<<x.order, BootKey(x)>> : x \in {y \in Guises(d) : HasOrder(y)}}
               = {<<n, r.boot[n]>> : n \in DOMAIN r.boot}

\* The devices it gained, of the kinds an edit adds.
Gained(b, d) == Guises(d) \ Guises(b)
OneMore(b, d, n) == Guises(b) \subseteq Guises(d) /\ Len(d.devices) = Len(b.devices) + n

AgentFulfilled(p, b, d) ==
  LET added == IF Serials(b) = <<>> THEN 2 ELSE 1 IN
  /\ OneMore(b, d, added)
  /\ \E x \in Gained(b, d) : IsAgent(x) /\ x.port # 0 /\ <<x.controller, x.port>> \notin PortsTaken(b)

AddedFulfilled(p, b, d) ==
  /\ OneMore(b, d, 1)
  /\ \E x \in Gained(b, d) :
       WritableDisk(x) /\ x.source = Wanted[p].volume /\ x.bus = Wanted[p].bus /\ x.id \notin Targets(b)

MovedFulfilled(p, b, d) ==
  LET Now(x) ==
        IF IsDisk(x) /\ x.id = Wanted[p].target THEN [x EXCEPT !.source = Wanted[p].volume] ELSE x IN
  Guises(d) = {Now(x) : x \in Guises(b)}

\* That its addresses are its own is asked of the read-back only.
CloneFulfilled(p, b, d) ==
  LET Body(x) ==
        CASE WritableDisk(x) -> [x EXCEPT !.source = NoSource]
          [] IsInterface(x) -> [x EXCEPT !.id = NoAddress]
          [] OTHER -> x
      Bodies(c) == {Body(x) : x \in Guises(c)} IN
  /\ d.name = Wanted[p].name /\ ~d.creation
  /\ Bodies(d) = Bodies(b)
  /\ \A x \in Guises(d) :
       WritableDisk(x) => x.source = Wanted[p].copies[x.id] /\ ~Names(b, x.source)
  /\ d.nvram = "none" \/ d.nvram # b.nvram

Fulfils(p, b, d) ==
  /\ Unambiguous(d)
  /\ CASE Kind[p] = "hardware" -> HardwareFulfilled(p, b, d)
       [] Kind[p] = "agent" -> AgentFulfilled(p, b, d)
       [] Kind[p] = "define-added" -> AddedFulfilled(p, b, d)
       [] Kind[p] = "define-moved" -> MovedFulfilled(p, b, d)
       [] Kind[p] = "define-clone" -> CloneFulfilled(p, b, d)

\* The one that a plan is about.
Defines(p) == IF Kind[p] = "define-clone" THEN clone ELSE saved

-----------------------------------------------------------------------------
(* Execute *)

ConfigurationStep(j, kinds, at) == In(j, at) /\ Kind[PlanOf(j)] \in kinds /\ KeepsEngine
KeepsMachine == UNCHANGED <<saved, live, clone, defined, fulfilled, author, meddling>>

\* Its volumes are filled and verified, and the receipt says so.
ReadyVolumes(j) ==
  /\ ConfigurationStep(j, DefiningKinds, "idle")
  /\ readied' = readied \cup {j} /\ Go(j, "check")
  /\ KeepsMachine /\ UNCHANGED basis

\* checkConfiguration; checkDiskMove, CheckDiskAddition, cloneState.
CheckDefinition(j) ==
  /\ \/ ConfigurationStep(j, {"hardware", "agent"}, "idle")
     \/ ConfigurationStep(j, DefiningKinds, "check")
  /\ ConfigurationValid(PlanOf(j), j)
  /\ Go(j, "base")
  /\ KeepsMachine /\ UNCHANGED <<basis, readied>>

\* Read once more, and the edit computed from this reading.  DefineMovedDisk
\* does not compare it with the review again.
ReadBase(j) ==
  LET p == PlanOf(j) IN
  /\ ConfigurationStep(j, ConfigurationKinds, "base")
  /\ IF Kind[p] = "define-moved" THEN Off /\ CanApply(p, saved, NoPlace) ELSE ConfigurationValid(p, j)
  /\ basis' = Shown /\ Go(j, "define")
  /\ KeepsMachine /\ UNCHANGED readied

\* DomainDefineXMLFlags replaces what is saved by now.
DefineConfiguration(j) ==
  LET p == PlanOf(j)
      written == EditOf(p, basis.saved, review[p].place) IN
  /\ ConfigurationStep(j, ConfigurationKinds, "define")
  /\ \E mac \in MACs :
       LET d == AsKept(written, mac) IN
       /\ IF Kind[p] = "define-clone" THEN clone' = d /\ UNCHANGED saved ELSE saved' = d /\ UNCHANGED clone
       /\ fulfilled' = IF Fulfils(p, Basis(p), d) THEN fulfilled \cup {j} ELSE fulfilled
  /\ defined' = defined \cup {j} /\ author' = j
  /\ Go(j, "read back")
  /\ UNCHANGED <<live, basis, readied, meddling>>

ReadDefinitionBack(j) ==
  /\ ConfigurationStep(j, ConfigurationKinds, "read back")
  /\ Go(j, IF ReadBackConfirms(PlanOf(j)) THEN "ok" ELSE "error")
  /\ KeepsMachine /\ UNCHANGED <<basis, readied>>

-----------------------------------------------------------------------------
(* Other administrators, and the host. *)

Enlarged(d) == [d EXCEPT !.memory.count = @ + 1, !.memory.current = IF @ = Absent THEN Absent ELSE @ + 1]

\* What virsh edit may make of it.
OtherEdits(d) ==
  {Enlarged(d)} \cup
  {DiskAdded(d, DiskPlace(d, bus), "their volume") : bus \in {b \in DOMAIN Units : CanPlaceDisk(d, b)}}

Meddles == saved # NoDefinition /\ meddling < MaxMeddling /\ meddling' = meddling + 1

OthersDefine ==
  /\ Meddles
  /\ \E d \in OtherEdits(saved) : \E mac \in MACs : saved' = AsKept(d, mac)
  /\ author' = NoJob
  /\ UNCHANGED <<live, basis, clone, readied, defined, fulfilled>>

OthersSwitch ==
  /\ Meddles
  /\ live' = IF Off THEN saved ELSE NoDefinition
  /\ UNCHANGED <<saved, basis, clone, readied, defined, fulfilled, author>>

OthersMeddle == (OthersDefine \/ OthersSwitch) /\ KeepsEngine /\ UNCHANGED work

ConfigurationsLosePower ==
  /\ live' = NoDefinition
  /\ UNCHANGED <<saved, basis, clone, readied, defined, fulfilled, author, meddling>>

ConfigurationWork(j) ==
  ReadyVolumes(j) \/ CheckDefinition(j) \/ ReadBase(j) \/ DefineConfiguration(j) \/ ReadDefinitionBack(j)

-----------------------------------------------------------------------------
(* What must hold; see Host. *)

\* The machine was as it had been reviewed, but for what the request asks for.
ConfigurationAchieved(j) ==
  LET p == jobs[j].planID IN
  j \in fulfilled \/ (Defines(p) # NoDefinition /\ Fulfils(p, review[p].base, Defines(p)))

ConfigurationUntouched(j) == j \notin defined

\* A definition nobody else has changed is recognised as the one that was
\* reviewed, in whatever form libvirt keeps it: an edit without disturbance does
\* not end in doubt, nor does it when its answer was lost and it is looked for
\* later (configurationMatches, addedDiskState, CloneComparable,
\* observeConfiguration).  But for a device that needed a PCI controller more, which
\* no comparison admits (GuestAgentDigest).
EditsAreConfirmed ==
  author # NoJob =>
    LET p == jobs[author].planID IN
    /\ EditableState(p)
    /\ ~Crowded(EditOf(p, review[p].base, review[p].place))
    /\ Kind[p] = "define-clone" =>
         BaseMatches(p) /\ MACAddresses(clone) \cap MACAddresses(saved) = {}
    => /\ ConfigurationDone(p, author)
       /\ In(author, "read back") => ReadBackConfirms(p)
=============================================================================
