---------------------------- MODULE Definitions ----------------------------
(***************************************************************************)
(* The saved definition of a machine and the edits of it that are reviewed *)
(* (internal/backend/xmlpatch).  The code edits byte spans of the XML that *)
(* libvirt stores; here a definition is a record, its devices in document  *)
(* order, and everything no edit looks at is left out: what an edit keeps  *)
(* it keeps because it is not mentioned.                                   *)
(*                                                                         *)
(* An edit comes as two operators: CanX, everything it refuses, and the    *)
(* definition it gives.  Digest tells apart any two definitions;           *)
(* HardwareDigest those that differ in more than where libvirt writes a    *)
(* boot element.                                                           *)
(***************************************************************************)
EXTENDS Integers, Sequences, FiniteSets

LOCAL INSTANCE Functions

CONSTANTS
  NoSource,   \* a drive without a medium
  NoAddress,  \* a device libvirt has not placed, or an interface without a MAC
  Letters,    \* Letters[bus]: the targets of a bus in order
  Units       \* Units[bus]: how many drives a controller of the bus takes; 0 needs none

Absent == 0                     \* an element the definition does not have
CPUPolicies == {"vcpus", "cputune", "topology", "numa", "numatune"}
MemoryPolicies == {"maxMemory", "memtune", "numatune", "numa", "memory device", "memoryBacking"}

AgentName == "org.qemu.guest_agent.0"
DiskClasses == {"disk", "cdrom", "floppy", "lun"}

IsDisk(x) == x.kind = "disk"
IsInterface(x) == x.kind = "interface"
IsSerial(x) == x.kind = "controller" /\ x.type = "virtio-serial"
IsChannel(x) == x.kind = "channel"
IsAgent(x) == IsChannel(x) /\ x.id = AgentName

Only(d, Test(_)) == SelectSeq(d.devices, Test)
DisksOf(d) == Only(d, IsDisk)
With(d, devices) == [d EXCEPT !.devices = devices]
Each(d, Edit(_)) == With(d, [i \in DOMAIN d.devices |-> Edit(d.devices[i])])
Without(d, Test(_)) == With(d, SelectSeq(d.devices, LAMBDA x : ~Test(x)))

\* No two of s agree in Part.
Distinct(s, Part(_)) == \A i, j \in DOMAIN s : i # j => Part(s[i]) # Part(s[j])

Least(S) == CHOOSE n \in S : \A m \in S : n <= m

-----------------------------------------------------------------------------
(* The processors and the memory the machine starts with. *)

\* EditResources, editVCPUCount: 0 asks for no change.
CanEditResources(d, cpus, memory) ==
  /\ cpus # Absent => d.policies \cap CPUPolicies = {}
  /\ memory # Absent =>
       /\ d.policies \cap MemoryPolicies = {}
       /\ memory % d.memory.unit = 0
       /\ d.memory.current \in {Absent, d.memory.count}

\* Spare processor slots are kept unless the request needs them.
ProcessorsAsked(have, cpus) ==
  IF have.current = Absent \/ cpus >= have.max THEN [max |-> cpus, current |-> Absent]
  ELSE [have EXCEPT !.current = cpus]

MemoryAsked(have, memory) ==
  LET count == memory \div have.unit IN
  [have EXCEPT !.count = count, !.current = IF @ = Absent THEN Absent ELSE count]

ResourcesEdited(d, cpus, memory) ==
  [d EXCEPT !.cpus = IF cpus = Absent THEN @ ELSE ProcessorsAsked(@, cpus),
            !.memory = IF memory = Absent THEN @ ELSE MemoryAsked(@, memory)]

\* ReadResourceValues: what the machine starts with, and its maxima.
ResourceValues(d) ==
  LET Current(x, all) == IF x = Absent THEN all ELSE x IN
  [cpus |-> Current(d.cpus.current, d.cpus.max), maximumCPUs |-> d.cpus.max,
   memory |-> Current(d.memory.current, d.memory.count) * d.memory.unit,
   maximumMemory |-> d.memory.count * d.memory.unit]

-----------------------------------------------------------------------------
(* What it boots from. *)

Bootable(x) == IsDisk(x) \/ IsInterface(x)
BootKey(x) == <<x.kind, x.id>>
BootDevices(d) == Only(d, Bootable)
HasOrder(x) == Bootable(x) /\ x.order # Absent

\* modelBoot: what it cannot address it refuses.
BootModelled(d) ==
  /\ Distinct(BootDevices(d), BootKey)
  /\ Distinct(Only(d, HasOrder), LAMBDA x : x.order)

BootMode(d) ==
  LET ordered == Only(d, HasOrder) # <<>> IN
  CASE d.direct -> "direct-boot"
    [] ~d.direct /\ ordered /\ d.legacy # <<>> -> "conflicting"
    [] ~d.direct /\ ordered /\ d.legacy = <<>> -> "per-device"
    [] ~d.direct /\ ~ordered /\ d.legacy # <<>> -> "legacy-firmware"
    [] OTHER -> "firmware-default"

Selectable(x) ==
  IF IsDisk(x) THEN x.class \in DiskClasses /\ x.source # NoSource ELSE x.link # "down"

\* InspectBoot
BootView(d) ==
  [mode |-> BootMode(d), legacy |-> d.legacy,
   devices |-> [i \in DOMAIN BootDevices(d) |->
                  LET x == BootDevices(d)[i] IN
                  [key |-> BootKey(x), order |-> x.order, selectable |-> Selectable(x)]]]

\* The place of key in the choices, or none.
PlaceIn(choices, key) ==
  LET places == {n \in DOMAIN choices : choices[n] = key} IN
  IF places = {} THEN Absent ELSE Least(places)

\* EditBootOrder
CanOrderBoot(d, choices) ==
  /\ BootModelled(d) /\ BootMode(d) \notin {"direct-boot", "conflicting"}
  /\ Distinct(choices, LAMBDA key : key)
  /\ \A n \in DOMAIN choices : \E x \in Range(BootDevices(d)) : BootKey(x) = choices[n] /\ Selectable(x)

\* A boot element is replaced where it stands, or written at the end of its device.
BootOrdered(d, choices) ==
  LET Order(x) ==
        LET order == PlaceIn(choices, BootKey(x)) IN
        IF ~Bootable(x) THEN x
        ELSE [x EXCEPT !.order = order,
                       !.bootAt = CASE order = Absent -> "nowhere"
                                    [] order # Absent /\ @ = "nowhere" -> "at the end"
                                    [] OTHER -> @] IN
  [Each(d, Order) EXCEPT !.legacy = <<>>]

\* EjectMedia
CanEject(d, target, reordered) ==
  /\ BootModelled(d)
  /\ \E x \in Range(DisksOf(d)) :
       /\ x.id = target /\ x.class = "cdrom" /\ x.readonly /\ x.source # NoSource
       /\ reordered \/ (x.order = Absent /\ "cdrom" \notin Range(d.legacy))

\* libvirt writes an empty drive as one for files; the edit says so itself.
Ejected(d, target) ==
  Each(d, LAMBDA x : IF IsDisk(x) /\ x.id = target THEN [x EXCEPT !.source = NoSource, !.type = "file"] ELSE x)

\* EditHardware: e asks for a number of processors, an amount of memory, a drive
\* to eject and a boot order, each of which may be absent.
NoTarget == ""
AfterResources(d, e) == ResourcesEdited(d, e.cpus, e.memory)
AfterEjection(d, e) ==
  IF e.eject = NoTarget THEN AfterResources(d, e) ELSE Ejected(AfterResources(d, e), e.eject)

CanEditHardware(d, e) ==
  /\ CanEditResources(d, e.cpus, e.memory)
  /\ e.eject # NoTarget => CanEject(AfterResources(d, e), e.eject, e.boot # <<>>)
  /\ e.boot # <<>> => CanOrderBoot(AfterEjection(d, e), e.boot)

HardwareEdited(d, e) ==
  IF e.boot = <<>> THEN AfterEjection(d, e) ELSE BootOrdered(AfterEjection(d, e), e.boot)

-----------------------------------------------------------------------------
(* The channel of the guest agent. *)

Serials(d) == Only(d, IsSerial)
Channels(d) == Only(d, IsChannel)
PortsTaken(d) == {<<x.controller, x.port>> : x \in Range(Channels(d))}

\* modelGuestAgent
AgentModelled(d) ==
  /\ Distinct(Serials(d), LAMBDA x : x.index)
  /\ Distinct(Channels(d), LAMBDA x : x.id)
  /\ Distinct(Channels(d), LAMBDA x : <<x.controller, x.port>>)
  /\ \A x \in Range(Channels(d)) :
       /\ \E c \in Range(Serials(d)) : c.index = x.controller /\ x.port < c.ports
       /\ IsAgent(x) => x.port # 0

AgentPresent(d) == Only(d, IsAgent) # <<>>

\* Port 0 is the console's.
FreePorts(d) ==
  (UNION {{<<c.index, port>> : port \in 1..(c.ports - 1)} : c \in Range(Serials(d))}) \ PortsTaken(d)

\* InspectGuestAgent: the first free port of the first controller that has one.
AgentPlace(d) ==
  IF Serials(d) = <<>> THEN [controller |-> 0, port |-> 1, adds |-> TRUE]
  ELSE LET first == Least({place[1] : place \in FreePorts(d)}) IN
       [controller |-> first, adds |-> FALSE,
        port |-> Least({place[2] : place \in {free \in FreePorts(d) : free[1] = first}})]

CanEnableAgent(d) ==
  /\ AgentModelled(d) /\ ~AgentPresent(d)
  /\ Serials(d) = <<>> \/ FreePorts(d) # {}

NewSerial == [kind |-> "controller", type |-> "virtio-serial", index |-> 0, ports |-> 31, address |-> NoAddress]
AgentChannel(place) ==
  [kind |-> "channel", id |-> AgentName, controller |-> place.controller, port |-> place.port]

\* EnableGuestAgent
AgentEnabled(d) ==
  LET place == AgentPlace(d) IN
  With(d, d.devices \o (IF place.adds THEN <<NewSerial>> ELSE <<>>) \o <<AgentChannel(place)>>)

\* removeGuestAgentAdditions
WithoutAgent(d, place) ==
  Without(d, LAMBDA x : IsAgent(x) \/ (place.adds /\ IsSerial(x) /\ x.index = 0))

-----------------------------------------------------------------------------
(* Its disks. *)

\* diskElements: every disk has a target of its own.
DisksModelled(d) == Distinct(DisksOf(d), LAMBDA x : x.id)

NoUnit == -1
Addressed(bus) == Units[bus] # 0

Targets(d) == {x.id : x \in Range(DisksOf(d))}
UnitsTaken(d, bus) == {x.unit : x \in {y \in Range(DisksOf(d)) : y.bus = bus}} \ {NoUnit}
HasController(d, bus) == \E x \in Range(d.devices) : x.kind = "controller" /\ x.type = bus

\* InspectDiskAddition: the first target and the first unit of the bus that are
\* free.
CanPlaceDisk(d, bus) ==
  /\ DisksModelled(d) /\ \E n \in DOMAIN Letters[bus] : Letters[bus][n] \notin Targets(d)
  /\ Addressed(bus) => HasController(d, bus) /\ 0..(Units[bus] - 1) \ UnitsTaken(d, bus) # {}

DiskPlace(d, bus) ==
  [bus |-> bus,
   target |-> Letters[bus][Least({n \in DOMAIN Letters[bus] : Letters[bus][n] \notin Targets(d)})],
   unit |-> IF Addressed(bus) THEN Least(0..(Units[bus] - 1) \ UnitsTaken(d, bus)) ELSE NoUnit]

\* AddDisk
CanAddDisk(d, place) ==
  /\ DisksModelled(d) /\ place.target \notin Targets(d)
  /\ Addressed(place.bus) => HasController(d, place.bus) /\ place.unit \notin UnitsTaken(d, place.bus)

NewDisk(place, volume) ==
  [kind |-> "disk", id |-> place.target, class |-> "disk", bus |-> place.bus, unit |-> place.unit,
   type |-> "volume", source |-> volume, readonly |-> FALSE, order |-> Absent, bootAt |-> "nowhere"]

DiskAdded(d, place, volume) == With(d, Append(d.devices, NewDisk(place, volume)))

\* WithoutDisk
WithoutDisk(d, target) == Without(d, LAMBDA x : IsDisk(x) /\ x.id = target)

DiskAt(d, target) == CHOOSE x \in Range(DisksOf(d)) : x.id = target
WritableDisk(x) == IsDisk(x) /\ x.class = "disk" /\ ~x.readonly

\* RetargetDisk
CanRetarget(d, target, volume) ==
  /\ DisksModelled(d) /\ target \in Targets(d)
  /\ LET x == DiskAt(d, target) IN
       WritableDisk(x) /\ x.type = "volume" /\ x.source \notin {NoSource, volume}

Retargeted(d, target, volume) ==
  Each(d, LAMBDA x : IF IsDisk(x) /\ x.id = target THEN [x EXCEPT !.source = volume] ELSE x)

\* definitionUsesVolume
Names(d, volume) == \E x \in Range(DisksOf(d)) : x.source = volume

-----------------------------------------------------------------------------
(* Another machine made from it. *)

\* CloneDefinition: change has its name and the copy of each writable disk.
CanClone(d, change) ==
  /\ change.name # d.name
  /\ DOMAIN change.copies = {x.id : x \in {y \in Range(DisksOf(d)) : WritableDisk(y)}}
  /\ \A target \in DOMAIN change.copies : CanRetarget(d, target, change.copies[target])
  /\ ~\E x \in Range(d.devices) : x.kind = "tpm"

Cloned(d, change) ==
  LET Edit(x) ==
        CASE WritableDisk(x) -> [x EXCEPT !.source = change.copies[x.id]]
          [] IsInterface(x) -> [x EXCEPT !.id = NoAddress]
          [] OTHER -> x IN
  [Each(d, Edit) EXCEPT !.name = change.name, !.creation = FALSE, !.nvram = IF @ = "none" THEN "none" ELSE "template"]

\* CloneComparable: without what libvirt assigns to a clone.
CloneComparable(d) ==
  [Each(d, LAMBDA x : IF IsInterface(x) THEN [x EXCEPT !.id = NoAddress] ELSE x)
     EXCEPT !.nvram = IF @ = "none" THEN "none" ELSE "template"]

MACAddresses(d) == {x.id : x \in Range(Only(d, IsInterface))} \ {NoAddress}

-----------------------------------------------------------------------------
(* What two definitions are compared by. *)

Digest(d) == d

HardwareDigest(d) ==
  Each(d, LAMBDA x : IF HasOrder(x) THEN [x EXCEPT !.bootAt = "anywhere"] ELSE x)

\* GuestAgentDigest admits the PCI address libvirt gave the new controller, and no
\* other change.
AddressIsFree(d, c) ==
  Cardinality({i \in DOMAIN d.devices :
                 d.devices[i].kind = "controller" /\ d.devices[i].address = c.address}) = 1

AgentDigestible(d, place) ==
  /\ AgentModelled(d) /\ AgentPresent(d)
  /\ \E x \in Range(Channels(d)) : x = AgentChannel(place)
  /\ place.adds =>
       \E c \in Range(Serials(d)) :
         /\ c.index = 0 /\ c.ports = NewSerial.ports
         /\ c.address = NoAddress \/ AddressIsFree(d, c)

AgentDigest(d, place) == [remaining |-> HardwareDigest(WithoutAgent(d, place)), place |-> place]

-----------------------------------------------------------------------------
(* libvirt keeps the devices of a kind together, a new one after the others, *)
(* writes boot elements at their place, gives what lacks one an address, and  *)
(* adds a PCI controller when the slots do not suffice.                       *)

Grouped(devices) ==
  LET Of(kind) == SelectSeq(devices, LAMBDA x : x.kind = kind) IN
  Of("disk") \o Of("controller") \o Of("interface") \o Of("channel") \o Of("tpm")

OnPCI(x) == x.kind \in {"controller", "interface"} \/ (IsDisk(x) /\ ~Addressed(x.bus))
Crowded(d) == Cardinality({i \in DOMAIN d.devices : OnPCI(d.devices[i])}) > d.slots

\* Addresses are counted from 1.  One device at most lacks an address at a time.
FreeSlot(d) == Least((1..(Len(d.devices) + 1)) \ {x.address : x \in {y \in Range(d.devices) : y.kind = "controller"}})

\* The new controller uses a slot and offers two, at an address of its own.
NewPort(d) ==
  [kind |-> "controller", type |-> "pci", index |-> Len(d.devices), ports |-> 0, address |-> Len(d.devices) + 2]
WithRoom(d) ==
  IF Crowded(d) THEN [With(d, Append(d.devices, NewPort(d))) EXCEPT !.slots = @ + 2] ELSE d

AsKept(d, mac) ==
  LET Placed(x) == IF HasOrder(x) THEN [x EXCEPT !.bootAt = "its place"] ELSE x
      Known(x) ==
        CASE IsInterface(x) /\ x.id = NoAddress -> [x EXCEPT !.id = mac]
          [] x.kind = "controller" /\ x.address = NoAddress -> [x EXCEPT !.address = FreeSlot(d)]
          [] OTHER -> x IN
  [Each(With(WithRoom(d), Grouped(WithRoom(d).devices)), LAMBDA x : Known(Placed(x)))
     EXCEPT !.nvram = IF @ = "template" THEN d.name ELSE @]
=============================================================================
