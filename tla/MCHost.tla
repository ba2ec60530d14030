------------------------------- MODULE MCHost -------------------------------
(***************************************************************************)
(* Two networks that may want one subnet and the resumption of the first;  *)
(* the grants of two users on one file and a revocation; two recipes for   *)
(* one guest; a capture with its backup or a restoration of it, and the    *)
(* recovery of a set captured elsewhere, backed up again; preparations of  *)
(* images and their removal; pairs of operations on one machine; two pools *)
(* that want one folder, and a pool that exists; two edits of a saved      *)
(* definition, with other administrators at work on it.                    *)
(***************************************************************************)
EXTENDS Host, TLC

CONSTANTS ann, bob

MCKind ==
  [p \in Plans |-> CASE p \in {"net1", "net2"} -> "network"
                     [] p = "resume1" -> "network-resume"
                     [] p \in {"grant ann", "grant bob"} -> "grant"
                     [] p = "revoke ann" -> "revoke"
                     [] p \in {"recipe1", "recipe2"} -> "recipe"
                     [] p \in {"backup", "backup again"} -> "backup"
                     [] p \in {"recover", "recover own"} -> "recover"
                     [] p \in {"prepare", "prepare again"} -> "prepare"
                     [] p \in {"memory", "cpus and memory"} -> "set-live"
                     [] p \in {"pool1", "pool2"} -> "pool"
                     [] p = "start old pool" -> "pool-start"
                     [] p \in {"boot and eject", "processors"} -> "hardware"
                     [] p = "add" -> "define-added"
                     [] p = "move" -> "define-moved"
                     [] p = "clone" -> "define-clone"
                     [] OTHER -> p]
MCContinues == [p \in Plans |-> IF p = "resume1" THEN "net1" ELSE p]
MCResourceIDs ==
  [p \in Plans |-> CASE p \in {"net1", "resume1"} -> {"prefixes", "net1"}
                     [] p = "net2" -> {"prefixes", "net2"}
                     [] p \in {"grant ann", "grant bob", "revoke ann"} -> {"file"}
                     [] p \in {"recipe1", "recipe2"} -> {"guest"}
                     [] p = "capture" -> {"guest", "set"}
                     [] p = "backup" -> {"repository", "set"}
                     [] p \in {"recover", "backup again"} -> {"repository", "archived set"}
                     [] p = "recover own" -> {"repository", "own set"}
                     [] p = "restore" -> {"new machine", "set"}
                     [] p \in {"pool1", "pool2"} -> {"pools", p}
                     [] p = "start old pool" -> {"old pool"}
                     [] p \in {"prepare", "prepare again", "discard"} -> {"images folder"}
                     [] OTHER -> {"guest"}]
MCDestination == [p \in Plans |-> "images folder"]
MCSetOf ==
  [p \in Plans |-> CASE p \in {"recover", "backup again"} -> "archived set"
                     [] p = "recover own" -> "own set"
                     [] OTHER -> "set"]
MCSteps ==
  [p \in Plans |-> CASE p \in {"net1", "net2"} -> 3
                     [] p = "resume1" -> 2
                     [] p \in {"recipe1", "recipe2"} -> 4
                     [] p = "pool1" -> 3
                     [] p \in {"discard", "pool2", "start old pool"} -> 2
                     [] OTHER -> 1]
MCConfigurations == {"boot and eject", "processors", "agent", "add", "move", "clone"}
\* Of two like plans it does not matter which is first.  A capture, a grant and
\* the edit of a definition precede what is done with them.
MCTurns ==
  [p \in Plans |-> CASE p \in {"net2", "resume1", "recipe2", "prepare again", "pool2", "cpus and memory"} -> {2}
                     [] p \in {"grant ann", "grant bob"} -> {1, 2}
                     [] p \in {"backup", "restore", "discard"} -> {2}
                     [] p = "revoke ann" -> {3}
                     [] p \in {"net1", "capture", "recipe1", "prepare", "set"} \cup MCConfigurations -> {1}
                     [] OTHER -> {1, 2}]
MCAuthor == [p \in Plans |-> IF p = "grant bob" THEN bob ELSE ann]
MCParts == [p \in Plans |-> IF p = "memory" THEN {"memory"} ELSE {"cpus", "memory"}]
MCPoolOf == [p \in Plans |-> IF p = "start old pool" THEN "old pool" ELSE p]
MCPoolFolder == [x \in {"pool1", "pool2", "old pool"} |-> IF x = "old pool" THEN "/b" ELSE "/a"]
MCGuest == [p \in Plans |-> "guest"]
MCPlanSets ==
  {{"net1", "net2"}, {"net1", "resume1"},
   {"grant ann", "grant bob", "revoke ann"}, {"recipe1", "recipe2"},
   {"capture", "backup"}, {"capture", "restore"}, {"recover", "backup again"}, {"recover own"},
   {"prepare", "prepare again"}, {"prepare", "discard"},
   {"save", "start"}, {"save", "restore-saved"}, {"pause", "resume"}, {"pause", "hard-stop"},
   {"reboot"}, {"stop"}, {"autostart", "undefine"}, {"memory"}, {"set", "cpus and memory"},
   {"pool1", "pool2"}, {"start old pool"},
   {"boot and eject"}, {"processors"}, {"agent", "add"}, {"move", "clone"}}
MCWanted ==
  [p \in Plans |->
     CASE p = "boot and eject" ->
            [cpus |-> Absent, memory |-> Absent, eject |-> "sda",
             boot |-> <<<<"interface", "mac0">>, <<"disk", "vda">>>>]
       [] p = "processors" -> [cpus |-> 3, memory |-> 2, eject |-> NoTarget, boot |-> <<>>]
       [] p = "add" -> [bus |-> "sata", volume |-> "new volume"]
       [] p = "move" -> [target |-> "vda", volume |-> "copy"]
       [] p = "clone" -> [name |-> "twin", copies |-> [vda |-> "copy"]]
       [] OTHER -> Nothing]
MCLetters == [sata |-> <<"sda", "sdb">>, virtio |-> <<"vda", "vdb">>]
MCUnits == [sata |-> 2, virtio |-> 0]

\* A machine that boots by legacy classes, one that boots by device and has a
\* channel and firmware variables, and one without a free PCI slot.
MCDisk ==
  [kind |-> "disk", id |-> "vda", class |-> "disk", bus |-> "virtio", unit |-> NoUnit, type |-> "volume",
   source |-> "system", readonly |-> FALSE, order |-> Absent, bootAt |-> "nowhere"]
MCDrive ==
  [MCDisk EXCEPT !.id = "sda", !.class = "cdrom", !.bus = "sata", !.unit = 0, !.type = "volume",
                 !.source = "installer", !.readonly = TRUE]
MCInterface == [kind |-> "interface", id |-> "mac0", link |-> "up", order |-> Absent, bootAt |-> "nowhere"]
MCController == [kind |-> "controller", type |-> "sata", index |-> 0, ports |-> 6, address |-> 1]
First(x) == [x EXCEPT !.order = 1, !.bootAt = "its place"]
MCLegacy ==
  [name |-> "guest", creation |-> TRUE, nvram |-> "none", policies |-> {}, direct |-> FALSE,
   cpus |-> [max |-> 2, current |-> Absent], memory |-> [count |-> 1, current |-> Absent, unit |-> 1],
   slots |-> 4, legacy |-> <<"cdrom", "hd">>, devices |-> <<MCDisk, MCDrive, MCController, MCInterface>>]
MCPerDevice ==
  [MCLegacy EXCEPT
     !.creation = FALSE, !.nvram = "guest", !.legacy = <<>>,
     !.cpus = [max |-> 4, current |-> 1], !.memory = [count |-> 2, current |-> 2, unit |-> 2],
     !.devices = <<First(MCDisk), MCDrive, MCController, [NewSerial EXCEPT !.address = 2, !.ports = 3],
                   MCInterface, [kind |-> "channel", id |-> "spice", controller |-> 0, port |-> 1]>>]
MCFull == [MCLegacy EXCEPT !.slots = 3]
MCBases == {MCLegacy, MCPerDevice, MCFull}
=============================================================================
