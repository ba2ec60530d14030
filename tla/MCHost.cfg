\* One subsystem per behaviour, each of its plans applied in any order.
SPECIFICATION HostSpec
CONSTANTS
  Jobs = {j1, j2, j3}
  Keys = {k1, k2, k3}
  ann = ann bob = bob
  Principals = {ann, bob}
  Plans = {"net1", "net2", "resume1", "grant ann", "grant bob", "revoke ann", "recipe1", "recipe2",
           "capture", "backup", "restore", "recover", "recover own", "backup again",
           "prepare", "prepare again", "discard",
           "start", "stop", "hard-stop", "pause", "resume", "save", "restore-saved", "set",
           "memory", "cpus and memory", "reboot", "autostart", "undefine",
           "pool1", "pool2", "start old pool",
           "boot and eject", "processors", "agent", "add", "move", "clone"}
  RecoveryPlans = {"resume1"}
  Retaining = {"net1", "net2", "resume1", "recipe1", "recipe2", "pool1", "pool2", "start old pool"}
  Resources = {"prefixes", "net1", "net2", "file", "guest",
               "set", "archived set", "own set", "repository", "new machine", "images folder", "pools", "pool1", "pool2", "old pool"}
  ResourceIDs <- MCResourceIDs
  Steps <- MCSteps
  Author <- MCAuthor
  Kind <- MCKind
  Turns <- MCTurns
  PlanSets <- MCPlanSets
  Continues <- MCContinues
  GuestOnly = {"net2"}
  Subnets = {"192.0.2.0/24", "198.51.100.0/24"}
  Guest <- MCGuest
  SetOf <- MCSetOf
  Archived = {"archived set", "own set"}
  TakenHere = {"own set"}
  DiskCount = 2
  MaxWrites = 1
  Nothing = Nothing
  Destination <- MCDestination
  PieceCount = 2
  Parts <- MCParts
  PoolOf <- MCPoolOf
  PoolFolder <- MCPoolFolder
  MaxEdits = 1
  Wanted <- MCWanted
  Letters <- MCLetters
  Units <- MCUnits
  Bases <- MCBases
  MACs = {"mac0", "mac1"}
  MaxMeddling = 1
  NoDefinition = NoDefinition NoPlace = NoPlace NoSource = NoSource NoAddress = NoAddress
  NoJob = NoJob NoRow = NoRow NoEntry = NoEntry NoRequest = NoRequest
  NoCall = NoCall NoRecord = NoRecord NoIntent = NoIntent Unplanned = Unplanned
  WritesMayFail = FALSE
  MaxCancels = 1
  MaxNotes = 0
INVARIANTS
  ActiveNetworksAreFiltered
  SubnetsAreExclusive
  GrantsAreKept
  ScriptsRunAsReviewed
  SetsAreTrue
  OfferedCopiesAreTrue
  EditsAreConfirmed
PROPERTY
  HostOutcomesAreTrue
