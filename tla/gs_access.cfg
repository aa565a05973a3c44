SPECIFICATION Spec
SYMMETRY UserSymmetry
CONSTANTS
  alice = alice
  bob = bob
  carol = carol
  dev = dev
  ops = ops
  Accounts = {alice, bob, carol}
  Groups = {dev}
  PipeAccounts = {}
  Admins = {carol}
  Auspexes = {}
  Exceeders = {}
  Opers = {}
  MaxGroups = 1
  MaxGroupAcs = 2
  MaxGroupMemos = 0
  EnableOpenGroups = TRUE
  OpersOnly = FALSE
  DefaultVHostAuto = FALSE
  DefaultJoinFlags = {"ACLVIEW"}
  InviteTTL = 0
  DropTTL = 0
  FlagChanges <- AccessChanges
  JoinFlagValues <- SomeJoinFlags
  Options = {"OPEN", "ACSNOLIMIT"}
  ReadOnlyModes = {FALSE}
  MaxTime = 1
  MaxMemos = 0
INVARIANTS
  EveryGroupHasFounder
  FoundersAreManagers
PROPERTIES
  BannedStaysOut
  GrowthPastLimit
  RestartRestoresDisk
CHECK_DEADLOCK FALSE
