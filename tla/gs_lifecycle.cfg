SPECIFICATION FairSpec
CONSTANTS
  alice = alice
  bob = bob
  carol = carol
  dev = dev
  ops = ops
  Accounts = {alice, bob}
  Groups = {dev, ops}
  PipeAccounts = {bob}
  Admins = {}
  Auspexes = {}
  Exceeders = {}
  Opers = {}
  MaxGroups = 1
  MaxGroupAcs = 0
  MaxGroupMemos = 1
  EnableOpenGroups = FALSE
  OpersOnly = FALSE
  DefaultVHostAuto = FALSE
  DefaultJoinFlags = {"ACLVIEW", "MEMO"}
  InviteTTL = 0
  DropTTL = 0
  FlagChanges <- NoChanges
  JoinFlagValues <- NoChanges
  Options = {}
  ReadOnlyModes = {TRUE, FALSE}
  MaxTime = 2
  MaxMemos = 0
INVARIANTS
  InvitesNameGroups
PROPERTIES
  DropIsConfirmed
  ExpiredStateIsPurged
  NoMemoDisplaced
  AcknowledgedIsDurable
CHECK_DEADLOCK FALSE
