SPECIFICATION FairSpec
CONSTANTS
  Users = {"u1", "u2"}
  Ulined = {}
  Registrants = {"u1"}
  Admins = {"admin"}
  Auspexes = {}
  ChannelModes = {"BAN"}
  StaffFlags = {"nofix", "marked"}
  Configs <- MCConfigs
  OpThreshold = 2
  MinFixScore = 2
  ExpireDivisor = 4
  AccountWeight = 150
  InitialStep = 70
  FinalStep = 30
  FixTime = 1
  RetentionTime = 1
  MaxScore = 1000
  MaxAge = 2
INVARIANTS
  IInv
PROPERTIES
  OpsAreEarned
  TakeoverReversal
  HistoryOnlyExpires
  LiveHistoryKept
  OplessIsFixed
  FixesEnd
