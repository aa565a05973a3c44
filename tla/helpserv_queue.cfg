SPECIFICATION Spec
CONSTANTS
  Owners = {"A", "B"}
  Names = {"ann", "bob"}
  NamesOf <- OneName
  TicketExpire = 1
  HelpMeCooldown = 1
  RequestCooldown = 2
  PruneInterval = 1
  PruneTTL = 1
  PruneMaxSize = 2
  ReadOnlyModes = {TRUE}
  MaxId = 3
  MaxAge = 2
INVARIANTS
  IInv
PROPERTIES
  NoOvertaking
  ExpiredStaysExpired
  CooldownsHold
