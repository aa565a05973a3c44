SPECIFICATION FairSpec
CONSTANTS
  Owners = {"A"}
  Names = {"ann"}
  NamesOf <- OneName
  TicketExpire = 1
  HelpMeCooldown = 0
  RequestCooldown = 0
  PruneInterval = 0
  PruneTTL = 0
  PruneMaxSize = 0
  ReadOnlyModes = {TRUE, FALSE}
  MaxId = 3
  MaxAge = 1
PROPERTIES
  ChangesAreScheduled
  SavedInTheEnd
