\* An event of an account fills the memory, one of others does not; rows go out
\* five at a time.
SPECIFICATION Spec
CONSTANTS
  Chans = {"#c"}
  Accounts = {"ann"}
  Messages <- MCMessages
  MaxPending = 9
  MaxRowsPerQuery = 5
  Instants <- MCInstants
  Summer <- MCSummer
  MonthStarts <- MCMonths
  MaxEvents = 2
INVARIANTS
  RowsAddUp
