SPECIFICATION Spec
CONSTANTS
  e1 = e1
  e2 = e2
  u1 = u1
  u2 = u2
  c1 = c1
  bad = bad
  good = good
  badMask = badMask
  chanMask = chanMask
  Addr = {e1, e2}
  Users = {u1, u2}
  Chans = {c1}
  ULined = {u2}
  Idents = {bad, good}
  UserMasks = {badMask}
  ChanMasks = {chanMask}
  Covers <- Matching
  FlagSets <- FlagChoice
  Lifetimes <- LifeChoice
  Excludes <- Exclusions
SYMMETRY Symmetry
INVARIANTS
  MapsAgree
  ListIsSound
PROPERTIES
  NumbersNameEntries
  WatchIsKept
  ReportsAreDue
