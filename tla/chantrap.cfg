SPECIFICATION Spec
CONSTANTS
  u1 = u1
  u2 = u2
  h1 = h1
  c1 = c1
  c2 = c2
  w1 = w1
  d1 = d1
  d2 = d2
  b1 = b1
  Users = {u1}
  Hosts = {h1}
  HostOf <- HostsOf
  Opers = {}
  Chans = {c1, c2}
  Wild = {w1}
  Covers <- MaskedBy
  OperServ = OperServ
  BotServBots = {b1}
  Addr = {d1, d2}
  MaxBots = 4
  BotCounts = {0, 3, 4}
  CreateBots = TRUE
  MaxCount = 2
  KickAgain = FALSE
SYMMETRY Symmetry
INVARIANTS
  ClientsAreCounted
  
  
