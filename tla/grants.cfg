\* Three channels whose lists name each other in every way, a group or two
\* entries at a time.
SPECIFICATION SearchSpec
CONSTANTS
  Channels = {c1, c2, c3}
  Groups = {g}
  Other = other
  MAX_DEPTH = 2
  Lists <- MCLists
INVARIANTS
  YesIsEarned
  NoIsFinal
SYMMETRY Sym
