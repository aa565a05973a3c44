SPECIFICATION Spec
CONSTANTS
  Items = {"g1", "g2", "i1"}
INVARIANTS
  SaveInv

  
