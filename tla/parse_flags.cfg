SPECIFICATION LoopSpec
CONSTANTS
  Inputs <- MCInputs
  Currents <- MCCurrents
INVARIANTS
  ComputesLastWord
CHECK_DEADLOCK FALSE
