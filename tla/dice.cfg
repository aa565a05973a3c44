\* Every text of up to 4 symbols, all expressions of 5 and chosen longer ones.  The limits keep the
\* order of the real ones: 99999 dice, sides and sets, int, unsigned, double.
SPECIFICATION Spec
CONSTANTS
  Requests <- MCRequests
  DiceMaxTimes = 2
  DiceMaxDice = 3
  DiceMaxSides = 100
  IntMax = 127
  UnsignedSize = 256
  DoubleMax = 10000
  ConstantValue = 3
  Numbers = {"2"}
  Names = {"e", "abs"}
  Longest = 5
  LongestGarbled = 4
INVARIANTS
  
  
  StacksHoldWhatIsRead
