SPECIFICATION Spec
CONSTANTS
  Setups <- RepeatSetups
  Gap = 4
INVARIANTS OutputOfAllSamples
