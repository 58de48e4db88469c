SPECIFICATION Spec
CONSTANTS
  Setups <- AllSetups
  Gap = 4
INVARIANTS OutputRight ReadyForPush
PROPERTY ProgramsGoOn
