CONSTANTS
  Setups <- MCSetups
  N = 2
  D = 1
  Lines = {0, 1}
  Burst = 2
  MaxWait = 1
SPECIFICATION Spec
INVARIANTS RightWord BookingSound
PROPERTY Served
