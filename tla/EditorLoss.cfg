CONSTANTS
  Previews = {1, 2}
  Sizes = {1, 2}
  MaxPreviews = 4
  MaxOpens = 2
  MaxFaults = 1
SPECIFICATION EditorSpec
INVARIANTS GenerationsIncrease TargetIsRegistered ShownIsOpen
CHECK_DEADLOCK FALSE
