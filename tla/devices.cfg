SPECIFICATION MCSpec
CONSTANTS
  Tasks = {t1, t2}
  Blocks = {b1, b2}
  Words = {w1, w2}
  NoWord = none
  MaxAccesses = 2
  AtaPolls = 1
  AtaRetries = 0
  CapSlots = 2
  MaxCommands = 3
  Letters = {a}
  Enter = enter
  Backspace = backspace
  Silent = silent
  Beyond = beyond
  Shifts = {left, right}
  Limit = 1
  MaxPresses = 2
  MaxHeld = 2
INVARIANTS
  DevicesTypeOK
  AtaTellsTheTruth
  AhciTellsTheTruth
  EhciTellsTheTruth
PROPERTIES
  EveryAccessEnds
  KeysAreKept
  NoKeyWaits
CHECK_DEADLOCK FALSE
