SPECIFICATION Spec
CONSTANTS
  Pids = {1, 2, 3}
  Confusable = {1}
  Scripts = {s1, s2}
  MaxFaults = 2
  MaxCommands = 1
  MaxOverlaps = 1
INVARIANTS TypeOK
PROPERTIES OnlyLateOnesEscape ServiceComesBack
