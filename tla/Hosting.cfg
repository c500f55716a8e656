SPECIFICATION Spec
CONSTANTS
  Worlds = {w1, w2}
  Grace = 1
  Hang = 1
  MaxRestarts = 1
  Hour = 3
  Mixes <- Alone
SYMMETRY Alike
INVARIANTS TypeOK SavingResumes OwnWorldsKept
PROPERTIES WorldsWhole JarsAtRest  KillsOnlySilent
