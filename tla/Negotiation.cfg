CONSTANTS
  MaxChanges = 2
  Losses <- AllLosses
  Runtimes <- AllRuntimes
  Options <- AllOptions
SPECIFICATION Spec
INVARIANTS VrKept BlendShown ProfileChosen
