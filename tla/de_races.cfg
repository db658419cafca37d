SPECIFICATION Spec
CONSTANTS
  Findings <- Three
  FixOf <- TheFix
  Overlapping <- XandY
  Unvetted = {}
  Recipes = {"a", "b", "v"}
  Audio = {"v"}
  Current = "a"
  Runners = {p, q}
  Bounds <- Slices
CHECK_DEADLOCK FALSE
SYMMETRY Runs
INVARIANTS OneFixPerText
PROPERTIES DuplicatesFollow PersonStands UndoIsComplete
