SPECIFICATION Spec
CONSTANTS
  LocalTys <- FiveLocals
  Alphabets <- AllAlphabets
  Consts = {0, 1}
  MaxHeight = 4
  DebugAssertions = FALSE
  Avoid = {"eqz_select", "skip", "loop", "end_if", "br_table", "store"}
INVARIANTS ValuesHeld EffectsInOrder RegistersOwned RunsTranslated
