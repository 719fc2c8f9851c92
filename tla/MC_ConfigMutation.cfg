SPECIFICATION Spec
CONSTANTS
  d1 = d1
  rest1 = rest1
  restore1 = restore1
  restore2 = restore2
  None = None
  Mutators = {d1, rest1}
  Cancellable = {rest1}
  Replacers = {restore1, restore2}
  MaxCrashes = 1
INVARIANTS
  EditsNeverStale
  SavedEditsSurvive
  FrontEndConverges
CHECK_DEADLOCK FALSE
