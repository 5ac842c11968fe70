CONSTANTS
  Lenses = {lens1, lens2}
  Models = {helmet, person}
  MaxPipes = 2
  MaxCrashes = 1
  MaxCalls = 1
  None = None
SPECIFICATION Spec
INVARIANTS InferenceConsistent StoppedStays
CHECK_DEADLOCK FALSE
PROPERTY FeedComesBack
