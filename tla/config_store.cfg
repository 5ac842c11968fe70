CONSTANTS
  Lenses = {l1, l2}
  Defaults = {l1}
  MaxVersion = 3
  Absent = Absent
  Torn = Torn
SPECIFICATION Spec
INVARIANT SettingsSurvive
CHECK_DEADLOCK FALSE
