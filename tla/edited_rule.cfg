\* One symbol, two limits; the rule is edited while the process runs.
CONSTANTS
  Watchable = {w1}
  EnvWatchlist = {w1}
  Limits = {1, 2}
  EnvLimit = 2
  Editors = {e1}
  MaxRows = 2
SPECIFICATION SettingsSpec
INVARIANT JudgedByStoredRules
CHECK_DEADLOCK FALSE
