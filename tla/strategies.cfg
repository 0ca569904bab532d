\* Activations overlap each other; an edit or a deletion overlaps reloads only.
CONSTANTS
  MaxStrategies = 3
  Requests = {alice, bob}
  WritesOverlap = FALSE
  Faults = {"db"}
  MaxChanges = 2
  Jobs = {j1}
  MaxRestarts = 1
SPECIFICATION FairSpec
INVARIANT TypeOK
INVARIANT ExactlyOneActive
INVARIANT JobsBelongToCron
INVARIANT AcknowledgedIsEffective
PROPERTY RequestsReturn
