\* Two job ids that share the capacity.
SPECIFICATION Spec
CONSTANTS
  JobIds = {j1, j2}
  Clients = {c1}
  MaxItems = 2
  Images = 1
  Capacity = 2
  None = None
SYMMETRY Symmetric
INVARIANTS
  VerdictHolds
  WithinCapacity
  NoTaskSurvives
PROPERTIES
  NoRegeneration
