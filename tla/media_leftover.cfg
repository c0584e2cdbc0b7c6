\* A single image and its files.
SPECIFICATION Spec
CONSTANTS
  JobIds = {j1}
  Clients = {c1}
  MaxItems = 2
  Images = 1
  Capacity = 2
  None = None
INVARIANTS
  FailedPublishesNothing
