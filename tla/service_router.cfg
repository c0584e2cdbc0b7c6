SPECIFICATION ServiceSpec
CONSTANTS
  Kind = "koboldcpp"
  RouterMode = TRUE
  Chats = {c1, c2}
  Models = {m1}
  KoboldModels = {}
  i1 = i1
  i2 = i2
  Images = {i1}
  None = None
  Reservation = Reservation
  Batches <- OneImageBatches
  Size <- MCSize
  MaxBodyBytes = 2
  MaxQueuedImages = 2
  MaxQueuedBytes = 3
  MetaBound = 1
  ControlBound = 1
SYMMETRY Symmetric
INVARIANTS
  ServiceInv
  Exclusion
  LeaseOwnsGpu
  MetadataQuiet
  WorkHasGpu
PROPERTIES
  WorkStartsWanted
