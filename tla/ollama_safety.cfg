SPECIFICATION Spec
CONSTANTS
  Kind = "ollama"
  RouterMode = FALSE
  Chats = {c1, c2}
  Models = {m1}
  i1 = i1
  i2 = i2
  Images = {i1, i2}
  None = None
  Reservation = Reservation
  Batches <- MCBatches
  Size <- MCSize
  MaxBodyBytes = 2
  MaxQueuedImages = 2
  MaxQueuedBytes = 3
  MetaBound = 1
  ControlBound = 1
SYMMETRY Symmetric
INVARIANTS
  Accounting
  NoLostWakeup
  NoOrphan
PROPERTIES
  ServesInOrder
