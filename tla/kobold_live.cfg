SPECIFICATION FairSpec
CONSTANTS
  Kind = "koboldcpp"
  RouterMode = FALSE
  Chats = {c1}
  Models = {m1}
  i1 = i1
  i2 = i2
  Images = {i1}
  None = None
  Reservation = Reservation
  Batches <- MCBatches
  Size <- MCSize
  MaxBodyBytes = 2
  MaxQueuedImages = 2
  MaxQueuedBytes = 3
  MetaBound = 1
  ControlBound = 1
PROPERTIES
  ChatsAnswered
  ImagesAnswered
  ShutdownCompletes
  DeletionProceeds
