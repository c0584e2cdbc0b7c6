\* TabbyAPI: two models in two settings; --tabby-model is either of them or not given.
SPECIFICATION ClientsSpec
CONSTANTS
  Models = {m1, m2}
  Settings = {s1, s2}
  AnySettings = AnySettings
  None = None
  FailureLimit = 2
  PollBound = 5
  MemoryBound = 2
  InboxBound = 2
  ControlBound = 2
INVARIANTS
  ClientsInv
  AbortedOnlyBlind
  FreedMeansFree
  SocketsOutliveTasks
  EffectsCoordinated
  BlockFitsRequest
  CallerDecides
  EveryControlLands
PROPERTIES
  OneJobAtATime
  ImplementsContract
  CloseSpreads
