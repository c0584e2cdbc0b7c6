\* One job of up to two images with two files each, and two clients.
SPECIFICATION FairSpec
CONSTANTS
  JobIds = {j1}
  Clients = {c1, c2}
  MaxItems = 2
  Images = 2
  Capacity = 2
  None = None
INVARIANTS
  EndedIsFinal
  PublishedWhole
PROPERTIES
  JobsEnd
