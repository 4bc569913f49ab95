\* Two instances allocating blocks of IDs, with errors and restarts (module MCIDAllocator).
SPECIFICATION AllocSpec
CONSTANTS
  i1 = i1
  i2 = i2
  c1 = c1
  c2 = c2
  c3 = c3
  Instances = {i1, i2}
  Clients = {c1, c2, c3}
  Home <- HomeOf
  NoClient = none
  BlockSize = 2
  MaxRetries = 2
  Targets = {2}
  MaxNextID = 3
PROPERTIES
  IDsGivenOnce
  SequenceForward
  CallsEnd
