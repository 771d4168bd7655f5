SPECIFICATION Spec
CONSTANTS
  Requests = {list, list2, set}
  Lists = {list, list2}
  PING = ping
  NULL = none
  LastPage = 1
  Parts = 2
  MaxLine = 2
  MaxFaults = 1
INVARIANTS
  Watched
  InStep
PROPERTIES
  Recovers
  HungIsReset
  Refines
