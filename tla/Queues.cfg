SPECIFICATION Spec
CONSTANTS
  Works = {a, b}
  NoWork = none
  MaxWorks = 4
  Timers = {t1, t2, t3}
  Half = 4
  Delays = {1, 2, 3}
INVARIANTS
  ListShape
  SlotsAccounted
  FlagIsMembership
  OrderedByTimeout
PROPERTIES
  Refines
  OnTime
  PendingExpires
