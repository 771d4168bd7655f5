SPECIFICATION Spec
CONSTANTS
  d0 = d0
  d1 = d1
  f = f
  enter = enter
  esc = esc
  c1 = c1
  c2 = c2
  none = none
  MaxWorks = 2
  Digits = {d0, d1}
  Zero = d0
  Filler = f
  Enter = enter
  Esc = esc
  Cards = {c1, c2}
  NoCard = none
  PinDigits = 2
  Granted <- MCGranted
  OpenTime = 3
  AcceptedSeq <- MCAcceptedSeq
  RejectedSeq <- MCRejectedSeq
  TimeoutSeq <- MCTimeoutSeq
  ErrorDuration = 400
INVARIANTS
  TypeOK
  NoStaleTimeout
  PinEntryWatched
  BusyWillFinish
  LockDriven
  ButtonFollowed
  PinIsOfThisEntry
PROPERTIES
  OpensOnlyIfAllowed
  ReleasedOnlyByTimer
