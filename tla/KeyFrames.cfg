SPECIFICATION Spec
CONSTANTS
  Meaning <- MCMeaning
  BitsSize = 40
  MaxWords = 3
  MaxTrouble = 1
  TimeRegs = 3
  Times = {3, 4}
  I2cMaxOps = 4
  I2cMaxFaults = 2
  START = 5
  ESC = 6
  Flip <- MCFlip
  CrcUpdate <- MCCrcUpdate
  Half = 32
  PayloadSize = 2
  OutSize = 9
  Commands <- MCCommands
  OK = 0
  ERROR = 8
  STARTED = 7
  Answers <- MCAnswers
  Asked <- MCAsked
  Damages = {3, 5, 6}
  UlMaxSends = 2
  UlMaxFaults = 1
  Hotp <- MCHotp
  ByteSize = 4
  Minute = 4
  HalfMinute = 2
  Followings = {0, 1, 3}
  Previous = {0, 1, 3}
  Intervals = {0, 1, 2, 3, 5}
  MaxCount = 18
  MaxTime = 40
  LastCounter = 60
INVARIANT
  KeyFrameIsHeard
CHECK_DEADLOCK FALSE
