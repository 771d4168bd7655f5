SPECIFICATION Spec
CONSTANTS
  MainTimers = {idle}
  PinTimers = {word, debounce}
  NULL = NULL
  Times = {1, 2}
INVARIANT
  FlagSetIfInList
