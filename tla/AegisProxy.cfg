CONSTANTS
  long = long
  short = short
  other = other
  blank = blank
  Clients = {long, short, blank}
  Size <- MCSize
  Blanks = {blank}
  POOL_CAPACITY = 1
  BUFFER_SIZE = 8
  MAX_HOT_PIPES = 1
  READ_SIZE = 2
  MaxCrashes = 1
SPECIFICATION FairSpec
INVARIANTS TypeOK AnswersBelong BuffersConserved ServedOrExcused
PROPERTY RequestSettled
CHECK_DEADLOCK FALSE
