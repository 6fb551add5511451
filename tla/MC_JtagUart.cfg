CONSTANTS
    Word = 4
    Period = 1
    BUF_LEN = 3
    FIFO_DEPTH = 1
    timeout = 2
    INT_MAX = 4
    MaxCount = 3
    Chars = 6
SPECIFICATION FairSpec
INVARIANTS TypeOK StreamWhole AlarmOnTime RingServed
PROPERTIES PrintsAsPipe WriteReturns RingDrains
