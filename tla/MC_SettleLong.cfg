CONSTANTS
    Word = 32
    Period = 4
    Milli = 7
    Delay = 2
SPECIFICATION FairSpec
PROPERTIES SettlesLong SettleEndsElse
