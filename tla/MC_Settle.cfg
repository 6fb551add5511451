CONSTANTS
    Word = 32
    Period = 4
    Milli = 4
    Delay = 2
SPECIFICATION FairSpec
PROPERTY SettleEnds
