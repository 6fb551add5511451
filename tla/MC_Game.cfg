CONSTANTS
    Modulus = 16
    Ball_X_Max = 10
    Ball_Y_Max = 4
    Ball_Y_Center = 4
    ATM_field = 3
    Lift = 3
    Ball_X_Center0 = 3
    X_Step0 = 1
    Jump0 = 3
    Ball_X_Center1 = 7
    X_Step1 = 2
    Jump1 = 2
    Hit_Far = 2
    Hit_Near = 1
    INITIAL_LIVES = 2
    Lives_Max = 3
    KeySets0 <- HoverKeys
    KeySets1 <- JumpKeys
SPECIFICATION FairSpec
INVARIANTS TypeOK OneLoser BannerTrue ReachExact
PROPERTIES LoserGoesHome NoRevenge MatchPlayed DecidedEnds
