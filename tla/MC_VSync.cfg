CONSTANTS
    hpixels = 13
    vlines = 11
    HVisible = 10
    VVisible = 8
    HSync = 11
    HSyncEnd = 13
    VSync = 9
    Places <- SomePlaces
    Home0 <- LeftHome
    Home1 <- RightHome
    Sprite = 2
    Score = 1
    BannerX = 3
    BannerY = 2
    BannerW = 2
    BannerH = 2
SPECIFICATION Spec
INVARIANT VSyncAtLines
