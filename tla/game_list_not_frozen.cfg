SPECIFICATION Spec
CONSTANTS
    h1 = h1
    h2 = h2
    Hosts = {h1, h2}
    Ads <- MCOneAd
    OurVersion = 1
    OurMode = "CLNK"
    TickMod = 8
    Timeout = 1
    FirstClock = 0
    MaxClock = 2
    MaxAds = 3
    StatusAd = StatusAd
    None = None
    Unlocked = Unlocked
INVARIANT
    WalkComplete
CHECK_DEADLOCK FALSE
