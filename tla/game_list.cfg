SPECIFICATION Spec
CONSTANTS
    h1 = h1
    h2 = h2
    Hosts = {h1, h2}
    Ads <- MCAds
    OurVersion = 1
    OurMode = "CLNK"
    TickMod = 8
    Timeout = 2
    FirstClock = 4
    MaxClock = 8
    MaxAds = 4
    StatusAd = StatusAd
    None = None
    Unlocked = Unlocked
INVARIANTS
    TypeOK
    CursorLive
    WalkOrdered
    IndexMeansHost
    GameInfoJoinable
PROPERTY
    ListedWhileHeard
CHECK_DEADLOCK FALSE
