SPECIFICATION Spec
CONSTANTS
    Browser = Browser
    None = None
    Hosts = {h1}
    Others = {h2}
    MaxLobbies = 2
    MaxBrowsing = 1
INVARIANT TypeOK
PROPERTIES
    AdsAdvance
    GoneLeaves
    HostedShown
    AdsSettle
    KnownForgets
CHECK_DEADLOCK FALSE
