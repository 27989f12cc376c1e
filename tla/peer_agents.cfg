SPECIFICATION Spec
CONSTANTS
    Browser = Browser
    Host = Host
    None = None
    Sessions = {s1, s2, s3}
    MaxNet = 2
INVARIANTS
    TypeOK
    OneOffer
PROPERTY
    Connects
