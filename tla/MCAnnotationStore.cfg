CONSTANTS
    c1 = c1
    c2 = c2
    Calls = {c1, c2}
    Reader = Reader
    MAX_ANNOTATIONS = 2
    MAX_SHOTS = 1
    Quota = 2
    MaxMade = 3
    None = None
SPECIFICATION Spec
SYMMETRY Symmetric
CONSTRAINT Undisturbed
INVARIANTS
    TypeOK
    NumbersUnique
    NothingLost
    NoneSkipped
    AdvertisedHasShot
    StorageFollows
