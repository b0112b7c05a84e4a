SPECIFICATION BannerSpec
CONSTANTS
    Noise = 2
    Lens = {0, 123}
    Stray = 999
    Piece = 5
    Limit = 12
INVARIANTS
    BannerExact
    BannerSafe
PROPERTIES
    BannerEnds
CHECK_DEADLOCK FALSE
