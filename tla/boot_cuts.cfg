SPECIFICATION FairSpec
CONSTANTS
    SeedWords = 3
    SecretWords = 3
    Rams = {r1, r2}
    r1 = r1
    r2 = r2
    SpinsInRandInit = FALSE
    ResetsOnError = TRUE
    MaxCuts = 4
INVARIANTS TypeOK StreamsAreFresh TypedIsWhole LostOnlyInFirstBoot
PROPERTIES BootEnds
CHECK_DEADLOCK FALSE
