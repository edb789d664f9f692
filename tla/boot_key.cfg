SPECIFICATION Spec
CONSTANTS
    SeedWords = 3
    SecretWords = 3
    Rams = {r1}
    r1 = r1
    SpinsInRandInit = FALSE
    ResetsOnError = TRUE
    MaxCuts = 1
INVARIANTS KeyIsCarSecret
CHECK_DEADLOCK FALSE
