SPECIFICATION FairSpec
CONSTANTS
    Features = {A, B}
    SpinsInRandInit = FALSE
    MaxPress = 3
    MaxUpload = 2
    MaxPowerOff = 1
    MaxNoise = 1
INVARIANTS TypeOK OneUnlockPerPress UnlockAgreement AnnouncedAreInstalled
PROPERTIES ImplementsService TwoPressesUnlock AlwaysIdleAgain
CHECK_DEADLOCK FALSE
