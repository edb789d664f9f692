SPECIFICATION FairSpec
CONSTANTS
    SecretWords = 4
    MaxCommand = 3
    MaxPress = 1
    MaxPowerOff = 2
    MaxNoise = 1
INVARIANTS TypeOK PairedIsWhole SuccessIsKept SecretNeedsPin
PROPERTIES PairingIsFinal CommandPairs ImplementsService
CHECK_DEADLOCK FALSE
