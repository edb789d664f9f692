SPECIFICATION FairSpec
CONSTANTS
    Features = {A}
    SpinsInRandInit = FALSE
    MaxPress = 1
    MaxUpload = 0
    MaxPowerOff = 0
    MaxNoise = 0
PROPERTIES EndIsForwarded
CHECK_DEADLOCK FALSE
