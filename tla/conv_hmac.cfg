SPECIFICATION Spec
CONSTANTS
    Features = {A}
    SpinsInRandInit = FALSE
    MaxPress = 1
    MaxUpload = 0
    MaxPowerOff = 0
    MaxNoise = 1
INVARIANTS HmacIsChecked
CHECK_DEADLOCK FALSE
