SPECIFICATION Spec
CONSTANTS
    SecretWords = 3
    MaxCommand = 2
    MaxPress = 1
    MaxPowerOff = 1
    MaxNoise = 0
INVARIANTS LongDelayMeansEnded
CHECK_DEADLOCK FALSE
