\* One loss while the process starts or runs.
SPECIFICATION ProcessSpec
CONSTANTS
    DialAttempts = 5
    MaxLosses = 1
CHECK_DEADLOCK FALSE
PROPERTIES
    ReadyMeansConsuming
