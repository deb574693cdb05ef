\* Start-up and shutdown with up to three losses.
SPECIFICATION FairProcessSpec
CONSTANTS
    DialAttempts = 5
    MaxLosses = 3
CHECK_DEADLOCK FALSE
INVARIANTS
    ProcessTypeOK
    OneConnection
    OneLossAbsorbed
    ReadyMeansBound
PROPERTIES
    StartupEnds
    SignalEndsProcess
