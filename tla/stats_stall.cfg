CONSTANTS
    v1 = v1
    v2 = v2
    None = None
    Values <- MCValues
    MaxSamples = 3
    OtherWakeups = FALSE
SPECIFICATION FairSpec
PROPERTY
    EverySampleDelivered
CHECK_DEADLOCK FALSE
