\* Two sample values, up to three samples; the consumer task may be woken by
\* other futures at any time (safety only).
CONSTANTS
    v1 = v1
    v2 = v2
    None = None
    Values <- MCValues
    MaxSamples = 3
    OtherWakeups = TRUE
SPECIFICATION Spec
INVARIANT OutIsConsecutiveDeltas
\* The stream ends when Docker closes it and every sample is consumed.
CHECK_DEADLOCK FALSE
