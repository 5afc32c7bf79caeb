SPECIFICATION FairSpec
CONSTANTS
    Ids = {a}
    Bodies <- MCBodies
    Slack = 2
    MinTTL = 1
    MaxTTL = 50
    RetryDelay = 1
    MaxNow = 3
    MaxFaults = 1
    MaxCrashes = 1
    MaxConsole = 1
    MaxDuration = 100
    MaxEpoch = 100
    Modulus = 256
INVARIANTS UnracedCancelSticks NeverForgotten FiresOnGrid EveryFireCounted
PROPERTIES FiresEventually
CHECK_DEADLOCK FALSE
