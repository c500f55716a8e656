SPECIFICATION Spec
CONSTANTS
    Interval <- MCInterval
    Duration <- MCDuration
    Elite <- MCElite
    Before <- MCBefore
    MaxTime = 11
    MaxVisits = 3
    MaxForcing = 2
INVARIANTS
    TypeOK
    TwoOnlyByForce
    OneRollPerSlot
