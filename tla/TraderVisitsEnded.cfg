SPECIFICATION Spec
CONSTANTS
    Interval <- MCInterval
    Duration <- MCDuration
    Elite <- MCElite
    Before <- MCBefore
    MaxTime = 15
    MaxVisits = 3
    MaxForcing = 2
INVARIANT EndedInAdvanceStaysAway
