CONSTANTS
    Requests = {r1, r2}
    MaxTurns = 1
    Configurations <- Small
SPECIFICATION FairSpec
PROPERTIES
    TerminalsAreDelivered
    AbandonedAreClosed
