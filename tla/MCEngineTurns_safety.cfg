CONSTANTS
    Requests = {r1, r2, r3}
    MaxTurns = 2
    Configurations <- Both
SPECIFICATION Spec
SYMMETRY RequestSymmetry
INVARIANTS
    OneTerminalPerTurn
    NothingAfterTerminal
    PendingEventsAreCurrent
    NoLostRelease
    FatalEventsFit
