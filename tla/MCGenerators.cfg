CONSTANTS
    a = a
    b = b
    eos = eos
    Tokens = {a, b}
    Eos = eos
    NoToken = NoToken
    Configurations <- RoundConfigurations
SPECIFICATION GeneratorSpec
CHECK_DEADLOCK FALSE
INVARIANTS
    EveryTokenComesFromItsPrefix
    EveryCacheFollowsTheSequence
    GrammarFollowsOutput
PROPERTY BothImplementPlain
