CONSTANTS
    a = a
    b = b
    eos = eos
    Tokens = {a, b}
    Eos = eos
    NoToken = NoToken
    Configurations <- InterruptedConfigurations
SPECIFICATION GeneratorSpec
CHECK_DEADLOCK FALSE
INVARIANT GrammarFollowsOutput
