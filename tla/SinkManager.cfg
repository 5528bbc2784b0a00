SPECIFICATION FairSpec
CONSTANTS
    Sinks = {s1, s2}
    Callers = {w1, w2}
    Calls = {"write", "delete"}
    MaxCalls = 2
    None = None
CHECK_DEADLOCK FALSE
INVARIANTS ErrorIffRefused SinksAgree CloseTellsWhatIsOpen
PROPERTY CallsEnd
