SPECIFICATION FairSpec
CONSTANTS
    Session = {s1, s2}
    Period = 2
    Limit = 5
    Latency = 1
    MaxStall = 2
    None = None
INVARIANTS
    TypeOK
    PongsKeepPace
    AnsweringNeverCutOff
    GivenUpInTime
PROPERTIES
    SilentEventuallyClosed
