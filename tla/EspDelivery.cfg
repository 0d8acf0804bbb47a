SPECIFICATION FairSpec
CONSTANTS
    Session = {s1}
    m1 = m1
    m2 = m2
    Mac = {m1, m2}
    Command <- MCCommand
    Capacity = 1
    AuthCapacity = 1
    MaxCommands = 3
    MaxAccepts = 2
    None = None
INVARIANTS
    TypeOK
    AccountedFor
    SkippedOnlyWhenLagging
PROPERTIES
    BacklogDrained
