SPECIFICATION FairSpec
CONSTANTS
    Session = {s1, s2, s3}
    m1 = m1
    m2 = m2
    Mac = {m1}
    Command <- MCCommandOne
    Capacity = 1
    AuthCapacity = 2
    MaxCommands = 0
    MaxAccepts = 2
    None = None
INVARIANTS
    ResponderHeld
    ActiveIsKnown
PROPERTIES
    CredentialsAnswered
