\* Three connections for two slots, with and after failures and a shutdown.
CONSTANTS
    Conns = {c1, c2, c3}
    MaxConnections = 2
    Token = TRUE
    Preamble = 2
    MaxErrors = 2
SPECIFICATION FairSpec
CHECK_DEADLOCK FALSE
INVARIANTS
    TypeOK
    PermitsConserved
    HooksWhileWired
PROPERTIES
    ShutdownCompletes
    BacklogServed
