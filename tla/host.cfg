SPECIFICATION FairSpec
CONSTANTS
    Chunk = 4
    Chunks = 3
    FifoCap = 7
    Looks = {0, 5}
    Texts = {0, 5}
    Unasked = {2, 5}
    MaxCommands = 3
    MaxBreaches = 1
INVARIANTS TypeOK NoOverrun TakenAsSent HandledOnce
PROPERTIES CommandsEnd FobReturns
CHECK_DEADLOCK FALSE
