SPECIFICATION FairSpec
CONSTANTS
    HdrLen = 4
    MsgLen = 472
    AckEvery = 8
    FifoCap = 16
    MaxMsgs = 4
    MaxLoss = 2
INVARIANTS TypeOK NoOverrun NothingInvented ExactDelivery InStep
PROPERTIES HeaderReadEnds SendReturns ReadReturns
CHECK_DEADLOCK FALSE
