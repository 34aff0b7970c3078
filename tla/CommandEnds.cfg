SPECIFICATION FairSpec
CONSTANTS
    Nodes = {n1}
    Base = base
    NoItem = NoItem
    NoCommand = NoCommand
    Values = {1}
    TX_QUEUE_SIZE = 1
    MAX_PENDING_COMMANDS = 1
    MAX_RELAYS = 2
    NODE_NUM_RELAYS = 1
    ACK_MAX_RETRIES = 0
    SEQ_MAX = 2
    MaxPacketId = 9
    MaxIssued = 2
    MaxReports = 1
    MaxOverheard = 0
    MaxNodeReboots = 0
    MaxBaseReboots = 1
    MaxNvsFailures = 1
INVARIANTS
    NakIsTrue
    OkIsOfSomeExecution
    SlotsKept
PROPERTIES
    EveryCommandAnswered
\* A run ends when the budgets are used up and nothing is left to do.
CHECK_DEADLOCK FALSE
