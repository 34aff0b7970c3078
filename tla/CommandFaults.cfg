SPECIFICATION Spec
CONSTANTS
    Nodes = {n1}
    Base = base
    NoItem = NoItem
    NoCommand = NoCommand
    Values = {0, 1}
    TX_QUEUE_SIZE = 1
    MAX_PENDING_COMMANDS = 2
    MAX_RELAYS = 1
    NODE_NUM_RELAYS = 1
    ACK_MAX_RETRIES = 1
    SEQ_MAX = 2
    MaxPacketId = 9
    MaxIssued = 2
    MaxReports = 0
    MaxOverheard = 1
    MaxNodeReboots = 1
    MaxBaseReboots = 0
    MaxNvsFailures = 0
INVARIANTS
    TypeOK
    OneSlotPerRelay
    OkMeansExecuted
    NoFalseMismatch
    ExecutionOutlivesCrashes
PROPERTIES
    ImplementsRelayCommand
\* A run ends when the budgets are used up and nothing is left to do.
CHECK_DEADLOCK FALSE
