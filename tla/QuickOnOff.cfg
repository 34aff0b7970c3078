SPECIFICATION Spec
CONSTANTS
    Nodes = {n1}
    Base = base
    NoItem = NoItem
    NoCommand = NoCommand
    Values = {0, 1}
    TX_QUEUE_SIZE = 2
    MAX_PENDING_COMMANDS = 2
    MAX_RELAYS = 2
    NODE_NUM_RELAYS = 2
    ACK_MAX_RETRIES = 1
    SEQ_MAX = 3
    MaxPacketId = 9
    MaxIssued = 3
    MaxReports = 0
    MaxOverheard = 0
    MaxNodeReboots = 0
    MaxBaseReboots = 0
    MaxNvsFailures = 0
INVARIANTS
    LastCommandWins
\* A run ends when the budgets are used up and nothing is left to do.
CHECK_DEADLOCK FALSE
