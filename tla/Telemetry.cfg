SPECIFICATION FairSpec
CONSTANTS
    Values = {0, 1}
    SENSOR_INTERVAL = 2
    REPORT_JITTER = 1
    FIRST_REPORT_MIN_MS = 1
    FIRST_REPORT_MAX_MS = 2
    POST_CMD_REPORT_DELAY_MS = 1
    HEARTBEAT_CHECK_INTERVAL = 1
    HEARTBEAT_OFFLINE_TIMEOUT = 3
    WIFI_RESTART_TIMEOUT = 0
    CLOCK = 5
    Nothing = Nothing
INVARIANTS
    TypeOK
    OfflineMeansSilent
    SilentIsOffline
    NoFalseAlarm
    ReportsKeepComing
    TopicTellsBelief
PROPERTIES
    RelayShown
    LivingShownOnline
