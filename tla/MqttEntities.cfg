SPECIFICATION FairSpec
CONSTANTS
    Nodes = {1, 2}
    MAX_NODE_ID = 2
    Repeaters = {2}
    MAX_RELAYS_PER_NODE = 1
    MAX_SENSORS_PER_NODE = 1
    Profiles <- MCProfiles
    PUB_QUEUE_SIZE = 6
    MaxFaults = 1
    MaxReflash = 1
INVARIANTS
    TypeOK
    DiscoveredIsOnItsWay
PROPERTIES
    EntitiesAppear
