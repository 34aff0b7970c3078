SPECIFICATION Spec
CONSTANTS
    BYTE <- MCByte
    Crc <- crc16
    BITS = 2
    POLY = 12
    VERSION = 1
    PKT_DATA = 1
    PKT_TYPE_MAX = 2
    MAX_PAYLOAD = 1
    MaxBytes = 10
INVARIANTS
    TypeOK
    OnlySentFrames
    NoFrameMissed
    BytesAccounted
    CrcErrorsAreDamage
    DamagedByteNoticed
CHECK_DEADLOCK FALSE
