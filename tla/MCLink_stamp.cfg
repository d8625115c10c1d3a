SPECIFICATION Spec
CONSTANTS
    UUID_SIZE = 3
    PACKET_PAYLOAD_SIZE = 9
    FLEX_TS_OFFSET = 16
    MAX_MESSAGE_IN_PROTOCOL = 5
    MAX_FLEX_MESSAGE_LENGTH = 4
    MAX_CODE = 5
    ValidCapcodes = {1}
    Capcodes = {0, 1}
    Uuids <- MCUuids
    Texts <- MCTexts
    Times = {300}
    Zones = {2}
    Noise <- MCNoise
    Ascii <- MCAscii
    LogLines <- MCLogLines
INVARIANT AnswerTimeRead
