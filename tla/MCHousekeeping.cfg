SPECIFICATION Spec
CONSTANTS
    Fields <- MCFields
    Values = {0, 1}
    Default = 0
    Faults <- MCFaults
    MAX_BOOT_FAILURES = 3
    Voltages <- MCVoltages
    BATTERY_LOW_THRESHOLD = 10
    BATTERY_LOW_HYSTERESIS = 15
    BATTERY_DISCONNECT_THRESHOLD_LOW = 408
    BATTERY_DISCONNECT_THRESHOLD_HIGH = 412
    BATTERY_DISCONNECT_CONFIRM_COUNT = 3
INVARIANTS
    TypeOK
    SettingsSurvive
    PpmSurvives
    OneLowAlertPerDischarge
    NoDisconnectReported
