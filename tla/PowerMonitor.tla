--------------------------- MODULE PowerMonitor ---------------------------
(***************************************************************************)
(* The battery check of loop(), once a minute: is the device on mains      *)
(* power, is the battery low, and the two alerts that it queues as pager   *)
(* messages.  Voltages are in units of 10 mV.                              *)
(***************************************************************************)
EXTENDS Naturals

CONSTANTS
    Voltages,                          \* what the ADC may read
    BATTERY_LOW_THRESHOLD,
    BATTERY_LOW_HYSTERESIS,
    BATTERY_DISCONNECT_THRESHOLD_LOW,
    BATTERY_DISCONNECT_THRESHOLD_HIGH,
    BATTERY_DISCONNECT_CONFIRM_COUNT

ASSUME PowerAssumption ==
    /\ Voltages \subseteq Nat
    /\ BATTERY_LOW_THRESHOLD \in Nat /\ BATTERY_LOW_HYSTERESIS \in Nat
    /\ BATTERY_LOW_THRESHOLD <= BATTERY_LOW_HYSTERESIS
    /\ BATTERY_DISCONNECT_THRESHOLD_LOW \in Nat
    /\ BATTERY_DISCONNECT_THRESHOLD_HIGH \in Nat
    /\ BATTERY_DISCONNECT_CONFIRM_COUNT \in Nat \ {0, 1}

VARIABLES
    battery_first_check,
    last_power_connected,
    low_battery_alert_sent,
    power_disconnect_alert_sent,
    was_power_connected,
    disconnect_confirm_count,
    (* what came of it, since power-up *)
    low_alerts,            \* low battery alerts since the battery last recovered
    disconnect_alerts      \* power disconnect alerts

monitorVars == <<battery_first_check, last_power_connected, low_battery_alert_sent,
                 power_disconnect_alert_sent, was_power_connected,
                 disconnect_confirm_count, low_alerts, disconnect_alerts>>

MonitorInit ==
    /\ battery_first_check = TRUE
    /\ last_power_connected = TRUE
    /\ low_battery_alert_sent = FALSE
    /\ power_disconnect_alert_sent = FALSE
    /\ was_power_connected = TRUE
    /\ disconnect_confirm_count = 0
    /\ low_alerts = 0
    /\ disconnect_alerts = 0

-----------------------------------------------------------------------------

(* getBatteryInfo: 3.2 V is empty, 4.15 V full, and up to 2.5 V there is   *)
(* no battery.                                                             *)
Present(v) == v > 250

Percentage(v) ==
    CASE ~Present(v) \/ v < 320 -> 0
      [] v >= 415 -> 100
      [] OTHER -> ((v - 320) * 100) \div 95

(* Connected is left below one threshold and entered above another; the    *)
(* first check has only the upper one.                                     *)
PowerConnected(v) ==
    IF battery_first_check \/ ~last_power_connected
    THEN v > BATTERY_DISCONNECT_THRESHOLD_HIGH
    ELSE v >= BATTERY_DISCONNECT_THRESHOLD_LOW

(* Mutant: the alert is armed again as soon as the level is not low.       *)
LowBatteryAlertJittery(pct, room) ==
    LET sends == pct <= BATTERY_LOW_THRESHOLD /\ ~low_battery_alert_sent /\ room
    IN  /\ low_battery_alert_sent' =
               (sends \/ (low_battery_alert_sent /\ pct <= BATTERY_LOW_THRESHOLD))
        /\ low_alerts' = (IF pct > BATTERY_LOW_HYSTERESIS THEN 0 ELSE low_alerts)
                         + (IF sends THEN 1 ELSE 0)

(* check_low_battery_alert.  room: queue_add_message finds a free slot.    *)
LowBatteryAlert(pct, room) ==
    LET sends == pct <= BATTERY_LOW_THRESHOLD /\ ~low_battery_alert_sent /\ room
    IN  /\ low_battery_alert_sent' =
               (sends \/ (low_battery_alert_sent /\ pct <= BATTERY_LOW_HYSTERESIS))
        /\ low_alerts' = (IF pct > BATTERY_LOW_HYSTERESIS THEN 0 ELSE low_alerts)
                         + (IF sends THEN 1 ELSE 0)

(* Mutant: every check without power confirms the disconnection.           *)
DisconnectAlertOnLevel(connected, room) ==
    LET count == IF connected THEN 0 ELSE disconnect_confirm_count + 1
        sends == /\ count >= BATTERY_DISCONNECT_CONFIRM_COUNT
                 /\ ~power_disconnect_alert_sent /\ room
    IN  /\ disconnect_confirm_count' =
               IF count <= BATTERY_DISCONNECT_CONFIRM_COUNT THEN count
               ELSE disconnect_confirm_count
        /\ power_disconnect_alert_sent' =
               (~connected /\ (sends \/ power_disconnect_alert_sent))
        /\ disconnect_alerts' = disconnect_alerts + (IF sends THEN 1 ELSE 0)
        /\ was_power_connected' = connected

(* check_power_disconnect_alert: only the step from connected to not       *)
(* connected is counted.                                                   *)
DisconnectAlert(connected, room) ==
    LET lost == was_power_connected /\ ~connected
        count == IF connected THEN 0
                 ELSE disconnect_confirm_count + (IF lost THEN 1 ELSE 0)
        sends == /\ lost /\ count >= BATTERY_DISCONNECT_CONFIRM_COUNT
                 /\ ~power_disconnect_alert_sent /\ room
    IN  /\ disconnect_confirm_count' = count
        /\ power_disconnect_alert_sent' =
               (~connected /\ (sends \/ power_disconnect_alert_sent))
        /\ disconnect_alerts' = disconnect_alerts + (IF sends THEN 1 ELSE 0)
        /\ was_power_connected' = connected

(* The check.  The first one and those at which something changes are      *)
(* logged, and only then is last_power_connected kept; no alert is tested  *)
(* while there is no battery.  Each alert finds a free slot in the queue   *)
(* or does not.                                                            *)
BatteryCheck(v, room) ==
    LET connected == PowerConnected(v)
    IN  /\ battery_first_check' = FALSE
        /\ last_power_connected' = connected
        /\ IF Present(v)
           THEN /\ LowBatteryAlert(Percentage(v), room.low)
                /\ DisconnectAlert(connected, room.disconnect)
           ELSE UNCHANGED <<low_battery_alert_sent, power_disconnect_alert_sent,
                            was_power_connected, disconnect_confirm_count,
                            low_alerts, disconnect_alerts>>

(* What a reset leaves.                                                    *)
MonitorReset ==
    /\ battery_first_check' = TRUE
    /\ last_power_connected' = TRUE
    /\ low_battery_alert_sent' = FALSE
    /\ power_disconnect_alert_sent' = FALSE
    /\ was_power_connected' = TRUE
    /\ disconnect_confirm_count' = 0
    /\ low_alerts' = 0
    /\ disconnect_alerts' = 0

MonitorTypeOK ==
    /\ battery_first_check \in BOOLEAN
    /\ last_power_connected \in BOOLEAN
    /\ low_battery_alert_sent \in BOOLEAN
    /\ power_disconnect_alert_sent \in BOOLEAN
    /\ was_power_connected \in BOOLEAN
    /\ disconnect_confirm_count \in 0 .. BATTERY_DISCONNECT_CONFIRM_COUNT
    /\ low_alerts \in Nat
    /\ disconnect_alerts \in Nat
=============================================================================
