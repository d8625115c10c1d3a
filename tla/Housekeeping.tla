--------------------------- MODULE Housekeeping ---------------------------
(***************************************************************************)
(* The device between transmissions: it boots, keeps its settings, watches *)
(* its power, and may be reset at any moment.  Composes Storage and        *)
(* PowerMonitor, which runs in loop() and loses its state at a reset.      *)
(***************************************************************************)
EXTENDS Storage, PowerMonitor

vars == <<storageVars, monitorVars>>

Init == StorageInit /\ MonitorInit

(* Core 1 checks the battery between two commands, never while it saves.   *)
Check ==
    /\ stage = "run"
    /\ \E v \in Voltages, room \in [low : BOOLEAN, disconnect : BOOLEAN] :
           BatteryCheck(v, room)
    /\ UNCHANGED storageVars

Restart == (Reset \/ FactoryReset) /\ MonitorReset

Next ==
    \/ StorageNext /\ UNCHANGED monitorVars
    \/ Check
    \/ Restart

Spec == Init /\ [][Next]_vars

-----------------------------------------------------------------------------

(* Memory, file, NVS and monitor stay within their types: no counter       *)
(* leaves its range, whatever fails and whenever the device is reset.      *)
TypeOK == StorageTypeOK /\ MonitorTypeOK

(* A reset at any moment leaves the settings as they were before the last  *)
(* AT+FLEX or as they are after it, all of them, unless it fell between    *)
(* the opening and the writing of the file, or an operation failed.        *)
SettingsSurvive ==
    stage \in {"settle", "run"} /\ damaged \intersect {"file", "power"} = {}
        => settings \in {acked, asked}

(* The frequency correction survives every reset, factory reset and change *)
(* of the configuration version, unless NVS could not be read or written.  *)
PpmSurvives ==
    "nvs" \notin damaged =>
        /\ stage \in {"settle", "run"} => ppm = acked_ppm
        /\ nvs.present => nvs.ppm = acked_ppm

(* A discharging battery is reported once, whatever the level does between *)
(* the two thresholds and however often the queue was full.                *)
OneLowAlertPerDischarge == low_alerts <= 1

(* The disconnection of the mains is never confirmed, and never reported:  *)
(* the counter follows the step from connected to not connected, and the   *)
(* next such step is preceded by a reset of the counter.                   *)
NoDisconnectReported ==
    /\ disconnect_confirm_count <= (IF was_power_connected THEN 0 ELSE 1)
    /\ disconnect_alerts = 0
=============================================================================
