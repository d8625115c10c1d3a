------------------------ MODULE Housekeeping_proofs ------------------------
(***************************************************************************)
(* Proofs about Housekeeping, for any settings and values, any set of      *)
(* voltages, any thresholds and any combination of faults.                 *)
(***************************************************************************)
EXTENDS Housekeeping, Integers, TLAPS

-----------------------------------------------------------------------------
(* The battery monitor.                                                    *)

(* Why the alerts come as they do.  An alert has been counted exactly when *)
(* its flag is set; and the confirmation count is at most one, because it  *)
(* is zero while there is power and only the loss of power increments it,  *)
(* so that the second confirmation never comes.                            *)
MonitorInv ==
    /\ MonitorTypeOK
    /\ low_alerts = IF low_battery_alert_sent THEN 1 ELSE 0
    /\ disconnect_confirm_count <= IF was_power_connected THEN 0 ELSE 1
    /\ disconnect_alerts = 0

LEMMA PercentageType == \A v \in Voltages : Percentage(v) \in Int
<1> TAKE v \in Voltages
<1>1. v \in Nat
  BY PowerAssumption
<1>2. ((v - 320) * 100) \div 95 \in Int
  BY <1>1
<1> QED BY <1>1, <1>2 DEF Percentage

LEMMA LowBatteryAlertInv ==
    ASSUME MonitorInv, NEW pct \in Int, NEW room \in BOOLEAN,
           LowBatteryAlert(pct, room)
    PROVE  /\ low_battery_alert_sent' \in BOOLEAN
           /\ low_alerts' \in Nat
           /\ low_alerts' = IF low_battery_alert_sent' THEN 1 ELSE 0
<1> DEFINE sends == pct <= BATTERY_LOW_THRESHOLD /\ ~low_battery_alert_sent /\ room
<1>1. /\ low_battery_alert_sent' =
            (sends \/ (low_battery_alert_sent /\ pct <= BATTERY_LOW_HYSTERESIS))
      /\ low_alerts' = (IF pct > BATTERY_LOW_HYSTERESIS THEN 0 ELSE low_alerts)
                       + (IF sends THEN 1 ELSE 0)
  BY DEF LowBatteryAlert
<1>2. low_alerts = IF low_battery_alert_sent THEN 1 ELSE 0
  BY DEF MonitorInv
<1>3. CASE pct > BATTERY_LOW_HYSTERESIS
  <2>1. ~(pct <= BATTERY_LOW_THRESHOLD) /\ ~(pct <= BATTERY_LOW_HYSTERESIS)
    BY <1>3, PowerAssumption
  <2>2. ~low_battery_alert_sent' /\ ~sends
    BY <1>1, <2>1, Zenon
  <2>3. low_alerts' = 0 + 0
    BY <1>1, <1>3, <2>2, Zenon
  <2>4. low_battery_alert_sent' = FALSE
    <3>1. (sends \/ (low_battery_alert_sent /\ pct <= BATTERY_LOW_HYSTERESIS)) = FALSE
      BY <2>1, Zenon
    <3> QED BY <1>1, <3>1, Zenon
  <2>5. low_alerts' = 0 /\ 0 \in Nat
    BY <2>3
  <2> QED BY <2>4, <2>5, Zenon
<1>4. CASE ~(pct > BATTERY_LOW_HYSTERESIS)
  <2>1. pct <= BATTERY_LOW_HYSTERESIS
    BY <1>4, PowerAssumption
  <2>2. low_battery_alert_sent \in BOOLEAN
    BY DEF MonitorInv, MonitorTypeOK
  <2>3. CASE low_battery_alert_sent
    <3>1. low_battery_alert_sent' = TRUE /\ ~sends
      BY <1>1, <2>1, <2>3, Zenon
    <3>2. low_alerts' = 1 + 0
      BY <1>1, <1>2, <1>4, <2>3, <3>1
    <3> QED BY <3>1, <3>2
  <2>4. CASE ~low_battery_alert_sent
    <3>1. low_battery_alert_sent' = sends
      BY <1>1, <2>4, Zenon
    <3>2. low_alerts' = 0 + (IF sends THEN 1 ELSE 0)
      BY <1>1, <1>2, <1>4, <2>4
    <3>3. sends \in BOOLEAN
      OBVIOUS
    <3> HIDE DEF sends
    <3> QED BY <3>1, <3>2, <3>3
  <2> QED BY <2>3, <2>4
<1> QED BY <1>3, <1>4

LEMMA DisconnectAlertInv ==
    ASSUME MonitorInv, NEW connected \in BOOLEAN, NEW room \in BOOLEAN,
           DisconnectAlert(connected, room)
    PROVE  /\ disconnect_confirm_count' \in 0 .. BATTERY_DISCONNECT_CONFIRM_COUNT
           /\ disconnect_confirm_count' <= IF was_power_connected' THEN 0 ELSE 1
           /\ disconnect_alerts' = 0
           /\ power_disconnect_alert_sent' \in BOOLEAN
           /\ was_power_connected' \in BOOLEAN
<1> DEFINE lost == was_power_connected /\ ~connected
           count == IF connected THEN 0
                    ELSE disconnect_confirm_count + (IF lost THEN 1 ELSE 0)
           sends == /\ lost /\ count >= BATTERY_DISCONNECT_CONFIRM_COUNT
                    /\ ~power_disconnect_alert_sent /\ room
<1>1. /\ disconnect_confirm_count' = count
      /\ power_disconnect_alert_sent' =
            (~connected /\ (sends \/ power_disconnect_alert_sent))
      /\ disconnect_alerts' = disconnect_alerts + (IF sends THEN 1 ELSE 0)
      /\ was_power_connected' = connected
  BY DEF DisconnectAlert
<1>2. /\ disconnect_confirm_count \in Nat
      /\ disconnect_confirm_count <= IF was_power_connected THEN 0 ELSE 1
      /\ was_power_connected \in BOOLEAN
  BY PowerAssumption DEF MonitorInv, MonitorTypeOK
<1>3. count \in 0 .. 1 /\ (connected => count = 0)
  BY <1>2
<1>4. ~sends
  BY <1>3, PowerAssumption
<1>5. 1 < BATTERY_DISCONNECT_CONFIRM_COUNT /\ BATTERY_DISCONNECT_CONFIRM_COUNT \in Nat
  BY PowerAssumption
<1>6. disconnect_alerts' = 0
  BY <1>1, <1>4 DEF MonitorInv
<1>7. power_disconnect_alert_sent' \in BOOLEAN
  BY <1>1
<1> HIDE DEF count, sends
<1> QED BY <1>1, <1>3, <1>5, <1>6, <1>7

LEMMA MonitorInductive == Spec => []MonitorInv
<1> DEFINE Fresh == /\ battery_first_check = TRUE
                    /\ last_power_connected = TRUE
                    /\ low_battery_alert_sent = FALSE
                    /\ power_disconnect_alert_sent = FALSE
                    /\ was_power_connected = TRUE
                    /\ disconnect_confirm_count = 0
                    /\ low_alerts = 0
                    /\ disconnect_alerts = 0
<1>0. Fresh => MonitorInv
  <2>1. 0 \in Nat /\ 0 \in 0 .. BATTERY_DISCONNECT_CONFIRM_COUNT /\ 0 <= 0
    BY PowerAssumption
  <2> QED BY <2>1, Zenon DEF MonitorInv, MonitorTypeOK
<1>1. Init => MonitorInv
  BY <1>0 DEF Init, MonitorInit
<1>2. MonitorInv /\ [Next]_vars => MonitorInv'
  <2> SUFFICES ASSUME MonitorInv, [Next]_vars
               PROVE  MonitorInv'
    OBVIOUS
  <2>1. CASE StorageNext /\ UNCHANGED monitorVars
    BY <2>1 DEF monitorVars, MonitorInv, MonitorTypeOK
  <2>2. CASE Check
    <3>1. PICK v \in Voltages, room \in [low : BOOLEAN, disconnect : BOOLEAN] :
                 BatteryCheck(v, room)
      BY <2>2 DEF Check
    <3>a. PowerConnected(v) \in BOOLEAN
      <4>1. (v > BATTERY_DISCONNECT_THRESHOLD_HIGH) \in BOOLEAN
        OBVIOUS
      <4>2. (v >= BATTERY_DISCONNECT_THRESHOLD_LOW) \in BOOLEAN
        OBVIOUS
      <4> QED BY <4>1, <4>2, Zenon DEF PowerConnected
    <3>2. /\ battery_first_check' \in BOOLEAN
          /\ last_power_connected' \in BOOLEAN
      BY <3>1, <3>a, Zenon DEF BatteryCheck
    <3>3. CASE Present(v)
      <4>1. LowBatteryAlert(Percentage(v), room.low)
        BY <3>1, <3>3 DEF BatteryCheck
      <4>2. DisconnectAlert(PowerConnected(v), room.disconnect)
        BY <3>1, <3>3 DEF BatteryCheck
      <4>3. Percentage(v) \in Int
        BY PercentageType
      <4>4. /\ low_battery_alert_sent' \in BOOLEAN
            /\ low_alerts' \in Nat
            /\ low_alerts' = IF low_battery_alert_sent' THEN 1 ELSE 0
        BY <4>1, <4>3, LowBatteryAlertInv
      <4>5. /\ disconnect_confirm_count' \in 0 .. BATTERY_DISCONNECT_CONFIRM_COUNT
            /\ disconnect_confirm_count' <= IF was_power_connected' THEN 0 ELSE 1
            /\ disconnect_alerts' = 0
            /\ power_disconnect_alert_sent' \in BOOLEAN
            /\ was_power_connected' \in BOOLEAN
        BY <4>2, <3>a, DisconnectAlertInv
      <4> QED BY <3>2, <4>4, <4>5 DEF MonitorInv, MonitorTypeOK
    <3>4. CASE ~Present(v)
      <4>1. UNCHANGED <<low_battery_alert_sent, power_disconnect_alert_sent,
                        was_power_connected, disconnect_confirm_count,
                        low_alerts, disconnect_alerts>>
        BY <3>1, <3>4 DEF BatteryCheck
      <4> QED BY <3>2, <4>1 DEF MonitorInv, MonitorTypeOK
    <3> QED BY <3>3, <3>4
  <2>3. CASE Restart
    <3>1. Fresh'
      BY <2>3, Zenon DEF Restart, MonitorReset
    <3> QED BY <1>0, <3>1, PTL
  <2>4. CASE UNCHANGED vars
    BY <2>4 DEF vars, monitorVars, MonitorInv, MonitorTypeOK
  <2> QED BY <2>1, <2>2, <2>3, <2>4 DEF Next
<1> QED BY <1>1, <1>2, PTL DEF Spec

(* One low battery alert per discharge, for every pair of thresholds that  *)
(* are the right way round and every reading of the battery.               *)
THEOREM OneAlert == Spec => []OneLowAlertPerDischarge
<1>1. MonitorInv => OneLowAlertPerDischarge
  BY DEF MonitorInv, MonitorTypeOK, OneLowAlertPerDischarge
<1> QED BY <1>1, MonitorInductive, PTL

(* The disconnection of the mains is never reported, whatever the number   *)
(* of confirmations asked for, as long as it is more than one.             *)
THEOREM DisconnectUnreported == Spec => []NoDisconnectReported
<1>1. MonitorInv => NoDisconnectReported
  BY DEF MonitorInv, NoDisconnectReported
<1> QED BY <1>1, MonitorInductive, PTL

-----------------------------------------------------------------------------
(* Types.                                                                  *)

LEMMA DefaultsType == Defaults \in Settings
BY StorageAssumption DEF Defaults, Settings

LEMMA FileTypes ==
    /\ NoFile("absent") \in [state : {"absent", "torn", "whole"}, is : Settings]
    /\ NoFile("torn") \in [state : {"absent", "torn", "whole"}, is : Settings]
BY DefaultsType DEF NoFile

LEMMA CoreType ==
    \A p \in Values : Core(p) \in [present : BOOLEAN, version : {"current", "old"},
                                  ppm : Values]
BY DEF Core

LEMMA SaveCoreType ==
    ASSUME StorageTypeOK, NEW p \in Values, SaveCore(p)
    PROVE  /\ nvs' \in [present : BOOLEAN, version : {"current", "old"}, ppm : Values]
           /\ damaged' \subseteq {"file", "nvs", "power"}
<1>1. CASE nvs' = Core(p) /\ UNCHANGED damaged
  BY <1>1, CoreType DEF StorageTypeOK
<1>2. CASE Fails("nvs_write") /\ nvs' = nvs /\ damaged' = damaged \union {"nvs"}
  <2>1. damaged' \subseteq {"file", "nvs", "power"}
    BY <1>2 DEF StorageTypeOK
  <2> QED BY <1>2, <2>1 DEF StorageTypeOK
<1> QED BY <1>1, <1>2 DEF SaveCore

(* Every variable stays in its type: with it, the number of counted boot   *)
(* failures and of confirmations stay within their limits.                 *)
THEOREM TypeCorrect == Spec => []TypeOK
<1> DEFINE Inv == StorageTypeOK
<1>0. 0 \in 0 .. MAX_BOOT_FAILURES
  BY StorageAssumption
<1>1. Init => Inv
  <2> SUFFICES ASSUME StorageInit
               PROVE  Inv
    BY DEF Init
  <2>1. nvs \in [present : BOOLEAN, version : {"current", "old"}, ppm : Values]
    <3>1. CASE nvs = [Core(Default) EXCEPT !.present = FALSE]
      <4>1. nvs = [present |-> FALSE, version |-> "current", ppm |-> Default]
        BY <3>1, Zenon DEF Core
      <4>2. FALSE \in BOOLEAN /\ "current" \in {"current", "old"} /\ Default \in Values
        BY StorageAssumption
      <4> QED BY <4>1, <4>2, Zenon
    <3>2. CASE \E p \in Values : nvs = [Core(p) EXCEPT !.version = "old"]
      BY <3>2, CoreType
    <3> QED BY <3>1, <3>2 DEF StorageInit
  <2>2. acked_ppm \in Values
    BY <2>1 DEF StorageInit
  <2>3. file \in [state : {"absent", "torn", "whole"}, is : Settings]
    BY FileTypes DEF StorageInit
  <2> QED BY <1>0, <2>1, <2>2, <2>3, DefaultsType, StorageAssumption
          DEF StorageInit, StorageTypeOK
<1>2. Inv /\ [Next]_vars => Inv'
  <2> SUFFICES ASSUME Inv, [Next]_vars
               PROVE  Inv'
    OBVIOUS
  <2> USE DEF StorageTypeOK
  <2>1. CASE PowerUp
    BY <2>1, DefaultsType, StorageAssumption DEF PowerUp
  <2>2. CASE LoadCore
    <3>1. nvs.ppm \in Values /\ Default \in Values
      BY StorageAssumption
    <3>2. ppm' \in Values
      BY <2>2, <3>1 DEF LoadCore
    <3>3. /\ nvs' \in [present : BOOLEAN, version : {"current", "old"}, ppm : Values]
          /\ damaged' \subseteq {"file", "nvs", "power"}
      <4>1. CASE SaveCore(Default) \/ SaveCore(nvs.ppm)
        BY <3>1, <4>1, SaveCoreType
      <4>2. CASE UNCHANGED <<nvs, damaged>>
        BY <4>2
      <4>3. CASE nvs' \in {Core(Default), nvs} /\ damaged' = damaged \union {"nvs"}
        BY <3>1, <4>3, CoreType
      <4> QED BY <2>2, <4>1, <4>2, <4>3 DEF LoadCore
    <3> QED BY <2>2, <3>2, <3>3 DEF LoadCore, fileVars
  <2>3. CASE LoadSettings
    <3>1. settings' \in Settings
      BY <2>3, DefaultsType DEF LoadSettings
    <3>2. damaged' \subseteq {"file", "nvs", "power"}
      BY <2>3 DEF LoadSettings
    <3> QED BY <2>3, <3>1, <3>2 DEF LoadSettings, nvsVars
  <2>4. CASE OpenFile
    <3>1. file' \in [state : {"absent", "torn", "whole"}, is : Settings]
      BY <2>4, FileTypes DEF OpenFile
    <3>2. damaged' \subseteq {"file", "nvs", "power"}
      BY <2>4 DEF OpenFile
    <3> QED BY <2>4, <3>1, <3>2 DEF OpenFile, nvsVars
  <2>5. CASE WriteFile
    <3>1. file' \in [state : {"absent", "torn", "whole"}, is : Settings]
      <4>1. CASE file' = File(settings)
        BY <4>1 DEF File
      <4>2. CASE file' = file
        BY <4>2
      <4> QED BY <2>5, <4>1, <4>2 DEF WriteFile
    <3>2. damaged' \subseteq {"file", "nvs", "power"}
      BY <2>5 DEF WriteFile
    <3> QED BY <2>5, <3>1, <3>2 DEF WriteFile, nvsVars
  <2>6. CASE SaveCoreAfterFile
    BY <2>6, SaveCoreType DEF SaveCoreAfterFile, fileVars
  <2>7. CASE InitRadio
    <3>1. settings' \in Settings
      BY <2>7, StorageAssumption DEF InitRadio, Settings
    <3> QED BY <2>7, <3>1 DEF InitRadio, nvsVars
  <2>8. CASE CheckHistory
    <3>1. boot_fails' \in {boot_fails + 1, 0} /\ boot_fails < MAX_BOOT_FAILURES
      BY <2>8 DEF CheckHistory
    <3>2. boot_fails' \in 0 .. MAX_BOOT_FAILURES
      BY <3>1, StorageAssumption
    <3> QED BY <2>8, <3>2 DEF CheckHistory, fileVars, nvsVars
  <2>9. CASE FinishBoot
    BY <2>9, <1>0 DEF FinishBoot
  <2>10. CASE \E f \in Fields, v \in Values : AtFlex(f, v)
    <3>1. settings' \in Settings
      BY <2>10 DEF AtFlex, Settings
    <3> QED BY <2>10, <3>1 DEF AtFlex, nvsVars
  <2>11. CASE AtFlexReply
    BY <2>11 DEF AtFlexReply, nvsVars
  <2>12. CASE \E p \in Values : AtFreqPpm(p)
    BY <2>12, SaveCoreType DEF AtFreqPpm, fileVars
  <2>13. CASE Check
    BY <2>13 DEF Check, storageVars, fileVars, nvsVars
  <2>14. CASE Restart
    <3>1. CASE Reset
      BY <3>1 DEF Reset, fileVars, nvsVars
    <3>2. CASE FactoryReset
      BY <3>2, DefaultsType, FileTypes DEF FactoryReset, nvsVars
    <3> QED BY <2>14, <3>1, <3>2 DEF Restart
  <2>15. CASE UNCHANGED vars
    BY <2>15 DEF vars, storageVars, fileVars, nvsVars
  <2> QED BY <2>1, <2>2, <2>3, <2>4, <2>5, <2>6, <2>7, <2>8, <2>9, <2>10, <2>11,
             <2>12, <2>13, <2>14, <2>15 DEF Next, StorageNext
<1>3. Inv /\ MonitorInv => TypeOK
  BY DEF MonitorInv, TypeOK
<1> QED BY <1>1, <1>2, <1>3, MonitorInductive, PTL DEF Spec

-----------------------------------------------------------------------------
(* The frequency correction.                                               *)

(* Unless NVS has failed since the correction was last confirmed, it is in *)
(* NVS from the start, and in memory from load_core_config on.  A new      *)
(* device has the default in both places: what makes load_core_config save *)
(* the defaults is then no loss.                                           *)
PpmInv ==
    /\ ~nvs.present => nvs.ppm = Default
    /\ "nvs" \notin damaged =>
        /\ nvs.ppm = acked_ppm
        /\ stage \notin {"off", "core"} => ppm = acked_ppm

LEMMA SaveCoreSaves ==
    ASSUME NEW p, SaveCore(p), "nvs" \notin damaged'
    PROVE  nvs'.present /\ nvs'.ppm = p /\ "nvs" \notin damaged
BY DEF SaveCore, Core

LEMMA SaveCoreKeepsNvs ==
    ASSUME NEW p, SaveCore(p), ~nvs'.present
    PROVE  nvs' = nvs
BY DEF SaveCore, Core

LEMMA PpmInductive == Spec => []PpmInv
<1>1. Init => PpmInv
  BY DEF Init, StorageInit, PpmInv, Core
<1>2. PpmInv /\ [Next]_vars => PpmInv'
  <2> SUFFICES ASSUME PpmInv, [Next]_vars
               PROVE  PpmInv'
    OBVIOUS
  <2> USE DEF PpmInv
  <2>1. CASE PowerUp
    BY <2>1 DEF PowerUp
  <2>2. CASE LoadCore
    <3>1. nvs' = nvs \/ nvs'.present
      BY <2>2, SaveCoreKeepsNvs DEF LoadCore, Core
    <3>2. ASSUME "nvs" \notin damaged'
          PROVE  nvs'.ppm = acked_ppm' /\ ppm' = acked_ppm'
      <4>1. "nvs" \notin damaged /\ UNCHANGED acked_ppm
        BY <2>2, <3>2, SaveCoreSaves DEF LoadCore
      <4>2. CASE ~nvs.present
        <5>1. ppm' = Default /\ SaveCore(Default)
          BY <2>2, <3>2, <4>2 DEF LoadCore
        <5> QED BY <3>2, <4>1, <4>2, <5>1, SaveCoreSaves
      <4>3. CASE nvs.present /\ nvs.version = "current"
        <5>1. ppm' = nvs.ppm /\ nvs' = nvs
          BY <2>2, <3>2, <4>3 DEF LoadCore
        <5> QED BY <4>1, <4>3, <5>1
      <4>4. CASE nvs.present /\ nvs.version # "current"
        <5>1. ppm' = nvs.ppm /\ SaveCore(nvs.ppm)
          BY <2>2, <3>2, <4>4 DEF LoadCore
        <5> QED BY <3>2, <4>1, <4>4, <5>1, SaveCoreSaves
      <4> QED BY <4>2, <4>3, <4>4
    <3> QED BY <3>1, <3>2
  <2>3. CASE LoadSettings
    BY <2>3 DEF LoadSettings, nvsVars
  <2>4. CASE OpenFile
    BY <2>4 DEF OpenFile, nvsVars
  <2>5. CASE WriteFile
    BY <2>5 DEF WriteFile, nvsVars
  <2>6. CASE SaveCoreAfterFile
    <3>1. SaveCore(ppm) /\ stage = "save_core" /\ UNCHANGED <<ppm, acked_ppm>>
      BY <2>6 DEF SaveCoreAfterFile
    <3> QED BY <3>1, SaveCoreSaves, SaveCoreKeepsNvs
  <2>7. CASE InitRadio
    BY <2>7 DEF InitRadio, nvsVars
  <2>8. CASE CheckHistory
    BY <2>8 DEF CheckHistory, nvsVars
  <2>9. CASE FinishBoot
    <3>1. nvs' = nvs /\ ppm' = ppm /\ acked_ppm' = ppm /\ stage = "settle"
      BY <2>9 DEF FinishBoot
    <3>2. "nvs" \notin damaged' => nvs.ppm = ppm
      <4>1. damaged' = {d \in {"file", "nvs"} : IF d = "file" THEN file.is # settings
                                               ELSE nvs.ppm # ppm}
        BY <2>9 DEF FinishBoot
      <4>2. "nvs" \in {"file", "nvs"} /\ "nvs" # "file"
        OBVIOUS
      <4> QED BY <4>1, <4>2, Zenon
    <3> QED BY <3>1, <3>2
  <2>10. CASE \E f \in Fields, v \in Values : AtFlex(f, v)
    BY <2>10 DEF AtFlex, nvsVars
  <2>11. CASE AtFlexReply
    BY <2>11 DEF AtFlexReply, nvsVars
  <2>12. CASE \E p \in Values : AtFreqPpm(p)
    <3>1. PICK p \in Values : AtFreqPpm(p)
      BY <2>12
    <3>2. SaveCore(p) /\ ppm' = p /\ acked_ppm' = p
      BY <3>1 DEF AtFreqPpm
    <3> QED BY <3>2, SaveCoreSaves, SaveCoreKeepsNvs
  <2>13. CASE Check
    BY <2>13 DEF Check, storageVars, nvsVars
  <2>14. CASE Restart
    BY <2>14 DEF Restart, Reset, FactoryReset, nvsVars
  <2>15. CASE UNCHANGED vars
    BY <2>15 DEF vars, storageVars, nvsVars
  <2> QED BY <2>1, <2>2, <2>3, <2>4, <2>5, <2>6, <2>7, <2>8, <2>9, <2>10, <2>11,
             <2>12, <2>13, <2>14, <2>15 DEF Next, StorageNext
<1> QED BY <1>1, <1>2, PTL DEF Spec

(* The frequency correction survives resets at any moment, factory resets  *)
(* and a change of CONFIG_VERSION, whatever else fails.                    *)
THEOREM CorrectionSurvives == Spec => []PpmSurvives
<1>1. PpmInv => PpmSurvives
  BY DEF PpmInv, PpmSurvives
<1> QED BY <1>1, PpmInductive, PTL

-----------------------------------------------------------------------------
(* The settings file.                                                      *)

Stages == {"off", "core", "settings", "save", "write", "save_core", "radio", "dead",
           "history", "settle", "run", "reply"}

(* Where the settings are while nothing has been lost: in the file except  *)
(* between the opening of a save and the end of its writing, and in memory *)
(* from load_runtime_settings on; before AT+FLEX is answered memory has    *)
(* what was asked for.  SettingsSurvive says this of two stages only.      *)
FileInv ==
    /\ stage \in Stages
    /\ resume \in {"radio", "reply"}
    /\ stage \in {"core", "settings"} => resume = "radio"
    /\ damaged \intersect {"file", "power"} = {} =>
        /\ stage \in {"off", "core", "settings", "save"} => file.is \in {acked, asked}
        /\ stage \in {"save", "write"} => settings \in {acked, asked}
        /\ stage \in {"save_core", "radio", "dead", "history", "settle", "reply"} =>
               settings = file.is /\ settings \in {acked, asked}
        /\ stage \in {"save", "write", "save_core"} /\ resume = "reply" =>
               settings = asked
        /\ stage = "reply" => settings = asked
        /\ stage = "run" =>
               settings = file.is /\ settings = acked /\ settings = asked

LEMMA FileInductive == Spec => []FileInv
<1>1. Init => FileInv
  BY DEF Init, StorageInit, FileInv, Stages, NoFile
<1>2. FileInv /\ [Next]_vars => FileInv'
  <2> SUFFICES ASSUME FileInv, [Next]_vars
               PROVE  FileInv'
    OBVIOUS
  <2> USE DEF FileInv, Stages
  <2>1. CASE PowerUp
    BY <2>1 DEF PowerUp
  <2>2. CASE LoadCore
    BY <2>2 DEF LoadCore, SaveCore, fileVars
  <2>3. CASE LoadSettings
    BY <2>3 DEF LoadSettings
  <2>4. CASE OpenFile
    BY <2>4 DEF OpenFile
  <2>5. CASE WriteFile
    BY <2>5 DEF WriteFile, File
  <2>6. CASE SaveCoreAfterFile
    BY <2>6 DEF SaveCoreAfterFile, SaveCore, fileVars
  <2>7. CASE InitRadio
    BY <2>7 DEF InitRadio
  <2>8. CASE CheckHistory
    BY <2>8 DEF CheckHistory, fileVars
  <2>9. CASE FinishBoot
    <3>1. /\ stage' = "run" /\ resume' = "reply"
          /\ acked' = settings /\ asked' = settings
          /\ file' = file /\ settings' = settings
          /\ damaged' = {d \in {"file", "nvs"} : IF d = "file" THEN file.is # settings
                                                 ELSE nvs.ppm # ppm}
      BY <2>9 DEF FinishBoot
    <3>2. "file" \notin damaged' => file.is = settings
      <4>1. "file" \in {"file", "nvs"}
        OBVIOUS
      <4> QED BY <3>1, <4>1, Zenon
    <3> QED BY <3>1, <3>2
  <2>10. CASE \E f \in Fields, v \in Values : AtFlex(f, v)
    BY <2>10 DEF AtFlex
  <2>11. CASE AtFlexReply
    BY <2>11 DEF AtFlexReply
  <2>12. CASE \E p \in Values : AtFreqPpm(p)
    BY <2>12 DEF AtFreqPpm, SaveCore, fileVars
  <2>13. CASE Check
    BY <2>13 DEF Check, storageVars, fileVars
  <2>14. CASE Restart
    BY <2>14 DEF Restart, Reset, FactoryReset, fileVars, NoFile
  <2>15. CASE UNCHANGED vars
    BY <2>15 DEF vars, storageVars, fileVars
  <2> QED BY <2>1, <2>2, <2>3, <2>4, <2>5, <2>6, <2>7, <2>8, <2>9, <2>10, <2>11,
             <2>12, <2>13, <2>14, <2>15 DEF Next, StorageNext
<1> QED BY <1>1, <1>2, PTL DEF Spec

(* Over any number of resets, whenever they fall, the settings are those   *)
(* last confirmed or those asked for since, unless a save was cut between  *)
(* opening and writing or an operation failed.                             *)
THEOREM FileSurvives == Spec => []SettingsSurvive
<1>1. FileInv => SettingsSurvive
  BY DEF FileInv, SettingsSurvive
<1> QED BY <1>1, FileInductive, PTL
=============================================================================
