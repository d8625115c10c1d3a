------------------------------ MODULE Storage ------------------------------
(***************************************************************************)
(* What the device keeps over a reset, and the boot that reads it: the     *)
(* settings in a SPIFFS file that is overwritten in place, the frequency   *)
(* correction and the boot failure counter in NVS, which writes an entry   *)
(* at once or not at all.  A reset may come between any two steps.         *)
(***************************************************************************)
EXTENDS Naturals

CONSTANTS
    Fields,       \* the settings AT+FLEX changes; "power" is one of them
    Values,       \* the values a setting or the correction can have
    Default,      \* the value the firmware starts with
    Faults,       \* the storage and radio operations that may fail in a run
    MAX_BOOT_FAILURES

ASSUME StorageAssumption ==
    /\ "power" \in Fields
    /\ Default \in Values
    /\ Faults \subseteq {"spiffs_read", "spiffs_write", "nvs_read", "nvs_write",
                         "power", "radio"}
    /\ MAX_BOOT_FAILURES \in Nat \ {0}

VARIABLES
    file,          \* the settings file: absent, torn or whole
    nvs,           \* the core configuration in NVS
    boot_fails,    \* the failure counter in NVS
    settings,      \* in memory
    ppm,           \* core_config.frequency_correction_ppm in memory
    stage,         \* where Core 1 is, from power-up to loop()
    resume,        \* where it goes on after saving the settings
    (* what the operator knows *)
    acked,         \* the settings the device last confirmed
    asked,         \* those asked for last
    acked_ppm,
    damaged        \* what was lost since: by a cut save or a failed operation

fileVars == <<file, settings, resume, acked, asked>>
nvsVars == <<nvs, ppm, acked_ppm>>
storageVars == <<fileVars, nvsVars, boot_fails, stage, damaged>>

Settings == [Fields -> Values]
Defaults == [f \in Fields |-> Default]
File(s) == [state |-> "whole", is |-> s]
NoFile(state) == [state |-> state, is |-> Defaults]
Core(p) == [present |-> TRUE, version |-> "current", ppm |-> p]

(* A new device, or one that ran a firmware with another CONFIG_VERSION.   *)
StorageInit ==
    /\ file = NoFile("absent")
    /\ nvs \in {[Core(Default) EXCEPT !.present = FALSE]}
               \union {[Core(p) EXCEPT !.version = "old"] : p \in Values}
    /\ boot_fails = 0
    /\ settings = Defaults
    /\ ppm = Default
    /\ stage = "off"
    /\ resume = "radio"
    /\ acked = Defaults
    /\ asked = Defaults
    /\ acked_ppm = nvs.ppm
    /\ damaged = {}

Fails(op) == op \in Faults

-----------------------------------------------------------------------------
(* Saving.                                                                 *)

(* save_core_config: what it returns is looked at by nobody.               *)
SaveCore(p) ==
    \/ nvs' = Core(p) /\ UNCHANGED damaged
    \/ Fails("nvs_write") /\ nvs' = nvs /\ damaged' = damaged \union {"nvs"}

(* save_runtime_settings opens the file, which empties it, ...             *)
OpenFile ==
    /\ stage = "save"
    /\ \/ file' = NoFile("torn") /\ stage' = "write" /\ UNCHANGED damaged
       \/ /\ Fails("spiffs_write")
          /\ file' = file
          /\ stage' = resume
          /\ damaged' = damaged \union {"file"}
    /\ UNCHANGED <<settings, resume, acked, asked, nvsVars, boot_fails>>

(* Mutant: one of the settings is missing in the document.                 *)
WriteFileWithoutPower ==
    /\ stage = "write"
    /\ file' = File([settings EXCEPT !["power"] = Default])
    /\ stage' = "save_core"
    /\ UNCHANGED <<damaged, settings, resume, acked, asked, nvsVars, boot_fails>>

(* ... and writes it; a short write passes for a success, an empty one     *)
(* does not.                                                               *)
WriteFile ==
    /\ stage = "write"
    /\ \/ file' = File(settings) /\ stage' = "save_core" /\ UNCHANGED damaged
       \/ /\ Fails("spiffs_write")
          /\ file' = file
          /\ stage' \in {"save_core", resume}
          /\ damaged' = damaged \union {"file"}
    /\ UNCHANGED <<settings, resume, acked, asked, nvsVars, boot_fails>>

SaveCoreAfterFile ==
    /\ stage = "save_core"
    /\ SaveCore(ppm)
    /\ stage' = resume
    /\ UNCHANGED <<fileVars, ppm, acked_ppm, boot_fails>>

-----------------------------------------------------------------------------
(* setup()                                                                 *)

PowerUp ==
    /\ stage = "off"
    /\ stage' = "core"
    /\ settings' = Defaults
    /\ ppm' = Default
    /\ resume' = "radio"
    /\ UNCHANGED <<file, acked, asked, nvs, acked_ppm, boot_fails, damaged>>

(* Mutant: the correction is not carried over to the new version.          *)
LoadCoreForgetting ==
    /\ stage = "core"
    /\ stage' = "settings"
    /\ IF nvs.present /\ nvs.version = "current"
       THEN ppm' = nvs.ppm /\ UNCHANGED <<nvs, damaged>>
       ELSE ppm' = Default /\ SaveCore(Default)
    /\ UNCHANGED <<fileVars, acked_ppm, boot_fails>>

(* load_core_config: another version keeps the correction; what cannot be  *)
(* read is replaced by the defaults, which are saved over it.              *)
LoadCore ==
    /\ stage = "core"
    /\ stage' = "settings"
    /\ \/ IF ~nvs.present THEN ppm' = Default /\ SaveCore(Default)
          ELSE /\ ppm' = nvs.ppm
               /\ IF nvs.version = "current" THEN UNCHANGED <<nvs, damaged>>
                  ELSE SaveCore(nvs.ppm)
       \/ /\ Fails("nvs_read")
          /\ ppm' = Default
          /\ nvs' \in {Core(Default)} \union (IF Fails("nvs_write") THEN {nvs} ELSE {})
          /\ damaged' = damaged \union {"nvs"}
    /\ UNCHANGED <<fileVars, acked_ppm, boot_fails>>

(* load_runtime_settings: the defaults replace a file that is missing or   *)
(* does not parse; one that cannot be opened is left as it is until the    *)
(* next save.                                                              *)
LoadSettings ==
    /\ stage = "settings"
    /\ \/ /\ settings' = file.is
          /\ stage' = IF file.state = "whole" THEN "radio" ELSE "save"
          /\ UNCHANGED damaged
       \/ /\ Fails("spiffs_read")
          /\ file.state # "absent"
          /\ settings' = Defaults
          /\ stage' = "radio"
          /\ damaged' = damaged \union {"file"}
    /\ UNCHANGED <<file, resume, acked, asked, nvsVars, boot_fails>>

(* radio_init tries again with the default power, and makes that the       *)
(* setting; without a radio the device stops here.                         *)
InitRadio ==
    /\ stage = "radio"
    /\ \/ stage' = "history" /\ UNCHANGED <<settings, damaged>>
       \/ /\ Fails("power")
          /\ settings' = [settings EXCEPT !["power"] = Default]
          /\ stage' = "history"
          /\ damaged' = damaged \union {"power"}
       \/ Fails("radio") /\ stage' = "dead" /\ UNCHANGED <<settings, damaged>>
    /\ UNCHANGED <<file, resume, acked, asked, nvsVars, boot_fails>>

(* Mutant: the first failure is counted too.                               *)
CheckHistoryFromZero ==
    /\ stage = "history"
    /\ boot_fails' \in {boot_fails + 1, 0}
    /\ stage' = "settle"
    /\ UNCHANGED <<fileVars, nvsVars, damaged>>

(* check_boot_failure_history: the counter grows, or is reset when the     *)
(* last failure was long ago, only if it is positive.  Reaching            *)
(* MAX_BOOT_FAILURES is logged and no more; here it is the bound.          *)
CheckHistory ==
    /\ stage = "history"
    /\ boot_fails < MAX_BOOT_FAILURES
    /\ boot_fails' \in IF boot_fails > 0 THEN {boot_fails + 1, 0} ELSE {0}
    /\ stage' = "settle"
    /\ UNCHANGED <<fileVars, nvsVars, damaged>>

(* Five seconds later the boot is marked successful.  The operator can see *)
(* what the settings are, not whether they are what is stored.             *)
FinishBoot ==
    /\ stage = "settle"
    /\ boot_fails' = 0
    /\ stage' = "run"
    /\ resume' = "reply"
    /\ acked' = settings
    /\ asked' = settings
    /\ acked_ppm' = ppm
    /\ damaged' = {d \in {"file", "nvs"} : IF d = "file" THEN file.is # settings
                                                        ELSE nvs.ppm # ppm}
    /\ UNCHANGED <<file, settings, nvs, ppm>>

-----------------------------------------------------------------------------
(* loop()                                                                  *)

(* AT+FLEX=name,value; a value out of range changes nothing.               *)
AtFlex(f, v) ==
    /\ stage = "run"
    /\ settings' = [settings EXCEPT ![f] = v]
    /\ asked' = settings'
    /\ stage' = "save"
    /\ UNCHANGED <<file, resume, acked, nvsVars, boot_fails, damaged>>

(* at_send_ok, whatever became of the save.                                *)
AtFlexReply ==
    /\ stage = "reply"
    /\ acked' = settings
    /\ stage' = "run"
    /\ UNCHANGED <<file, settings, resume, asked, nvsVars, boot_fails, damaged>>

(* AT+FREQPPM=p                                                            *)
AtFreqPpm(p) ==
    /\ stage = "run"
    /\ ppm' = p
    /\ SaveCore(p)
    /\ acked_ppm' = p
    /\ UNCHANGED <<fileVars, boot_fails, stage>>

(* AT+FACTORYRESET or the button: SPIFFS is formatted, NVS is not.         *)
FactoryReset ==
    /\ stage = "run"
    /\ file' = NoFile("absent")
    /\ acked' = Defaults
    /\ asked' = Defaults
    /\ stage' = "off"
    /\ UNCHANGED <<settings, resume, nvsVars, boot_fails, damaged>>

(* A reset: AT+RESET, the watchdog, the power.  One that comes while the   *)
(* file is empty costs the settings.                                       *)
Reset ==
    /\ stage # "off"
    /\ stage' = "off"
    /\ damaged' = IF stage = "write" THEN damaged \union {"file"} ELSE damaged
    /\ UNCHANGED <<fileVars, nvsVars, boot_fails>>

StorageNext ==
    \/ PowerUp
    \/ LoadCore
    \/ LoadSettings
    \/ OpenFile
    \/ WriteFile
    \/ SaveCoreAfterFile
    \/ InitRadio
    \/ CheckHistory
    \/ FinishBoot
    \/ \E f \in Fields, v \in Values : AtFlex(f, v)
    \/ AtFlexReply
    \/ \E p \in Values : AtFreqPpm(p)

StorageTypeOK ==
    /\ file \in [state : {"absent", "torn", "whole"}, is : Settings]
    /\ nvs \in [present : BOOLEAN, version : {"current", "old"}, ppm : Values]
    /\ boot_fails \in 0 .. MAX_BOOT_FAILURES
    /\ settings \in Settings
    /\ ppm \in Values
    /\ stage \in {"off", "core", "settings", "save", "write", "save_core", "radio",
                  "dead", "history", "settle", "run", "reply"}
    /\ resume \in {"radio", "reply"}
    /\ acked \in Settings
    /\ asked \in Settings
    /\ acked_ppm \in Values
    /\ damaged \subseteq {"file", "nvs", "power"}
=============================================================================
