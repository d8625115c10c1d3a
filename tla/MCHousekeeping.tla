-------------------------- MODULE MCHousekeeping --------------------------
(* Two settings of two values, every storage and radio fault, and voltages *)
(* on both sides of each threshold: no battery (2.00 V), 10% (3.30 V), 12% *)
(* (3.32 V), 16% (3.36 V), between the disconnect thresholds (4.10 V) and  *)
(* on mains (4.20 V).                                                      *)
EXTENDS Housekeeping

MCFields == {"power", "frequency"}
MCVoltages == {200, 330, 332, 336, 410, 420}
MCFaults == {"spiffs_read", "spiffs_write", "nvs_read", "nvs_write", "power", "radio"}
=============================================================================
