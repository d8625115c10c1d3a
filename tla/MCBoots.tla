------------------------------ MODULE MCBoots ------------------------------
(* Housekeeping, with a history of the boots that were not marked          *)
(* successful.                                                             *)
EXTENDS MCHousekeeping

(* Whether the last boot that looked at the failure history ended without  *)
(* being marked successful.                                                *)
VARIABLE unmarked

Marked ==
    unmarked' = CASE stage = "history" /\ stage' = "settle" -> TRUE
                  [] stage = "settle" /\ stage' = "run" -> FALSE
                  [] OTHER -> unmarked

BootSpec == Init /\ unmarked = FALSE /\ [][Next /\ Marked]_<<vars, unmarked>>

(* A boot that follows one that was not marked successful counts a failure *)
(* (src/README.md:49, Boot Failure Tracking).  The code counts none:       *)
(* check_boot_failure_history looks at the clock, and increments, only if  *)
(* the counter is positive already, and nothing else makes it so.          *)
FailedBootCounted ==
    [][stage = "history" /\ stage' = "settle" /\ unmarked => boot_fails' > 0]_stage
=============================================================================
