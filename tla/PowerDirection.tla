--------------------------- MODULE PowerDirection ---------------------------
(***************************************************************************)
(* ems/power_direction.py, and the part of ems/clients.py (parse_device)   *)
(* and ems/zendure_mqtt/snapshot.py (observable_metrics) through which a   *)
(* device report is read.                                                  *)
(*                                                                         *)
(* A report is a function whose domain is the set of properties the device *)
(* sent.  A value is an integer (a wattage or an enum), or Invalid: text,  *)
(* a Boolean or a number no float can hold.  Targets are signed: positive  *)
(* discharges, negative charges from AC, zero idles.                       *)
(***************************************************************************)
EXTENDS Integers

CONSTANTS
    Invalid     \* a report value that is not a usable number

ASSUME InvalidAssumption == Invalid \notin Int

AC_MODE_INPUT      == 1
AC_MODE_OUTPUT     == 2
AC_STATUS_CHARGING == 2

Metrics == {"outputLimit", "inputLimit", "acMode", "acStatus", "smartMode",
            "gridInputPower"}

\* A report as far as this model reads one.
IsReport(m) == /\ DOMAIN m \subseteq Metrics
               /\ \A k \in DOMAIN m : m[k] \in Int \cup {Invalid}

Abs(x) == IF x < 0 THEN -x ELSE x

\* The report carries a usable number under k (observable_metrics keeps it).
Observed(m, k) == k \in DOMAIN m /\ m[k] # Invalid

\* What parse_device hands on for k: 0 when missing or dropped.
Reading(m, k) == IF Observed(m, k) THEN m[k] ELSE 0

in_ac_input_direction(m) ==
    \/ Reading(m, "acMode") = AC_MODE_INPUT
    \/ Reading(m, "acStatus") = AC_STATUS_CHARGING

out_of_charge(m) ==
    IF in_ac_input_direction(m)
    THEN /\ Reading(m, "acStatus") # AC_STATUS_CHARGING
         /\ Reading(m, "inputLimit") = 0
         /\ Reading(m, "gridInputPower") = 0
    ELSE \/ Reading(m, "acMode") = AC_MODE_OUTPUT
         \/ Reading(m, "gridInputPower") = 0

\* Whether target must not wait behind previous, the target last sent.
safety_reduction(previous, target, margin, tolerance) ==
    /\ target # previous
    /\ \/ target = 0
       \/ (target < 0) # (previous < 0)
       \/ /\ target >= 0
          /\ previous - target >= margin
          /\ previous - target > tolerance
=============================================================================
