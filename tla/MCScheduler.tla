---------------------------- MODULE MCScheduler ----------------------------
(***************************************************************************)
(* Constants for the runs of Scheduler.                                    *)
(***************************************************************************)
EXTENDS Scheduler

\* A window, and a rule at a time inside it.
MCWhens == {{[start |-> 2, end |-> 4]}, {[start |-> 3, end |-> 0]}}
=============================================================================
