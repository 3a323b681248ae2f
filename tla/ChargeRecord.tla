---------------------------- MODULE ChargeRecord ----------------------------
(***************************************************************************)
(* ems/charge_record.py: the EMS's own record of a charge it put on one    *)
(* device, kept by the device's transport.                                 *)
(*                                                                         *)
(* The record is a value and each method a function on it; the transport   *)
(* that owns a record decides when a method runs.  The code stores         *)
(* monotonic stamps and compares `now - stamp` with the resend window; the *)
(* model stores the difference, an age that saturates at the window, and   *)
(* Never where the stamp is None.  drawn_exits saturates at                *)
(* FOUND_EXIT_ATTEMPTS, the only value it is compared with.                *)
(***************************************************************************)
EXTENDS PowerDirection

CONSTANTS
    ResendAfter,            \* resend_after_s, in ticks
    FOUND_EXIT_ATTEMPTS,    \* answered exits before a charge is left alone
    NoTarget                \* a signed target that is None

ASSUME ChargeAssumption == /\ ResendAfter \in Nat
                           /\ FOUND_EXIT_ATTEMPTS \in Nat \ {0}
                           /\ NoTarget \notin Int

Never      == -1        \* the stamp is None
NoSetpoint == -1        \* a charge setpoint that is None

AtMost(n, cap) == IF n < cap THEN n ELSE cap

\* One tick later; a stamp that is None stays None.
Older(age, cap) == IF age = Never THEN Never ELSE AtMost(age + 1, cap)

Ages(cap) == {Never} \cup 0..cap

ChargeRecords ==
    [open : BOOLEAN, exit_sent_at : Ages(ResendAfter),
     exit_target : Int \cup {NoTarget},
     drawn_exits : 0..FOUND_EXIT_ATTEMPTS, exit_drawn : BOOLEAN,
     drawn : BOOLEAN, found_exit_sent_at : Ages(ResendAfter),
     found_exit_attempts : 0..FOUND_EXIT_ATTEMPTS,
     found_charge_left : BOOLEAN, found_setpoint : Int,
     last_setpoint : Int, commanded : Int, reported : Int]

NewChargeRecord ==
    [open |-> FALSE, exit_sent_at |-> Never, exit_target |-> NoTarget,
     drawn_exits |-> 0, exit_drawn |-> FALSE, drawn |-> FALSE,
     found_exit_sent_at |-> Never, found_exit_attempts |-> 0,
     found_charge_left |-> FALSE, found_setpoint |-> NoSetpoint,
     last_setpoint |-> NoSetpoint, commanded |-> NoSetpoint,
     reported |-> NoSetpoint]

\* Time passes for the two stamps.
charge_older(c) ==
    [c EXCEPT !.exit_sent_at = Older(@, ResendAfter),
              !.found_exit_sent_at = Older(@, ResendAfter)]

WindowOver(age) == age = Never \/ age >= ResendAfter

\* ---- what the record answers --------------------------------------------

drawn_exits_spent(c) == c.drawn /\ c.drawn_exits >= FOUND_EXIT_ATTEMPTS

exit_window_passed(c) == WindowOver(c.exit_sent_at)

\* Mutant: the exits a grid draw answered are not counted.
due_by_window(c) == c.open /\ exit_window_passed(c)

exit_due(c) == c.open /\ ~drawn_exits_spent(c) /\ exit_window_passed(c)

\* Mutant: a spent charge is left when its next exit would be due.
exhausted_when_due(c) == exit_due(c) /\ drawn_exits_spent(c)

exit_exhausted(c) == c.open /\ drawn_exits_spent(c) /\ exit_window_passed(c)

\* Mutant: the attempts at a charge found after a start are not counted.
found_due_by_window(c) == WindowOver(c.found_exit_sent_at)

found_exit_due(c) ==
    c.found_exit_attempts < FOUND_EXIT_ATTEMPTS /\ WindowOver(c.found_exit_sent_at)

\* What the controller asks before it leaves a charge found after a start.
found_exit_exhausted(c) ==
    c.found_exit_attempts >= FOUND_EXIT_ATTEMPTS /\ WindowOver(c.found_exit_sent_at)

reduces_exit(c, target, margin, tolerance) ==
    /\ c.open
    /\ c.exit_target # NoTarget
    /\ safety_reduction(c.exit_target, target, margin, tolerance)

\* ---- what went out --------------------------------------------------------

charge_sent(c, setpoint) ==
    [c EXCEPT !.open = TRUE, !.exit_sent_at = Never, !.exit_target = NoTarget,
              !.commanded = setpoint,
              !.drawn_exits = 0, !.exit_drawn = FALSE, !.drawn = FALSE]

exit_sent(c, target) ==
    IF c.open THEN [c EXCEPT !.exit_sent_at = 0, !.exit_target = target,
                             !.exit_drawn = FALSE]
              ELSE c

reduction_sent(c, target) ==
    IF c.open THEN [c EXCEPT !.exit_target = target] ELSE c

found_exit_sent(c) ==
    IF found_exit_due(c)
    THEN [c EXCEPT !.found_exit_attempts = @ + 1, !.found_exit_sent_at = 0,
                   !.found_setpoint = c.last_setpoint]
    ELSE c

release(c) ==
    [c EXCEPT !.open = FALSE, !.exit_sent_at = Never, !.exit_target = NoTarget,
              !.commanded = NoSetpoint, !.reported = NoSetpoint,
              !.drawn_exits = 0, !.exit_drawn = FALSE, !.drawn = FALSE]

\* ---- what one report of the device says -----------------------------------

setpoint_of(m) == IF Observed(m, "inputLimit") THEN m["inputLimit"] ELSE NoSetpoint

\* Did a report after the exit found at a start show that exit taken?
observe_found_exit(c, m) ==
    LET setpoint == setpoint_of(m)
        moved    == setpoint # NoSetpoint /\ c.found_setpoint # NoSetpoint
                    /\ setpoint # c.found_setpoint
    IN  [c EXCEPT !.found_charge_left =
            @ \/ (c.found_exit_attempts > 0 /\ (out_of_charge(m) \/ moved)),
                  !.last_setpoint = setpoint]

\* Count the exit after which a report shows the charge by grid draw alone.
observe_drawn_exit(c, m) ==
    LET drawn == ~in_ac_input_direction(m)
    IN  [c EXCEPT !.drawn = drawn,
                  !.exit_drawn = @ \/ drawn,
                  !.drawn_exits = IF drawn /\ ~c.exit_drawn
                                  THEN AtMost(@ + 1, FOUND_EXIT_ATTEMPTS) ELSE @]

\* The report closes the record: the device left the charge, or charges at a
\* setpoint the EMS never wrote.
closes(c, m) ==
    LET setpoint == setpoint_of(m)
    IN  /\ c.open /\ c.exit_sent_at # Never
        /\ \/ out_of_charge(m)
           \/ setpoint # NoSetpoint /\ setpoint \notin {c.commanded, c.reported}

observe(c, m) ==
    LET seen     == observe_found_exit(c, m)
        setpoint == setpoint_of(m)
    IN  IF ~c.open THEN seen
        ELSE IF c.exit_sent_at = Never
        THEN IF setpoint \notin {NoSetpoint, 0} /\ in_ac_input_direction(m)
             THEN [seen EXCEPT !.reported = setpoint] ELSE seen
        ELSE IF closes(c, m) THEN release(seen)
        ELSE observe_drawn_exit(seen, m)
=============================================================================
