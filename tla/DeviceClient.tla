---------------------------- MODULE DeviceClient ----------------------------
(***************************************************************************)
(* ems/zendure_mqtt/device_client.py: the power-command lifecycle of one   *)
(* Zendure device behind an MQTT broker.                                   *)
(*                                                                         *)
(* Three threads meet here.  The control loop dispatches targets, cancels  *)
(* them and releases the charge record; the fetch executor reads the       *)
(* telemetry snapshot; the MQTT network thread delivers device replies.    *)
(* Every public method runs under one RLock, so a method is one action --  *)
(* except that a publish is I/O under that lock: a dispatch or a reply     *)
(* starts it, publish_accepted or publish_failed ends it, and time,        *)
(* telemetry and the device's answers move in between.                     *)
(*                                                                         *)
(* Stamps are ages in ticks (see ChargeRecord).  The comparisons between   *)
(* two stamps are kept as order instead: `since` is the set of properties  *)
(* reported after the last publish completed, output_is_new says that      *)
(* outputLimit was reported after the last confirmation and after the last *)
(* report that detection counted.                                          *)
(***************************************************************************)
EXTENDS CommandState, Sequences

CONSTANTS
    Targets,        \* the watt targets the controller asks for
    ExitShapes,     \* the charge_exit arguments in use: None, TO_OUTPUT, FINAL
    MaxPower,       \* max_power
    Margin,         \* _safety_preempt_margin_w
    StaleAfter,     \* stale_after_seconds of the broker's service, in ticks
    Reports,        \* the telemetry messages the device sends
    MessageIds,     \* identities of the commands a reply can still name
    NoCommand       \* the empty slot

ASSUME ClientAssumption == /\ Targets \subseteq Int
                           /\ ExitShapes \subseteq {"none", "to_output", "final"}
                           /\ MaxPower \in Nat
                           /\ Margin \in Nat
                           /\ StaleAfter \in Nat \ {0}
                           /\ \A r \in Reports : IsReport(r)
                           /\ NoCommand \notin MessageIds
                           /\ ResendAfter = ConfirmTimeout

VARIABLES
    active,         \* _active_command's message id, or NoCommand
    publishing,     \* the message id whose publish holds the lock, or NoCommand
    command,        \* the record of the one or the other
    outcome,        \* the state of every command record
    pending,        \* _pending_target
    charge,         \* _charge
    own,            \* what foreign-writer detection remembers
    snapshot,       \* the service's merged snapshot of this device
    since,          \* properties reported after the last publish completed
    output_is_new,  \* outputLimit reported, not yet counted or confirmed
    verdict,        \* what the device answered each command (external)
    asked,          \* history: the target the controller's latest call left to send
    reports_seen,   \* history: outputLimit reports since the last confirmation
    found_sent      \* history: exits to AC input found after a start

slot     == <<active, publishing, command, outcome, pending>>
observed == <<snapshot, since, output_is_new>>
history  == <<asked, reports_seen, found_sent>>
vars     == <<slot, charge, own, observed, verdict, history>>

UNCONFIRMED_OWN_TARGET_HISTORY == 2

NoRecord == [target |-> NoTarget, created |-> Never, published |-> Never,
             acknowledged |-> Never, shape |-> "none", reduction |-> FALSE,
             free |-> FALSE]

CommandRecords ==
    [target : Int \cup {NoTarget}, created : Ages(AckTimeout),
     published : Ages(ConfirmTimeout), acknowledged : Ages(ConfirmTimeout),
     shape : {"none", "to_output", "final"}, reduction : BOOLEAN,
     free : BOOLEAN]

\* _last_confirmed_target, _unconfirmed_own_targets, _foreign_streak and the
\* suspicion.
OwnMemories ==
    [confirmed : Int \cup {NoTarget}, unconfirmed : Seq(Int), streak : 0..2,
     suspected : BOOLEAN]

Init ==
    /\ active = NoCommand
    /\ publishing = NoCommand
    /\ command = NoRecord
    /\ outcome = [id \in MessageIds |-> "none"]
    /\ pending = NoTarget
    /\ charge = NewChargeRecord
    /\ own = [confirmed |-> NoTarget, unconfirmed |-> <<>>, streak |-> 0,
              suspected |-> FALSE]
    /\ snapshot = [metrics |-> <<>>, age |-> Never]
    /\ since = {}
    /\ output_is_new = FALSE
    /\ verdict = [id \in MessageIds |-> "none"]
    /\ asked = NoTarget
    /\ reports_seen = 0
    /\ found_sent = 0

\* No method is inside the command-state lock.
lock_free == publishing = NoCommand

\* Mutant: a target no longer wanted stays queued.
keep_pending == UNCHANGED pending

discard_pending == pending' = NoTarget

\* Mutant: the command that gives way keeps its state.
not_superseded(records) == records

\* _release_superseded: the records once the active command gave way.
superseded(records) == [records EXCEPT ![active] = "superseded"]

(***************************************************************************)
(* Deadlines.  _expire_active_command runs first in every dispatch, last   *)
(* in every fetch, and in describe: `expiry` is the terminal state it gives*)
(* the active command now, "none" when no deadline has passed, and the     *)
(* operators below are the slot, the records and the remembered targets as *)
(* it leaves them.                                                         *)
(***************************************************************************)
expiry ==
    IF active = NoCommand THEN "none"
    ELSE IF supports_acknowledgement /\ apply_timeout(outcome[active], command.created)
    THEN "timed_out"
    ELSE IF /\ Confirmable
            /\ apply_confirmation_timeout(outcome[active], command.published,
                    command.acknowledged, ~supports_acknowledgement)
    THEN "confirmation_timed_out"
    ELSE "none"

\* Mutant: the expired command stays in the slot.
stays_active == active

settled_active == IF expiry = "none" THEN active ELSE NoCommand

settled_command == IF expiry = "none" THEN command ELSE NoRecord

settled_outcome ==
    IF expiry = "none" THEN outcome ELSE [outcome EXCEPT ![active] = expiry]

\* Mutant: a deque without maxlen.
remember_all(targets, t) == Append(targets, t)

\* deque(maxlen=2).append
remember(targets, t) ==
    IF Len(targets) < UNCONFIRMED_OWN_TARGET_HISTORY THEN Append(targets, t)
    ELSE Append(Tail(targets), t)

remembered(o, t) == [o EXCEPT !.unconfirmed = remember(@, t)]

settled_own == IF expiry = "none" THEN own ELSE remembered(own, command.target)

expire_active_command ==
    /\ active' = settled_active
    /\ command' = settled_command
    /\ outcome' = settled_outcome
    /\ own' = settled_own
    /\ UNCHANGED publishing

(***************************************************************************)
(* Dispatching a target.                                                   *)
(***************************************************************************)

\* _precheck_target: the model's operation and the configured ceiling.
precheck_target(t) == Abs(t) <= MaxPower /\ (t < 0 => Profile # "custom")

should_preempt(active_target, t) ==
    safety_reduction(active_target, t, Margin, Tolerance)

should_supersede_latest(state) == state = "published" /\ ~supports_acknowledgement

reduces_held_exit(t) == reduces_exit(charge, t, Margin, Tolerance)

\* An exit is out and its resend window still open.
exit_held(shape) ==
    IF charge.open THEN ~exit_due(charge)
    ELSE shape = "to_output" /\ ~found_exit_due(charge)

\* The hold on an in-flight command: its exits are spent on grid draw alone.
spent_hold(shape) == shape # "final" /\ charge.open /\ drawn_exits_spent(charge)

\* The hold with the slot free.
free_hold(t, shape) == t >= 0 /\ shape # "final" /\ exit_held(shape)

\* _publish_target up to the publish itself: the lock stays held.  The message
\* id is new; how the slot was found and the dispatch's shape ride along.
publish_target(records, t, shape, reduction, free) ==
    \E id \in MessageIds \ {active} :
        /\ active' = NoCommand
        /\ publishing' = id
        /\ command' = [NoRecord EXCEPT !.target = t, !.created = 0, !.shape = shape,
                                       !.reduction = reduction, !.free = free]
        /\ outcome' = [records EXCEPT ![id] = "queued"]
        /\ verdict' = [verdict EXCEPT ![id] = "none"]

dispatch_rejected(t) ==
    /\ ~precheck_target(t)
    /\ expire_active_command
    /\ UNCHANGED <<pending, asked, verdict>>

dispatch_held(t, shape) ==
    /\ precheck_target(t)
    /\ IF settled_active # NoCommand
       THEN spent_hold(shape) /\ ~should_preempt(command.target, t)
       ELSE free_hold(t, shape) /\ ~reduces_held_exit(t)
    /\ expire_active_command
    /\ discard_pending
    /\ asked' = NoTarget
    /\ UNCHANGED verdict

dispatch_coalesced(t, shape) ==
    /\ precheck_target(t)
    /\ settled_active # NoCommand
    /\ ~spent_hold(shape)
    /\ t = command.target /\ shape # "final"
    /\ discard_pending
    /\ asked' = NoTarget
    /\ UNCHANGED <<active, publishing, command, outcome, own, verdict>>

\* Mutant: a safety reduction waits like any other target.
gives_way_unless_waiting(t, shape) ==
    \/ shape = "final"
    \/ /\ t # command.target /\ ~spent_hold(shape)
       /\ should_supersede_latest(outcome[active])

\* The command in flight gives way and the new target is published at once.
gives_way(t, shape) ==
    \/ shape = "final"
    \/ should_preempt(command.target, t)
    \/ /\ t # command.target /\ ~spent_hold(shape)
       /\ should_supersede_latest(outcome[active])

dispatch_replacing(t, shape) ==
    /\ precheck_target(t)
    /\ settled_active # NoCommand
    /\ gives_way(t, shape)
    /\ own' = remembered(own, command.target)
    /\ discard_pending
    /\ publish_target(superseded(outcome), t, shape,
                      spent_hold(shape) /\ t >= 0, FALSE)
    /\ asked' = t

dispatch_queued(t, shape) ==
    /\ precheck_target(t)
    /\ settled_active # NoCommand
    /\ ~spent_hold(shape)
    /\ t # command.target
    /\ ~gives_way(t, shape)
    /\ pending' = t
    /\ asked' = t
    /\ UNCHANGED <<active, publishing, command, outcome, own, verdict>>

dispatch_free(t, shape) ==
    /\ precheck_target(t)
    /\ settled_active = NoCommand
    /\ free_hold(t, shape) => reduces_held_exit(t)
    /\ own' = settled_own
    /\ discard_pending
    /\ publish_target(settled_outcome, t, shape, free_hold(t, shape), TRUE)
    /\ asked' = t

dispatch_output_limit(t, shape) ==
    /\ lock_free
    /\ \/ dispatch_rejected(t)
       \/ dispatch_held(t, shape)
       \/ dispatch_coalesced(t, shape)
       \/ dispatch_replacing(t, shape)
       \/ dispatch_queued(t, shape)
       \/ dispatch_free(t, shape)
    /\ UNCHANGED <<charge, observed, reports_seen, found_sent>>

\* The controller skips the device this cycle: its queued target is dropped.
cancel_pending_output_limit ==
    /\ lock_free
    /\ discard_pending
    /\ asked' = NoTarget
    /\ UNCHANGED <<active, publishing, command, outcome, charge, own, observed,
                   verdict, reports_seen, found_sent>>

(***************************************************************************)
(* The rest of _publish_target, once the local MQTT client has answered.   *)
(***************************************************************************)

\* What the charge record takes an accepted publish for.
sent(c, cmd) ==
    IF cmd.target < 0 THEN charge_sent(c, -cmd.target)
    ELSE IF cmd.reduction THEN reduction_sent(c, cmd.target)
    ELSE IF cmd.shape = "to_output" THEN found_exit_sent(exit_sent(c, cmd.target))
    ELSE exit_sent(c, cmd.target)

\* Neither an acknowledgement nor telemetry can follow: complete at once.
published_state ==
    IF supports_acknowledgement \/ Confirmable THEN "published"
    ELSE "completed_unconfirmed"

publish_accepted ==
    /\ publishing # NoCommand
    /\ publishing' = NoCommand
    /\ outcome' = [outcome EXCEPT ![publishing] = published_state]
    /\ IF published_state \in ActiveStates
       THEN /\ active' = publishing
            /\ command' = [command EXCEPT !.published = 0, !.shape = "none",
                                          !.reduction = FALSE, !.free = FALSE]
       ELSE /\ active' = NoCommand
            /\ command' = NoRecord
    /\ charge' = sent(charge, command)
    /\ since' = {}
    /\ found_sent' = IF /\ command.shape = "to_output" /\ command.free
                        /\ command.target >= 0 /\ ~charge.open
                     THEN AtMost(found_sent + 1, FOUND_EXIT_ATTEMPTS + 1)
                     ELSE found_sent
    /\ asked' = NoTarget
    /\ UNCHANGED <<pending, own, snapshot, output_is_new, verdict, reports_seen>>

publish_failed ==
    /\ publishing # NoCommand
    /\ publishing' = NoCommand
    /\ outcome' = [outcome EXCEPT ![publishing] = "rejected"]
    /\ active' = NoCommand
    /\ command' = NoRecord
    /\ asked' = NoTarget
    /\ UNCHANGED <<pending, charge, own, observed, verdict, reports_seen, found_sent>>

(***************************************************************************)
(* Replies, on the MQTT network thread.  A reply that does not correlate,  *)
(* a duplicate and one that comes after the command left the slot change   *)
(* nothing; a reply that ends the command flushes the pending target.      *)
(***************************************************************************)
handle_reply(id) ==
    LET success == verdict[id] = "ok"
        state   == IF success /\ ~Confirmable THEN "completed_unconfirmed"
                   ELSE apply_reply(success)
        records == [outcome EXCEPT ![active] = state]
    IN  /\ lock_free
        /\ verdict[id] # "none"
        /\ active # NoCommand
        /\ supports_acknowledgement
        /\ outcome[active] = "published"
        /\ reply_matches(active, id)
        /\ \/ /\ state \in ActiveStates
              /\ outcome' = records
              /\ command' = [command EXCEPT !.acknowledged = 0]
              /\ UNCHANGED <<active, publishing, pending, verdict>>
           \/ /\ state \in TerminalStates /\ pending = NoTarget
              /\ outcome' = records
              /\ active' = NoCommand
              /\ command' = NoRecord
              /\ UNCHANGED <<publishing, pending, verdict>>
           \/ /\ state \in TerminalStates /\ pending # NoTarget
              /\ publish_target(records, pending, "none", FALSE, FALSE)
              /\ pending' = NoTarget
        /\ UNCHANGED <<charge, own, observed, history>>

(***************************************************************************)
(* Reading telemetry, on the fetch executor.                               *)
(***************************************************************************)
is_fresh == snapshot.age # Never /\ snapshot.age <= StaleAfter

confirmed == active # NoCommand
             /\ confirms(outcome[active], command.target, snapshot.metrics, since)

\* _reports_own_target
reports_own_target(m, t) ==
    IF t >= 0 THEN Abs(m["outputLimit"] - t) <= Tolerance
    ELSE /\ Abs(m["outputLimit"]) <= Tolerance
         /\ Observed(m, "inputLimit") => Abs(m["inputLimit"] + t) <= Tolerance

own_targets == {own.confirmed} \cup {own.unconfirmed[i] : i \in 1..Len(own.unconfirmed)}

\* Mutant: every fetch counts the report it reads, seen before or not.
detectable_again ==
    /\ active = NoCommand
    /\ own.confirmed # NoTarget
    /\ Observed(snapshot.metrics, "outputLimit")

\* _detect_external_control looks only while no command is in flight, and
\* counts each report once.
detectable ==
    /\ active = NoCommand
    /\ own.confirmed # NoTarget
    /\ output_is_new
    /\ Observed(snapshot.metrics, "outputLimit")

detect_external_control ==
    IF ~detectable THEN UNCHANGED <<own, output_is_new>>
    ELSE /\ output_is_new' = FALSE
         /\ IF \E t \in own_targets : reports_own_target(snapshot.metrics, t)
            THEN own' = [own EXCEPT !.streak = 0]
            ELSE own' = [own EXCEPT !.streak = AtMost(@ + 1, 2),
                                    !.suspected = @ \/ own.streak >= 1]

fetch_confirms ==
    /\ is_fresh /\ confirmed
    /\ outcome' = [outcome EXCEPT ![active] = "telemetry_confirmed"]
    /\ active' = NoCommand
    /\ command' = NoRecord
    /\ own' = [confirmed |-> command.target, unconfirmed |-> <<>>, streak |-> 0,
               suspected |-> FALSE]
    /\ output_is_new' = FALSE
    /\ reports_seen' = 0
    /\ charge' = observe(charge, snapshot.metrics)
    /\ UNCHANGED <<publishing, pending>>

fetch_unconfirmed ==
    /\ is_fresh /\ ~confirmed
    /\ active # NoCommand
    /\ expire_active_command
    /\ charge' = observe(charge, snapshot.metrics)
    /\ UNCHANGED <<pending, output_is_new, reports_seen>>

fetch_idle ==
    /\ is_fresh
    /\ active = NoCommand
    /\ detect_external_control
    /\ charge' = observe(charge, snapshot.metrics)
    /\ UNCHANGED <<active, publishing, command, outcome, pending, reports_seen>>

fetch_stale ==
    /\ ~is_fresh
    /\ expire_active_command
    /\ UNCHANGED <<pending, charge, output_is_new, reports_seen>>

fetch ==
    /\ lock_free
    /\ fetch_confirms \/ fetch_unconfirmed \/ fetch_idle \/ fetch_stale
    /\ UNCHANGED <<snapshot, since, verdict, asked, found_sent>>

\* Diagnostics settle the deadline too, from a thread of their own.
describe ==
    /\ lock_free
    /\ expire_active_command
    /\ UNCHANGED <<pending, charge, observed, verdict, history>>

(***************************************************************************)
(* The charge record, as the controller closes it: a claim that writes its *)
(* own charge takes it over, or the exits are spent and it is the device's.*)
(***************************************************************************)
release_charge_record ==
    /\ lock_free
    /\ charge.open
    /\ charge' = release(charge)
    /\ UNCHANGED <<slot, own, observed, verdict, history>>

charge_exit_exhausted == active = NoCommand /\ exit_exhausted(charge)

leave_charge_to_device == charge_exit_exhausted /\ release_charge_record

(***************************************************************************)
(* The device and the clock.  The device sends reports, and answers a      *)
(* command that reached the broker with success or an error, or never; a   *)
(* reply may be delivered late, more than once, or not at all.             *)
(***************************************************************************)
merge(m, r) == [k \in DOMAIN m \cup DOMAIN r |-> IF k \in DOMAIN r THEN r[k] ELSE m[k]]

report(r) ==
    /\ snapshot' = [metrics |-> merge(snapshot.metrics, r), age |-> 0]
    /\ since' = since \cup DOMAIN r
    /\ output_is_new' = (output_is_new \/ "outputLimit" \in DOMAIN r)
    /\ reports_seen' = IF own.confirmed # NoTarget /\ "outputLimit" \in DOMAIN r
                       THEN AtMost(reports_seen + 1, 2) ELSE reports_seen
    /\ UNCHANGED <<slot, charge, own, verdict, asked, found_sent>>

device_answers(id, answer) ==
    /\ supports_acknowledgement
    /\ verdict[id] = "none"
    /\ outcome[id] \notin {"none", "queued", "rejected"}
    /\ verdict' = [verdict EXCEPT ![id] = answer]
    /\ UNCHANGED <<slot, charge, own, observed, history>>

tick ==
    /\ command' = [command EXCEPT !.created = Older(@, AckTimeout),
                                  !.published = Older(@, ConfirmTimeout),
                                  !.acknowledged = Older(@, ConfirmTimeout)]
    /\ charge' = charge_older(charge)
    /\ snapshot' = [snapshot EXCEPT !.age = Older(@, StaleAfter + 1)]
    /\ UNCHANGED <<active, publishing, outcome, pending, own, since, output_is_new,
                   verdict, history>>

Next ==
    \/ \E t \in Targets, shape \in ExitShapes : dispatch_output_limit(t, shape)
    \/ cancel_pending_output_limit
    \/ publish_accepted
    \/ publish_failed
    \/ \E id \in MessageIds : handle_reply(id)
    \/ fetch
    \/ describe
    \/ release_charge_record
    \/ leave_charge_to_device
    \/ \E r \in Reports : report(r)
    \/ \E id \in MessageIds, answer \in {"ok", "no"} : device_answers(id, answer)
    \/ tick

Spec == Init /\ [][Next]_vars

(***************************************************************************)
(* Fairness.  The clock advances, a publish under way returns, and the     *)
(* control loop fetches every device and then looks for an exhausted       *)
(* charge in every cycle, whatever it dispatched in between.  Both are     *)
(* strongly fair: the lock they need is free again and again, not for good.*)
(***************************************************************************)
Fairness == /\ WF_vars(tick)
            /\ WF_vars(publish_accepted \/ publish_failed)
            /\ SF_vars(fetch)
            /\ SF_vars(leave_charge_to_device)

FairSpec == Spec /\ Fairness

-----------------------------------------------------------------------------
(***************************************************************************)
(* Properties                                                              *)
(***************************************************************************)

\* Types of every variable, one conjunct each.
TypeOK ==
    /\ active \in MessageIds \cup {NoCommand}
    /\ publishing \in MessageIds \cup {NoCommand}
    /\ command \in CommandRecords
    /\ outcome \in [MessageIds -> {"none"} \cup ActiveStates \cup TerminalStates]
    /\ pending \in Int \cup {NoTarget}
    /\ charge \in ChargeRecords
    /\ own \in OwnMemories
    /\ Len(own.unconfirmed) <= UNCONFIRMED_OWN_TARGET_HISTORY
    /\ snapshot = [metrics |-> snapshot.metrics, age |-> snapshot.age]
    /\ IsReport(snapshot.metrics)
    /\ snapshot.age \in Ages(StaleAfter + 1)
    /\ since \subseteq DOMAIN snapshot.metrics
    /\ output_is_new \in BOOLEAN
    /\ verdict \in [MessageIds -> {"none", "ok", "no"}]
    /\ asked \in Int \cup {NoTarget}
    /\ reports_seen \in 0..2
    /\ found_sent \in 0..(FOUND_EXIT_ATTEMPTS + 1)

\* Exactly one command per device is in flight: a record that still awaits an
\* outcome is the one in the slot or the one being published, never a command
\* that a preemption, a timeout or a reply took out of the slot.
SingleInFlight ==
    /\ active = NoCommand \/ publishing = NoCommand
    /\ \A id \in MessageIds :
            outcome[id] \in ActiveStates <=> id \in {active, publishing}

\* What waits in the pending slot, and what is being published, is the target
\* the controller asked for last and has not taken back: a reply on the network
\* thread never flushes an intent of an earlier cycle.
LatestIntent ==
    /\ pending # NoTarget => pending = asked
    /\ publishing # NoCommand => command.target = asked

\* A stop, a change of direction or a cut by the safety margin never waits
\* behind the command in flight.
SafetyNeverWaits ==
    active # NoCommand /\ pending # NoTarget => ~should_preempt(command.target, pending)

\* With a reply contract, a command counts as accepted only if the device itself
\* accepted that very command: not on the publish, and not on a late or
\* duplicate reply to another one.
AcceptanceIsTheDevices ==
    supports_acknowledgement =>
        \A id \in MessageIds :
            outcome[id] \in {"acknowledged", "telemetry_confirmed",
                             "completed_unconfirmed", "confirmation_timed_out"}
            => verdict[id] = "ok"

\* A command that reached a terminal state keeps it: late replies, telemetry and
\* deadlines find nothing to change.  (A reused id is a new command.)
OutcomeIsFinal ==
    [][\A id \in MessageIds :
            outcome[id] \in TerminalStates => outcome'[id] \in {outcome[id], "queued"}]_vars

\* A foreign writer is suspected on distinct reports: fetches that read one
\* report again and again count it once.
StreakNeedsReports == own.streak <= reports_seen

\* Once the exits are spent on a charge only grid draw shows, a moving load
\* sends no further exit; only the shutdown release and a safety reduction go out.
NoExitOnceSpent ==
    /\ publishing # NoCommand
    /\ command.target >= 0
    /\ ~command.reduction
    /\ command.shape # "final"
    => ~(charge.open /\ drawn_exits_spent(charge))

\* The exit to AC input found after a start leaves a free slot at most
\* FOUND_EXIT_ATTEMPTS times, whenever the clocks of the controller and of the
\* transport are read.
FoundExitsBounded == found_sent <= FOUND_EXIT_ATTEMPTS

\* No command occupies the slot for good: replies may be lost and telemetry may
\* stop, the deadlines still release it.
SlotIsReleased == \A id \in MessageIds : active = id ~> active # id

\* A charge only grid draw shows does not stay on record: after its last exit no
\* stream of targets and reductions keeps it open.  Only the controller's own
\* release, an exit that asks no window, starts the wait for a report again.
SpentChargeIsLeft ==
    charge.open /\ drawn_exits_spent(charge)
        ~> \/ ~(charge.open /\ drawn_exits_spent(charge))
           \/ command.shape = "final"

(***************************************************************************)
(* Properties the repository's comments and documents state and the code   *)
(* does not have: README.md names the instance in which TLC refutes each.  *)
(***************************************************************************)

\* charge_record.py and control-logic.md: only a report after an exit closes the
\* record.  since = {} means that no report has arrived since the last publish.
ClosedByReportAfterExit ==
    [][fetch /\ charge.open /\ ~charge'.open => since # {}]_vars

\* device_client.py's fetch and zendure-mqtt-power-control.md: a queued target is
\* published by the read cycle that settles the command in flight.
FetchFlushesPending ==
    [][fetch /\ active # NoCommand /\ active' = NoCommand => pending' = NoTarget]_vars

\* device_client.py's _should_preempt: a preempting command is never confirmed by
\* telemetry that still reports the superseded target within tolerance.
last_superseded == own.unconfirmed[Len(own.unconfirmed)]

NoCrossConfirmation ==
    [][/\ fetch_confirms
       /\ \E id \in MessageIds : outcome[id] = "superseded"
       /\ Len(own.unconfirmed) > 0
       /\ should_preempt(last_superseded, command.target)
       => ~reports_own_target(snapshot.metrics, last_superseded)]_vars
=============================================================================
