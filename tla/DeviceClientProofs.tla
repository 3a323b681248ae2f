------------------------- MODULE DeviceClientProofs -------------------------
(***************************************************************************)
(* Proofs about DeviceClient, for any targets, reports, message ids, write *)
(* profile and deadlines.                                                  *)
(*                                                                         *)
(* The invariant has four parts, one per piece of state: the slot, the     *)
(* telemetry, what detection remembers, the charge record.  Each part is   *)
(* preserved by every step given the whole, and is the named properties    *)
(* with what they need to be inductive:                                    *)
(*   - the slot: a command in the slot has a number for a target, and      *)
(*     nothing waits behind a publish that holds the lock;                 *)
(*   - detection: a report not yet counted leaves room above the streak;   *)
(*   - the charge record: exits sent are attempts counted, and an exit     *)
(*     that holds the lock was due when it was dispatched and still is.    *)
(***************************************************************************)
EXTENDS DeviceClient, TLAPS

States == {"none"} \cup ActiveStates \cup TerminalStates

SlotTypes ==
    /\ active \in MessageIds \cup {NoCommand}
    /\ publishing \in MessageIds \cup {NoCommand}
    /\ command \in CommandRecords
    /\ outcome \in [MessageIds -> States]
    /\ pending \in Int \cup {NoTarget}
    /\ verdict \in [MessageIds -> {"none", "ok", "no"}]
    /\ asked \in Int \cup {NoTarget}

\* A command in the slot or on its way there has a number for a target.
HasTarget == active # NoCommand \/ publishing # NoCommand => command.target \in Int

\* Nothing waits behind a publish that holds the lock.
NothingBehindPublish == publishing # NoCommand => pending = NoTarget

SlotInv == /\ SlotTypes
           /\ SingleInFlight
           /\ LatestIntent
           /\ SafetyNeverWaits
           /\ AcceptanceIsTheDevices
           /\ HasTarget
           /\ NothingBehindPublish

ObservedInv ==
    /\ snapshot = [metrics |-> snapshot.metrics, age |-> snapshot.age]
    /\ IsReport(snapshot.metrics)
    /\ snapshot.age \in Ages(StaleAfter + 1)
    /\ since \subseteq DOMAIN snapshot.metrics
    /\ output_is_new \in BOOLEAN

\* A report that detection has not counted leaves room above the streak.
UncountedReport ==
    output_is_new /\ own.confirmed # NoTarget
        => own.streak < reports_seen \/ reports_seen = 2

OwnInv == /\ own \in OwnMemories
          /\ Len(own.unconfirmed) <= UNCONFIRMED_OWN_TARGET_HISTORY
          /\ reports_seen \in 0..2
          /\ StreakNeedsReports
          /\ UncountedReport

\* An exit to a charge found after a start that holds the lock was due.
FoundExitWasDue ==
    /\ publishing # NoCommand
    /\ command.shape = "to_output" /\ command.free
    /\ command.target >= 0
    /\ ~charge.open
    => ~command.reduction /\ found_exit_due(charge)

ChargeInv == /\ charge \in ChargeRecords
             /\ found_sent \in Nat
             /\ found_sent <= charge.found_exit_attempts
             /\ FoundExitWasDue

\* Without a reply contract no reply flushes a target past the hold on exits.
SpentInv == ~supports_acknowledgement => NoExitOnceSpent

Inv == /\ SlotInv
       /\ ObservedInv
       /\ OwnInv
       /\ ChargeInv
       /\ SpentInv

-----------------------------------------------------------------------------

\* Ages: a stamp that is None, one set now, and one that a tick makes older.
LEMMA AgesOf ==
    ASSUME NEW cap \in Nat
    PROVE  /\ Never \in Ages(cap) /\ 0 \in Ages(cap)
           /\ \A age \in Ages(cap) : Older(age, cap) \in Ages(cap)
BY DEF Ages, Older, AtMost, Never

(***************************************************************************)
(* The slot                                                                *)
(***************************************************************************)

\* The outcome _expire_active_command gives is terminal, and an acceptance only
\* where the device accepted the command.
LEMMA ExpiryIsTerminal ==
    ASSUME SlotTypes, AcceptanceIsTheDevices, expiry # "none"
    PROVE  /\ active \in MessageIds
           /\ expiry \in TerminalStates
           /\ supports_acknowledgement /\ expiry = "confirmation_timed_out"
                => verdict[active] = "ok"
<1>1. active \in MessageIds
    BY DEF expiry, SlotTypes
<1>2. expiry \in {"timed_out", "confirmation_timed_out"}
    BY DEF expiry
<1>3. ASSUME supports_acknowledgement, expiry = "confirmation_timed_out"
      PROVE  verdict[active] = "ok"
    <2>1. outcome[active] = "acknowledged"
        BY <1>3 DEF expiry, apply_confirmation_timeout
    <2> QED  BY <1>1, <1>3, <2>1 DEF AcceptanceIsTheDevices
<1> QED  BY <1>1, <1>2, <1>3 DEF TerminalStates

\* A deadline that passes, or none, keeps the slot's invariant, whether the
\* queued target is kept or dropped.
LEMMA ExpireKeepsSlot ==
    ASSUME SlotInv, lock_free, expire_active_command,
           UNCHANGED verdict,
           \/ UNCHANGED <<pending, asked>>
           \/ pending' = NoTarget /\ asked' = NoTarget
    PROVE  SlotInv'
<1> USE DEF SlotInv, lock_free
<1>1. CASE expiry = "none"
    <2>1. UNCHANGED <<active, publishing, command, outcome, verdict>>
        BY <1>1 DEF expire_active_command, settled_active, settled_command, settled_outcome
    <2> QED  BY <2>1 DEF SlotTypes, SingleInFlight, LatestIntent, SafetyNeverWaits,
                AcceptanceIsTheDevices, HasTarget, NothingBehindPublish
<1>2. CASE expiry # "none"
    <2>1. /\ active \in MessageIds
          /\ expiry \in TerminalStates
          /\ supports_acknowledgement /\ expiry = "confirmation_timed_out"
                => verdict[active] = "ok"
        BY <1>2, ExpiryIsTerminal
    <2>2. /\ active' = NoCommand
          /\ publishing' = NoCommand
          /\ command' = NoRecord
          /\ outcome' = [outcome EXCEPT ![active] = expiry]
          /\ verdict' = verdict
        BY <1>2 DEF expire_active_command, settled_active, settled_command, settled_outcome
    <2>3. NoRecord \in CommandRecords
        BY DEF NoRecord, CommandRecords, Ages
    <2>4. expiry \notin ActiveStates
        BY <2>1 DEF ActiveStates, TerminalStates
    <2>5. SlotTypes'
        BY <2>1, <2>2, <2>3 DEF SlotTypes, States
    <2>6. SingleInFlight'
        BY <2>1, <2>2, <2>4, ClientAssumption DEF SingleInFlight, SlotTypes
    <2>7. AcceptanceIsTheDevices'
        <3> SUFFICES ASSUME supports_acknowledgement, NEW id \in MessageIds,
                     outcome'[id] \in {"acknowledged", "telemetry_confirmed",
                             "completed_unconfirmed", "confirmation_timed_out"}
                     PROVE  verdict[id] = "ok"
            BY <2>2 DEF AcceptanceIsTheDevices
        <3>1. CASE id = active
            <4>1. outcome'[id] = expiry
                BY <2>2, <3>1 DEF SlotTypes
            <4>2. expiry \in {"timed_out", "confirmation_timed_out"}
                BY <1>2 DEF expiry
            <4> QED  BY <2>1, <3>1, <4>1, <4>2
        <3>2. CASE id # active
            BY <2>2, <3>2 DEF SlotTypes, AcceptanceIsTheDevices
        <3> QED  BY <3>1, <3>2
    <2> QED  BY <2>2, <2>5, <2>6, <2>7
                DEF LatestIntent, SafetyNeverWaits, HasTarget, NothingBehindPublish
<1> QED  BY <1>1, <1>2

\* _publish_target with the slot settled: the new command is the one in flight.
LEMMA PublishKeepsSlot ==
    ASSUME SlotTypes,
           NEW records \in [MessageIds -> States],
           \A id \in MessageIds : records[id] \notin ActiveStates,
           supports_acknowledgement =>
               \A id \in MessageIds :
                   records[id] \in {"acknowledged", "telemetry_confirmed",
                             "completed_unconfirmed", "confirmation_timed_out"}
                   => verdict[id] = "ok",
           NEW t \in Int, NEW shape \in {"none", "to_output", "final"},
           NEW reduction \in BOOLEAN, NEW free \in BOOLEAN,
           publish_target(records, t, shape, reduction, free),
           pending' = NoTarget, asked' = t
    PROVE  SlotInv'
<1>1. PICK id \in MessageIds \ {active} :
        /\ active' = NoCommand
        /\ publishing' = id
        /\ command' = [NoRecord EXCEPT !.target = t, !.created = 0, !.shape = shape,
                                       !.reduction = reduction, !.free = free]
        /\ outcome' = [records EXCEPT ![id] = "queued"]
        /\ verdict' = [verdict EXCEPT ![id] = "none"]
    BY DEF publish_target
<1>2. command' = [target |-> t, created |-> 0, published |-> Never,
                  acknowledged |-> Never, shape |-> shape, reduction |-> reduction,
                  free |-> free]
    BY <1>1 DEF NoRecord
<1>3. command' \in CommandRecords /\ command'.target = t
    BY <1>2, CommandAssumption DEF CommandRecords, Ages
<1>4. SlotTypes'
    BY <1>1, <1>3 DEF SlotTypes, States, ActiveStates
<1>5. SingleInFlight'
    BY <1>1, ClientAssumption DEF SingleInFlight, ActiveStates
<1>6. AcceptanceIsTheDevices'
    BY <1>1 DEF AcceptanceIsTheDevices, SlotTypes
<1>7. LatestIntent' /\ HasTarget' /\ NothingBehindPublish' /\ SafetyNeverWaits'
    BY <1>1, <1>3 DEF LatestIntent, HasTarget, NothingBehindPublish, SafetyNeverWaits
<1> QED  BY <1>4, <1>5, <1>6, <1>7 DEF SlotInv

\* The record a command leaves when it gives way, or when nothing is in flight:
\* no record awaits an outcome, and acceptance is still the device's.
LEMMA SettledRecords ==
    ASSUME SlotInv, lock_free, NEW state \in TerminalStates, active \in MessageIds,
           supports_acknowledgement /\ state \notin {"rejected", "timed_out", "superseded"}
                => verdict[active] = "ok",
           NEW records, records = [outcome EXCEPT ![active] = state]
    PROVE  /\ records \in [MessageIds -> States]
           /\ \A id \in MessageIds : records[id] \notin ActiveStates
           /\ supports_acknowledgement =>
               \A id \in MessageIds :
                   records[id] \in {"acknowledged", "telemetry_confirmed",
                             "completed_unconfirmed", "confirmation_timed_out"}
                   => verdict[id] = "ok"
<1> USE DEF SlotInv, SlotTypes
<1>1. records \in [MessageIds -> States]
    BY DEF States
<1>2. state \notin ActiveStates
    BY DEF ActiveStates, TerminalStates
<1>3. \A id \in MessageIds : records[id] \notin ActiveStates
    BY <1>2, ClientAssumption DEF SingleInFlight, lock_free
<1>4. ASSUME supports_acknowledgement, NEW id \in MessageIds,
             records[id] \in {"acknowledged", "telemetry_confirmed",
                             "completed_unconfirmed", "confirmation_timed_out"}
      PROVE  verdict[id] = "ok"
    BY <1>4 DEF AcceptanceIsTheDevices
<1> QED  BY <1>1, <1>3, <1>4

\* A command that leaves the slot with nothing behind it, in a terminal state
\* that is an acceptance only where the device accepted.
LEMMA ClearKeepsSlot ==
    ASSUME SlotInv, lock_free, active \in MessageIds,
           NEW state \in TerminalStates,
           supports_acknowledgement /\ state \notin {"rejected", "timed_out", "superseded"}
                => verdict[active] = "ok",
           outcome' = [outcome EXCEPT ![active] = state],
           active' = NoCommand, command' = NoRecord,
           UNCHANGED <<publishing, pending, verdict, asked>>
    PROVE  SlotInv'
<1>1. PICK records : records = [outcome EXCEPT ![active] = state] /\ outcome' = records
    OBVIOUS
<1>2. /\ records \in [MessageIds -> States]
      /\ \A id \in MessageIds : records[id] \notin ActiveStates
      /\ supports_acknowledgement =>
            \A id \in MessageIds :
                records[id] \in {"acknowledged", "telemetry_confirmed",
                             "completed_unconfirmed", "confirmation_timed_out"}
                => verdict[id] = "ok"
    BY <1>1, SettledRecords
<1>3. NoRecord \in CommandRecords
    BY DEF NoRecord, CommandRecords, Ages
<1>4. SlotTypes'
    BY <1>1, <1>2, <1>3 DEF SlotInv, SlotTypes
<1>5. SingleInFlight'
    BY <1>1, <1>2, ClientAssumption DEF SingleInFlight, lock_free
<1>6. AcceptanceIsTheDevices'
    BY <1>1, <1>2 DEF AcceptanceIsTheDevices
<1> QED  BY <1>4, <1>5, <1>6
            DEF SlotInv, LatestIntent, SafetyNeverWaits, HasTarget, NothingBehindPublish,
                lock_free

\* Every dispatch keeps the slot's invariant.
LEMMA DispatchKeepsSlot ==
    ASSUME SlotInv, NEW t \in Targets, NEW shape \in ExitShapes,
           dispatch_output_limit(t, shape)
    PROVE  SlotInv'
<1>0. lock_free /\ t \in Int /\ shape \in {"none", "to_output", "final"}
    BY ClientAssumption DEF dispatch_output_limit
<1>1. CASE dispatch_rejected(t)
    BY <1>0, <1>1, ExpireKeepsSlot DEF dispatch_rejected
<1>2. CASE dispatch_held(t, shape)
    BY <1>0, <1>2, ExpireKeepsSlot DEF dispatch_held, discard_pending
<1>3. CASE dispatch_coalesced(t, shape)
    BY <1>0, <1>3 DEF dispatch_coalesced, discard_pending, SlotInv, SlotTypes,
        SingleInFlight, LatestIntent, SafetyNeverWaits, AcceptanceIsTheDevices,
        HasTarget, NothingBehindPublish, lock_free
<1>4. CASE dispatch_replacing(t, shape)
    <2>1. active \in MessageIds /\ expiry = "none"
        BY <1>4 DEF dispatch_replacing, settled_active, SlotInv, SlotTypes
    <2> DEFINE reduction == spent_hold(shape) /\ t >= 0
    <2>2. superseded(outcome) = [outcome EXCEPT ![active] = "superseded"]
        BY DEF superseded
    <2>3. /\ superseded(outcome) \in [MessageIds -> States]
          /\ \A id \in MessageIds : superseded(outcome)[id] \notin ActiveStates
          /\ supports_acknowledgement =>
                \A id \in MessageIds :
                    superseded(outcome)[id] \in {"acknowledged", "telemetry_confirmed",
                             "completed_unconfirmed", "confirmation_timed_out"}
                    => verdict[id] = "ok"
        <3>1. "superseded" \in TerminalStates
            BY DEF TerminalStates
        <3> QED  BY <1>0, <2>1, <2>2, <3>1, SettledRecords
    <2>4. reduction \in BOOLEAN /\ FALSE \in BOOLEAN
        OBVIOUS
    <2>5. /\ publish_target(superseded(outcome), t, shape, reduction, FALSE)
          /\ pending' = NoTarget /\ asked' = t
        BY <1>4 DEF dispatch_replacing, discard_pending
    <2>6. SlotTypes
        BY DEF SlotInv
    <2> HIDE DEF reduction
    <2> QED  BY <1>0, <2>3, <2>4, <2>5, <2>6, PublishKeepsSlot
<1>5. CASE dispatch_queued(t, shape)
    <2>1. ~should_preempt(command.target, t)
        BY <1>5 DEF dispatch_queued, gives_way
    <2>2. active # NoCommand
        BY <1>5 DEF dispatch_queued, settled_active
    <2>3. /\ UNCHANGED <<active, publishing, command, outcome, verdict>>
          /\ pending' = t /\ asked' = t
        BY <1>5 DEF dispatch_queued
    <2>4. SlotTypes' /\ SingleInFlight' /\ AcceptanceIsTheDevices' /\ HasTarget'
        BY <1>0, <2>3 DEF SlotInv, SlotTypes, SingleInFlight, AcceptanceIsTheDevices, HasTarget
    <2>5. LatestIntent' /\ NothingBehindPublish'
        BY <1>0, <2>3 DEF LatestIntent, NothingBehindPublish, lock_free
    <2>6. SafetyNeverWaits'
        BY <2>1, <2>3 DEF SafetyNeverWaits, should_preempt, safety_reduction
    <2> QED  BY <2>4, <2>5, <2>6 DEF SlotInv
<1>6. CASE dispatch_free(t, shape)
    <2>1. /\ settled_active = NoCommand
          /\ publish_target(settled_outcome, t, shape, free_hold(t, shape), TRUE)
          /\ pending' = NoTarget /\ asked' = t
        BY <1>6 DEF dispatch_free, discard_pending
    <2>2. /\ settled_outcome \in [MessageIds -> States]
          /\ \A id \in MessageIds : settled_outcome[id] \notin ActiveStates
          /\ supports_acknowledgement =>
                \A id \in MessageIds :
                    settled_outcome[id] \in {"acknowledged", "telemetry_confirmed",
                             "completed_unconfirmed", "confirmation_timed_out"}
                    => verdict[id] = "ok"
        <3>1. CASE expiry = "none"
            BY <1>0, <2>1, <3>1, ClientAssumption DEF settled_active, settled_outcome, SlotInv, SlotTypes,
                SingleInFlight, AcceptanceIsTheDevices, lock_free
        <3>2. CASE expiry # "none"
            <4>1. /\ active \in MessageIds
                  /\ expiry \in TerminalStates
                  /\ supports_acknowledgement /\ expiry = "confirmation_timed_out"
                        => verdict[active] = "ok"
                BY <3>2, ExpiryIsTerminal DEF SlotInv
            <4>2. expiry \in {"timed_out", "confirmation_timed_out"}
                BY <3>2 DEF expiry
            <4>3. settled_outcome = [outcome EXCEPT ![active] = expiry]
                BY <3>2 DEF settled_outcome
            <4> QED  BY <1>0, <4>1, <4>2, <4>3, SettledRecords
        <3> QED  BY <3>1, <3>2
    <2>3. free_hold(t, shape) \in BOOLEAN /\ TRUE \in BOOLEAN
        BY DEF free_hold
    <2>4. SlotTypes
        BY DEF SlotInv
    <2> QED  BY <1>0, <2>1, <2>2, <2>3, <2>4, PublishKeepsSlot
<1> QED  BY <1>1, <1>2, <1>3, <1>4, <1>5, <1>6 DEF dispatch_output_limit

\* The end of a publish keeps the slot's invariant.
LEMMA PublishedKeepsSlot ==
    ASSUME SlotInv, publish_accepted \/ publish_failed
    PROVE  SlotInv'
<1> USE DEF SlotInv
<1>1. /\ publishing \in MessageIds /\ active = NoCommand
      /\ command \in CommandRecords /\ command.target \in Int
      /\ pending = NoTarget
    BY DEF publish_accepted, publish_failed, SlotTypes, SingleInFlight, HasTarget,
        NothingBehindPublish
<1>2. NoRecord \in CommandRecords
    BY DEF NoRecord, CommandRecords, Ages
<1>3. CASE publish_accepted
    <2>1. /\ publishing' = NoCommand /\ pending' = NoTarget /\ asked' = NoTarget
          /\ verdict' = verdict
          /\ outcome' = [outcome EXCEPT ![publishing] = published_state]
        BY <1>1, <1>3 DEF publish_accepted
    <2>2. CASE supports_acknowledgement \/ Confirmable
        <3>1. published_state = "published"
            BY <2>2 DEF published_state
        <3>2. /\ active' = publishing
              /\ command' = [command EXCEPT !.published = 0, !.shape = "none",
                                            !.reduction = FALSE, !.free = FALSE]
            BY <1>3, <3>1 DEF publish_accepted, ActiveStates
        <3>3. command' \in CommandRecords /\ command'.target \in Int
            BY <1>1, <3>2, CommandAssumption, AgesOf DEF CommandRecords
        <3>4. SlotTypes'
            BY <1>1, <2>1, <3>1, <3>2, <3>3 DEF SlotTypes, States, ActiveStates
        <3>5. SingleInFlight'
            BY <1>1, <2>1, <3>1, <3>2, ClientAssumption
                DEF SingleInFlight, SlotTypes, ActiveStates
        <3>6. AcceptanceIsTheDevices'
            BY <1>1, <2>1, <3>1 DEF AcceptanceIsTheDevices, SlotTypes
        <3> QED  BY <2>1, <3>3, <3>4, <3>5, <3>6
                    DEF LatestIntent, SafetyNeverWaits, HasTarget, NothingBehindPublish
    <2>3. CASE ~(supports_acknowledgement \/ Confirmable)
        <3>1. published_state = "completed_unconfirmed"
            BY <2>3 DEF published_state
        <3>2. active' = NoCommand /\ command' = NoRecord
            BY <1>3, <3>1 DEF publish_accepted, ActiveStates
        <3>3. SlotTypes'
            BY <1>1, <1>2, <2>1, <3>1, <3>2 DEF SlotTypes, States, TerminalStates
        <3>4. SingleInFlight'
            BY <1>1, <2>1, <3>1, <3>2, ClientAssumption
                DEF SingleInFlight, SlotTypes, ActiveStates
        <3>5. AcceptanceIsTheDevices'
            BY <2>3 DEF AcceptanceIsTheDevices
        <3> QED  BY <2>1, <3>2, <3>3, <3>4, <3>5
                    DEF LatestIntent, SafetyNeverWaits, HasTarget, NothingBehindPublish
    <2> QED  BY <2>2, <2>3
<1>4. CASE publish_failed
    <2>1. /\ publishing' = NoCommand /\ pending' = NoTarget /\ asked' = NoTarget
          /\ verdict' = verdict /\ active' = NoCommand /\ command' = NoRecord
          /\ outcome' = [outcome EXCEPT ![publishing] = "rejected"]
        BY <1>1, <1>4 DEF publish_failed
    <2>2. SlotTypes'
        BY <1>1, <1>2, <2>1 DEF SlotTypes, States, TerminalStates
    <2>3. SingleInFlight'
        BY <1>1, <2>1, ClientAssumption DEF SingleInFlight, SlotTypes, ActiveStates
    <2>4. AcceptanceIsTheDevices'
        BY <1>1, <2>1 DEF AcceptanceIsTheDevices, SlotTypes
    <2> QED  BY <2>1, <2>2, <2>3, <2>4
                DEF LatestIntent, SafetyNeverWaits, HasTarget, NothingBehindPublish
<1> QED  BY <1>3, <1>4

\* A reply keeps the slot's invariant: it acknowledges the command in flight,
\* or ends it, with or without a target to flush.
LEMMA ReplyKeepsSlot ==
    ASSUME SlotInv, NEW id \in MessageIds, handle_reply(id)
    PROVE  SlotInv'
<1> USE DEF SlotInv
<1> DEFINE success == verdict[id] = "ok"
           state   == IF success /\ ~Confirmable THEN "completed_unconfirmed"
                      ELSE apply_reply(success)
<1>1. /\ lock_free /\ active = id /\ outcome[id] = "published"
      /\ supports_acknowledgement
      /\ UNCHANGED asked
    BY DEF handle_reply, reply_matches, history
<1>2. state \in {"acknowledged", "completed_unconfirmed", "rejected"}
    BY DEF apply_reply
<1>3. state \in {"acknowledged", "completed_unconfirmed"} => verdict[id] = "ok"
    BY DEF apply_reply
<1>4. PICK records : records = [outcome EXCEPT ![id] = state]
    OBVIOUS
<1>5. \/ /\ state \in ActiveStates
         /\ outcome' = records
         /\ command' = [command EXCEPT !.acknowledged = 0]
         /\ UNCHANGED <<active, publishing, pending, verdict>>
      \/ /\ state \in TerminalStates /\ pending = NoTarget
         /\ outcome' = records
         /\ active' = NoCommand
         /\ command' = NoRecord
         /\ UNCHANGED <<publishing, pending, verdict>>
      \/ /\ state \in TerminalStates /\ pending # NoTarget
         /\ publish_target(records, pending, "none", FALSE, FALSE)
         /\ pending' = NoTarget
    BY <1>1, <1>4 DEF handle_reply
<1> HIDE DEF state, success
<1>6. CASE /\ state \in ActiveStates
           /\ outcome' = records
           /\ command' = [command EXCEPT !.acknowledged = 0]
           /\ UNCHANGED <<active, publishing, pending, verdict>>
    <2>1. command' \in CommandRecords /\ command'.target = command.target
        BY <1>6, CommandAssumption DEF CommandRecords, Ages, SlotTypes
    <2>2. SlotTypes'
        BY <1>1, <1>4, <1>6, <2>1 DEF SlotTypes, States
    <2>3. SingleInFlight'
        BY <1>1, <1>4, <1>6 DEF SingleInFlight, SlotTypes, ActiveStates
    <2>4. AcceptanceIsTheDevices'
        BY <1>1, <1>2, <1>3, <1>4, <1>6 DEF AcceptanceIsTheDevices, SlotTypes, ActiveStates
    <2> QED  BY <1>1, <1>6, <2>1, <2>2, <2>3, <2>4
                DEF LatestIntent, SafetyNeverWaits, HasTarget, NothingBehindPublish,
                    should_preempt, safety_reduction
<1>7. CASE /\ state \in TerminalStates /\ pending = NoTarget
           /\ outcome' = records
           /\ active' = NoCommand
           /\ command' = NoRecord
           /\ UNCHANGED <<publishing, pending, verdict>>
    BY <1>1, <1>2, <1>3, <1>4, <1>7, ClearKeepsSlot
<1>8. CASE /\ state \in TerminalStates /\ pending # NoTarget
           /\ publish_target(records, pending, "none", FALSE, FALSE)
           /\ pending' = NoTarget
    <2>1. /\ records \in [MessageIds -> States]
          /\ \A j \in MessageIds : records[j] \notin ActiveStates
          /\ supports_acknowledgement =>
                \A j \in MessageIds :
                    records[j] \in {"acknowledged", "telemetry_confirmed",
                             "completed_unconfirmed", "confirmation_timed_out"}
                    => verdict[j] = "ok"
        BY <1>1, <1>2, <1>3, <1>4, <1>8, SettledRecords
    <2>2. pending \in Int /\ asked' = pending
        BY <1>1, <1>8 DEF SlotTypes, LatestIntent
    <2>3. FALSE \in BOOLEAN /\ "none" \in {"none", "to_output", "final"}
        OBVIOUS
    <2> QED  BY <1>8, <2>1, <2>2, <2>3, PublishKeepsSlot
<1> QED  BY <1>5, <1>6, <1>7, <1>8

\* A read of telemetry keeps the slot's invariant: it confirms the command in
\* flight, or settles its deadline.
LEMMA FetchKeepsSlot ==
    ASSUME SlotInv, fetch
    PROVE  SlotInv'
<1>1. lock_free /\ UNCHANGED <<verdict, asked>>
    BY DEF fetch
<1>2. CASE fetch_confirms
    <2>1. active \in MessageIds
        BY <1>2 DEF fetch_confirms, confirmed, SlotInv, SlotTypes
    <2>2. supports_acknowledgement => verdict[active] = "ok"
        <3>1. supports_acknowledgement => outcome[active] = "acknowledged"
            BY <1>2 DEF fetch_confirms, confirmed, confirms, confirm_eligible
        <3> QED  BY <2>1, <3>1 DEF SlotInv, AcceptanceIsTheDevices
    <2>3. /\ outcome' = [outcome EXCEPT ![active] = "telemetry_confirmed"]
          /\ active' = NoCommand /\ command' = NoRecord
          /\ UNCHANGED <<publishing, pending>>
        BY <1>2 DEF fetch_confirms
    <2>4. "telemetry_confirmed" \in TerminalStates
        BY DEF TerminalStates
    <2> QED  BY <1>1, <2>1, <2>2, <2>3, <2>4, ClearKeepsSlot
<1>3. CASE fetch_unconfirmed
    BY <1>1, <1>3, ExpireKeepsSlot DEF fetch_unconfirmed
<1>4. CASE fetch_idle
    <2>1. UNCHANGED <<active, publishing, command, outcome, pending, verdict, asked>>
        BY <1>1, <1>4 DEF fetch_idle
    <2> QED  BY <2>1 DEF SlotInv, SlotTypes, SingleInFlight, LatestIntent,
                SafetyNeverWaits, AcceptanceIsTheDevices, HasTarget, NothingBehindPublish
<1>5. CASE fetch_stale
    BY <1>1, <1>5, ExpireKeepsSlot DEF fetch_stale
<1> QED  BY <1>2, <1>3, <1>4, <1>5 DEF fetch

\* Every step keeps the slot's invariant.
LEMMA SlotStep ==
    ASSUME SlotInv, [Next]_vars
    PROVE  SlotInv'
<1> DEFINE kept == UNCHANGED <<active, publishing, command, outcome, pending, verdict, asked>>
<1>1. ASSUME kept PROVE SlotInv'
    BY <1>1 DEF SlotInv, SlotTypes, SingleInFlight, LatestIntent, SafetyNeverWaits,
        AcceptanceIsTheDevices, HasTarget, NothingBehindPublish
<1>2. ASSUME NEW t \in Targets, NEW shape \in ExitShapes, dispatch_output_limit(t, shape)
      PROVE  SlotInv'
    BY <1>2, DispatchKeepsSlot
<1>3. CASE cancel_pending_output_limit
    BY <1>3 DEF cancel_pending_output_limit, discard_pending, lock_free, SlotInv,
        SlotTypes, SingleInFlight, LatestIntent, SafetyNeverWaits,
        AcceptanceIsTheDevices, HasTarget, NothingBehindPublish
<1>4. CASE publish_accepted \/ publish_failed
    BY <1>4, PublishedKeepsSlot
<1>5. ASSUME NEW id \in MessageIds, handle_reply(id) PROVE SlotInv'
    BY <1>5, ReplyKeepsSlot
<1>6. CASE fetch
    BY <1>6, FetchKeepsSlot
<1>7. CASE describe
    <2>1. UNCHANGED <<pending, asked, verdict>>
        BY <1>7 DEF describe, history
    <2> QED  BY <1>7, <2>1, ExpireKeepsSlot DEF describe
<1>8. CASE release_charge_record \/ leave_charge_to_device
    BY <1>1, <1>8 DEF release_charge_record, leave_charge_to_device, slot, history
<1>9. ASSUME NEW r \in Reports, report(r) PROVE SlotInv'
    BY <1>1, <1>9 DEF report, slot
<1>10. ASSUME NEW id \in MessageIds, NEW answer \in {"ok", "no"}, device_answers(id, answer)
       PROVE  SlotInv'
    <2>1. /\ UNCHANGED <<active, publishing, command, outcome, pending, asked>>
          /\ verdict' = [verdict EXCEPT ![id] = answer] /\ verdict[id] = "none"
        BY <1>10 DEF device_answers, slot, history
    <2> QED  BY <2>1 DEF SlotInv, SlotTypes, SingleInFlight, LatestIntent,
                SafetyNeverWaits, AcceptanceIsTheDevices, HasTarget, NothingBehindPublish
<1>11. CASE tick
    <2>1. /\ UNCHANGED <<active, publishing, outcome, pending, verdict, asked>>
          /\ command' = [command EXCEPT !.created = Older(@, AckTimeout),
                                        !.published = Older(@, ConfirmTimeout),
                                        !.acknowledged = Older(@, ConfirmTimeout)]
        BY <1>11 DEF tick, history
    <2>2. command' \in CommandRecords /\ command'.target = command.target
        BY <2>1, CommandAssumption, AgesOf DEF SlotInv, SlotTypes, CommandRecords
    <2> QED  BY <2>1, <2>2 DEF SlotInv, SlotTypes, SingleInFlight, LatestIntent,
                SafetyNeverWaits, AcceptanceIsTheDevices, HasTarget,
                NothingBehindPublish, should_preempt, safety_reduction
<1>12. CASE UNCHANGED vars
    BY <1>1, <1>12 DEF vars, slot, history
<1> QED  BY <1>2, <1>3, <1>4, <1>5, <1>6, <1>7, <1>8, <1>9, <1>10, <1>11, <1>12 DEF Next

-----------------------------------------------------------------------------
(***************************************************************************)
(* Telemetry, and what foreign-writer detection remembers                  *)
(***************************************************************************)

\* A merge of two reports is a report.
LEMMA MergeReports ==
    ASSUME NEW m, NEW r, IsReport(m), IsReport(r)
    PROVE  IsReport(merge(m, r)) /\ DOMAIN merge(m, r) = DOMAIN m \cup DOMAIN r
BY DEF merge, IsReport

\* Every step keeps the snapshot a report and its stamps in range.
LEMMA ObservedStep ==
    ASSUME ObservedInv, [Next]_vars
    PROVE  ObservedInv'
<1>1. ASSUME UNCHANGED <<snapshot, since, output_is_new>> PROVE ObservedInv'
    BY <1>1 DEF ObservedInv, IsReport
<1>2. CASE publish_accepted
    BY <1>2 DEF publish_accepted, ObservedInv, IsReport
<1>3. CASE fetch
    <2>1. UNCHANGED <<snapshot, since>>
        BY <1>3 DEF fetch
    <2>2. output_is_new' \in BOOLEAN
        BY <1>3, Zenon DEF fetch, fetch_confirms, fetch_unconfirmed, fetch_idle, fetch_stale,
            detect_external_control, ObservedInv
    <2> QED  BY <2>1, <2>2 DEF ObservedInv, IsReport
<1>4. ASSUME NEW r \in Reports, report(r) PROVE ObservedInv'
    <2>1. /\ snapshot' = [metrics |-> merge(snapshot.metrics, r), age |-> 0]
          /\ since' = since \cup DOMAIN r
          /\ output_is_new' = (output_is_new \/ "outputLimit" \in DOMAIN r)
        BY <1>4 DEF report
    <2>2. snapshot'.metrics = merge(snapshot.metrics, r) /\ snapshot'.age = 0
        BY <2>1
    <2>3. /\ IsReport(merge(snapshot.metrics, r))
          /\ DOMAIN merge(snapshot.metrics, r) = DOMAIN snapshot.metrics \cup DOMAIN r
        BY ClientAssumption, MergeReports DEF ObservedInv
    <2>4. 0 \in Ages(StaleAfter + 1)
        BY ClientAssumption, AgesOf
    <2>5. output_is_new' \in BOOLEAN
        BY <2>1, Zenon
    <2>6. since' \subseteq DOMAIN snapshot'.metrics
        BY <2>1, <2>2, <2>3 DEF ObservedInv
    <2>7. IsReport(snapshot'.metrics) /\ snapshot'.age \in Ages(StaleAfter + 1)
        BY <2>2, <2>3, <2>4
    <2> QED  BY <2>1, <2>2, <2>5, <2>6, <2>7 DEF ObservedInv, IsReport
<1>5. CASE tick
    <2>1. UNCHANGED <<since, output_is_new>>
        BY <1>5 DEF tick
    <2>2. snapshot' = [metrics |-> snapshot.metrics, age |-> Older(snapshot.age, StaleAfter + 1)]
        BY <1>5 DEF tick, ObservedInv
    <2>3. Older(snapshot.age, StaleAfter + 1) \in Ages(StaleAfter + 1)
        BY ClientAssumption, AgesOf DEF ObservedInv
    <2>4. snapshot'.metrics = snapshot.metrics /\ snapshot'.age \in Ages(StaleAfter + 1)
        BY <2>2, <2>3
    <2> QED  BY <2>1, <2>2, <2>4 DEF ObservedInv, IsReport
<1>6. CASE \/ \E t \in Targets, shape \in ExitShapes : dispatch_output_limit(t, shape)
           \/ cancel_pending_output_limit \/ publish_failed
           \/ \E id \in MessageIds : handle_reply(id)
           \/ describe \/ release_charge_record \/ leave_charge_to_device
           \/ \E id \in MessageIds, answer \in {"ok", "no"} : device_answers(id, answer)
           \/ UNCHANGED vars
    <2>1. UNCHANGED <<snapshot, since, output_is_new>>
        BY <1>6 DEF dispatch_output_limit, cancel_pending_output_limit, publish_failed,
            handle_reply, describe, release_charge_record, leave_charge_to_device,
            device_answers, vars, observed
    <2> QED  BY <1>1, <2>1
<1> QED  BY <1>2, <1>3, <1>4, <1>5, <1>6 DEF Next

\* deque(maxlen=2): what is remembered stays bounded and the rest is unchanged.
LEMMA RememberedTargets ==
    ASSUME NEW o \in OwnMemories, NEW t \in Int,
           Len(o.unconfirmed) <= UNCONFIRMED_OWN_TARGET_HISTORY
    PROVE  /\ remembered(o, t) \in OwnMemories
           /\ Len(remembered(o, t).unconfirmed) <= UNCONFIRMED_OWN_TARGET_HISTORY
           /\ remembered(o, t).streak = o.streak
           /\ remembered(o, t).confirmed = o.confirmed
<1>1. /\ remember(o.unconfirmed, t) \in Seq(Int)
      /\ Len(remember(o.unconfirmed, t)) <= UNCONFIRMED_OWN_TARGET_HISTORY
    BY DEF OwnMemories, remember, UNCONFIRMED_OWN_TARGET_HISTORY
<1>2. remembered(o, t) = [o EXCEPT !.unconfirmed = remember(o.unconfirmed, t)]
    BY DEF remembered
<1> QED  BY <1>1, <1>2 DEF OwnMemories

\* The memory after a deadline that passed, or none.
LEMMA SettledOwn ==
    ASSUME SlotInv, OwnInv
    PROVE  /\ settled_own \in OwnMemories
           /\ Len(settled_own.unconfirmed) <= UNCONFIRMED_OWN_TARGET_HISTORY
           /\ settled_own.streak = own.streak
           /\ settled_own.confirmed = own.confirmed
<1>1. CASE expiry = "none"
    BY <1>1 DEF settled_own, OwnInv
<1>2. CASE expiry # "none"
    <2>1. command.target \in Int
        BY <1>2 DEF expiry, SlotInv, HasTarget
    <2> QED  BY <1>2, <2>1, RememberedTargets DEF settled_own, OwnInv
<1> QED  BY <1>1, <1>2

\* A step that at most remembers one more target keeps the memory's invariant.
LEMMA RememberingKeepsOwn ==
    ASSUME SlotInv, OwnInv, UNCHANGED <<reports_seen, output_is_new>>,
           \/ own' = own
           \/ own' = settled_own
           \/ own' = remembered(own, command.target) /\ active # NoCommand
    PROVE  OwnInv'
<1>1. /\ own' \in OwnMemories
      /\ Len(own'.unconfirmed) <= UNCONFIRMED_OWN_TARGET_HISTORY
      /\ own'.streak = own.streak
      /\ own'.confirmed = own.confirmed
    BY SettledOwn, RememberedTargets DEF OwnInv, SlotInv, HasTarget
<1> QED  BY <1>1 DEF OwnInv, StreakNeedsReports, UncountedReport,
            UNCONFIRMED_OWN_TARGET_HISTORY

\* Every step keeps what detection remembers, and its streak below the number
\* of reports seen.
LEMMA OwnStep ==
    ASSUME SlotInv, ObservedInv, OwnInv, [Next]_vars
    PROVE  OwnInv'
<1>1. ASSUME NEW t \in Targets, NEW shape \in ExitShapes, dispatch_output_limit(t, shape)
      PROVE  OwnInv'
    <2>1. UNCHANGED <<reports_seen, output_is_new>>
        BY <1>1 DEF dispatch_output_limit, observed
    <2>2. \/ own' = own
          \/ own' = settled_own
          \/ own' = remembered(own, command.target) /\ active # NoCommand
        BY <1>1 DEF dispatch_output_limit, dispatch_rejected, dispatch_held,
            dispatch_coalesced, dispatch_replacing, dispatch_queued, dispatch_free,
            expire_active_command, settled_active
    <2> QED  BY <2>1, <2>2, RememberingKeepsOwn
<1>2. CASE describe
    <2>1. own' = settled_own /\ UNCHANGED <<reports_seen, output_is_new>>
        BY <1>2 DEF describe, expire_active_command, observed, history
    <2> QED  BY <2>1, RememberingKeepsOwn
<1>3. CASE fetch
    <2>1. CASE fetch_confirms
        <3>1. command.target \in Int
            BY <2>1 DEF fetch_confirms, confirmed, SlotInv, HasTarget
        <3>2. /\ own' = [confirmed |-> command.target, unconfirmed |-> <<>>, streak |-> 0,
                         suspected |-> FALSE]
              /\ output_is_new' = FALSE /\ reports_seen' = 0
            BY <2>1 DEF fetch_confirms
        <3>3. own' \in OwnMemories
            BY <3>1, <3>2 DEF OwnMemories
        <3>4. own'.unconfirmed = <<>> /\ own'.streak = 0
            BY <3>2
        <3> QED  BY <3>2, <3>3, <3>4 DEF OwnInv, StreakNeedsReports, UncountedReport,
                    UNCONFIRMED_OWN_TARGET_HISTORY
    <2>2. CASE fetch_unconfirmed
        BY <2>2, RememberingKeepsOwn DEF fetch_unconfirmed, expire_active_command
    <2>3. CASE fetch_idle
        <3>1. UNCHANGED reports_seen /\ detect_external_control
            BY <2>3 DEF fetch_idle
        <3>2. CASE ~detectable
            BY <3>1, <3>2, RememberingKeepsOwn DEF detect_external_control
        <3>3. CASE detectable
            <4>1. output_is_new' = FALSE
                BY <3>1, <3>3 DEF detect_external_control
            <4>2. own.streak < reports_seen \/ reports_seen = 2
                BY <3>3 DEF detectable, OwnInv, UncountedReport
            <4>3. own.streak \in 0..2 /\ reports_seen \in 0..2
                BY DEF OwnInv, OwnMemories
            <4>4. CASE own' = [own EXCEPT !.streak = 0]
                BY <3>1, <4>1, <4>3, <4>4 DEF OwnInv, OwnMemories, StreakNeedsReports,
                    UncountedReport
            <4>5. CASE own' = [own EXCEPT !.streak = AtMost(@ + 1, 2),
                                          !.suspected = @ \/ own.streak >= 1]
                <5>1. PICK n \in 0..2 : n = AtMost(own.streak + 1, 2)
                    BY <4>3 DEF AtMost
                <5>2. n <= reports_seen
                    BY <4>2, <4>3, <5>1 DEF AtMost
                <5>3. PICK b \in BOOLEAN : b = (own.suspected \/ own.streak >= 1)
                    BY Zenon
                <5>4. own' = [own EXCEPT !.streak = n, !.suspected = b]
                    BY <4>5, <5>1, <5>3
                <5>5. /\ own' \in OwnMemories
                      /\ own'.streak = n
                      /\ own'.unconfirmed = own.unconfirmed
                    BY <5>4 DEF OwnInv, OwnMemories
                <5> QED  BY <3>1, <4>1, <5>2, <5>5 DEF OwnInv, StreakNeedsReports,
                            UncountedReport
            <4> QED  BY <3>1, <3>3, <4>4, <4>5 DEF detect_external_control
        <3> QED  BY <3>2, <3>3
    <2>4. CASE fetch_stale
        BY <2>4, RememberingKeepsOwn DEF fetch_stale, expire_active_command
    <2> QED  BY <1>3, <2>1, <2>2, <2>3, <2>4 DEF fetch
<1>4. ASSUME NEW r \in Reports, report(r) PROVE OwnInv'
    <2>1. /\ own' = own
          /\ output_is_new' = (output_is_new \/ "outputLimit" \in DOMAIN r)
          /\ reports_seen' = IF own.confirmed # NoTarget /\ "outputLimit" \in DOMAIN r
                             THEN AtMost(reports_seen + 1, 2) ELSE reports_seen
        BY <1>4 DEF report
    <2>2. own.streak \in 0..2 /\ reports_seen \in 0..2
        BY DEF OwnInv, OwnMemories
    <2>3. CASE own.confirmed # NoTarget /\ "outputLimit" \in DOMAIN r
        <3>1. reports_seen' = AtMost(reports_seen + 1, 2)
            BY <2>1, <2>3
        <3> QED  BY <2>1, <2>2, <3>1 DEF OwnInv, StreakNeedsReports, UncountedReport, AtMost
    <2>4. CASE ~(own.confirmed # NoTarget /\ "outputLimit" \in DOMAIN r)
        <3>1. reports_seen' = reports_seen
            BY <2>1, <2>4
        <3>2. output_is_new' /\ own.confirmed # NoTarget => output_is_new
            BY <2>1, <2>4, Zenon
        <3> QED  BY <2>1, <2>2, <3>1, <3>2 DEF OwnInv, StreakNeedsReports, UncountedReport
    <2> QED  BY <2>3, <2>4
<1>5. CASE \/ cancel_pending_output_limit \/ publish_accepted \/ publish_failed
           \/ \E id \in MessageIds : handle_reply(id)
           \/ release_charge_record \/ leave_charge_to_device
           \/ \E id \in MessageIds, answer \in {"ok", "no"} : device_answers(id, answer)
           \/ tick \/ UNCHANGED vars
    <2>1. UNCHANGED <<own, reports_seen, output_is_new>>
        BY <1>5 DEF cancel_pending_output_limit, publish_accepted, publish_failed,
            handle_reply, release_charge_record, leave_charge_to_device,
            device_answers, tick, vars, observed, history
    <2> QED  BY <2>1, RememberingKeepsOwn
<1> QED  BY <1>1, <1>2, <1>3, <1>4, <1>5 DEF Next

-----------------------------------------------------------------------------
(***************************************************************************)
(* The charge record                                                       *)
(***************************************************************************)

\* What a report says of the charge setpoint is a number.
LEMMA SetpointIsInt ==
    ASSUME NEW m, IsReport(m)
    PROVE  setpoint_of(m) \in Int
BY DEF setpoint_of, IsReport, Observed, NoSetpoint

\* What goes out leaves a charge record, and no attempt is forgotten.
LEMMA SentRecords ==
    ASSUME NEW c \in ChargeRecords, NEW w \in Int
    PROVE  /\ charge_sent(c, w) \in ChargeRecords
           /\ exit_sent(c, w) \in ChargeRecords
           /\ reduction_sent(c, w) \in ChargeRecords
           /\ found_exit_sent(c) \in ChargeRecords
           /\ release(c) \in ChargeRecords
           /\ charge_sent(c, w).found_exit_attempts = c.found_exit_attempts
           /\ exit_sent(c, w).found_exit_attempts = c.found_exit_attempts
           /\ reduction_sent(c, w).found_exit_attempts = c.found_exit_attempts
           /\ found_exit_sent(c).found_exit_attempts =
                IF found_exit_due(c) THEN c.found_exit_attempts + 1
                                     ELSE c.found_exit_attempts
           /\ release(c).found_exit_attempts = c.found_exit_attempts
<1>1. /\ Never \in Ages(ResendAfter) /\ 0 \in Ages(ResendAfter)
      /\ 0 \in 0..FOUND_EXIT_ATTEMPTS /\ NoSetpoint \in Int
    BY ChargeAssumption, AgesOf DEF NoSetpoint
<1>2. found_exit_due(c) => c.found_exit_attempts + 1 \in 0..FOUND_EXIT_ATTEMPTS
    BY ChargeAssumption DEF found_exit_due, ChargeRecords
<1>3. /\ charge_sent(c, w) \in ChargeRecords
      /\ charge_sent(c, w).found_exit_attempts = c.found_exit_attempts
    BY <1>1 DEF charge_sent, ChargeRecords
<1>4. /\ exit_sent(c, w) \in ChargeRecords
      /\ exit_sent(c, w).found_exit_attempts = c.found_exit_attempts
    BY <1>1 DEF exit_sent, ChargeRecords
<1>5. /\ reduction_sent(c, w) \in ChargeRecords
      /\ reduction_sent(c, w).found_exit_attempts = c.found_exit_attempts
    BY <1>1 DEF reduction_sent, ChargeRecords
<1>6. /\ found_exit_sent(c) \in ChargeRecords
      /\ found_exit_sent(c).found_exit_attempts =
            IF found_exit_due(c) THEN c.found_exit_attempts + 1
                                 ELSE c.found_exit_attempts
    BY <1>1, <1>2 DEF found_exit_sent, ChargeRecords
<1>7. /\ release(c) \in ChargeRecords
      /\ release(c).found_exit_attempts = c.found_exit_attempts
    BY <1>1 DEF release, ChargeRecords
<1> QED  BY <1>3, <1>4, <1>5, <1>6, <1>7

\* A report leaves a charge record, and no attempt is forgotten.
LEMMA ObservedRecord ==
    ASSUME NEW c \in ChargeRecords, NEW m, IsReport(m)
    PROVE  /\ observe(c, m) \in ChargeRecords
           /\ observe(c, m).found_exit_attempts = c.found_exit_attempts
<1>1. PICK w \in Int : w = setpoint_of(m)
    BY SetpointIsInt
<1>2. PICK seen : seen = observe_found_exit(c, m)
    OBVIOUS
<1>3. seen \in ChargeRecords /\ seen.found_exit_attempts = c.found_exit_attempts
    <2> DEFINE moved == w # NoSetpoint /\ c.found_setpoint # NoSetpoint /\ w # c.found_setpoint
    <2>1. PICK left \in BOOLEAN :
            left = (c.found_charge_left
                    \/ (c.found_exit_attempts > 0 /\ (out_of_charge(m) \/ moved)))
        BY Zenon
    <2>2. seen = [c EXCEPT !.found_charge_left = left, !.last_setpoint = w]
        BY <1>1, <1>2, <2>1 DEF observe_found_exit
    <2> QED  BY <2>2 DEF ChargeRecords
<1>4. [seen EXCEPT !.reported = w] \in ChargeRecords
      /\ [seen EXCEPT !.reported = w].found_exit_attempts = c.found_exit_attempts
    BY <1>3 DEF ChargeRecords
<1>5. release(seen) \in ChargeRecords
      /\ release(seen).found_exit_attempts = c.found_exit_attempts
    BY <1>1, <1>3, SentRecords
<1>6. observe_drawn_exit(seen, m) \in ChargeRecords
      /\ observe_drawn_exit(seen, m).found_exit_attempts = c.found_exit_attempts
    <2>1. PICK drawn \in BOOLEAN : drawn = ~in_ac_input_direction(m)
        BY Zenon
    <2>2. PICK answered \in BOOLEAN : answered = (seen.exit_drawn \/ drawn)
        BY Zenon
    <2>3. PICK exits \in 0..FOUND_EXIT_ATTEMPTS :
            exits = IF drawn /\ ~seen.exit_drawn
                    THEN AtMost(seen.drawn_exits + 1, FOUND_EXIT_ATTEMPTS)
                    ELSE seen.drawn_exits
        BY <1>3, ChargeAssumption DEF AtMost, ChargeRecords
    <2>4. observe_drawn_exit(seen, m) =
            [seen EXCEPT !.drawn = drawn, !.exit_drawn = answered, !.drawn_exits = exits]
        BY <2>1, <2>2, <2>3 DEF observe_drawn_exit
    <2> QED  BY <1>3, <2>4 DEF ChargeRecords
<1> QED  BY <1>1, <1>2, <1>3, <1>4, <1>5, <1>6 DEF observe

\* A tick leaves a charge record, and an exit that was due is still due.
LEMMA OlderRecord ==
    ASSUME NEW c \in ChargeRecords
    PROVE  /\ charge_older(c) \in ChargeRecords
           /\ charge_older(c).found_exit_attempts = c.found_exit_attempts
           /\ charge_older(c).open = c.open
           /\ charge_older(c).drawn = c.drawn
           /\ charge_older(c).drawn_exits = c.drawn_exits
           /\ found_exit_due(c) => found_exit_due(charge_older(c))
<1>1. /\ Older(c.exit_sent_at, ResendAfter) \in Ages(ResendAfter)
      /\ Older(c.found_exit_sent_at, ResendAfter) \in Ages(ResendAfter)
    BY ChargeAssumption, AgesOf DEF ChargeRecords
<1>2. WindowOver(c.found_exit_sent_at) => WindowOver(Older(c.found_exit_sent_at, ResendAfter))
    BY ChargeAssumption DEF ChargeRecords, WindowOver, Older, AtMost, Ages, Never
<1>3. /\ charge_older(c) \in ChargeRecords
      /\ charge_older(c).found_exit_attempts = c.found_exit_attempts
      /\ charge_older(c).open = c.open
      /\ charge_older(c).drawn = c.drawn
      /\ charge_older(c).drawn_exits = c.drawn_exits
      /\ charge_older(c).found_exit_sent_at = Older(c.found_exit_sent_at, ResendAfter)
    BY <1>1 DEF charge_older, ChargeRecords
<1> QED  BY <1>2, <1>3 DEF found_exit_due

\* A publish starts with the target, the shape and the hold it was dispatched
\* under.
LEMMA PublishCarries ==
    ASSUME NEW records, NEW t, NEW shape, NEW reduction, NEW free,
           publish_target(records, t, shape, reduction, free)
    PROVE  /\ command'.target = t /\ command'.shape = shape
           /\ command'.reduction = reduction /\ command'.free = free
<1>1. command' = [NoRecord EXCEPT !.target = t, !.created = 0, !.shape = shape,
                                  !.reduction = reduction, !.free = free]
    BY DEF publish_target
<1>2. command' = [target |-> t, created |-> 0, published |-> Never,
                  acknowledged |-> Never, shape |-> shape, reduction |-> reduction,
                  free |-> free]
    BY <1>1 DEF NoRecord
<1> QED  BY <1>2

\* What a dispatch or a flushed reply publishes, and what the record then said.
LEMMA DispatchShapes ==
    ASSUME NEW t \in Targets, NEW shape \in ExitShapes, dispatch_output_limit(t, shape),
           publishing' # NoCommand
    PROVE  /\ command'.target = t /\ command'.shape = shape
           /\ \/ /\ command'.reduction = free_hold(t, shape) /\ command'.free = TRUE
                 /\ free_hold(t, shape) => reduces_held_exit(t)
              \/ command'.reduction = (spent_hold(shape) /\ t >= 0) /\ command'.free = FALSE
           /\ UNCHANGED <<charge, found_sent>>
<1>1. lock_free /\ UNCHANGED <<charge, found_sent>>
    BY DEF dispatch_output_limit
<1>2. CASE dispatch_replacing(t, shape)
    BY <1>1, <1>2, PublishCarries DEF dispatch_replacing
<1>3. CASE dispatch_free(t, shape)
    BY <1>1, <1>3, PublishCarries DEF dispatch_free
<1>4. CASE \/ dispatch_rejected(t) \/ dispatch_held(t, shape)
           \/ dispatch_coalesced(t, shape) \/ dispatch_queued(t, shape)
    BY <1>1, <1>4 DEF dispatch_rejected, dispatch_held, dispatch_coalesced,
        dispatch_queued, expire_active_command, lock_free
<1> QED  BY <1>2, <1>3, <1>4 DEF dispatch_output_limit

\* Every step keeps the charge record, its attempts, and the exits they count.
LEMMA ChargeStep ==
    ASSUME SlotInv, ObservedInv, ChargeInv, [Next]_vars
    PROVE  ChargeInv'
<1> USE DEF ChargeInv
<1>1. ASSUME NEW t \in Targets, NEW shape \in ExitShapes, dispatch_output_limit(t, shape)
      PROVE  ChargeInv'
    <2>1. UNCHANGED <<charge, found_sent>>
        BY <1>1 DEF dispatch_output_limit
    <2>2. FoundExitWasDue'
        <3> SUFFICES ASSUME publishing' # NoCommand,
                            command'.shape = "to_output" /\ command'.free,
                            command'.target >= 0,
                            ~charge.open
                     PROVE  ~command'.reduction /\ found_exit_due(charge)
            BY <2>1 DEF FoundExitWasDue, found_exit_due
        <3>1. /\ command'.target = t /\ command'.shape = shape
              /\ command'.reduction = free_hold(t, shape)
              /\ free_hold(t, shape) => reduces_held_exit(t)
            BY <1>1, DispatchShapes
        <3>2. ~reduces_held_exit(t)
            BY DEF reduces_held_exit, reduces_exit
        <3> QED  BY <3>1, <3>2 DEF free_hold, exit_held
    <2> QED  BY <2>1, <2>2
<1>2. CASE publish_accepted
    <2>1. /\ charge' = sent(charge, command)
          /\ publishing # NoCommand /\ publishing' = NoCommand
          /\ found_sent' = IF /\ command.shape = "to_output" /\ command.free
                              /\ command.target >= 0 /\ ~charge.open
                           THEN AtMost(found_sent + 1, FOUND_EXIT_ATTEMPTS + 1)
                           ELSE found_sent
        BY <1>2 DEF publish_accepted
    <2>2. command.target \in Int /\ -command.target \in Int
        BY <2>1 DEF SlotInv, HasTarget
    <2>3. PICK exited : exited = exit_sent(charge, command.target)
        OBVIOUS
    <2>4. exited \in ChargeRecords /\ exited.found_exit_attempts = charge.found_exit_attempts
        BY <2>2, <2>3, SentRecords
    <2>5. /\ charge' \in ChargeRecords
          /\ charge'.found_exit_attempts >= charge.found_exit_attempts
        <3>1. charge.found_exit_attempts \in Nat
            BY DEF ChargeRecords
        <3>2. CASE command.target < 0
            BY <2>1, <2>2, <3>1, <3>2, SentRecords DEF sent
        <3>3. CASE ~(command.target < 0) /\ command.reduction
            BY <2>1, <2>2, <3>1, <3>3, SentRecords DEF sent
        <3>4. CASE ~(command.target < 0) /\ ~command.reduction /\ command.shape = "to_output"
            <4>1. charge' = found_exit_sent(exited)
                BY <2>1, <2>3, <3>4 DEF sent
            <4>2. /\ found_exit_sent(exited) \in ChargeRecords
                  /\ found_exit_sent(exited).found_exit_attempts =
                        IF found_exit_due(exited) THEN exited.found_exit_attempts + 1
                                                  ELSE exited.found_exit_attempts
                BY <2>2, <2>4, SentRecords
            <4> QED  BY <2>4, <3>1, <4>1, <4>2
        <3>5. CASE ~(command.target < 0) /\ ~command.reduction /\ command.shape # "to_output"
            BY <2>1, <2>3, <2>4, <3>1, <3>5 DEF sent
        <3> QED  BY <3>2, <3>3, <3>4, <3>5
    <2>6. found_sent' \in Nat /\ found_sent' <= charge'.found_exit_attempts
        <3>1. charge.found_exit_attempts \in Nat /\ charge'.found_exit_attempts \in Nat
            BY <2>5 DEF ChargeRecords
        <3>2. CASE /\ command.shape = "to_output" /\ command.free
                   /\ command.target >= 0 /\ ~charge.open
            <4>1. ~command.reduction /\ found_exit_due(charge)
                BY <2>1, <3>2 DEF FoundExitWasDue
            <4>2. exit_sent(charge, command.target) = charge
                BY <3>2 DEF exit_sent
            <4>3. ~(command.target < 0)
                BY <2>2, <3>2
            <4>4. charge' = found_exit_sent(charge)
                BY <2>1, <3>2, <4>1, <4>2, <4>3 DEF sent
            <4>5. charge'.found_exit_attempts = charge.found_exit_attempts + 1
                BY <2>2, <4>1, <4>4, SentRecords
            <4>6. found_sent' = AtMost(found_sent + 1, FOUND_EXIT_ATTEMPTS + 1)
                BY <2>1, <3>2
            <4> QED  BY <3>1, <4>5, <4>6, ChargeAssumption DEF AtMost
        <3>3. CASE ~(/\ command.shape = "to_output" /\ command.free
                     /\ command.target >= 0 /\ ~charge.open)
            <4>1. found_sent' = found_sent
                BY <2>1, <3>3
            <4> QED  BY <2>5, <3>1, <4>1
        <3> QED  BY <3>2, <3>3
    <2> QED  BY <2>1, <2>5, <2>6 DEF FoundExitWasDue
<1>3. ASSUME NEW id \in MessageIds, handle_reply(id) PROVE ChargeInv'
    <2>1. UNCHANGED <<charge, found_sent>>
        BY <1>3 DEF handle_reply, history
    <2>2. publishing' # NoCommand => command'.shape = "none"
        BY <1>3, PublishCarries DEF handle_reply, lock_free
    <2> QED  BY <2>1, <2>2 DEF FoundExitWasDue
<1>4. CASE fetch
    <2>1. publishing' = NoCommand /\ UNCHANGED found_sent
        BY <1>4 DEF fetch, lock_free, fetch_confirms, fetch_unconfirmed, fetch_idle,
            fetch_stale, expire_active_command
    <2>2. charge' = observe(charge, snapshot.metrics) \/ charge' = charge
        BY <1>4 DEF fetch, fetch_confirms, fetch_unconfirmed, fetch_idle, fetch_stale
    <2>3. /\ charge' \in ChargeRecords
          /\ charge'.found_exit_attempts = charge.found_exit_attempts
        BY <2>2, ObservedRecord DEF ObservedInv
    <2> QED  BY <2>1, <2>3 DEF FoundExitWasDue
<1>5. CASE release_charge_record \/ leave_charge_to_device
    <2>1. publishing' = NoCommand /\ UNCHANGED found_sent /\ charge' = release(charge)
        BY <1>5 DEF release_charge_record, leave_charge_to_device, lock_free, slot, history
    <2>2. /\ charge' \in ChargeRecords
          /\ charge'.found_exit_attempts = charge.found_exit_attempts
        BY <2>1, SentRecords
    <2> QED  BY <2>1, <2>2 DEF FoundExitWasDue
<1>6. CASE tick
    <2>1. /\ charge' = charge_older(charge)
          /\ command'.target = command.target /\ command'.shape = command.shape
          /\ command'.reduction = command.reduction /\ command'.free = command.free
          /\ UNCHANGED <<publishing, found_sent>>
        BY <1>6 DEF tick, history, SlotInv, SlotTypes, CommandRecords
    <2> QED  BY <2>1, OlderRecord DEF FoundExitWasDue
<1>7. CASE cancel_pending_output_limit \/ publish_failed \/ describe
    <2>1. publishing' = NoCommand /\ UNCHANGED <<charge, found_sent>>
        BY <1>7 DEF cancel_pending_output_limit, publish_failed, describe, lock_free,
            expire_active_command, history
    <2> QED  BY <2>1 DEF FoundExitWasDue
<1>8. CASE \/ \E r \in Reports : report(r)
           \/ \E id \in MessageIds, answer \in {"ok", "no"} : device_answers(id, answer)
           \/ UNCHANGED vars
    <2>1. UNCHANGED <<publishing, command, charge, found_sent>>
        BY <1>8 DEF report, device_answers, vars, slot, history
    <2> QED  BY <2>1 DEF FoundExitWasDue, found_exit_due
<1> QED  BY <1>1, <1>2, <1>3, <1>4, <1>5, <1>6, <1>7, <1>8 DEF Next

\* Without a reply contract, no step lets an exit out once the exits are spent.
LEMMA SpentStep ==
    ASSUME SlotInv, ChargeInv, SpentInv, [Next]_vars
    PROVE  SpentInv'
<1> SUFFICES ASSUME ~supports_acknowledgement,
                    publishing' # NoCommand,
                    command'.target >= 0,
                    ~command'.reduction,
                    command'.shape # "final",
                    charge'.open /\ drawn_exits_spent(charge')
             PROVE  FALSE
    BY DEF SpentInv, NoExitOnceSpent, drawn_exits_spent
<1>1. ASSUME NEW t \in Targets, NEW shape \in ExitShapes, dispatch_output_limit(t, shape)
      PROVE  FALSE
    <2>1. /\ command'.target = t /\ command'.shape = shape
          /\ \/ command'.reduction = free_hold(t, shape)
             \/ command'.reduction = (spent_hold(shape) /\ t >= 0)
          /\ charge' = charge
        BY <1>1, DispatchShapes
    <2>2. charge.open /\ drawn_exits_spent(charge)
        BY <2>1
    <2> QED  BY <2>1, <2>2 DEF free_hold, exit_held, exit_due, spent_hold
<1>2. CASE \/ publish_accepted \/ publish_failed \/ cancel_pending_output_limit
           \/ describe \/ fetch \/ release_charge_record \/ leave_charge_to_device
           \/ \E id \in MessageIds : handle_reply(id)
    BY <1>2 DEF publish_accepted, publish_failed, cancel_pending_output_limit, describe,
        fetch, fetch_confirms, fetch_unconfirmed, fetch_idle, fetch_stale,
        expire_active_command, release_charge_record, leave_charge_to_device,
        handle_reply, lock_free, slot
<1>3. CASE tick
    <2>1. /\ charge' = charge_older(charge) /\ publishing' = publishing
          /\ command'.target = command.target /\ command'.shape = command.shape
          /\ command'.reduction = command.reduction
        BY <1>3 DEF tick, SlotInv, SlotTypes, CommandRecords
    <2>2. charge.open /\ drawn_exits_spent(charge)
        BY <2>1, OlderRecord DEF drawn_exits_spent, ChargeInv
    <2> QED  BY <2>1, <2>2 DEF SpentInv, NoExitOnceSpent
<1>4. CASE \/ \E r \in Reports : report(r)
           \/ \E id \in MessageIds, answer \in {"ok", "no"} : device_answers(id, answer)
           \/ UNCHANGED vars
    <2>1. UNCHANGED <<publishing, command, charge>>
        BY <1>4 DEF report, device_answers, vars, slot
    <2> QED  BY <2>1 DEF SpentInv, NoExitOnceSpent, drawn_exits_spent
<1> QED  BY <1>1, <1>2, <1>3, <1>4 DEF Next

-----------------------------------------------------------------------------
(***************************************************************************)
(* The theorems                                                            *)
(***************************************************************************)

\* The invariant holds before the first call.
LEMMA InitInv == Init => Inv
<1> SUFFICES ASSUME Init PROVE Inv
    OBVIOUS
<1>1. SlotInv
    <2>1. NoRecord \in CommandRecords
        BY DEF NoRecord, CommandRecords, Ages
    <2> QED  BY <2>1, ClientAssumption DEF Init, SlotInv, SlotTypes, States, SingleInFlight,
                LatestIntent, SafetyNeverWaits, AcceptanceIsTheDevices, HasTarget,
                NothingBehindPublish, ActiveStates
<1>2. ObservedInv
    <2>1. /\ snapshot = [metrics |-> <<>>, age |-> Never]
          /\ since = {} /\ output_is_new = FALSE
        BY DEF Init
    <2>2. snapshot.metrics = <<>> /\ snapshot.age = Never
        BY <2>1
    <2>3. IsReport(<<>>)
        <3>1. DOMAIN <<>> = {}
            OBVIOUS
        <3> QED  BY <3>1 DEF IsReport
    <2>4. Never \in Ages(StaleAfter + 1)
        BY ClientAssumption, AgesOf
    <2> QED  BY <2>1, <2>2, <2>3, <2>4 DEF ObservedInv
<1>3. OwnInv
    BY DEF Init, OwnInv, OwnMemories, StreakNeedsReports, UncountedReport,
        UNCONFIRMED_OWN_TARGET_HISTORY
<1>4. ChargeInv
    BY ChargeAssumption, AgesOf
        DEF Init, ChargeInv, ChargeRecords, NewChargeRecord, NoSetpoint, FoundExitWasDue
<1>5. SpentInv
    BY DEF Init, SpentInv, NoExitOnceSpent
<1> QED  BY <1>1, <1>2, <1>3, <1>4, <1>5 DEF Inv

\* The invariant holds in every state: after any dispatches, replies, reads,
\* failures and ticks.
THEOREM Invariance == Spec => []Inv
<1>1. Inv /\ [Next]_vars => Inv'
    BY SlotStep, ObservedStep, OwnStep, ChargeStep, SpentStep DEF Inv
<1> QED  BY InitInv, <1>1, PTL DEF Spec

\* The types of the client's state, the bound of the deque of unconfirmed own
\* targets among them, for every device.
THEOREM TypeCorrect == Spec => []TypeOK
<1>1. Inv => TypeOK
    <2> SUFFICES ASSUME Inv PROVE TypeOK
        OBVIOUS
    <2>1. found_sent \in 0..(FOUND_EXIT_ATTEMPTS + 1)
        BY ChargeAssumption DEF Inv, ChargeInv, ChargeRecords
    <2> QED  BY <2>1 DEF Inv, SlotInv, SlotTypes, States, ObservedInv, OwnInv, ChargeInv,
                TypeOK
<1> QED  BY Invariance, <1>1, PTL

\* One command per device is in flight, whatever preempts, expires or answers it.
THEOREM SingleInFlightAlways == Spec => []SingleInFlight
<1>1. Inv => SingleInFlight
    BY DEF Inv, SlotInv
<1> QED  BY Invariance, <1>1, PTL

\* What is queued or being published is the controller's latest intent.
THEOREM LatestIntentAlways == Spec => []LatestIntent
<1>1. Inv => LatestIntent
    BY DEF Inv, SlotInv
<1> QED  BY Invariance, <1>1, PTL

\* A safety reduction never waits behind the command in flight.
THEOREM SafetyNeverWaitsAlways == Spec => []SafetyNeverWaits
<1>1. Inv => SafetyNeverWaits
    BY DEF Inv, SlotInv
<1> QED  BY Invariance, <1>1, PTL

\* An accepted command is one the device accepted.
THEOREM AcceptanceIsTheDevicesAlways == Spec => []AcceptanceIsTheDevices
<1>1. Inv => AcceptanceIsTheDevices
    BY DEF Inv, SlotInv
<1> QED  BY Invariance, <1>1, PTL

\* The foreign streak never counts a report twice.
THEOREM StreakNeedsReportsAlways == Spec => []StreakNeedsReports
<1>1. Inv => StreakNeedsReports
    BY DEF Inv, OwnInv
<1> QED  BY Invariance, <1>1, PTL

\* No more exits than attempts go to AC input found after a start.
THEOREM FoundExitsBoundedAlways == Spec => []FoundExitsBounded
<1>1. Inv => FoundExitsBounded
    BY ChargeAssumption DEF Inv, ChargeInv, ChargeRecords, FoundExitsBounded
<1> QED  BY Invariance, <1>1, PTL

\* On every device without a reply contract no exit follows once they are spent.
\* With one, a reply flushes a queued target past the hold and the property fails.
THEOREM NoExitOnceSpentWithoutReplies ==
    ~supports_acknowledgement => (Spec => []NoExitOnceSpent)
<1>1. ~supports_acknowledgement /\ Inv => NoExitOnceSpent
    BY DEF Inv, SpentInv
<1>2. ASSUME ~supports_acknowledgement PROVE Spec => []NoExitOnceSpent
    <2>1. Inv => NoExitOnceSpent
        BY <1>1, <1>2
    <2> QED  BY Invariance, <2>1, PTL
<1> QED  BY <1>2

\* _publish_target changes the records it is given only at a new message id.
LEMMA PublishQueues ==
    ASSUME NEW records, NEW t, NEW shape, NEW reduction, NEW free,
           publish_target(records, t, shape, reduction, free),
           records \in [MessageIds -> States], NEW id \in MessageIds
    PROVE  outcome'[id] \in {records[id], "queued"}
BY DEF publish_target

\* A step changes the record of a command in flight, or takes a message id for a
\* new command; every other record stays.
LEMMA OnlyInFlightChanges ==
    ASSUME SlotTypes, Next, NEW id \in MessageIds, id \notin {active, publishing}
    PROVE  outcome'[id] \in {outcome[id], "queued"}
<1> USE DEF SlotTypes
<1>1. /\ settled_outcome \in [MessageIds -> States]
      /\ settled_outcome[id] = outcome[id]
    BY DEF settled_outcome, expiry, States, TerminalStates
<1>2. ASSUME NEW t \in Targets, NEW shape \in ExitShapes, dispatch_output_limit(t, shape)
      PROVE  outcome'[id] \in {outcome[id], "queued"}
    <2>1. CASE dispatch_replacing(t, shape)
        <3>1. superseded(outcome) \in [MessageIds -> States]
              /\ superseded(outcome)[id] = outcome[id]
            BY DEF superseded, States, TerminalStates
        <3> QED  BY <2>1, <3>1, PublishQueues DEF dispatch_replacing
    <2>2. CASE dispatch_free(t, shape)
        BY <1>1, <2>2, PublishQueues DEF dispatch_free
    <2>3. CASE \/ dispatch_rejected(t) \/ dispatch_held(t, shape)
               \/ dispatch_coalesced(t, shape) \/ dispatch_queued(t, shape)
        BY <1>1, <2>3 DEF dispatch_rejected, dispatch_held, dispatch_coalesced,
            dispatch_queued, expire_active_command
    <2> QED  BY <1>2, <2>1, <2>2, <2>3 DEF dispatch_output_limit
<1>3. CASE publish_accepted \/ publish_failed
    BY <1>3 DEF publish_accepted, publish_failed
<1>4. ASSUME NEW j \in MessageIds, handle_reply(j)
      PROVE  outcome'[id] \in {outcome[id], "queued"}
    <2> DEFINE success == verdict[j] = "ok"
               state   == IF success /\ ~Confirmable THEN "completed_unconfirmed"
                          ELSE apply_reply(success)
    <2>1. PICK records : records = [outcome EXCEPT ![active] = state]
        OBVIOUS
    <2>2. state \in States
        BY DEF apply_reply, States, ActiveStates, TerminalStates
    <2>3. outcome' = records \/ publish_target(records, pending, "none", FALSE, FALSE)
        BY <1>4, <2>1 DEF handle_reply
    <2> HIDE DEF state, success
    <2>4. records \in [MessageIds -> States] /\ records[id] = outcome[id]
        BY <2>1, <2>2
    <2> QED  BY <2>3, <2>4, PublishQueues
<1>5. CASE fetch \/ describe
    BY <1>1, <1>5 DEF fetch, fetch_confirms, fetch_unconfirmed, fetch_idle, fetch_stale,
        describe, expire_active_command
<1>6. CASE \/ cancel_pending_output_limit \/ release_charge_record
           \/ leave_charge_to_device \/ \E r \in Reports : report(r)
           \/ \E j \in MessageIds, answer \in {"ok", "no"} : device_answers(j, answer)
           \/ tick
    BY <1>6 DEF cancel_pending_output_limit, release_charge_record,
        leave_charge_to_device, report, device_answers, tick, slot
<1> QED  BY <1>2, <1>3, <1>4, <1>5, <1>6 DEF Next

\* A command that reached a terminal state keeps it, under late replies, reads of
\* old telemetry and deadlines.
THEOREM OutcomeIsFinalAlways == Spec => OutcomeIsFinal
<1> DEFINE Final == \A id \in MessageIds :
                outcome[id] \in TerminalStates => outcome'[id] \in {outcome[id], "queued"}
<1>1. Inv /\ [Next]_vars => [Final]_vars
    <2> SUFFICES ASSUME Inv, Next, NEW id \in MessageIds, outcome[id] \in TerminalStates
                 PROVE  outcome'[id] \in {outcome[id], "queued"}
        OBVIOUS
    <2>1. id \notin {active, publishing}
        BY DEF Inv, SlotInv, SingleInFlight, ActiveStates, TerminalStates
    <2> QED  BY <2>1, OnlyInFlightChanges DEF Inv, SlotInv
<1> QED  BY Invariance, <1>1, PTL DEF Spec, OutcomeIsFinal
=============================================================================
