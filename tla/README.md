# A verification project for ems-solarflow-api-control

The repository is an energy management system for Zendure batteries: a control
loop reads a grid meter and the devices, computes a signed watt target per
device (positive discharges, negative charges from AC, zero idles) and writes it
over the local HTTP API or over MQTT.  Around the loop stand a scheduler, an
admin server that installs builds, an appliance agent that changes the host, a
telemetry writer and a dashboard.

This directory holds TLA+ modules translated from the parts of that code in
which several threads, processes or files have to agree, the TLC configurations
that check them, and theorems checked by TLAPS.

## Inventory

| part | state it keeps | operations | hard behaviour |
| --- | --- | --- | --- |
| `ems/zendure_mqtt/device_client.py` | the one command in flight, one pending target, the charge record, own targets for foreign-writer detection, an evidence table | `dispatch_output_limit`, `cancel_pending_output_limit`, `handle_reply`, `fetch`, `describe`, `release_charge_record`, `write_properties` | three threads under one lock, I/O under that lock, replies late, lost or doubled, two deadlines, a snapshot that may be older than the command it answers |
| `ems/mqtt_control/command_state.py` | one record per command | replies, deadlines, telemetry confirmation | confirming evidence per property, optional properties, tolerance |
| `ems/charge_record.py` | the EMS's own charge on a device, exits, windows, attempts | `charge_sent`, `exit_sent`, `reduction_sent`, `found_exit_sent`, `observe`, `release` | long call sequences, a counter at its limit, windows read at any time |
| `ems/power_direction.py` | none | direction and safety rules | missing and unusable report values, zero and tolerance edges |
| `ems/zendure_mqtt/control.py`, `client.py` | delivery tokens, queues per packet identifier, quarantine, connection generation | `publish_message_meta`, `_on_publish`, `_on_connect`, `_on_disconnect` | identifiers reused, acknowledgements early, late or after a reconnect, callbacks between the steps of a publish |
| `ems/zendure_mqtt/snapshot.py`, `service.py` | merged telemetry per device | `observe`, `snapshot_status` | partial reports, staleness |
| `ems/scheduler.py`, `schedule_store.py`, `dashboard/schedule_api.py` | rules, applied records, open windows, what memory knows and the file does not | `tick`, the store's edits, restore, apply-now | a stop between a write and its record, edits during a tick, a clock set back, a file that cannot be read |
| `admin/system_alignment.py`, `admin_update.py`, `update_apply.py`, routes of `server.py` | the durable transition record, the known-good build, worker claims, the replacement sidecar | start, dispatch, reconnect, import, deploy, health check, recover, cancel, retry | two request threads and a sidecar on one record, claims racing an abandonment, restarts between two files |
| `admin/replacement_dispatch.py` | one dispatch attempt per operation | `owned`, `owned_retry`, `in_flight` | retries that detach an attempt others wait for |
| `admin/single_flight.py` | one shared run | `run` | callers with other inputs |
| `ems/history/influx_writer.py` | a bounded queue and a writer thread | `enqueue`, `stop`, the writer's loop, the schema check | a full queue, stopping during a back-off or a check |
| `appliance/operations.py`, `agent.py` | durable operations on the host, ends a full card refused, planners still running | plan, confirm, retry, cancel, advance, finish, `recover_interrupted` | stops of agent and host at any stage, a full card, a request that read before the lock |
| `ems/controller.py`, `target_control.py`, `ac_charge_control.py` | regulator memory, charge claims | one control cycle | watt arithmetic over many settings |
| `ems/clients.py` | a second owner of a charge record (HTTP) | `fetch`, `dispatch_output_limit` | requests that fail after the device acted |
| `dashboard/`, `mqtt_mapping/`, `frontend/`, `emsctl.py`, configuration, backup | views, static data, files | | I/O and validation |

How they meet.  The control loop fetches every device on an executor, computes
targets and calls `dispatch_output_limit` (or, when it skips the device,
`cancel_pending_output_limit`).  The device client hands a message to the
control client, whose delivery tokens say later whether the broker took it.
Replies come back on paho's network thread and enter `handle_reply`; telemetry
lands in the aggregator's snapshot, which the next `fetch` reads.  The same loop
calls the scheduler's `tick`, which writes due settings into the runtime state
and records them in `schedules.json`; the dashboard and `emsctl` edit both from
other threads and processes.  The admin server installs one paired Admin and EMS
build at a time through a durable record that its own request threads, their
workers, the sidecar that replaces the Admin and the replaced Admin all write.
The appliance agent runs one mutating operation on the host at a time, for the
Admin and for its own pages.

What makes each part correct: at most one command per device awaits an outcome,
the newest intent wins and a safety reduction never waits; a charge of the EMS is
neither fought over for good nor kept on record for good; an acknowledgement is
never credited to another publish; a switch point fires once and a window's
start value is ended; two deployments never run side by side and no operation is
wedged; the appliance is changed by one thread at a time, and an operation that
left it half changed is not run again.

## Modules

### Device and broker

`PowerDirection` -- the direction and safety rules and how a report is read.  A
report is a function from property names to integers or `Invalid`;
`Observed` is `observable_metrics`, `Reading` is the `or 0` of `parse_device`.

`ChargeRecord` -- `charge_record.py` as functions on a record value, one per
method.  Stamps are ages that saturate at the resend window (`Never` for
`None`), which is all the code compares them with.  `drawn_exits` saturates at
`FOUND_EXIT_ATTEMPTS` for the same reason.

`CommandState` -- the states of a command, the transitions a reply, a deadline
or telemetry may make, and which properties prove a command applied.  `Profile`
selects `properties/write` ("zensdk"), `function/invoke` ("invoke", the only one
with a reply contract) or an operator's own topic ("custom").

`DeviceClient` -- the device client as a state machine.  Every public method
holds one RLock and is one action, except that a publish is I/O under that lock:
a dispatch or a flushing reply starts it (`publishing`), `publish_accepted` or
`publish_failed` ends it, and only time, telemetry and the device move in
between.  `dispatch_output_limit` is the disjunction of its six ways out, in the
order of the code's early returns; `fetch` of its four.
`_expire_active_command` is a set of operators that every caller applies first
or last, as the code does.  Order between two stamps is kept as order: `since`
is the set of properties reported after the last publish completed, and
`output_is_new` says an `outputLimit` report has been neither counted nor
confirmed.  The variables `asked`, `reports_seen` and `found_sent` are history
for the properties; the device's answers (`verdict`) are external.
`"none"` among the exit shapes stands for `None` and for `CHARGE_EXIT_IN_INPUT`,
which this client treats alike.

`PublishDelivery` -- which publish a PUBACK belongs to.  A publish is four steps
(`publish_begin` reads `_connected`, `publish_locked` notes the generation,
`publish_handed` or `publish_refused` is paho's answer, `publish_register`
records the token); the network thread's callbacks fall between them, and the
connection callbacks are two steps because `_connected` is updated outside the
delivery lock.  A deque of tokens is a set because tokens are appended in
sequence order.

### Scheduler

`Scheduler` -- `tick` in its steps (refresh, flush of what is unrecorded, the due
switch points, the lost windows, the ends of windows while the file cannot be
read), each runtime write and each record a step of its own because the store's
lock and the runtime state's are taken one after the other; the store's edits;
apply-now as read, record, write; the clock, the EMS and the file as its
surroundings.  Time is counted in units no shorter than `RELOAD_EVERY`, so a
re-read is always due when the clock has moved; `TickUnread` is the tick that
finds the signature unchanged and misses an edit of the same unit.  A rule
switched off is a rule the book does not have.  A runtime value is the rule and
the kind of switch point that wrote it, or `Manual`.

A clock that was never set stands far behind: it comes to a trusted time by being
set (`SetClock`), and passes no boundary by waiting (`Pass`).

`SchedulerHistory` adds which points fired, which times lay in a pause and
whether a value was refused; `MCScheduler` gives the two rules.  A point is
forgotten as fired where the records no longer show it: a stop before the record
reached the file, and an earlier moment recorded over it (`Overtaken`,
`ClosedEarly`).  A resume makes the times since its pause silent and those after
it, of an earlier pause the clock was set back into, ahead again.

### Admin

`TransitionStore` -- `PendingTransitionStore` as predicates on one record: which
stage may follow which, what a failure may resume at, when begin, advance, claim,
mark_failed, retry and cancel are refused, and which records can be parsed back.

`SystemTransition` -- the actors on that record: request threads and the workers
they start (`request`), the worker claims of `OperationCoordinator` (`active`,
`abandoned`), the dispatch of a replacement, the sidecar, restarts of the Admin.
A step is what runs between two durable writes or two questions to Docker.
`Mode` tells a setup, whose deployments the setup workflow's claim keeps apart,
from a guided upgrade, whose job registry does not.  `Legacy` builds leave the
running Admin in place (`orchestrator` holds the Admin an operation was begun
under, as its record does), so their operations begin without a restart and
workers of an earlier operation live on beside them.

`ReplacementDispatch` -- the registry of dispatch attempts with callers that
enter, block, are answered or launch, and leave.  A launch has a beginning
(`Launch`, which counts it), an end (`Launched`, or `LaunchFails` with its
`mark_failed`) and, after a failure, the publication of its outcome: the stage
reads failed before the attempt is settled, and a retry may come in between.
`SingleFlight` -- the shared refresh, with callers whose inputs differ.

### Host and history

`MutationSlot` -- the abstract specification of what `OperationStore` promises
("one active mutation"): an operation takes the slot when nobody holds it or
works in it, keeps it while its end is open, and is started again only from a
failure that left it startable.  Its actions `Overtake` and `Disown` are the two
ways in which the code lets an operation run without the slot (below).

`ApplianceOperations` -- the operation store with the agent's planners, requests
and executors, a card that fills up, and stops of agent and host.  It implements
`MutationSlot`: `SlotPhase` maps a record, with the end still unwritten, to the
slot's phase, and the threads at work to `work`.  A request keeps the state it
read (`request`) until it acts on it, and an executor that failed becomes a
thread that looks at the record and, if that is still open, ends it afterwards
(`last`), for the code does both without the lock.  `OperationsHistory` adds
which operations were half made, which took the host down, which end was asked
for first, which run without the slot (`stray`), and which ended between a failed
thread's look and its end (`contested`).

`TelemetryWriter` -- the queue, the worker thread, its drains, failures and
schema checks, and `stop`.  A write that raised may have stored any part of its
batch.

The modules whose names end in `Proofs` hold the theorems, the `MC` modules the
instances for TLC.  Operators marked "Mutant" are plausible faults of
the definition they precede; no specification uses them, they show that a
property can fail.

## Runs

| run | question | result |
| --- | --- | --- |
| `invoke_commands` | one command in flight; only the latest intent is queued or published; a safety reduction never waits; acceptance is the device's own; exits to a charge found after a start are bounded; a foreign writer is suspected on distinct reports only; outcomes are final | holds |
| `spent_charge` | once the exits to a charge shown by grid draw are spent no further exit goes out (properties/write); that charge is left to the device unless the controller's own release goes out and starts the wait again, and no command keeps the slot | holds, the last two under fairness |
| `publish_delivery` | no acknowledgement is credited to another publish; queues and tokens agree; verdicts are final; the history keeps its limit | holds |
| `schedule_edits` | a skipped evaluation misses nothing; a point in a pause never fires; a switch point fires once | holds |
| `schedule_windows` | a window's start value is ended | holds, under fairness |
| `schedule_apply_now` | the same beside an apply-now request | violated |
| `setup_transitions` | the record on disk can be parsed; one deployment at a time; no worker after an abandonment; the known-good build was seen healthy though the EMS changes between verdict, identity check and write | holds |
| `transition_ends` | a completed operation recorded its build; every operation can be ended | holds, the last under fairness |
| `single_flight` | one run at a time; answers from a caller's own inputs; every call returns | holds |
| `replacement_dispatch` | one launch per opening; a retry is not answered from what was settled before it; the registry shows every attempt that may still launch; every caller returns | holds |
| `operations` | the store is one slot with two named exceptions (refinement of `MutationSlot`); but for these one planner or executor at work; nothing half made is run again; the end recorded is the one asked for first, and a failure is ended for good only for cause; the slot comes back | holds, the last under fairness |
| `telemetry_writer` | what is stored is in order and single; every batch is queued, in hand, handed to a write, or refused and counted; the worker ends after `stop` | holds |

### Bounds

*Device.*  Two message ids suffice for the slot: one command in flight or being
published and one earlier command whose reply is still on its way; an id is
reused as a new command, so histories of any length are explored.  Timeouts and
windows are one tick: the code compares an age only with its limit, so "before"
and "at or after" are the two cases, and several timers can run out in either
order because each starts at its own step.  `invoke_commands` uses a stop and an
output (4 W) beyond the margin (3) and the tolerance (1), the exit shape of a
charge found after a start, and reports of a charge and of a device that follows;
`spent_charge` a charge, a stop and a reduction with and without the controller's
release (`CHARGE_EXIT_FINAL`).  `FOUND_EXIT_ATTEMPTS` is 2 (3 in the code): below, at and beyond the
limit occur.  `PublishDelivery` uses three identifiers and a history of two, so
that an identifier comes round again after its token was evicted, five publishes
and three connections.

*Scheduler.*  A window from 2 to 4 and a rule "at 3" inside it, on one setting:
starts, ends, overlaps of both and ties occur, and the clock runs to 4 with two
units of `FUTURE_TOLERANCE`.  Three operations of the surroundings per behaviour.
`schedule_edits` has both rules at once and a clock set back by no more than the
tolerance; `schedule_windows` one rule of either kind and a clock set back at
will.

*Admin.*  Two operations for two builds, the second of which keeps the running
Admin, two request threads, two dispatches and one restart in
`setup_transitions`: the EMS is one build when a health check passes and another
when its known-good record is due.  One guided upgrade in `transition_ends`,
where fairness makes the graph large.  Three callers with three calls in
`replacement_dispatch` (an owner, a waiter and a retry that detaches), three
callers with four calls and two changes of the inputs in `single_flight`.

*Host.*  Two operations, one request at a time, one stop and one full card; no
terminal record is retained, so pruning happens in every behaviour.  Executors
pass through `rolling_back` (`Passing`) and choose between success and a failure
that can be retried (`Outcomes`), a failure for good coming from an exception;
the theorems are for every such choice.  An operation has at most one failed
thread between its look and its end (`last`): a second executor of it fails only
when the first thread is through.  *History.*  Five batches over a queue of two,
drains of two; a batch is one line, and a request that raised has stored its part
before the next write begins.

Runs whose bounds stop them (published messages, calls, batches, operations) do
not check deadlock.

### Fairness

*Device.*  `tick`: time passes.  `publish_accepted \/ publish_failed`: paho's
publish returns.  `fetch` and `leave_charge_to_device` are strongly fair: the
loop fetches every device in every cycle and then looks for an exhausted charge
(`leave_charge_shown_by_draw_alone`); the lock they wait for is taken and freed
again and again.  Nothing is assumed of the device, the broker or the
controller's choice of targets.

*Scheduler.*  The loop ticks, the clock moves, an apply-now request runs on, and
a successful runtime write is strongly fair: a lock asked for again and again is
some time free.  `WindowEnds` is claimed for an end value the setting accepts, an
EMS that is not stopped and no apply-now request (`EditsSpec`).

*Admin.*  Threads, sidecar and dispatch run on; the deadline passes; and an
operator asks to abandon, again and again, while no worker is live
(`SF` on the cancel).  `Patience` restricts what is started past the deadline to
that: the code refuses every forward claim there, but requests that only read
could otherwise keep every thread busy in the model.

*Host.*  Planners and executors end, the card is freed some time, and somebody
asks for a plan now and then, which is when `_close_unrecorded` writes.  Nothing
makes an operator confirm or cancel.  `SingleFlight`, `ReplacementDispatch` and
`TelemetryWriter`: threads run on, work ends, requests end or time out.

## Refinement

`OneSlot` in `ApplianceOperations` is `MutationSlot`'s specification under the
mapping above, checked by `operations`.  It says more than the invariant beside
it: an operation that ended never comes back, and only a recoverable failure is
started again, through pruning, restarts on a full card and ends written late.
The slot is kept free of everybody but the strays: an operation that a request
confirmed after it had read it before its failure (`Overtake`), and one that runs
again and was ended by the thread that failed at its earlier run (`Disown`).  The
abstract specification has them as actions because the code has them; an
operation started over again by `retry` is no stray any more.

## Proofs

`DeviceClientProofs` proves, for any targets, reports, message ids, deadlines,
margins and write profile:

* `TypeCorrect`: `TypeOK`;
* `SingleInFlightAlways`, `LatestIntentAlways`, `SafetyNeverWaitsAlways`,
  `AcceptanceIsTheDevicesAlways`, and the action property
  `OutcomeIsFinalAlways`: the slot;
* `StreakNeedsReportsAlways`: detection counts a report once;
* `FoundExitsBoundedAlways`: the exits to a charge found after a start;
* `NoExitOnceSpentWithoutReplies`: the hold on exits, under the hypothesis that
  the device has no reply contract.  The hypothesis is needed: with one TLC
  refutes the property (below).

The inductive invariant has one part per piece of state.  The slot adds to its
properties that a command in the slot has a number for a target (so that a
deadline remembers a target) and that nothing waits behind a publish that holds
the lock (so that its end leaves no older intent).  Every step of the slot is one
of three: a deadline or a confirmation clears it (`ExpireKeepsSlot`,
`ClearKeepsSlot`), or a publish starts from records of which none awaits an
outcome (`PublishKeepsSlot`).  Detection adds that a report not yet counted
leaves room above the streak.  The charge record adds that exits sent are
attempts counted and that an exit holding the lock was due when dispatched; it
is still due when the publish returns because only time passes for the record
meanwhile (`OlderRecord`).  `OutcomeIsFinal` follows from `SingleInFlight` and
from the fact that a step writes only records in flight.  The assumptions are
the four named ones of the modules; they are type facts of the constants, and
that the resend window is the confirmation timeout, which `__init__` passes on.

`PublishDeliveryProofs` proves, for every set of identifiers, every history
length and any number of publishes and connections:

* `TypeCorrect`: `TypeOK`, with the limit on the history;
* `DeliveredIsOwnAlways`: a token reads "delivered" only if its own message was
  acknowledged;
* `QueueIsPendingAlways`, `VerdictIsFinalAlways`.

A PUBACK names only an identifier, so `DeliveredIsOwn` is not inductive.  The
invariant `Inv` adds whose message can still be acknowledged under an identifier
outside the quarantine (`Attribution`: the publish being registered, or the
pending token of that identifier), that remembered tokens have distinct
identifiers (`MidsDistinct`), that a message on the wire is not acknowledged yet
and is the only one of its token (`WireIsOpen`, `OneMessage`), and that an early
acknowledgement belongs to the publish being registered (`EarlyIsOwn`).  Every
step that loses evidence quarantines the identifier, which is what keeps
`Attribution` true.  The assumptions are `DeliveryAssumption` and, in
`free_mids`, that paho does not hand out an identifier whose token is among the
last `_DELIVERY_TOKEN_HISTORY` ones: it counts through 65,535 of them and the
history is 512.

`SystemTransitionProofs` proves, for any builds, operations, request threads,
dispatches and restarts:

* `TypeCorrect`: `TypeOK`, and with it that every record on disk can be parsed
  again;
* `CompletesKnownGoodAlways`: the order of the two files of `finish_healthcheck`,
  for setups and upgrades;
* `OneDeploymentAlways` and `NoWorkerAfterCancelAlways`, under the hypothesis that
  every operation is a setup;
* `KnownGoodWasHealthyAlways`, under the hypothesis that every operation is a
  setup or that all install one build, for any `Legacy` builds.

Nothing guards a deployment itself, so none of these is inductive.  `Known` says
that whoever works, works for an operation that was started, so a new operation
inherits no worker; `RecordedFirst` is the known-good write before the last
stage.  `SetupInv` says who may touch the installation: the setup workflow has
one holder (`OneHolder`), a holder's operation is past its import (`Worker`), an
import that runs is the one on record and has its claim (`Import`), what was
abandoned stays so (`Abandoned`), nobody deploys for a cancelled operation
(`NotCancelled`), and whoever deploys while an operation runs or is checked
deploys for that one (`OwnDeployment`).  The claim a setup gives back for all
threads with its last write (`release_operation`) is harmless because the
holder's operation is past its import.  `HealthInv` follows a verdict from the
EMS that ran to the known-good write; it needs that nobody deploys another build
in between (`Compatible`), which the setup workflow gives, or the hypothesis that
there is no other build; without it TLC refutes the property (below).  Most steps are one of three kinds: a write of the
record that no worker relies on (`Quiet`), the end of the process, or a thread
coming to rest; the others have a lemma each.  Upgrades are outside `SetupInv`
because their deployments do overlap (below).

`OperationsProofs` proves, for any number of operations, submitters, stops and
full cards:

* `TypeCorrect`: every record is one the store could have written;
* `OneAtWorkAlways` and `OneSlotAlways`, the latter the refinement of
  `MutationSlot` step by step;
* the action properties `NotRunAgainAlways` and `EndAsItHappenedAlways`.

None has a hypothesis; all are of the specification with its history.  The
invariant `HInv` has a part per operation: one that was not created left no
trace, a planner has its record, an executor's record is under way unless it is a
stray (`Owned`), a stray has been run (`StrayRan`), an end kept is one the
record's state allows and is the first one asked for, what was half made when it
stopped is closed or will be (`StoppedForGood`), a record that took the host down
names its boot (`BootNamed`), and what ended under a failed thread's look is
contested (`Contest`).  The slot adds `Alone`: among the operations that are no
strays one is open or has a planner.  Every step but a creation, a start and a
restart is of one kind, `Moves(o)`: one operation is kept, ended, staged, shown
or discarded, and nothing else changes.

`SingleFlightProofs` (`OneRunAlways`, `AnsweredFromOwnInputsAlways`),
`ReplacementDispatchProofs` (`OneLaunchAlways`, `RetryIsNotSettledBeforeAlways`,
`RegistryIsLiveAlways`) and `TelemetryWriterProofs` (`StoredInOrderAlways`,
`AccountedAlways`), each with its `TypeCorrect`, are for any finite number of
callers, any number of calls and batches, and any limits.  A caller that joined a
run is answered after the flight is over, so the invariant of `SingleFlight`
follows the answer from the run to every rider (`AnswersAreSeen`).  In
`ReplacementDispatch` an attempt on its way to the launcher is unsettled, an
unsettled one with callers is the registered one (`OpenIsRegistered`), and its
lock has one owner (`LockIsOwned`).  In `TelemetryWriter` what is stored precedes
what is in hand, which precedes what waits (`InOrder`).

`SchedulerProofs` proves, for any rules, settings, occurrences, times and number
of edits, pauses, restores, apply-now requests and stops:

* `PauseIsSilentAlways` and `FiresOnceAlways`, action properties of what fires;
* `NothingMissedAlways`: a skipped evaluation would have done nothing.

The hypothesis `Kept` is that the file is not removed or spoilt by hand (it holds
the last resume and the applied records, which is all that bounds a firing after
a restart) and that the clock is set back by at most `FUTURE_TOLERANCE`, as the
documentation promises.  None of the three is inductive: a point fires because it
was due when the cycle began, over a book that may be older than the file.
`Clock` bounds every stamp by the clock's highest reading, so under `Kept` no
stamp is dropped by `_bound` (`BoundFacts`).  `TodoIsDue` carries what made a
point due through the cycle.  `PauseIsKnown`: a silent time is not later than the
resume on file, and later than every cycle over a book that does not know that
resume.  `FiredIsKnown` and `UnrecordedIsApplied`: the book, and the file unless
memory holds the record, were applied at least as late as every point that fired;
a refresh keeps that because what only memory knows stays over the file
(`ReadFacts`).  For `NothingMissed` the invariant `Settling` follows a cycle: what
is due is covered by a later point still to write or to record, then nothing is
due and the lost windows are covered, then nothing is left until `_next_at`
(`SettledStays`).  That the latest point of a setting is due at all needs a
greatest element (`DueCovers`), which rests on one occurrence per start.  Steps of
the surroundings share one lemma (`OutsideInv`), steps of a cycle another
(`InsideKeeps`), the two ticks a third (`RefreshedInv`).

The assumptions are the `ASSUME`s of the modules: types of the constants, that a
value standing for "none" (`NoOperation`, `Nobody`, `Failed`) is none of the
values it is told from, and that a rule's occurrences have different starts
(`occurrences` yields one for a day).

Only model-checked: every liveness property, since fairness is beyond the prover
(`SpentChargeIsLeft`, `SlotIsReleased`, `WindowEnds`, `EveryTransitionEnds`,
`EveryCallReturns` and the like), and every property outside the hypotheses
named above.

## Disagreements found

Places where a comment or document says one thing and the code does another.  The
first is a run.  For the others the property is defined in the module and TLC
refutes it in the instance given: the cfg named, with the constants and the
property changed as said.

* *apply-now beside a deleted rule* (`schedule_apply_now`): apply-now records the
  start of a window and then waits for the runtime state's lock.  The rule
  deleted meanwhile, the tick closes the recorded window; the late write puts the
  start value back and nothing ends it.
* *A stop of the EMS between runtime write and record*: `WindowEnds`,
  `ScheduleApplyNow.cfg` with `Ops = {"save", "delete", "crash"}`.  The rule
  deleted before the restart, nothing knows of the window.  The same stop makes a
  point fire twice, and so does an apply-now request that records an earlier
  moment over a later one; `FiresOnce` leaves both aside.
* *A window closed under a clock set back*: `FiresOnce` with `ClosedEarly`
  replaced by `FALSE`, `ScheduleEdits.cfg` with one rule,
  `Ops = {"save", "pause", "clock"}`, `MaxOps = 4`.  A window has started, the
  clock is set back before its start and the schedule paused: the close is
  recorded at the cycle's time (`scheduler.py:735`), before the start, and after
  a resume the start fires a second time.  `docs/scheduler.md:137` says "A clock
  stepped back by up to a day fires nothing twice" (also `scheduler.py:99`).
* `ClosedByReportAfterExit` (`InvokeCommands.cfg`, `Profile = "zensdk"`,
  `ChargeTargets`, `ExitShapes = {"none"}`, `IdleReports`): `fetch` hands the
  cached snapshot to the charge record whatever its age, so a report from before
  the charge closes it (`device_client.py:476`; `charge_record.py:12-14` says
  only a report after an exit does).
* `NoExitOnceSpent` with a reply contract (`Profile = "invoke"`,
  `SpentTargets`, `{"none"}`, `DrawnReports`): `_flush_pending_target` skips
  the hold `dispatch_output_limit` applies (`device_client.py:1071`, against
  :583-585).
* `FetchFlushesPending` (`Targets = {0, 4, 6}`, `{"none"}`, `OneReport`): a read
  cycle that settles the command in flight leaves the queued target unpublished
  (`device_client.py:489`, against :488 and
  `docs/technical/zendure-mqtt-power-control.md:803`).
* `NoCrossConfirmation` (`Profile = "zensdk"`, `Targets = {0, 1}`, `{"none"}`,
  `TrickleReport`): a stop preempts a target inside the confirmation tolerance
  and is confirmed by a report of it (`power_direction.py:116`, against
  `device_client.py:843-846`).
* `NoRegistrationGap` (`SetupTransitions.cfg`): the durable claim of the EMS
  stage comes before the worker's own; a resume request in between finds no
  worker, recovers the operation and may end it, and the worker then deploys
  (`server.py:6947`, against :6964-6965).
* `CancelSparesReplacement` (`SetupTransitions.cfg` with one setup, `MCOne`,
  `DockerAnswers = TRUE`, no restarts): a launch reported failed
  though its container runs is cancelled without asking the probe
  (`system_alignment.py:579`, against :2367-2368).
* `OneAtWork` without the strays, `Cardinality(AtWork) <= 1` (`Operations.cfg`):
  a request reads the operation while it awaits its confirmation or runs, the
  operation fails, another takes the slot, and the request confirms:
  `confirm` accepts a recoverable failure and never asks who holds the slot
  (`agent.py:555`, :594; `operations.py:397`, against `operations.py:410-411`).
  Two threads are at work.
* A record that does not block while its executor runs,
  `worker[o] = "executing" => Blocking(record[o])` for every operation
  (`Operations.cfg`): the thread that failed finds its record open
  (`agent.py:620`), the operation ends and is retried, and the thread ends the
  new run.
* A failure that could be retried ended for good, `EndAsItHappened` without
  `contested` (`Operations.cfg`): between the same look and the end
  `_close_unrecorded` writes the recoverable failure the full card had refused;
  the thread writes `failed_terminal` over it (`agent.py:621`, against
  `operations.py:446-447`).
* `RetryIsNotSettledBefore` without its second case
  (`ReplacementDispatch.cfg`): the launch failed and the stage says so, the
  attempt is not settled yet; a retry joins it and is answered with its failure
  (`replacement_dispatch.py:155`, against `system_alignment.py:2068-2072`).
* `KnownGoodWasHealthy` for guided upgrades (`SetupTransitions.cfg` with both
  operations upgrades, `Legacy = {b1, b2}` or `{b2}`): the second upgrade keeps
  the Admin, and a deployment of the first, which a resume request took for
  orphaned, ends after that of the second; the health check sees one EMS, the
  identity check another, and the second build becomes known good unseen
  (`system_alignment.py:2241`).  With `Legacy = {}` TLC finds no counterexample.
* `PlanIsGivenUp` (`FairSpec` of `ApplianceOperations`, one full card, no stops):
  `abandon` on a full card raises and keeps nothing of the end, so the plan stays
  planned and holds the slot until an operator cancels it or the agent restarts
  (`operations.py:518`, against `agent.py:391-393`).

Claims that are weaker than they look: `OneDeployment` and `NoWorkerAfterCancel`
are for setups; for guided upgrades a recovery of a stale stage lets two
deployments overlap.  `CompletesKnownGood` is for the first operation: with a
second one, a health check that outlives its operation's deadline can still
write over the known-good build.  `StoredInOrder` is about what the writer hands
over and a server that is done with a request before the next one: InfluxDB
working off a request that timed out here is not followed.  `Accounted` counts
only what `enqueue` refuses; a batch whose write raised is counted nowhere
(`influx_writer.py:462-475`), and whether it was stored nobody here can tell.

## Not modelled

* Device client: the evidence table and `broker_delivery`
  (`_settle_broker_delivery`, `_remember_command_evidence`), correlation ids,
  health counters and the `describe` report, which feed nothing back;
  `write_properties`, whose settings writes do not enter the slot.
* Control client: the raw-identifier history, read only for a publish that has no
  token; a publish paho accepts without an identifier; a refused publish is taken
  not to be sent.  Topic and payload parsing, payload shapes, subscriptions.
* Scheduler: the calendar arithmetic (an occurrence is a pair of times), the
  order of rules after a move, device renames and orphaned rules, a restore
  without `keep_applied`, the status views.
* Transitions: the cached probe, a rollback whose restart of the previous Admin
  fails, image resolution, the lock of a guided upgrade's continuation.
* Operations: acknowledgements, notes, audit, records of another Manager version
  or that cannot be read; more than one failed thread of an operation between
  its look and its end.
* The controller: its cycle is watt arithmetic over some hundred settings, with
  one thread and no message; a model small enough for TLC would be of another
  program.  The HTTP client drives the same `ChargeRecord` as the MQTT client
  with no command in flight.
* The rest, by far the larger part of the repository (admin routes, appliance
  executors, configuration, diagnostics, backup, dashboard, command line,
  frontends): request handlers that validate and call, file and container I/O,
  and views.  The map covers a few percent of the implementation's lines for that
  reason: what is modelled is where state is shared, not what is long.

## Plan

1. Done: the modules above, their runs, the refinement of `MutationSlot`, and the
   proofs of every safety property the passing runs check.
2. Next: hypotheses that may be weakened.  `NothingMissed` with a file spoilt and
   mended, whose stamps stay bounded; `KnownGoodWasHealthy` for upgrades to
   different builds none of which keeps the Admin, with an invariant of which
   sidecars outlive their operation.
