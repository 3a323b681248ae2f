------------------------- MODULE ApplianceOperations -------------------------
(***************************************************************************)
(* appliance/operations.py, OperationStore, as appliance/agent.py drives   *)
(* it: durable records of mutating operations, of which one at a time      *)
(* holds the appliance.  Requests, planners and executors are threads of   *)
(* the agent; the card the records are on fills up and is freed; the agent *)
(* and the host stop at any moment.                                        *)
(*                                                                         *)
(* Operations are numbered in the order they are created.  A stage is      *)
(* "untouched" (UNTOUCHED_STAGES), "touched", "down", the stage of a power *)
(* request the record names a boot for, or "ended".                        *)
(***************************************************************************)
EXTENDS Naturals, FiniteSets

CONSTANTS
    MaxOperations,      \* bound: operations created
    Retained,           \* MAX_RETAINED_OPERATIONS
    Submitters,         \* threads that serve operations.execute
    Passing, Outcomes,  \* the states executors go through, and the ends they choose
                        \* among, an exception apart
    MaxStops,           \* bound: stops of the agent or of the host
    MaxFills            \* bound: times the card fills up


Operations == 1..MaxOperations

VARIABLES
    record,             \* the record of each operation, or NoRecord
    worker,             \* the thread at work on it: none, planning or executing
    last,               \* a thread that failed at it: about to look at the record, or
                        \* closing, having found it open; one per operation (a bound)
    planning,           \* _planning
    unfinished,         \* unfinished: the end each operation still has to be given
    unrecorded,         \* unrecorded
    request,            \* an execute request: the operation and the state it read
    created,            \* how many operations were created
    full,               \* the card has no room
    boot, stops, fills

disk == <<record, full>>
agent == <<worker, last, planning, unfinished, unrecorded, request>>
bounds == <<created, boot, stops, fills>>
vars == <<disk, agent, bounds>>

States == {"planned", "awaiting_confirmation", "running", "verifying", "succeeded",
           "failed_recoverable", "rolling_back", "rolled_back", "failed_terminal",
           "cancelled", "manual_action_required"}
TERMINAL_STATES == {"succeeded", "rolled_back", "failed_terminal", "cancelled", "manual_action_required"}
SETTLED_STATES == TERMINAL_STATES \cup {"failed_recoverable"}
Ends == SETTLED_STATES

ASSUME OperationsAssumption ==
    /\ {MaxOperations, Retained, MaxStops, MaxFills} \subseteq Nat
    /\ Passing \subseteq {"verifying", "rolling_back"} /\ Outcomes \subseteq Ends

TRANSITIONS(state) ==
    CASE state = "planned" -> {"awaiting_confirmation", "cancelled"}
      [] state = "awaiting_confirmation" -> {"running", "cancelled", "failed_terminal"}
      [] state = "running" -> {"verifying", "succeeded", "rolling_back", "failed_recoverable",
                               "failed_terminal", "manual_action_required"}
      [] state = "verifying" -> {"succeeded", "rolling_back", "failed_recoverable",
                                 "failed_terminal", "manual_action_required"}
      [] state = "rolling_back" -> {"rolled_back", "failed_terminal"}
      [] state = "failed_recoverable" -> {"running", "cancelled", "failed_terminal"}
      [] OTHER -> {}

Stages == {"untouched", "touched", "down", "ended"}
Record == [state : States, stage : Stages, hostDown : Nat, sound : BOOLEAN, blocked : BOOLEAN]
NoRecord == [state |-> "none", stage |-> "untouched", hostDown |-> 0, sound |-> TRUE, blocked |-> FALSE]
NoRequest == [op |-> 0, seen |-> "none"]

Exists(o) == record[o] # NoRecord
Blocking(rec) == rec # NoRecord /\ rec.state \notin SETTLED_STATES
Terminal(o) == record[o].state \in TERMINAL_STATES

Init ==
    /\ record = [o \in Operations |-> NoRecord] /\ full = FALSE
    /\ worker = [o \in Operations |-> "none"] /\ last = [o \in Operations |-> "none"]
    /\ planning = {}
    /\ unfinished = [o \in Operations |-> "none"] /\ unrecorded = {}
    /\ request = [t \in Submitters |-> NoRequest]
    /\ created = 0 /\ boot = 1 /\ stops = 0 /\ fills = 0

(***************************************************************************)
(* Saving.  _save forgets what the operation still had to be given.        *)
(***************************************************************************)
Save(o, rec) ==
    /\ ~ full
    /\ record' = [record EXCEPT ![o] = rec]
    /\ unfinished' = [unfinished EXCEPT ![o] = "none"]
    /\ unrecorded' = unrecorded \ {o}

\* _finish and recover_interrupted: an end has a stage of its own, and the boot a
\* record names is looked at only while it is running.
Ended(rec, end) == [rec EXCEPT !.state = end, !.stage = "ended", !.hostDown = 0]

\* Mutant: the end asked for last is the one recorded.
EndAskedLast(o, end) == end

\* finish: the end a full card refused is the one that happened.
EndOf(o, end) == IF unfinished[o] # "none" THEN unfinished[o] ELSE end

CanEnd(o, end) == EndOf(o, end) \in TRANSITIONS(record[o].state)

finish(o, end) ==
    /\ Exists(o) /\ CanEnd(o, end)
    /\ IF full
       THEN /\ unfinished' = [unfinished EXCEPT ![o] = EndOf(o, end)]
            /\ UNCHANGED <<record, unrecorded>>
       ELSE Save(o, Ended(record[o], EndOf(o, end)))

\* abandon: a plan given up; one an operator cancelled meanwhile stays as it is.
\* On a full card the record stays, and nothing is kept of the end.
abandon(o) ==
    IF Exists(o) /\ ~ Terminal(o) /\ ~ full
    THEN Save(o, Ended(record[o], "cancelled"))
    ELSE UNCHANGED <<record, unfinished, unrecorded>>

(***************************************************************************)
(* recover_interrupted                                                     *)
(***************************************************************************)
\* Mutant: an interrupted operation is retryable whatever it had begun.
RecoveredToRetry(rec) ==
    CASE rec.state \in {"running", "verifying", "rolling_back"} ->
              Ended(rec, "failed_recoverable")
      [] rec.state \in {"planned", "awaiting_confirmation"} -> Ended(rec, "cancelled")
      [] OTHER -> rec

Recovered(rec) ==
    CASE rec.state = "running" /\ rec.hostDown # 0 /\ rec.hostDown # boot' ->
              Ended(rec, "succeeded")
      [] rec.state = "running" /\ rec.stage # "touched" -> Ended(rec, "failed_recoverable")
      [] rec.state \in {"running", "verifying", "rolling_back"} ->
              Ended(rec, "manual_action_required")
      [] rec.state \in {"planned", "awaiting_confirmation"} -> Ended(rec, "cancelled")
      [] OTHER -> rec

\* The agent stops and starts, with the host when it comes up in a later boot;
\* before it serves, it recovers every record, or on a full card remembers which.
Restart(b) ==
    /\ boot' = b
    /\ worker' = [o \in Operations |-> "none"] /\ last' = [o \in Operations |-> "none"]
    /\ planning' = {}
    /\ unfinished' = [o \in Operations |-> "none"]
    /\ request' = [t \in Submitters |-> NoRequest]
    /\ LET found == {o \in Operations : Exists(o) /\ Recovered(record[o]) # record[o]}
       IN  IF full
           THEN unrecorded' = found /\ UNCHANGED record
           ELSE /\ unrecorded' = {}
                /\ record' = [o \in Operations |-> IF o \in found THEN Recovered(record[o]) ELSE record[o]]
    /\ UNCHANGED <<full, created, fills>>

AgentStops == stops < MaxStops /\ stops' = stops + 1 /\ Restart(boot)
PowerCut == stops < MaxStops /\ stops' = stops + 1 /\ Restart(boot + 1)

\* The host goes down because an executor asked it to.
HostGoesDown ==
    /\ \E o \in Operations : worker[o] = "executing" /\ record[o].stage = "down"
    /\ stops < MaxStops /\ stops' = stops + 1
    /\ Restart(boot + 1)

(***************************************************************************)
(* Planning.                                                               *)
(***************************************************************************)
\* Mutant: what a restart could not write is not written later either.
ClosedEnds(o) ==
    IF unfinished[o] # "none" /\ unfinished[o] \in TRANSITIONS(record[o].state)
    THEN Ended(record[o], unfinished[o])
    ELSE record[o]

\* _close_unrecorded: what a full card left open, now that there is room.
Closed(o) ==
    IF unfinished[o] # "none" /\ unfinished[o] \in TRANSITIONS(record[o].state)
    THEN Ended(record[o], unfinished[o])
    ELSE IF unfinished[o] = "none" /\ o \in unrecorded THEN Recovered(record[o])
    ELSE record[o]

\* Mutant: a cancelled plan's planner does not keep the slot.
ActiveRecords(records) == {o \in Operations : Blocking(records[o])}

\* active
Active(records) == {o \in Operations : Blocking(records[o]) \/ (records[o] # NoRecord /\ o \in planning)}

\* _prune: terminal records beyond the newest Retained.
Pruned(records) ==
    [o \in Operations |->
        IF /\ records[o].state \in TERMINAL_STATES
           /\ Cardinality({x \in Operations : x > o /\ records[x] # NoRecord}) >= Retained
        THEN NoRecord ELSE records[o]]

NewRecord == [state |-> "planned", stage |-> "untouched", hostDown |-> 0, sound |-> TRUE, blocked |-> FALSE]

\* create, with the closing it starts with; refused while one is active.  With
\* no room neither the closing nor the new record is written.
Create ==
    /\ ~ full
    /\ boot' = boot
    /\ LET closed == [o \in Operations |-> Closed(o)]
           o == created + 1
       IN  IF Active(closed) # {} \/ created = MaxOperations
           THEN /\ record' = closed
                /\ UNCHANGED <<created, worker, planning>>
           ELSE /\ record' = [Pruned(closed) EXCEPT ![o] = NewRecord]
                /\ created' = o
                /\ worker' = [worker EXCEPT ![o] = "planning"]
                /\ planning' = planning \cup {o}
    /\ unfinished' = [o \in Operations |-> "none"] /\ unrecorded' = {}
    /\ UNCHANGED <<full, last, request, stops, fills>>

PlannerLeaves(o) ==
    /\ worker' = [worker EXCEPT ![o] = "none"] /\ planning' = planning \ {o}
    /\ UNCHANGED <<full, last, request, bounds>>

\* _planned: the plan is sealed and shown.
PlanShown(o) ==
    /\ worker[o] = "planning" /\ record[o].state = "planned"
    /\ \E sound, blocked \in BOOLEAN :
          /\ blocked => sound      \* an unsound plan never gets to its blockers
          /\ Save(o, [record[o] EXCEPT !.state = "awaiting_confirmation", !.sound = sound, !.blocked = blocked])
    /\ PlannerLeaves(o)

\* The planner fails, finds its plan cancelled, or cannot save it.
PlanAbandoned(o) ==
    /\ worker[o] = "planning"
    /\ abandon(o)
    /\ PlannerLeaves(o)

\* _drop_plan: there was nothing to do.
PlanDiscarded(o) ==
    /\ worker[o] = "planning" /\ record[o].state = "planned"
    /\ record' = [record EXCEPT ![o] = NoRecord]
    /\ UNCHANGED <<unfinished, unrecorded>>
    /\ PlannerLeaves(o)

(***************************************************************************)
(* operations.execute and operations.cancel                                *)
(***************************************************************************)
\* What the request read decides later: a plan, a failure to retry, or another state.
Seen(state) == IF state \in {"awaiting_confirmation", "failed_recoverable"} THEN state ELSE "other"

Submit(t) ==
    /\ request[t] = NoRequest
    /\ \E o \in Operations :
          Exists(o) /\ request' = [request EXCEPT ![t] = [op |-> o, seen |-> Seen(record[o].state)]]
    /\ UNCHANGED <<disk, worker, last, planning, unfinished, unrecorded, bounds>>

Answered(t) == request' = [request EXCEPT ![t] = NoRequest]

\* validate_confirmation refuses: a plan or a failure it was read as ends.
Refuse(t) ==
    LET o == request[t].op IN
    /\ request[t] # NoRequest
    /\ Exists(o) => ~ record[o].sound
    /\ IF request[t].seen \in {"awaiting_confirmation", "failed_recoverable"} /\ Exists(o) /\ CanEnd(o, "failed_terminal")
       THEN finish(o, "failed_terminal") ELSE UNCHANGED <<record, unfinished, unrecorded>>
    /\ Answered(t)
    /\ UNCHANGED <<full, worker, last, planning, bounds>>

\* Mutant: a retry takes the slot back from whoever has it.
MayRunAlways(t) == "running" \in TRANSITIONS(record[request[t].op].state)

\* retry for a request that read a recoverable failure, confirm for any other: only
\* retry asks who holds the slot, and confirm too starts what failed meanwhile.
MayRun(t) ==
    LET o == request[t].op IN
    /\ "running" \in TRANSITIONS(record[o].state)
    /\ request[t].seen = "failed_recoverable" => Active(record) \subseteq {o}

\* The executor is started, or a plan with blockers is ended by the same thread.
Execute(t) ==
    LET o == request[t].op IN
    /\ request[t] # NoRequest /\ Exists(o) /\ record[o].sound
    /\ MayRun(t)
    /\ Save(o, [record[o] EXCEPT !.state = "running", !.stage = "untouched", !.hostDown = 0])
    /\ IF record[o].blocked
       THEN last' = [last EXCEPT ![o] = "closing"] /\ UNCHANGED worker
       ELSE worker' = [worker EXCEPT ![o] = "executing"] /\ UNCHANGED last
    /\ Answered(t)
    /\ UNCHANGED <<full, planning, bounds>>

\* Refused by the store, or not saved.
ExecuteFails(t) ==
    /\ request[t] # NoRequest
    /\ Exists(request[t].op) => full \/ ~ MayRun(t)
    /\ Answered(t)
    /\ UNCHANGED <<disk, worker, last, planning, unfinished, unrecorded, bounds>>

Cancel(o) ==
    /\ finish(o, "cancelled")
    /\ UNCHANGED <<full, worker, last, planning, request, bounds>>

(***************************************************************************)
(* _run: the executor.                                                     *)
(***************************************************************************)
\* advance: the stage is on record before the step it names.
Advance(o) ==
    /\ worker[o] = "executing" /\ Exists(o) /\ record[o].stage # "down"
    /\ \E state \in {record[o].state} \cup (Passing \cap TRANSITIONS(record[o].state)) :
          Save(o, [record[o] EXCEPT !.state = state, !.stage = "touched"])
    /\ UNCHANGED <<full, worker, last, planning, request, bounds>>

\* _execute_power: asks the host to go down.
AskDown(o) ==
    /\ worker[o] = "executing" /\ Exists(o) /\ record[o].stage = "untouched"
    /\ Save(o, [record[o] EXCEPT !.stage = "down", !.hostDown = boot])
    /\ UNCHANGED <<full, worker, last, planning, request, bounds>>

\* The executor leaves by an exception: its thread is about to look at the record.
Raises(o) ==
    /\ last[o] = "none" /\ last' = [last EXCEPT ![o] = "looking"]
    /\ worker' = [worker EXCEPT ![o] = "none"]

\* _execute_power has two ends.
ExecutorEndings(o) == IF record[o].stage = "down" THEN {"succeeded", "failed_terminal"} ELSE Outcomes

\* The executor ends the operation and returns, or raises: it always does when the
\* end could not be written.
ExecutorEnds(o) ==
    /\ worker[o] = "executing"
    /\ \E end \in ExecutorEndings(o) : CanEnd(o, end) /\ finish(o, end)
    /\ \/ Raises(o)
       \/ ~ full /\ worker' = [worker EXCEPT ![o] = "none"] /\ UNCHANGED last
    /\ UNCHANGED <<full, planning, request, bounds>>

ExecutorRaises(o) ==
    /\ worker[o] = "executing"
    /\ Raises(o)
    /\ UNCHANGED <<disk, planning, unfinished, unrecorded, request, bounds>>

\* An operation that has ended, or is forgotten, is left alone.
Looks(o) ==
    /\ last[o] = "looking"
    /\ last' = [last EXCEPT ![o] = IF Blocking(record[o]) THEN "closing" ELSE "none"]
    /\ UNCHANGED <<disk, worker, planning, unfinished, unrecorded, request, bounds>>

\* The end of an operation found open, or of a plan with blockers.
Closes(o) ==
    /\ last[o] = "closing"
    /\ IF Exists(o) /\ CanEnd(o, "failed_terminal") THEN finish(o, "failed_terminal")
       ELSE UNCHANGED <<record, unfinished, unrecorded>>
    /\ last' = [last EXCEPT ![o] = "none"]
    /\ UNCHANGED <<full, worker, planning, request, bounds>>

CardFills ==
    /\ ~ full /\ fills < MaxFills
    /\ full' = TRUE /\ fills' = fills + 1
    /\ UNCHANGED <<record, agent, created, boot, stops>>

CardFreed == full /\ full' = FALSE /\ UNCHANGED <<record, agent, bounds>>

Next ==
    \/ Create \/ AgentStops \/ PowerCut \/ HostGoesDown \/ CardFills \/ CardFreed
    \/ \E o \in Operations :
          \/ PlanShown(o) \/ PlanAbandoned(o) \/ PlanDiscarded(o) \/ Cancel(o)
          \/ Advance(o) \/ AskDown(o) \/ ExecutorEnds(o) \/ ExecutorRaises(o)
          \/ Looks(o) \/ Closes(o)
    \/ \E t \in Submitters : Submit(t) \/ Refuse(t) \/ Execute(t) \/ ExecuteFails(t)

Spec == Init /\ [][Next]_vars

\* Threads run on, the card is freed, and somebody asks for a plan now and then.
\* Nothing makes an operator confirm or cancel.
Fairness ==
    /\ WF_vars(Create) /\ WF_vars(CardFreed)
    /\ \A o \in Operations :
          /\ WF_vars(\/ PlanShown(o) \/ PlanAbandoned(o) \/ PlanDiscarded(o)
                     \/ ExecutorEnds(o) \/ ExecutorRaises(o))
          /\ WF_vars(Looks(o) \/ Closes(o))
FairSpec == Spec /\ Fairness

(***************************************************************************)
(* Properties.                                                             *)
(***************************************************************************)
\* Every record is one the store could have written, and what is kept in memory
\* is about records.
TypeOK ==
    /\ record \in [Operations -> Record \cup {NoRecord}] /\ full \in BOOLEAN
    /\ worker \in [Operations -> {"none", "planning", "executing"}]
    /\ last \in [Operations -> {"none", "looking", "closing"}]
    /\ planning \subseteq Operations /\ unrecorded \subseteq Operations
    /\ unfinished \in [Operations -> Ends \cup {"none"}]
    /\ request \in [Submitters -> [op : Operations \cup {0}, seen : {"awaiting_confirmation", "failed_recoverable", "other", "none"}]]
    /\ created \in 0..MaxOperations /\ boot \in Nat /\ stops \in Nat /\ fills \in Nat

AtWork == {o \in Operations : worker[o] \in {"planning", "executing"}}

\* Where an operation is in MutationSlot: it has the slot while its record blocks;
\* what is kept unwritten is ending.
SlotPhase(o) ==
    IF record[o] = NoRecord THEN IF o <= created THEN "ended" ELSE "none"
    ELSE IF record[o].state \in TERMINAL_STATES THEN "ended"
    ELSE IF record[o].state = "failed_recoverable" THEN "settled"
    ELSE IF unfinished[o] # "none" \/ o \in unrecorded THEN "ending"
    ELSE "held"

\* What runs, and what a restart could not close for want of room, gives the slot
\* back in the end (recover_interrupted, finish, _close_unrecorded).
Unended(o) == record[o].state \in {"running", "verifying", "rolling_back"} \/ o \in unrecorded
SlotIsFreed == \A o \in Operations : Unended(o) ~> ~ Blocking(record[o])

\* A plan that was given up gives the slot back in the end, with room on the card
\* or once there is room again (abandon, _close_unrecorded).  The code does not
\* have this: README.md names the instance in which TLC refutes it.
PlanIsGivenUp == \A o \in Operations : record[o].state = "planned" ~> record[o].state # "planned"
=============================================================================
