-------------------------- MODULE OperationsHistory --------------------------
(***************************************************************************)
(* ApplianceOperations with the history its properties speak of.           *)
(***************************************************************************)
EXTENDS ApplianceOperations

VARIABLES
    halfMade,       \* operations stopped after they began to change the appliance
    wentDown,       \* operations the host went down for
    stray,          \* operations that run without having been given the slot
    asked,          \* the first of the ends an operation was to be given and was not
    contested       \* operations ended between a failed thread's look and its end

interruptions == <<halfMade, wentDown>>
ends == <<asked, contested>>
history == <<interruptions, stray, ends>>

HistoryInit ==
    /\ halfMade = {} /\ wentDown = {} /\ stray = {} /\ contested = {}
    /\ asked = [o \in Operations |-> "none"]

\* The agent stopped: which of its executors had done what.
Interrupted ==
    /\ halfMade' = halfMade \cup {o \in Operations : worker[o] = "executing" /\ record[o].stage = "touched"}
    /\ wentDown' = wentDown \cup {o \in Operations : /\ worker[o] = "executing"
                                                     /\ record[o].stage = "down" /\ boot' # boot}

\* The request confirms what failed after it had read it; a retry asks for the slot.
Overtakes(t) == request[t].seen # "failed_recoverable" /\ record[request[t].op].state = "failed_recoverable"
Started(t) == stray' = IF Overtakes(t) THEN stray \cup {request[t].op} ELSE stray \ {request[t].op}

\* A thread that failed at an earlier run ends the one that is at work.
Disowned(o) == stray' = IF worker[o] = "executing" THEN stray \cup {o} ELSE stray

Remembered ==
    /\ asked' = [o \in Operations |->
          IF unfinished'[o] = "none" \/ asked[o] = "none" THEN unfinished'[o] ELSE asked[o]]
    /\ contested' = {o \in Operations :
          IF Blocking(record[o]) THEN ~ Blocking(record'[o]) /\ last[o] = "closing" /\ last'[o] = "closing"
          ELSE o \in contested}

HInit == Init /\ HistoryInit
HNext ==
    \/ (AgentStops \/ PowerCut \/ HostGoesDown) /\ Interrupted /\ UNCHANGED stray /\ Remembered
    \/ \E t \in Submitters : Execute(t) /\ Started(t) /\ UNCHANGED interruptions /\ Remembered
    \/ \E o \in Operations : Closes(o) /\ Disowned(o) /\ UNCHANGED interruptions /\ Remembered
    \/ /\ \/ Create \/ CardFills \/ CardFreed
          \/ \E o \in Operations :
                \/ PlanShown(o) \/ PlanAbandoned(o) \/ PlanDiscarded(o) \/ Cancel(o)
                \/ Advance(o) \/ AskDown(o) \/ ExecutorEnds(o) \/ ExecutorRaises(o) \/ Looks(o)
          \/ \E t \in Submitters : Submit(t) \/ Refuse(t) \/ ExecuteFails(t)
       /\ UNCHANGED <<interruptions, stray>> /\ Remembered
HSpec == HInit /\ [][HNext]_<<vars, history>>
FairHSpec == HSpec /\ Fairness

\* One planner or executor at a time changes the appliance, through cancelled
\* plans, unwritten ends, retries and restarts (active, create, retry), and
\* nobody ends or forgets an operation under the thread that carries it out
\* (finish, _close_unrecorded, _prune).  Excepted are the strays: an operation
\* that confirm started, for a request that read it before it failed, and one
\* that a thread which failed at an earlier run of it ended.  confirm does not
\* ask who has the slot, and _run looks at the record without the lock.
OneAtWork ==
    /\ Cardinality(AtWork \ stray) <= 1
    /\ \A o \in Operations \ stray : worker[o] = "executing" => Blocking(record[o])

Slot == INSTANCE MutationSlot WITH
            Operation <- Operations,
            phase <- [o \in Operations |-> SlotPhase(o)],
            work <- AtWork

\* Whatever the requests, the card and the restarts do, the store behaves as the
\* one slot of MutationSlot, whose actions Overtake and Disown name what escapes
\* it (active, create, confirm, retry, recover_interrupted).
OneSlot == Slot!Spec

\* An operation that was stopped with the appliance half changed, or that the
\* host went down for, is never run again (recover_interrupted, retry).
NotRunAgain ==
    [][\A o \in halfMade \cup wentDown : worker[o] = "none" => worker'[o] # "executing"]_<<vars, history>>

\* The end on record is the first one asked for, although the card refused it and
\* later ones were asked for (finish, _close_unrecorded); only a stop of the agent
\* forgets it (recover_interrupted has the record alone).  A failure on record that
\* could be started again is ended for good when its plan is found unsound, and
\* otherwise only by the thread that failed at it, if that had found the record
\* still open (_run looks at it without the lock).
EndAsItHappened ==
    [][\A o \in Operations :
          LET was == record[o].state
              is  == record'[o].state
          IN  is # was /\ is \in SETTLED_STATES =>
                 /\ asked[o] # "none" => is = asked[o] \/ stops' # stops
                 /\ was = "failed_recoverable" /\ is = "failed_terminal" =>
                       o \in contested \/ ~ record[o].sound]_<<vars, history>>
=============================================================================
