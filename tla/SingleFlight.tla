---------------------------- MODULE SingleFlight ----------------------------
(***************************************************************************)
(* admin/single_flight.py: one run of a shared refresh at a time, joined   *)
(* by callers with the same inputs.                                        *)
(*                                                                         *)
(* `current` is what read() answers: the key of the inputs, which changes  *)
(* under the callers.  The condition's lock covers every step but the      *)
(* work and the wait of a joiner; wait() releases it until notify_all.     *)
(***************************************************************************)
EXTENDS Naturals

CONSTANTS
    Callers,        \* threads that ask for the refresh
    Keys,           \* values read() may answer
    MaxCalls,       \* bound: calls, of all threads together
    MaxChanges      \* bound: changes of the inputs

VARIABLES
    current,        \* the key of the inputs now
    flight, key,    \* SingleFlight._flight: whose run is in flight, its key
    at, joined,     \* where each caller is, and whose run it waits for
    answer,         \* what its call returns (_Flight.result or .error)
    seen,           \* history: the inputs current since its call began
    calls, changes

vars == <<current, flight, key, at, joined, answer, seen, calls, changes>>

Nobody == "nobody"
Failed == "error"
Pending == "pending"

ASSUME SingleFlightAssumption ==
    /\ Keys # {} /\ {Failed, Pending} \cap Keys = {} /\ Nobody \notin Callers
    /\ MaxCalls \in Nat /\ MaxChanges \in Nat

Init ==
    /\ current \in Keys
    /\ flight = Nobody /\ key = current
    /\ at = [c \in Callers |-> "out"]
    /\ joined = [c \in Callers |-> Nobody]
    /\ answer = [c \in Callers |-> Pending]
    /\ seen = [c \in Callers |-> {}]
    /\ calls = 0 /\ changes = 0

moves(c, to) == at' = [at EXCEPT ![c] = to]

\* The inputs change: a configuration is saved.
Change ==
    /\ changes < MaxChanges
    /\ changes' = changes + 1
    /\ current' \in Keys \ {current}
    /\ seen' = [c \in Callers |-> IF at[c] = "out" THEN seen[c] ELSE seen[c] \cup {current'}]
    /\ UNCHANGED <<flight, key, at, joined, answer, calls>>

Call(c) ==
    /\ at[c] = "out" /\ calls < MaxCalls
    /\ calls' = calls + 1
    /\ moves(c, "entering")
    /\ answer' = [answer EXCEPT ![c] = Pending]
    /\ seen' = [seen EXCEPT ![c] = {current}]
    /\ UNCHANGED <<current, flight, key, joined, changes>>

\* Mutant: whatever run is in flight answers every caller.
shares_any == flight # Nobody

\* The key read now is the key of the run in flight.
shares == flight # Nobody /\ key = current

\* Mutant: a caller with another key runs beside the flight.
takes_over == flight = Nobody \/ key # current

takes_off == flight = Nobody

\* The loop under the condition's lock: own the run, join it, or wait.
TakeOff(c) ==
    /\ at[c] = "entering" /\ takes_off
    /\ flight' = c /\ key' = current
    /\ moves(c, "working")
    /\ UNCHANGED <<current, joined, answer, seen, calls, changes>>

Join(c) ==
    /\ at[c] = "entering" /\ ~ takes_off /\ shares
    /\ joined' = [joined EXCEPT ![c] = flight]
    /\ moves(c, "joined")
    /\ UNCHANGED <<current, flight, key, answer, seen, calls, changes>>

Wait(c) ==
    /\ at[c] = "entering" /\ ~ takes_off /\ ~ shares
    /\ moves(c, "waiting")
    /\ UNCHANGED <<current, flight, key, joined, answer, seen, calls, changes>>

\* work(inputs) returns or raises.
Work(c) ==
    /\ at[c] = "working"
    /\ \E r \in {key, Failed} : answer' = [answer EXCEPT ![c] = r]
    /\ moves(c, "landing")
    /\ UNCHANGED <<current, flight, key, joined, seen, calls, changes>>

\* Mutant: the waiting callers are not notified.
none_woken(c) == [at EXCEPT ![c] = "landed"]

woken(c) == [d \in Callers |-> IF d = c THEN "landed"
                               ELSE IF at[d] = "waiting" THEN "entering" ELSE at[d]]

\* The finally clause: the flight ends and the waiting are notified ...
Land(c) ==
    /\ at[c] = "landing"
    /\ flight' = Nobody
    /\ at' = woken(c)
    /\ UNCHANGED <<current, key, joined, answer, seen, calls, changes>>

\* ... and only then done is set for those who joined, with a result to copy.
Release(c) ==
    /\ at[c] = "landed"
    /\ LET riders == {d \in Callers : joined[d] = c}
       IN  /\ answer' = [d \in Callers |-> IF d \in riders THEN answer[c] ELSE answer[d]]
           /\ joined' = [d \in Callers |-> IF d \in riders THEN Nobody ELSE joined[d]]
           /\ at' = [d \in Callers |-> IF d = c THEN "out"
                                        ELSE IF d \in riders THEN "returning" ELSE at[d]]
    /\ UNCHANGED <<current, flight, key, seen, calls, changes>>

Return(c) ==
    /\ at[c] = "returning"
    /\ moves(c, "out")
    /\ UNCHANGED <<current, flight, key, joined, answer, seen, calls, changes>>

Step(c) ==
    \/ TakeOff(c) \/ Join(c) \/ Wait(c) \/ Work(c) \/ Land(c) \/ Release(c) \/ Return(c)

Next == Change \/ \E c \in Callers : Call(c) \/ Step(c)

\* Every thread runs on and the work ends; calls and changes may stop.
Spec == Init /\ [][Next]_vars /\ \A c \in Callers : WF_vars(Step(c))

\* Types of the coordinator's state; the run in flight has an owner at work.
TypeOK ==
    /\ current \in Keys /\ key \in Keys
    /\ flight \in Callers \cup {Nobody}
    /\ at \in [Callers -> {"out", "entering", "waiting", "joined", "working",
                           "landing", "landed", "returning"}]
    /\ joined \in [Callers -> Callers \cup {Nobody}]
    /\ answer \in [Callers -> Keys \cup {Failed, Pending}]
    /\ flight # Nobody => at[flight] \in {"working", "landing"}

\* The refresh never runs twice at a time, though waiting callers wake together
\* and the flight is over before its callers are released (SingleFlight.run).
OneRun == \A c, d \in Callers : at[c] = "working" /\ at[d] = "working" => c = d

\* No caller is answered from inputs other than its own (SingleFlight.run):
\* what it gets was computed from inputs current at some time of its call.
AnsweredFromOwnInputs ==
    \A c \in Callers : at[c] = "out" /\ answer[c] \in Keys => answer[c] \in seen[c]

\* Every call returns, whatever the others read and however often a waiting
\* caller finds another run in flight (the loop around Condition.wait).
EveryCallReturns == \A c \in Callers : at[c] # "out" ~> at[c] = "out"
=============================================================================
