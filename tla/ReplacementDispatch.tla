------------------------- MODULE ReplacementDispatch -------------------------
(***************************************************************************)
(* admin/replacement_dispatch.py with its two users in                     *)
(* admin/system_alignment.py: which of several concurrent callers performs *)
(* the one launcher call of an operation's Admin replacement.              *)
(*                                                                         *)
(* An entry is one dispatch attempt: a lock, the callers interested in it  *)
(* and the outcome its owner published.  The registry names at most one    *)
(* entry; a settled one that a retry detached lives on for its waiters.    *)
(***************************************************************************)
EXTENDS Naturals, FiniteSets

CONSTANTS
    Callers,        \* request threads
    MaxCalls        \* bound: calls of start and of retry together

VARIABLES
    stage,          \* the durable stage: pending, waiting, failed or moved on
    entry,          \* ReplacementDispatchCoordinator._entries, 0 for none
    interest,       \* _DispatchEntry.waiting, as the set of its callers
    owner,          \* who holds _DispatchEntry.lock
    outcome,        \* _DispatchEntry.result and .failure
    caller,         \* [at, kind, entry, since, met, answer] of each thread
    calls,
    launched,       \* history: launcher calls begun since the stage was opened
    number, total   \* history: the launcher call of each entry, and of all

dispatcher == <<entry, interest, owner, outcome>>
history    == <<launched, number, total>>
vars       == <<stage, dispatcher, caller, calls, history>>

Nobody == "nobody"

ASSUME DispatchAssumption ==
    MaxCalls \in Nat /\ IsFiniteSet(Callers) /\ Nobody \notin Callers

Entries == 1..Cardinality(Callers)
\* since and met are history: the launcher calls begun when the thread called,
\* and the one that the attempt it entered had begun and not published yet.
Out == [at |-> "out", kind |-> "start", entry |-> 0, since |-> 0, met |-> 0, answer |-> 0]

Init ==
    /\ stage = "pending"
    /\ entry = 0
    /\ interest = [e \in Entries |-> {}]
    /\ owner = [e \in Entries |-> Nobody]
    /\ outcome = [e \in Entries |-> "none"]
    /\ caller = [c \in Callers |-> Out]
    /\ calls = 0 /\ launched = 0 /\ total = 0
    /\ number = [e \in Entries |-> 0]

at(c, point)   == caller[c].at = point
mine(c)        == caller[c].entry
move(c, point) == caller' = [caller EXCEPT ![c].at = point]
settled(e)     == outcome[e] # "none"

\* The caller is given the outcome of its attempt.
answer(c) ==
    caller' = [caller EXCEPT ![c] = [@ EXCEPT !.at = "leaving", !.answer = number[mine(c)]]]

\* From the committed stage until the launcher's outcome is published.
launching(c) == caller[c].at \in {"launching", "running", "failing"}

\* start_resolved and retry read the record first: a start goes on only from
\* admin_update_pending, a retry leaves the question to the store.
Call(c, kind) ==
    /\ at(c, "out") /\ calls < MaxCalls
    /\ kind = "start" => stage = "pending"
    /\ calls' = calls + 1
    /\ caller' = [caller EXCEPT ![c] = [Out EXCEPT !.at = "called", !.kind = kind, !.since = total]]
    /\ UNCHANGED <<stage, dispatcher, history>>

\* Mutant: a retry shares whatever attempt is registered.
shared_attempt(kind) == entry = 0

new_attempt(kind) == entry = 0 \/ (kind = "retry" /\ settled(entry))

\* _enter, under the registry's guard; a new entry is one nobody refers to.
Enter(c) ==
    /\ at(c, "called")
    /\ LET fresh == CHOOSE e \in Entries : interest[e] = {}
           e     == IF new_attempt(caller[c].kind) THEN fresh ELSE entry
       IN  /\ entry' = e
           /\ interest' = [interest EXCEPT ![e] = @ \cup {c}]
           /\ caller' = [caller EXCEPT ![c] =
                   [@ EXCEPT !.at = "blocked", !.entry = e,
                             !.met = IF settled(e) THEN 0 ELSE number[e]]]
    /\ UNCHANGED <<stage, owner, outcome, calls, history>>

Acquire(c) ==
    /\ at(c, "blocked")
    /\ owner[mine(c)] = Nobody
    /\ owner' = [owner EXCEPT ![mine(c)] = c]
    /\ move(c, "owning")
    /\ UNCHANGED <<stage, entry, interest, outcome, calls, history>>

\* _report_completed_dispatch: the launcher call of this attempt already ran.
Completed(c) ==
    /\ at(c, "owning") /\ settled(mine(c))
    /\ answer(c)
    /\ UNCHANGED <<stage, dispatcher, calls, history>>

\* Mutant: the stage read before the claim authorises the launch.
authorized_earlier == TRUE

\* _dispatch_authority: the durable stage, read again under the claim.
authorized == stage = "pending"

StartOwned(c) ==
    /\ at(c, "owning") /\ ~ settled(mine(c)) /\ caller[c].kind = "start"
    /\ move(c, IF authorized THEN "committing" ELSE "leaving")
    /\ UNCHANGED <<stage, dispatcher, calls, history>>

\* _reopen_recoverable_failure: the store's recovery edge inside the claim.
RetryOwned(c) ==
    /\ at(c, "owning") /\ ~ settled(mine(c)) /\ caller[c].kind = "retry"
    /\ IF stage = "failed"
       THEN stage' = "pending" /\ launched' = 0 /\ move(c, "committing")
       ELSE move(c, "leaving") /\ UNCHANGED <<stage, launched>>
    /\ UNCHANGED <<dispatcher, calls, number, total>>

\* _commit_reconnect_and_launch: advance answers a committed edge again; a
\* write that raises launches only where the record proves it committed.
Commit(c) ==
    /\ at(c, "committing")
    /\ \/ /\ stage \in {"pending", "waiting"}
          /\ stage' = "waiting"
          /\ \E point \in {"launching", "leaving"} : move(c, point)
       \/ move(c, "leaving") /\ UNCHANGED stage
    /\ UNCHANGED <<dispatcher, calls, history>>

\* The launcher is called: the sidecar may begin, and fail the stage, from now on.
Launch(c) ==
    /\ at(c, "launching")
    /\ total' = total + 1
    /\ launched' = launched + 1
    /\ number' = [number EXCEPT ![mine(c)] = total + 1]
    /\ move(c, "running")
    /\ UNCHANGED <<stage, dispatcher, calls>>

publish(c, what) == outcome' = [outcome EXCEPT ![mine(c)] = what] /\ answer(c)

Launched(c) ==
    /\ at(c, "running") /\ publish(c, "result")
    /\ UNCHANGED <<stage, entry, interest, owner, calls, history>>

\* The launcher raised: mark_failed writes the failure, or is refused and the
\* failure is published nevertheless; a write that raises publishes nothing.
LaunchFails(c) ==
    /\ at(c, "running")
    /\ stage' \in {stage, IF stage = "waiting" THEN "failed" ELSE stage}
    /\ \E point \in {"failing", "leaving"} : move(c, point)
    /\ UNCHANGED <<dispatcher, calls, history>>

PublishFailure(c) ==
    /\ at(c, "failing") /\ publish(c, "failure")
    /\ UNCHANGED <<stage, entry, interest, owner, calls, history>>

\* Mutant: a caller leaves with the lock of its attempt.
LockKept(c) ==
    /\ at(c, "leaving")
    /\ move(c, "released")
    /\ UNCHANGED <<stage, dispatcher, calls, history>>

Release(c) ==
    /\ at(c, "leaving")
    /\ owner' = [owner EXCEPT ![mine(c)] = Nobody]
    /\ move(c, "released")
    /\ UNCHANGED <<stage, entry, interest, outcome, calls, history>>

\* Mutant: the last caller leaves the entry registered.
left_registered(c) == FALSE

last_interest(c) == interest[mine(c)] = {c} /\ entry = mine(c)

\* _leave, under the registry's guard.
Leave(c) ==
    /\ at(c, "released")
    /\ interest' = [interest EXCEPT ![mine(c)] = @ \ {c}]
    /\ entry' = IF last_interest(c) THEN 0 ELSE entry
    /\ LET unused == interest[mine(c)] = {c}
       IN  /\ outcome' = [outcome EXCEPT ![mine(c)] = IF unused THEN "none" ELSE @]
           /\ number' = [number EXCEPT ![mine(c)] = IF unused THEN 0 ELSE @]
    /\ caller' = [caller EXCEPT ![c] = Out]
    /\ UNCHANGED <<stage, owner, calls, launched, total>>

\* The sidecar, or a proven mismatch, reports the replacement failed; or the
\* new Admin answers and the record leaves this stage for good.
Replaced ==
    /\ stage = "waiting"
    /\ stage' \in {"failed", "moved"}
    /\ UNCHANGED <<dispatcher, caller, calls, history>>

Step(c) ==
    \/ Enter(c) \/ Acquire(c) \/ Completed(c) \/ StartOwned(c) \/ RetryOwned(c)
    \/ Commit(c) \/ Launch(c) \/ Launched(c) \/ LaunchFails(c) \/ PublishFailure(c)
    \/ Release(c) \/ Leave(c)

Next ==
    \/ Replaced
    \/ \E c \in Callers : Step(c) \/ \E kind \in {"start", "retry"} : Call(c, kind)

\* Threads run on; a lock that is freed is taken by one of its waiters.
Spec == Init /\ [][Next]_vars /\ \A c \in Callers : WF_vars(Step(c))

\* Types; an entry's lock is held by a caller interested in it.
TypeOK ==
    /\ stage \in {"pending", "waiting", "failed", "moved"}
    /\ entry \in Entries \cup {0}
    /\ interest \in [Entries -> SUBSET Callers]
    /\ owner \in [Entries -> Callers \cup {Nobody}]
    /\ outcome \in [Entries -> {"none", "result", "failure"}]
    /\ \A e \in Entries : owner[e] # Nobody => owner[e] \in interest[e]

\* One opening of admin_update_pending gets at most one launcher call, however
\* many callers read that stage before any of them acted (_dispatch_authority).
OneLaunchPerOpening == launched <= 1

\* No settled attempt answers a retry (owned_retry): what a retry is given is the
\* outcome of a launcher call begun after the retry, or of one that was begun
\* before and had not published its outcome when the retry entered.  (The second
\* case is the attempt that failed the stage and still runs: _enter joins it.)
RetryIsNotSettledBefore ==
    \A c \in Callers : caller[c].kind = "retry" /\ caller[c].answer # 0 =>
        caller[c].answer > caller[c].since \/ caller[c].answer = caller[c].met

\* An entry lives exactly as long as it has callers (_leave), and an attempt
\* that may still launch is the registered one, although a retry may detach
\* settled ones: while the launcher runs, in_flight says so, without which an
\* absent sidecar proves nothing.
RegistryIsLive ==
    /\ \A c \in Callers : launching(c) => entry # 0 /\ owner[entry] = c
    /\ entry # 0 => interest[entry] # {}
    /\ \A e \in Entries : interest[e] # {} /\ ~ settled(e) => e = entry

\* Every caller gets its answer: nobody blocks on an attempt for good.
EveryCallerReturns == \A c \in Callers : ~ at(c, "out") ~> at(c, "out")
=============================================================================
