-------------------------- MODULE SystemTransition --------------------------
(***************************************************************************)
(* admin/system_alignment.py with the routes of admin/server.py that drive *)
(* it, admin/operation_coordinator.py, the guided-upgrade job registry and *)
(* admin/update_apply.py: how one paired Admin and EMS build is installed. *)
(*                                                                         *)
(* Three kinds of actor change the installation.  Request threads and the  *)
(* workers they start live in the Admin process and die with it; a worker  *)
(* proves it is alive by a claim in the OperationCoordinator.  The sidecar *)
(* is a container of its own, named after the operation: it rewrites       *)
(* Compose and recreates the Admin.  The durable record (TransitionStore)  *)
(* outlives them all.  A step is what runs between two durable writes or   *)
(* two questions to Docker, so everything else may happen in between.      *)
(***************************************************************************)
EXTENDS TransitionStore, FiniteSets

CONSTANTS
    Builds,         \* System Builds, an Admin and an EMS image each
    InitialBuild,   \* the build that runs and is known good at the start
    Target,         \* the build each operation installs
    Legacy,         \* builds whose own Admin never runs: the running one stays
    Mode,           \* "setup" (deployment worker) or "upgrade" (job)
    Requests,       \* request threads, with the worker each may start
    DockerAnswers,  \* TRUE: Docker always answers the container probe
    Patience,       \* TRUE: past the deadline, where every forward claim is
                    \* refused, the operator asks for nothing but to abandon
    MaxAttempts,    \* bound: dispatches of a replacement
    MaxRestarts     \* bound: crashes of the Admin process

ASSUME TransitionAssumption ==
    /\ InitialBuild \in Builds
    /\ Target \in [Operations -> Builds] /\ Legacy \subseteq Builds
    /\ Mode \in [Operations -> {"setup", "upgrade"}]
    /\ DockerAnswers \in BOOLEAN /\ Patience \in BOOLEAN
    /\ MaxAttempts \in Nat /\ MaxRestarts \in Nat

VARIABLES
    record,         \* pending-transition.json
    started,        \* the operation ids already minted
    orchestrator,   \* the Admin build each operation runs under, fixed in its record
    known_good,     \* the known-good build
    admin, ems,     \* the running Admin and EMS builds
    active,         \* OperationCoordinator._active
    abandoned,      \* OperationCoordinator._abandoned
    dispatch,       \* the owned dispatch attempt of each operation
    sidecar,        \* the updater container of each operation
    request,        \* where each request thread, or its worker, is
    attempts, restarts,
    healthy         \* history: builds whose EMS passed a health check

machine   == <<known_good, admin, ems, healthy>>
process   == <<active, abandoned, dispatch, request>>
counters  == <<started, orchestrator, attempts, restarts>>
vars      == <<record, machine, process, sidecar, counters>>

\* What a worker does between its durable claim and its last store write.
WorkerPoints == {"import", "importing", "job", "deploy_claimed", "deploying",
                 "deployed", "probing", "passed", "matched", "recorded"}

Points == WorkerPoints \cup {"idle", "recovering", "mismatch", "recording", "cancelling"}

Idle == [at |-> "idle", op |-> NoOperation, worker |-> FALSE,
         inactive |-> FALSE, sidecar |-> 0]

RequestStates == [at : Points, op : Operations \cup {NoOperation},
                  worker : BOOLEAN, inactive : BOOLEAN, sidecar : Nat]

Init ==
    /\ record = NoTransition
    /\ started = {}
    /\ orchestrator = Target
    /\ known_good = InitialBuild /\ admin = InitialBuild /\ ems = InitialBuild
    /\ active = [op \in Operations |-> {}]
    /\ abandoned = {}
    /\ dispatch = [op \in Operations |-> "none"]
    /\ sidecar = [op \in Operations |-> "none"]
    /\ request = [r \in Requests |-> Idle]
    /\ attempts = 0 /\ restarts = 0
    /\ healthy = {InitialBuild}

at(r, point)   == request[r].at = point
asks(r)        == at(r, "idle") /\ (Patience => ~ record.expired)
enter(r, s)    == request' = [request EXCEPT ![r] = s]
move(r, point) == request' = [request EXCEPT ![r].at = point]

(***************************************************************************)
(* OperationCoordinator.  claim is refused once abandonment has won;       *)
(* release drops one token, release_operation every token of an operation. *)
(***************************************************************************)
claimable(op) == op \notin abandoned

claim(r, op) == active' = [active EXCEPT ![op] = @ \cup {r}]

release(r) ==
    active' = IF ~ request[r].worker THEN active
              ELSE [active EXCEPT ![request[r].op] =
                                      IF Mode[request[r].op] = "setup" /\ at(r, "recorded")
                                      THEN {} ELSE @ \ {r}]

\* A worker gives back its claim and its thread ends.
finish(r) == release(r) /\ enter(r, Idle)

\* Mutant: the durable cancel does not ask for live workers.
no_worker_ignored(op) == TRUE

no_worker(op) == active[op] = {}

(***************************************************************************)
(* start, start_resolved: a new operation, which waits for the Admin to be *)
(* replaced unless the running one is the target already.                  *)
(***************************************************************************)
\* _orchestrator_admin_identity
orchestrator_admin(op) == IF Target[op] \in Legacy THEN admin ELSE Target[op]

Start(op) ==
    /\ op \notin started
    /\ begin_ok(record)
    /\ started' = started \cup {op}
    /\ orchestrator' = [orchestrator EXCEPT ![op] = orchestrator_admin(op)]
    /\ record' = begun(op, IF admin = orchestrator_admin(op) THEN "admin_aligned"
                                                            ELSE "admin_update_pending")
    /\ UNCHANGED <<machine, process, sidecar, attempts, restarts>>

\* _start_admin_replacement: own the dispatch, the stage read again under it.
DispatchOwn(op) ==
    /\ dispatch[op] = "none"
    /\ mutable(record, op) /\ record.stage = "admin_update_pending"
    /\ attempts < MaxAttempts
    /\ attempts' = attempts + 1
    /\ dispatch' = [dispatch EXCEPT ![op] = "commit"]
    /\ UNCHANGED <<record, machine, active, abandoned, request, sidecar, started, orchestrator, restarts>>

\* retry, _retry_dispatch_attempt: the recovery edge inside a new attempt.
Retry(op) ==
    /\ dispatch[op] = "none"
    /\ retry_ok(record, op)
    /\ record' = retried(record)
    /\ IF record.resume = "admin_update_pending"
       THEN /\ attempts < MaxAttempts
            /\ attempts' = attempts + 1
            /\ dispatch' = [dispatch EXCEPT ![op] = "commit"]
       ELSE UNCHANGED <<attempts, dispatch>>
    /\ UNCHANGED <<machine, active, abandoned, request, sidecar, started, orchestrator, restarts>>

\* _commit_reconnect_and_launch up to the launcher.  A write that raises is
\* classified by reading the record back: committed continues, a proven
\* non-commit and an unreadable outcome launch nothing.
DispatchCommit(op) ==
    /\ dispatch[op] = "commit"
    /\ \/ /\ advance_ok(record, op, "admin_update_pending", "admin_reconnect_pending")
          /\ record' = advanced(record, "admin_reconnect_pending")
          /\ \E step \in {"launch", "none"} : dispatch' = [dispatch EXCEPT ![op] = step]
       \/ /\ dispatch' = [dispatch EXCEPT ![op] = "none"]
          /\ UNCHANGED record
    /\ UNCHANGED <<machine, active, abandoned, request, sidecar, counters>>

\* The launcher: docker run under the operation's container name.  It can
\* fail, or be reported failed (a timeout) after the container started.
Launch(op) ==
    /\ dispatch[op] = "launch"
    /\ dispatch' = [dispatch EXCEPT ![op] = "none"]
    /\ LET startable == record.op = op /\ sidecar[op] = "none"
       IN  \/ /\ startable
              /\ sidecar' = [sidecar EXCEPT ![op] = "started"]
              /\ UNCHANGED record
           \/ /\ sidecar' \in {sidecar} \cup
                     IF startable THEN {[sidecar EXCEPT ![op] = "started"]} ELSE {}
              /\ record' = failed_if_ok(record, op, "admin_update_pending")
    /\ UNCHANGED <<machine, active, abandoned, request, counters>>

(***************************************************************************)
(* The sidecar: apply_system_transition_admin_update.                      *)
(***************************************************************************)
sidecar_moves(op, to) == sidecar' = [sidecar EXCEPT ![op] = to]

SidecarClaim(op) ==
    /\ sidecar[op] = "started"
    /\ IF claim_admin_update_ok(record, op)
       THEN record' = [record EXCEPT !.sidecar = attempts] /\ sidecar_moves(op, "claimed")
       ELSE sidecar_moves(op, "none") /\ UNCHANGED record
    /\ UNCHANGED <<machine, process, counters>>

\* apply_admin_update reads the plan once before it touches anything.
SidecarRead(op) ==
    /\ sidecar[op] = "claimed"
    /\ sidecar_moves(op, IF /\ record.op = op
                            /\ record.stage = "admin_reconnect_pending"
                            /\ record.sidecar # 0
                         THEN "working" ELSE "none")
    /\ UNCHANGED <<record, machine, process, counters>>

\* A failure before the recreate: nothing was changed.
SidecarFails(op) ==
    /\ sidecar[op] = "working"
    /\ record' = failed_if_ok(record, op, "admin_update_pending")
    /\ sidecar_moves(op, "none")
    /\ UNCHANGED <<machine, process, counters>>

\* The Admin process ends: claims, jobs and threads go with it.
process_ends ==
    /\ active' = [op \in Operations |-> {}]
    /\ abandoned' = {}
    /\ dispatch' = [op \in Operations |-> "none"]
    /\ request' = [r \in Requests |-> Idle]

SidecarRecreates(op) ==
    /\ sidecar[op] = "working"
    /\ process_ends
    /\ \/ admin' = orchestrator[op] /\ sidecar_moves(op, "recreated") /\ UNCHANGED record
       \/ /\ record' = failed_if_ok(record, op, "admin_update_pending")
          /\ sidecar_moves(op, "none")
          /\ UNCHANGED admin
    /\ UNCHANGED <<known_good, ems, healthy, counters>>

\* The container exits after the swap, or is killed at any point.
SidecarGone(op) ==
    /\ sidecar[op] # "none"
    /\ sidecar_moves(op, "none")
    /\ UNCHANGED <<record, machine, process, counters>>

AdminRestarts ==
    /\ restarts < MaxRestarts
    /\ restarts' = restarts + 1
    /\ process_ends
    /\ UNCHANGED <<record, machine, sidecar, started, orchestrator, attempts>>

Expire ==
    /\ is_active(record) /\ ~ record.expired
    /\ record' = [record EXCEPT !.expired = TRUE]
    /\ UNCHANGED <<machine, process, sidecar, counters>>

(***************************************************************************)
(* Questions to Docker.  _replacement_state: TRUE and FALSE only where     *)
(* proven, for the stage a replacement owns and outside a dispatch; FALSE  *)
(* also needs the running Admin to be proven another build.                *)
(***************************************************************************)
Answers == {"running", "gone", "unknown"}

probe(op) == (IF sidecar[op] # "none" THEN {"running"} ELSE {"gone"})
             \cup (IF DockerAnswers THEN {} ELSE {"unknown"})

replacement_state(op) ==
    IF record.stage \notin ExternallyOwnedStages \/ dispatch[op] # "none" THEN {"unknown"}
    ELSE {IF a = "gone" /\ admin = orchestrator[op] THEN "unknown" ELSE a : a \in probe(op)}

\* _running_ems_identity_state
ems_identity(op) == {"unverifiable", IF ems = Target[op] THEN "match" ELSE "mismatch"}

(***************************************************************************)
(* resume: verify the reconnected Admin.  A proven mismatch is recorded as *)
(* a failure unless a replacement is seen running.                         *)
(***************************************************************************)
ResumeAligned(op) ==
    /\ mutable(record, op) /\ ~ record.expired
    /\ admin = orchestrator[op]
    /\ record.stage = "admin_reconnect_pending"
    /\ record' = advanced(record, "admin_aligned")
    /\ UNCHANGED <<machine, process, sidecar, counters>>

ResumeMismatch(r, op) ==
    /\ at(r, "idle")
    /\ mutable(record, op) /\ ~ record.expired
    /\ admin # orchestrator[op]
    /\ record.stage = "admin_reconnect_pending"
    /\ enter(r, [Idle EXCEPT !.at = "mismatch", !.op = op])
    /\ UNCHANGED <<record, machine, active, abandoned, dispatch, sidecar, counters>>

\* The question is asked for the stage the request read first.
ResumeProbe(r) ==
    /\ at(r, "mismatch")
    /\ LET op == request[r].op
       IN  IF dispatch[op] # "none" THEN enter(r, Idle)
           ELSE \E a \in probe(op) :
                    IF a = "running" THEN enter(r, Idle) ELSE move(r, "recording")
    /\ UNCHANGED <<record, machine, active, abandoned, dispatch, sidecar, counters>>

ResumeRecord(r) ==
    /\ at(r, "recording")
    /\ record' = failed_if_ok(record, request[r].op, "admin_update_pending")
    /\ enter(r, Idle)
    /\ UNCHANGED <<machine, active, abandoned, dispatch, sidecar, counters>>

(***************************************************************************)
(* verify_resources: claim the worker, then the import, then the stage.    *)
(***************************************************************************)
ImportBegin(r, op) ==
    /\ asks(r)
    /\ record.op = op /\ record.stage = "admin_aligned"
    /\ claimable(op)
    /\ claim(r, op)
    /\ enter(r, [Idle EXCEPT !.at = "import", !.op = op, !.worker = TRUE])
    /\ UNCHANGED <<record, machine, abandoned, dispatch, sidecar, counters>>

ImportClaim(r) ==
    /\ at(r, "import")
    /\ IF claim_resource_ok(record, request[r].op)
       THEN /\ record' = [record EXCEPT !.resources = TRUE]
            /\ move(r, "importing")
            /\ UNCHANGED active
       ELSE finish(r) /\ UNCHANGED record
    /\ UNCHANGED <<machine, abandoned, dispatch, sidecar, counters>>

ImportEnd(r) ==
    /\ at(r, "importing")
    /\ LET op == request[r].op
       IN  \/ record' = IF advance_ok(record, op, "admin_aligned", "resources_verified")
                        THEN advanced(record, "resources_verified") ELSE record
           \/ record' = failed_if_ok(record, op, "admin_aligned")
    /\ finish(r)
    /\ UNCHANGED <<machine, abandoned, dispatch, sidecar, counters>>

(***************************************************************************)
(* The EMS operation.  An upgrade job claims its worker first and the      *)
(* stage inside; a setup deployment holds the workflow's exclusive claim,  *)
(* takes the stage first and the worker second.                            *)
(***************************************************************************)
BeginEms(op) ==
    /\ ~ record.expired
    /\ mutable(record, op) /\ record.stage = "resources_verified"
    /\ record' = advanced(record, "ems_operation_pending")
    /\ UNCHANGED <<machine, process, sidecar, counters>>

EmsPoints == {"job", "deploy_claimed", "deploying", "deployed", "probing", "passed",
              "matched", "recorded"}

\* Mutant: the setup workflow's claim is not taken.
setup_unclaimed == TRUE

\* SetupLifecycleCoordinator: the one operation of the setup workflow.
setup_free == \A r \in Requests :
                  request[r].op \in Operations =>
                      ~ (/\ Mode[request[r].op] = "setup"
                         /\ \/ request[r].at \in EmsPoints /\ (request[r].worker \/ at(r, "deploy_claimed"))
                            \/ at(r, "cancelling"))

\* UpgradeJobRegistry.get_or_submit: no live job answers for the operation.
job_free(op) == \A r \in Requests : request[r].op = op => request[r].at \notin EmsPoints \/ ~ request[r].worker

JobBegin(r, op) ==
    /\ asks(r)
    /\ Mode[op] = "upgrade"
    /\ record.op = op
    /\ record.stage \in {"ems_operation_pending", "ems_operation_running", "healthcheck_pending"}
    /\ job_free(op)
    /\ claimable(op)
    /\ claim(r, op)
    /\ enter(r, [Idle EXCEPT !.at = "job", !.op = op, !.worker = TRUE])
    /\ UNCHANGED <<record, machine, abandoned, dispatch, sidecar, counters>>

JobClaim(r) ==
    /\ at(r, "job")
    /\ IF claim_ok(record, request[r].op, "ems_operation_pending", "ems_operation_running")
       THEN /\ record' = advanced(record, "ems_operation_running")
            /\ move(r, "deploying")
            /\ UNCHANGED active
       ELSE finish(r) /\ UNCHANGED record
    /\ UNCHANGED <<machine, abandoned, dispatch, sidecar, counters>>

DeployClaim(r, op) ==
    /\ asks(r)
    /\ Mode[op] = "setup"
    /\ setup_free
    /\ claim_ok(record, op, "ems_operation_pending", "ems_operation_running")
    /\ record' = advanced(record, "ems_operation_running")
    /\ enter(r, [Idle EXCEPT !.at = "deploy_claimed", !.op = op])
    /\ UNCHANGED <<machine, active, abandoned, dispatch, sidecar, counters>>

DeployWorker(r) ==
    /\ at(r, "deploy_claimed")
    /\ LET op == request[r].op
       IN  IF claimable(op)
           THEN /\ claim(r, op)
                /\ request' = [request EXCEPT ![r].at = "deploying", ![r].worker = TRUE]
           ELSE enter(r, Idle) /\ UNCHANGED active
    /\ UNCHANGED <<record, machine, abandoned, dispatch, sidecar, counters>>

\* executor.run, DeploymentService._run_start: pull, compose up.
Deployed(r) ==
    /\ at(r, "deploying")
    /\ ems' = Target[request[r].op]
    /\ move(r, "deployed")
    /\ UNCHANGED <<record, known_good, admin, healthy, active, abandoned, dispatch, sidecar, counters>>

DeployFailed(r) ==
    /\ at(r, "deploying")
    /\ ems' \in {ems, Target[request[r].op]}
    /\ record' = failed_if_ok(record, request[r].op, "ems_operation_pending")
    /\ finish(r)
    /\ UNCHANGED <<known_good, admin, healthy, abandoned, dispatch, sidecar, counters>>

\* finish_ems_operation(succeeded=True).  Where the stage has moved the job
\* fails; the deployment's terminal callback then records that failure.
FinishEms(r) ==
    /\ at(r, "deployed")
    /\ LET op == request[r].op
       IN  IF advance_ok(record, op, "ems_operation_running", "healthcheck_pending")
           THEN /\ record' = advanced(record, "healthcheck_pending")
                /\ move(r, "probing")
                /\ UNCHANGED active
           ELSE /\ record' = IF Mode[op] = "upgrade" THEN record
                             ELSE failed_if_ok(record, op, "ems_operation_pending")
                /\ finish(r)
    /\ UNCHANGED <<machine, abandoned, dispatch, sidecar, counters>>

(***************************************************************************)
(* finish_healthcheck: the verdict, the identity of the running EMS, the   *)
(* known-good record and the last stage are four separate steps.           *)
(***************************************************************************)
HealthPassed(r) ==
    /\ at(r, "probing")
    /\ healthy' = healthy \cup {ems}
    /\ move(r, "passed")
    /\ UNCHANGED <<record, known_good, admin, ems, active, abandoned, dispatch, sidecar, counters>>

HealthFailed(r) ==
    /\ at(r, "probing")
    /\ record' = failed_if_ok(record, request[r].op, "healthcheck_pending")
    /\ finish(r)
    /\ UNCHANGED <<machine, abandoned, dispatch, sidecar, counters>>

IdentityChecked(r) ==
    /\ at(r, "passed")
    /\ LET op == request[r].op
       IN  IF ~ (mutable(record, op) /\ record.stage = "healthcheck_pending")
           THEN finish(r) /\ UNCHANGED record
           ELSE \E identity \in ems_identity(op) :
                    CASE identity = "match" ->
                             move(r, "matched") /\ UNCHANGED <<record, active>>
                      [] identity = "unverifiable" ->
                             /\ record' = failed_if_ok(record, op, "healthcheck_pending")
                             /\ finish(r)
                      [] identity = "mismatch" ->
                             /\ record' = failed_if_ok(record, op, "ems_operation_pending")
                             /\ finish(r)
    /\ UNCHANGED <<machine, abandoned, dispatch, sidecar, counters>>

\* Mutant: the last stage is committed before the known-good build.
KnownGoodLeftForLater(r) ==
    /\ at(r, "matched")
    /\ move(r, "recorded")
    /\ UNCHANGED <<record, machine, active, abandoned, dispatch, sidecar, counters>>

\* Mutant: the build that runs when the file is written is recorded.
KnownGoodIsWhatRuns(r) ==
    /\ at(r, "matched")
    /\ known_good' = ems
    /\ move(r, "recorded")
    /\ UNCHANGED <<record, admin, ems, healthy, active, abandoned, dispatch, sidecar, counters>>

\* _record_known_good; a write that raises ends the worker and leaves the
\* transition waiting for its health check.
RecordKnownGood(r) ==
    /\ at(r, "matched")
    /\ \/ known_good' = Target[request[r].op] /\ move(r, "recorded") /\ UNCHANGED active
       \/ finish(r) /\ UNCHANGED known_good
    /\ UNCHANGED <<record, admin, ems, healthy, abandoned, dispatch, sidecar, counters>>

Complete(r) ==
    /\ at(r, "recorded")
    /\ record' = IF advance_ok(record, request[r].op, "healthcheck_pending", "completed")
                 THEN advanced(record, "completed") ELSE record
    /\ finish(r)
    /\ UNCHANGED <<machine, abandoned, dispatch, sidecar, counters>>

(***************************************************************************)
(* The resume route after a restart: recover_ems_operation, asked only     *)
(* while no worker holds a claim, and the health check of a transition     *)
(* that waits for one.                                                     *)
(***************************************************************************)
RecoverBegin(r, op) ==
    /\ asks(r)
    /\ record.op = op
    /\ \/ record.stage = "ems_operation_running" /\ no_worker(op)
       \/ record.stage = "healthcheck_pending"
    /\ enter(r, [Idle EXCEPT !.at = "recovering", !.op = op])
    /\ UNCHANGED <<record, machine, active, abandoned, dispatch, sidecar, counters>>

Recover(r) ==
    /\ at(r, "recovering")
    /\ LET op == request[r].op
           reopened == IF retry_ok(record, op) THEN retried(record) ELSE record
       IN  IF mutable(reopened, op) /\ reopened.stage = "ems_operation_running"
           THEN \E identity \in ems_identity(op) :
                    IF identity = "match"
                    THEN record' = advanced(reopened, "healthcheck_pending") /\ move(r, "probing")
                    ELSE /\ record' = failed_if_ok(reopened, op, "ems_operation_pending")
                         /\ enter(r, Idle)
           ELSE /\ record' = reopened
                /\ IF mutable(reopened, op) /\ reopened.stage = "healthcheck_pending"
                   THEN move(r, "probing") ELSE enter(r, Idle)
    /\ UNCHANGED <<machine, active, abandoned, dispatch, sidecar, counters>>

(***************************************************************************)
(* cancel: the replacement is asked about first, then the coordinator      *)
(* proves no worker alive and cancels durably under its lock.              *)
(***************************************************************************)
CancelRead(r, op) ==
    /\ at(r, "idle")
    /\ mutable(record, op)
    /\ Mode[op] = "setup" => setup_free
    /\ \E a \in replacement_state(op) \ {"running"} :
           enter(r, [Idle EXCEPT !.at = "cancelling", !.op = op,
                                 !.inactive = a = "gone", !.sidecar = record.sidecar])
    /\ UNCHANGED <<record, machine, active, abandoned, dispatch, sidecar, counters>>

abandons(r) ==
    /\ no_worker(request[r].op)
    /\ cancel_ok(record, request[r].op, request[r].inactive, request[r].sidecar)

CancelCommit(r) ==
    /\ at(r, "cancelling")
    /\ IF abandons(r)
       THEN record' = cancelled(record) /\ abandoned' = abandoned \cup {request[r].op}
       ELSE UNCHANGED <<record, abandoned>>
    /\ enter(r, Idle)
    /\ UNCHANGED <<machine, active, dispatch, sidecar, counters>>

\* return_to_running_build: a failed upgrade gives way to the known-good build
\* that still runs; the new operation is a Start of its own.
ReturnToRunning(op) ==
    /\ Mode[op] = "upgrade"
    /\ mutable(record, op) /\ record.stage = "failed_recoverable"
    /\ ems = known_good /\ ems # Target[op]
    /\ record' = cancelled(record)
    /\ UNCHANGED <<machine, process, sidecar, counters>>

RequestStep(r) ==
    \/ ResumeProbe(r) \/ ResumeRecord(r)
    \/ ImportClaim(r) \/ ImportEnd(r)
    \/ JobClaim(r) \/ DeployWorker(r)
    \/ Deployed(r) \/ DeployFailed(r) \/ FinishEms(r)
    \/ HealthPassed(r) \/ HealthFailed(r) \/ IdentityChecked(r)
    \/ RecordKnownGood(r) \/ Complete(r)
    \/ Recover(r) \/ CancelCommit(r)

RequestBegin(r, op) ==
    \/ ResumeMismatch(r, op) \/ ImportBegin(r, op) \/ JobBegin(r, op)
    \/ DeployClaim(r, op) \/ RecoverBegin(r, op) \/ CancelRead(r, op)

SidecarStep(op) ==
    \/ SidecarClaim(op) \/ SidecarRead(op) \/ SidecarFails(op)
    \/ SidecarRecreates(op) \/ SidecarGone(op)

DispatchStep(op) == DispatchCommit(op) \/ Launch(op)

Next ==
    \/ AdminRestarts
    \/ Expire
    \/ \E op \in Operations :
           \/ Start(op) \/ DispatchOwn(op) \/ Retry(op) \/ DispatchStep(op)
           \/ SidecarStep(op) \/ ResumeAligned(op) \/ BeginEms(op) \/ ReturnToRunning(op)
    \/ \E r \in Requests : RequestStep(r)
    \/ \E r \in Requests, op \in Operations : RequestBegin(r, op)

Spec == Init /\ [][Next]_vars

\* Threads, the sidecar and a dispatch run on; time passes; and the operator
\* asks to abandon, again and again, while status shows no live worker.
Fairness ==
    /\ WF_vars(Expire)
    /\ \A r \in Requests : WF_vars(RequestStep(r)) /\ SF_vars(CancelCommit(r) /\ abandons(r))
    /\ \A op \in Operations :
           /\ WF_vars(DispatchStep(op)) /\ WF_vars(SidecarStep(op))
           /\ SF_vars(\E r \in Requests : no_worker(op) /\ CancelRead(r, op))

FairSpec == Spec /\ Fairness

(***************************************************************************)
(* Properties.                                                             *)
(***************************************************************************)
\* Every variable has its type and the record on disk can be parsed again.
TypeOK ==
    /\ record \in Records /\ parses(record)
    /\ started \subseteq Operations
    /\ known_good \in Builds /\ admin \in Builds /\ ems \in Builds
    /\ active \in [Operations -> SUBSET Requests]
    /\ abandoned \subseteq Operations
    /\ dispatch \in [Operations -> {"none", "commit", "launch"}]
    /\ sidecar \in [Operations -> {"none", "started", "claimed", "working", "recreated"}]
    /\ request \in [Requests -> RequestStates]
    /\ attempts \in 0..MaxAttempts /\ restarts \in 0..MaxRestarts
    /\ healthy \subseteq Builds
    /\ orchestrator \in [Operations -> Builds]

mutating(r) == request[r].at \in {"importing", "deploying"}

\* The setup workflow's claim keeps deployments apart: two workers never run
\* pull and compose up side by side, whatever restarts, retries, recoveries
\* by the resume route and new operations came between.
OneDeployment ==
    \A r, s \in Requests : at(r, "deploying") /\ at(s, "deploying") => r = s

\* Abandoning never happens underneath a worker that changes the
\* installation, and none starts afterwards (OperationCoordinator.abandon).
NoWorkerAfterCancel ==
    \A r \in Requests :
        mutating(r) => /\ request[r].op \notin abandoned
                       /\ ~ (record.op = request[r].op /\ record.stage = "cancelled")

\* The known-good build was seen healthy while its EMS ran, though verdict,
\* identity check and known-good write are separate steps, between which an
\* operation may give way to another, which deploys its own (finish_healthcheck).
\* This is the claim for setups; among guided upgrades that keep the Admin the code
\* does not have it (README.md).
KnownGoodWasHealthy == known_good \in healthy

\* A transition is completed only with its build recorded as known good: the
\* cross-file order of finish_healthcheck survives a stop between its writes.
\* (A health check of an earlier operation that outlives its deadline could
\* still write over it; this is the claim for the first operation.)
CompletesKnownGood ==
    [][record'.stage = "completed" /\ record.stage # "completed" /\ started = {record.op}
          => known_good = Target[record.op]]_vars

\* No operation is wedged: whatever its workers, its sidecar and the restarts
\* leave behind, an operator who keeps asking to abandon it (PendingTransition-
\* Store.cancel, past the deadline) gets rid of it.
EveryTransitionEnds == is_active(record) ~> ~ is_active(record)

(***************************************************************************)
(* What comments of the code say and the code does not have: README.md     *)
(* names the instance in which TLC refutes each.                           *)
(***************************************************************************)
\* What server.py says of the claim it takes before a deployment: liveness has
\* no registration gap, so a worker deploys only while its transition is
\* active and no other request has ended it.
NoRegistrationGap ==
    \A r \in Requests : at(r, "deploying") => mutable(record, request[r].op)

\* What system_alignment.py says of cancel: a replacement the probe sees
\* running refuses it.  (Past the deadline a request that outlives the TTL
\* would refute it; this is the claim for a live record.)
CancelSparesReplacement ==
    [][record.stage # "cancelled" /\ record'.stage = "cancelled"
          => sidecar[record.op] # "working" \/ record.expired]_vars
=============================================================================
