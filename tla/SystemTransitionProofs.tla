----------------------- MODULE SystemTransitionProofs -----------------------
(***************************************************************************)
(* Proofs about SystemTransition, for any number of builds, operations,    *)
(* request threads, dispatches and restarts.                               *)
(*                                                                         *)
(* Most steps change nothing of the record that a worker relies on         *)
(* (Quiet).  What is left is told apart by who may take it: the setup      *)
(* workflow's one holder (Busy), the one import the record names, and the  *)
(* health check of the operation on record.                                *)
(***************************************************************************)
EXTENDS SystemTransition, TLAPS

\* Where an operation is, or will be once its failure is retried.
Reached(rec) == IF rec.stage = "failed_recoverable" THEN rec.resume ELSE rec.stage

\* The stages from the EMS operation on.
Late == {"ems_operation_pending", "ems_operation_running", "healthcheck_pending",
         "completed", "cancelled"}

Imports(rec) == rec.stage = "admin_aligned" /\ rec.resources = TRUE

\* A record update that no worker relies on.
Quiet(rec, new) ==
    /\ new \in Records /\ parses(new) /\ new.op = rec.op
    /\ new.stage \in TerminalStages \/ rec.stage \in TerminalStages => new.stage = rec.stage
    /\ Reached(rec) \in Late => Reached(new) \in Late
    /\ Imports(rec) => Imports(new)
    /\ Reached(new) \in {"ems_operation_running", "healthcheck_pending"} => Reached(rec) = Reached(new)

\* Every operation anybody works for was started.
Known ==
    /\ record.op \in started \cup {NoOperation}
    /\ \A r \in Requests : ~ at(r, "idle") => request[r].op \in started

\* The known-good build is on record before the last stage is.
RecordedFirst ==
    \A r \in Requests :
        at(r, "recorded") /\ started = {request[r].op} => known_good = Target[request[r].op]

Inv == TypeOK /\ Known /\ RecordedFirst

-----------------------------------------------------------------------------
(***************************************************************************)
(* A setup: all operations are.                                            *)
(***************************************************************************)
EmsWorker(r) == request[r].at \in EmsPoints /\ (request[r].worker = TRUE \/ at(r, "deploy_claimed"))
Busy(r) == EmsWorker(r) \/ at(r, "cancelling")
Deploys(r) == request[r].at \in {"deploy_claimed", "deploying"}

Past(op) == record.op = op => Reached(record) \in Late

\* The setup workflow has one holder.
OneHolder == \A r, s \in Requests : Busy(r) /\ Busy(s) => r = s

\* A setup has no job; the worker that deploys holds the workflow, whoever
\* recovers does not, and imports are over for a holder's operation.
Worker(r) ==
    /\ ~ at(r, "job")
    /\ request[r].at \in {"deploying", "deployed"} => request[r].worker = TRUE
    /\ at(r, "recovering") => request[r].worker = FALSE
    /\ EmsWorker(r) => Past(request[r].op)

\* The import the record names has its claim.
Import(r) ==
    /\ request[r].at \in {"import", "importing"} => request[r].worker = TRUE
    /\ at(r, "import") => r \in active[request[r].op] \/ Past(request[r].op)
    /\ at(r, "importing") => /\ r \in active[request[r].op]
                             /\ record.op = request[r].op /\ Imports(record)
OneImport == \A r, s \in Requests : at(r, "importing") /\ at(s, "importing") => r = s

\* What was abandoned stays so.
Abandoned == \A op \in abandoned : op \in started /\ (record.op = op => record.stage = "cancelled")

NotCancelled(r) ==
    /\ Deploys(r) => ~ (record.op = request[r].op /\ record.stage = "cancelled")
    /\ at(r, "deploying") => request[r].op \notin abandoned

\* Whoever deploys while an operation runs or is checked deploys for it.
OwnDeployment(r) ==
    Deploys(r) => /\ Reached(record) \in {"ems_operation_running", "healthcheck_pending"}
                        => request[r].op = record.op
                  /\ \A s \in Requests : at(s, "probing") /\ request[s].op = record.op
                        => request[r].op = record.op

SetupInv ==
    /\ OneHolder /\ OneImport /\ Abandoned
    /\ \A r \in Requests : Worker(r) /\ Import(r) /\ NotCancelled(r) /\ OwnDeployment(r)

-----------------------------------------------------------------------------
(***************************************************************************)
(* The known-good build.                                                   *)
(***************************************************************************)

\* Nobody deploys another build over one that is being checked.
Compatible ==
    \A w \in Requests : Deploys(w) =>
        /\ record.op \in Operations /\ Reached(record) \in {"ems_operation_running", "healthcheck_pending"}
              => Target[request[w].op] = Target[record.op]
        /\ \A r \in Requests : \/ at(r, "probing") /\ request[r].op = record.op
                               \/ at(r, "deployed")
              => Target[request[w].op] = Target[request[r].op]

Checked(r) ==
    /\ at(r, "deployed") => ems = Target[request[r].op]
    /\ at(r, "probing") /\ request[r].op = record.op => ems = Target[request[r].op]
    /\ at(r, "passed") /\ request[r].op = record.op => Target[request[r].op] \in healthy
    /\ at(r, "matched") => Target[request[r].op] \in healthy

HealthInv ==
    /\ KnownGoodWasHealthy
    /\ record.op \in Operations /\ Reached(record) = "healthcheck_pending" => ems = Target[record.op]
    /\ \A r \in Requests : Checked(r)

-----------------------------------------------------------------------------
(***************************************************************************)
(* The updates of the record.                                              *)
(***************************************************************************)

LEMMA RecoveryFacts ==
    ASSUME NEW s, NEW t, <<s, t>> \in Recovery
    PROVE  /\ s \in Stages \ {"failed_recoverable", "completed", "cancelled"}
           /\ t \in {"admin_update_pending", "admin_aligned", "resources_verified",
                     "ems_operation_pending", "healthcheck_pending"}
           /\ s \in {"ems_operation_pending", "ems_operation_running", "healthcheck_pending"}
              => t \in {"ems_operation_pending", "healthcheck_pending"}
           /\ t = "healthcheck_pending" => s = "healthcheck_pending"
           /\ s = "admin_aligned" <=> t = "admin_aligned"
BY DEF Recovery, Stages

LEMMA ReachedFacts ==
    ASSUME NEW rec \in Records, parses(rec)
    PROVE  /\ rec.stage = "failed_recoverable" => <<rec.failed, rec.resume>> \in Recovery
           /\ rec.stage # "failed_recoverable" => rec.failed = NoStage /\ rec.resume = NoStage
           /\ rec.stage \in TerminalStages => Reached(rec) = rec.stage
           /\ Imports(rec) => Reached(rec) = "admin_aligned"
BY DEF parses, Reached, TerminalStages, Imports

LEMMA QuietSame ==
    ASSUME NEW rec \in Records, parses(rec)
    PROVE  Quiet(rec, rec)
BY DEF Quiet

\* A forward edge that no worker takes.
LEMMA QuietAdvanced ==
    ASSUME NEW rec \in Records, parses(rec), NEW to,
           \/ /\ rec.stage \in {"admin_update_pending", "admin_reconnect_pending"}
              /\ to = "admin_reconnect_pending"
           \/ rec.stage = "admin_reconnect_pending" /\ to = "admin_aligned"
           \/ rec.stage = "resources_verified" /\ to = "ems_operation_pending"
    PROVE  Quiet(rec, advanced(rec, to))
<1> DEFINE new == advanced(rec, to)
<1>1. to \in Stages /\ to # "failed_recoverable" /\ rec.stage # "failed_recoverable"
    BY DEF Stages
<1>2. /\ new \in Records /\ new.op = rec.op /\ new.stage = to
      /\ new.failed = rec.failed /\ new.resume = rec.resume
    BY <1>1 DEF advanced, Records
<1> HIDE DEF new
<1>3. parses(new)
    BY <1>1, <1>2 DEF parses
<1>4. Reached(rec) = rec.stage /\ Reached(new) = to
    BY <1>1, <1>2 DEF Reached
<1>5. QED
    BY <1>2, <1>3, <1>4 DEF Quiet, TerminalStages, Late, Imports, new

\* mark_failed: the failure resumes at or before the stage that failed.
LEMMA QuietFailed ==
    ASSUME NEW rec \in Records, parses(rec), NEW op, NEW resume \in Stages,
           resume # "admin_aligned" \/ ~ Imports(rec)
    PROVE  Quiet(rec, failed_if_ok(rec, op, resume))
<1> DEFINE new == marked_failed(rec, resume)
<1>1. CASE ~ mark_failed_ok(rec, op, resume)
    BY <1>1, QuietSame DEF failed_if_ok
<1>2. CASE mark_failed_ok(rec, op, resume)
    <2>1. <<rec.stage, resume>> \in Recovery
        BY <1>2 DEF mark_failed_ok
    <2>2. rec.stage \in Stages /\ "failed_recoverable" \in Stages
        BY <2>1, RecoveryFacts DEF Stages
    <2>3. /\ new \in Records /\ new.op = rec.op /\ new.stage = "failed_recoverable"
          /\ new.failed = rec.stage /\ new.resume = resume
        BY <2>2 DEF marked_failed, Records
    <2> HIDE DEF new
    <2>4. parses(new)
        BY <2>1, <2>3 DEF parses
    <2>5. Reached(new) = resume /\ Reached(rec) = rec.stage
        BY <2>1, <2>3, RecoveryFacts DEF Reached
    <2>6. ~ Imports(rec)
        BY <2>1, RecoveryFacts DEF Imports
    <2>7. Reached(rec) \in Late => Reached(new) \in Late
        BY <2>1, <2>5, RecoveryFacts DEF Late
    <2>8. Reached(new) \in {"ems_operation_running", "healthcheck_pending"} => Reached(rec) = Reached(new)
        BY <2>1, <2>5, RecoveryFacts
    <2>9. rec.stage \notin TerminalStages /\ new.stage \notin TerminalStages
        BY <2>1, <2>3, RecoveryFacts DEF TerminalStages
    <2>10. QED
        BY <1>2, <2>3, <2>4, <2>6, <2>7, <2>8, <2>9 DEF Quiet, failed_if_ok, new
<1>3. QED
    BY <1>1, <1>2

\* retry: the record is reopened where its failure resumes.
LEMMA QuietRetried ==
    ASSUME NEW rec \in Records, parses(rec), NEW op, retry_ok(rec, op)
    PROVE  Quiet(rec, retried(rec)) /\ retried(rec).stage = Reached(rec)
<1> DEFINE n == IF rec.resume = "admin_update_pending" THEN 0 ELSE rec.sidecar
           b == rec.resume # "admin_aligned" /\ rec.resources
           new == [rec EXCEPT !.stage = rec.resume, !.failed = NoStage, !.resume = NoStage,
                              !.sidecar = n, !.resources = b]
<1>1. retried(rec) = new
    BY DEF retried
<1>2. rec.stage = "failed_recoverable" /\ <<rec.failed, rec.resume>> \in Recovery
    BY DEF retry_ok, parses
<1>3. n \in Nat /\ rec.resume \in Stages
    BY <1>2, RecoveryFacts DEF Records, Stages
<1>4. b \in BOOLEAN
    BY Zenon
<1> HIDE DEF n, b
<1>5. /\ new \in Records /\ new.op = rec.op /\ new.stage = rec.resume
      /\ new.failed = NoStage /\ new.resume = NoStage
    BY <1>3, <1>4 DEF Records
<1> HIDE DEF new
<1>6. rec.resume \in {"admin_update_pending", "admin_aligned", "resources_verified",
                      "ems_operation_pending", "healthcheck_pending"}
    BY <1>2, RecoveryFacts
<1>7. parses(new) /\ Reached(new) = rec.resume /\ Reached(rec) = rec.resume
    BY <1>2, <1>5, <1>6 DEF parses, Reached
<1>8. ~ Imports(rec)
    BY <1>2 DEF Imports
<1>9. QED
    BY <1>1, <1>2, <1>5, <1>6, <1>7, <1>8 DEF Quiet, TerminalStages

\* A field no worker reads.
LEMMA QuietFields ==
    ASSUME NEW rec \in Records, parses(rec), NEW n \in Nat
    PROVE  Quiet(rec, [rec EXCEPT !.sidecar = n]) /\ Quiet(rec, [rec EXCEPT !.expired = TRUE])
<1>1. ASSUME NEW new \in Records, new.op = rec.op, new.stage = rec.stage, new.failed = rec.failed,
             new.resume = rec.resume, new.resources = rec.resources
      PROVE  Quiet(rec, new)
    BY <1>1 DEF Quiet, parses, Reached, Imports
<1> DEFINE s == [rec EXCEPT !.sidecar = n]
           e == [rec EXCEPT !.expired = TRUE]
<1>2. /\ s \in Records /\ s.op = rec.op /\ s.stage = rec.stage /\ s.failed = rec.failed
      /\ s.resume = rec.resume /\ s.resources = rec.resources
    BY DEF Records
<1>3. TRUE \in BOOLEAN
    BY Zenon
<1>4. /\ e \in Records /\ e.op = rec.op /\ e.stage = rec.stage /\ e.failed = rec.failed
      /\ e.resume = rec.resume /\ e.resources = rec.resources
    BY <1>3 DEF Records
<1> HIDE DEF s, e
<1>5. QED
    BY <1>1, <1>2, <1>4 DEF s, e

\* Any forward edge, a worker's included.
LEMMA AdvancedFacts ==
    ASSUME NEW rec \in Records, parses(rec), rec.stage # "failed_recoverable",
           NEW to \in Stages, to # "failed_recoverable"
    PROVE  LET new == advanced(rec, to)
           IN  /\ new \in Records /\ parses(new) /\ new.op = rec.op
               /\ new.stage = to /\ Reached(new) = to /\ Reached(rec) = rec.stage
<1> DEFINE new == advanced(rec, to)
<1>1. /\ new \in Records /\ new.op = rec.op /\ new.stage = to
      /\ new.failed = rec.failed /\ new.resume = rec.resume
    BY DEF advanced, Records
<1> HIDE DEF new
<1>2. QED
    BY <1>1 DEF parses, Reached, new

LEMMA CancelledFacts ==
    ASSUME NEW rec \in Records
    PROVE  LET new == cancelled(rec)
           IN  /\ new \in Records /\ parses(new) /\ new.op = rec.op
               /\ new.stage = "cancelled" /\ Reached(new) = "cancelled"
<1> DEFINE new == cancelled(rec)
<1>1. "cancelled" \in Stages
    BY DEF Stages
<1>2. /\ new \in Records /\ new.op = rec.op /\ new.stage = "cancelled"
      /\ new.failed = NoStage /\ new.resume = NoStage
    BY <1>1 DEF cancelled, Records
<1> HIDE DEF new
<1>3. QED
    BY <1>2 DEF parses, Reached, new

LEMMA BegunFacts ==
    ASSUME NEW op \in Operations, NEW stage \in {"admin_aligned", "admin_update_pending"}
    PROVE  LET new == begun(op, stage)
           IN  /\ new \in Records /\ parses(new) /\ new.op = op
               /\ new.stage = stage /\ Reached(new) = stage
<1> DEFINE new == begun(op, stage)
<1>1. stage \in Stages /\ stage # "failed_recoverable"
    BY DEF Stages
<1>2. FALSE \in BOOLEAN
    BY Zenon
<1>3. NoTransition \in Records
    BY <1>2 DEF NoTransition, Records
<1>4. /\ new \in Records /\ new.op = op /\ new.stage = stage
      /\ new.failed = NoStage /\ new.resume = NoStage
    BY <1>1, <1>3 DEF begun, Records, NoTransition
<1> HIDE DEF new
<1>5. QED
    BY <1>1, <1>4 DEF parses, Reached, new

\* The threads, as they begin.
Asking(p, op)  == [Idle EXCEPT !.at = p, !.op = op]
Working(p, op) == [Idle EXCEPT !.at = p, !.op = op, !.worker = TRUE]
Cancelling(op, gone, n) ==
    [Idle EXCEPT !.at = "cancelling", !.op = op, !.inactive = gone, !.sidecar = n]

LEMMA IdleType == Idle \in RequestStates
<1>1. FALSE \in BOOLEAN
    BY Zenon
<1>2. "idle" \in Points
    BY DEF Points
<1>3. QED
    BY <1>1, <1>2 DEF Idle, RequestStates

LEMMA AskingFacts ==
    \A p \in Points, op \in Operations :
        /\ Asking(p, op) \in RequestStates
        /\ Asking(p, op).at = p
        /\ Asking(p, op).op = op
        /\ Asking(p, op).worker = FALSE
BY IdleType DEF Idle, RequestStates, Asking

LEMMA WorkingFacts ==
    \A p \in Points, op \in Operations :
        /\ Working(p, op) \in RequestStates
        /\ Working(p, op).at = p
        /\ Working(p, op).op = op
        /\ Working(p, op).worker = TRUE
<1>1. TRUE \in BOOLEAN
    BY Zenon
<1>2. QED
    BY <1>1, IdleType DEF Idle, RequestStates, Working

LEMMA CancelFacts ==
    ASSUME NEW op \in Operations, NEW gone \in BOOLEAN, NEW n \in Nat
    PROVE  /\ Cancelling(op, gone, n) \in RequestStates /\ Cancelling(op, gone, n).at = "cancelling"
           /\ Cancelling(op, gone, n).op = op
<1>1. FALSE \in BOOLEAN
    BY Zenon
<1>2. "cancelling" \in Points
    BY DEF Points
<1>3. QED
    BY <1>1, <1>2 DEF Idle, RequestStates, Cancelling

LEMMA IdleRequest == Idle \in RequestStates /\ Idle.at = "idle"
<1>1. FALSE \in BOOLEAN
    BY Zenon
<1>2. QED
    BY <1>1 DEF Idle, RequestStates, Points

LEMMA MoveFacts ==
    ASSUME NEW s \in RequestStates, NEW p \in Points
    PROVE  /\ [s EXCEPT !.at = p] \in RequestStates /\ [s EXCEPT !.at = p].at = p
           /\ [s EXCEPT !.at = p].op = s.op /\ [s EXCEPT !.at = p].worker = s.worker
BY DEF RequestStates

\* What a worker gives back: its own claim, or with the last store write of a
\* setup every claim of its operation.
Kept(r) ==
    \A op \in Operations, q \in Requests \ {r} :
        q \in active[op] /\ q \notin active'[op]
        => op = request[r].op /\ at(r, "recorded") /\ request[r].worker = TRUE

LEMMA ReleaseFacts ==
    ASSUME TypeOK, NEW r \in Requests, release(r), request[r].worker => request[r].op \in Operations
    PROVE  active' \in [Operations -> SUBSET Requests] /\ Kept(r)
<1>1. CASE ~ request[r].worker
    <2>1. active' = active /\ active \in [Operations -> SUBSET Requests]
        BY <1>1 DEF release, TypeOK
    <2>2. QED
        BY <2>1 DEF Kept
<1>2. CASE request[r].worker
    <2> DEFINE o == request[r].op
               left == IF Mode[o] = "setup" /\ at(r, "recorded") THEN {} ELSE active[o] \ {r}
    <2>1. active' = [active EXCEPT ![o] = left] /\ o \in Operations
        BY <1>2 DEF release
    <2>2. left \subseteq active[o] /\ \A q : q # r /\ q \in active[o] /\ q \notin left => at(r, "recorded")
        OBVIOUS
    <2>3. active \in [Operations -> SUBSET Requests] /\ request[r].worker = TRUE
        BY <1>2 DEF TypeOK, RequestStates
    <2> HIDE DEF left, o
    <2>4. active' \in [Operations -> SUBSET Requests]
        BY <2>1, <2>2, <2>3
    <2>5. QED
        BY <2>1, <2>2, <2>3, <2>4 DEF o, Kept
<1>3. QED
    BY <1>1, <1>2

LEMMA MoveRequest ==
    ASSUME TypeOK, NEW r \in Requests, NEW p \in Points, move(r, p)
    PROVE  /\ request' \in [Requests -> RequestStates]
           /\ request'[r].at = p /\ request'[r].op = request[r].op /\ request'[r].worker = request[r].worker
           /\ \A q \in Requests \ {r} : request'[q] = request[q]
<1>1. request' = [request EXCEPT ![r] = [request[r] EXCEPT !.at = p]]
    BY DEF move
<1>2. request \in [Requests -> RequestStates]
    BY DEF TypeOK
<1>3. [request[r] EXCEPT !.at = p] \in RequestStates
    BY <1>2, MoveFacts
<1>4. request'[r] = [request[r] EXCEPT !.at = p] /\ \A q \in Requests \ {r} : request'[q] = request[q]
    BY <1>1, <1>2
<1>5. request' \in [Requests -> RequestStates]
    BY <1>1, <1>2, <1>3
<1>6. QED
    BY <1>2, <1>4, <1>5, MoveFacts

LEMMA EnterRequest ==
    ASSUME TypeOK, NEW r \in Requests, NEW s \in RequestStates, enter(r, s)
    PROVE  /\ request' \in [Requests -> RequestStates] /\ request'[r] = s
           /\ \A q \in Requests \ {r} : request'[q] = request[q]
BY DEF enter, TypeOK

-----------------------------------------------------------------------------
(***************************************************************************)
(* Steps by what they leave alone.                                         *)
(***************************************************************************)

\* The record moves, and nobody who works on the machine takes notice.
QuietStep ==
    /\ TypeOK' /\ Quiet(record, record')
    /\ UNCHANGED <<started, active, abandoned, request, known_good, ems, healthy>>

LEMMA QuietActions ==
    ASSUME TypeOK, NEW op,
           \/ Expire \/ DispatchOwn(op) \/ Retry(op) \/ DispatchStep(op)
           \/ SidecarClaim(op) \/ SidecarRead(op) \/ SidecarFails(op) \/ SidecarGone(op)
           \/ ResumeAligned(op) \/ BeginEms(op)
    PROVE  QuietStep
<1>1. UNCHANGED <<started, active, abandoned, request, known_good, ems, healthy, admin, restarts, orchestrator>>
    BY DEF Expire, DispatchOwn, Retry, DispatchStep, DispatchCommit, Launch, SidecarClaim, SidecarRead,
       SidecarFails, SidecarGone, ResumeAligned, BeginEms, machine, process, counters
<1>2. record \in Records /\ parses(record) /\ Quiet(record, record)
    BY QuietSame DEF TypeOK
<1>3. attempts' \in 0..MaxAttempts
    BY TransitionAssumption
       DEF Expire, DispatchOwn, Retry, DispatchStep, DispatchCommit, Launch, SidecarClaim, SidecarRead,
       SidecarFails, SidecarGone, ResumeAligned, BeginEms, machine, process, counters, TypeOK
<1>4. dispatch' \in [Operations -> {"none", "commit", "launch"}]
    <2>1. CASE DispatchOwn(op) \/ Retry(op)
        BY <2>1 DEF DispatchOwn, Retry, TypeOK
    <2>2. CASE DispatchStep(op)
        BY <2>2 DEF DispatchStep, DispatchCommit, Launch, TypeOK
    <2>3. CASE Expire \/ ResumeAligned(op) \/ BeginEms(op)
        BY <2>3 DEF Expire, ResumeAligned, BeginEms, process, TypeOK
    <2>4. CASE SidecarClaim(op) \/ SidecarRead(op) \/ SidecarFails(op) \/ SidecarGone(op)
        BY <2>4 DEF SidecarClaim, SidecarRead, SidecarFails, SidecarGone, process, TypeOK
    <2>5. QED
        BY <2>1, <2>2, <2>3, <2>4
<1>5. sidecar' \in [Operations -> {"none", "started", "claimed", "working", "recreated"}]
    <2>1. CASE DispatchOwn(op) \/ Retry(op) \/ DispatchCommit(op) \/ Expire \/ ResumeAligned(op) \/ BeginEms(op)
        BY <2>1 DEF DispatchOwn, Retry, DispatchCommit, Expire, ResumeAligned, BeginEms, TypeOK
    <2>2. CASE Launch(op)
        <3>1. sidecar' = sidecar \/ sidecar' = [sidecar EXCEPT ![op] = "started"]
            BY <2>2 DEF Launch
        <3>2. QED
            BY <3>1 DEF TypeOK
    <2>3. CASE SidecarClaim(op) \/ SidecarRead(op) \/ SidecarFails(op) \/ SidecarGone(op)
        BY <2>3 DEF SidecarClaim, SidecarRead, SidecarFails, SidecarGone, sidecar_moves, TypeOK
    <2>4. QED
        BY <2>1, <2>2, <2>3 DEF DispatchStep
<1>6. Quiet(record, record')
    <2>1. CASE Expire
        BY <1>2, <2>1, QuietFields DEF Expire
    <2>2. CASE Retry(op)
        BY <1>2, <2>2, QuietRetried DEF Retry
    <2>3. CASE DispatchCommit(op)
        <3>1. CASE UNCHANGED record
            BY <1>2, <3>1
        <3>2. CASE /\ advance_ok(record, op, "admin_update_pending", "admin_reconnect_pending")
                   /\ record' = advanced(record, "admin_reconnect_pending")
            BY <1>2, <3>2, QuietAdvanced DEF advance_ok
        <3>3. QED
            BY <2>3, <3>1, <3>2 DEF DispatchCommit
    <2>4. CASE Launch(op) \/ SidecarFails(op)
        <3>1. record' = record \/ record' = failed_if_ok(record, op, "admin_update_pending")
            BY <2>4 DEF Launch, SidecarFails
        <3>2. QED
            BY <1>2, <3>1, QuietFailed DEF Stages
    <2>5. CASE SidecarClaim(op)
        <3>1. attempts \in Nat
            BY TransitionAssumption DEF TypeOK
        <3>2. QED
            BY <1>2, <2>5, <3>1, QuietFields DEF SidecarClaim
    <2>6. CASE ResumeAligned(op)
        BY <1>2, <2>6, QuietAdvanced DEF ResumeAligned
    <2>7. CASE BeginEms(op)
        BY <1>2, <2>7, QuietAdvanced DEF BeginEms
    <2>8. CASE DispatchOwn(op) \/ SidecarRead(op) \/ SidecarGone(op)
        BY <1>2, <2>8 DEF DispatchOwn, SidecarRead, SidecarGone
    <2>9. QED
        BY <2>1, <2>2, <2>3, <2>4, <2>5, <2>6, <2>7, <2>8 DEF DispatchStep
<1>7. TypeOK'
    BY <1>1, <1>3, <1>4, <1>5, <1>6 DEF TypeOK, Quiet
<1>8. QED
    BY <1>1, <1>6, <1>7 DEF QuietStep

\* The process ends with all its threads.
EndStep ==
    /\ TypeOK' /\ Quiet(record, record')
    /\ UNCHANGED <<started, known_good, ems, healthy>>
    /\ abandoned' = {} /\ \A r \in Requests : request'[r] = Idle

LEMMA EndActions ==
    ASSUME TypeOK, NEW op, AdminRestarts \/ (op \in Operations /\ SidecarRecreates(op))
    PROVE  EndStep
<1>1. process_ends /\ UNCHANGED <<started, known_good, ems, healthy, attempts, orchestrator>>
    BY DEF AdminRestarts, SidecarRecreates, machine, counters
<1>2. /\ active' \in [Operations -> SUBSET Requests] /\ abandoned' = {}
      /\ dispatch' \in [Operations -> {"none", "commit", "launch"}]
      /\ request' = [r \in Requests |-> Idle]
    BY <1>1 DEF process_ends
<1>3. request' \in [Requests -> RequestStates]
    BY <1>2, IdleRequest
<1>4. Quiet(record, record')
    <2>1. record' = record \/ record' = failed_if_ok(record, op, "admin_update_pending")
        BY DEF AdminRestarts, SidecarRecreates
    <2>2. QED
        BY <2>1, QuietSame, QuietFailed DEF Stages, TypeOK
<1>5. /\ sidecar' \in [Operations -> {"none", "started", "claimed", "working", "recreated"}]
      /\ admin' \in Builds /\ restarts' \in 0..MaxRestarts
    BY TransitionAssumption DEF AdminRestarts, SidecarRecreates, sidecar_moves, machine, counters, TypeOK
<1>6. TypeOK'
    BY <1>1, <1>2, <1>3, <1>4, <1>5 DEF TypeOK, Quiet
<1>7. QED
    BY <1>1, <1>2, <1>4, <1>6 DEF EndStep

\* What the worker or request r leaves alone when it comes to rest.
Resting == {"idle", "mismatch", "recording", "recovering"}
CalmStep(r) ==
    /\ TypeOK' /\ Quiet(record, record')
    /\ UNCHANGED <<started, abandoned, known_good, healthy>>
    /\ ems' = ems \/ (at(r, "deploying") /\ ems' = Target[request[r].op])
    /\ request'[r].at \in Resting
    /\ request'[r].at # "idle" => request'[r].op \in started
    /\ request'[r].at = "recovering" => request'[r].worker = FALSE
    /\ \A q \in Requests \ {r} : request'[q] = request[q]
    /\ Kept(r)

LEMMA WorkingFor ==
    ASSUME Inv, NEW r \in Requests, ~ at(r, "idle")
    PROVE  request[r].op \in Operations /\ request[r].op \in started
BY DEF Inv, Known, TypeOK

\* A thread that ends.
LEMMA FinishCalm ==
    ASSUME Inv, NEW r \in Requests, ~ at(r, "idle"), finish(r), Quiet(record, record'),
           ems' = ems \/ (at(r, "deploying") /\ ems' = Target[request[r].op]),
           UNCHANGED <<known_good, admin, healthy, abandoned, dispatch, sidecar, counters>>
    PROVE  CalmStep(r)
<1>1. TypeOK /\ request[r].op \in Operations
    BY WorkingFor DEF Inv
<1>2. request' \in [Requests -> RequestStates] /\ request'[r] = Idle
      /\ \A q \in Requests \ {r} : request'[q] = request[q]
    BY <1>1, EnterRequest, IdleRequest DEF finish
<1>3. active' \in [Operations -> SUBSET Requests] /\ Kept(r)
    BY <1>1, ReleaseFacts DEF finish
<1>4. TypeOK'
    BY <1>1, <1>2, <1>3, TransitionAssumption DEF TypeOK, Quiet, counters
<1>5. QED
    BY <1>2, <1>3, <1>4, IdleRequest DEF CalmStep, Resting, counters

\* A thread that only asks.
LEMMA EnterCalm ==
    ASSUME Inv, NEW r \in Requests, NEW s \in RequestStates, enter(r, s), s.at \in Resting,
           s.at # "idle" => s.op \in started, s.at = "recovering" => s.worker = FALSE,
           Quiet(record, record'),
           UNCHANGED <<machine, active, abandoned, dispatch, sidecar, counters>>
    PROVE  CalmStep(r)
<1>1. TypeOK
    BY DEF Inv
<1>2. request' \in [Requests -> RequestStates] /\ request'[r] = s
      /\ \A q \in Requests \ {r} : request'[q] = request[q]
    BY <1>1, EnterRequest
<1>3. TypeOK'
    BY <1>1, <1>2 DEF TypeOK, Quiet, counters, machine
<1>4. QED
    BY <1>2, <1>3 DEF CalmStep, Kept, counters, machine

LEMMA QuietRecord ==
    ASSUME Inv
    PROVE  /\ record \in Records /\ parses(record) /\ Quiet(record, record)
           /\ \A op : Quiet(record, failed_if_ok(record, op, "admin_update_pending"))
           /\ \A op : Quiet(record, failed_if_ok(record, op, "ems_operation_pending"))
           /\ \A op : Quiet(record, failed_if_ok(record, op, "healthcheck_pending"))
<1>1. record \in Records /\ parses(record)
    BY DEF Inv, TypeOK
<1>2. {"admin_update_pending", "ems_operation_pending", "healthcheck_pending"} \subseteq Stages
    BY DEF Stages
<1>3. QED
    BY <1>1, <1>2, QuietSame, QuietFailed

LEMMA AskingCalm ==
    ASSUME Inv, NEW r \in Requests, NEW op \in Operations,
           ResumeMismatch(r, op) \/ ResumeProbe(r) \/ ResumeRecord(r) \/ RecoverBegin(r, op)
    PROVE  CalmStep(r) /\ ems' = ems
<1>1. ems' = ems
    BY DEF ResumeMismatch, ResumeProbe, ResumeRecord, RecoverBegin, machine
<1>2. Quiet(record, record)
    BY QuietRecord
<1>3. CASE ResumeMismatch(r, op)
    <2>1. /\ Asking("mismatch", op) \in RequestStates /\ Asking("mismatch", op).at = "mismatch"
          /\ Asking("mismatch", op).op = op /\ Asking("mismatch", op).worker = FALSE
        <3>1. "mismatch" \in Points
            BY DEF Points
        <3>2. QED
            BY <3>1, AskingFacts, Zenon
    <2>2. op \in started
        BY <1>3, OperationsAssumption DEF ResumeMismatch, mutable, Inv, Known
    <2>3. /\ enter(r, Asking("mismatch", op)) /\ record' = record
          /\ UNCHANGED <<machine, active, abandoned, dispatch, sidecar, counters>>
        BY <1>3 DEF ResumeMismatch, Asking
    <2>4. QED
        BY <1>1, <1>2, <2>1, <2>2, <2>3, EnterCalm DEF Resting
<1>4. CASE RecoverBegin(r, op)
    <2>1. /\ Asking("recovering", op) \in RequestStates /\ Asking("recovering", op).at = "recovering"
          /\ Asking("recovering", op).op = op /\ Asking("recovering", op).worker = FALSE
        <3>1. "recovering" \in Points
            BY DEF Points
        <3>2. QED
            BY <3>1, AskingFacts, Zenon
    <2>2. op \in started
        BY <1>4, OperationsAssumption DEF RecoverBegin, Inv, Known
    <2>3. /\ enter(r, Asking("recovering", op)) /\ record' = record
          /\ UNCHANGED <<machine, active, abandoned, dispatch, sidecar, counters>>
        BY <1>4 DEF RecoverBegin, Asking
    <2>4. QED
        BY <1>1, <1>2, <2>1, <2>2, <2>3, EnterCalm DEF Resting
<1>5. CASE ResumeProbe(r)
    <2>1. CASE enter(r, Idle)
        BY <1>1, <1>2, <1>5, <2>1, EnterCalm, IdleRequest DEF ResumeProbe, Resting
    <2>2. CASE move(r, "recording")
        <3> DEFINE s == [request[r] EXCEPT !.at = "recording"]
        <3>1. s \in RequestStates /\ s.at = "recording" /\ s.op = request[r].op
            BY MoveFacts DEF Inv, TypeOK, Points
        <3>2. request[r].op \in started
            BY <1>5, WorkingFor DEF ResumeProbe, at
        <3>3. enter(r, s)
            BY <2>2 DEF move, enter
        <3> HIDE DEF s
        <3>4. QED
            BY <1>1, <1>2, <1>5, <3>1, <3>2, <3>3, EnterCalm DEF ResumeProbe, Resting
    <2>3. QED
        BY <1>5, <2>1, <2>2 DEF ResumeProbe
<1>6. CASE ResumeRecord(r)
    <2>1. Quiet(record, record')
        BY <1>6, QuietRecord DEF ResumeRecord
    <2>2. QED
        BY <1>1, <1>6, <2>1, EnterCalm, IdleRequest DEF ResumeRecord, Resting
<1>7. QED
    BY <1>3, <1>4, <1>5, <1>6

\* A worker on its way.
Moves(r, p) ==
    /\ TypeOK'
    /\ request'[r].at = p /\ request'[r].op = request[r].op /\ request'[r].worker = request[r].worker
    /\ \A q \in Requests \ {r} : request'[q] = request[q]
    /\ UNCHANGED <<started, abandoned, active>>

\* A thread that begins.
Begins(r, p, op, worker) ==
    /\ TypeOK'
    /\ request'[r].at = p /\ request'[r].op = op /\ request'[r].worker = worker
    /\ \A q \in Requests \ {r} : request'[q] = request[q]
    /\ \A o \in Operations : active[o] \subseteq active'[o]
    /\ UNCHANGED <<started, abandoned, known_good, ems, healthy>>

\* A thread that ends with a write others take notice of.
Rests(r) ==
    /\ TypeOK' /\ record'.op = record.op
    /\ request'[r].at = "idle"
    /\ \A q \in Requests \ {r} : request'[q] = request[q]
    /\ Kept(r)
    /\ UNCHANGED <<started, known_good, ems, healthy>>

\* The record takes an edge for op.
Takes(op, from, to) ==
    /\ record.op = op /\ record.stage = from /\ Reached(record) = from
    /\ record'.op = op /\ record'.stage = to /\ Reached(record') = to

LEMMA PointsFacts == WorkerPoints \subseteq Points
BY DEF Points

LEMMA MoveStep ==
    ASSUME Inv, NEW r \in Requests, NEW p \in WorkerPoints, move(r, p),
           record' \in Records, parses(record'), known_good' \in Builds, ems' \in Builds, healthy' \subseteq Builds,
           UNCHANGED <<admin, active, abandoned, dispatch, sidecar, counters>>
    PROVE  Moves(r, p)
<1>1. TypeOK /\ p \in Points
    BY PointsFacts DEF Inv
<1>2. /\ request' \in [Requests -> RequestStates]
      /\ request'[r].at = p /\ request'[r].op = request[r].op /\ request'[r].worker = request[r].worker
      /\ \A q \in Requests \ {r} : request'[q] = request[q]
    BY <1>1, MoveRequest
<1>3. TypeOK'
    BY <1>1, <1>2 DEF TypeOK, counters
<1>4. QED
    BY <1>2, <1>3 DEF Moves, counters

LEMMA RestStep ==
    ASSUME Inv, NEW r \in Requests, ~ at(r, "idle"), finish(r),
           record' \in Records, parses(record'), record'.op = record.op,
           UNCHANGED <<machine, abandoned, dispatch, sidecar, counters>>
    PROVE  Rests(r) /\ UNCHANGED abandoned
<1>1. TypeOK /\ request[r].op \in Operations
    BY WorkingFor DEF Inv
<1>2. request' \in [Requests -> RequestStates] /\ request'[r] = Idle
      /\ \A q \in Requests \ {r} : request'[q] = request[q]
    BY <1>1, EnterRequest, IdleRequest DEF finish
<1>3. active' \in [Operations -> SUBSET Requests] /\ Kept(r)
    BY <1>1, ReleaseFacts DEF finish
<1>4. TypeOK'
    BY <1>1, <1>2, <1>3 DEF TypeOK, counters, machine
<1>5. QED
    BY <1>2, <1>3, <1>4, IdleRequest DEF Rests, counters, machine

LEMMA TakesStep ==
    ASSUME Inv, NEW op, NEW from, NEW to, mutable(record, op), <<from, to>> \in Edges, record.stage = from,
           record' = advanced(record, to)
    PROVE  Takes(op, from, to) /\ record' \in Records /\ parses(record')
<1>1. record \in Records /\ parses(record)
    BY DEF Inv, TypeOK
<1>2. from # "failed_recoverable" /\ to # "failed_recoverable" /\ to \in Stages
    BY DEF Edges, Stages
<1>3. QED
    BY <1>1, <1>2, AdvancedFacts DEF Takes, mutable

-----------------------------------------------------------------------------
(***************************************************************************)
(* What each step of a thread comes to.                                    *)
(***************************************************************************)

LEMMA ImportClaimSteps ==
    ASSUME Inv, NEW r \in Requests, ImportClaim(r)
    PROVE  \/ CalmStep(r)
           \/ /\ Moves(r, "importing") /\ at(r, "import") /\ UNCHANGED machine
              /\ Quiet(record, record') /\ record.op = request[r].op
              /\ Reached(record) = "admin_aligned" /\ ~ Imports(record) /\ Imports(record')
<1>1. CASE ~ claim_resource_ok(record, request[r].op)
    BY <1>1, FinishCalm, QuietRecord DEF ImportClaim, at, machine
<1>2. CASE claim_resource_ok(record, request[r].op)
    <2>1. record \in Records /\ parses(record) /\ TRUE \in BOOLEAN
        BY QuietRecord, Zenon
    <2> DEFINE new == [record EXCEPT !.resources = TRUE]
    <2>2. /\ new \in Records /\ new.op = record.op /\ new.stage = record.stage /\ new.failed = record.failed
          /\ new.resume = record.resume /\ new.resources = TRUE
        BY <2>1 DEF Records
    <2>3. record' = new /\ move(r, "importing") /\ at(r, "import") /\ UNCHANGED <<machine, active>>
        BY <1>2 DEF ImportClaim
    <2> HIDE DEF new
    <2>4. record.op = request[r].op /\ record.stage = "admin_aligned" /\ ~ record.resources
        BY <1>2 DEF claim_resource_ok, mutable
    <2>5. Quiet(record, record') /\ Reached(record) = "admin_aligned" /\ ~ Imports(record) /\ Imports(record')
        BY <2>1, <2>2, <2>3, <2>4 DEF Quiet, parses, Reached, Imports
    <2>6. "importing" \in WorkerPoints
        BY DEF WorkerPoints
    <2>7. UNCHANGED <<abandoned, dispatch, sidecar, counters>>
        BY DEF ImportClaim
    <2>8. Moves(r, "importing")
        BY <2>3, <2>5, <2>6, <2>7, MoveStep DEF Quiet, machine, Inv, TypeOK
    <2>9. QED
        BY <2>3, <2>4, <2>5, <2>8
<1>3. QED
    BY <1>1, <1>2

LEMMA ImportEndSteps ==
    ASSUME Inv, NEW r \in Requests, ImportEnd(r)
    PROVE  \/ CalmStep(r)
           \/ /\ Rests(r) /\ UNCHANGED abandoned /\ at(r, "importing")
              /\ record.stage \in {"admin_aligned", "resources_verified"}
              /\ Reached(record') \in {"admin_aligned", "resources_verified"}
              /\ record'.stage \notin TerminalStages
<1>1. /\ at(r, "importing") /\ finish(r) /\ UNCHANGED <<machine, abandoned, dispatch, sidecar, counters>>
    BY DEF ImportEnd
<1>2. record \in Records /\ parses(record) /\ Quiet(record, record)
    BY QuietRecord
<1>3. CASE record' = record
    BY <1>1, <1>2, <1>3, FinishCalm DEF at, machine
<1>4. ASSUME record' \in Records, parses(record'), record'.op = record.op
      PROVE  Rests(r)
    BY <1>1, <1>4, RestStep DEF at
<1>5. CASE /\ advance_ok(record, request[r].op, "admin_aligned", "resources_verified")
           /\ record' = advanced(record, "resources_verified")
    <2>1. record.stage \in {"admin_aligned", "resources_verified"} /\ record.stage # "failed_recoverable"
        BY <1>5 DEF advance_ok
    <2>2. "resources_verified" \in Stages
        BY DEF Stages
    <2>3. QED
        BY <1>1, <1>2, <1>4, <1>5, <2>1, <2>2, AdvancedFacts DEF TerminalStages
<1>6. CASE /\ mark_failed_ok(record, request[r].op, "admin_aligned")
           /\ record' = marked_failed(record, "admin_aligned")
    <2>1. <<record.stage, "admin_aligned">> \in Recovery
        BY <1>6 DEF mark_failed_ok
    <2>2. record.stage = "admin_aligned"
        BY <2>1, RecoveryFacts
    <2> DEFINE new == marked_failed(record, "admin_aligned")
    <2>3. {"admin_aligned", "failed_recoverable"} \subseteq Stages
        BY DEF Stages
    <2>4. /\ new \in Records /\ new.op = record.op /\ new.stage = "failed_recoverable"
          /\ new.failed = record.stage /\ new.resume = "admin_aligned"
        BY <1>2, <2>2, <2>3 DEF marked_failed, Records
    <2>5. record' = new
        BY <1>6
    <2> HIDE DEF new
    <2>6. parses(record') /\ Reached(record') = "admin_aligned"
        BY <2>1, <2>2, <2>4, <2>5 DEF parses, Reached
    <2>7. QED
        BY <1>1, <1>4, <2>2, <2>4, <2>5, <2>6 DEF TerminalStages
<1>7. QED
    BY <1>3, <1>5, <1>6 DEF ImportEnd, failed_if_ok

LEMMA JobClaimSteps ==
    ASSUME Inv, NEW r \in Requests, JobClaim(r)
    PROVE  \/ CalmStep(r)
           \/ /\ Moves(r, "deploying") /\ at(r, "job") /\ UNCHANGED machine
              /\ Takes(request[r].op, "ems_operation_pending", "ems_operation_running")
<1>1. CASE ~ claim_ok(record, request[r].op, "ems_operation_pending", "ems_operation_running")
    BY <1>1, FinishCalm, QuietRecord DEF JobClaim, at, machine
<1>2. CASE claim_ok(record, request[r].op, "ems_operation_pending", "ems_operation_running")
    <2>1. /\ at(r, "job") /\ move(r, "deploying") /\ record' = advanced(record, "ems_operation_running")
          /\ UNCHANGED <<machine, active, abandoned, dispatch, sidecar, counters>>
        BY <1>2 DEF JobClaim
    <2>2. /\ Takes(request[r].op, "ems_operation_pending", "ems_operation_running")
          /\ record' \in Records /\ parses(record')
        BY <1>2, <2>1, TakesStep DEF claim_ok
    <2>3. "deploying" \in WorkerPoints
        BY DEF WorkerPoints
    <2>4. Moves(r, "deploying")
        BY <2>1, <2>2, <2>3, MoveStep DEF machine, Inv, TypeOK
    <2>5. QED
        BY <2>1, <2>2, <2>4
<1>3. QED
    BY <1>1, <1>2

LEMMA DeployWorkerSteps ==
    ASSUME Inv, NEW r \in Requests, DeployWorker(r)
    PROVE  \/ CalmStep(r)
           \/ /\ Begins(r, "deploying", request[r].op, TRUE) /\ at(r, "deploy_claimed")
              /\ request[r].op \notin abandoned /\ record' = record
<1> DEFINE o == request[r].op
<1>1. TypeOK /\ o \in Operations /\ at(r, "deploy_claimed")
    BY WorkingFor DEF Inv, DeployWorker, at
<1>2. CASE ~ claimable(o)
    BY <1>2, EnterCalm, IdleRequest, QuietRecord DEF DeployWorker, Resting
<1>3. CASE claimable(o)
    <2> DEFINE s == [request[r] EXCEPT !.at = "deploying", !.worker = TRUE]
    <2>1. TRUE \in BOOLEAN
        BY Zenon
    <2>2. "deploying" \in Points
        BY DEF Points, WorkerPoints
    <2>3. s \in RequestStates /\ s.at = "deploying" /\ s.op = o /\ s.worker = TRUE
        BY <1>1, <2>1, <2>2 DEF TypeOK, RequestStates
    <2>4. enter(r, s)
        BY <1>3 DEF DeployWorker, enter
    <2> HIDE DEF s
    <2>5. request' \in [Requests -> RequestStates] /\ request'[r] = s
          /\ \A q \in Requests \ {r} : request'[q] = request[q]
        BY <1>1, <2>3, <2>4, EnterRequest
    <2>6. active' = [active EXCEPT ![o] = active[o] \cup {r}]
        BY <1>3 DEF DeployWorker, claim
    <2>7. active' \in [Operations -> SUBSET Requests] /\ \A p \in Operations : active[p] \subseteq active'[p]
        BY <1>1, <2>6 DEF TypeOK
    <2>8. UNCHANGED <<record, machine, abandoned, dispatch, sidecar, counters>>
        BY DEF DeployWorker
    <2>9. TypeOK'
        BY <1>1, <2>5, <2>7, <2>8 DEF TypeOK, machine, counters
    <2>10. QED
        BY <1>1, <1>3, <2>3, <2>5, <2>7, <2>8, <2>9 DEF Begins, claimable, machine, counters
<1>4. QED
    BY <1>2, <1>3

LEMMA DeployedSteps ==
    ASSUME Inv, NEW r \in Requests, Deployed(r)
    PROVE  /\ Moves(r, "deployed") /\ at(r, "deploying") /\ ems' = Target[request[r].op]
           /\ UNCHANGED <<record, known_good, healthy>>
<1>1. request[r].op \in Operations
    BY WorkingFor DEF Deployed, at
<1>2. "deployed" \in WorkerPoints
    BY DEF WorkerPoints
<1>3. QED
    BY <1>1, <1>2, MoveStep, TransitionAssumption DEF Deployed, Inv, TypeOK

LEMMA FailingSteps ==
    ASSUME Inv, NEW r \in Requests, DeployFailed(r) \/ HealthFailed(r)
    PROVE  CalmStep(r)
<1>1. CASE DeployFailed(r)
    BY <1>1, FinishCalm, QuietRecord DEF DeployFailed, at
<1>2. CASE HealthFailed(r)
    BY <1>2, FinishCalm, QuietRecord DEF HealthFailed, at, machine
<1>3. QED
    BY <1>1, <1>2

LEMMA FinishEmsSteps ==
    ASSUME Inv, NEW r \in Requests, FinishEms(r)
    PROVE  \/ CalmStep(r)
           \/ /\ Moves(r, "probing") /\ at(r, "deployed") /\ UNCHANGED machine
              /\ \E from \in {"ems_operation_running", "healthcheck_pending"} :
                    Takes(request[r].op, from, "healthcheck_pending")
<1>1. CASE ~ advance_ok(record, request[r].op, "ems_operation_running", "healthcheck_pending")
    BY <1>1, FinishCalm, QuietRecord DEF FinishEms, at, machine
<1>2. CASE advance_ok(record, request[r].op, "ems_operation_running", "healthcheck_pending")
    <2>1. /\ at(r, "deployed") /\ move(r, "probing") /\ record' = advanced(record, "healthcheck_pending")
          /\ UNCHANGED <<machine, active, abandoned, dispatch, sidecar, counters>>
        BY <1>2 DEF FinishEms
    <2>2. /\ record.op = request[r].op /\ record.stage \in {"ems_operation_running", "healthcheck_pending"}
          /\ record.stage # "failed_recoverable"
        BY <1>2 DEF advance_ok, mutable
    <2>3. record \in Records /\ parses(record) /\ "healthcheck_pending" \in Stages
        BY QuietRecord DEF Stages
    <2>4. /\ record' \in Records /\ parses(record')
          /\ Takes(request[r].op, record.stage, "healthcheck_pending")
        BY <2>1, <2>2, <2>3, AdvancedFacts DEF Takes
    <2>5. "probing" \in WorkerPoints
        BY DEF WorkerPoints
    <2>6. Moves(r, "probing")
        BY <2>1, <2>4, <2>5, MoveStep DEF machine, Inv, TypeOK
    <2>7. QED
        BY <2>1, <2>2, <2>4, <2>6
<1>3. QED
    BY <1>1, <1>2

LEMMA HealthPassedSteps ==
    ASSUME Inv, NEW r \in Requests, HealthPassed(r)
    PROVE  /\ Moves(r, "passed") /\ at(r, "probing") /\ healthy' = healthy \cup {ems}
           /\ UNCHANGED <<record, known_good, ems>>
<1>1. "passed" \in WorkerPoints
    BY DEF WorkerPoints
<1>2. QED
    BY <1>1, MoveStep DEF HealthPassed, Inv, TypeOK

LEMMA IdentityCheckedSteps ==
    ASSUME Inv, NEW r \in Requests, IdentityChecked(r)
    PROVE  \/ CalmStep(r)
           \/ /\ Moves(r, "matched") /\ at(r, "passed") /\ UNCHANGED <<record, machine>>
              /\ record.op = request[r].op
<1> DEFINE o == request[r].op
<1>1. at(r, "passed") /\ UNCHANGED <<machine, abandoned, dispatch, sidecar, counters>>
    BY DEF IdentityChecked
<1>2. CASE ~ (mutable(record, o) /\ record.stage = "healthcheck_pending")
    BY <1>1, <1>2, FinishCalm, QuietRecord DEF IdentityChecked, at, machine
<1>3. CASE mutable(record, o) /\ record.stage = "healthcheck_pending"
    <2>1. \/ move(r, "matched") /\ UNCHANGED <<record, active>>
          \/ /\ \/ record' = failed_if_ok(record, o, "healthcheck_pending")
                \/ record' = failed_if_ok(record, o, "ems_operation_pending")
             /\ finish(r)
        BY <1>3 DEF IdentityChecked, ems_identity
    <2>2. CASE finish(r) /\ \/ record' = failed_if_ok(record, o, "healthcheck_pending")
                            \/ record' = failed_if_ok(record, o, "ems_operation_pending")
        BY <1>1, <2>2, FinishCalm, QuietRecord DEF at, machine
    <2>3. CASE move(r, "matched") /\ UNCHANGED <<record, active>>
        <3>1. "matched" \in WorkerPoints
            BY DEF WorkerPoints
        <3>2. QED
            BY <1>1, <1>3, <2>3, <3>1, MoveStep DEF machine, mutable, Inv, TypeOK
    <2>4. QED
        BY <2>1, <2>2, <2>3
<1>4. QED
    BY <1>2, <1>3

LEMMA RecordKnownGoodSteps ==
    ASSUME Inv, NEW r \in Requests, RecordKnownGood(r)
    PROVE  \/ CalmStep(r)
           \/ /\ Moves(r, "recorded") /\ at(r, "matched") /\ known_good' = Target[request[r].op]
              /\ UNCHANGED <<record, ems, healthy>>
<1>1. request[r].op \in Operations /\ at(r, "matched")
    BY WorkingFor DEF RecordKnownGood, at
<1>2. CASE finish(r) /\ UNCHANGED known_good
    BY <1>1, <1>2, FinishCalm, QuietRecord DEF RecordKnownGood, at
<1>3. CASE known_good' = Target[request[r].op] /\ move(r, "recorded") /\ UNCHANGED active
    <2>1. "recorded" \in WorkerPoints
        BY DEF WorkerPoints
    <2>2. QED
        BY <1>1, <1>3, <2>1, MoveStep, TransitionAssumption DEF RecordKnownGood, Inv, TypeOK
<1>4. QED
    BY <1>2, <1>3 DEF RecordKnownGood

LEMMA CompleteSteps ==
    ASSUME Inv, NEW r \in Requests, Complete(r)
    PROVE  \/ CalmStep(r)
           \/ /\ Rests(r) /\ UNCHANGED abandoned /\ at(r, "recorded")
              /\ Takes(request[r].op, "healthcheck_pending", "completed")
<1>1. at(r, "recorded") /\ finish(r) /\ UNCHANGED <<machine, abandoned, dispatch, sidecar, counters>>
    BY DEF Complete
<1>2. CASE ~ advance_ok(record, request[r].op, "healthcheck_pending", "completed")
    BY <1>1, <1>2, FinishCalm, QuietRecord DEF Complete, at, machine
<1>3. CASE advance_ok(record, request[r].op, "healthcheck_pending", "completed")
    <2>1. record' = advanced(record, "completed")
        BY <1>3 DEF Complete
    <2>2. record.stage = "healthcheck_pending" /\ mutable(record, request[r].op)
        BY <1>3 DEF advance_ok, mutable, is_active, TerminalStages
    <2>3. Takes(request[r].op, "healthcheck_pending", "completed") /\ record' \in Records /\ parses(record')
        BY <2>1, <2>2, TakesStep DEF Edges
    <2>4. QED
        BY <1>1, <2>3, RestStep DEF Takes, at
<1>4. QED
    BY <1>2, <1>3

LEMMA RecoverSteps ==
    ASSUME Inv, NEW r \in Requests, Recover(r)
    PROVE  \/ CalmStep(r)
           \/ /\ Moves(r, "probing") /\ at(r, "recovering") /\ UNCHANGED machine
              /\ record.op = request[r].op
              /\ \/ /\ Takes(request[r].op, "ems_operation_running", "healthcheck_pending")
                    /\ ems = Target[request[r].op]
                 \/ Quiet(record, record') /\ Reached(record') = "healthcheck_pending"
<1> DEFINE o == request[r].op
           reopened == IF retry_ok(record, o) THEN retried(record) ELSE record
<1>1. /\ at(r, "recovering") /\ UNCHANGED <<machine, active, abandoned, dispatch, sidecar, counters>>
    BY DEF Recover
<1>2. record \in Records /\ parses(record) /\ Quiet(record, reopened)
    BY QuietRecord, QuietRetried
<1>3. "probing" \in WorkerPoints
    BY DEF WorkerPoints
<1>4. CASE mutable(reopened, o) /\ reopened.stage = "ems_operation_running"
    <2>1. reopened = record
        <3>1. ASSUME retry_ok(record, o) PROVE FALSE
            <4>1. retried(record).stage = record.resume
                BY <1>2, <3>1, QuietRetried DEF Reached, retry_ok
            <4>2. <<record.failed, record.resume>> \in Recovery
                BY <1>2, <3>1 DEF retry_ok, parses
            <4>3. QED
                BY <1>4, <3>1, <4>1, <4>2, RecoveryFacts
        <3>2. QED
            BY <3>1
    <2>2. mutable(record, o) /\ record.stage = "ems_operation_running"
        BY <1>4, <2>1
    <2>3. \/ /\ ems = Target[o] /\ move(r, "probing")
             /\ record' = advanced(record, "healthcheck_pending")
          \/ record' = failed_if_ok(record, o, "ems_operation_pending") /\ enter(r, Idle)
        BY <1>4, <2>1 DEF Recover, ems_identity
    <2>4. CASE record' = failed_if_ok(record, o, "ems_operation_pending") /\ enter(r, Idle)
        BY <1>1, <2>4, EnterCalm, IdleRequest, QuietRecord DEF Resting
    <2>5. CASE /\ ems = Target[o] /\ move(r, "probing")
               /\ record' = advanced(record, "healthcheck_pending")
        <3>1. /\ Takes(o, "ems_operation_running", "healthcheck_pending")
              /\ record' \in Records /\ parses(record')
            BY <2>2, <2>5, TakesStep DEF Edges
        <3>2. Moves(r, "probing")
            BY <1>1, <1>3, <2>5, <3>1, MoveStep DEF machine, Inv, TypeOK
        <3>3. QED
            BY <1>1, <2>2, <2>5, <3>1, <3>2 DEF mutable
    <2>6. QED
        BY <2>3, <2>4, <2>5
<1>5. CASE ~ (mutable(reopened, o) /\ reopened.stage = "ems_operation_running")
    <2>1. /\ record' = reopened
          /\ IF mutable(reopened, o) /\ reopened.stage = "healthcheck_pending"
             THEN move(r, "probing") ELSE enter(r, Idle)
        BY <1>5 DEF Recover
    <2> HIDE DEF reopened
    <2>2. CASE enter(r, Idle)
        BY <1>1, <1>2, <2>1, <2>2, EnterCalm, IdleRequest DEF Resting
    <2>3. CASE /\ mutable(reopened, o) /\ reopened.stage = "healthcheck_pending" /\ move(r, "probing")
        <3>1. Moves(r, "probing")
            BY <1>1, <1>2, <1>3, <2>1, <2>3, MoveStep DEF Quiet, machine, Inv, TypeOK
        <3>2. record.op = o /\ Reached(record') = "healthcheck_pending"
            BY <1>2, <2>1, <2>3 DEF Quiet, mutable, Reached
        <3>3. QED
            BY <1>1, <1>2, <2>1, <3>1, <3>2
    <2>4. QED
        BY <2>1, <2>2, <2>3
<1>6. QED
    BY <1>4, <1>5

LEMMA CancelCommitSteps ==
    ASSUME Inv, NEW r \in Requests, CancelCommit(r)
    PROVE  \/ CalmStep(r)
           \/ /\ Rests(r) /\ at(r, "cancelling") /\ active' = active
              /\ record.op = request[r].op /\ active[record.op] = {} /\ record.op \in started
              /\ abandoned' = abandoned \cup {record.op}
              /\ record'.stage = "cancelled" /\ Reached(record') = "cancelled"
<1>1. /\ at(r, "cancelling") /\ enter(r, Idle) /\ UNCHANGED <<machine, active, dispatch, sidecar, counters>>
      /\ TypeOK /\ request[r].op \in Operations /\ request[r].op \in started
    BY WorkingFor DEF CancelCommit, at, Inv
<1>2. CASE ~ abandons(r)
    BY <1>1, <1>2, EnterCalm, IdleRequest, QuietRecord DEF CancelCommit, Resting
<1>3. CASE abandons(r)
    <2>1. record.op = request[r].op /\ active[record.op] = {}
        BY <1>3 DEF abandons, cancel_ok, mutable, no_worker
    <2>2. record' = cancelled(record) /\ abandoned' = abandoned \cup {record.op}
        BY <1>3, <2>1 DEF CancelCommit
    <2>3. /\ record' \in Records /\ parses(record') /\ record'.op = record.op
          /\ record'.stage = "cancelled" /\ Reached(record') = "cancelled"
        BY <2>2, CancelledFacts, QuietRecord
    <2>4. request' \in [Requests -> RequestStates] /\ request'[r] = Idle
          /\ \A q \in Requests \ {r} : request'[q] = request[q]
        BY <1>1, EnterRequest, IdleRequest
    <2>5. TypeOK'
        BY <1>1, <2>1, <2>2, <2>3, <2>4 DEF TypeOK, machine, counters
    <2>6. Rests(r)
        BY <1>1, <2>3, <2>4, <2>5, IdleRequest DEF Rests, Kept, machine, counters
    <2>7. QED
        BY <1>1, <2>1, <2>2, <2>3, <2>6
<1>4. QED
    BY <1>2, <1>3

\* A thread that begins, its thread state and its claim.
LEMMA BeginStep ==
    ASSUME Inv, NEW r \in Requests, NEW op \in Operations, NEW s \in RequestStates, enter(r, s), s.op = op,
           record' \in Records, parses(record'), active' = active \/ claim(r, op),
           UNCHANGED <<machine, abandoned, dispatch, sidecar, counters>>
    PROVE  Begins(r, s.at, op, s.worker) /\ (claim(r, op) => r \in active'[op])
<1>1. TypeOK /\ active \in [Operations -> SUBSET Requests]
    BY DEF Inv, TypeOK
<1>2. request' \in [Requests -> RequestStates] /\ request'[r] = s
      /\ \A q \in Requests \ {r} : request'[q] = request[q]
    BY <1>1, EnterRequest
<1>3. /\ active' \in [Operations -> SUBSET Requests] /\ \A o \in Operations : active[o] \subseteq active'[o]
      /\ claim(r, op) => r \in active'[op]
    BY <1>1 DEF claim
<1>4. TypeOK'
    BY <1>1, <1>2, <1>3 DEF TypeOK, machine, counters
<1>5. QED
    BY <1>2, <1>3, <1>4 DEF Begins, machine, counters

LEMMA ClaimBeginSteps ==
    ASSUME Inv, NEW r \in Requests, NEW op \in Operations, ImportBegin(r, op) \/ JobBegin(r, op)
    PROVE  /\ \/ Begins(r, "import", op, TRUE)
              \/ Mode[op] = "upgrade" /\ Begins(r, "job", op, TRUE)
           /\ r \in active'[op] /\ op \in started /\ record' = record
<1>1. record \in Records /\ parses(record)
    BY QuietRecord
<1>2. op \in started
    BY OperationsAssumption DEF ImportBegin, JobBegin, Inv, Known
<1>3. PICK p \in {"import", "job"} : /\ enter(r, Working(p, op)) /\ claim(r, op) /\ record' = record
                                     /\ p = "job" => Mode[op] = "upgrade"
                                     /\ UNCHANGED <<machine, abandoned, dispatch, sidecar, counters>>
    BY DEF ImportBegin, JobBegin, Working
<1>4. p \in Points
    BY DEF Points, WorkerPoints
<1>5. /\ Working(p, op) \in RequestStates /\ Working(p, op).at = p
      /\ Working(p, op).op = op /\ Working(p, op).worker = TRUE
    BY <1>4, WorkingFacts, Zenon
<1>6. Begins(r, p, op, TRUE) /\ r \in active'[op]
    BY <1>1, <1>3, <1>5, BeginStep
<1>7. QED
    BY <1>2, <1>3, <1>6

LEMMA DeployClaimSteps ==
    ASSUME Inv, NEW r \in Requests, NEW op \in Operations, DeployClaim(r, op)
    PROVE  /\ Begins(r, "deploy_claimed", op, FALSE) /\ setup_free /\ op \in started
           /\ Takes(op, "ems_operation_pending", "ems_operation_running") /\ active' = active
<1>1. /\ record' = advanced(record, "ems_operation_running") /\ setup_free
      /\ enter(r, Asking("deploy_claimed", op))
      /\ UNCHANGED <<machine, active, abandoned, dispatch, sidecar, counters>>
    BY DEF DeployClaim, Asking
<1>2. /\ Takes(op, "ems_operation_pending", "ems_operation_running")
      /\ record' \in Records /\ parses(record')
    BY <1>1, TakesStep DEF DeployClaim, claim_ok
<1>3. op \in started
    BY <1>2, OperationsAssumption DEF Takes, Inv, Known
<1>4. "deploy_claimed" \in Points
    BY DEF Points, WorkerPoints
<1>5. /\ Asking("deploy_claimed", op) \in RequestStates /\ Asking("deploy_claimed", op).at = "deploy_claimed"
      /\ Asking("deploy_claimed", op).op = op /\ Asking("deploy_claimed", op).worker = FALSE
    BY <1>4, AskingFacts, Zenon
<1>6. Begins(r, "deploy_claimed", op, FALSE)
    BY <1>1, <1>2, <1>5, BeginStep
<1>7. QED
    BY <1>1, <1>2, <1>3, <1>6

LEMMA CancelReadSteps ==
    ASSUME Inv, NEW r \in Requests, NEW op \in Operations, CancelRead(r, op)
    PROVE  /\ \E worker : Begins(r, "cancelling", op, worker)
           /\ (Mode[op] = "setup" => setup_free) /\ op \in started
           /\ UNCHANGED <<record, active>>
<1>1. op \in started
    BY OperationsAssumption DEF CancelRead, mutable, Inv, Known
<1>2. PICK a : enter(r, Cancelling(op, a = "gone", record.sidecar))
    BY DEF CancelRead, Cancelling
<1>3. PICK gone \in BOOLEAN : enter(r, Cancelling(op, gone, record.sidecar))
    <2>1. (a = "gone") \in BOOLEAN
        BY Zenon
    <2>2. QED
        BY <1>2, <2>1
<1>4. record \in Records /\ parses(record) /\ record.sidecar \in Nat
    BY QuietRecord DEF Records
<1>5. /\ Cancelling(op, gone, record.sidecar) \in RequestStates
      /\ Cancelling(op, gone, record.sidecar).at = "cancelling"
      /\ Cancelling(op, gone, record.sidecar).op = op
    BY <1>4, CancelFacts
<1>6. UNCHANGED <<record, machine, active, abandoned, dispatch, sidecar, counters>>
    BY DEF CancelRead
<1>7. Begins(r, "cancelling", op, Cancelling(op, gone, record.sidecar).worker)
    BY <1>3, <1>4, <1>5, <1>6, BeginStep
<1>8. QED
    BY <1>1, <1>6, <1>7 DEF CancelRead

\* Operations begin and are ended for the build that still runs.
LEMMA StartSteps ==
    ASSUME Inv, NEW op \in Operations, Start(op)
    PROVE  /\ TypeOK' /\ op \notin started /\ started' = started \cup {op} /\ ~ is_active(record)
           /\ record'.op = op /\ Reached(record') = record'.stage
           /\ record'.stage \in {"admin_aligned", "admin_update_pending"} /\ ~ Imports(record')
           /\ UNCHANGED <<active, abandoned, request, known_good, ems, healthy>>
<1> DEFINE stage == IF admin = orchestrator_admin(op) THEN "admin_aligned" ELSE "admin_update_pending"
<1>1. /\ op \notin started /\ started' = started \cup {op} /\ ~ is_active(record)
      /\ record' = begun(op, stage) /\ UNCHANGED <<machine, process, sidecar, attempts, restarts>>
    BY DEF Start, begin_ok
<1>2. stage \in {"admin_aligned", "admin_update_pending"}
    OBVIOUS
<1> HIDE DEF stage
<1>3. /\ record' \in Records /\ parses(record') /\ record'.op = op
      /\ record'.stage = stage /\ Reached(record') = stage
    BY <1>1, <1>2, BegunFacts
<1>4. record'.resources = FALSE
    BY <1>1 DEF begun, NoTransition
<1>5. orchestrator' \in [Operations -> Builds]
    BY TransitionAssumption DEF Start, orchestrator_admin, Inv, TypeOK
<1>6. TypeOK'
    BY <1>1, <1>3, <1>5 DEF Inv, TypeOK, machine, process
<1>7. QED
    BY <1>1, <1>2, <1>3, <1>4, <1>6 DEF Imports, machine, process

LEMMA ReturnSteps ==
    ASSUME Inv, NEW op \in Operations, ReturnToRunning(op)
    PROVE  /\ TypeOK' /\ Mode[op] = "upgrade" /\ record'.op = record.op
           /\ record'.stage = "cancelled" /\ Reached(record') = "cancelled"
           /\ UNCHANGED <<started, active, abandoned, request, known_good, ems, healthy>>
<1>1. record' = cancelled(record) /\ Mode[op] = "upgrade" /\ UNCHANGED <<machine, process, sidecar, counters>>
    BY DEF ReturnToRunning
<1>2. /\ record' \in Records /\ parses(record') /\ record'.op = record.op
      /\ record'.stage = "cancelled" /\ Reached(record') = "cancelled"
    BY <1>1, CancelledFacts, QuietRecord
<1>3. QED
    BY <1>1, <1>2 DEF Inv, TypeOK, machine, process, counters

-----------------------------------------------------------------------------
(***************************************************************************)
(* Every step keeps the invariants.                                        *)
(***************************************************************************)

AllSetups == \A op \in Operations : Mode[op] = "setup"

\* What a step that completes a transition finds.
Completion ==
    record'.stage = "completed" /\ record.stage # "completed" /\ started = {record.op}
        => known_good = Target[record.op]

Preserved ==
    /\ Inv' /\ Completion
    /\ HealthInv /\ Compatible => HealthInv'
    /\ AllSetups /\ SetupInv => SetupInv'

\* In a setup whoever deploys holds the workflow.
LEMMA DeployersHold ==
    ASSUME SetupInv, NEW r \in Requests, Deploys(r) \/ at(r, "deployed")
    PROVE  EmsWorker(r) /\ Busy(r)
BY DEF SetupInv, Worker, Deploys, EmsWorker, Busy, EmsPoints, at

LEMMA QuietPreserves ==
    ASSUME Inv, QuietStep
    PROVE  Preserved
<1>1. /\ TypeOK' /\ Quiet(record, record') /\ record'.op = record.op
      /\ UNCHANGED <<started, active, abandoned, request, known_good, ems, healthy>>
    BY DEF QuietStep, Quiet
<1>2. Inv'
    BY <1>1 DEF Inv, Known, RecordedFirst, at
<1>3. Completion
    BY <1>1 DEF Completion, Quiet, TerminalStages
<1>4. ASSUME HealthInv PROVE HealthInv'
    BY <1>1, <1>4 DEF HealthInv, KnownGoodWasHealthy, Checked, Quiet, at
<1>5. ASSUME SetupInv PROVE SetupInv'
    <2>1. OneHolder' /\ OneImport'
        BY <1>1, <1>5 DEF SetupInv, OneHolder, OneImport, Busy, EmsWorker, at
    <2>2. Abandoned'
        BY <1>1, <1>5 DEF SetupInv, Abandoned, Quiet, TerminalStages
    <2>3. ASSUME NEW q \in Requests
          PROVE  Worker(q)' /\ Import(q)' /\ NotCancelled(q)' /\ OwnDeployment(q)'
        <3>1. Worker(q)'
            BY <1>1, <1>5 DEF SetupInv, Worker, EmsWorker, Past, Quiet, at
        <3>2. Import(q)'
            BY <1>1, <1>5 DEF SetupInv, Import, Past, Quiet, at
        <3>3. NotCancelled(q)'
            BY <1>1, <1>5 DEF SetupInv, NotCancelled, Deploys, Quiet, TerminalStages, at
        <3>4. OwnDeployment(q)'
            BY <1>1, <1>5 DEF SetupInv, OwnDeployment, Deploys, Quiet, at
        <3>5. QED
            BY <3>1, <3>2, <3>3, <3>4
    <2>4. QED
        BY <2>1, <2>2, <2>3 DEF SetupInv
<1>6. QED
    BY <1>2, <1>3, <1>4, <1>5 DEF Preserved

LEMMA EndPreserves ==
    ASSUME Inv, EndStep
    PROVE  Preserved
<1>1. /\ TypeOK' /\ Quiet(record, record') /\ record'.op = record.op
      /\ UNCHANGED <<started, known_good, ems, healthy>>
      /\ abandoned' = {} /\ \A r \in Requests : request'[r].at = "idle"
    BY IdleRequest DEF EndStep, Quiet
<1>2. Inv'
    BY <1>1 DEF Inv, Known, RecordedFirst, at
<1>3. Completion
    BY <1>1 DEF Completion, Quiet, TerminalStages
<1>4. ASSUME HealthInv PROVE HealthInv'
    BY <1>1, <1>4 DEF HealthInv, KnownGoodWasHealthy, Checked, Quiet, at
<1>5. SetupInv'
    <2>1. OneHolder' /\ OneImport' /\ Abandoned'
        BY <1>1 DEF OneHolder, OneImport, Abandoned, Busy, EmsWorker, EmsPoints, at
    <2>2. ASSUME NEW q \in Requests
          PROVE  Worker(q)' /\ Import(q)' /\ NotCancelled(q)' /\ OwnDeployment(q)'
        BY <1>1 DEF Worker, Import, NotCancelled, OwnDeployment, Deploys, EmsWorker, EmsPoints, at
    <2>3. QED
        BY <2>1, <2>2 DEF SetupInv
<1>6. QED
    BY <1>2, <1>3, <1>4, <1>5 DEF Preserved

LEMMA CalmPreserves ==
    ASSUME Inv, NEW r \in Requests, CalmStep(r)
    PROVE  Preserved
<1>1. /\ TypeOK' /\ Quiet(record, record') /\ record'.op = record.op
      /\ UNCHANGED <<started, abandoned, known_good, healthy>>
      /\ ems' = ems \/ (at(r, "deploying") /\ ems' = Target[request[r].op])
      /\ request'[r].at \in Resting
      /\ request'[r].at # "idle" => request'[r].op \in started
      /\ request'[r].at = "recovering" => request'[r].worker = FALSE
      /\ \A q \in Requests \ {r} : request'[q] = request[q]
      /\ Kept(r)
    BY DEF CalmStep, Quiet
<1>2. Inv'
    BY <1>1 DEF Inv, Known, RecordedFirst, Resting, at
<1>3. Completion
    BY <1>1 DEF Completion, Quiet, TerminalStages
<1>4. ASSUME HealthInv, Compatible PROVE HealthInv'
    <2>1. KnownGoodWasHealthy'
        BY <1>1, <1>4 DEF HealthInv, KnownGoodWasHealthy
    <2>2. (record.op \in Operations /\ Reached(record) = "healthcheck_pending" => ems = Target[record.op])'
        BY <1>1, <1>4 DEF HealthInv, Compatible, Deploys, Quiet, at
    <2>3. ASSUME NEW q \in Requests PROVE Checked(q)'
        BY <1>1, <1>4 DEF HealthInv, Checked, Compatible, Deploys, Resting, at
    <2>4. QED
        BY <2>1, <2>2, <2>3 DEF HealthInv
<1>5. ASSUME SetupInv PROVE SetupInv'
    <2>1. /\ ~ EmsWorker(r)' /\ ~ Busy(r)'
          /\ \A q \in Requests \ {r} : (EmsWorker(q)' <=> EmsWorker(q)) /\ (Busy(q)' <=> Busy(q))
        BY <1>1 DEF Busy, EmsWorker, EmsPoints, Resting, at
    <2>2. OneHolder' /\ OneImport'
        BY <1>1, <1>5, <2>1 DEF SetupInv, OneHolder, OneImport, Resting, at
    <2>3. Abandoned'
        BY <1>1, <1>5 DEF SetupInv, Abandoned, Quiet, TerminalStages
    <2>4. Worker(r)' /\ Import(r)' /\ NotCancelled(r)' /\ OwnDeployment(r)'
        BY <1>1, <2>1 DEF Worker, Import, NotCancelled, OwnDeployment, Deploys, Resting, at
    <2>5. ASSUME NEW q \in Requests \ {r}
          PROVE  Worker(q)' /\ Import(q)' /\ NotCancelled(q)' /\ OwnDeployment(q)'
        <3>1. Worker(q)'
            BY <1>1, <1>5, <2>1 DEF SetupInv, Worker, Past, Quiet, at
        <3>2. Import(q)'
            <4>1. ASSUME ~ at(q, "idle"), q \in active[request[q].op], q \notin active'[request[q].op]
                  PROVE  Past(request[q].op)
                <5>1. request[q].op \in Operations
                    BY <4>1, WorkingFor
                <5>2. request[q].op = request[r].op /\ at(r, "recorded") /\ request[r].worker = TRUE
                    BY <1>1, <4>1, <5>1 DEF Kept
                <5>3. QED
                    BY <1>5, <5>2 DEF SetupInv, Worker, EmsWorker, EmsPoints, at
            <4>2. ~ at(q, "idle") /\ Past(request[q].op) => Past(request[q].op)'
                BY <1>1 DEF Past, Quiet
            <4>3. CASE at(q, "importing")
                <5>1. ~ Past(request[q].op)
                    BY <1>5, <4>3, ReachedFacts DEF SetupInv, Import, Past, Late, Inv, TypeOK
                <5>2. QED
                    BY <1>1, <1>5, <4>1, <4>3, <5>1 DEF SetupInv, Import, Quiet, at
            <4>4. CASE ~ at(q, "importing")
                BY <1>1, <1>5, <4>1, <4>2, <4>4 DEF SetupInv, Import, at
            <4>5. QED
                BY <4>3, <4>4
        <3>3. NotCancelled(q)'
            BY <1>1, <1>5 DEF SetupInv, NotCancelled, Deploys, Quiet, TerminalStages, at
        <3>4. OwnDeployment(q)'
            BY <1>1, <1>5 DEF SetupInv, OwnDeployment, Deploys, Quiet, Resting, at
        <3>5. QED
            BY <3>1, <3>2, <3>3, <3>4
    <2>6. QED
        BY <2>2, <2>3, <2>4, <2>5 DEF SetupInv
<1>6. QED
    BY <1>2, <1>3, <1>4, <1>5 DEF Preserved

\* A worker of the EMS operation that moves on and leaves the record alone.
LEMMA MovesOn ==
    ASSUME Inv, SetupInv, NEW r \in Requests, NEW p \in {"deployed", "passed", "matched", "recorded"},
           Moves(r, p), record' = record, request[r].at \in {"deploying", "probing", "passed", "matched"},
           p = "deployed" => at(r, "deploying")
    PROVE  SetupInv'
<1>1. /\ request'[r].at = p /\ request'[r].op = request[r].op /\ request'[r].worker = request[r].worker
      /\ \A q \in Requests \ {r} : request'[q] = request[q]
      /\ UNCHANGED <<record, started, abandoned, active>>
    BY DEF Moves
<1>2. \A q \in Requests : (EmsWorker(q)' <=> EmsWorker(q)) /\ (Busy(q)' <=> Busy(q)) /\ (Deploys(q)' => Deploys(q))
    BY <1>1 DEF Busy, EmsWorker, EmsPoints, Deploys, at
<1>3. OneHolder' /\ OneImport' /\ Abandoned'
    BY <1>1, <1>2 DEF SetupInv, OneHolder, OneImport, Abandoned, at
<1>4. ASSUME NEW q \in Requests
      PROVE  Worker(q)' /\ Import(q)' /\ NotCancelled(q)' /\ OwnDeployment(q)'
    <2>1. request'[q].op = request[q].op /\ request'[q].worker = request[q].worker
        BY <1>1
    <2>2. Worker(q)'
        BY <1>1, <1>2, <2>1 DEF SetupInv, Worker, Past, at
    <2>3. Import(q)'
        BY <1>1, <2>1 DEF SetupInv, Import, Past, at
    <2>4. NotCancelled(q)'
        BY <1>1, <1>2, <2>1 DEF SetupInv, NotCancelled, at
    <2>5. OwnDeployment(q)'
        BY <1>1, <1>2, <2>1 DEF SetupInv, OwnDeployment, at
    <2>6. QED
        BY <2>2, <2>3, <2>4, <2>5
<1>5. QED
    BY <1>3, <1>4 DEF SetupInv

\* A worker that moves on; known_good is only written with the build of r.
LEMMA MovesInv ==
    ASSUME Inv, NEW r \in Requests, NEW p, Moves(r, p), ~ at(r, "idle"), record'.op = record.op,
           (p # "recorded" /\ known_good' = known_good) \/ known_good' = Target[request[r].op]
    PROVE  Inv'
<1>1. /\ TypeOK' /\ request'[r].at = p /\ request'[r].op = request[r].op
      /\ \A q \in Requests \ {r} : request'[q] = request[q]
      /\ started' = started
    BY DEF Moves
<1>2. Known'
    BY <1>1 DEF Inv, Known, at
<1>3. RecordedFirst'
    <2>1. CASE known_good' = Target[request[r].op]
        <3>1. request[r].op \in started
            BY WorkingFor
        <3>2. QED
            BY <1>1, <2>1, <3>1 DEF RecordedFirst, at
    <2>2. CASE p # "recorded" /\ known_good' = known_good
        BY <1>1, <2>2 DEF Inv, RecordedFirst, at
    <2>3. QED
        BY <2>1, <2>2
<1>4. QED
    BY <1>1, <1>2, <1>3 DEF Inv

LEMMA DeployedPreserves ==
    ASSUME Inv, NEW r \in Requests, Deployed(r)
    PROVE  Preserved
<1>1. /\ Moves(r, "deployed") /\ at(r, "deploying") /\ ems' = Target[request[r].op]
      /\ UNCHANGED <<record, known_good, healthy>>
    BY DeployedSteps
<1>2. Inv' /\ Completion
    BY <1>1, MovesInv DEF Completion, at
<1>3. ASSUME HealthInv, Compatible PROVE HealthInv'
    BY <1>1, <1>3 DEF HealthInv, KnownGoodWasHealthy, Checked, Compatible, Deploys, Moves, at
<1>4. ASSUME SetupInv PROVE SetupInv'
    BY <1>1, <1>4, MovesOn DEF at
<1>5. QED
    BY <1>2, <1>3, <1>4 DEF Preserved

LEMMA HealthPassedPreserves ==
    ASSUME Inv, NEW r \in Requests, HealthPassed(r)
    PROVE  Preserved
<1>1. /\ Moves(r, "passed") /\ at(r, "probing") /\ healthy' = healthy \cup {ems}
      /\ UNCHANGED <<record, known_good, ems>>
    BY HealthPassedSteps
<1>2. Inv' /\ Completion
    BY <1>1, MovesInv DEF Completion, at
<1>3. ASSUME HealthInv, Compatible PROVE HealthInv'
    BY <1>1, <1>3 DEF HealthInv, KnownGoodWasHealthy, Checked, Moves, at
<1>4. ASSUME SetupInv PROVE SetupInv'
    BY <1>1, <1>4, MovesOn DEF at
<1>5. QED
    BY <1>2, <1>3, <1>4 DEF Preserved

LEMMA IdentityCheckedPreserves ==
    ASSUME Inv, NEW r \in Requests, IdentityChecked(r)
    PROVE  Preserved
<1>1. CASE CalmStep(r)
    BY <1>1, CalmPreserves
<1>2. CASE /\ Moves(r, "matched") /\ at(r, "passed") /\ UNCHANGED <<record, machine>>
           /\ record.op = request[r].op
    <2>1. Inv' /\ Completion
        BY <1>2, MovesInv DEF Completion, at, machine
    <2>2. ASSUME HealthInv, Compatible PROVE HealthInv'
        BY <1>2, <2>2 DEF HealthInv, KnownGoodWasHealthy, Checked, Moves, at, machine
    <2>3. ASSUME SetupInv PROVE SetupInv'
        BY <1>2, <2>3, MovesOn DEF at
    <2>4. QED
        BY <2>1, <2>2, <2>3 DEF Preserved
<1>3. QED
    BY <1>1, <1>2, IdentityCheckedSteps

LEMMA RecordKnownGoodPreserves ==
    ASSUME Inv, NEW r \in Requests, RecordKnownGood(r)
    PROVE  Preserved
<1>1. CASE CalmStep(r)
    BY <1>1, CalmPreserves
<1>2. CASE /\ Moves(r, "recorded") /\ at(r, "matched") /\ known_good' = Target[request[r].op]
           /\ UNCHANGED <<record, ems, healthy>>
    <2>1. Inv' /\ Completion
        BY <1>2, MovesInv DEF Completion, at
    <2>2. ASSUME HealthInv, Compatible PROVE HealthInv'
        BY <1>2, <2>2 DEF HealthInv, KnownGoodWasHealthy, Checked, Moves, at
    <2>3. ASSUME SetupInv PROVE SetupInv'
        BY <1>2, <2>3, MovesOn DEF at
    <2>4. QED
        BY <2>1, <2>2, <2>3 DEF Preserved
<1>3. QED
    BY <1>1, <1>2, RecordKnownGoodSteps

LEMMA JobClaimPreserves ==
    ASSUME Inv, NEW r \in Requests, JobClaim(r)
    PROVE  Preserved
<1>1. CASE CalmStep(r)
    BY <1>1, CalmPreserves
<1>2. CASE /\ Moves(r, "deploying") /\ at(r, "job") /\ UNCHANGED machine
           /\ Takes(request[r].op, "ems_operation_pending", "ems_operation_running")
    <2>1. record'.op = record.op /\ record'.stage = "ems_operation_running"
          /\ Reached(record') = "ems_operation_running"
        BY <1>2 DEF Takes
    <2>2. Inv' /\ Completion
        BY <1>2, <2>1, MovesInv DEF Completion, at, machine
    <2>3. ASSUME HealthInv, Compatible PROVE HealthInv'
        BY <1>2, <2>1, <2>3 DEF HealthInv, KnownGoodWasHealthy, Checked, Moves, at, machine
    <2>4. ~ SetupInv
        BY <1>2 DEF SetupInv, Worker
    <2>5. QED
        BY <2>2, <2>3, <2>4 DEF Preserved
<1>3. QED
    BY <1>1, <1>2, JobClaimSteps

LEMMA ImportClaimPreserves ==
    ASSUME Inv, NEW r \in Requests, ImportClaim(r)
    PROVE  Preserved
<1>1. CASE CalmStep(r)
    BY <1>1, CalmPreserves
<1>2. CASE /\ Moves(r, "importing") /\ at(r, "import") /\ UNCHANGED machine
           /\ Quiet(record, record') /\ record.op = request[r].op
           /\ Reached(record) = "admin_aligned" /\ ~ Imports(record) /\ Imports(record')
    <2>1. /\ record'.op = record.op /\ Reached(record') \notin {"ems_operation_running", "healthcheck_pending"}
          /\ record'.stage = "admin_aligned"
        BY <1>2 DEF Quiet, Imports
    <2>2. Inv' /\ Completion
        BY <1>2, <2>1, MovesInv DEF Completion, at, machine
    <2>3. ASSUME HealthInv, Compatible PROVE HealthInv'
        BY <1>2, <2>1, <2>3 DEF HealthInv, KnownGoodWasHealthy, Checked, Moves, at, machine
    <2>4. ASSUME SetupInv PROVE SetupInv'
        <3>1. /\ request'[r].at = "importing" /\ request'[r].op = request[r].op
              /\ request'[r].worker = request[r].worker
              /\ \A q \in Requests \ {r} : request'[q] = request[q]
              /\ UNCHANGED <<started, abandoned, active>>
            BY <1>2 DEF Moves
        <3>2. \A q \in Requests : (EmsWorker(q)' <=> EmsWorker(q)) /\ (Busy(q)' <=> Busy(q))
                                  /\ (Deploys(q)' => Deploys(q))
            BY <1>2, <3>1 DEF Busy, EmsWorker, EmsPoints, Deploys, at
        <3>3. \A q \in Requests : ~ at(q, "importing")
            BY <1>2, <2>4 DEF SetupInv, Import
        <3>4. OneHolder' /\ OneImport' /\ Abandoned'
            BY <1>2, <2>1, <2>4, <3>1, <3>2, <3>3 DEF SetupInv, OneHolder, OneImport, Abandoned, Quiet,
               TerminalStages, at
        <3>5. ASSUME NEW q \in Requests
              PROVE  Worker(q)' /\ Import(q)' /\ NotCancelled(q)' /\ OwnDeployment(q)'
            <4>1. request'[q].op = request[q].op /\ request'[q].worker = request[q].worker
                BY <3>1
            <4>2. Worker(q)'
                BY <1>2, <2>4, <3>1, <3>2, <4>1 DEF SetupInv, Worker, Past, Quiet, at
            <4>3. r \in active[request[r].op]
                BY <1>2, <2>4 DEF SetupInv, Import, Past, Late
            <4>4. Import(q)'
                BY <1>2, <2>1, <2>4, <3>1, <3>3, <4>3 DEF SetupInv, Import, Past, Quiet, at
            <4>5. NotCancelled(q)'
                BY <1>2, <2>1, <2>4, <3>1, <3>2, <4>1 DEF SetupInv, NotCancelled, at
            <4>6. OwnDeployment(q)'
                BY <1>2, <2>1, <2>4, <3>1, <3>2, <4>1 DEF SetupInv, OwnDeployment, at
            <4>7. QED
                BY <4>2, <4>4, <4>5, <4>6
        <3>6. QED
            BY <3>4, <3>5 DEF SetupInv
    <2>5. QED
        BY <2>2, <2>3, <2>4 DEF Preserved
<1>3. QED
    BY <1>1, <1>2, ImportClaimSteps

\* A thread that ends while nobody deploys, imports or checks for its operation.
LEMMA RestsInv ==
    ASSUME Inv, NEW r \in Requests, Rests(r)
    PROVE  Inv'
BY DEF Inv, Rests, Known, RecordedFirst, at

LEMMA ImportEndPreserves ==
    ASSUME Inv, NEW r \in Requests, ImportEnd(r)
    PROVE  Preserved
<1>1. CASE CalmStep(r)
    BY <1>1, CalmPreserves
<1>2. CASE /\ Rests(r) /\ UNCHANGED abandoned /\ at(r, "importing")
           /\ record.stage \in {"admin_aligned", "resources_verified"}
           /\ Reached(record') \in {"admin_aligned", "resources_verified"}
           /\ record'.stage \notin TerminalStages
    <2>1. /\ record'.op = record.op /\ request'[r].at = "idle"
          /\ \A q \in Requests \ {r} : request'[q] = request[q]
          /\ UNCHANGED <<started, known_good, ems, healthy, abandoned>>
        BY <1>2 DEF Rests
    <2>2. Inv' /\ Completion
        BY <1>2, RestsInv DEF Completion, TerminalStages
    <2>3. ASSUME HealthInv, Compatible PROVE HealthInv'
        BY <1>2, <2>1, <2>3 DEF HealthInv, KnownGoodWasHealthy, Checked, at
    <2>4. ASSUME SetupInv PROVE SetupInv'
        <3>1. /\ ~ EmsWorker(r)' /\ ~ Busy(r)' /\ ~ Deploys(r)'
              /\ \A q \in Requests \ {r} : /\ EmsWorker(q)' <=> EmsWorker(q)
                                           /\ Busy(q)' <=> Busy(q)
                                           /\ Deploys(q)' <=> Deploys(q)
            BY <2>1 DEF Busy, EmsWorker, EmsPoints, Deploys, at
        <3>2. \A q \in Requests \ {r} : ~ at(q, "importing")
            BY <1>2, <2>4 DEF SetupInv, OneImport
        <3>3. OneHolder' /\ OneImport'
            BY <2>1, <2>4, <3>1, <3>2 DEF SetupInv, OneHolder, OneImport, at
        <3>4. Abandoned'
            BY <1>2, <2>1, <2>4 DEF SetupInv, Abandoned
        <3>5. Worker(r)' /\ Import(r)' /\ NotCancelled(r)' /\ OwnDeployment(r)'
            BY <2>1, <3>1 DEF Worker, Import, NotCancelled, OwnDeployment, at
        <3>6. Reached(record) \notin Late
            BY <1>2 DEF Reached, Late
        <3>7. ASSUME NEW q \in Requests \ {r}
              PROVE  Worker(q)' /\ Import(q)' /\ NotCancelled(q)' /\ OwnDeployment(q)'
            <4>1. Past(request[q].op) => Past(request[q].op)'
                BY <2>1, <3>6 DEF Past
            <4>2. Worker(q)'
                BY <2>1, <2>4, <3>1, <4>1 DEF SetupInv, Worker, Past, at
            <4>3. Import(q)'
                <5>1. at(q, "import") /\ q \in active[request[q].op] => q \in active'[request[q].op]
                    BY <1>2, WorkingFor DEF Rests, Kept, at
                <5>2. QED
                    BY <2>1, <2>4, <3>2, <4>1, <5>1 DEF SetupInv, Import, Past, at
            <4>4. NotCancelled(q)'
                BY <1>2, <2>1, <2>4, <3>1 DEF SetupInv, NotCancelled, TerminalStages, at
            <4>5. OwnDeployment(q)'
                BY <1>2, <2>1, <2>4, <3>1 DEF SetupInv, OwnDeployment, at
            <4>6. QED
                BY <4>2, <4>3, <4>4, <4>5
        <3>8. QED
            BY <3>3, <3>4, <3>5, <3>7 DEF SetupInv
    <2>5. QED
        BY <2>2, <2>3, <2>4 DEF Preserved
<1>3. QED
    BY <1>1, <1>2, ImportEndSteps

LEMMA CompletePreserves ==
    ASSUME Inv, NEW r \in Requests, Complete(r)
    PROVE  Preserved
<1>1. CASE CalmStep(r)
    BY <1>1, CalmPreserves
<1>2. CASE /\ Rests(r) /\ UNCHANGED abandoned /\ at(r, "recorded")
           /\ Takes(request[r].op, "healthcheck_pending", "completed")
    <2>1. /\ record'.op = record.op /\ request'[r].at = "idle"
          /\ \A q \in Requests \ {r} : request'[q] = request[q]
          /\ UNCHANGED <<started, known_good, ems, healthy, abandoned>>
          /\ record.op = request[r].op /\ record.stage = "healthcheck_pending"
          /\ record'.stage = "completed" /\ Reached(record') = "completed"
        BY <1>2 DEF Rests, Takes
    <2>2. Inv'
        BY <1>2, RestsInv
    <2>3. Completion
        BY <1>2, <2>1 DEF Completion, Inv, RecordedFirst
    <2>4. ASSUME HealthInv, Compatible PROVE HealthInv'
        BY <2>1, <2>4 DEF HealthInv, KnownGoodWasHealthy, Checked, at
    <2>5. ASSUME SetupInv PROVE SetupInv'
        <3>1. /\ ~ EmsWorker(r)' /\ ~ Busy(r)' /\ ~ Deploys(r)'
              /\ \A q \in Requests \ {r} : /\ EmsWorker(q)' <=> EmsWorker(q)
                                           /\ Busy(q)' <=> Busy(q)
                                           /\ Deploys(q)' <=> Deploys(q)
            BY <2>1 DEF Busy, EmsWorker, EmsPoints, Deploys, at
        <3>2. \A q \in Requests : ~ at(q, "importing")
            BY <2>1, <2>5 DEF SetupInv, Import, Imports
        <3>3. OneHolder' /\ OneImport'
            BY <2>1, <2>5, <3>1, <3>2 DEF SetupInv, OneHolder, OneImport, at
        <3>4. Abandoned'
            BY <2>1, <2>5 DEF SetupInv, Abandoned
        <3>5. Worker(r)' /\ Import(r)' /\ NotCancelled(r)' /\ OwnDeployment(r)'
            BY <2>1, <3>1 DEF Worker, Import, NotCancelled, OwnDeployment, at
        <3>6. ASSUME NEW q \in Requests \ {r}
              PROVE  Worker(q)' /\ Import(q)' /\ NotCancelled(q)' /\ OwnDeployment(q)'
            <4>1. Past(request[r].op)' /\ (Past(request[q].op) => Past(request[q].op)')
                BY <2>1 DEF Past, Late
            <4>2. Worker(q)'
                BY <2>1, <2>5, <3>1, <4>1 DEF SetupInv, Worker, Past, at
            <4>3. Import(q)'
                <5>1. at(q, "import") /\ q \in active[request[q].op]
                      => q \in active'[request[q].op] \/ request[q].op = request[r].op
                    BY <1>2, WorkingFor DEF Rests, Kept, at
                <5>2. request[q].op = request[r].op => Past(request[q].op)'
                    BY <2>1 DEF Past, Late
                <5>3. QED
                    BY <2>1, <2>5, <3>2, <4>1, <5>1, <5>2 DEF SetupInv, Import, Past, at
            <4>4. NotCancelled(q)'
                BY <2>1, <2>5, <3>1 DEF SetupInv, NotCancelled, at
            <4>5. OwnDeployment(q)'
                BY <2>1, <2>5, <3>1 DEF SetupInv, OwnDeployment, at
            <4>6. QED
                BY <4>2, <4>3, <4>4, <4>5
        <3>7. QED
            BY <3>3, <3>4, <3>5, <3>6 DEF SetupInv
    <2>6. QED
        BY <2>2, <2>3, <2>4, <2>5 DEF Preserved
<1>3. QED
    BY <1>1, <1>2, CompleteSteps

LEMMA CancelCommitPreserves ==
    ASSUME Inv, NEW r \in Requests, CancelCommit(r)
    PROVE  Preserved
<1>1. CASE CalmStep(r)
    BY <1>1, CalmPreserves
<1>2. CASE /\ Rests(r) /\ at(r, "cancelling") /\ active' = active
           /\ record.op = request[r].op /\ active[record.op] = {} /\ record.op \in started
           /\ abandoned' = abandoned \cup {record.op}
           /\ record'.stage = "cancelled" /\ Reached(record') = "cancelled"
    <2>1. /\ record'.op = record.op /\ request'[r].at = "idle"
          /\ \A q \in Requests \ {r} : request'[q] = request[q]
          /\ UNCHANGED <<started, known_good, ems, healthy>>
        BY <1>2 DEF Rests
    <2>2. Inv' /\ Completion
        BY <1>2, RestsInv DEF Completion
    <2>3. ASSUME HealthInv, Compatible PROVE HealthInv'
        BY <1>2, <2>1, <2>3 DEF HealthInv, KnownGoodWasHealthy, Checked, at
    <2>4. ASSUME SetupInv PROVE SetupInv'
        <3>1. /\ ~ EmsWorker(r)' /\ ~ Busy(r)' /\ ~ Deploys(r)'
              /\ \A q \in Requests \ {r} : /\ EmsWorker(q)' <=> EmsWorker(q)
                                           /\ Busy(q)' <=> Busy(q)
                                           /\ Deploys(q)' <=> Deploys(q)
            BY <2>1 DEF Busy, EmsWorker, EmsPoints, Deploys, at
        <3>2. \A q \in Requests : ~ at(q, "importing")
            BY <1>2, <2>4 DEF SetupInv, Import
        <3>3. \A q \in Requests : ~ Deploys(q)
            BY <1>2, <2>4, DeployersHold DEF SetupInv, OneHolder, Busy, Deploys, at
        <3>4. OneHolder' /\ OneImport'
            BY <2>1, <2>4, <3>1, <3>2 DEF SetupInv, OneHolder, OneImport, at
        <3>5. Abandoned'
            BY <1>2, <2>1, <2>4 DEF SetupInv, Abandoned
        <3>6. ASSUME NEW q \in Requests
              PROVE  Worker(q)' /\ Import(q)' /\ NotCancelled(q)' /\ OwnDeployment(q)'
            <4>1. ~ Deploys(q)' /\ ~ at(q, "importing")'
                BY <2>1, <3>1, <3>2, <3>3 DEF at
            <4>2. NotCancelled(q)' /\ OwnDeployment(q)'
                BY <4>1 DEF NotCancelled, OwnDeployment, Deploys, at
            <4>3. \A op : Past(op)'
                BY <1>2 DEF Past, Late
            <4>4. Worker(q)' /\ Import(q)'
                BY <2>1, <2>4, <4>1, <4>3 DEF SetupInv, Worker, Import, at
            <4>5. QED
                BY <4>2, <4>4
        <3>7. QED
            BY <3>4, <3>5, <3>6 DEF SetupInv
    <2>5. QED
        BY <2>2, <2>3, <2>4 DEF Preserved
<1>3. QED
    BY <1>1, <1>2, CancelCommitSteps

LEMMA FinishEmsPreserves ==
    ASSUME Inv, NEW r \in Requests, FinishEms(r) \/ Recover(r)
    PROVE  Preserved
<1>1. CASE CalmStep(r)
    BY <1>1, CalmPreserves
<1>2. ASSUME ~ CalmStep(r)
      PROVE  /\ Moves(r, "probing") /\ UNCHANGED machine
             /\ record.op = request[r].op /\ record'.op = record.op
             /\ record'.stage \notin TerminalStages /\ Reached(record') = "healthcheck_pending"
             /\ Reached(record) \in {"ems_operation_running", "healthcheck_pending"}
             /\ \/ at(r, "deployed")
                \/ at(r, "recovering") /\ (ems = Target[request[r].op] \/ Reached(record) = "healthcheck_pending")
    <2>1. CASE FinishEms(r)
        BY <1>2, <2>1, FinishEmsSteps DEF Takes, TerminalStages
    <2>2. CASE Recover(r)
        <3>1. Moves(r, "probing") /\ at(r, "recovering") /\ UNCHANGED machine /\ record.op = request[r].op
            BY <1>2, <2>2, RecoverSteps
        <3>2. CASE /\ Takes(request[r].op, "ems_operation_running", "healthcheck_pending")
                   /\ ems = Target[request[r].op]
            BY <3>1, <3>2 DEF Takes, TerminalStages
        <3>3. CASE Quiet(record, record') /\ Reached(record') = "healthcheck_pending"
            BY <3>1, <3>3, ReachedFacts DEF Quiet, TerminalStages
        <3>4. QED
            BY <1>2, <2>2, <3>2, <3>3, RecoverSteps
    <2>3. QED
        BY <2>1, <2>2
<1>3. CASE ~ CalmStep(r)
    <2>1. Inv' /\ Completion
        BY <1>2, <1>3, MovesInv DEF Completion, TerminalStages, at, machine
    <2>2. ASSUME HealthInv, Compatible PROVE HealthInv'
        <3>1. ems = Target[request[r].op]
            BY <1>2, <1>3, <2>2, WorkingFor DEF HealthInv, Checked, at
        <3>2. QED
            BY <1>2, <1>3, <2>2, <3>1 DEF HealthInv, KnownGoodWasHealthy, Checked, Moves, at, machine
    <2>3. ASSUME SetupInv PROVE SetupInv'
        <3>1. /\ request'[r].at = "probing" /\ request'[r].op = request[r].op
              /\ request'[r].worker = request[r].worker
              /\ \A q \in Requests \ {r} : request'[q] = request[q]
              /\ UNCHANGED <<started, abandoned, active>>
            BY <1>2, <1>3 DEF Moves
        <3>2. \A q \in Requests : (EmsWorker(q)' <=> EmsWorker(q)) /\ (Busy(q)' <=> Busy(q))
                                  /\ (Deploys(q)' <=> Deploys(q))
            BY <1>2, <1>3, <2>3, <3>1 DEF SetupInv, Worker, Busy, EmsWorker, EmsPoints, Deploys, at
        <3>3. \A q \in Requests : ~ at(q, "importing")
            BY <1>2, <1>3, <2>3 DEF SetupInv, Import, Imports, Reached
        <3>4. OneHolder' /\ OneImport'
            BY <2>3, <3>1, <3>2, <3>3 DEF SetupInv, OneHolder, OneImport, at
        <3>5. Abandoned'
            BY <1>2, <1>3, <2>3, <3>1 DEF SetupInv, Abandoned, Reached
        <3>6. \A op : Past(op)'
            BY <1>2, <1>3 DEF Past, Late
        <3>7. ASSUME NEW q \in Requests
              PROVE  Worker(q)' /\ Import(q)' /\ NotCancelled(q)' /\ OwnDeployment(q)'
            <4>1. request'[q].op = request[q].op /\ request'[q].worker = request[q].worker
                BY <3>1
            <4>2. Worker(q)'
                BY <2>3, <3>1, <3>6, <4>1 DEF SetupInv, Worker, at
            <4>3. Import(q)'
                BY <2>3, <3>1, <3>3, <3>6, <4>1 DEF SetupInv, Import, at
            <4>4. NotCancelled(q)'
                BY <1>2, <1>3, <2>3, <3>1, <3>2, <4>1 DEF SetupInv, NotCancelled, TerminalStages, at
            <4>5. OwnDeployment(q)'
                BY <1>2, <1>3, <2>3, <3>1, <3>2, <4>1 DEF SetupInv, OwnDeployment, at
            <4>6. QED
                BY <4>2, <4>3, <4>4, <4>5
        <3>8. QED
            BY <3>4, <3>5, <3>7 DEF SetupInv
    <2>4. QED
        BY <2>1, <2>2, <2>3 DEF Preserved
<1>4. QED
    BY <1>1, <1>3

\* A thread that begins for a started operation.
LEMMA BeginsInv ==
    ASSUME Inv, NEW r \in Requests, NEW p, NEW op, NEW worker, Begins(r, p, op, worker),
           op \in started, p # "recorded", record'.op = record.op
    PROVE  Inv'
BY DEF Inv, Begins, Known, RecordedFirst, at

LEMMA ClaimBeginPreserves ==
    ASSUME Inv, NEW r \in Requests, NEW op \in Operations, ImportBegin(r, op) \/ JobBegin(r, op)
    PROVE  Preserved
<1>1. /\ \/ Begins(r, "import", op, TRUE)
         \/ Mode[op] = "upgrade" /\ Begins(r, "job", op, TRUE)
      /\ r \in active'[op] /\ op \in started /\ record' = record
    BY ClaimBeginSteps
<1>2. Inv' /\ Completion
    BY <1>1, BeginsInv DEF Completion
<1>3. ASSUME HealthInv PROVE HealthInv'
    BY <1>1, <1>3 DEF HealthInv, KnownGoodWasHealthy, Checked, Begins, at
<1>4. ASSUME AllSetups, SetupInv PROVE SetupInv'
    <2>1. /\ request'[r].at = "import" /\ request'[r].op = op /\ request'[r].worker = TRUE
          /\ \A q \in Requests \ {r} : request'[q] = request[q]
          /\ \A o \in Operations : active[o] \subseteq active'[o]
          /\ UNCHANGED <<started, abandoned>>
        BY <1>1, <1>4 DEF AllSetups, Begins
    <2>2. /\ ~ EmsWorker(r)' /\ ~ Busy(r)' /\ ~ Deploys(r)'
          /\ \A q \in Requests \ {r} : /\ EmsWorker(q)' <=> EmsWorker(q)
                                       /\ Busy(q)' <=> Busy(q)
                                       /\ Deploys(q)' <=> Deploys(q)
        BY <2>1 DEF Busy, EmsWorker, EmsPoints, Deploys, at
    <2>3. OneHolder' /\ OneImport' /\ Abandoned'
        BY <1>1, <1>4, <2>1, <2>2 DEF SetupInv, OneHolder, OneImport, Abandoned, at
    <2>4. Worker(r)' /\ Import(r)' /\ NotCancelled(r)' /\ OwnDeployment(r)'
        BY <1>1, <2>1, <2>2 DEF Worker, Import, NotCancelled, OwnDeployment, at
    <2>5. ASSUME NEW q \in Requests \ {r}
          PROVE  Worker(q)' /\ Import(q)' /\ NotCancelled(q)' /\ OwnDeployment(q)'
        <3>1. Worker(q)' /\ NotCancelled(q)' /\ OwnDeployment(q)'
            BY <1>1, <1>4, <2>1, <2>2 DEF SetupInv, Worker, NotCancelled, OwnDeployment, Past, at
        <3>2. ~ at(q, "idle") /\ q \in active[request[q].op] => q \in active'[request[q].op]
            BY <2>1, WorkingFor
        <3>3. Import(q)'
            BY <1>1, <1>4, <2>1, <3>2 DEF SetupInv, Import, Past, at
        <3>4. QED
            BY <3>1, <3>3
    <2>6. QED
        BY <2>3, <2>4, <2>5 DEF SetupInv
<1>5. QED
    BY <1>2, <1>3, <1>4 DEF Preserved

\* The claim of the setup workflow is given to nobody while it is held.
LEMMA FreeSetup ==
    ASSUME Inv, AllSetups, setup_free, NEW r \in Requests
    PROVE  ~ Busy(r)
<1>1. SUFFICES ASSUME Busy(r) PROVE FALSE
    OBVIOUS
<1>2. ~ at(r, "idle")
    BY <1>1 DEF Busy, EmsWorker, EmsPoints, at
<1>3. request[r].op \in Operations /\ Mode[request[r].op] = "setup"
    BY <1>2, WorkingFor DEF AllSetups
<1>4. QED
    BY <1>1, <1>3 DEF setup_free, Busy, EmsWorker, at

LEMMA DeployClaimPreserves ==
    ASSUME Inv, NEW r \in Requests, NEW op \in Operations, DeployClaim(r, op)
    PROVE  Preserved
<1>1. /\ Begins(r, "deploy_claimed", op, FALSE) /\ setup_free /\ op \in started /\ active' = active
      /\ record.op = op /\ record.stage = "ems_operation_pending" /\ Reached(record) = record.stage
      /\ record'.op = op /\ record'.stage = "ems_operation_running" /\ Reached(record') = record'.stage
    BY DeployClaimSteps DEF Takes
<1>2. Inv' /\ Completion
    BY <1>1, BeginsInv DEF Completion
<1>3. ASSUME HealthInv PROVE HealthInv'
    BY <1>1, <1>3 DEF HealthInv, KnownGoodWasHealthy, Checked, Begins, at
<1>4. ASSUME AllSetups, SetupInv PROVE SetupInv'
    <2>1. /\ request'[r].at = "deploy_claimed" /\ request'[r].op = op
          /\ \A q \in Requests \ {r} : request'[q] = request[q]
          /\ UNCHANGED <<started, abandoned>>
        BY <1>1 DEF Begins
    <2>2. \A q \in Requests : ~ Busy(q) /\ ~ Deploys(q)
        BY <1>1, <1>4, FreeSetup, DeployersHold
    <2>3. \A q \in Requests \ {r} : ~ EmsWorker(q)' /\ ~ Busy(q)' /\ ~ Deploys(q)'
        BY <2>1, <2>2 DEF Busy, EmsWorker, Deploys, at
    <2>4. \A q \in Requests : ~ at(q, "importing")
        BY <1>1, <1>4 DEF SetupInv, Import, Imports
    <2>5. OneHolder' /\ OneImport'
        BY <2>1, <2>3, <2>4 DEF OneHolder, OneImport, at
    <2>6. Abandoned'
        BY <1>1, <1>4, <2>1 DEF SetupInv, Abandoned
    <2>7. \A o : Past(o)'
        BY <1>1 DEF Past, Late
    <2>8. Worker(r)' /\ Import(r)' /\ NotCancelled(r)' /\ OwnDeployment(r)'
        BY <1>1, <2>1, <2>7 DEF Worker, Import, NotCancelled, OwnDeployment, at
    <2>9. ASSUME NEW q \in Requests \ {r}
          PROVE  Worker(q)' /\ Import(q)' /\ NotCancelled(q)' /\ OwnDeployment(q)'
        <3>1. Worker(q)'
            BY <1>4, <2>1, <2>3 DEF SetupInv, Worker, at
        <3>2. Import(q)'
            BY <1>4, <2>1, <2>4, <2>7 DEF SetupInv, Import, at
        <3>3. NotCancelled(q)' /\ OwnDeployment(q)'
            BY <2>3 DEF NotCancelled, OwnDeployment, Deploys, at
        <3>4. QED
            BY <3>1, <3>2, <3>3
    <2>10. QED
        BY <2>5, <2>6, <2>8, <2>9 DEF SetupInv
<1>5. QED
    BY <1>2, <1>3, <1>4 DEF Preserved

LEMMA DeployWorkerPreserves ==
    ASSUME Inv, NEW r \in Requests, DeployWorker(r)
    PROVE  Preserved
<1>1. CASE CalmStep(r)
    BY <1>1, CalmPreserves
<1>2. CASE /\ Begins(r, "deploying", request[r].op, TRUE) /\ at(r, "deploy_claimed")
           /\ request[r].op \notin abandoned /\ record' = record
    <2>1. /\ request'[r].at = "deploying" /\ request'[r].op = request[r].op /\ request'[r].worker = TRUE
          /\ \A q \in Requests \ {r} : request'[q] = request[q]
          /\ \A o \in Operations : active[o] \subseteq active'[o]
          /\ UNCHANGED <<started, abandoned>>
        BY <1>2 DEF Begins
    <2>2. Inv' /\ Completion
        BY <1>2, BeginsInv, WorkingFor DEF Completion, at
    <2>3. ASSUME HealthInv PROVE HealthInv'
        BY <1>2, <2>3 DEF HealthInv, KnownGoodWasHealthy, Checked, Begins, at
    <2>4. ASSUME SetupInv PROVE SetupInv'
        <3>1. \A q \in Requests : /\ EmsWorker(q)' <=> EmsWorker(q)
                                  /\ Busy(q)' <=> Busy(q)
                                  /\ Deploys(q)' <=> Deploys(q)
            BY <1>2, <2>1 DEF Busy, EmsWorker, EmsPoints, Deploys, at
        <3>2. OneHolder' /\ OneImport' /\ Abandoned'
            BY <1>2, <2>1, <2>4, <3>1 DEF SetupInv, OneHolder, OneImport, Abandoned, at
        <3>3. ASSUME NEW q \in Requests
              PROVE  Worker(q)' /\ Import(q)' /\ NotCancelled(q)' /\ OwnDeployment(q)'
            <4>1. request'[q].op = request[q].op
                BY <2>1
            <4>2. Worker(q)'
                BY <1>2, <2>1, <2>4, <3>1, <4>1 DEF SetupInv, Worker, Past, at
            <4>3. ~ at(q, "idle") /\ q \in active[request[q].op] => q \in active'[request[q].op]
                BY <2>1, WorkingFor
            <4>4. Import(q)'
                BY <1>2, <2>1, <2>4, <4>1, <4>3 DEF SetupInv, Import, Past, at
            <4>5. NotCancelled(q)' /\ OwnDeployment(q)'
                BY <1>2, <2>1, <2>4, <3>1, <4>1 DEF SetupInv, NotCancelled, OwnDeployment, at
            <4>6. QED
                BY <4>2, <4>4, <4>5
        <3>4. QED
            BY <3>2, <3>3 DEF SetupInv
    <2>5. QED
        BY <2>2, <2>3, <2>4 DEF Preserved
<1>3. QED
    BY <1>1, <1>2, DeployWorkerSteps

LEMMA CancelReadPreserves ==
    ASSUME Inv, NEW r \in Requests, NEW op \in Operations, CancelRead(r, op)
    PROVE  Preserved
<1>1. PICK worker : Begins(r, "cancelling", op, worker)
    BY CancelReadSteps
<1>2. /\ request'[r].at = "cancelling" /\ request'[r].op = op
      /\ \A q \in Requests \ {r} : request'[q] = request[q]
      /\ UNCHANGED <<record, active, started, abandoned>>
      /\ (Mode[op] = "setup" => setup_free) /\ op \in started
    BY <1>1, CancelReadSteps DEF Begins
<1>3. Inv' /\ Completion
    BY <1>1, <1>2, BeginsInv DEF Completion
<1>4. ASSUME HealthInv PROVE HealthInv'
    BY <1>1, <1>2, <1>4 DEF HealthInv, KnownGoodWasHealthy, Checked, Begins, at
<1>5. ASSUME AllSetups, SetupInv PROVE SetupInv'
    <2>1. \A q \in Requests : ~ Busy(q)
        BY <1>2, <1>5, FreeSetup DEF AllSetups
    <2>2. /\ ~ EmsWorker(r)' /\ ~ Deploys(r)'
          /\ \A q \in Requests \ {r} : ~ Busy(q)' /\ ~ EmsWorker(q)' /\ (Deploys(q)' <=> Deploys(q))
        BY <1>2, <2>1 DEF Busy, EmsWorker, EmsPoints, Deploys, at
    <2>3. OneHolder' /\ OneImport' /\ Abandoned'
        BY <1>2, <1>5, <2>2 DEF SetupInv, OneHolder, OneImport, Abandoned, at
    <2>4. Worker(r)' /\ Import(r)' /\ NotCancelled(r)' /\ OwnDeployment(r)'
        BY <1>2, <2>2 DEF Worker, Import, NotCancelled, OwnDeployment, at
    <2>5. ASSUME NEW q \in Requests \ {r}
          PROVE  Worker(q)' /\ Import(q)' /\ NotCancelled(q)' /\ OwnDeployment(q)'
        BY <1>2, <1>5, <2>2 DEF SetupInv, Worker, Import, NotCancelled, OwnDeployment, Past, at
    <2>6. QED
        BY <2>3, <2>4, <2>5 DEF SetupInv
<1>6. QED
    BY <1>3, <1>4, <1>5 DEF Preserved

LEMMA StartPreserves ==
    ASSUME Inv, NEW op \in Operations, Start(op)
    PROVE  Preserved
<1>1. /\ TypeOK' /\ op \notin started /\ started' = started \cup {op} /\ ~ is_active(record)
      /\ record'.op = op /\ Reached(record') = record'.stage
      /\ record'.stage \in {"admin_aligned", "admin_update_pending"} /\ ~ Imports(record')
      /\ UNCHANGED <<active, abandoned, request, known_good, ems, healthy>>
    BY StartSteps
<1>2. \A q \in Requests : ~ at(q, "idle") => request[q].op \in started /\ request[q].op # op
    BY <1>1, WorkingFor
<1>3. Inv'
    <2>1. Known'
        BY <1>1 DEF Inv, Known, at
    <2>2. RecordedFirst'
        BY <1>1, <1>2 DEF Inv, RecordedFirst, at
    <2>3. QED
        BY <1>1, <2>1, <2>2 DEF Inv
<1>4. Completion
    BY <1>1 DEF Completion
<1>5. ASSUME HealthInv PROVE HealthInv'
    BY <1>1, <1>2, <1>5 DEF HealthInv, KnownGoodWasHealthy, Checked, at
<1>6. ASSUME SetupInv PROVE SetupInv'
    <2>1. \A q \in Requests : ~ at(q, "importing")
        BY <1>1, <1>6 DEF SetupInv, Import, Imports, is_active, TerminalStages, NoStage
    <2>2. OneHolder' /\ OneImport'
        BY <1>1, <1>6 DEF SetupInv, OneHolder, OneImport, Busy, EmsWorker, at
    <2>3. Abandoned'
        BY <1>1, <1>6 DEF SetupInv, Abandoned
    <2>4. ASSUME NEW q \in Requests
          PROVE  Worker(q)' /\ Import(q)' /\ NotCancelled(q)' /\ OwnDeployment(q)'
        <3>1. ~ at(q, "idle") => Past(request[q].op)'
            BY <1>1, <1>2 DEF Past
        <3>2. Worker(q)'
            BY <1>1, <1>6, <3>1 DEF SetupInv, Worker, EmsWorker, EmsPoints, Past, at
        <3>3. Import(q)'
            BY <1>1, <1>6, <2>1, <3>1 DEF SetupInv, Import, Past, at
        <3>4. NotCancelled(q)' /\ OwnDeployment(q)'
            BY <1>1, <1>2, <1>6 DEF SetupInv, NotCancelled, OwnDeployment, Deploys, at
        <3>5. QED
            BY <3>2, <3>3, <3>4
    <2>5. QED
        BY <2>2, <2>3, <2>4 DEF SetupInv
<1>7. QED
    BY <1>3, <1>4, <1>5, <1>6 DEF Preserved

LEMMA ReturnPreserves ==
    ASSUME Inv, NEW op \in Operations, ReturnToRunning(op)
    PROVE  Preserved
<1>1. /\ TypeOK' /\ Mode[op] = "upgrade" /\ record'.op = record.op
      /\ record'.stage = "cancelled" /\ Reached(record') = "cancelled"
      /\ UNCHANGED <<started, active, abandoned, request, known_good, ems, healthy>>
    BY ReturnSteps
<1>2. Inv' /\ Completion
    BY <1>1 DEF Inv, Known, RecordedFirst, Completion, at
<1>3. ASSUME HealthInv PROVE HealthInv'
    BY <1>1, <1>3 DEF HealthInv, KnownGoodWasHealthy, Checked, at
<1>4. ~ AllSetups
    BY <1>1 DEF AllSetups
<1>5. QED
    BY <1>2, <1>3, <1>4 DEF Preserved

-----------------------------------------------------------------------------
(***************************************************************************)
(* The theorems.                                                           *)
(***************************************************************************)

LEMMA InitHolds == Init => Inv /\ HealthInv /\ SetupInv
<1> SUFFICES ASSUME Init PROVE Inv /\ HealthInv /\ SetupInv
    OBVIOUS
<1>1. /\ record = NoTransition /\ started = {} /\ abandoned = {} /\ known_good = InitialBuild
      /\ healthy = {InitialBuild}
      /\ request = [r \in Requests |-> Idle] /\ \A r \in Requests : request[r].at = "idle"
    BY IdleRequest DEF Init
<1>2. FALSE \in BOOLEAN
    BY Zenon
<1>3. record \in Records /\ parses(record) /\ record.op = NoOperation /\ Reached(record) = NoStage
    BY <1>1, <1>2 DEF NoTransition, Records, parses, Reached, NoStage
<1>4. TypeOK
    BY <1>1, <1>3, IdleRequest, TransitionAssumption DEF Init, TypeOK
<1>5. Inv
    BY <1>1, <1>3, <1>4 DEF Inv, Known, RecordedFirst, at
<1>6. HealthInv
    BY <1>1, <1>3 DEF HealthInv, KnownGoodWasHealthy, Checked, NoStage, at
<1>7. SetupInv
    BY <1>1 DEF SetupInv, OneHolder, OneImport, Abandoned, Worker, Import, NotCancelled, OwnDeployment,
       Busy, EmsWorker, EmsPoints, Deploys, at
<1>8. QED
    BY <1>5, <1>6, <1>7

LEMMA StepHolds ==
    ASSUME Inv, [Next]_vars
    PROVE  Preserved
<1>1. CASE UNCHANGED vars
    <2>1. QuietStep
        BY <1>1, QuietRecord DEF vars, machine, process, counters, QuietStep, Inv, TypeOK
    <2>2. QED
        BY <2>1, QuietPreserves
<1>2. CASE AdminRestarts \/ \E op \in Operations : SidecarRecreates(op)
    BY <1>2, EndActions, EndPreserves DEF Inv
<1>3. CASE \/ Expire
           \/ \E op \in Operations : \/ DispatchOwn(op) \/ Retry(op) \/ DispatchStep(op)
                                     \/ SidecarClaim(op) \/ SidecarRead(op) \/ SidecarFails(op)
                                     \/ SidecarGone(op) \/ ResumeAligned(op) \/ BeginEms(op)
    BY <1>3, QuietActions, QuietPreserves DEF Inv
<1>4. CASE \E op \in Operations : Start(op) \/ ReturnToRunning(op)
    BY <1>4, StartPreserves, ReturnPreserves
<1>5. CASE \E r \in Requests : RequestStep(r)
    <2>1. PICK r \in Requests : RequestStep(r)
        BY <1>5
    <2>2. CASE ResumeProbe(r) \/ ResumeRecord(r)
        <3>1. request[r].op \in Operations
            BY <2>2, WorkingFor DEF ResumeProbe, ResumeRecord, at
        <3>2. QED
            BY <2>2, <3>1, AskingCalm, CalmPreserves
    <2>3. CASE ImportClaim(r) \/ ImportEnd(r) \/ JobClaim(r) \/ DeployWorker(r)
        BY <2>3, ImportClaimPreserves, ImportEndPreserves, JobClaimPreserves, DeployWorkerPreserves
    <2>4. CASE Deployed(r) \/ DeployFailed(r) \/ FinishEms(r) \/ Recover(r)
        BY <2>4, DeployedPreserves, FailingSteps, CalmPreserves, FinishEmsPreserves
    <2>5. CASE HealthPassed(r) \/ HealthFailed(r) \/ IdentityChecked(r)
        BY <2>5, HealthPassedPreserves, FailingSteps, CalmPreserves, IdentityCheckedPreserves
    <2>6. CASE RecordKnownGood(r) \/ Complete(r) \/ CancelCommit(r)
        BY <2>6, RecordKnownGoodPreserves, CompletePreserves, CancelCommitPreserves
    <2>7. QED
        BY <2>1, <2>2, <2>3, <2>4, <2>5, <2>6 DEF RequestStep
<1>6. CASE \E r \in Requests, op \in Operations : RequestBegin(r, op)
    <2>1. PICK r \in Requests, op \in Operations : RequestBegin(r, op)
        BY <1>6
    <2>2. CASE ResumeMismatch(r, op) \/ RecoverBegin(r, op)
        BY <2>2, AskingCalm, CalmPreserves
    <2>3. CASE ImportBegin(r, op) \/ JobBegin(r, op)
        BY <2>3, ClaimBeginPreserves
    <2>4. CASE DeployClaim(r, op) \/ CancelRead(r, op)
        BY <2>4, DeployClaimPreserves, CancelReadPreserves
    <2>5. QED
        BY <2>1, <2>2, <2>3, <2>4 DEF RequestBegin
<1>7. QED
    BY <1>1, <1>2, <1>3, <1>4, <1>5, <1>6 DEF Next, SidecarStep

\* Every variable has its type and the record on disk can be parsed again,
\* whatever operations, restarts, sidecars and requests come together: no store
\* write leaves a record that parse_transition_record would refuse.
THEOREM TypeCorrect == Spec => []TypeOK
<1>1. Init => Inv
    BY InitHolds
<1>2. Inv /\ [Next]_vars => Inv'
    BY StepHolds DEF Preserved
<1>3. Inv => TypeOK
    BY DEF Inv
<1>4. QED
    BY <1>1, <1>2, <1>3, PTL DEF Spec

\* The first operation is completed only after its build was recorded as known
\* good (finish_healthcheck), for setups and upgrades alike.
THEOREM CompletesKnownGoodAlways == Spec => CompletesKnownGood
<1>1. Init => Inv
    BY InitHolds
<1>2. Inv /\ [Next]_vars => Inv'
    BY StepHolds DEF Preserved
<1>3. Inv /\ [Next]_vars
      => [record'.stage = "completed" /\ record.stage # "completed" /\ started = {record.op}
            => known_good = Target[record.op]]_vars
    BY StepHolds DEF Preserved, Completion
<1>4. QED
    BY <1>1, <1>2, <1>3, PTL DEF Spec, CompletesKnownGood

LEMMA SetupInvariant ==
    ASSUME AllSetups
    PROVE  Spec => [](Inv /\ SetupInv)
<1>1. Init => Inv /\ SetupInv
    BY InitHolds
<1>2. Inv /\ SetupInv /\ [Next]_vars => (Inv /\ SetupInv)'
    BY StepHolds DEF Preserved
<1>3. QED
    BY <1>1, <1>2, PTL DEF Spec

\* Where every operation is a setup, the workflow's claim (SetupLifecycle-
\* Coordinator) keeps deployments apart.
THEOREM OneDeploymentAlways ==
    ASSUME \A op \in Operations : Mode[op] = "setup"
    PROVE  Spec => []OneDeployment
<1>1. AllSetups
    BY DEF AllSetups
<1>2. SetupInv => OneDeployment
    BY DeployersHold DEF SetupInv, OneHolder, OneDeployment, Deploys, at
<1>3. Spec => [](Inv /\ SetupInv)
    BY <1>1, SetupInvariant
<1>4. QED
    BY <1>2, <1>3, PTL

\* Where every operation is a setup, no worker imports or deploys for an
\* operation that was abandoned: OperationCoordinator.abandon finds no claim of
\* an import, and the cancel route holds the workflow that a deployment needs.
THEOREM NoWorkerAfterCancelAlways ==
    ASSUME \A op \in Operations : Mode[op] = "setup"
    PROVE  Spec => []NoWorkerAfterCancel
<1>1. AllSetups
    BY DEF AllSetups
<1>2. SetupInv => NoWorkerAfterCancel
    BY DEF SetupInv, Abandoned, Import, Imports, NotCancelled, Deploys, NoWorkerAfterCancel, mutating, at
<1>3. Spec => [](Inv /\ SetupInv)
    BY <1>1, SetupInvariant
<1>4. QED
    BY <1>2, <1>3, PTL

\* A build becomes known good only after its own EMS passed a health check
\* (finish_healthcheck), if all operations are setups or all install one build:
\* then no other build is deployed between a verdict and the known-good write.
THEOREM KnownGoodWasHealthyAlways ==
    ASSUME \/ \A op \in Operations : Mode[op] = "setup"
           \/ \A op, other \in Operations : Target[op] = Target[other]
    PROVE  Spec => []KnownGoodWasHealthy
<1>1. CASE \A op \in Operations : Mode[op] = "setup"
    <2>1. AllSetups
        BY <1>1 DEF AllSetups
    <2>2. SetupInv => Compatible
        BY DeployersHold DEF SetupInv, OneHolder, OwnDeployment, Compatible, Deploys, at
    <2>3. Inv /\ SetupInv /\ HealthInv /\ [Next]_vars => HealthInv'
        BY <2>2, StepHolds DEF Preserved
    <2>4. Spec => [](Inv /\ SetupInv)
        BY <2>1, SetupInvariant
    <2>5. Init => HealthInv
        BY InitHolds
    <2>6. HealthInv => KnownGoodWasHealthy
        BY DEF HealthInv
    <2>7. QED
        BY <2>3, <2>4, <2>5, <2>6, PTL DEF Spec
<1>2. CASE \A op, other \in Operations : Target[op] = Target[other]
    <2>1. Inv => Compatible
        <3> SUFFICES ASSUME Inv PROVE Compatible
            OBVIOUS
        <3>1. \A r \in Requests : ~ at(r, "idle") => request[r].op \in Operations
            BY WorkingFor
        <3>2. QED
            BY <1>2, <3>1 DEF Compatible, Deploys, at
    <2>2. Init => Inv /\ HealthInv
        BY InitHolds
    <2>3. Inv /\ HealthInv /\ [Next]_vars => (Inv /\ HealthInv)'
        BY <2>1, StepHolds DEF Preserved
    <2>4. HealthInv => KnownGoodWasHealthy
        BY DEF HealthInv
    <2>5. QED
        BY <2>2, <2>3, <2>4, PTL DEF Spec
<1>3. QED
    BY <1>1, <1>2
=============================================================================
