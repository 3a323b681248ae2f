--------------------------- MODULE TransitionStore ---------------------------
(***************************************************************************)
(* admin/admin_update.py: the durable record of one paired Admin and EMS   *)
(* build transition and the operations of PendingTransitionStore on it.    *)
(*                                                                         *)
(* A store operation runs under a lock that spans threads and processes    *)
(* and replaces the file atomically, so each is a guard over the record    *)
(* (the code raises where it is false) and the record it writes.  The TTL  *)
(* is the flag `expired`: a forward write renews the deadline of a record  *)
(* that is still live and never revives one that has passed.               *)
(***************************************************************************)
EXTENDS Naturals

CONSTANTS
    Operations,     \* operation ids
    NoOperation     \* no transition record was ever written

ASSUME OperationsAssumption == NoOperation \notin Operations

Stages == {"admin_update_pending", "admin_reconnect_pending", "admin_aligned",
           "resources_verified", "ems_operation_pending",
           "ems_operation_running", "healthcheck_pending", "completed",
           "failed_recoverable", "cancelled"}

TerminalStages == {"completed", "cancelled"}

CancellableStages == {"admin_update_pending", "admin_aligned",
                      "resources_verified", "ems_operation_pending",
                      "failed_recoverable"}

\* The stage whose mutation runs in the replacement sidecar.
ExternallyOwnedStages == {"admin_reconnect_pending"}

\* _TRANSITION_EDGES, the edges to failed_recoverable left to mark_failed.
Edges == {<<"admin_update_pending", "admin_reconnect_pending">>,
          <<"admin_reconnect_pending", "admin_aligned">>,
          <<"admin_aligned", "resources_verified">>,
          <<"resources_verified", "ems_operation_pending">>,
          <<"ems_operation_pending", "ems_operation_running">>,
          <<"ems_operation_running", "healthcheck_pending">>,
          <<"healthcheck_pending", "completed">>}

\* _RECOVERY_STAGES_BY_FAILED_STAGE: where a failure of a stage may resume.
Recovery == {<<"admin_update_pending", "admin_update_pending">>,
             <<"admin_reconnect_pending", "admin_update_pending">>,
             <<"admin_aligned", "admin_aligned">>,
             <<"resources_verified", "resources_verified">>,
             <<"ems_operation_pending", "ems_operation_pending">>,
             <<"ems_operation_running", "ems_operation_pending">>,
             <<"healthcheck_pending", "healthcheck_pending">>,
             <<"healthcheck_pending", "ems_operation_pending">>}

NoStage == "none"

\* The mutable half of a TransitionRecord.  `sidecar` numbers the updater's
\* claim (admin_update_claimed_at), 0 for none.
Records == [op : Operations \cup {NoOperation}, stage : Stages \cup {NoStage},
            failed : Stages \cup {NoStage}, resume : Stages \cup {NoStage},
            sidecar : Nat, resources : BOOLEAN, expired : BOOLEAN]

NoTransition == [op |-> NoOperation, stage |-> NoStage, failed |-> NoStage,
                 resume |-> NoStage, sidecar |-> 0, resources |-> FALSE,
                 expired |-> FALSE]

\* What parse_transition_record accepts of a record's recovery metadata.
parses(rec) ==
    IF rec.stage = "failed_recoverable" THEN <<rec.failed, rec.resume>> \in Recovery
                                        ELSE rec.failed = NoStage /\ rec.resume = NoStage

is_active(rec) == rec.stage \notin TerminalStages \cup {NoStage}

\* _record_locked and _require_mutable.
mutable(rec, op) == rec.op = op /\ is_active(rec)

begin_ok(rec) == ~ is_active(rec)

begun(op, stage) == [NoTransition EXCEPT !.op = op, !.stage = stage]

\* advance; repeating a committed edge is answered with the record.
advance_ok(rec, op, from, to) ==
    mutable(rec, op) /\ <<from, to>> \in Edges /\ rec.stage \in {from, to}

advanced(rec, to) == [rec EXCEPT !.stage = to]

\* claim: the one caller that takes the edge; a duplicate is told FALSE.
claim_ok(rec, op, from, to) ==
    mutable(rec, op) /\ <<from, to>> \in Edges /\ rec.stage = from /\ ~ rec.expired

claim_admin_update_ok(rec, op) ==
    /\ mutable(rec, op)
    /\ ~ rec.expired
    /\ rec.stage = "admin_reconnect_pending"
    /\ rec.sidecar = 0

claim_resource_ok(rec, op) ==
    /\ mutable(rec, op)
    /\ ~ rec.expired
    /\ rec.stage = "admin_aligned"
    /\ ~ rec.resources

\* mark_failed; a second failure is refused or is the same one again.
mark_failed_ok(rec, op, resume) ==
    mutable(rec, op) /\ <<rec.stage, resume>> \in Recovery

marked_failed(rec, resume) ==
    [rec EXCEPT !.stage = "failed_recoverable", !.failed = rec.stage, !.resume = resume]

failed_if_ok(rec, op, resume) ==
    IF mark_failed_ok(rec, op, resume) THEN marked_failed(rec, resume) ELSE rec

retry_ok(rec, op) ==
    mutable(rec, op) /\ ~ rec.expired /\ rec.stage = "failed_recoverable"

\* Mutant: the reopened record keeps what failed.
retried_uncleared(rec) == [rec EXCEPT !.stage = rec.resume]

retried(rec) ==
    [rec EXCEPT !.stage = rec.resume, !.failed = NoStage, !.resume = NoStage,
                !.sidecar = IF rec.resume = "admin_update_pending" THEN 0 ELSE @,
                !.resources = rec.resume # "admin_aligned" /\ @]

resource_verification_active(rec) == rec.stage = "admin_aligned" /\ rec.resources

\* Mutant: expiry opens no mutating stage to cancel.
cancel_cancellable_only(rec, op, replacement_inactive, sidecar) ==
    /\ mutable(rec, op)
    /\ rec.stage \in CancellableStages
    /\ ~ resource_verification_active(rec)

\* cancel: an expired record from any stage, a live one outside the mutating
\* stages, or with the proof that the sidecar it was read against is gone.
cancel_ok(rec, op, replacement_inactive, sidecar) ==
    /\ mutable(rec, op)
    /\ \/ rec.expired
       \/ /\ \/ rec.stage \in CancellableStages
             \/ /\ replacement_inactive
                /\ rec.stage \in ExternallyOwnedStages
                /\ rec.sidecar = sidecar
          /\ ~ resource_verification_active(rec)

cancelled(rec) ==
    [rec EXCEPT !.stage = "cancelled", !.failed = NoStage, !.resume = NoStage]
=============================================================================
