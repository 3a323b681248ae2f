---------------------------- MODULE SchedulerHistory ----------------------------
(***************************************************************************)
(* Scheduler with the history its safety properties speak of: which switch *)
(* points fired, and which times lay in a pause.                           *)
(***************************************************************************)
EXTENDS MCScheduler

VARIABLES
    fired,          \* switch points fired, but for those a stopped EMS lost
    pausedAt,       \* the clock's highest reading when the schedule was paused, 0 for not
    silent,         \* times that lay in a pause
    refused         \* a setting refused a value

history == <<fired, pausedAt, silent, refused>>

\* A switch point of a setting.
Point(p) == <<p.slot, p.rec>>

Firing == cycle.pc = "apply" /\ ~ cycle.recording /\ cycle'.recording

\* What the file's last applied point says has fired: all a stopped EMS leaves.
OnRecord(f) == f[2].at <= file'.text.applied[f[1]].at

\* An apply-now request records an earlier moment over a later one.
Overtaken ==
    /\ request.pc = "record" /\ request'.pc = "write"
    /\ request.rec.at < file.text.applied[request.slot].at

\* A lost window closed under a clock set back before its start: the close is
\* recorded at an earlier moment than the start.
ClosedEarly ==
    /\ cycle.pc = "close" /\ cycle.recording /\ ~ cycle'.recording
    /\ cycle.hand.rec.at < book.applied[cycle.hand.slot].at

HistoryInit == fired = {} /\ pausedAt = 0 /\ silent = {} /\ refused = FALSE

\* A resume makes the times since its pause silent; those after it, of an earlier
\* pause the clock was set back into, are ahead again.
Pauses ==
    /\ pausedAt' = IF file'.text.enabled THEN 0 ELSE IF file.text.enabled THEN peak ELSE pausedAt
    /\ silent' = IF file'.text.enabled /\ ~ file.text.enabled
                 THEN {t \in silent : t <= now} \cup (pausedAt + 1)..now ELSE silent

Firings ==
    fired' = IF Firing THEN fired \cup {Point(cycle'.hand)}
             ELSE IF Overtaken THEN {f \in fired : OnRecord(f)}
             ELSE IF ClosedEarly THEN {f \in fired : f[2].at <= book'.applied[f[1]].at}
             ELSE fired

MCInit == Init /\ HistoryInit
MCNext ==
    \/ Step /\ Pauses /\ Firings /\ UNCHANGED refused
    \/ WriteRefused /\ Pauses /\ refused' = TRUE /\ UNCHANGED fired
    \/ Crash /\ Pauses /\ UNCHANGED refused /\ fired' = {f \in fired : OnRecord(f)}
MCSpec == MCInit /\ [][MCNext]_<<vars, history>>

\* A cycle is skipped only when it would do nothing: with the loop idle, not
\* stale, the clock neither back nor at the awaited point, and the file as read,
\* no switch point is due and no window has lost its rule (_tick's early return);
\* a value a setting refused stays due and is left aside.
NothingMissed ==
    /\ ~ refused
    /\ cycle.pc = "idle" /\ book # NoBook /\ ~ stale /\ clock_trusted(now)
    /\ file.readable /\ book = file.text
    /\ now >= lastNow /\ (nextAt = 0 \/ now < nextAt)
    => due_switch_points(book, now) = {} /\ LostWindows(book, now) = {}

\* A switch point fires once, through failed records, its rule saved again,
\* pauses, a restored file and a clock set back within a day, while nobody removes
\* or spoils the file; twice only when the EMS was stopped before the first firing
\* reached it, or an earlier moment was recorded over it: by an apply-now request,
\* or by the close of a window that lost its rule while the clock was set back
\* (_bound, _unrecorded).
FiresOnce == [][Firing => Point(cycle'.hand) \notin fired]_<<vars, history>>

\* A switch point that fell in a pause never fires, however late the pause or
\* the resume is seen, unless the schedule is resumed again with the clock set
\* back before it (set_enabled, _bound).
PauseIsSilent == [][Firing => cycle'.hand.rec.at \notin silent]_<<vars, history>>
=============================================================================
