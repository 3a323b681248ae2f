------------------------------ MODULE Scheduler ------------------------------
(***************************************************************************)
(* ems/scheduler.py and ems/schedule_store.py: the control loop's tick     *)
(* fires the due switch points of the rules in schedules.json into the     *)
(* runtime state, and records in the same file what it applied.  The       *)
(* dashboard and emsctl edit that file and the runtime state from other    *)
(* threads and processes; dashboard/schedule_api.py's apply-now records    *)
(* and writes as well.                                                     *)
(*                                                                         *)
(* Time is counted in units no shorter than RELOAD_EVERY.  A rule is a     *)
(* slot, a set of occurrences and its last save; a rule switched off is    *)
(* one the book does not have, since the scheduler reads only enabled      *)
(* rules.                                                                  *)
(***************************************************************************)
EXTENDS Naturals, FiniteSets

CONSTANTS
    RuleIds,        \* rule ids; the smaller one stands higher in the list
    Slots,          \* the settings rules act on
    Whens,          \* sets of occurrences [start, end]; end 0 is "at a time"
    MaxTime,        \* bound: the clock
    Tolerance,      \* FUTURE_TOLERANCE
    MaxBack,        \* how far below its highest reading the clock is set back
    Outcomes,       \* how a runtime write can end: ok, busy, failed, refused
    Ops,            \* what the surroundings do: save, delete, pause, ...
    MaxOps          \* bound: how often they do

ASSUME SchedulerAssumption ==
    /\ RuleIds \subseteq Nat \ {0}
    /\ {MaxTime, Tolerance, MaxBack, MaxOps} \subseteq Nat
    /\ \A w \in Whens : \A o \in w :
          o.start \in 1..MaxTime /\ o.end \in 0..MaxTime /\ (o.end = 0 \/ o.start < o.end)
    /\ \A w \in Whens : \A o, x \in w : o.start = x.start => o = x
    /\ "ok" \in Outcomes /\ Outcomes \subseteq {"ok", "busy", "failed", "refused"}

VARIABLES
    now,            \* the clock
    peak,           \* its highest reading so far
    file,           \* schedules.json: [readable, text], text a book
    runtime,        \* runtime state: the value of each slot
    book,           \* _book, or NoBook
    unrecorded,     \* _unrecorded, by slot
    openWindows,    \* _open_windows, by slot
    loadedAt,       \* _loaded_at, 0 for None
    signed,         \* _signature holds a value
    stale,          \* _stale
    lastNow,        \* _last_now, 0 for None
    nextAt,         \* _next_at, 0 for None
    storeBusy,      \* _store_busy
    cycle,          \* the running tick: [pc, now, todo, hand]
    request,        \* an apply-now request: [pc, slot, rec]
    backup,         \* the book a backup holds
    ops             \* what the surroundings have done

process == <<book, unrecorded, openWindows, loadedAt, signed, stale, lastNow, nextAt, storeBusy>>
clock == <<now, peak>>
around == <<request, backup, ops>>
vars == <<clock, file, runtime, process, cycle, around>>

START == "start"
END == "end"
CLOCK_FLOOR == 1
NoRule == [slot |-> "none"]
NoRecord == [rule |-> 0, kind |-> "none", at |-> 0, ends |-> 0]
NoBook == [enabled |-> FALSE]
Manual == <<0, "manual">>
Idle == [pc |-> "idle", recording |-> FALSE, now |-> 0, todo |-> {},
         hand |-> [slot |-> "none", rec |-> NoRecord]]
NoRequest == [pc |-> "none", slot |-> "none", rec |-> NoRecord]

Rule == [slot : Slots, when : UNION {SUBSET w : w \in Whens}, is_window : BOOLEAN, updatedAt : 0..MaxTime]
Record == [rule : RuleIds, kind : {START, END}, at : 0..MaxTime, ends : 0..MaxTime]
Book == [enabled : BOOLEAN, rules : [RuleIds -> Rule \cup {NoRule}],
         applied : [Slots -> Record \cup {NoRecord}], resumedAt : 0..MaxTime]

empty_book ==
    [enabled |-> TRUE, rules |-> [r \in RuleIds |-> NoRule],
     applied |-> [s \in Slots |-> NoRecord], resumedAt |-> 0]

\* What a record's write leaves in the slot; "set" is the value of a rule that is
\* "at a time", which nothing ends.
Value(rec) == <<rec.rule, IF rec.kind = START /\ rec.ends = 0 THEN "set" ELSE rec.kind>>
NoRecords == [s \in Slots |-> NoRecord]

(***************************************************************************)
(* Switch points.                                                          *)
(***************************************************************************)
valid_rules(b) == {r \in RuleIds : b.rules[r] # NoRule}

switch_points(r, rule, after, until) ==
    {[slot |-> rule.slot, rec |-> [rule |-> r, kind |-> START, at |-> o.start, ends |-> o.end]]
        : o \in {x \in rule.when : after < x.start /\ x.start <= until}}
    \cup
    {[slot |-> rule.slot, rec |-> [rule |-> r, kind |-> END, at |-> o.end, ends |-> 0]]
        : o \in {x \in rule.when : x.end # 0 /\ after < x.end /\ x.end <= until}}

\* SwitchPoint.order: the later one; at one instant a start, then the higher rule.
Beats(p, q) ==
    \/ p.rec.at > q.rec.at
    \/ p.rec.at = q.rec.at /\ p.rec.kind = START /\ q.rec.kind = END
    \/ p.rec.at = q.rec.at /\ p.rec.kind = q.rec.kind /\ p.rec.rule < q.rec.rule

Largest(S) == IF S = {} THEN 0 ELSE CHOOSE x \in S : \A y \in S : y <= x

\* Mutant: the last resume is no bound.
BoundWithoutResume(rule, appliedAt, b, t) ==
    Largest({x \in {rule.updatedAt, appliedAt} : x <= t + Tolerance})

\* _bound: a stamp more than a day ahead was set by a clock that ran ahead.
bound(rule, appliedAt, b, t) ==
    Largest({x \in {rule.updatedAt, appliedAt, b.resumedAt} : x <= t + Tolerance})

due_switch_points(b, t) ==
    LET points == IF b.enabled
                  THEN UNION {switch_points(r, b.rules[r],
                                 bound(b.rules[r], b.applied[b.rules[r].slot].at, b, t), t)
                                 : r \in valid_rules(b)}
                  ELSE {}
    IN  {p \in points : \A q \in points : q.slot = p.slot /\ q # p => Beats(p, q)}

next_switch_at(b, t) ==
    LET ahead == IF b.enabled
                 THEN {p.rec.at : p \in UNION {switch_points(r, b.rules[r], t, MaxTime)
                                                  : r \in valid_rules(b)}}
                 ELSE {}
    IN  IF ahead = {} THEN 0 ELSE CHOOSE x \in ahead : \A y \in ahead : x <= y

same_window_rule(s, rec, b) ==
    /\ b.rules[rec.rule] # NoRule
    /\ b.rules[rec.rule].is_window
    /\ b.rules[rec.rule].slot = s

window_still_open(s, rec, b, t) ==
    /\ b.enabled
    /\ same_window_rule(s, rec, b)
    /\ LET rule == b.rules[rec.rule]
           moment == IF t < rec.at /\ rec.at <= t + Tolerance THEN rec.at ELSE t
       IN  \E o \in rule.when :
              /\ o.start <= moment /\ moment < o.end
              /\ o.end > bound(rule, rec.at, b, t)

\* Windows of one slot may not overlap (check_rule on the book under the lock).
window_clash(r, rule, b) ==
    /\ rule.is_window
    /\ \E other \in valid_rules(b) \ {r} :
          /\ b.rules[other].slot = rule.slot /\ b.rules[other].is_window
          /\ \E o \in rule.when, x \in b.rules[other].when : o.start < x.end /\ x.start < o.end

(***************************************************************************)
(* Init.  The clock of the host may not be set yet (0).                    *)
(***************************************************************************)
FreshProcess ==
    /\ book = NoBook /\ unrecorded = NoRecords /\ openWindows = NoRecords
    /\ loadedAt = 0 /\ signed = FALSE /\ stale = TRUE
    /\ lastNow = 0 /\ nextAt = 0 /\ storeBusy = FALSE /\ cycle = Idle

Init ==
    /\ now = 0 /\ peak = 0
    /\ file = [readable |-> TRUE, text |-> empty_book]
    /\ runtime = [s \in Slots |-> Manual]
    /\ FreshProcess
    /\ request = NoRequest /\ backup = empty_book /\ ops = 0

(***************************************************************************)
(* _refresh: the book the file gives, with what only memory still knows.   *)
(***************************************************************************)
\* Mutant: a file replaced under a running window forgets the window.
CarryNothing(text) == unrecorded

\* _carry_open_windows
carry_open_windows(text) ==
    LET previous == IF book # NoBook THEN book.applied ELSE openWindows
        Carried(s) ==
            LET rec == previous[s] IN
            /\ rec.ends # 0 /\ unrecorded[s] = NoRecord
            /\ ~ (text.applied[s] # NoRecord /\ text.applied[s].at >= rec.at)
            /\ ~ \E x \in Slots : text.applied[x].rule = rec.rule /\ text.applied[x].at = rec.at
    IN  [s \in Slots |-> IF Carried(s) THEN previous[s] ELSE unrecorded[s]]

\* _with_unrecorded: what stays unrecorded, and the book laid over it.
StillUnrecorded(text, un) ==
    [s \in Slots |-> IF text.applied[s] # NoRecord /\ text.applied[s].at >= un[s].at
                     THEN NoRecord ELSE un[s]]
with_unrecorded(text, un) ==
    [text EXCEPT !.applied =
        [s \in Slots |-> IF un[s] # NoRecord THEN un[s] ELSE text.applied[s]]]

clock_trusted(t) == t >= CLOCK_FLOOR

\* What the tick does with the book b it holds after the refresh.
Evaluate(b, un, changed) ==
    LET wentBack == lastNow # 0 /\ now < lastNow
        reached == nextAt # 0 /\ now >= nextAt
    IN  IF ~ clock_trusted(now)
        THEN stale' = TRUE /\ UNCHANGED <<lastNow, cycle>>
        ELSE /\ lastNow' = now
             /\ IF changed \/ wentBack \/ reached \/ stale
                THEN /\ stale' = FALSE
                     /\ cycle' = [Idle EXCEPT !.pc = "flush", !.now = now,
                                     !.todo = {s \in Slots : un[s] # NoRecord}]
                ELSE UNCHANGED <<stale, cycle>>

\* The file is re-read when its signature changed, and each minute regardless:
\* an edit within the minute may stay hidden.
TickUnread ==
    /\ cycle.pc = "idle" /\ signed /\ loadedAt = now /\ book # NoBook
    /\ storeBusy' = FALSE
    /\ Evaluate(book, unrecorded, FALSE)
    /\ UNCHANGED <<clock, file, runtime, book, unrecorded, openWindows, loadedAt, signed, nextAt, around>>

TickRead ==
    /\ cycle.pc = "idle" /\ file.readable
    /\ storeBusy' = FALSE /\ loadedAt' = now /\ signed' = TRUE
    /\ openWindows' = NoRecords
    /\ LET un == StillUnrecorded(file.text, carry_open_windows(file.text))
           b == with_unrecorded(file.text, un)
       IN  /\ unrecorded' = un
           /\ book' = b
           /\ Evaluate(b, un, b # book)
    /\ UNCHANGED <<clock, file, runtime, nextAt, around>>

\* Unreadable: nothing starts, windows that run still end (_end_open_windows).
TickUnreadable ==
    /\ cycle.pc = "idle" /\ ~ file.readable
    /\ storeBusy' = FALSE /\ loadedAt' = now /\ signed' = TRUE
    /\ LET open == IF book = NoBook THEN openWindows
                   ELSE [s \in Slots |-> IF book.applied[s].ends # 0 THEN book.applied[s] ELSE NoRecord]
           over == {s \in Slots : open[s] # NoRecord /\ open[s].ends <= now}
       IN  /\ openWindows' = open
           /\ cycle' = IF clock_trusted(now) /\ over # {}
                       THEN [Idle EXCEPT !.pc = "end", !.now = now,
                                !.todo = {[slot |-> s, rec |-> [rule |-> open[s].rule, kind |-> END,
                                                               at |-> open[s].ends, ends |-> 0]]
                                             : s \in over}]
                       ELSE cycle
    /\ book' = NoBook
    /\ UNCHANGED <<clock, file, runtime, unrecorded, stale, lastNow, nextAt, around>>

(***************************************************************************)
(* _record: store.record_applied under the lock, which may be busy.        *)
(***************************************************************************)
Recorded(s, rec) ==
    /\ file.readable /\ ~ storeBusy
    /\ file' = [file EXCEPT !.text.applied[s] = rec]
    /\ UNCHANGED storeBusy

\* The lock is or was busy, or the write failed with the lock free.
NotRecorded ==
    /\ storeBusy' \in {storeBusy, TRUE}
    /\ UNCHANGED file

\* _record_unrecorded, one slot; the first failure ends it.
RecordUnrecorded ==
    /\ cycle.pc = "flush"
    /\ \E s \in cycle.todo :
          \/ /\ Recorded(s, unrecorded[s])
             /\ unrecorded' = [unrecorded EXCEPT ![s] = NoRecord]
             /\ signed' = FALSE
             /\ cycle' = [cycle EXCEPT !.todo = @ \ {s}]
             /\ UNCHANGED stale
          \/ /\ NotRecorded
             /\ stale' = TRUE
             /\ cycle' = [cycle EXCEPT !.pc = "apply", !.todo = due_switch_points(book, cycle.now)]
             /\ UNCHANGED <<unrecorded, signed>>
    /\ UNCHANGED <<clock, runtime, book, openWindows, loadedAt, lastNow, nextAt, around>>

FlushDone ==
    /\ cycle.pc = "flush" /\ cycle.todo = {}
    /\ cycle' = [cycle EXCEPT !.pc = "apply", !.todo = due_switch_points(book, cycle.now)]
    /\ UNCHANGED <<clock, file, runtime, process, around>>

(***************************************************************************)
(* _write: one runtime write, then the record of it.                       *)
(***************************************************************************)
\* The switch points of a cycle in their order; ends by their time; closes by slot.
IsNext(p) ==
    CASE cycle.pc = "apply" -> \A q \in cycle.todo : q # p => Beats(q, p)
      [] cycle.pc = "end"   -> \A q \in cycle.todo : p.rec.at <= q.rec.at
      [] OTHER              -> TRUE

\* A cycle over the book b: the lost windows it closes once nothing is due any
\* more, each with the end value its start recorded, at the cycle's time.
LostWindows(b, t) ==
    {[slot |-> s, rec |-> [rule |-> b.applied[s].rule, kind |-> END, at |-> t, ends |-> 0]]
        : s \in {x \in Slots : b.applied[x].ends # 0 /\ ~ window_still_open(x, b.applied[x], b, t)}}

Over(b) == nextAt' = next_switch_at(b, cycle.now) /\ cycle' = Idle

\* run_commands accepted p: next it is recorded.
WriteOk ==
    /\ cycle.pc \in {"apply", "close", "end"} /\ ~ cycle.recording
    /\ \E p \in cycle.todo :
          /\ IsNext(p)
          /\ runtime' = [runtime EXCEPT ![p.slot] = Value(p.rec)]
          /\ cycle' = [cycle EXCEPT !.recording = TRUE, !.todo = @ \ {p}, !.hand = p]
    /\ UNCHANGED <<clock, file, process, around>>

\* The setting refuses the value: its turn is over, and it is due again at the
\* next evaluation.
WriteRefused ==
    /\ cycle.pc \in {"apply", "close", "end"} /\ ~ cycle.recording
    /\ "refused" \in Outcomes
    /\ \E p \in cycle.todo : IsNext(p) /\ cycle' = [cycle EXCEPT !.todo = @ \ {p}]
    /\ UNCHANGED <<clock, file, runtime, process, around>>

\* Mutant: a failed write is not remembered for the next cycle.
WriteFailedForgotten ==
    /\ cycle.pc \in {"apply", "close"} /\ ~ cycle.recording
    /\ "failed" \in Outcomes
    /\ \E p \in cycle.todo : IsNext(p) /\ cycle' = [cycle EXCEPT !.todo = @ \ {p}]
    /\ UNCHANGED <<clock, file, runtime, process, around>>

\* The write fails and is tried again next cycle: the others still have their turn.
WriteFailed ==
    /\ cycle.pc \in {"apply", "close"} /\ ~ cycle.recording
    /\ "failed" \in Outcomes
    /\ \E p \in cycle.todo : IsNext(p) /\ cycle' = [cycle EXCEPT !.todo = @ \ {p}]
    /\ stale' = TRUE
    /\ UNCHANGED <<clock, file, runtime, book, unrecorded, openWindows, loadedAt, signed, lastNow,
                   nextAt, storeBusy, around>>

\* The runtime state's lock is busy: the rest waits for the next cycle, the lost
\* windows too.  While the schedules cannot be read, a failed write waits as well.
WriteBusy ==
    /\ cycle.pc \in {"apply", "close", "end"} /\ ~ cycle.recording /\ cycle.todo # {}
    /\ Outcomes \cap (IF cycle.pc = "end" THEN {"busy", "failed"} ELSE {"busy"}) # {}
    /\ stale' = TRUE
    /\ IF cycle.pc = "end" THEN cycle' = Idle /\ UNCHANGED nextAt ELSE Over(book)
    /\ UNCHANGED <<clock, file, runtime, book, unrecorded, openWindows, loadedAt, signed, lastNow,
                   storeBusy, around>>

\* Mutant: what could not be recorded is not kept in memory.
KeepInFile(s, rec) ==
    \/ Recorded(s, rec) /\ UNCHANGED <<unrecorded, stale>>
    \/ NotRecorded /\ UNCHANGED unrecorded /\ stale' = TRUE

\* The record of what was written, in the file or else in memory.
Keep(s, rec) ==
    \/ /\ Recorded(s, rec)
       /\ unrecorded' = [unrecorded EXCEPT ![s] = NoRecord]
       /\ UNCHANGED stale
    \/ /\ NotRecorded
       /\ unrecorded' = [unrecorded EXCEPT ![s] = rec]
       /\ stale' = TRUE

RecordWrite ==
    /\ cycle.recording
    /\ LET s == cycle.hand.slot IN
       /\ Keep(s, cycle.hand.rec)
       /\ book' = IF book = NoBook THEN book ELSE [book EXCEPT !.applied[s] = cycle.hand.rec]
       /\ openWindows' = IF cycle.pc = "end" THEN [openWindows EXCEPT ![s] = NoRecord] ELSE openWindows
    /\ signed' = FALSE
    /\ cycle' = [cycle EXCEPT !.recording = FALSE, !.hand = Idle.hand]
    /\ UNCHANGED <<clock, runtime, loadedAt, lastNow, nextAt, around>>

\* Nothing more is due: the lost windows, then the next switch point to wait for.
PhaseDone ==
    /\ cycle.pc \in {"apply", "close", "end"} /\ ~ cycle.recording /\ cycle.todo = {}
    /\ CASE cycle.pc = "apply" ->
              /\ cycle' = [cycle EXCEPT !.pc = "close", !.todo = LostWindows(book, cycle.now)]
              /\ UNCHANGED nextAt
         [] cycle.pc = "close" -> Over(book)
         [] cycle.pc = "end"   -> cycle' = Idle /\ UNCHANGED nextAt
    /\ UNCHANGED <<clock, file, runtime, book, unrecorded, openWindows, loadedAt, signed, stale,
                   lastNow, storeBusy, around>>

Tick ==
    \/ TickUnread \/ TickRead \/ TickUnreadable
    \/ RecordUnrecorded \/ FlushDone
    \/ WriteOk \/ WriteFailed \/ WriteBusy \/ RecordWrite \/ PhaseDone

(***************************************************************************)
(* The surroundings: the store's other operations, under its lock, people, *)
(* the clock, the host.                                                    *)
(***************************************************************************)
Do(op) == op \in Ops /\ ops < MaxOps /\ ops' = ops + 1

Edit(text) ==
    /\ file' = [readable |-> TRUE, text |-> text]
    /\ UNCHANGED <<clock, runtime, process, cycle, request>>

\* create and replace, stamped with the time of the save: refused when nothing
\* of the rule is still to come or a window overlaps another (check_rule).
Save ==
    /\ Do("save") /\ file.readable
    /\ \E r \in RuleIds, s \in Slots, w \in Whens :
          LET rule == [slot |-> s, when |-> w, is_window |-> \A o \in w : o.end # 0, updatedAt |-> now]
          IN  /\ switch_points(r, rule, now, MaxTime) # {}
              /\ ~ window_clash(r, rule, file.text)
              /\ Edit([file.text EXCEPT !.rules[r] = rule])
    /\ UNCHANGED backup

\* skip: one date left out, which is a save as well.
Skip ==
    /\ Do("skip") /\ file.readable
    /\ \E r \in valid_rules(file.text) : \E o \in file.text.rules[r].when :
          Edit([file.text EXCEPT !.rules[r].when = @ \ {o}, !.rules[r].updatedAt = now])
    /\ UNCHANGED backup

\* delete, or switched off.
Delete ==
    /\ Do("delete") /\ file.readable
    /\ \E r \in valid_rules(file.text) : Edit([file.text EXCEPT !.rules[r] = NoRule])
    /\ UNCHANGED backup

\* set_enabled
SetEnabled ==
    /\ Do("pause") /\ file.readable
    /\ Edit([file.text EXCEPT !.enabled = ~ @,
                              !.resumedAt = IF file.text.enabled THEN @ ELSE now])
    /\ UNCHANGED backup

TakeBackup ==
    /\ Do("restore") /\ file.readable
    /\ backup' = file.text
    /\ UNCHANGED <<clock, file, runtime, process, cycle, request>>

\* restore with keep_applied: each rule counts as saved now.
Restore ==
    /\ Do("restore")
    /\ LET rules == [r \in RuleIds |-> IF backup.rules[r] = NoRule THEN NoRule
                                       ELSE [backup.rules[r] EXCEPT !.updatedAt = now]]
           resumes == {backup.resumedAt, file.text.resumedAt}
                      \cup (IF backup.enabled /\ ~ file.text.enabled THEN {now} ELSE {})
       IN  Edit(IF file.readable
                THEN [backup EXCEPT !.rules = rules, !.applied = file.text.applied,
                                    !.resumedAt = Largest(resumes)]
                ELSE [backup EXCEPT !.rules = rules, !.applied = NoRecords])
    /\ UNCHANGED backup

\* The file removed by hand; spoilt by hand; mended.
Remove == Do("remove") /\ Edit(empty_book) /\ UNCHANGED backup
Spoil ==
    /\ Do("spoil")
    /\ file' = [file EXCEPT !.readable = ~ @]
    /\ UNCHANGED <<clock, runtime, process, cycle, request, backup>>

\* A person changes the setting in the dashboard or with emsctl.
SetByHand ==
    /\ Do("manual")
    /\ \E s \in Slots : runtime' = [runtime EXCEPT ![s] = Manual]
    /\ UNCHANGED <<clock, file, process, cycle, request, backup>>

\* apply_now: what the rule says for this moment, recorded, then written.
ApplyNowRead ==
    /\ Do("apply_now") /\ request.pc = "none" /\ file.readable /\ file.text.enabled
    /\ \E r \in valid_rules(file.text) :
          LET rule == file.text.rules[r]
              applied == file.text.applied[rule.slot]
              at == IF now < applied.at /\ applied.at <= now + Tolerance THEN applied.at ELSE now
              running == {o \in rule.when : o.start <= at /\ at < o.end}
          IN  request' = [pc |-> "record", slot |-> rule.slot,
                          rec |-> [rule |-> r, at |-> at,
                                   kind |-> IF rule.is_window /\ running = {} THEN END ELSE START,
                                   ends |-> Largest({o.end : o \in running})]]
    /\ UNCHANGED <<clock, file, runtime, process, cycle, backup>>

ApplyNowRecord ==
    /\ request.pc = "record"
    /\ \/ /\ file.readable
          /\ file' = [file EXCEPT !.text.applied[request.slot] = request.rec]
          /\ request' = [request EXCEPT !.pc = "write"]
       \/ request' = NoRequest /\ UNCHANGED file
    /\ UNCHANGED <<clock, runtime, process, cycle, backup, ops>>

ApplyNowWrite ==
    /\ request.pc = "write"
    /\ \/ runtime' = [runtime EXCEPT ![request.slot] = Value(request.rec)]
       \/ Outcomes # {"ok"} /\ UNCHANGED runtime
    /\ request' = NoRequest
    /\ UNCHANGED <<clock, file, process, cycle, backup, ops>>

\* Time passes.  A clock that was never set is far behind: it comes to a trusted
\* time by being set, not by waiting.
Pass ==
    /\ now < MaxTime /\ now + 1 + MaxBack >= peak
    /\ now' = now + 1 /\ peak' = IF now' > peak THEN now' ELSE peak
    /\ UNCHANGED <<file, runtime, process, cycle, around>>

\* NTP, or a person, sets the clock; a boot without one starts it at 0.
SetClock ==
    /\ Do("clock")
    /\ now' \in {0} \cup {t \in 1..MaxTime : t + MaxBack >= peak}
    /\ peak' = IF now' > peak THEN now' ELSE peak
    /\ UNCHANGED <<file, runtime, process, cycle, request, backup>>

\* The EMS stops at any point of a cycle and is started again.
Crash ==
    /\ Do("crash")
    /\ book' = NoBook /\ unrecorded' = NoRecords /\ openWindows' = NoRecords
    /\ loadedAt' = 0 /\ signed' = FALSE /\ stale' = TRUE
    /\ lastNow' = 0 /\ nextAt' = 0 /\ storeBusy' = FALSE /\ cycle' = Idle
    /\ request' = NoRequest
    /\ UNCHANGED <<clock, file, runtime, backup>>

\* Cycles and edits, without a stop, a refused value or an apply-now request.
Edits ==
    \/ Tick \/ Pass \/ SetClock
    \/ Save \/ Skip \/ Delete \/ SetEnabled \/ TakeBackup \/ Restore \/ Remove \/ Spoil
    \/ SetByHand

Step == Edits \/ ApplyNowRead \/ ApplyNowRecord \/ ApplyNowWrite

Next == Step \/ WriteRefused \/ Crash

Spec == Init /\ [][Next]_vars

\* The control loop keeps ticking, the clock moves on, and a lock asked for
\* again and again is some time free.
Fairness ==
    /\ WF_vars(Tick \/ WriteRefused) /\ WF_vars(Pass) /\ SF_vars(WriteOk)
    /\ WF_vars(ApplyNowRecord) /\ WF_vars(ApplyNowWrite)
FairSpec == Spec /\ Fairness

\* The EMS keeps running, and nobody applies a rule by hand.
EditsSpec == Init /\ [][Edits]_vars /\ Fairness

(***************************************************************************)
(* Properties.                                                             *)
(***************************************************************************)
\* The clock, the file, the runtime state and the scheduler's own state keep
\* their kinds: a record of a window is only ever a start's.
TypeOK ==
    /\ {now, peak, loadedAt, lastNow, nextAt} \subseteq 0..MaxTime /\ now <= peak
    /\ file.readable \in BOOLEAN /\ file.text \in Book /\ backup \in Book
    /\ runtime \in [Slots -> {Manual} \cup (RuleIds \X {START, END, "set"})]
    /\ book \in Book \cup {NoBook}
    /\ {unrecorded, openWindows} \subseteq [Slots -> Record \cup {NoRecord}]
    /\ {signed, stale, storeBusy, cycle.recording} \subseteq BOOLEAN
    /\ cycle.pc \in {"idle", "flush", "apply", "close", "end"}
    /\ \A s \in Slots : \A rec \in {file.text.applied[s], unrecorded[s], openWindows[s]} :
          rec.ends # 0 => rec.kind = START /\ rec.at < rec.ends

\* The start value of a window does not stay: its end, its loss or a later
\* switch point replaces it, through edits, pauses, an unreadable or a replaced
\* file, busy locks and a clock set back (_close_lost_windows, _end_open_windows,
\* _carry_open_windows).
WindowEnds ==
    \A s \in Slots, r \in RuleIds : runtime[s] = <<r, START>> ~> runtime[s] # <<r, START>>

=============================================================================
