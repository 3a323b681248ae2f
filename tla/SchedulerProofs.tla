--------------------------- MODULE SchedulerProofs ---------------------------
(***************************************************************************)
(* Proofs about SchedulerHistory, for any rules, settings, times and any   *)
(* number of edits.                                                        *)
(***************************************************************************)
EXTENDS SchedulerHistory, WellFoundedInduction, TLAPS

\* The file is neither removed nor spoilt by hand, and the clock is set back by
\* no more than FUTURE_TOLERANCE.
Kept == "remove" \notin Ops /\ "spoil" \notin Ops /\ MaxBack <= Tolerance

Dates == UNION {SUBSET w : w \in Whens}
RuleType == [slot : Slots, when : Dates, is_window : BOOLEAN, updatedAt : Nat]
RecordType == [rule : RuleIds, kind : {START, END}, at : Nat, ends : Nat]
Records == RecordType \cup {NoRecord}
PointType == [slot : Slots, rec : RecordType]
BookType == [enabled : BOOLEAN, rules : [RuleIds -> RuleType \cup {NoRule}],
             applied : [Slots -> Records], resumedAt : Nat]
CycleType == [pc : {"idle", "flush", "apply", "close"}, recording : BOOLEAN, now : Nat,
              todo : SUBSET (Slots \cup PointType), hand : PointType \cup {Idle.hand}]
RequestType == [pc : {"none", "record", "write"}, slot : Slots \cup {"none"}, rec : Records]

Types ==
    /\ now \in Nat /\ peak \in Nat /\ loadedAt \in Nat /\ lastNow \in Nat /\ nextAt \in Nat
    /\ file \in [readable : {TRUE}, text : BookType]
    /\ backup \in BookType
    /\ book \in BookType \cup {NoBook}
    /\ unrecorded \in [Slots -> Records]
    /\ openWindows = NoRecords
    /\ stale \in BOOLEAN /\ refused \in BOOLEAN
    /\ cycle \in CycleType
    /\ request \in RequestType
    /\ pausedAt \in Nat /\ silent \subseteq Nat
    /\ fired \subseteq Slots \X RecordType

\* No stamp of the book b is later than t.
Stamped(b, t) ==
    /\ b.resumedAt <= t
    /\ \A s \in Slots : b.applied[s].at <= t
    /\ \A r \in valid_rules(b) : b.rules[r].updatedAt <= t

\* Nothing is stamped later than the clock's highest reading, which is no more
\* than MaxBack ahead of a trusted clock.
Clock ==
    /\ now <= peak /\ (now = 0 \/ peak <= now + MaxBack)
    /\ loadedAt <= peak /\ pausedAt <= peak /\ cycle.now <= peak
    /\ Stamped(file.text, peak) /\ Stamped(backup, peak)
    /\ book # NoBook => Stamped(book, peak)
    /\ \A s \in Slots : unrecorded[s].at <= peak
    /\ request.rec.at <= peak

\* The running cycle, and what one that ran to its end leaves behind.
Running ==
    /\ cycle.pc = "idle" => cycle = Idle
    /\ cycle.pc # "idle" => book # NoBook /\ cycle.now = lastNow
    /\ cycle.recording => cycle.pc \in {"apply", "close"} /\ cycle.hand \in PointType
    /\ cycle.pc = "flush" => cycle.todo \subseteq {s \in Slots : unrecorded[s] # NoRecord}
    /\ cycle.pc \in {"apply", "close"} => cycle.todo \subseteq PointType
    /\ request.pc # "none" => request.slot \in Slots /\ request.rec \in RecordType
    /\ book # NoBook /\ (cycle.pc # "idle" \/ ~ stale) =>
          lastNow >= CLOCK_FLOOR /\ Stamped(book, lastNow + MaxBack)

\* The points of a cycle are later than what bounds them, and one per setting.
TodoIsDue ==
    cycle.pc = "apply" =>
        /\ \A p \in cycle.todo :
              /\ book.enabled
              /\ book.resumedAt < p.rec.at /\ p.rec.at <= cycle.now
              /\ book.applied[p.slot].at < p.rec.at
              /\ cycle.recording => cycle.hand.slot # p.slot
              /\ \A q \in cycle.todo : q.slot = p.slot => q = p
        /\ cycle.recording =>
              book.applied[cycle.hand.slot].at < cycle.hand.rec.at /\ cycle.hand.rec.at <= cycle.now

\* A window that is closed is closed at the cycle's time.
CloseIsNow ==
    cycle.pc = "close" =>
        /\ \A p \in cycle.todo : p.rec.at = cycle.now /\ p.rec.ends = 0
        /\ cycle.recording => cycle.hand.rec.at = cycle.now /\ cycle.hand.rec.ends = 0

\* A silent time is at or before the last resume the file knows, and the book
\* too unless it was read before that pause: then it is ahead of every cycle over
\* that book.
PauseIsKnown ==
    /\ \A t \in silent : t <= file.text.resumedAt
    /\ book # NoBook /\ book.enabled =>
          /\ \A t \in silent : t <= book.resumedAt \/ (loadedAt < t /\ cycle.now < t)
          /\ ~ file.text.enabled => loadedAt <= pausedAt /\ cycle.now <= pausedAt

\* A point that was written and waits to be recorded.
InHand(f) ==
    /\ cycle.pc = "apply" /\ cycle.recording
    /\ cycle.hand.slot = f[1] /\ f[2].at <= cycle.hand.rec.at

\* What memory holds unrecorded is what the book says was applied.
UnrecordedIsApplied ==
    \A s \in Slots : unrecorded[s] # NoRecord => book # NoBook /\ unrecorded[s] = book.applied[s]

\* No fired point is later than what the book and the file say was applied.
FiredIsKnown ==
    \A f \in fired :
        /\ book # NoBook => f[2].at <= book.applied[f[1]].at \/ InHand(f)
        /\ unrecorded[f[1]] = NoRecord => f[2].at <= file.text.applied[f[1]].at \/ InHand(f)

Inv ==
    /\ Types /\ Clock /\ Running /\ TodoIsDue /\ CloseIsNow
    /\ PauseIsKnown /\ UnrecordedIsApplied /\ FiredIsKnown

(***************************************************************************)
(* A skipped cycle.                                                        *)
(***************************************************************************)
\* What bounds the rule r of the book b at t.
Limit(b, r, t) == bound(b.rules[r], b.applied[b.rules[r].slot].at, b, t)

\* The switch points of the book b up to t that nothing bounds.
Pending(b, t) ==
    IF b.enabled THEN UNION {switch_points(r, b.rules[r], Limit(b, r, t), t) : r \in valid_rules(b)} ELSE {}

\* The times of the switch points after t.
Ahead(b, t) ==
    IF b.enabled
    THEN {p.rec.at : p \in UNION {switch_points(r, b.rules[r], t, MaxTime) : r \in valid_rules(b)}}
    ELSE {}

\* The settings whose window lost its rule.
Lost(b, t) == {s \in Slots : b.applied[s].ends # 0 /\ ~ window_still_open(s, b.applied[s], b, t)}

\* The cycle has a point of the setting still to write or to record, at t or later.
Covered(s, t) ==
    \/ \E q \in cycle.todo : q.slot = s /\ t <= q.rec.at
    \/ cycle.recording /\ cycle.hand.slot = s /\ t <= cycle.hand.rec.at

\* What was due or lost at t is settled, and n is when to look again.
Settled(b, t, n) ==
    /\ Pending(b, t) = {} /\ Lost(b, t) = {}
    /\ n = 0 => Ahead(b, t) = {}
    /\ n # 0 => \A x \in Ahead(b, t) : n <= x

\* Unless the next cycle has to run anyway, a cycle gets through what is due, then
\* through the windows that lost their rule, and leaves nothing.
Settling ==
    ~ stale /\ ~ refused =>
        /\ cycle.pc = "apply" => \A p \in Pending(book, cycle.now) : Covered(p.slot, p.rec.at)
        /\ cycle.pc = "close" => /\ Pending(book, cycle.now) = {}
                                 /\ \A s \in Lost(book, cycle.now) : Covered(s, 0)
        /\ cycle.pc = "idle" /\ book # NoBook => Settled(book, lastNow, nextAt)

-----------------------------------------------------------------------------

LEMMA RecordFacts ==
    /\ \A x \in Records : x.at \in Nat /\ x.ends \in Nat /\ (x.ends # 0 => x.rule \in RuleIds)
    /\ RecordType \subseteq Records /\ NoRecord \in Records
    /\ NoRecord.at = 0 /\ NoRecord.ends = 0
    /\ \A x \in Records : x # NoRecord => x \in RecordType
BY DEF Records, RecordType, NoRecord

LEMMA PointFacts ==
    \A p \in PointType : p.slot \in Slots /\ p.rec \in RecordType /\ p.rec.at \in Nat
BY DEF PointType, RecordType

LEMMA BookFacts ==
    ASSUME NEW b \in BookType
    PROVE  /\ b.enabled \in BOOLEAN /\ b.resumedAt \in Nat
           /\ b.applied \in [Slots -> Records]
           /\ \A s \in Slots : b.applied[s] \in Records /\ b.applied[s].at \in Nat
           /\ b.rules \in [RuleIds -> RuleType \cup {NoRule}]
           /\ \A r \in valid_rules(b) : /\ r \in RuleIds /\ b.rules[r] \in RuleType
                                        /\ b.rules[r].slot \in Slots /\ b.rules[r].updatedAt \in Nat
<1>1. /\ b.enabled \in BOOLEAN /\ b.resumedAt \in Nat
      /\ b.applied \in [Slots -> Records]
      /\ b.rules \in [RuleIds -> RuleType \cup {NoRule}]
    BY DEF BookType
<1>2. \A s \in Slots : b.applied[s] \in Records /\ b.applied[s].at \in Nat
    BY <1>1, RecordFacts
<1>3. \A r \in valid_rules(b) : r \in RuleIds /\ b.rules[r] \in RuleType
    BY <1>1 DEF valid_rules
<1>4. \A r \in valid_rules(b) : b.rules[r].slot \in Slots /\ b.rules[r].updatedAt \in Nat
    BY <1>3 DEF RuleType
<1>5. QED
    BY <1>1, <1>2, <1>3, <1>4

\* Of three numbers at most there is a largest.
LEMMA LargestFacts ==
    ASSUME NEW a \in Nat, NEW b \in Nat, NEW c \in Nat, NEW S \in SUBSET {a, b, c}, NEW x \in S
    PROVE  Largest(S) \in S /\ x <= Largest(S)
<1>1. \E y \in S : \A z \in S : z <= y
    <2>1. CASE a \in S /\ (b \in S => b <= a) /\ (c \in S => c <= a)
        BY <2>1
    <2>2. CASE b \in S /\ (a \in S => a <= b) /\ (c \in S => c <= b)
        BY <2>2
    <2>3. CASE c \in S /\ (a \in S => a <= c) /\ (b \in S => b <= c)
        BY <2>3
    <2>4. QED
        BY <2>1, <2>2, <2>3
<1>2. Largest(S) = CHOOSE y \in S : \A z \in S : z <= y
    BY DEF Largest
<1>3. QED
    BY <1>1, <1>2

LEMMA LeastNumber ==
    ASSUME NEW S \in SUBSET Nat, S # {}
    PROVE  \E x \in S : \A y \in S : x <= y
<1>1. PICK x \in S : \A y \in S : ~(<<y, x>> \in OpToRel(<, Nat))
    BY NatLessThanWellFounded, WFMin
<1>2. ASSUME NEW y \in S PROVE ~(y < x)
    <2>1. <<y, x>> \in Nat \X Nat /\ <<y, x>>[1] = y /\ <<y, x>>[2] = x
        OBVIOUS
    <2>2. QED
        BY <1>1, <2>1, Zenon DEF OpToRel
<1>3. QED
    BY <1>2

LEMMA GreatestNumber ==
    ASSUME NEW n \in Nat, NEW S \in SUBSET (0..n), S # {}
    PROVE  \E x \in S : \A y \in S : y <= x
<1> DEFINE T == {n - x : x \in S}
<1>1. T \in SUBSET Nat /\ T # {}
    <2>1. \A x \in S : x \in 0..n
        OBVIOUS
    <2>2. \A x \in S : n - x \in Nat
        BY <2>1
    <2>3. QED
        BY <2>2
<1>2. PICK m \in T : \A k \in T : m <= k
    BY <1>1, LeastNumber
<1>3. PICK x \in S : m = n - x
    OBVIOUS
<1>4. ASSUME NEW y \in S PROVE y <= x
    <2>1. m <= n - y /\ x \in 0..n /\ y \in 0..n
        BY <1>2
    <2>2. QED
        BY <1>3, <2>1
<1>5. QED
    BY <1>4

LEMMA LargestTime ==
    ASSUME NEW n \in Nat, NEW S \in SUBSET (0..n)
    PROVE  Largest(S) \in Nat
<1>1. CASE S = {}
    BY <1>1 DEF Largest
<1>2. CASE S # {}
    <2>1. \E x \in S : \A y \in S : y <= x
        BY <1>2, GreatestNumber
    <2>2. Largest(S) = CHOOSE x \in S : \A y \in S : y <= x
        BY <1>2 DEF Largest
    <2>3. Largest(S) \in S
        BY <2>1, <2>2
    <2>4. \A x \in 0..n : x \in Nat
        OBVIOUS
    <2>5. QED
        BY <2>3, <2>4
<1>3. QED
    BY <1>1, <1>2

\* With every stamp within FUTURE_TOLERANCE, the bound is the latest of them.
LEMMA BoundFacts ==
    ASSUME Kept, NEW b \in BookType, NEW t \in Nat, Stamped(b, t + MaxBack), NEW r \in valid_rules(b)
    PROVE  LET rule  == b.rules[r]
               limit == bound(rule, b.applied[rule.slot].at, b, t)
           IN  /\ limit \in {rule.updatedAt, b.applied[rule.slot].at, b.resumedAt}
               /\ limit \in Nat /\ b.resumedAt <= limit /\ b.applied[rule.slot].at <= limit
               /\ rule.updatedAt <= limit
<1> DEFINE rule == b.rules[r]
           at   == b.applied[rule.slot].at
           S    == {x \in {rule.updatedAt, at, b.resumedAt} : x <= t + Tolerance}
<1>1. rule.updatedAt \in Nat /\ at \in Nat /\ b.resumedAt \in Nat /\ rule.slot \in Slots
    BY BookFacts
<1>2. MaxBack \in Nat /\ Tolerance \in Nat /\ MaxBack <= Tolerance
    BY SchedulerAssumption DEF Kept
<1>3. rule.updatedAt <= t + Tolerance /\ at <= t + Tolerance /\ b.resumedAt <= t + Tolerance
    BY <1>1, <1>2 DEF Stamped
<1>4. bound(rule, at, b, t) = Largest(S)
    BY DEF bound
<1>5. /\ S \in SUBSET {rule.updatedAt, at, b.resumedAt}
      /\ rule.updatedAt \in S /\ at \in S /\ b.resumedAt \in S
    BY <1>3
<1> HIDE DEF S
<1>6. /\ Largest(S) \in S /\ rule.updatedAt <= Largest(S)
      /\ at <= Largest(S) /\ b.resumedAt <= Largest(S)
    BY <1>1, <1>5, LargestFacts
<1>7. QED
    BY <1>1, <1>4, <1>5, <1>6

\* The occurrences of a saved rule.
LEMMA DatesFacts ==
    /\ \A w \in Whens : w \in Dates
    /\ \A d \in Dates :
          /\ \A o \in d : o.start \in Nat /\ o.end \in Nat /\ o.end \in 0..MaxTime
          /\ \A o \in d : o.start <= MaxTime /\ (o.end = 0 \/ o.start < o.end)
          /\ \A o, x \in d : o.start = x.start => o = x
          /\ \A o : d \ {o} \in Dates
<1>1. ASSUME NEW w \in Whens PROVE w \in Dates
    BY DEF Dates
<1>2. ASSUME NEW d \in Dates
      PROVE  \E w \in Whens : d \subseteq w
    BY DEF Dates
<1>3. ASSUME NEW d \in Dates, NEW o
      PROVE  d \ {o} \in Dates
    BY DEF Dates
<1>4. \A w \in Whens : \A o \in w : /\ o.start \in Nat /\ o.end \in Nat /\ o.end \in 0..MaxTime
                                    /\ o.start <= MaxTime /\ (o.end = 0 \/ o.start < o.end)
    BY SchedulerAssumption
<1>5. ASSUME NEW d \in Dates
      PROVE  /\ \A o \in d : o.start \in Nat /\ o.end \in Nat /\ o.end \in 0..MaxTime
             /\ \A o \in d : o.start <= MaxTime /\ (o.end = 0 \/ o.start < o.end)
    BY <1>2, <1>4
<1>6. ASSUME NEW d \in Dates
      PROVE  \A o, x \in d : o.start = x.start => o = x
    BY <1>2, SchedulerAssumption
<1>7. QED
    BY <1>1, <1>3, <1>5, <1>6

\* The switch points of a saved rule between two times.
LEMMA SwitchPointFacts ==
    ASSUME NEW r \in RuleIds, NEW rule \in RuleType, NEW after \in Nat, NEW until \in Nat,
           NEW p \in switch_points(r, rule, after, until)
    PROVE  /\ p \in PointType /\ p.slot = rule.slot /\ p.rec.rule = r
           /\ after < p.rec.at /\ p.rec.at <= until
<1>1. /\ rule.slot \in Slots
      /\ \A o \in rule.when : o.start \in Nat /\ o.end \in Nat
    BY DatesFacts DEF RuleType
<1>2. CASE \E o \in rule.when : /\ after < o.start /\ o.start <= until
                                /\ p = [slot |-> rule.slot,
                                        rec |-> [rule |-> r, kind |-> START, at |-> o.start, ends |-> o.end]]
    BY <1>1, <1>2 DEF PointType, RecordType
<1>3. CASE \E o \in rule.when : /\ after < o.end /\ o.end <= until
                                /\ p = [slot |-> rule.slot,
                                        rec |-> [rule |-> r, kind |-> END, at |-> o.end, ends |-> 0]]
    BY <1>1, <1>3 DEF PointType, RecordType
<1>4. QED
    BY <1>2, <1>3 DEF switch_points

LEMMA PendingFacts ==
    ASSUME Kept, NEW b \in BookType, NEW t \in Nat, Stamped(b, t + MaxBack), NEW p \in Pending(b, t)
    PROVE  /\ p \in PointType /\ b.enabled
           /\ b.resumedAt < p.rec.at /\ p.rec.at <= t
           /\ b.applied[p.slot].at < p.rec.at
<1>1. b.enabled
    BY DEF Pending
<1>2. PICK r \in valid_rules(b) :
        p \in switch_points(r, b.rules[r], Limit(b, r, t), t)
    BY <1>1 DEF Pending
<1> DEFINE limit == Limit(b, r, t)
<1>3. limit \in Nat /\ b.resumedAt <= limit /\ b.applied[b.rules[r].slot].at <= limit
    BY BoundFacts DEF Limit
<1> HIDE DEF limit
<1>4. r \in RuleIds /\ b.rules[r] \in RuleType
    BY BookFacts
<1>5. /\ p \in PointType /\ p.slot = b.rules[r].slot
      /\ limit < p.rec.at /\ p.rec.at <= t
    BY <1>2, <1>3, <1>4, SwitchPointFacts DEF limit
<1>6. p.rec.at \in Nat /\ b.resumedAt \in Nat /\ b.applied[p.slot].at \in Nat
    BY <1>5, PointFacts, BookFacts
<1>7. QED
    BY <1>1, <1>3, <1>5, <1>6

LEMMA DueFacts ==
    ASSUME Kept, NEW b \in BookType, NEW t \in Nat, Stamped(b, t + MaxBack)
    PROVE  \A p \in due_switch_points(b, t) :
              /\ p \in PointType /\ b.enabled
              /\ b.resumedAt < p.rec.at /\ p.rec.at <= t
              /\ b.applied[p.slot].at < p.rec.at
              /\ \A q \in due_switch_points(b, t) : q.slot = p.slot => q = p
<1>1. due_switch_points(b, t) =
        {p \in Pending(b, t) : \A q \in Pending(b, t) : q.slot = p.slot /\ q # p => Beats(p, q)}
    BY DEF due_switch_points, Pending, Limit
<1>2. ASSUME NEW p \in due_switch_points(b, t), NEW q \in due_switch_points(b, t), q.slot = p.slot, q # p
      PROVE  FALSE
    <2>1. Beats(p, q) /\ Beats(q, p)
        BY <1>1, <1>2
    <2>2. p \in PointType /\ q \in PointType
        BY <1>1, PendingFacts
    <2>3. /\ p.rec.at \in Nat /\ q.rec.at \in Nat /\ p.rec.rule \in Nat /\ q.rec.rule \in Nat
        BY <2>2, SchedulerAssumption DEF PointType, RecordType
    <2>4. QED
        BY <2>1, <2>3 DEF Beats, START, END
<1>3. QED
    BY <1>1, <1>2, PendingFacts

-----------------------------------------------------------------------------
(***************************************************************************)
(* Records that change in a field or two.                                  *)
(***************************************************************************)
NewCycle(t, todo) == [Idle EXCEPT !.pc = "flush", !.now = t, !.todo = todo]
ToApply(c, todo) == [c EXCEPT !.pc = "apply", !.todo = todo]
ToClose(c, todo) == [c EXCEPT !.pc = "close", !.todo = todo]
Without(c, x) == [c EXCEPT !.todo = @ \ {x}]
Written(c, p) == [c EXCEPT !.recording = TRUE, !.todo = @ \ {p}, !.hand = p]
Noted(c) == [c EXCEPT !.recording = FALSE, !.hand = Idle.hand]
WithApplied(b, s, rec) == [b EXCEPT !.applied[s] = rec]

LEMMA IdleFacts ==
    /\ Idle \in CycleType /\ Idle.pc = "idle" /\ Idle.recording = FALSE /\ Idle.now = 0
    /\ Idle.todo = {}
<1>1. FALSE \in BOOLEAN
    BY Zenon
<1>2. QED
    BY <1>1 DEF Idle, CycleType

LEMMA ToPhaseFacts ==
    ASSUME NEW c \in CycleType, NEW todo \in SUBSET PointType
    PROVE  /\ ToApply(c, todo) \in CycleType /\ ToApply(c, todo).pc = "apply"
           /\ ToApply(c, todo).recording = c.recording /\ ToApply(c, todo).now = c.now
           /\ ToApply(c, todo).todo = todo /\ ToApply(c, todo).hand = c.hand
           /\ ToClose(c, todo) \in CycleType /\ ToClose(c, todo).pc = "close"
           /\ ToClose(c, todo).recording = c.recording /\ ToClose(c, todo).now = c.now
           /\ ToClose(c, todo).todo = todo /\ ToClose(c, todo).hand = c.hand
BY DEF CycleType, ToApply, ToClose

LEMMA WithoutFacts ==
    ASSUME NEW c \in CycleType, NEW x
    PROVE  /\ Without(c, x) \in CycleType /\ Without(c, x).pc = c.pc
           /\ Without(c, x).recording = c.recording /\ Without(c, x).now = c.now
           /\ Without(c, x).todo = c.todo \ {x} /\ Without(c, x).hand = c.hand
BY DEF CycleType, Without

LEMMA WrittenFacts ==
    ASSUME NEW c \in CycleType, NEW p \in PointType
    PROVE  /\ Written(c, p) \in CycleType /\ Written(c, p).pc = c.pc
           /\ Written(c, p).recording = TRUE /\ Written(c, p).now = c.now
           /\ Written(c, p).todo = c.todo \ {p} /\ Written(c, p).hand = p
<1>1. TRUE \in BOOLEAN
    BY Zenon
<1>2. QED
    BY <1>1 DEF CycleType, Written

LEMMA NotedFacts ==
    ASSUME NEW c \in CycleType
    PROVE  /\ Noted(c) \in CycleType /\ Noted(c).pc = c.pc
           /\ Noted(c).recording = FALSE /\ Noted(c).now = c.now
           /\ Noted(c).todo = c.todo
<1>1. FALSE \in BOOLEAN
    BY Zenon
<1>2. QED
    BY <1>1 DEF CycleType, Noted

LEMMA WithAppliedFacts ==
    ASSUME NEW b \in BookType, NEW s \in Slots, NEW rec \in Records
    PROVE  /\ WithApplied(b, s, rec) \in BookType
           /\ WithApplied(b, s, rec).enabled = b.enabled
           /\ WithApplied(b, s, rec).rules = b.rules
           /\ WithApplied(b, s, rec).resumedAt = b.resumedAt
           /\ WithApplied(b, s, rec).applied = [b.applied EXCEPT ![s] = rec]
<1>1. [b.applied EXCEPT ![s] = rec] \in [Slots -> Records]
    BY DEF BookType
<1>2. QED
    BY <1>1 DEF BookType, WithApplied

\* A later highest reading bounds the same stamps.
LEMMA StampedLater ==
    ASSUME NEW b \in BookType, NEW t \in Nat, NEW u \in Nat, t <= u, Stamped(b, t)
    PROVE  Stamped(b, u)
BY BookFacts DEF Stamped

LEMMA StampedApplied ==
    ASSUME NEW b \in BookType, NEW t \in Nat, Stamped(b, t), NEW s \in Slots, NEW rec \in Records,
           rec.at <= t
    PROVE  Stamped(WithApplied(b, s, rec), t)
<1>1. /\ WithApplied(b, s, rec).rules = b.rules
      /\ WithApplied(b, s, rec).resumedAt = b.resumedAt
      /\ WithApplied(b, s, rec).applied = [b.applied EXCEPT ![s] = rec]
    BY WithAppliedFacts
<1>2. b.applied \in [Slots -> Records]
    BY BookFacts
<1>3. \A x \in Slots : WithApplied(b, s, rec).applied[x].at <= t
    BY <1>1, <1>2 DEF Stamped
<1>4. QED
    BY <1>1, <1>3 DEF Stamped, valid_rules

-----------------------------------------------------------------------------
(***************************************************************************)
(* Pauses.                                                                 *)
(***************************************************************************)
LEMMA PausesFacts ==
    ASSUME Types, Clock, Pauses
    PROVE  pausedAt' \in Nat /\ pausedAt' <= peak /\ silent' \subseteq Nat
<1>1. now \in Nat /\ peak \in Nat /\ pausedAt \in Nat /\ pausedAt <= peak /\ silent \subseteq Nat
    BY DEF Types, Clock
<1>2. pausedAt' \in {0, peak, pausedAt}
    BY DEF Pauses
<1>3. silent' = silent \/ silent' = {t \in silent : t <= now} \cup (pausedAt + 1)..now
    BY DEF Pauses
<1>4. pausedAt' \in Nat /\ pausedAt' <= peak
    BY <1>1, <1>2
<1>5. ASSUME NEW t \in silent' PROVE t \in Nat
    <2>1. t \in silent \/ t \in (pausedAt + 1)..now
        BY <1>3
    <2>2. CASE t \in silent
        BY <1>1, <2>2
    <2>3. CASE t \in (pausedAt + 1)..now
        BY <1>1, <2>3
    <2>4. QED
        BY <2>1, <2>2, <2>3
<1>6. QED
    BY <1>4, <1>5

\* A step that neither pauses nor resumes.
LEMMA PausesQuiet ==
    ASSUME Pauses, file'.text.enabled = file.text.enabled
    PROVE  silent' = silent /\ (~ file'.text.enabled => pausedAt' = pausedAt)
BY DEF Pauses

(***************************************************************************)
(* Steps of the surroundings: the scheduler's own state stays.             *)
(***************************************************************************)
Resumed == file'.text.enabled /\ ~ file.text.enabled
FileType == [readable : {TRUE}, text : BookType]

Outside ==
    /\ UNCHANGED <<book, unrecorded, openWindows, loadedAt, stale, lastNow, nextAt, cycle, refused>>
    /\ now' \in Nat /\ peak' \in Nat /\ peak <= peak'
    /\ now' <= peak' /\ (now' = 0 \/ peak' <= now' + MaxBack)
    /\ file' \in FileType /\ Stamped(file'.text, peak')
    /\ backup' \in BookType /\ Stamped(backup', peak')
    /\ request' \in RequestType /\ request'.rec.at <= peak'
    /\ request'.pc # "none" => request'.slot \in Slots /\ request'.rec \in RecordType
    /\ IF Resumed THEN now <= file'.text.resumedAt
                  ELSE file.text.resumedAt <= file'.text.resumedAt
    /\ fired' \subseteq fired
    /\ \A f \in fired' : \/ file.text.applied[f[1]].at <= file'.text.applied[f[1]].at
                         \/ f[2].at <= file'.text.applied[f[1]].at

LEMMA OutsideInv == ASSUME Kept, Inv, Outside, Pauses PROVE Inv'
<1>1. /\ Types /\ Clock
      /\ UNCHANGED <<book, unrecorded, openWindows, loadedAt, stale, lastNow, nextAt, cycle, refused>>
      /\ now' \in Nat /\ peak' \in Nat /\ peak <= peak' /\ peak \in Nat
    BY DEF Inv, Outside, Types
<1>2. pausedAt' \in Nat /\ pausedAt' <= peak /\ silent' \subseteq Nat
    BY <1>1, PausesFacts
<1>3. Types'
    BY <1>1, <1>2 DEF Outside, Types, FileType
<1>4. Clock'
    <2>1. loadedAt' <= peak' /\ pausedAt' <= peak' /\ cycle'.now <= peak'
        BY <1>1, <1>2 DEF Types, Clock, CycleType
    <2>2. book' # NoBook => Stamped(book', peak')
        <3>1. book # NoBook => book \in BookType /\ Stamped(book, peak)
            BY <1>1 DEF Types, Clock
        <3>2. book # NoBook => Stamped(book, peak')
            BY <1>1, <3>1, StampedLater
        <3>3. QED
            BY <1>1, <3>2 DEF Stamped, valid_rules
    <2>3. \A s \in Slots : unrecorded'[s].at <= peak'
        BY <1>1, RecordFacts DEF Types, Clock
    <2>4. QED
        BY <2>1, <2>2, <2>3 DEF Outside, Clock
<1>5. Running'
    <2>1. book' # NoBook /\ (cycle'.pc # "idle" \/ ~ stale') =>
              lastNow' >= CLOCK_FLOOR /\ Stamped(book', lastNow' + MaxBack)
        BY <1>1 DEF Inv, Running, Stamped, valid_rules
    <2>2. QED
        BY <1>1, <2>1 DEF Inv, Outside, Running
<1>6. TodoIsDue' /\ CloseIsNow' /\ UnrecordedIsApplied'
    BY <1>1 DEF Inv, TodoIsDue, CloseIsNow, UnrecordedIsApplied
<1>7. PauseIsKnown'
    <2>1. /\ now \in Nat /\ pausedAt \in Nat /\ silent \subseteq Nat /\ loadedAt \in Nat
          /\ cycle.now \in Nat /\ loadedAt <= peak /\ cycle.now <= peak
          /\ file.text.resumedAt \in Nat /\ file'.text.resumedAt \in Nat
        BY <1>1, BookFacts DEF Types, Clock, Outside, FileType, CycleType
    <2>2. CASE Resumed
        <3>1. silent' = {t \in silent : t <= now} \cup (pausedAt + 1)..now
            BY <2>2 DEF Pauses, Resumed
        <3>2. \A t \in silent' : t <= now
            BY <2>1, <3>1
        <3>3. \A t \in silent' : t <= file'.text.resumedAt
            <4>1. now <= file'.text.resumedAt
                BY <2>2 DEF Outside
            <4>2. QED
                BY <1>2, <2>1, <3>2, <4>1
        <3>4. ASSUME book # NoBook, book.enabled, NEW t \in silent'
              PROVE  t <= book.resumedAt \/ (loadedAt < t /\ cycle.now < t)
            <4>1. CASE t \in silent
                BY <3>4, <4>1 DEF Inv, PauseIsKnown
            <4>2. CASE t \in (pausedAt + 1)..now
                <5>1. loadedAt <= pausedAt /\ cycle.now <= pausedAt
                    BY <2>2, <3>4 DEF Inv, PauseIsKnown, Resumed
                <5>2. QED
                    BY <2>1, <4>2, <5>1
            <4>3. QED
                BY <3>1, <3>4, <4>1, <4>2
        <3>5. QED
            BY <1>1, <2>2, <3>3, <3>4 DEF PauseIsKnown, Resumed
    <2>3. CASE ~ Resumed
        <3>1. silent' = silent
            BY <2>3 DEF Pauses, Resumed
        <3>2. \A t \in silent' : t <= file'.text.resumedAt
            <4>1. file.text.resumedAt <= file'.text.resumedAt
                BY <2>3 DEF Outside
            <4>2. \A t \in silent : t \in Nat /\ t <= file.text.resumedAt
                BY <2>1 DEF Inv, PauseIsKnown
            <4>3. QED
                BY <2>1, <3>1, <4>1, <4>2
        <3>3. ASSUME book # NoBook, book.enabled, ~ file'.text.enabled
              PROVE  loadedAt <= pausedAt' /\ cycle.now <= pausedAt'
            <4>1. CASE file.text.enabled
                BY <2>1, <3>3, <4>1 DEF Pauses
            <4>2. CASE ~ file.text.enabled
                BY <3>3, <4>2 DEF Pauses, Inv, PauseIsKnown
            <4>3. QED
                BY <4>1, <4>2
        <3>4. QED
            BY <1>1, <3>1, <3>2, <3>3 DEF Inv, PauseIsKnown
    <2>4. QED
        BY <2>2, <2>3
<1>8. FiredIsKnown'
    <2> SUFFICES ASSUME NEW f \in fired'
                 PROVE  /\ book' # NoBook => f[2].at <= book'.applied[f[1]].at \/ InHand(f)'
                        /\ unrecorded'[f[1]] = NoRecord =>
                              f[2].at <= file'.text.applied[f[1]].at \/ InHand(f)'
        BY DEF FiredIsKnown
    <2>1. /\ f \in fired /\ f[1] \in Slots /\ f[2].at \in Nat
        BY <1>1 DEF Outside, Types, RecordType
    <2>2. InHand(f)' <=> InHand(f)
        BY <1>1 DEF InHand
    <2>3. file.text.applied[f[1]].at \in Nat /\ file'.text.applied[f[1]].at \in Nat
        BY <1>1, <2>1, BookFacts DEF Types, Outside, FileType
    <2>4. \/ file.text.applied[f[1]].at <= file'.text.applied[f[1]].at
          \/ f[2].at <= file'.text.applied[f[1]].at
        BY DEF Outside
    <2>5. /\ book # NoBook => f[2].at <= book.applied[f[1]].at \/ InHand(f)
          /\ unrecorded[f[1]] = NoRecord => f[2].at <= file.text.applied[f[1]].at \/ InHand(f)
        BY <2>1 DEF Inv, FiredIsKnown
    <2>6. book' = book /\ unrecorded' = unrecorded
        BY <1>1
    <2>7. QED
        BY <2>1, <2>2, <2>3, <2>4, <2>5, <2>6
<1>9. QED
    BY <1>3, <1>4, <1>5, <1>6, <1>7, <1>8 DEF Inv

LEMMA FiredSlots ==
    ASSUME Types
    PROVE  \A f \in fired : f[1] \in Slots /\ f[2] \in RecordType /\ f[2].at \in Nat
<1>1. \A f \in fired : f[1] \in Slots /\ f[2] \in RecordType
    BY DEF Types
<1>2. \A x \in RecordType : x.at \in Nat
    BY DEF RecordType
<1>3. QED
    BY <1>1, <1>2

LEMMA FiringsSame ==
    ASSUME Types, cycle' = cycle, request' = request, Firings
    PROVE  fired' = fired
<1>1. ~ Firing /\ ~ ClosedEarly
    BY DEF Firing, ClosedEarly
<1>2. ~ Overtaken
    BY DEF Overtaken
<1>3. QED
    BY <1>1, <1>2 DEF Firings

\* What an edit of the file needs.
LEMMA EditOutside ==
    ASSUME Kept, Inv, NEW text \in BookType, Edit(text), UNCHANGED <<backup, refused>>, Firings,
           Stamped(text, peak), text.applied = file.text.applied,
           IF text.enabled /\ ~ file.text.enabled THEN now <= text.resumedAt
                                                 ELSE file.text.resumedAt <= text.resumedAt
    PROVE  Outside
<1>1. /\ file' = [readable |-> TRUE, text |-> text]
      /\ UNCHANGED <<now, peak, request, cycle, book, unrecorded, openWindows, loadedAt, stale, lastNow, nextAt>>
    BY DEF Edit, clock, process
<1>2. fired' = fired
    BY <1>1, FiringsSame DEF Inv
<1>3. file' \in FileType /\ file'.text = text
    BY <1>1 DEF FileType
<1>4. Stamped(file'.text, peak') /\ Stamped(backup', peak')
    BY <1>1, <1>3 DEF Inv, Clock, Stamped, valid_rules
<1>5. IF Resumed THEN now <= file'.text.resumedAt ELSE file.text.resumedAt <= file'.text.resumedAt
    BY <1>3 DEF Resumed
<1>6. /\ now' \in Nat /\ peak' \in Nat /\ peak <= peak' /\ now' <= peak'
      /\ (now' = 0 \/ peak' <= now' + MaxBack)
    BY <1>1 DEF Inv, Types, Clock
<1>7. /\ backup' \in BookType /\ request' \in RequestType /\ request'.rec.at <= peak'
      /\ request'.pc # "none" => request'.slot \in Slots /\ request'.rec \in RecordType
    BY <1>1 DEF Inv, Types, Clock, Running
<1>8. \A f \in fired' : file.text.applied[f[1]].at <= file'.text.applied[f[1]].at
    BY <1>2, <1>3, FiredSlots, BookFacts DEF Inv, Types
<1>9. QED
    BY <1>1, <1>2, <1>3, <1>4, <1>5, <1>6, <1>7, <1>8 DEF Outside

WithRule(b, r, rule) == [b EXCEPT !.rules[r] = rule]

LEMMA WithRuleFacts ==
    ASSUME NEW b \in BookType, NEW r \in RuleIds, NEW rule \in RuleType \cup {NoRule}
    PROVE  /\ WithRule(b, r, rule) \in BookType
           /\ WithRule(b, r, rule).enabled = b.enabled
           /\ WithRule(b, r, rule).applied = b.applied
           /\ WithRule(b, r, rule).resumedAt = b.resumedAt
           /\ WithRule(b, r, rule).rules = [b.rules EXCEPT ![r] = rule]
<1>1. [b.rules EXCEPT ![r] = rule] \in [RuleIds -> RuleType \cup {NoRule}]
    BY DEF BookType
<1>2. QED
    BY <1>1 DEF BookType, WithRule

LEMMA WithRuleOutside ==
    ASSUME Kept, Inv, NEW r \in RuleIds, NEW rule \in RuleType \cup {NoRule},
           rule # NoRule => rule.updatedAt <= peak,
           Edit(WithRule(file.text, r, rule)), UNCHANGED <<backup, refused>>, Firings
    PROVE  Outside
<1> DEFINE text == WithRule(file.text, r, rule)
<1>1. file.text \in BookType /\ Stamped(file.text, peak) /\ file.text.resumedAt \in Nat
    BY BookFacts DEF Inv, Types, Clock
<1>2. /\ text \in BookType /\ text.enabled = file.text.enabled /\ text.applied = file.text.applied
      /\ text.resumedAt = file.text.resumedAt /\ text.rules = [file.text.rules EXCEPT ![r] = rule]
    BY <1>1, WithRuleFacts
<1> HIDE DEF text
<1>3. file.text.rules \in [RuleIds -> RuleType \cup {NoRule}]
    BY <1>1, BookFacts
<1>4. \A x \in valid_rules(text) : text.rules[x].updatedAt <= peak
    BY <1>1, <1>2, <1>3 DEF valid_rules, Stamped
<1>5. Stamped(text, peak)
    BY <1>1, <1>2, <1>4 DEF Stamped
<1>6. QED
    BY <1>1, <1>2, <1>5, EditOutside DEF text

LEMMA SaveOutside ==
    ASSUME Kept, Inv, Save, UNCHANGED refused, Firings PROVE Outside
<1>1. PICK r \in RuleIds, s \in Slots, w \in Whens :
        Edit([file.text EXCEPT !.rules[r] =
                [slot |-> s, when |-> w, is_window |-> \A o \in w : o.end # 0, updatedAt |-> now]])
    BY DEF Save
<1> DEFINE rule == [slot |-> s, when |-> w, is_window |-> \A o \in w : o.end # 0, updatedAt |-> now]
<1>2. rule \in RuleType /\ rule.updatedAt = now
    <2>1. (\A o \in w : o.end # 0) \in BOOLEAN
        BY Zenon
    <2>2. w \in Dates /\ now \in Nat
        BY DatesFacts DEF Inv, Types
    <2>3. QED
        BY <2>1, <2>2 DEF RuleType
<1>3. Edit(WithRule(file.text, r, rule)) /\ backup' = backup
    BY <1>1 DEF WithRule, Save
<1>4. now <= peak
    BY DEF Inv, Clock
<1> HIDE DEF rule
<1>5. QED
    BY <1>2, <1>3, <1>4, WithRuleOutside

LEMMA SkipOutside ==
    ASSUME Kept, Inv, Skip, UNCHANGED refused, Firings PROVE Outside
<1>0. PICK r \in valid_rules(file.text) : \E o \in file.text.rules[r].when :
        Edit([file.text EXCEPT !.rules[r].when = @ \ {o}, !.rules[r].updatedAt = now])
    BY DEF Skip
<1>1. PICK o \in file.text.rules[r].when :
        Edit([file.text EXCEPT !.rules[r].when = @ \ {o}, !.rules[r].updatedAt = now])
    BY <1>0
<1> DEFINE rule == [file.text.rules[r] EXCEPT !.when = @ \ {o}, !.updatedAt = now]
<1>2. r \in RuleIds /\ file.text.rules[r] \in RuleType /\ now \in Nat /\ file.text \in BookType
    BY BookFacts DEF Inv, Types
<1>3. rule \in RuleType /\ rule.updatedAt = now
    <2>1. file.text.rules[r].when \ {o} \in Dates
        BY <1>2, DatesFacts DEF RuleType
    <2>2. QED
        BY <1>2, <2>1 DEF RuleType
<1>4. [file.text EXCEPT !.rules[r].when = @ \ {o}, !.rules[r].updatedAt = now]
        = WithRule(file.text, r, rule)
    BY <1>2 DEF WithRule, BookType, RuleType
<1>5. now <= peak
    BY DEF Inv, Clock
<1>6. backup' = backup
    BY DEF Skip
<1> HIDE DEF rule
<1>7. QED
    BY <1>1, <1>2, <1>3, <1>4, <1>5, <1>6, WithRuleOutside

LEMMA DeleteOutside ==
    ASSUME Kept, Inv, Delete, UNCHANGED refused, Firings PROVE Outside
<1>1. PICK r \in valid_rules(file.text) : Edit([file.text EXCEPT !.rules[r] = NoRule])
    BY DEF Delete
<1>2. r \in RuleIds
    BY DEF valid_rules
<1>3. Edit(WithRule(file.text, r, NoRule)) /\ backup' = backup
    BY <1>1 DEF WithRule, Delete
<1>4. QED
    BY <1>2, <1>3, WithRuleOutside

LEMMA SetEnabledOutside ==
    ASSUME Kept, Inv, SetEnabled, UNCHANGED refused, Firings PROVE Outside
<1> DEFINE b    == file.text
           text == [b EXCEPT !.enabled = ~ @, !.resumedAt = IF b.enabled THEN @ ELSE now]
<1>1. /\ b \in BookType /\ Stamped(b, peak) /\ b.resumedAt \in Nat
      /\ now \in Nat /\ peak \in Nat /\ now <= peak
    BY BookFacts DEF Inv, Types, Clock
<1>2. Edit(text) /\ backup' = backup
    BY DEF SetEnabled
<1> HIDE DEF b
<1>3. (~ b.enabled) \in BOOLEAN
    BY Zenon
<1>4. /\ text \in BookType /\ text.enabled = ~ b.enabled /\ text.applied = b.applied /\ text.rules = b.rules
      /\ text.resumedAt = IF b.enabled THEN b.resumedAt ELSE now
    BY <1>1, <1>3 DEF BookType
<1> HIDE DEF text
<1>5. Stamped(text, peak)
    BY <1>1, <1>4 DEF Stamped, valid_rules
<1>6. /\ text \in BookType /\ Edit(text) /\ UNCHANGED <<backup, refused>>
      /\ text.applied = file.text.applied
      /\ IF text.enabled /\ ~ file.text.enabled THEN now <= text.resumedAt
                                                ELSE file.text.resumedAt <= text.resumedAt
    <2>0. text.resumedAt = (IF b.enabled THEN b.resumedAt ELSE now) /\ text.applied = b.applied
        BY <1>4
    <2>1. CASE b.enabled
        BY <1>1, <1>2, <1>4, <2>0, <2>1 DEF b
    <2>2. CASE ~ b.enabled
        <3>1. text.resumedAt = now /\ now <= text.resumedAt
            BY <1>1, <2>0, <2>2
        <3>2. text.enabled
            BY <1>4, <2>2
        <3>3. QED
            BY <1>2, <1>4, <2>2, <3>1, <3>2 DEF b
    <2>3. QED
        BY <2>1, <2>2
<1>7. QED
    BY <1>5, <1>6, EditOutside

LEMMA RestoreOutside ==
    ASSUME Kept, Inv, Restore, UNCHANGED refused, Firings PROVE Outside
<1> DEFINE rules   == [r \in RuleIds |-> IF backup.rules[r] = NoRule THEN NoRule
                                         ELSE [backup.rules[r] EXCEPT !.updatedAt = now]]
           resumes == {backup.resumedAt, file.text.resumedAt}
                      \cup (IF backup.enabled /\ ~ file.text.enabled THEN {now} ELSE {})
           last    == Largest(resumes)
           text    == [backup EXCEPT !.rules = rules, !.applied = file.text.applied, !.resumedAt = last]
<1>1. /\ file.text \in BookType /\ Stamped(file.text, peak) /\ file.text.resumedAt \in Nat
      /\ backup \in BookType /\ Stamped(backup, peak) /\ backup.resumedAt \in Nat
      /\ now \in Nat /\ peak \in Nat /\ now <= peak
      /\ file.text.applied \in [Slots -> Records]
      /\ backup.rules \in [RuleIds -> RuleType \cup {NoRule}]
    BY BookFacts DEF Inv, Types, Clock
<1>2. file.readable
    BY DEF Inv, Types
<1>3. Edit(text) /\ backup' = backup
    BY <1>2 DEF Restore
<1>4. /\ rules \in [RuleIds -> RuleType \cup {NoRule}]
      /\ \A r \in RuleIds : rules[r] # NoRule => rules[r].updatedAt = now
    BY <1>1 DEF RuleType
<1>5. /\ last \in {backup.resumedAt, file.text.resumedAt, now}
      /\ file.text.resumedAt <= last
      /\ backup.enabled /\ ~ file.text.enabled => now <= last
    <2>1. /\ resumes \in SUBSET {backup.resumedAt, file.text.resumedAt, now}
          /\ file.text.resumedAt \in resumes
          /\ backup.enabled /\ ~ file.text.enabled => now \in resumes
        OBVIOUS
    <2>2. backup.resumedAt \in Nat /\ file.text.resumedAt \in Nat /\ now \in Nat
        BY <1>1
    <2> HIDE DEF resumes
    <2>3. last \in resumes /\ file.text.resumedAt <= last
        BY <2>1, <2>2, LargestFacts
    <2>4. backup.enabled /\ ~ file.text.enabled => now <= last
        BY <2>1, <2>2, LargestFacts
    <2>5. QED
        BY <2>1, <2>3, <2>4
<1> HIDE DEF rules, last
<1>6. /\ text \in BookType /\ text.enabled = backup.enabled /\ text.applied = file.text.applied
      /\ text.rules = rules /\ text.resumedAt = last
    BY <1>1, <1>4, <1>5 DEF BookType
<1> HIDE DEF text
<1>7. Stamped(text, peak)
    BY <1>1, <1>4, <1>5, <1>6 DEF Stamped, valid_rules
<1>8. IF text.enabled /\ ~ file.text.enabled THEN now <= text.resumedAt
                                             ELSE file.text.resumedAt <= text.resumedAt
    BY <1>5, <1>6
<1>9. QED
    BY <1>3, <1>6, <1>7, <1>8, EditOutside

\* What a step that leaves the file alone needs.
LEMMA UneditedOutside ==
    ASSUME Kept, Inv, UNCHANGED <<file, process, cycle, refused>>, fired' = fired,
           now' \in Nat, peak' \in Nat, peak <= peak', now' <= peak',
           now' = 0 \/ peak' <= now' + MaxBack,
           backup' \in BookType, Stamped(backup', peak'),
           request' \in RequestType, request'.rec.at <= peak',
           request'.pc # "none" => request'.slot \in Slots /\ request'.rec \in RecordType
    PROVE  Outside
<1>1. /\ file \in FileType /\ file.text \in BookType /\ Stamped(file.text, peak) /\ peak \in Nat
      /\ file.text.resumedAt \in Nat
    BY BookFacts DEF Inv, Types, Clock, FileType
<1>2. Stamped(file.text, peak')
    BY <1>1, StampedLater
<1>3. Stamped(file'.text, peak')
    BY <1>2 DEF Stamped, valid_rules
<1>4. ~ Resumed /\ file.text.resumedAt <= file'.text.resumedAt
    BY <1>1 DEF Resumed
<1>5. /\ UNCHANGED <<book, unrecorded, openWindows, loadedAt, stale, lastNow, nextAt, cycle, refused>>
      /\ file' \in FileType
    BY <1>1 DEF process
<1>6. \A f \in fired' : file.text.applied[f[1]].at <= file'.text.applied[f[1]].at
    BY <1>1, <1>5, FiredSlots, BookFacts DEF Inv
<1>7. QED
    BY <1>3, <1>4, <1>5, <1>6 DEF Outside

LEMMA HighestReading ==
    ASSUME NEW p \in Nat, NEW m \in Nat, NEW k \in Nat, k = 0 \/ k + m >= p,
           NEW q, q = IF k > p THEN k ELSE p
    PROVE  q \in Nat /\ p <= q /\ k <= q /\ (k = 0 \/ q <= k + m)
OBVIOUS

LEMMA PlainOutside ==
    ASSUME Kept, Inv, TakeBackup \/ SetByHand \/ Pass \/ SetClock, UNCHANGED refused, Firings
    PROVE  Outside
<1>1. /\ UNCHANGED <<file, process, cycle, request, refused>>
    BY DEF TakeBackup, SetByHand, Pass, SetClock, around
<1>2. fired' = fired
    BY <1>1, FiringsSame DEF Inv
<1>3. /\ now \in Nat /\ peak \in Nat /\ now <= peak /\ (now = 0 \/ peak <= now + MaxBack)
      /\ MaxBack \in Nat /\ MaxTime \in Nat
      /\ file.text \in BookType /\ Stamped(file.text, peak)
      /\ backup \in BookType /\ Stamped(backup, peak)
      /\ request \in RequestType /\ request.rec.at <= peak /\ request.rec.at \in Nat
      /\ request.pc # "none" => request.slot \in Slots /\ request.rec \in RecordType
    BY SchedulerAssumption, RecordFacts DEF Inv, Types, Clock, Running, RequestType
<1>4. /\ now' \in Nat /\ peak' \in Nat /\ peak <= peak' /\ now' <= peak'
      /\ (now' = 0 \/ peak' <= now' + MaxBack)
    <2>1. CASE now' = now /\ peak' = peak
        BY <1>3, <2>1
    <2>2. CASE Pass
        BY <1>3, <2>2 DEF Pass
    <2>3. CASE SetClock
        <3>1. now' = 0 \/ (now' \in 1..MaxTime /\ now' + MaxBack >= peak)
            BY <2>3 DEF SetClock
        <3>2. peak' = IF now' > peak THEN now' ELSE peak
            BY <2>3 DEF SetClock
        <3>3. now' \in Nat
            BY <1>3, <3>1
        <3>4. now' = 0 \/ now' + MaxBack >= peak
            BY <3>1
        <3>5. QED
            BY <1>3, <3>2, <3>3, <3>4, HighestReading
    <2>4. QED
        BY <2>1, <2>2, <2>3 DEF TakeBackup, SetByHand, clock
<1>5. backup' \in BookType /\ Stamped(backup', peak')
    <2>1. (backup' = backup \/ backup' = file.text) /\ backup' \in BookType
        BY <1>3 DEF TakeBackup, SetByHand, Pass, SetClock, around
    <2>2. Stamped(backup, peak') /\ Stamped(file.text, peak')
        BY <1>3, <1>4, StampedLater
    <2>3. QED
        BY <2>1, <2>2 DEF Stamped, valid_rules
<1>6. request'.rec.at <= peak'
    BY <1>1, <1>3, <1>4
<1>7. QED
    BY <1>1, <1>2, <1>3, <1>4, <1>5, <1>6, UneditedOutside

LEMMA WithTextFacts ==
    ASSUME NEW f \in FileType, NEW s \in Slots, NEW rec \in Records
    PROVE  /\ [f EXCEPT !.text.applied[s] = rec] \in FileType
           /\ [f EXCEPT !.text.applied[s] = rec].text = WithApplied(f.text, s, rec)
<1>1. f.text \in BookType
    BY DEF FileType
<1>2. WithApplied(f.text, s, rec) \in BookType
    BY <1>1, WithAppliedFacts
<1>3. [f EXCEPT !.text.applied[s] = rec] = [f EXCEPT !.text = WithApplied(f.text, s, rec)]
    BY DEF WithApplied, FileType
<1>4. QED
    BY <1>2, <1>3 DEF FileType

LEMMA NoRequestFacts ==
    /\ NoRequest \in RequestType /\ NoRequest.pc = "none" /\ NoRequest.rec.at = 0
BY RecordFacts DEF NoRequest, RequestType

LEMMA ApplyNowReadOutside ==
    ASSUME Kept, Inv, ApplyNowRead, UNCHANGED refused, Firings PROVE Outside
<1> DEFINE text == file.text
<1>1. PICK r \in valid_rules(text) :
        LET rule    == text.rules[r]
            applied == text.applied[rule.slot]
            at      == IF now < applied.at /\ applied.at <= now + Tolerance THEN applied.at ELSE now
            running == {o \in rule.when : o.start <= at /\ at < o.end}
        IN  request' = [pc |-> "record", slot |-> rule.slot,
                        rec |-> [rule |-> r, at |-> at,
                                 kind |-> IF rule.is_window /\ running = {} THEN END ELSE START,
                                 ends |-> Largest({o.end : o \in running})]]
    BY DEF ApplyNowRead
<1> DEFINE rule    == text.rules[r]
           applied == text.applied[rule.slot]
           at      == IF now < applied.at /\ applied.at <= now + Tolerance THEN applied.at ELSE now
           running == {o \in rule.when : o.start <= at /\ at < o.end}
           kind    == IF rule.is_window /\ running = {} THEN END ELSE START
           ends    == Largest({o.end : o \in running})
           rec     == [rule |-> r, at |-> at, kind |-> kind, ends |-> ends]
<1>2. /\ text \in BookType /\ Stamped(text, peak) /\ now \in Nat /\ now <= peak /\ peak \in Nat
      /\ backup \in BookType /\ Stamped(backup, peak)
      /\ (now = 0 \/ peak <= now + MaxBack)
    BY DEF Inv, Types, Clock
<1>3. /\ r \in RuleIds /\ rule \in RuleType /\ rule.slot \in Slots /\ applied.at \in Nat
      /\ applied.at <= peak
    BY <1>2, BookFacts DEF Stamped
<1>4. at \in Nat /\ at <= peak
    BY <1>2, <1>3
<1>5. ends \in Nat
    <2>1. \A o \in rule.when : o.end \in 0..MaxTime
        BY <1>3, DatesFacts DEF RuleType
    <2>2. MaxTime \in Nat
        BY SchedulerAssumption
    <2>3. \A o \in running : o.end \in 0..MaxTime
        BY <2>1
    <2> HIDE DEF running
    <2>4. {o.end : o \in running} \in SUBSET (0..MaxTime)
        BY <2>3
    <2>5. QED
        BY <2>2, <2>4, LargestTime
<1>6. kind \in {START, END}
    OBVIOUS
<1>7. request' = [pc |-> "record", slot |-> rule.slot, rec |-> rec]
    BY <1>1
<1> HIDE DEF at, ends, kind, rule
<1>8. rec \in RecordType /\ rec.at <= peak
    BY <1>3, <1>4, <1>5, <1>6 DEF RecordType
<1> HIDE DEF rec
<1>9. /\ request' \in RequestType /\ request'.rec.at <= peak
      /\ request'.slot \in Slots /\ request'.rec \in RecordType /\ request'.pc = "record"
    BY <1>3, <1>7, <1>8, RecordFacts DEF RequestType
<1>10. UNCHANGED <<now, peak, file, process, cycle, backup, refused>>
    BY DEF ApplyNowRead, clock
<1>11. fired' = fired
    <2>1. ~ Firing /\ ~ ClosedEarly
        BY <1>10 DEF Firing, ClosedEarly
    <2>2. ~ Overtaken
        BY <1>9 DEF Overtaken
    <2>3. QED
        BY <2>1, <2>2 DEF Firings
<1>12. Stamped(backup', peak')
    BY <1>2, <1>10 DEF Stamped, valid_rules
<1>13. QED
    BY <1>2, <1>9, <1>10, <1>11, <1>12, UneditedOutside

LEMMA ApplyNowWriteOutside ==
    ASSUME Kept, Inv, UNCHANGED <<clock, file, process, cycle, backup, refused>>,
           request' = NoRequest, Firings
    PROVE  Outside
<1>1. /\ now \in Nat /\ peak \in Nat /\ now <= peak /\ (now = 0 \/ peak <= now + MaxBack)
      /\ backup \in BookType /\ Stamped(backup, peak)
    BY DEF Inv, Types, Clock
<1>2. fired' = fired
    <2>1. ~ Firing /\ ~ ClosedEarly
        BY DEF Firing, ClosedEarly
    <2>2. ~ Overtaken
        BY NoRequestFacts DEF Overtaken
    <2>3. QED
        BY <2>1, <2>2 DEF Firings
<1>3. now' = now /\ peak' = peak
    BY DEF clock
<1>4. Stamped(backup', peak')
    BY <1>1, <1>3 DEF Stamped, valid_rules
<1>5. QED
    BY <1>1, <1>2, <1>3, <1>4, NoRequestFacts, UneditedOutside

LEMMA ApplyNowRecordOutside ==
    ASSUME Kept, Inv, ApplyNowRecord, UNCHANGED refused, Firings PROVE Outside
<1>1. UNCHANGED <<now, peak, process, cycle, backup, refused>> /\ request.pc = "record"
    BY DEF ApplyNowRecord, clock
<1>2. CASE request' = NoRequest /\ UNCHANGED file
    BY <1>1, <1>2, ApplyNowWriteOutside DEF clock
<1>3. CASE /\ file' = [file EXCEPT !.text.applied[request.slot] = request.rec]
           /\ request' = [request EXCEPT !.pc = "write"]
    <2>1. /\ request.slot \in Slots /\ request.rec \in RecordType /\ request.rec \in Records
          /\ request.rec.at \in Nat /\ request.rec.at <= peak
        BY <1>1, RecordFacts DEF Inv, Running, Clock
    <2>2. /\ file \in FileType /\ file.text \in BookType /\ Stamped(file.text, peak)
          /\ now \in Nat /\ peak \in Nat /\ now <= peak /\ (now = 0 \/ peak <= now + MaxBack)
          /\ backup \in BookType /\ Stamped(backup, peak)
        BY DEF Inv, Types, Clock, FileType
    <2>3. file' \in FileType /\ file'.text = WithApplied(file.text, request.slot, request.rec)
        BY <1>3, <2>1, <2>2, WithTextFacts
    <2>4. /\ file'.text.enabled = file.text.enabled /\ file'.text.resumedAt = file.text.resumedAt
          /\ file'.text.applied = [file.text.applied EXCEPT ![request.slot] = request.rec]
          /\ file.text.applied \in [Slots -> Records] /\ file.text.resumedAt \in Nat
        BY <2>1, <2>2, <2>3, WithAppliedFacts, BookFacts
    <2>5. Stamped(file'.text, peak') /\ Stamped(backup', peak')
        <3>1. Stamped(WithApplied(file.text, request.slot, request.rec), peak)
            BY <2>1, <2>2, StampedApplied
        <3>2. QED
            BY <1>1, <2>2, <2>3, <3>1 DEF Stamped, valid_rules
    <2>6. /\ request' \in RequestType /\ request'.pc = "write"
          /\ request'.slot = request.slot /\ request'.rec = request.rec
        BY <1>3 DEF Inv, Types, RequestType
    <2>7. ~ Firing /\ ~ ClosedEarly
        BY <1>1 DEF Firing, ClosedEarly
    <2>8. /\ fired' \subseteq fired
          /\ \A f \in fired' : \/ file.text.applied[f[1]].at <= file'.text.applied[f[1]].at
                               \/ f[2].at <= file'.text.applied[f[1]].at
        <3>1. CASE Overtaken
            BY <2>7, <3>1 DEF Firings, OnRecord
        <3>2. CASE ~ Overtaken
            <4>1. fired' = fired
                BY <2>7, <3>2 DEF Firings
            <4>2. ~ (request.rec.at < file.text.applied[request.slot].at)
                BY <1>1, <2>6, <3>2 DEF Overtaken
            <4>3. \A s \in Slots : file.text.applied[s].at \in Nat
                BY <2>4, RecordFacts
            <4>4. \A s \in Slots : file.text.applied[s].at <= file'.text.applied[s].at
                BY <2>1, <2>4, <4>2, <4>3
            <4>5. QED
                BY <4>1, <4>4, FiredSlots DEF Inv
        <3>3. QED
            BY <3>1, <3>2
    <2>9. ~ Resumed /\ file.text.resumedAt <= file'.text.resumedAt
        BY <2>4 DEF Resumed
    <2>10. UNCHANGED <<book, unrecorded, openWindows, loadedAt, stale, lastNow, nextAt, cycle, refused>>
        BY <1>1 DEF process
    <2>11. QED
        BY <1>1, <2>1, <2>2, <2>3, <2>5, <2>6, <2>8, <2>9, <2>10 DEF Outside
<1>4. QED
    BY <1>2, <1>3 DEF ApplyNowRecord

-----------------------------------------------------------------------------
(***************************************************************************)
(* Steps of a cycle.                                                       *)
(***************************************************************************)
Same(b, c) == c.enabled = b.enabled /\ c.rules = b.rules /\ c.resumedAt = b.resumedAt

Inside ==
    /\ UNCHANGED <<now, peak, backup, request, openWindows, loadedAt, lastNow>>
    /\ file' \in FileType /\ Same(file.text, file'.text) /\ Stamped(file'.text, peak)
    /\ book' \in BookType /\ Same(book, book') /\ Stamped(book', peak)
    /\ unrecorded' \in [Slots -> Records] /\ \A s \in Slots : unrecorded'[s].at <= peak
    /\ stale' \in BOOLEAN /\ refused' \in BOOLEAN /\ nextAt' \in Nat
    /\ cycle' \in CycleType /\ (cycle'.now = cycle.now \/ cycle'.now = 0)
    /\ fired' \subseteq Slots \X RecordType

LEMMA NoBookIsNone == NoBook \notin BookType
<1>1. "rules" \notin DOMAIN NoBook
    BY DEF NoBook
<1>2. \A b \in BookType : "rules" \in DOMAIN b
    BY DEF BookType
<1>3. QED
    BY <1>1, <1>2

LEMMA InCycle ==
    ASSUME Inv, cycle.pc # "idle"
    PROVE  /\ book \in BookType /\ book # NoBook /\ Stamped(book, peak)
           /\ Stamped(book, cycle.now + MaxBack)
           /\ cycle.now = lastNow /\ cycle.now \in Nat /\ cycle.now >= 1 /\ cycle.now <= peak
           /\ peak \in Nat /\ MaxBack \in Nat /\ cycle \in CycleType
           /\ cycle.recording \in BOOLEAN
BY SchedulerAssumption DEF Inv, Types, Clock, Running, CycleType, CLOCK_FLOOR

LEMMA InsideKeeps ==
    ASSUME Inv, cycle.pc # "idle", Inside, Pauses
    PROVE  Types' /\ Clock' /\ PauseIsKnown'
<1>1. pausedAt' \in Nat /\ pausedAt' <= peak /\ silent' \subseteq Nat
    BY PausesFacts DEF Inv
<1>2. silent' = silent /\ (~ file'.text.enabled => pausedAt' = pausedAt)
    BY PausesQuiet DEF Inside, Same
<1>3. Types'
    BY <1>1 DEF Inside, Inv, Types, FileType
<1>4. Clock'
    <2>1. /\ now' = now /\ peak' = peak /\ loadedAt' = loadedAt /\ backup' = backup /\ request' = request
          /\ peak \in Nat
        BY DEF Inside, Inv, Types
    <2>2. cycle'.now <= peak'
        BY <2>1, InCycle DEF Inside
    <2>3. Stamped(backup', peak') /\ Stamped(file'.text, peak') /\ (book' # NoBook => Stamped(book', peak'))
        BY <2>1 DEF Inside, Inv, Clock, Stamped, valid_rules
    <2>4. QED
        BY <1>1, <2>1, <2>2, <2>3 DEF Inside, Inv, Clock
<1>5. PauseIsKnown'
    <2>1. /\ file'.text.resumedAt = file.text.resumedAt /\ file'.text.enabled = file.text.enabled
          /\ book'.resumedAt = book.resumedAt /\ book'.enabled = book.enabled /\ loadedAt' = loadedAt
        BY DEF Inside, Same
    <2>2. book # NoBook
        BY InCycle
    <2>3. /\ cycle'.now <= cycle.now /\ cycle'.now \in Nat /\ cycle.now \in Nat
          /\ pausedAt \in Nat /\ loadedAt \in Nat /\ silent \subseteq Nat
        <3>1. cycle.now \in Nat /\ (cycle'.now = cycle.now \/ cycle'.now = 0)
            BY InCycle DEF Inside
        <3>2. pausedAt \in Nat /\ loadedAt \in Nat /\ silent \subseteq Nat
            BY DEF Inv, Types
        <3>3. QED
            BY <3>1, <3>2
    <2>4. \A t \in silent' : t <= file'.text.resumedAt
        BY <1>2, <2>1 DEF Inv, PauseIsKnown
    <2>5. book.enabled => \A t \in silent : t <= book.resumedAt \/ (loadedAt < t /\ cycle'.now < t)
        BY <2>2, <2>3 DEF Inv, PauseIsKnown
    <2>6. book.enabled /\ ~ file.text.enabled => loadedAt <= pausedAt /\ cycle'.now <= pausedAt
        BY <2>2, <2>3 DEF Inv, PauseIsKnown
    <2>7. QED
        BY <1>2, <2>1, <2>4, <2>5, <2>6 DEF PauseIsKnown
<1>6. QED
    BY <1>3, <1>4, <1>5

\* A step that leaves the file, the book and the memory alone.
LEMMA StillInside ==
    ASSUME Inv, cycle.pc # "idle",
           UNCHANGED <<clock, backup, request, openWindows, loadedAt, lastNow, file, book, unrecorded>>,
           stale' \in BOOLEAN, refused' \in BOOLEAN, nextAt' \in Nat,
           cycle' \in CycleType, cycle'.now = cycle.now \/ cycle'.now = 0,
           fired' \subseteq Slots \X RecordType, Pauses
    PROVE  Types' /\ Clock' /\ PauseIsKnown' /\ UnrecordedIsApplied'
<1>1. Same(file.text, file'.text) /\ Same(book, book')
    BY DEF Same
<1>2. Stamped(file'.text, peak) /\ Stamped(book', peak)
    BY InCycle DEF Inv, Clock, Stamped, valid_rules
<1>3. /\ file' \in FileType /\ book' \in BookType /\ unrecorded' \in [Slots -> Records]
      /\ \A s \in Slots : unrecorded'[s].at <= peak
    BY InCycle DEF Inv, Types, Clock, FileType
<1>4. Inside
    BY <1>1, <1>2, <1>3 DEF Inside, clock
<1>5. UnrecordedIsApplied'
    BY DEF Inv, UnrecordedIsApplied
<1>6. QED
    BY <1>4, <1>5, InsideKeeps

\* Neither a write nor a record.
LEMMA FiringsIdle ==
    ASSUME request' = request, ~ cycle.recording, ~ cycle'.recording, Firings
    PROVE  fired' = fired
<1>1. ~ Firing /\ ~ ClosedEarly
    BY DEF Firing, ClosedEarly
<1>2. ~ Overtaken
    BY DEF Overtaken
<1>3. QED
    BY <1>1, <1>2 DEF Firings

\* Running holds after a step of a cycle that goes on over a book as near.
LEMMA RunningKeeps ==
    ASSUME Inv, cycle.pc # "idle", cycle'.now = cycle.now, cycle'.pc # "idle",
           lastNow' = lastNow, request' = request,
           book' \in BookType, Stamped(book', cycle.now + MaxBack),
           cycle'.recording => cycle'.pc \in {"apply", "close"} /\ cycle'.hand \in PointType,
           cycle'.pc = "flush" => cycle'.todo \subseteq {s \in Slots : unrecorded'[s] # NoRecord},
           cycle'.pc \in {"apply", "close"} => cycle'.todo \subseteq PointType
    PROVE  Running'
<1>1. cycle.now = lastNow /\ cycle.now >= 1
    BY InCycle
<1>2. lastNow' >= CLOCK_FLOOR /\ Stamped(book', lastNow' + MaxBack)
    BY <1>1 DEF CLOCK_FLOOR
<1>3. book' # NoBook
    BY NoBookIsNone
<1>4. QED
    BY <1>1, <1>2, <1>3 DEF Inv, Running

\* One of the points goes: it is dropped, or written and not yet recorded.
LEMMA DropInv ==
    ASSUME Kept, Inv, cycle.pc \in {"apply", "close"}, ~ cycle.recording, NEW p \in cycle.todo,
           cycle' = Without(cycle, p), fired' = fired,
           UNCHANGED <<clock, backup, request, openWindows, loadedAt, lastNow, nextAt, file, book, unrecorded>>,
           stale' \in BOOLEAN, refused' \in BOOLEAN, Pauses
    PROVE  Inv'
<1>1. /\ cycle.pc # "idle" /\ cycle \in CycleType
      /\ book \in BookType /\ Stamped(book, cycle.now + MaxBack) /\ book' = book
    BY InCycle
<1>2. /\ cycle' \in CycleType /\ cycle'.pc = cycle.pc /\ cycle'.recording = cycle.recording
      /\ cycle'.now = cycle.now /\ cycle'.todo = cycle.todo \ {p} /\ cycle'.hand = cycle.hand
    BY <1>1, WithoutFacts
<1>3. cycle.todo \subseteq PointType
    BY DEF Inv, Running
<1>4. fired' \subseteq Slots \X RecordType /\ nextAt' \in Nat
    BY DEF Inv, Types
<1>5. Types' /\ Clock' /\ PauseIsKnown' /\ UnrecordedIsApplied'
    BY <1>1, <1>2, <1>4, StillInside
<1>6. Stamped(book', cycle.now + MaxBack)
    BY <1>1 DEF Stamped, valid_rules
<1>7. Running'
    BY <1>1, <1>2, <1>3, <1>6, RunningKeeps
<1>8. TodoIsDue'
    BY <1>1, <1>2 DEF Inv, TodoIsDue
<1>9. CloseIsNow'
    BY <1>2 DEF Inv, CloseIsNow
<1>10. FiredIsKnown'
    BY <1>2 DEF Inv, FiredIsKnown, InHand
<1>11. QED
    BY <1>5, <1>7, <1>8, <1>9, <1>10 DEF Inv

LEMMA WriteFailedInv ==
    ASSUME Kept, Inv, WriteFailed, UNCHANGED refused, Firings, Pauses PROVE Inv'
<1>1. PICK p \in cycle.todo : cycle' = Without(cycle, p)
    BY DEF WriteFailed, Without
<1>2. /\ cycle.pc \in {"apply", "close"} /\ ~ cycle.recording
      /\ UNCHANGED <<clock, backup, request, openWindows, loadedAt, lastNow, nextAt, file, book, unrecorded>>
    BY DEF WriteFailed, around
<1>3. ~ cycle'.recording
    BY <1>1, <1>2, WithoutFacts DEF Inv, Types
<1>4. fired' = fired
    BY <1>2, <1>3, FiringsIdle
<1>5. stale' \in BOOLEAN
    <2>1. TRUE \in BOOLEAN
        BY Zenon
    <2>2. QED
        BY <2>1 DEF WriteFailed
<1>6. refused' \in BOOLEAN
    BY DEF Inv, Types
<1>7. QED
    BY <1>1, <1>2, <1>4, <1>5, <1>6, DropInv

\* While the file can be read, no cycle ends windows blindly.
LEMMA NoEndCycle ==
    ASSUME Inv PROVE cycle.pc \in {"idle", "flush", "apply", "close"}
BY DEF Inv, Types, CycleType

LEMMA WriteRefusedInv ==
    ASSUME Kept, Inv, WriteRefused, refused' = TRUE, fired' = fired, Pauses PROVE Inv'
<1>1. PICK p \in cycle.todo : cycle' = Without(cycle, p)
    BY DEF WriteRefused, Without
<1>2. /\ cycle.pc \in {"apply", "close"} /\ ~ cycle.recording
      /\ UNCHANGED <<clock, backup, request, openWindows, loadedAt, lastNow, nextAt, file, book, unrecorded, stale>>
    BY NoEndCycle DEF WriteRefused, around, process
<1>3. stale' \in BOOLEAN
    BY <1>2 DEF Inv, Types
<1>4. refused' \in BOOLEAN
    <2>1. TRUE \in BOOLEAN
        BY Zenon
    <2>2. QED
        BY <2>1
<1>5. QED
    BY <1>1, <1>2, <1>3, <1>4, DropInv

LEMMA WriteOkInv ==
    ASSUME Kept, Inv, WriteOk, UNCHANGED refused, Firings, Pauses PROVE Inv'
<1>1. PICK p \in cycle.todo : cycle' = Written(cycle, p)
    BY DEF WriteOk, Written
<1>2. /\ cycle.pc \in {"apply", "close"} /\ ~ cycle.recording
      /\ UNCHANGED <<clock, backup, request, openWindows, loadedAt, lastNow, nextAt, file, book, unrecorded, stale>>
    BY NoEndCycle DEF WriteOk, around, process
<1>3. /\ cycle.pc # "idle" /\ cycle \in CycleType
      /\ book \in BookType /\ Stamped(book, cycle.now + MaxBack)
    BY <1>2, InCycle
<1>4. cycle.todo \subseteq PointType /\ p \in PointType
    BY <1>2 DEF Inv, Running
<1>5. /\ cycle' \in CycleType /\ cycle'.pc = cycle.pc /\ cycle'.recording = TRUE
      /\ cycle'.now = cycle.now /\ cycle'.todo = cycle.todo \ {p} /\ cycle'.hand = p
    <2>1. cycle \in CycleType /\ p \in PointType
        BY <1>3, <1>4
    <2>2. QED
        BY <1>1, <2>1, WrittenFacts
<1>6. fired' = IF cycle.pc = "apply" THEN fired \cup {<<p.slot, p.rec>>} ELSE fired
    <2>1. Firing <=> cycle.pc = "apply"
        BY <1>2, <1>5 DEF Firing
    <2>2. ~ Overtaken /\ ~ ClosedEarly
        BY <1>2 DEF Overtaken, ClosedEarly
    <2>3. QED
        BY <1>5, <2>1, <2>2 DEF Firings, Point
<1>7. p.slot \in Slots /\ p.rec \in RecordType /\ p.rec.at \in Nat
    BY <1>4, PointFacts
<1>8. fired' \subseteq Slots \X RecordType
    BY <1>6, <1>7 DEF Inv, Types
<1>9. stale' \in BOOLEAN /\ refused' \in BOOLEAN /\ nextAt' \in Nat
    BY <1>2 DEF Inv, Types
<1>10. Types' /\ Clock' /\ PauseIsKnown' /\ UnrecordedIsApplied'
    BY <1>2, <1>3, <1>5, <1>8, <1>9, StillInside
<1>11. Stamped(book', cycle.now + MaxBack) /\ book' \in BookType
    BY <1>2, <1>3 DEF Stamped, valid_rules
<1>12. Running'
    BY <1>2, <1>3, <1>4, <1>5, <1>11, RunningKeeps
<1>13. TodoIsDue'
    BY <1>2, <1>5 DEF Inv, TodoIsDue
<1>14. CloseIsNow'
    BY <1>5 DEF Inv, CloseIsNow
<1>15. FiredIsKnown'
    <2> SUFFICES ASSUME NEW f \in fired'
                 PROVE  /\ book' # NoBook => f[2].at <= book'.applied[f[1]].at \/ InHand(f)'
                        /\ unrecorded'[f[1]] = NoRecord =>
                              f[2].at <= file'.text.applied[f[1]].at \/ InHand(f)'
        BY DEF FiredIsKnown
    <2>1. CASE f \in fired
        BY <1>2, <2>1 DEF Inv, FiredIsKnown, InHand
    <2>2. CASE f \notin fired
        <3>1. cycle.pc = "apply" /\ f = <<p.slot, p.rec>>
            BY <1>6, <2>2
        <3>2. InHand(f)'
            BY <1>5, <1>7, <3>1 DEF InHand
        <3>3. QED
            BY <3>2
    <2>3. QED
        BY <2>1, <2>2
<1>16. QED
    BY <1>10, <1>12, <1>13, <1>14, <1>15 DEF Inv

\* The cycle is over.
LEMMA IdleInv ==
    ASSUME Kept, Inv, cycle.pc # "idle", ~ cycle.recording, cycle' = Idle, fired' = fired,
           UNCHANGED <<clock, backup, request, openWindows, loadedAt, lastNow, file, book, unrecorded>>,
           nextAt' \in Nat, stale' \in BOOLEAN, refused' \in BOOLEAN, Pauses
    PROVE  Inv'
<1>1. book \in BookType /\ Stamped(book, cycle.now + MaxBack) /\ cycle.now = lastNow /\ cycle.now >= 1
    BY InCycle
<1>2. fired' \subseteq Slots \X RecordType
    BY DEF Inv, Types
<1>3. Types' /\ Clock' /\ PauseIsKnown' /\ UnrecordedIsApplied'
    BY <1>2, IdleFacts, StillInside
<1>4. Stamped(book', lastNow' + MaxBack) /\ lastNow' >= CLOCK_FLOOR
    BY <1>1 DEF Stamped, valid_rules, CLOCK_FLOOR
<1>5. Running'
    BY <1>4, IdleFacts DEF Inv, Running
<1>6. TodoIsDue' /\ CloseIsNow'
    BY IdleFacts DEF TodoIsDue, CloseIsNow
<1>7. FiredIsKnown'
    BY DEF Inv, FiredIsKnown, InHand
<1>8. QED
    BY <1>3, <1>5, <1>6, <1>7 DEF Inv

LEMMA AheadNumbers ==
    ASSUME NEW b \in BookType, NEW t \in Nat PROVE Ahead(b, t) \in SUBSET Nat
<1> SUFFICES ASSUME NEW x \in Ahead(b, t) PROVE x \in Nat
    OBVIOUS
<1>1. PICK r \in valid_rules(b) : \E p \in switch_points(r, b.rules[r], t, MaxTime) : x = p.rec.at
    BY DEF Ahead
<1>2. PICK p \in switch_points(r, b.rules[r], t, MaxTime) : x = p.rec.at
    BY <1>1
<1>3. r \in RuleIds /\ b.rules[r] \in RuleType /\ MaxTime \in Nat
    BY BookFacts, SchedulerAssumption
<1>4. p \in PointType
    BY <1>3, SwitchPointFacts
<1>5. QED
    BY <1>2, <1>4, PointFacts

LEMMA NextSwitchFacts ==
    ASSUME NEW b \in BookType, NEW t \in Nat
    PROVE  LET n == next_switch_at(b, t)
           IN  /\ n \in Nat
               /\ n = 0 => Ahead(b, t) = {}
               /\ n # 0 => \A x \in Ahead(b, t) : n <= x
<1>1. next_switch_at(b, t) =
        IF Ahead(b, t) = {} THEN 0 ELSE CHOOSE x \in Ahead(b, t) : \A y \in Ahead(b, t) : x <= y
    BY DEF next_switch_at, Ahead
<1>2. CASE Ahead(b, t) = {}
    BY <1>1, <1>2
<1>3. CASE Ahead(b, t) # {}
    <2>1. \E x \in Ahead(b, t) : \A y \in Ahead(b, t) : x <= y
        BY <1>3, AheadNumbers, LeastNumber
    <2>2. /\ next_switch_at(b, t) \in Ahead(b, t)
          /\ \A y \in Ahead(b, t) : next_switch_at(b, t) <= y
        BY <1>1, <1>3, <2>1
    <2>3. 0 \notin Ahead(b, t)
        <3> SUFFICES ASSUME 0 \in Ahead(b, t) PROVE FALSE
            OBVIOUS
        <3>1. PICK r \in valid_rules(b) : \E p \in switch_points(r, b.rules[r], t, MaxTime) : 0 = p.rec.at
            BY DEF Ahead
        <3>2. PICK p \in switch_points(r, b.rules[r], t, MaxTime) : 0 = p.rec.at
            BY <3>1
        <3>3. r \in RuleIds /\ b.rules[r] \in RuleType /\ MaxTime \in Nat
            BY BookFacts, SchedulerAssumption
        <3>4. t < p.rec.at
            BY <3>3, SwitchPointFacts
        <3>5. QED
            BY <3>2, <3>4
    <2>4. QED
        BY <2>2, <2>3, AheadNumbers
<1>4. QED
    BY <1>2, <1>3

LEMMA OverInv ==
    ASSUME Kept, Inv, cycle.pc # "idle", ~ cycle.recording, Over(book), Firings,
           UNCHANGED <<clock, backup, request, openWindows, loadedAt, lastNow, file, book, unrecorded, refused>>,
           stale' \in BOOLEAN, Pauses
    PROVE  Inv'
<1>1. cycle' = Idle /\ nextAt' = next_switch_at(book, cycle.now)
    BY DEF Over
<1>2. nextAt' \in Nat
    BY <1>1, InCycle, NextSwitchFacts
<1>3. fired' = fired
    BY <1>1, IdleFacts, FiringsIdle
<1>4. refused' \in BOOLEAN
    BY DEF Inv, Types
<1>5. QED
    BY <1>1, <1>2, <1>3, <1>4, IdleInv

LEMMA WriteBusyInv ==
    ASSUME Kept, Inv, WriteBusy, UNCHANGED refused, Firings, Pauses PROVE Inv'
<1>1. cycle.pc \in {"apply", "close"} /\ ~ cycle.recording
    BY NoEndCycle DEF WriteBusy
<1>2. /\ Over(book) /\ stale' = TRUE
      /\ UNCHANGED <<clock, backup, request, openWindows, loadedAt, lastNow, file, book, unrecorded>>
    BY <1>1 DEF WriteBusy, around
<1>3. stale' \in BOOLEAN
    <2>1. TRUE \in BOOLEAN
        BY Zenon
    <2>2. QED
        BY <1>2, <2>1
<1>4. QED
    BY <1>1, <1>2, <1>3, OverInv

\* From the records to the points that are due.
LEMMA ToApplyInv ==
    ASSUME Kept, Inv, cycle.pc = "flush",
           cycle' = ToApply(cycle, due_switch_points(book, cycle.now)), Firings,
           UNCHANGED <<clock, backup, request, openWindows, loadedAt, lastNow, nextAt, file, book, unrecorded, refused>>,
           stale' \in BOOLEAN, Pauses
    PROVE  Inv'
<1> DEFINE todo == due_switch_points(book, cycle.now)
<1>1. /\ cycle \in CycleType /\ cycle.now \in Nat
      /\ book \in BookType /\ Stamped(book, cycle.now + MaxBack)
    BY InCycle
<1>2. \A p \in todo : /\ p \in PointType /\ book.enabled
                      /\ book.resumedAt < p.rec.at /\ p.rec.at <= cycle.now
                      /\ book.applied[p.slot].at < p.rec.at
                      /\ \A q \in todo : q.slot = p.slot => q = p
    BY <1>1, DueFacts
<1> HIDE DEF todo
<1>3. todo \in SUBSET PointType
    BY <1>2
<1>4. ~ cycle.recording
    BY DEF Inv, Running
<1>5. /\ cycle' \in CycleType /\ cycle'.pc = "apply" /\ ~ cycle'.recording /\ cycle'.now = cycle.now
      /\ cycle'.todo = todo
    BY <1>1, <1>3, <1>4, ToPhaseFacts DEF todo
<1>6. fired' = fired
    BY <1>4, <1>5, FiringsIdle
<1>7. fired' \subseteq Slots \X RecordType /\ nextAt' \in Nat /\ refused' \in BOOLEAN
    BY <1>6 DEF Inv, Types
<1>8. Types' /\ Clock' /\ PauseIsKnown' /\ UnrecordedIsApplied'
    BY <1>1, <1>5, <1>7, StillInside
<1>9. Stamped(book', cycle.now + MaxBack) /\ book' \in BookType
    BY <1>1 DEF Stamped, valid_rules
<1>10. Running'
    BY <1>1, <1>3, <1>5, <1>9, RunningKeeps
<1>11. TodoIsDue'
    BY <1>2, <1>5 DEF TodoIsDue
<1>12. CloseIsNow'
    BY <1>5 DEF CloseIsNow
<1>13. FiredIsKnown'
    BY <1>4, <1>6 DEF Inv, FiredIsKnown, InHand
<1>14. QED
    BY <1>8, <1>10, <1>11, <1>12, <1>13 DEF Inv

LEMMA FlushDoneInv ==
    ASSUME Kept, Inv, FlushDone, UNCHANGED refused, Firings, Pauses PROVE Inv'
<1>1. /\ cycle.pc = "flush" /\ cycle' = ToApply(cycle, due_switch_points(book, cycle.now))
      /\ UNCHANGED <<clock, backup, request, openWindows, loadedAt, lastNow, nextAt, file, book, unrecorded, stale>>
    BY DEF FlushDone, ToApply, process, around
<1>2. stale' \in BOOLEAN
    BY <1>1 DEF Inv, Types
<1>3. QED
    BY <1>1, <1>2, ToApplyInv

LEMMA PhaseDoneInv ==
    ASSUME Kept, Inv, PhaseDone, UNCHANGED refused, Firings, Pauses PROVE Inv'
<1>1. /\ cycle.pc \in {"apply", "close"} /\ ~ cycle.recording /\ cycle.pc # "idle"
      /\ UNCHANGED <<clock, backup, request, openWindows, loadedAt, lastNow, file, book, unrecorded, stale>>
    BY NoEndCycle DEF PhaseDone, around
<1>2. stale' \in BOOLEAN /\ refused' \in BOOLEAN
    BY <1>1 DEF Inv, Types
<1>3. CASE cycle.pc = "close"
    <2>1. Over(book)
        BY <1>3 DEF PhaseDone
    <2>2. QED
        BY <1>1, <1>2, <2>1, OverInv
<1>4. CASE cycle.pc = "apply"
    <2> DEFINE todo == LostWindows(book, cycle.now)
    <2>1. cycle' = ToClose(cycle, todo) /\ nextAt' = nextAt
        BY <1>4 DEF PhaseDone, ToClose
    <2>2. /\ cycle \in CycleType /\ cycle.now \in Nat
          /\ book \in BookType /\ Stamped(book, cycle.now + MaxBack)
        BY <1>1, InCycle
    <2>3. \A p \in todo : p \in PointType /\ p.rec.at = cycle.now /\ p.rec.ends = 0
        <3> SUFFICES ASSUME NEW p \in todo PROVE p \in PointType /\ p.rec.at = cycle.now /\ p.rec.ends = 0
            OBVIOUS
        <3>1. PICK s \in Slots :
                /\ book.applied[s].ends # 0
                /\ p = [slot |-> s, rec |-> [rule |-> book.applied[s].rule, kind |-> END,
                                             at |-> cycle.now, ends |-> 0]]
            BY DEF LostWindows
        <3>2. book.applied[s].rule \in RuleIds
            BY <2>2, <3>1, BookFacts, RecordFacts
        <3>3. QED
            BY <2>2, <3>1, <3>2 DEF PointType, RecordType
    <2> HIDE DEF todo
    <2>4. /\ cycle' \in CycleType /\ cycle'.pc = "close" /\ ~ cycle'.recording /\ cycle'.now = cycle.now
          /\ cycle'.todo = todo
        BY <1>1, <2>1, <2>2, <2>3, ToPhaseFacts
    <2>5. fired' = fired
        BY <1>1, <2>4, FiringsIdle
    <2>6. fired' \subseteq Slots \X RecordType /\ nextAt' \in Nat
        BY <2>1, <2>5 DEF Inv, Types
    <2>7. Types' /\ Clock' /\ PauseIsKnown' /\ UnrecordedIsApplied'
        BY <1>1, <1>2, <2>4, <2>6, StillInside
    <2>8. Stamped(book', cycle.now + MaxBack) /\ book' \in BookType
        BY <1>1, <2>2 DEF Stamped, valid_rules
    <2>9. Running'
        BY <1>1, <2>2, <2>3, <2>4, <2>8, RunningKeeps
    <2>10. TodoIsDue' /\ CloseIsNow'
        BY <2>3, <2>4 DEF TodoIsDue, CloseIsNow
    <2>11. FiredIsKnown'
        BY <1>1, <2>5 DEF Inv, FiredIsKnown, InHand
    <2>12. QED
        BY <2>7, <2>9, <2>10, <2>11 DEF Inv
<1>5. QED
    BY <1>1, <1>3, <1>4

\* A record that reached the file.
LEMMA FlushedInv ==
    ASSUME Kept, Inv, cycle.pc = "flush", NEW s \in cycle.todo,
           file' = [file EXCEPT !.text.applied[s] = unrecorded[s]],
           unrecorded' = [unrecorded EXCEPT ![s] = NoRecord],
           cycle' = Without(cycle, s), Firings,
           UNCHANGED <<clock, backup, request, openWindows, loadedAt, lastNow, nextAt, book, stale, refused>>,
           Pauses
    PROVE  Inv'
<1>1. /\ s \in Slots /\ unrecorded[s] # NoRecord /\ ~ cycle.recording
      /\ cycle.todo \subseteq {x \in Slots : unrecorded[x] # NoRecord}
    BY DEF Inv, Running
<1>2. /\ unrecorded[s] \in Records /\ unrecorded[s].at <= peak /\ unrecorded[s] = book.applied[s]
      /\ unrecorded \in [Slots -> Records] /\ unrecorded[s].at \in Nat
    BY <1>1, RecordFacts DEF Inv, Types, Clock, UnrecordedIsApplied
<1>3. /\ cycle \in CycleType /\ peak \in Nat /\ book # NoBook
      /\ book \in BookType /\ Stamped(book, peak) /\ Stamped(book, cycle.now + MaxBack)
    BY InCycle
<1>4. file \in FileType /\ file.text \in BookType /\ Stamped(file.text, peak)
    BY DEF Inv, Types, Clock, FileType
<1>5. file' \in FileType /\ file'.text = WithApplied(file.text, s, unrecorded[s])
    BY <1>1, <1>2, <1>4, WithTextFacts
<1>6. /\ Same(file.text, file'.text)
      /\ file'.text.applied = [file.text.applied EXCEPT ![s] = unrecorded[s]]
      /\ file.text.applied \in [Slots -> Records]
    BY <1>1, <1>2, <1>4, <1>5, WithAppliedFacts, BookFacts DEF Same
<1>7. Stamped(file'.text, peak)
    BY <1>1, <1>2, <1>3, <1>4, <1>5, StampedApplied
<1>8. /\ cycle' \in CycleType /\ cycle'.pc = "flush" /\ ~ cycle'.recording
      /\ cycle'.now = cycle.now /\ cycle'.todo = cycle.todo \ {s}
    BY <1>1, <1>3, WithoutFacts
<1>9. fired' = fired
    BY <1>1, <1>8, FiringsIdle
<1>10. /\ unrecorded' \in [Slots -> Records]
       /\ unrecorded'[s] = NoRecord /\ \A x \in Slots : x # s => unrecorded'[x] = unrecorded[x]
    BY <1>1, <1>2, RecordFacts
<1>11. \A x \in Slots : unrecorded'[x].at <= peak
    BY <1>3, <1>10, RecordFacts DEF Inv, Clock
<1>12. Same(book, book') /\ Stamped(book', peak) /\ Stamped(book', cycle.now + MaxBack) /\ book' \in BookType
    BY <1>3 DEF Same, Stamped, valid_rules
<1>13. /\ stale' \in BOOLEAN /\ refused' \in BOOLEAN /\ nextAt' \in Nat
       /\ fired' \subseteq Slots \X RecordType
    BY <1>9 DEF Inv, Types
<1>14. Inside
    BY <1>5, <1>6, <1>7, <1>8, <1>10, <1>11, <1>12, <1>13 DEF Inside, clock
<1>15. Types' /\ Clock' /\ PauseIsKnown'
    BY <1>14, InsideKeeps
<1>16. Running'
    BY <1>1, <1>8, <1>10, <1>12, RunningKeeps
<1>17. TodoIsDue' /\ CloseIsNow'
    BY <1>8 DEF TodoIsDue, CloseIsNow
<1>18. UnrecordedIsApplied'
    BY <1>10 DEF Inv, UnrecordedIsApplied
<1>19. FiredIsKnown'
    <2> SUFFICES ASSUME NEW f \in fired
                 PROVE  /\ book' # NoBook => f[2].at <= book'.applied[f[1]].at
                        /\ unrecorded'[f[1]] = NoRecord => f[2].at <= file'.text.applied[f[1]].at
        BY <1>9 DEF FiredIsKnown
    <2>1. f[1] \in Slots
        BY FiredSlots DEF Inv
    <2>2. /\ f[2].at <= book.applied[f[1]].at
          /\ unrecorded[f[1]] = NoRecord => f[2].at <= file.text.applied[f[1]].at
        BY <1>1, <1>3 DEF Inv, FiredIsKnown, InHand
    <2>3. CASE f[1] = s
        BY <1>1, <1>2, <1>6, <2>2, <2>3
    <2>4. CASE f[1] # s
        BY <1>1, <1>6, <1>10, <2>1, <2>2, <2>4
    <2>5. QED
        BY <2>3, <2>4
<1>20. QED
    BY <1>15, <1>16, <1>17, <1>18, <1>19 DEF Inv

LEMMA RecordUnrecordedInv ==
    ASSUME Kept, Inv, RecordUnrecorded, UNCHANGED refused, Firings, Pauses PROVE Inv'
<1>1. /\ cycle.pc = "flush"
      /\ UNCHANGED <<clock, backup, request, openWindows, loadedAt, lastNow, nextAt, book, refused>>
    BY DEF RecordUnrecorded, around
<1>2. PICK s \in cycle.todo :
        \/ /\ Recorded(s, unrecorded[s])
           /\ unrecorded' = [unrecorded EXCEPT ![s] = NoRecord]
           /\ cycle' = [cycle EXCEPT !.todo = @ \ {s}]
           /\ UNCHANGED stale
        \/ /\ NotRecorded
           /\ stale' = TRUE
           /\ cycle' = [cycle EXCEPT !.pc = "apply", !.todo = due_switch_points(book, cycle.now)]
           /\ UNCHANGED unrecorded
    BY DEF RecordUnrecorded
<1>3. CASE Recorded(s, unrecorded[s]) /\ cycle' = [cycle EXCEPT !.todo = @ \ {s}]
           /\ unrecorded' = [unrecorded EXCEPT ![s] = NoRecord] /\ UNCHANGED stale
    <2>1. file' = [file EXCEPT !.text.applied[s] = unrecorded[s]] /\ cycle' = Without(cycle, s)
        BY <1>3 DEF Recorded, Without
    <2>2. QED
        BY <1>1, <1>3, <2>1, FlushedInv
<1>4. CASE /\ NotRecorded /\ stale' = TRUE /\ UNCHANGED unrecorded
           /\ cycle' = [cycle EXCEPT !.pc = "apply", !.todo = due_switch_points(book, cycle.now)]
    <2>1. file' = file /\ cycle' = ToApply(cycle, due_switch_points(book, cycle.now))
        BY <1>4 DEF NotRecorded, ToApply
    <2>2. stale' \in BOOLEAN
        <3>1. TRUE \in BOOLEAN
            BY Zenon
        <3>2. QED
            BY <1>4, <3>1
    <2>3. QED
        BY <1>1, <1>4, <2>1, <2>2, ToApplyInv
<1>5. QED
    BY <1>2, <1>3, <1>4

\* What was written is recorded, in the file or in memory.
LEMMA RecordWriteInv ==
    ASSUME Kept, Inv, RecordWrite, UNCHANGED refused, Firings, Pauses PROVE Inv'
<1> DEFINE s   == cycle.hand.slot
           rec == cycle.hand.rec
<1>1. /\ cycle.recording /\ cycle.pc \in {"apply", "close"} /\ cycle.pc # "idle"
      /\ cycle.hand \in PointType /\ cycle.todo \subseteq PointType
    BY DEF RecordWrite, Inv, Running
<1>2. /\ cycle \in CycleType /\ peak \in Nat /\ MaxBack \in Nat /\ book # NoBook
      /\ book \in BookType /\ Stamped(book, peak) /\ Stamped(book, cycle.now + MaxBack)
      /\ cycle.now \in Nat /\ cycle.now <= peak
    BY <1>1, InCycle
<1>3. s \in Slots /\ rec \in RecordType /\ rec \in Records /\ rec.at \in Nat /\ rec # NoRecord
    <2>1. s \in Slots /\ rec \in RecordType /\ rec.at \in Nat
        BY <1>1, PointFacts
    <2>2. rec # NoRecord
        BY <2>1, SchedulerAssumption DEF RecordType, NoRecord
    <2>3. QED
        BY <2>1, <2>2, RecordFacts
<1>4. rec.at <= cycle.now
    BY <1>1, <1>2 DEF Inv, TodoIsDue, CloseIsNow
<1>5. rec.at <= peak /\ rec.at <= cycle.now + MaxBack
    BY <1>2, <1>3, <1>4
<1>6. /\ UNCHANGED <<clock, backup, request, openWindows, loadedAt, lastNow, nextAt>>
      /\ book' = WithApplied(book, s, rec) /\ cycle' = Noted(cycle)
      /\ Keep(s, rec)
    BY <1>1, <1>2 DEF RecordWrite, around, WithApplied, Noted
<1> HIDE DEF s, rec
<1>7. /\ book' \in BookType /\ Same(book, book')
      /\ book'.applied = [book.applied EXCEPT ![s] = rec] /\ book.applied \in [Slots -> Records]
    BY <1>2, <1>3, <1>6, WithAppliedFacts, BookFacts DEF Same
<1>8. Stamped(book', peak) /\ Stamped(book', cycle.now + MaxBack)
    <2>1. cycle.now + MaxBack \in Nat
        BY <1>2
    <2>2. Stamped(WithApplied(book, s, rec), peak) /\ Stamped(WithApplied(book, s, rec), cycle.now + MaxBack)
        BY <1>2, <1>3, <1>5, <2>1, StampedApplied
    <2>3. QED
        BY <1>6, <2>2 DEF Stamped, valid_rules
<1>9. /\ cycle' \in CycleType /\ cycle'.pc = cycle.pc /\ ~ cycle'.recording
      /\ cycle'.now = cycle.now /\ cycle'.todo = cycle.todo
    BY <1>2, <1>6, NotedFacts
<1>10. /\ file \in FileType /\ file.text \in BookType /\ Stamped(file.text, peak)
       /\ unrecorded \in [Slots -> Records] /\ file.text.applied \in [Slots -> Records]
    BY BookFacts DEF Inv, Types, Clock, FileType
<1>11. /\ file' \in FileType /\ Same(file.text, file'.text) /\ Stamped(file'.text, peak)
       /\ \A x \in Slots : x # s => /\ file'.text.applied[x] = file.text.applied[x]
                                    /\ unrecorded'[x] = unrecorded[x]
       /\ unrecorded' \in [Slots -> Records]
       /\ \/ file'.text.applied[s] = rec /\ unrecorded'[s] = NoRecord
          \/ unrecorded'[s] = rec
       /\ stale' \in BOOLEAN
    <2>1. CASE Recorded(s, rec) /\ unrecorded' = [unrecorded EXCEPT ![s] = NoRecord] /\ UNCHANGED stale
        <3>1. file' = [file EXCEPT !.text.applied[s] = rec]
            BY <2>1 DEF Recorded
        <3>2. file' \in FileType /\ file'.text = WithApplied(file.text, s, rec)
            BY <1>3, <1>10, <3>1, WithTextFacts
        <3>3. /\ Same(file.text, file'.text)
              /\ file'.text.applied = [file.text.applied EXCEPT ![s] = rec]
            BY <1>3, <1>10, <3>2, WithAppliedFacts DEF Same
        <3>4. Stamped(file'.text, peak)
            BY <1>2, <1>3, <1>5, <1>10, <3>2, StampedApplied
        <3>5. stale' \in BOOLEAN
            BY <2>1 DEF Inv, Types
        <3>6. unrecorded' \in [Slots -> Records] /\ unrecorded'[s] = NoRecord
            BY <1>3, <1>10, <2>1, RecordFacts
        <3>7. QED
            BY <1>3, <1>10, <2>1, <3>2, <3>3, <3>4, <3>5, <3>6
    <2>2. CASE NotRecorded /\ unrecorded' = [unrecorded EXCEPT ![s] = rec] /\ stale' = TRUE
        <3>1. file' = file
            BY <2>2 DEF NotRecorded
        <3>2. Same(file.text, file'.text) /\ Stamped(file'.text, peak)
            BY <1>10, <3>1 DEF Same, Stamped, valid_rules
        <3>3. stale' \in BOOLEAN
            <4>1. TRUE \in BOOLEAN
                BY Zenon
            <4>2. QED
                BY <2>2, <4>1
        <3>4. QED
            BY <1>3, <1>10, <2>2, <3>1, <3>2, <3>3
    <2>3. QED
        BY <1>6, <2>1, <2>2 DEF Keep
<1>12. \A x \in Slots : unrecorded'[x].at <= peak
    BY <1>2, <1>5, <1>11, RecordFacts DEF Inv, Clock
<1>13. fired' = IF ClosedEarly THEN {f \in fired : f[2].at <= book'.applied[f[1]].at} ELSE fired
    <2>1. ~ Firing
        BY <1>1 DEF Firing
    <2>2. ~ Overtaken
        BY <1>6 DEF Overtaken
    <2>3. QED
        BY <2>1, <2>2 DEF Firings
<1>14. fired' \subseteq fired
    BY <1>13
<1>15. /\ refused' \in BOOLEAN /\ nextAt' \in Nat /\ fired' \subseteq Slots \X RecordType
    BY <1>6, <1>14 DEF Inv, Types
<1>16. Inside
    BY <1>6, <1>7, <1>8, <1>9, <1>11, <1>12, <1>15 DEF Inside, clock
<1>17. Types' /\ Clock' /\ PauseIsKnown'
    BY <1>1, <1>16, InsideKeeps
<1>18. Running'
    BY <1>1, <1>6, <1>7, <1>8, <1>9, RunningKeeps
<1>19. TodoIsDue'
    <2>1. cycle.pc = "apply" => \A p \in cycle.todo : p.slot \in Slots /\ p.slot # s
        BY <1>1, PointFacts DEF Inv, TodoIsDue, s
    <2>2. cycle.pc = "apply" => \A p \in cycle.todo : book'.applied[p.slot] = book.applied[p.slot]
        BY <1>7, <2>1
    <2>3. QED
        BY <1>7, <1>9, <2>2 DEF Inv, TodoIsDue, Same
<1>20. CloseIsNow'
    BY <1>9 DEF Inv, CloseIsNow
<1>21. UnrecordedIsApplied'
    <2>1. book' # NoBook
        BY <1>7, NoBookIsNone
    <2>2. QED
        BY <1>3, <1>7, <1>11, <2>1 DEF Inv, UnrecordedIsApplied
<1>22. FiredIsKnown'
    <2> SUFFICES ASSUME NEW f \in fired'
                 PROVE  /\ f[2].at <= book'.applied[f[1]].at
                        /\ unrecorded'[f[1]] = NoRecord => f[2].at <= file'.text.applied[f[1]].at
        BY DEF FiredIsKnown
    <2>1. f \in fired /\ f[1] \in Slots /\ f[2].at \in Nat
        BY <1>14, FiredSlots DEF Inv
    <2>2. /\ f[2].at <= book.applied[f[1]].at \/ InHand(f)
          /\ unrecorded[f[1]] = NoRecord => f[2].at <= file.text.applied[f[1]].at \/ InHand(f)
        BY <1>2, <2>1 DEF Inv, FiredIsKnown
    <2>3. InHand(f) => f[1] = s /\ f[2].at <= rec.at /\ cycle.pc = "apply"
        BY DEF InHand, s, rec
    <2>4. CASE f[1] # s
        BY <1>3, <1>7, <1>11, <2>1, <2>2, <2>3, <2>4
    <2>5. CASE f[1] = s
        <3>1. book'.applied[s] = rec /\ book.applied[s].at \in Nat
            BY <1>3, <1>7, RecordFacts
        <3>2. f[2].at <= rec.at
            <4>1. CASE cycle.pc = "apply"
                <5>1. book.applied[s].at < rec.at
                    BY <1>1, <4>1 DEF Inv, TodoIsDue, s, rec
                <5>2. QED
                    BY <1>3, <2>1, <2>2, <2>3, <2>5, <3>1, <5>1
            <4>2. CASE ClosedEarly
                BY <1>13, <2>5, <3>1, <4>2
            <4>3. CASE cycle.pc = "close" /\ ~ ClosedEarly
                <5>1. ~ (rec.at < book.applied[s].at)
                    BY <1>1, <1>9, <4>3 DEF ClosedEarly, s, rec
                <5>2. f[2].at <= book.applied[s].at
                    BY <2>2, <2>3, <2>5, <4>3
                <5>3. QED
                    BY <1>3, <2>1, <3>1, <5>1, <5>2
            <4>4. QED
                BY <1>1, <4>1, <4>2, <4>3
        <3>3. QED
            BY <1>3, <1>11, <2>5, <3>1, <3>2
    <2>6. QED
        BY <2>4, <2>5
<1>23. QED
    BY <1>17, <1>18, <1>19, <1>20, <1>21, <1>22 DEF Inv

-----------------------------------------------------------------------------
(***************************************************************************)
(* Ticks.                                                                  *)
(***************************************************************************)
\* What the refresh leaves: a book as far as the file and the memory know.
Refreshed ==
    /\ UNCHANGED <<now, peak, backup, request, nextAt, file, refused>>
    /\ loadedAt' = now /\ openWindows' = NoRecords
    /\ book' \in BookType /\ Stamped(book', peak)
    /\ unrecorded' \in [Slots -> Records] /\ \A s \in Slots : unrecorded'[s].at <= peak
    /\ \A s \in Slots : unrecorded'[s] # NoRecord => unrecorded'[s] = book'.applied[s]
    /\ book'.enabled => /\ \A t \in silent : t <= book'.resumedAt \/ now < t
                        /\ ~ file.text.enabled => now <= pausedAt
    /\ \A f \in fired : /\ f[2].at <= book'.applied[f[1]].at
                        /\ unrecorded'[f[1]] = NoRecord => f[2].at <= file.text.applied[f[1]].at

LEMMA RefreshedInv ==
    ASSUME Kept, Inv, cycle.pc = "idle", Refreshed, NEW changed, Evaluate(book', unrecorded', changed),
           Firings, Pauses
    PROVE  Inv'
<1> DEFINE todo == {s \in Slots : unrecorded'[s] # NoRecord}
<1>1. /\ cycle = Idle /\ cycle \in CycleType /\ ~ cycle.recording
      /\ now \in Nat /\ peak \in Nat /\ MaxBack \in Nat /\ lastNow \in Nat /\ stale \in BOOLEAN
      /\ now <= peak /\ (now = 0 \/ peak <= now + MaxBack)
    BY IdleFacts, SchedulerAssumption DEF Inv, Types, Clock, Running
<1>2. \/ stale' = TRUE /\ lastNow' = lastNow /\ cycle' = cycle
      \/ now >= 1 /\ lastNow' = now /\ stale' = FALSE /\ cycle' = NewCycle(now, todo)
      \/ now >= 1 /\ lastNow' = now /\ stale' = stale /\ cycle' = cycle
    BY <1>1 DEF Evaluate, clock_trusted, CLOCK_FLOOR, NewCycle
<1>3. todo \subseteq Slots
    OBVIOUS
<1> HIDE DEF todo
<1>4. /\ cycle' \in CycleType /\ ~ cycle'.recording /\ cycle'.pc \in {"idle", "flush"}
      /\ cycle'.pc = "idle" => cycle' = Idle
      /\ cycle'.pc # "idle" => cycle'.now = lastNow' /\ cycle'.todo = todo
      /\ (cycle'.now = 0 \/ cycle'.now = now)
    <2>1. CASE cycle' = cycle
        BY <1>1, <2>1, IdleFacts
    <2>2. CASE lastNow' = now /\ cycle' = NewCycle(now, todo)
        <3>1. /\ NewCycle(now, todo) \in CycleType /\ NewCycle(now, todo).pc = "flush"
              /\ NewCycle(now, todo).recording = FALSE
              /\ NewCycle(now, todo).now = now /\ NewCycle(now, todo).todo = todo
            <4>1. now \in Nat
                BY <1>1
            <4>2. FALSE \in BOOLEAN
                BY Zenon
            <4>3. QED
                BY <1>3, <4>1, <4>2 DEF NewCycle, Idle, CycleType
        <3>2. QED
            BY <2>2, <3>1
    <2>3. QED
        BY <1>2, <2>1, <2>2
<1>5. stale' \in BOOLEAN /\ lastNow' \in Nat
    <2>1. TRUE \in BOOLEAN /\ FALSE \in BOOLEAN
        BY Zenon
    <2>2. QED
        BY <1>1, <1>2, <2>1
<1>6. cycle'.pc # "idle" \/ ~ stale' => lastNow' = now /\ now >= 1
    BY <1>1, <1>2
<1>7. pausedAt' \in Nat /\ pausedAt' <= peak /\ silent' \subseteq Nat
    BY PausesFacts DEF Inv
<1>8. silent' = silent /\ (~ file'.text.enabled => pausedAt' = pausedAt)
    BY PausesQuiet DEF Refreshed
<1>9. fired' = fired
    BY <1>1, <1>4, FiringsIdle DEF Refreshed
<1>10. Types'
    BY <1>4, <1>5, <1>7, <1>9 DEF Refreshed, Inv, Types
<1>11. Clock'
    <2>1. /\ now' = now /\ peak' = peak /\ loadedAt' = now /\ backup' = backup /\ request' = request
          /\ file' = file
        BY DEF Refreshed
    <2>2. cycle'.now <= peak'
        BY <1>1, <1>4, <2>1
    <2>3. Stamped(backup', peak') /\ Stamped(file'.text, peak') /\ Stamped(book', peak')
        BY <2>1 DEF Refreshed, Inv, Clock, Stamped, valid_rules
    <2>4. \A s \in Slots : unrecorded'[s].at <= peak'
        BY <2>1 DEF Refreshed
    <2>5. QED
        BY <1>1, <1>7, <2>1, <2>2, <2>3, <2>4 DEF Inv, Clock
<1>12. Running'
    <2>1. book' # NoBook
        BY NoBookIsNone DEF Refreshed
    <2>2. now >= 1 => Stamped(book', now + MaxBack)
        <3>1. now >= 1 => peak <= now + MaxBack /\ now + MaxBack \in Nat
            BY <1>1
        <3>2. QED
            BY <1>1, <3>1, StampedLater DEF Refreshed
    <2>3. cycle'.pc # "idle" \/ ~ stale' => lastNow' >= CLOCK_FLOOR /\ Stamped(book', lastNow' + MaxBack)
        BY <1>6, <2>2 DEF CLOCK_FLOOR
    <2>4. request'.pc # "none" => request'.slot \in Slots /\ request'.rec \in RecordType
        BY DEF Refreshed, Inv, Running
    <2>5. QED
        BY <1>4, <2>1, <2>3, <2>4 DEF Running, todo
<1>13. TodoIsDue' /\ CloseIsNow'
    BY <1>4 DEF TodoIsDue, CloseIsNow
<1>14. PauseIsKnown'
    <2>1. \A t \in silent : t \in Nat /\ t <= file.text.resumedAt
        BY DEF Inv, Types, PauseIsKnown
    <2>2. pausedAt \in Nat
        BY DEF Inv, Types
    <2>3. file' = file /\ loadedAt' = now
        BY DEF Refreshed
    <2>4. book'.enabled => \A t \in silent : t <= book'.resumedAt \/ (loadedAt' < t /\ cycle'.now < t)
        BY <1>1, <1>4, <2>1, <2>3 DEF Refreshed
    <2>5. book'.enabled /\ ~ file.text.enabled => loadedAt' <= pausedAt /\ cycle'.now <= pausedAt
        BY <1>1, <1>4, <2>2, <2>3 DEF Refreshed
    <2>6. QED
        BY <1>8, <2>1, <2>3, <2>4, <2>5 DEF PauseIsKnown
<1>15. UnrecordedIsApplied'
    BY NoBookIsNone DEF Refreshed, UnrecordedIsApplied
<1>16. FiredIsKnown'
    BY <1>9 DEF Refreshed, FiredIsKnown
<1>17. QED
    BY <1>10, <1>11, <1>12, <1>13, <1>14, <1>15, <1>16 DEF Inv

LEMMA TickUnreadInv ==
    ASSUME Kept, Inv, TickUnread, UNCHANGED refused, Firings, Pauses PROVE Inv'
<1>1. /\ cycle.pc = "idle" /\ book # NoBook /\ loadedAt = now
      /\ UNCHANGED <<now, peak, backup, request, nextAt, file, loadedAt, openWindows, book, unrecorded>>
      /\ Evaluate(book, unrecorded, FALSE)
    BY DEF TickUnread, clock, around
<1>2. /\ cycle = Idle /\ cycle.now = 0 /\ ~ cycle.recording /\ book \in BookType
      /\ Stamped(book, peak) /\ openWindows = NoRecords /\ unrecorded \in [Slots -> Records]
      /\ \A s \in Slots : unrecorded[s].at <= peak
    BY <1>1, IdleFacts DEF Inv, Types, Clock, Running
<1>3. \A f \in fired : /\ f[2].at <= book.applied[f[1]].at
                       /\ unrecorded[f[1]] = NoRecord => f[2].at <= file.text.applied[f[1]].at
    BY <1>1, <1>2 DEF Inv, FiredIsKnown, InHand
<1>4. book.enabled => /\ \A t \in silent : t <= book.resumedAt \/ now < t
                      /\ ~ file.text.enabled => now <= pausedAt
    BY <1>1 DEF Inv, PauseIsKnown
<1>5. \A s \in Slots : unrecorded[s] # NoRecord => unrecorded[s] = book.applied[s]
    BY DEF Inv, UnrecordedIsApplied
<1>6. Stamped(book', peak)
    BY <1>1, <1>2 DEF Stamped, valid_rules
<1>7. Refreshed
    BY <1>1, <1>2, <1>3, <1>4, <1>5, <1>6 DEF Refreshed
<1>8. Evaluate(book', unrecorded', FALSE)
    BY <1>1 DEF Evaluate
<1>9. QED
    BY <1>1, <1>7, <1>8, RefreshedInv

\* What the re-read book says was applied: what only memory still knows, where it
\* is later than the file, and else what the file says.
LEMMA ReadFacts ==
    ASSUME Inv, cycle.pc = "idle", NEW s \in Slots
    PROVE  LET kept == StillUnrecorded(file.text, carry_open_windows(file.text))
           IN  /\ kept[s] \in Records /\ kept[s].at <= peak
               /\ kept[s] # NoRecord => book # NoBook /\ kept[s] = book.applied[s]
               /\ kept[s] = NoRecord /\ unrecorded[s] # NoRecord =>
                     book.applied[s].at <= file.text.applied[s].at
<1> DEFINE carried == carry_open_windows(file.text)
           kept    == StillUnrecorded(file.text, carried)
<1>1. /\ unrecorded[s] \in Records /\ unrecorded[s].at <= peak
      /\ openWindows = NoRecords /\ NoRecords[s] = NoRecord /\ peak \in Nat
      /\ book # NoBook => book.applied[s] \in Records /\ book.applied[s].at <= peak
      /\ file.text.applied[s].at \in Nat
    BY BookFacts DEF Inv, Types, Clock, Stamped, NoRecords
<1>2. /\ carried[s] = NoRecord \/ (book # NoBook /\ carried[s] = book.applied[s])
      /\ unrecorded[s] # NoRecord => carried[s] = unrecorded[s]
    <2>1. carried[s] \in {unrecorded[s], IF book # NoBook THEN book.applied[s] ELSE NoRecord}
        BY <1>1 DEF carry_open_windows
    <2>2. unrecorded[s] # NoRecord => carried[s] = unrecorded[s]
        BY DEF carry_open_windows
    <2>3. unrecorded[s] # NoRecord => book # NoBook /\ unrecorded[s] = book.applied[s]
        BY DEF Inv, UnrecordedIsApplied
    <2>4. QED
        BY <2>1, <2>2, <2>3
<1> HIDE DEF carried
<1>3. kept[s] = IF file.text.applied[s] # NoRecord /\ file.text.applied[s].at >= carried[s].at
                THEN NoRecord ELSE carried[s]
    BY DEF StillUnrecorded
<1> HIDE DEF kept
<1>4. kept[s] = NoRecord \/ kept[s] = carried[s]
    BY <1>3
<1>5. kept[s] \in Records /\ kept[s].at <= peak
    BY <1>1, <1>2, <1>4, RecordFacts
<1>6. kept[s] # NoRecord => book # NoBook /\ kept[s] = book.applied[s]
    BY <1>2, <1>4
<1>7. ASSUME kept[s] = NoRecord, unrecorded[s] # NoRecord
      PROVE  book.applied[s].at <= file.text.applied[s].at
    <2>1. carried[s] # NoRecord /\ carried[s] = book.applied[s] /\ book # NoBook
        BY <1>2, <1>7
    <2>2. file.text.applied[s].at >= carried[s].at
        BY <1>3, <1>7, <2>1
    <2>3. book.applied[s].at \in Nat
        BY <1>1, <2>1, RecordFacts
    <2>4. QED
        BY <1>1, <2>1, <2>2, <2>3
<1>8. QED
    BY <1>5, <1>6, <1>7 DEF kept, carried

LEMMA TickReadInv ==
    ASSUME Kept, Inv, TickRead, UNCHANGED refused, Firings, Pauses PROVE Inv'
<1> DEFINE text == file.text
           un   == StillUnrecorded(text, carry_open_windows(text))
           b    == with_unrecorded(text, un)
<1>1. /\ cycle.pc = "idle"
      /\ UNCHANGED <<now, peak, backup, request, nextAt, file>>
      /\ loadedAt' = now /\ openWindows' = NoRecords /\ unrecorded' = un /\ book' = b
      /\ Evaluate(b, un, b # book)
    BY DEF TickRead, clock, around
<1>2. \A s \in Slots : /\ un[s] \in Records /\ un[s].at <= peak
                       /\ un[s] # NoRecord => book # NoBook /\ un[s] = book.applied[s]
                       /\ un[s] = NoRecord /\ unrecorded[s] # NoRecord =>
                             book.applied[s].at <= text.applied[s].at
    BY <1>1, ReadFacts
<1>3. un \in [Slots -> Records]
    <2>1. un = [s \in Slots |-> un[s]]
        BY DEF StillUnrecorded
    <2> HIDE DEF un
    <2>2. QED
        BY <1>2, <2>1
<1> HIDE DEF un
<1>4. /\ text \in BookType /\ Stamped(text, peak) /\ text.applied \in [Slots -> Records]
      /\ text.resumedAt \in Nat /\ now \in Nat
    BY BookFacts DEF Inv, Types, Clock
<1>5. /\ b \in BookType /\ Same(text, b)
      /\ \A s \in Slots : b.applied[s] = IF un[s] # NoRecord THEN un[s] ELSE text.applied[s]
    <2> DEFINE laid == [s \in Slots |-> IF un[s] # NoRecord THEN un[s] ELSE text.applied[s]]
    <2>1. laid \in [Slots -> Records]
        BY <1>3, <1>4
    <2>2. b = [text EXCEPT !.applied = laid]
        BY DEF with_unrecorded
    <2>3. /\ [text EXCEPT !.applied = laid] \in BookType
          /\ [text EXCEPT !.applied = laid].applied = laid
          /\ Same(text, [text EXCEPT !.applied = laid])
        <3> HIDE DEF laid, b, text
        <3>1. QED
            BY <1>4, <2>1 DEF BookType, Same
    <2>4. QED
        BY <2>2, <2>3
<1> HIDE DEF b
<1>6. Stamped(b, peak)
    BY <1>2, <1>4, <1>5 DEF Stamped, Same, valid_rules
<1>7. Stamped(book', peak)
    BY <1>1, <1>6 DEF Stamped, valid_rules
<1>8. b.enabled => /\ \A t \in silent : t <= b.resumedAt \/ now < t
                   /\ ~ file.text.enabled => now <= pausedAt
    BY <1>5 DEF Same, Inv, PauseIsKnown
<1>9. ASSUME NEW f \in fired
      PROVE  /\ f[2].at <= b.applied[f[1]].at
             /\ un[f[1]] = NoRecord => f[2].at <= text.applied[f[1]].at
    <2>1. f[1] \in Slots /\ f[2].at \in Nat
        BY FiredSlots DEF Inv
    <2>2. /\ book # NoBook => f[2].at <= book.applied[f[1]].at
          /\ unrecorded[f[1]] = NoRecord => f[2].at <= text.applied[f[1]].at
        BY <1>1, <1>9 DEF Inv, FiredIsKnown, InHand
    <2>3. un[f[1]] = NoRecord => f[2].at <= text.applied[f[1]].at
        <3>1. CASE unrecorded[f[1]] = NoRecord
            BY <2>2, <3>1
        <3>2. CASE un[f[1]] = NoRecord /\ unrecorded[f[1]] # NoRecord
            <4>1. book # NoBook /\ book.applied[f[1]].at <= text.applied[f[1]].at
                BY <1>2, <2>1, <3>2 DEF Inv, UnrecordedIsApplied
            <4>2. book.applied[f[1]].at \in Nat /\ text.applied[f[1]].at \in Nat
                BY <1>4, <2>1, <4>1, BookFacts DEF Inv, Types
            <4>3. QED
                BY <2>1, <2>2, <4>1, <4>2
        <3>3. QED
            BY <3>1, <3>2
    <2>4. QED
        BY <1>2, <1>5, <2>1, <2>2, <2>3
<1>10. \A s \in Slots : un[s] # NoRecord => un[s] = b.applied[s]
    BY <1>5
<1>11. Refreshed
    <2>1. /\ UNCHANGED <<now, peak, backup, request, nextAt, file, refused>>
          /\ loadedAt' = now /\ openWindows' = NoRecords
          /\ book' \in BookType /\ unrecorded' \in [Slots -> Records]
          /\ \A s \in Slots : unrecorded'[s].at <= peak
        BY <1>1, <1>2, <1>3, <1>5
    <2>2. QED
        BY <1>1, <1>7, <1>8, <1>9, <1>10, <2>1 DEF Refreshed
<1>12. Evaluate(book', unrecorded', b # book)
    BY <1>1 DEF Evaluate
<1>13. QED
    BY <1>1, <1>11, <1>12, RefreshedInv

-----------------------------------------------------------------------------
(***************************************************************************)
(* Stops, and the first state.                                             *)
(***************************************************************************)
LEMMA NoRecordsFacts ==
    NoRecords \in [Slots -> Records] /\ \A s \in Slots : NoRecords[s] = NoRecord
BY RecordFacts DEF NoRecords

LEMMA CrashInv ==
    ASSUME Kept, Inv, Crash, UNCHANGED refused, Pauses, fired' = {f \in fired : OnRecord(f)}
    PROVE  Inv'
<1>1. /\ UNCHANGED <<now, peak, file, backup>>
      /\ book' = NoBook /\ unrecorded' = NoRecords /\ openWindows' = NoRecords /\ loadedAt' = 0
      /\ stale' = TRUE /\ lastNow' = 0 /\ nextAt' = 0 /\ cycle' = Idle /\ request' = NoRequest
    BY DEF Crash, clock
<1>2. pausedAt' \in Nat /\ pausedAt' <= peak /\ silent' \subseteq Nat
    BY PausesFacts DEF Inv
<1>3. silent' = silent
    BY <1>1, PausesQuiet
<1>4. stale' \in BOOLEAN
    <2>1. TRUE \in BOOLEAN
        BY Zenon
    <2>2. QED
        BY <1>1, <2>1
<1>5. Types'
    BY <1>1, <1>2, <1>4, IdleFacts, NoRecordsFacts, NoRequestFacts DEF Inv, Types
<1>6. Clock'
    <2>1. Stamped(backup', peak') /\ Stamped(file'.text, peak')
        BY <1>1 DEF Inv, Clock, Stamped, valid_rules
    <2>2. /\ now \in Nat /\ peak \in Nat /\ now <= peak /\ (now = 0 \/ peak <= now + MaxBack)
        BY DEF Inv, Types, Clock
    <2>3. cycle'.now = 0 /\ request'.rec.at = 0 /\ \A s \in Slots : unrecorded'[s].at = 0
        BY <1>1, IdleFacts, NoRequestFacts, NoRecordsFacts, RecordFacts
    <2>4. QED
        BY <1>1, <1>2, <2>1, <2>2, <2>3 DEF Clock
<1>7. Running' /\ TodoIsDue' /\ CloseIsNow'
    BY <1>1, IdleFacts, NoRequestFacts DEF Running, TodoIsDue, CloseIsNow
<1>8. PauseIsKnown'
    BY <1>1, <1>3 DEF Inv, PauseIsKnown
<1>9. UnrecordedIsApplied'
    BY <1>1, NoRecordsFacts DEF UnrecordedIsApplied
<1>10. FiredIsKnown'
    BY <1>1 DEF FiredIsKnown, OnRecord
<1>11. QED
    BY <1>5, <1>6, <1>7, <1>8, <1>9, <1>10 DEF Inv

LEMMA EmptyBookFacts ==
    empty_book \in BookType /\ Stamped(empty_book, 0) /\ empty_book.resumedAt = 0
<1>1. TRUE \in BOOLEAN
    BY Zenon
<1>2. empty_book \in BookType /\ empty_book.resumedAt = 0
    BY <1>1, RecordFacts DEF empty_book, BookType
<1>3. \A s \in Slots : empty_book.applied[s].at = 0
    BY RecordFacts DEF empty_book
<1>4. valid_rules(empty_book) = {}
    BY DEF empty_book, valid_rules
<1>5. QED
    BY <1>2, <1>3, <1>4 DEF Stamped

LEMMA FirstInv == ASSUME Kept PROVE MCInit => Inv
<1> SUFFICES ASSUME MCInit PROVE Inv
    OBVIOUS
<1>1. /\ now = 0 /\ peak = 0 /\ file = [readable |-> TRUE, text |-> empty_book]
      /\ book = NoBook /\ unrecorded = NoRecords /\ openWindows = NoRecords
      /\ loadedAt = 0 /\ stale = TRUE /\ lastNow = 0 /\ nextAt = 0 /\ cycle = Idle
      /\ request = NoRequest /\ backup = empty_book
      /\ fired = {} /\ pausedAt = 0 /\ silent = {} /\ refused = FALSE
    BY DEF MCInit, Init, FreshProcess, HistoryInit
<1>2. stale \in BOOLEAN /\ refused \in BOOLEAN
    <2>1. TRUE \in BOOLEAN /\ FALSE \in BOOLEAN
        BY Zenon
    <2>2. QED
        BY <1>1, <2>1
<1>3. Types
    BY <1>1, <1>2, EmptyBookFacts, IdleFacts, NoRecordsFacts, NoRequestFacts DEF Types
<1>4. Clock
    <2>1. cycle.now = 0 /\ request.rec.at = 0 /\ \A s \in Slots : unrecorded[s].at = 0
        BY <1>1, IdleFacts, NoRequestFacts, NoRecordsFacts, RecordFacts
    <2>2. file.text = empty_book
        BY <1>1
    <2>3. QED
        BY <1>1, <2>1, <2>2, EmptyBookFacts DEF Clock
<1>5. Running /\ TodoIsDue /\ CloseIsNow
    BY <1>1, IdleFacts, NoRequestFacts DEF Running, TodoIsDue, CloseIsNow
<1>6. PauseIsKnown /\ UnrecordedIsApplied /\ FiredIsKnown
    BY <1>1, NoRecordsFacts DEF PauseIsKnown, UnrecordedIsApplied, FiredIsKnown
<1>7. QED
    BY <1>3, <1>4, <1>5, <1>6 DEF Inv

-----------------------------------------------------------------------------
LEMMA StepInv == ASSUME Kept PROVE Inv /\ [MCNext]_<<vars, history>> => Inv'
<1> SUFFICES ASSUME Inv, [MCNext]_<<vars, history>> PROVE Inv'
    OBVIOUS
<1>1. CASE UNCHANGED <<vars, history>>
    <2>1. UNCHANGED <<now, peak, file, backup, request, book, unrecorded, openWindows, loadedAt, stale,
                      lastNow, nextAt, cycle, fired, pausedAt, silent, refused>>
        BY <1>1 DEF vars, history, clock, process, around
    <2>2. Types' /\ TodoIsDue' /\ CloseIsNow'
        BY <2>1 DEF Inv, Types, TodoIsDue, CloseIsNow
    <2>3. Clock'
        BY <2>1 DEF Inv, Clock, Stamped, valid_rules
    <2>4. Running'
        BY <2>1 DEF Inv, Running, Stamped, valid_rules
    <2>5. PauseIsKnown' /\ UnrecordedIsApplied'
        BY <2>1 DEF Inv, PauseIsKnown, UnrecordedIsApplied
    <2>6. FiredIsKnown'
        BY <2>1 DEF Inv, FiredIsKnown, InHand
    <2>7. QED
        BY <2>2, <2>3, <2>4, <2>5, <2>6 DEF Inv
<1>2. CASE WriteRefused /\ Pauses /\ refused' = TRUE /\ UNCHANGED fired
    BY <1>2, WriteRefusedInv
<1>3. CASE Crash /\ Pauses /\ UNCHANGED refused /\ fired' = {f \in fired : OnRecord(f)}
    BY <1>3, CrashInv
<1>4. CASE Step /\ Pauses /\ Firings /\ UNCHANGED refused
    <2>1. CASE Tick
        <3>1. ~ TickUnreadable
            BY DEF TickUnreadable, Inv, Types
        <3>2. QED
            BY <1>4, <2>1, <3>1, TickUnreadInv, TickReadInv, RecordUnrecordedInv, FlushDoneInv, WriteOkInv,
               WriteFailedInv, WriteBusyInv, RecordWriteInv, PhaseDoneInv DEF Tick
    <2>2. CASE Pass \/ SetClock \/ TakeBackup \/ SetByHand
        BY <1>4, <2>2, PlainOutside, OutsideInv
    <2>3. CASE Save \/ Skip \/ Delete \/ SetEnabled \/ Restore
        BY <1>4, <2>3, SaveOutside, SkipOutside, DeleteOutside, SetEnabledOutside, RestoreOutside, OutsideInv
    <2>4. CASE ApplyNowRead \/ ApplyNowRecord
        BY <1>4, <2>4, ApplyNowReadOutside, ApplyNowRecordOutside, OutsideInv
    <2>5. CASE ApplyNowWrite
        <3>1. request' = NoRequest /\ UNCHANGED <<clock, file, process, cycle, backup>>
            BY <2>5 DEF ApplyNowWrite
        <3>2. QED
            BY <1>4, <3>1, ApplyNowWriteOutside, OutsideInv
    <2>6. ~ Remove /\ ~ Spoil
        BY DEF Remove, Spoil, Do, Kept
    <2>7. QED
        BY <1>4, <2>1, <2>2, <2>3, <2>4, <2>5, <2>6 DEF Step, Edits
<1>5. QED
    BY <1>1, <1>2, <1>3, <1>4 DEF MCNext

\* A point that fires is one of the cycle's, later than the last resume and than
\* what was last applied to its setting.
LEMMA FiringFacts ==
    ASSUME Kept, Inv, [MCNext]_<<vars, history>>, Firing
    PROVE  /\ cycle'.hand \in cycle.todo /\ cycle.pc = "apply" /\ ~ cycle.recording
           /\ cycle'.hand \in PointType
<1>1. /\ cycle.pc = "apply" /\ ~ cycle.recording /\ cycle'.recording
    BY DEF Firing
<1>2. cycle' # cycle
    BY <1>1
<1>3. cycle \in CycleType /\ cycle.todo \subseteq PointType
    BY <1>1 DEF Inv, Types, Running
<1>4. WriteOk
    <2>1. ~ TickUnread /\ ~ TickRead /\ ~ TickUnreadable /\ ~ RecordUnrecorded /\ ~ FlushDone /\ ~ RecordWrite
        BY <1>1 DEF TickUnread, TickRead, TickUnreadable, RecordUnrecorded, FlushDone, RecordWrite
    <2>2. ~ WriteFailed /\ ~ WriteRefused
        <3>1. \A p : ~ Without(cycle, p).recording
            BY <1>1, <1>3, WithoutFacts
        <3>2. QED
            BY <1>1, <3>1 DEF WriteFailed, WriteRefused, Without
    <2>3. ~ Idle.recording
        BY IdleFacts
    <2>4. ~ WriteBusy /\ ~ Crash
        BY <1>1, <2>3 DEF WriteBusy, Over, Crash
    <2>5. ~ PhaseDone
        <3>1. PhaseDone => cycle' = ToClose(cycle, LostWindows(book, cycle.now))
            BY <1>1 DEF PhaseDone, ToClose
        <3>2. ~ ToClose(cycle, LostWindows(book, cycle.now)).recording
            BY <1>1, <1>3 DEF ToClose, CycleType
        <3>3. QED
            BY <1>1, <3>1, <3>2
    <2>6. /\ ~ Pass /\ ~ SetClock /\ ~ Save /\ ~ Skip /\ ~ Delete /\ ~ SetEnabled /\ ~ TakeBackup /\ ~ Restore
          /\ ~ Remove /\ ~ Spoil /\ ~ SetByHand /\ ~ ApplyNowRead /\ ~ ApplyNowRecord /\ ~ ApplyNowWrite
        BY <1>2 DEF Pass, SetClock, Save, Skip, Delete, SetEnabled, TakeBackup, Restore, Remove, Spoil,
                    SetByHand, ApplyNowRead, ApplyNowRecord, ApplyNowWrite, Edit
    <2>7. ~ UNCHANGED <<vars, history>>
        BY <1>2 DEF vars
    <2>8. QED
        BY <2>1, <2>2, <2>4, <2>5, <2>6, <2>7 DEF MCNext, Step, Edits, Tick
<1>5. PICK p \in cycle.todo : cycle' = Written(cycle, p)
    BY <1>4 DEF WriteOk, Written
<1>6. cycle'.hand = p
    BY <1>3, <1>5, WrittenFacts
<1>7. QED
    BY <1>1, <1>3, <1>6

\* Where the schedule file is not removed or spoilt by hand and the clock is set
\* back by no more than FUTURE_TOLERANCE: a switch point that fell in a pause is
\* not fired (set_enabled, _bound), for any rules and any number of edits, pauses,
\* restores, apply-now requests and stops, whether the loop saw the pause or not.
THEOREM PauseIsSilentAlways == ASSUME Kept PROVE MCSpec => PauseIsSilent
<1>1. MCInit => Inv
    BY FirstInv
<1>2. Inv /\ [MCNext]_<<vars, history>> => Inv'
    BY StepInv
<1>3. Inv /\ [MCNext]_<<vars, history>> => [Firing => cycle'.hand.rec.at \notin silent]_<<vars, history>>
    <2> SUFFICES ASSUME Inv, [MCNext]_<<vars, history>>, Firing PROVE cycle'.hand.rec.at \notin silent
        OBVIOUS
    <2> DEFINE p == cycle'.hand
    <2>1. p \in cycle.todo /\ cycle.pc = "apply" /\ p \in PointType
        BY FiringFacts
    <2> HIDE DEF p
    <2>2. book.enabled /\ book.resumedAt < p.rec.at /\ p.rec.at <= cycle.now
        BY <2>1 DEF Inv, TodoIsDue
    <2>3. book \in BookType /\ book # NoBook /\ cycle.now \in Nat
        BY <2>1, InCycle
    <2>4. p.rec.at \in Nat /\ book.resumedAt \in Nat
        BY <2>1, <2>3, PointFacts, BookFacts
    <2>5. \A t \in silent : t <= book.resumedAt \/ cycle.now < t
        BY <2>2, <2>3 DEF Inv, PauseIsKnown
    <2>6. p.rec.at \notin silent
        BY <2>2, <2>3, <2>4, <2>5
    <2>7. QED
        BY <2>6 DEF p
<1>4. QED
    BY <1>1, <1>2, <1>3, PTL DEF MCSpec, PauseIsSilent

\* Under the same conditions a switch point fires once (_bound, _unrecorded):
\* through failed records, rules saved again, pauses, restored files and a clock
\* set back, but for the firings FiresOnce leaves out.
THEOREM FiresOnceAlways == ASSUME Kept PROVE MCSpec => FiresOnce
<1>1. MCInit => Inv
    BY FirstInv
<1>2. Inv /\ [MCNext]_<<vars, history>> => Inv'
    BY StepInv
<1>3. Inv /\ [MCNext]_<<vars, history>> => [Firing => Point(cycle'.hand) \notin fired]_<<vars, history>>
    <2> SUFFICES ASSUME Inv, [MCNext]_<<vars, history>>, Firing, Point(cycle'.hand) \in fired PROVE FALSE
        OBVIOUS
    <2> DEFINE p == cycle'.hand
    <2>1. p \in cycle.todo /\ cycle.pc = "apply" /\ ~ cycle.recording /\ p \in PointType
        BY FiringFacts
    <2>2. <<p.slot, p.rec>> \in fired
        BY DEF Point
    <2> HIDE DEF p
    <2>3. book.applied[p.slot].at < p.rec.at
        BY <2>1 DEF Inv, TodoIsDue
    <2>4. book \in BookType /\ book # NoBook
        BY <2>1, InCycle
    <2>5. p.slot \in Slots /\ p.rec.at \in Nat /\ book.applied[p.slot].at \in Nat
        BY <2>1, <2>4, PointFacts, BookFacts
    <2>6. p.rec.at <= book.applied[p.slot].at
        <3>1. \A f \in fired : f[2].at <= book.applied[f[1]].at
            BY <2>1, <2>4 DEF Inv, FiredIsKnown, InHand
        <3>2. QED
            BY <2>2, <3>1
    <2>7. QED
        BY <2>3, <2>5, <2>6
<1>4. QED
    BY <1>1, <1>2, <1>3, PTL DEF MCSpec, FiresOnce

-----------------------------------------------------------------------------
(***************************************************************************)
(* Nothing is missed.                                                      *)
(***************************************************************************)
LEMMA SwitchPointMoves ==
    ASSUME NEW r, NEW rule, NEW after, NEW until, NEW low, NEW high,
           NEW p \in switch_points(r, rule, after, until), low < p.rec.at, p.rec.at <= high
    PROVE  p \in switch_points(r, rule, low, high)
<1>1. CASE \E o \in rule.when :
             p = [slot |-> rule.slot, rec |-> [rule |-> r, kind |-> START, at |-> o.start, ends |-> o.end]]
    <2>1. PICK o \in rule.when :
            p = [slot |-> rule.slot, rec |-> [rule |-> r, kind |-> START, at |-> o.start, ends |-> o.end]]
        BY <1>1
    <2>2. low < o.start /\ o.start <= high
        BY <2>1
    <2>3. QED
        BY <2>1, <2>2 DEF switch_points
<1>2. CASE \E o \in rule.when : /\ o.end # 0
                                /\ p = [slot |-> rule.slot,
                                        rec |-> [rule |-> r, kind |-> END, at |-> o.end, ends |-> 0]]
    <2>1. PICK o \in rule.when : /\ o.end # 0
                                /\ p = [slot |-> rule.slot,
                                        rec |-> [rule |-> r, kind |-> END, at |-> o.end, ends |-> 0]]
        BY <1>2
    <2>2. low < o.end /\ o.end <= high
        BY <2>1
    <2>3. QED
        BY <2>1, <2>2 DEF switch_points
<1>3. QED
    BY <1>1, <1>2 DEF switch_points

\* One occurrence starts at one time.
LEMMA SwitchPointUnique ==
    ASSUME NEW r \in RuleIds, NEW rule \in RuleType, NEW after, NEW until,
           NEW p \in switch_points(r, rule, after, until),
           NEW q \in switch_points(r, rule, after, until),
           p.rec.kind = q.rec.kind, p.rec.at = q.rec.at
    PROVE  p = q
<1> DEFINE Starts(x) == \E o \in rule.when :
               x = [slot |-> rule.slot, rec |-> [rule |-> r, kind |-> START, at |-> o.start, ends |-> o.end]]
           Ends(x) == \E o \in rule.when :
               x = [slot |-> rule.slot, rec |-> [rule |-> r, kind |-> END, at |-> o.end, ends |-> 0]]
<1>1. \A o, x \in rule.when : o.start = x.start => o = x
    BY DatesFacts DEF RuleType
<1>2. (Starts(p) \/ Ends(p)) /\ (Starts(q) \/ Ends(q))
    BY DEF switch_points
<1>3. CASE Starts(p) /\ Starts(q)
    BY <1>1, <1>3
<1>4. CASE Ends(p) /\ Ends(q)
    BY <1>4
<1>5. CASE (Starts(p) /\ Ends(q)) \/ (Ends(p) /\ Starts(q))
    BY <1>5 DEF START, END
<1>6. QED
    BY <1>2, <1>3, <1>4, <1>5

LEMMA PendingUnique ==
    ASSUME Kept, NEW b \in BookType, NEW t \in Nat, Stamped(b, t + MaxBack),
           NEW p \in Pending(b, t), NEW q \in Pending(b, t),
           p.rec.rule = q.rec.rule, p.rec.kind = q.rec.kind, p.rec.at = q.rec.at
    PROVE  p = q
<1>1. PICK r \in valid_rules(b) : p \in switch_points(r, b.rules[r], Limit(b, r, t), t)
    BY DEF Pending
<1>2. PICK x \in valid_rules(b) : q \in switch_points(x, b.rules[x], Limit(b, x, t), t)
    BY DEF Pending
<1>3. r \in RuleIds /\ b.rules[r] \in RuleType /\ x \in RuleIds /\ b.rules[x] \in RuleType
    BY BookFacts
<1>4. Limit(b, r, t) \in Nat /\ Limit(b, x, t) \in Nat
    BY BoundFacts DEF Limit
<1>5. p.rec.rule = r /\ q.rec.rule = x
    BY <1>1, <1>2, <1>3, <1>4, SwitchPointFacts
<1>6. QED
    BY <1>1, <1>2, <1>3, <1>5, SwitchPointUnique

\* Of what is pending for a setting, the latest is due.
LEMMA DueCovers ==
    ASSUME Kept, NEW b \in BookType, NEW t \in Nat, Stamped(b, t + MaxBack), NEW p \in Pending(b, t)
    PROVE  \E q \in due_switch_points(b, t) : q.slot = p.slot /\ p.rec.at <= q.rec.at
<1> DEFINE Of     == {q \in Pending(b, t) : q.slot = p.slot}
           times  == {q.rec.at : q \in Of}
<1>1. \A q \in Pending(b, t) : /\ q \in PointType /\ q.rec.at \in Nat /\ q.rec.at <= t
                               /\ q.rec.rule \in Nat /\ q.rec.kind \in {START, END}
    <2>1. \A q \in Pending(b, t) : q \in PointType /\ q.rec.at <= t
        BY PendingFacts
    <2>2. \A q \in PointType : q.rec.at \in Nat /\ q.rec.rule \in Nat /\ q.rec.kind \in {START, END}
        BY SchedulerAssumption DEF PointType, RecordType
    <2>3. QED
        BY <2>1, <2>2
<1>2. times \in SUBSET (0..t) /\ times # {}
    BY <1>1
<1>3. PICK m \in times : \A y \in times : y <= m
    BY <1>2, GreatestNumber
<1> DEFINE Last  == {q \in Of : q.rec.at = m}
           First == IF \E q \in Last : q.rec.kind = START THEN {q \in Last : q.rec.kind = START} ELSE Last
           ids   == {q.rec.rule : q \in First}
<1>4. First \subseteq Last /\ First # {} /\ Last \subseteq Of /\ Of \subseteq Pending(b, t)
    OBVIOUS
<1>5. ids \in SUBSET Nat /\ ids # {}
    BY <1>1, <1>4
<1>6. PICK k \in ids : \A y \in ids : k <= y
    BY <1>5, LeastNumber
<1>7. PICK q \in First : q.rec.rule = k
    BY <1>6
<1>8. q \in Pending(b, t) /\ q.slot = p.slot /\ q.rec.at = m /\ p.rec.at <= m
    BY <1>3, <1>4, <1>7
<1>9. ASSUME NEW x \in Pending(b, t), x.slot = q.slot, x # q
      PROVE  Beats(q, x)
    <2>1. x \in Of /\ x.rec.at <= m
        BY <1>3, <1>8, <1>9
    <2>2. CASE x.rec.at # m
        BY <1>1, <1>8, <1>9, <2>1, <2>2 DEF Beats
    <2>3. CASE x.rec.at = m
        <3>1. x \in Last
            BY <2>1, <2>3
        <3>2. CASE x.rec.kind # q.rec.kind
            <4>1. q.rec.kind = START /\ x.rec.kind = END
                BY <1>1, <1>7, <1>8, <1>9, <3>1, <3>2
            <4>2. QED
                BY <1>8, <2>3, <4>1 DEF Beats
        <3>3. CASE x.rec.kind = q.rec.kind
            <4>1. x \in First
                BY <1>7, <3>1, <3>3
            <4>2. k <= x.rec.rule
                BY <1>6, <4>1
            <4>3. x.rec.rule # k
                BY <1>7, <1>8, <1>9, <2>3, <3>3, PendingUnique
            <4>4. q.rec.rule < x.rec.rule
                BY <1>1, <1>5, <1>6, <1>7, <1>9, <4>2, <4>3
            <4>5. QED
                BY <1>8, <2>3, <3>3, <4>4 DEF Beats
        <3>4. QED
            BY <3>2, <3>3
    <2>4. QED
        BY <2>2, <2>3
<1>10. q \in due_switch_points(b, t)
    <2>1. due_switch_points(b, t) =
            {y \in Pending(b, t) : \A x \in Pending(b, t) : x.slot = y.slot /\ x # y => Beats(y, x)}
        BY DEF due_switch_points, Pending, Limit
    <2>2. QED
        BY <1>8, <1>9, <2>1
<1>11. QED
    BY <1>8, <1>10

\* The bound is the same at every time its stamps are within FUTURE_TOLERANCE of.
LEMMA LimitStays ==
    ASSUME Kept, NEW b \in BookType, NEW t \in Nat, NEW u \in Nat, Stamped(b, t + MaxBack),
           Stamped(b, u + MaxBack), NEW r \in valid_rules(b)
    PROVE  Limit(b, r, t) = Limit(b, r, u)
<1> DEFINE rule == b.rules[r]
           at   == b.applied[rule.slot].at
<1>1. rule.updatedAt \in Nat /\ at \in Nat /\ b.resumedAt \in Nat
    BY BookFacts
<1>2. /\ Limit(b, r, t) \in {rule.updatedAt, at, b.resumedAt}
      /\ b.resumedAt <= Limit(b, r, t) /\ at <= Limit(b, r, t) /\ rule.updatedAt <= Limit(b, r, t)
    BY BoundFacts DEF Limit
<1>3. /\ Limit(b, r, u) \in {rule.updatedAt, at, b.resumedAt}
      /\ b.resumedAt <= Limit(b, r, u) /\ at <= Limit(b, r, u) /\ rule.updatedAt <= Limit(b, r, u)
    BY BoundFacts DEF Limit
<1> HIDE DEF rule, at
<1>4. QED
    BY <1>1, <1>2, <1>3

\* Until the next switch point nothing becomes due.
LEMMA PendingStays ==
    ASSUME Kept, NEW b \in BookType, NEW t \in Nat, NEW u \in Nat, t <= u, Stamped(b, t + MaxBack),
           Stamped(b, u + MaxBack), Pending(b, t) = {}, \A x \in Ahead(b, t) : u < x
    PROVE  Pending(b, u) = {}
<1> SUFFICES ASSUME NEW p \in Pending(b, u) PROVE FALSE
    OBVIOUS
<1>1. b.enabled
    BY DEF Pending
<1>2. PICK r \in valid_rules(b) : p \in switch_points(r, b.rules[r], Limit(b, r, u), u)
    BY <1>1 DEF Pending
<1>3. r \in RuleIds /\ b.rules[r] \in RuleType /\ Limit(b, r, u) \in Nat /\ Limit(b, r, t) = Limit(b, r, u)
    <2>1. r \in RuleIds /\ b.rules[r] \in RuleType
        BY BookFacts
    <2>2. Limit(b, r, u) \in Nat
        BY BoundFacts DEF Limit
    <2>3. Limit(b, r, t) = Limit(b, r, u)
        BY LimitStays
    <2>4. QED
        BY <2>1, <2>2, <2>3
<1>4. p \in PointType /\ Limit(b, r, u) < p.rec.at /\ p.rec.at <= u /\ p.rec.at \in Nat
    BY <1>2, <1>3, SwitchPointFacts, PointFacts
<1>5. CASE p.rec.at <= t
    <2>1. p \in switch_points(r, b.rules[r], Limit(b, r, t), t)
        BY <1>2, <1>3, <1>4, <1>5, SwitchPointMoves
    <2>2. QED
        BY <1>1, <2>1 DEF Pending
<1>6. CASE t < p.rec.at
    <2>1. p.rec.at <= MaxTime
        BY <1>2, <1>3, DatesFacts DEF switch_points, RuleType
    <2>2. p \in switch_points(r, b.rules[r], t, MaxTime)
        BY <1>2, <1>6, <2>1, SwitchPointMoves
    <2>3. p.rec.at \in Ahead(b, t)
        BY <1>1, <2>2 DEF Ahead
    <2>4. u < p.rec.at
        BY <2>3
    <2>5. QED
        BY <1>4, <2>4
<1>7. QED
    BY <1>4, <1>5, <1>6

\* Until the next switch point a window stays open.
LEMMA OpenStays ==
    ASSUME Kept, NEW b \in BookType, NEW t \in Nat, NEW u \in Nat, t <= u, Stamped(b, t + MaxBack),
           Stamped(b, u + MaxBack), NEW s \in Slots, b.applied[s].ends # 0,
           window_still_open(s, b.applied[s], b, t), \A x \in Ahead(b, t) : u < x
    PROVE  window_still_open(s, b.applied[s], b, u)
<1> DEFINE rec  == b.applied[s]
           r    == rec.rule
           rule == b.rules[r]
           M(y) == IF y < rec.at /\ rec.at <= y + Tolerance THEN rec.at ELSE y
<1>1. b.enabled /\ same_window_rule(s, rec, b)
    BY DEF window_still_open
<1>2. /\ rec.at \in Nat /\ rec.at <= t + MaxBack /\ MaxBack <= Tolerance
      /\ MaxBack \in Nat /\ Tolerance \in Nat
    BY BookFacts, SchedulerAssumption DEF Stamped, Kept
<1>3. r \in RuleIds
    BY BookFacts, RecordFacts
<1>4. r \in valid_rules(b) /\ rule.slot = s
    BY <1>1, <1>3 DEF same_window_rule, valid_rules
<1>5. rule \in RuleType
    BY <1>4, BookFacts
<1>6. bound(rule, rec.at, b, t) = Limit(b, r, t) /\ bound(rule, rec.at, b, u) = Limit(b, r, u)
    BY <1>4 DEF Limit
<1>7. PICK o \in rule.when : o.start <= M(t) /\ M(t) < o.end /\ o.end > bound(rule, rec.at, b, t)
    BY DEF window_still_open
<1>8. o.start \in Nat /\ o.end \in Nat /\ o.end <= MaxTime /\ MaxTime \in Nat
    BY <1>5, DatesFacts, SchedulerAssumption DEF RuleType
<1>9. /\ M(t) \in Nat /\ M(u) \in Nat /\ M(t) <= M(u) /\ t <= M(t) /\ rec.at <= M(t)
      /\ (M(u) = rec.at \/ M(u) = u)
    <2> HIDE DEF rec
    <2>1. QED
        BY <1>2
<1>10. o.end > Limit(b, r, u)
    BY <1>4, <1>6, <1>7, LimitStays
<1> HIDE DEF M
<1>11. u < o.end
    <2> DEFINE p == [slot |-> rule.slot, rec |-> [rule |-> r, kind |-> END, at |-> o.end, ends |-> 0]]
    <2>1. t < o.end /\ o.end # 0
        BY <1>7, <1>8, <1>9
    <2>2. p \in switch_points(r, rule, t, MaxTime)
        BY <1>8, <2>1 DEF switch_points
    <2>3. o.end \in Ahead(b, t)
        BY <1>1, <1>4, <2>2 DEF Ahead
    <2>4. QED
        BY <2>3
<1>12. o.start <= M(u) /\ M(u) < o.end
    BY <1>2, <1>7, <1>8, <1>9, <1>11
<1>13. QED
    BY <1>1, <1>6, <1>10, <1>12 DEF window_still_open, M

LEMMA AheadShrinks ==
    ASSUME NEW b \in BookType, NEW t \in Nat, NEW u \in Nat, t <= u
    PROVE  Ahead(b, u) \subseteq Ahead(b, t)
<1> SUFFICES ASSUME NEW x \in Ahead(b, u) PROVE x \in Ahead(b, t)
    OBVIOUS
<1>1. PICK r \in valid_rules(b) : \E p \in switch_points(r, b.rules[r], u, MaxTime) : x = p.rec.at
    BY DEF Ahead
<1>2. PICK p \in switch_points(r, b.rules[r], u, MaxTime) : x = p.rec.at
    BY <1>1
<1>3. r \in RuleIds /\ b.rules[r] \in RuleType /\ MaxTime \in Nat
    BY BookFacts, SchedulerAssumption
<1>4. p \in PointType /\ u < p.rec.at /\ p.rec.at <= MaxTime /\ p.rec.at \in Nat
    BY <1>3, SwitchPointFacts, PointFacts
<1>5. p \in switch_points(r, b.rules[r], t, MaxTime)
    BY <1>4, SwitchPointMoves
<1>6. QED
    BY <1>2, <1>5 DEF Ahead

\* What was settled stays so until the time to look again.
LEMMA SettledStays ==
    ASSUME Kept, NEW b \in BookType, NEW t \in Nat, NEW u \in Nat, t <= u, Stamped(b, t + MaxBack),
           NEW n \in Nat, Settled(b, t, n), n = 0 \/ u < n
    PROVE  Settled(b, u, n)
<1>1. t + MaxBack \in Nat /\ u + MaxBack \in Nat /\ t + MaxBack <= u + MaxBack
    BY SchedulerAssumption
<1>2. Stamped(b, u + MaxBack)
    BY <1>1, StampedLater
<1>3. Ahead(b, t) \in SUBSET Nat
    BY AheadNumbers
<1>4. \A x \in Ahead(b, t) : u < x
    BY <1>3 DEF Settled
<1>5. Pending(b, u) = {}
    BY <1>2, <1>4, PendingStays DEF Settled
<1>6. Lost(b, u) = {}
    BY <1>2, <1>4, OpenStays DEF Settled, Lost
<1>7. QED
    BY <1>5, <1>6, AheadShrinks DEF Settled

LEMMA PendingApplied ==
    ASSUME Kept, NEW b \in BookType, NEW t \in Nat, Stamped(b, t + MaxBack),
           NEW s \in Slots, NEW rec \in Records, rec.at <= t + MaxBack,
           b.applied[s].at <= rec.at \/ rec.at = t,
           NEW p \in Pending(WithApplied(b, s, rec), t)
    PROVE  p \in Pending(b, t) /\ (p.slot = s => rec.at < p.rec.at)
<1> DEFINE c == WithApplied(b, s, rec)
<1>1. /\ c \in BookType /\ c.enabled = b.enabled /\ c.rules = b.rules /\ c.resumedAt = b.resumedAt
      /\ c.applied = [b.applied EXCEPT ![s] = rec] /\ b.applied \in [Slots -> Records]
    BY WithAppliedFacts, BookFacts
<1>2. Stamped(c, t + MaxBack)
    <2>1. t + MaxBack \in Nat
        BY SchedulerAssumption
    <2>2. QED
        BY <2>1, StampedApplied
<1> HIDE DEF c
<1>3. p \in Pending(c, t)
    BY DEF c
<1>4. /\ p \in PointType /\ c.enabled /\ p.rec.at <= t /\ c.applied[p.slot].at < p.rec.at
    BY <1>1, <1>2, <1>3, PendingFacts
<1>5. p.slot \in Slots /\ p.rec.at \in Nat /\ rec.at \in Nat
    BY <1>4, PointFacts, RecordFacts
<1>6. p.slot = s => rec.at < p.rec.at
    BY <1>1, <1>4, <1>5
<1>7. PICK r \in valid_rules(c) : p \in switch_points(r, c.rules[r], Limit(c, r, t), t)
    BY <1>3, <1>4 DEF Pending
<1>8. r \in valid_rules(b) /\ r \in RuleIds /\ b.rules[r] \in RuleType
    BY <1>1, BookFacts DEF valid_rules
<1>9. /\ Limit(c, r, t) \in Nat /\ c.resumedAt <= Limit(c, r, t) /\ c.rules[r].updatedAt <= Limit(c, r, t)
    BY <1>1, <1>2, BoundFacts DEF Limit
<1>10. p.slot = b.rules[r].slot /\ Limit(c, r, t) < p.rec.at
    BY <1>1, <1>7, <1>8, <1>9, SwitchPointFacts
<1>11. Limit(b, r, t) \in {b.rules[r].updatedAt, b.applied[b.rules[r].slot].at, b.resumedAt}
    BY <1>8, BoundFacts DEF Limit
<1>12. b.applied[p.slot].at < p.rec.at
    <2>1. \A x \in Slots : b.applied[x].at \in Nat
        BY BookFacts
    <2>2. CASE p.slot # s
        BY <1>1, <1>4, <1>5, <2>2
    <2>3. CASE p.slot = s
        BY <1>4, <1>5, <1>6, <2>1, <2>3
    <2>4. QED
        BY <2>2, <2>3
<1>13. Limit(b, r, t) < p.rec.at
    <2>1. b.rules[r].updatedAt \in Nat /\ b.resumedAt \in Nat
        BY <1>8, BookFacts
    <2>2. b.rules[r].updatedAt < p.rec.at /\ b.resumedAt < p.rec.at
        BY <1>1, <1>5, <1>9, <1>10, <2>1
    <2>3. QED
        BY <1>10, <1>11, <1>12, <2>2
<1>14. p \in switch_points(r, b.rules[r], Limit(b, r, t), t)
    BY <1>1, <1>4, <1>7, <1>13, SwitchPointMoves
<1>15. QED
    BY <1>1, <1>4, <1>6, <1>8, <1>14 DEF Pending

LEMMA LostApplied ==
    ASSUME NEW b \in BookType, NEW t, NEW s \in Slots, NEW rec \in Records, rec.ends = 0,
           NEW x \in Lost(WithApplied(b, s, rec), t)
    PROVE  x # s /\ x \in Lost(b, t)
<1> DEFINE c == WithApplied(b, s, rec)
<1>1. /\ c.enabled = b.enabled /\ c.rules = b.rules /\ c.resumedAt = b.resumedAt
      /\ c.applied = [b.applied EXCEPT ![s] = rec] /\ b.applied \in [Slots -> Records]
    BY WithAppliedFacts, BookFacts
<1> HIDE DEF c
<1>2. x \in Slots /\ c.applied[x].ends # 0 /\ ~ window_still_open(x, c.applied[x], c, t)
    BY DEF Lost, c
<1>3. x # s /\ c.applied[x] = b.applied[x]
    BY <1>1, <1>2
<1>4. window_still_open(x, b.applied[x], b, t) => window_still_open(x, b.applied[x], c, t)
    BY <1>1 DEF window_still_open, same_window_rule, bound
<1>5. QED
    BY <1>2, <1>3, <1>4 DEF Lost

LEMMA SettlingSame ==
    ASSUME Settling, UNCHANGED <<book, stale, lastNow, nextAt, cycle, refused>> PROVE Settling'
<1>1. \A s, t : Covered(s, t)' <=> Covered(s, t)
    BY DEF Covered
<1>2. /\ Pending(book', cycle'.now) = Pending(book, cycle.now)
      /\ Lost(book', cycle'.now) = Lost(book, cycle.now)
      /\ Settled(book', lastNow', nextAt') <=> Settled(book, lastNow, nextAt)
    OBVIOUS
<1>3. QED
    BY <1>1, <1>2 DEF Settling

LEMMA SettlingWriteOk ==
    ASSUME Inv, Settling, WriteOk, UNCHANGED refused PROVE Settling'
<1>1. PICK p \in cycle.todo : cycle' = Written(cycle, p)
    BY DEF WriteOk, Written
<1>2. /\ cycle.pc \in {"apply", "close"} /\ ~ cycle.recording
      /\ UNCHANGED <<lastNow, nextAt, book, stale>>
    BY NoEndCycle DEF WriteOk, process
<1>3. cycle \in CycleType /\ p \in PointType
    BY <1>2 DEF Inv, Types, Running
<1>4. /\ cycle'.pc = cycle.pc /\ cycle'.recording = TRUE /\ cycle'.now = cycle.now
      /\ cycle'.todo = cycle.todo \ {p} /\ cycle'.hand = p
    BY <1>1, <1>3, WrittenFacts
<1>5. \A s, t : Covered(s, t) => Covered(s, t)'
    BY <1>2, <1>4 DEF Covered
<1>6. /\ Pending(book', cycle'.now) = Pending(book, cycle.now)
      /\ Lost(book', cycle'.now) = Lost(book, cycle.now)
    BY <1>2, <1>4
<1>7. QED
    BY <1>2, <1>4, <1>5, <1>6 DEF Settling

LEMMA SettlingRecordWrite ==
    ASSUME Kept, Inv, Settling, RecordWrite, UNCHANGED refused PROVE Settling'
<1> DEFINE s   == cycle.hand.slot
           rec == cycle.hand.rec
<1> SUFFICES ASSUME ~ stale', ~ refused' PROVE Settling'
    BY DEF Settling
<1>1. /\ cycle.recording /\ cycle.pc \in {"apply", "close"} /\ cycle.pc # "idle"
      /\ cycle.hand \in PointType
    BY DEF RecordWrite, Inv, Running
<1>2. /\ cycle \in CycleType /\ book # NoBook /\ book \in BookType
      /\ Stamped(book, cycle.now + MaxBack) /\ cycle.now \in Nat /\ MaxBack \in Nat
    BY <1>1, InCycle
<1>3. s \in Slots /\ rec \in Records /\ rec.at \in Nat
    BY <1>1, PointFacts, RecordFacts
<1>4. /\ cycle.pc = "apply" => book.applied[s].at < rec.at /\ rec.at <= cycle.now
      /\ cycle.pc = "close" => rec.at = cycle.now /\ rec.ends = 0
    BY <1>1 DEF Inv, TodoIsDue, CloseIsNow
<1>5. rec.at <= cycle.now + MaxBack /\ (book.applied[s].at <= rec.at \/ rec.at = cycle.now)
    <2>1. book.applied[s].at \in Nat
        BY <1>2, <1>3, BookFacts
    <2>2. QED
        BY <1>1, <1>2, <1>3, <1>4, <2>1
<1>6. book' = WithApplied(book, s, rec) /\ cycle' = Noted(cycle) /\ stale' = stale
    BY <1>2 DEF RecordWrite, Keep, WithApplied, Noted
<1>7. /\ cycle'.pc = cycle.pc /\ ~ cycle'.recording /\ cycle'.now = cycle.now
      /\ cycle'.todo = cycle.todo
    BY <1>2, <1>6, NotedFacts
<1>8. ~ stale /\ ~ refused
    BY <1>6
<1>9. \A x, t : Covered(x, t) => Covered(x, t)' \/ (x = s /\ t <= rec.at)
    BY <1>7 DEF Covered
<1>10. \A p \in Pending(book', cycle'.now) : p \in Pending(book, cycle.now) /\ (p.slot = s => rec.at < p.rec.at)
    <2> HIDE DEF s, rec
    <2>1. QED
        BY <1>2, <1>3, <1>5, <1>6, <1>7, PendingApplied
<1>11. CASE cycle.pc = "apply"
    <2>1. ASSUME NEW p \in Pending(book', cycle'.now) PROVE Covered(p.slot, p.rec.at)'
        <3>1. p \in Pending(book, cycle.now) /\ (p.slot = s => rec.at < p.rec.at)
            BY <1>10, <2>1
        <3>2. Covered(p.slot, p.rec.at)
            BY <1>8, <1>11, <3>1 DEF Settling
        <3>3. p.rec.at \in Nat
            BY <1>2, <3>1, PendingFacts, PointFacts
        <3>4. QED
            BY <1>3, <1>9, <3>1, <3>2, <3>3
    <2>2. QED
        BY <1>7, <1>11, <2>1 DEF Settling
<1>12. CASE cycle.pc = "close"
    <2>1. Pending(book', cycle'.now) = {}
        BY <1>8, <1>10, <1>12 DEF Settling
    <2>2. ASSUME NEW x \in Lost(book', cycle'.now) PROVE Covered(x, 0)'
        <3>1. x # s /\ x \in Lost(book, cycle.now)
            BY <1>2, <1>3, <1>4, <1>6, <1>7, <1>12, <2>2, LostApplied
        <3>2. Covered(x, 0)
            BY <1>8, <1>12, <3>1 DEF Settling
        <3>3. QED
            BY <1>9, <3>1, <3>2
    <2>3. QED
        BY <1>7, <1>12, <2>1, <2>2 DEF Settling
<1>13. QED
    BY <1>1, <1>11, <1>12

LEMMA SettlingPhaseDone ==
    ASSUME Kept, Inv, Settling, PhaseDone, UNCHANGED refused PROVE Settling'
<1> SUFFICES ASSUME ~ stale', ~ refused' PROVE Settling'
    BY DEF Settling
<1>1. /\ cycle.pc \in {"apply", "close"} /\ cycle.pc # "idle" /\ ~ cycle.recording /\ cycle.todo = {}
      /\ UNCHANGED <<lastNow, book, stale>>
    BY NoEndCycle DEF PhaseDone
<1>2. /\ cycle \in CycleType /\ book \in BookType /\ cycle.now \in Nat /\ cycle.now = lastNow
    BY <1>1, InCycle
<1>3. \A s, t : ~ Covered(s, t)
    BY <1>1 DEF Covered
<1>4. ~ stale /\ ~ refused
    BY <1>1
<1>5. CASE cycle.pc = "apply"
    <2> DEFINE todo == LostWindows(book, cycle.now)
    <2>1. cycle' = [cycle EXCEPT !.pc = "close", !.todo = todo]
        BY <1>5 DEF PhaseDone
    <2> HIDE DEF todo
    <2>2. cycle'.pc = "close" /\ cycle'.now = cycle.now /\ cycle'.todo = todo
        BY <1>2, <2>1 DEF CycleType
    <2>3. Pending(book, cycle.now) = {}
        BY <1>3, <1>4, <1>5 DEF Settling
    <2>4. ASSUME NEW s \in Lost(book, cycle.now) PROVE \E q \in todo : q.slot = s /\ 0 <= q.rec.at
        <3> DEFINE q == [slot |-> s, rec |-> [rule |-> book.applied[s].rule, kind |-> END,
                                              at |-> cycle.now, ends |-> 0]]
        <3>1. q \in todo
            BY <2>4 DEF Lost, LostWindows, todo
        <3>2. q.slot = s /\ q.rec.at = cycle.now
            OBVIOUS
        <3>3. QED
            BY <1>2, <3>1, <3>2
    <2>5. \A s \in Lost(book', cycle'.now) : Covered(s, 0)'
        BY <1>1, <2>2, <2>4 DEF Covered
    <2>6. Pending(book', cycle'.now) = {}
        BY <1>1, <2>2, <2>3
    <2>7. QED
        BY <2>2, <2>5, <2>6 DEF Settling
<1>6. CASE cycle.pc = "close"
    <2>1. cycle' = Idle /\ nextAt' = next_switch_at(book, cycle.now)
        BY <1>6 DEF PhaseDone, Over
    <2>2. Pending(book, cycle.now) = {} /\ Lost(book, cycle.now) = {}
        BY <1>3, <1>4, <1>6 DEF Settling
    <2>3. Settled(book, cycle.now, nextAt')
        BY <1>2, <2>1, <2>2, NextSwitchFacts DEF Settled
    <2>4. Settled(book', lastNow', nextAt')
        BY <1>1, <1>2, <2>3
    <2>5. cycle'.pc = "idle"
        BY <2>1, IdleFacts
    <2>6. QED
        BY <2>4, <2>5 DEF Settling
<1>7. QED
    BY <1>1, <1>5, <1>6

\* From the records to the points that are due.
LEMMA SettlingToApply ==
    ASSUME Kept, Inv, cycle.pc = "flush",
           cycle' = ToApply(cycle, due_switch_points(book, cycle.now)), book' = book
    PROVE  Settling'
<1> DEFINE todo == due_switch_points(book, cycle.now)
<1>1. cycle \in CycleType /\ book \in BookType /\ cycle.now \in Nat /\ Stamped(book, cycle.now + MaxBack)
    BY InCycle
<1>2. todo \in SUBSET PointType
    BY <1>1, DueFacts
<1> HIDE DEF todo
<1>3. cycle'.pc = "apply" /\ cycle'.now = cycle.now /\ cycle'.todo = todo
    BY <1>1, <1>2, ToPhaseFacts DEF todo
<1>4. \A p \in Pending(book, cycle.now) : \E q \in todo : q.slot = p.slot /\ p.rec.at <= q.rec.at
    BY <1>1, DueCovers DEF todo
<1>5. \A p \in Pending(book', cycle'.now) : Covered(p.slot, p.rec.at)'
    BY <1>3, <1>4 DEF Covered
<1>6. QED
    BY <1>3, <1>5 DEF Settling

\* A tick over the book as it was starts no cycle only when nothing is to settle.
LEMMA SettlingTick ==
    ASSUME Kept, Inv, Settling, cycle.pc = "idle", NEW changed \in BOOLEAN,
           Evaluate(book', unrecorded', changed), ~ changed => book' = book,
           UNCHANGED <<nextAt, refused>>
    PROVE  Settling'
<1> SUFFICES ASSUME ~ stale', ~ refused' PROVE Settling'
    BY DEF Settling
<1>1. /\ cycle = Idle /\ now \in Nat /\ lastNow \in Nat /\ nextAt \in Nat /\ MaxBack \in Nat
      /\ book \in BookType \cup {NoBook}
    BY SchedulerAssumption DEF Inv, Types, Running
<1> DEFINE todo == {s \in Slots : unrecorded'[s] # NoRecord}
<1>2. \/ cycle' = NewCycle(now, todo)
      \/ /\ cycle' = cycle /\ lastNow' = now /\ ~ stale /\ ~ changed
         /\ lastNow <= now /\ (nextAt = 0 \/ now < nextAt)
    BY <1>1 DEF Evaluate, NewCycle
<1>3. CASE cycle' = NewCycle(now, todo)
    <2>1. NewCycle(now, todo).pc = "flush"
        BY DEF NewCycle, Idle
    <2>2. QED
        BY <1>3, <2>1 DEF Settling
<1>4. CASE /\ cycle' = cycle /\ lastNow' = now /\ ~ stale /\ ~ changed
           /\ lastNow <= now /\ (nextAt = 0 \/ now < nextAt)
    <2>1. book' = book
        BY <1>4
    <2>2. ASSUME book # NoBook PROVE Settled(book', lastNow', nextAt')
        <3>1. Settled(book, lastNow, nextAt)
            BY <1>4, <2>2 DEF Settling
        <3>2. Stamped(book, lastNow + MaxBack) /\ book \in BookType
            BY <1>1, <1>4, <2>2 DEF Inv, Running
        <3>3. Settled(book, now, nextAt)
            BY <1>1, <1>4, <3>1, <3>2, SettledStays
        <3>4. QED
            BY <1>4, <2>1, <3>3
    <2>3. cycle'.pc = "idle"
        BY <1>4
    <2>4. QED
        BY <2>1, <2>2, <2>3 DEF Settling
<1>5. QED
    BY <1>2, <1>3, <1>4

LEMMA StepSettling ==
    ASSUME Kept PROVE Inv /\ Settling /\ [MCNext]_<<vars, history>> => Settling'
<1> SUFFICES ASSUME Inv, Settling, [MCNext]_<<vars, history>> PROVE Settling'
    OBVIOUS
<1>1. CASE UNCHANGED <<book, stale, lastNow, nextAt, cycle, refused>>
    BY <1>1, SettlingSame
<1>2. CASE stale' \/ refused'
    BY <1>2 DEF Settling
<1>3. CASE UNCHANGED <<vars, history>>
    BY <1>1, <1>3 DEF vars, history, process
<1>4. CASE WriteRefused /\ refused' = TRUE
    BY <1>2, <1>4
<1>5. CASE Crash
    BY <1>2, <1>5 DEF Crash
<1>6. CASE Step /\ UNCHANGED refused
    <2>1. CASE TickUnread
        <3>1. cycle.pc = "idle" /\ UNCHANGED <<book, unrecorded, nextAt>> /\ Evaluate(book, unrecorded, FALSE)
            BY <2>1 DEF TickUnread
        <3>2. Evaluate(book', unrecorded', FALSE)
            BY <3>1 DEF Evaluate
        <3>3. FALSE \in BOOLEAN
            BY Zenon
        <3>4. QED
            BY <1>6, <3>1, <3>2, <3>3, SettlingTick
    <2>2. CASE TickRead
        <3>1. cycle.pc = "idle" /\ UNCHANGED nextAt /\ Evaluate(book', unrecorded', book' # book)
            BY <2>2 DEF TickRead, Evaluate
        <3>2. (book' # book) \in BOOLEAN
            BY Zenon
        <3>3. QED
            BY <1>6, <3>1, <3>2, SettlingTick
    <2>3. CASE TickUnreadable
        BY <2>3 DEF TickUnreadable, Inv, Types
    <2>4. CASE RecordUnrecorded
        <3>1. cycle.pc = "flush" /\ book' = book
            BY <2>4 DEF RecordUnrecorded
        <3>2. CASE \E s \in cycle.todo : cycle' = [cycle EXCEPT !.todo = @ \ {s}]
            <4>1. cycle'.pc = "flush"
                BY <3>1, <3>2 DEF Inv, Types, CycleType
            <4>2. QED
                BY <4>1 DEF Settling
        <3>3. QED
            BY <1>2, <2>4, <3>2 DEF RecordUnrecorded
    <2>5. CASE FlushDone
        <3>1. cycle.pc = "flush" /\ book' = book /\ cycle' = ToApply(cycle, due_switch_points(book, cycle.now))
            BY <2>5 DEF FlushDone, process, ToApply
        <3>2. QED
            BY <3>1, SettlingToApply
    <2>6. CASE WriteOk \/ RecordWrite \/ PhaseDone
        BY <1>6, <2>6, SettlingWriteOk, SettlingRecordWrite, SettlingPhaseDone
    <2>7. CASE WriteFailed \/ WriteBusy
        BY <1>2, <2>7 DEF WriteFailed, WriteBusy
    <2>8. CASE Pass \/ SetClock \/ TakeBackup \/ SetByHand \/ ApplyNowRead \/ ApplyNowRecord \/ ApplyNowWrite
        BY <1>1, <1>6, <2>8 DEF Pass, SetClock, TakeBackup, SetByHand, ApplyNowRead, ApplyNowRecord,
                                ApplyNowWrite, process
    <2>9. CASE Save \/ Skip \/ Delete \/ SetEnabled \/ Restore
        <3>1. UNCHANGED <<process, cycle>>
            BY <2>9 DEF Save, Skip, Delete, SetEnabled, Restore, Edit
        <3>2. QED
            BY <1>1, <1>6, <3>1 DEF process
    <2>10. ~ Remove /\ ~ Spoil
        BY DEF Remove, Spoil, Do, Kept
    <2>11. QED
        BY <1>6, <2>1, <2>2, <2>3, <2>4, <2>5, <2>6, <2>7, <2>8, <2>9, <2>10 DEF Step, Edits, Tick
<1>7. QED
    BY <1>3, <1>4, <1>5, <1>6 DEF MCNext

\* Under the same conditions an early return of _tick misses nothing: what was
\* settled at the last evaluation stays so until _next_at, since every stamp that
\* bounds a rule is within FUTURE_TOLERANCE of both times.
THEOREM NothingMissedAlways == ASSUME Kept PROVE MCSpec => []NothingMissed
<1>1. MCInit => Inv /\ Settling
    <2>1. MCInit => Inv
        BY FirstInv
    <2>2. MCInit => Settling
        BY DEF MCInit, Init, FreshProcess, Settling
    <2>3. QED
        BY <2>1, <2>2
<1>2. Inv /\ Settling /\ [MCNext]_<<vars, history>> => (Inv /\ Settling)'
    BY StepInv, StepSettling
<1>3. Inv /\ Settling => NothingMissed
    <2> SUFFICES ASSUME Inv, Settling, ~ refused, cycle.pc = "idle", book # NoBook, ~ stale,
                        now >= lastNow, nextAt = 0 \/ now < nextAt
                 PROVE  due_switch_points(book, now) = {} /\ LostWindows(book, now) = {}
        BY DEF NothingMissed
    <2>1. book \in BookType /\ now \in Nat /\ lastNow \in Nat /\ nextAt \in Nat
        BY DEF Inv, Types
    <2>2. Settled(book, lastNow, nextAt) /\ Stamped(book, lastNow + MaxBack)
        BY DEF Settling, Inv, Running
    <2>3. Settled(book, now, nextAt)
        BY <2>1, <2>2, SettledStays
    <2>4. Pending(book, now) = {} /\ Lost(book, now) = {}
        BY <2>3 DEF Settled
    <2>5. due_switch_points(book, now) = {}
        <3>1. due_switch_points(book, now) \subseteq Pending(book, now)
            BY DEF due_switch_points, Pending, Limit
        <3>2. QED
            BY <2>4, <3>1
    <2>6. LostWindows(book, now) = {}
        BY <2>4 DEF LostWindows, Lost
    <2>7. QED
        BY <2>5, <2>6
<1>4. QED
    BY <1>1, <1>2, <1>3, PTL DEF MCSpec

=============================================================================
