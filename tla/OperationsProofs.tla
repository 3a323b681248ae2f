-------------------------- MODULE OperationsProofs --------------------------
(***************************************************************************)
(* Proofs about ApplianceOperations and OperationsHistory, for any number  *)
(* of operations, submitters, stops and full cards.                        *)
(*                                                                         *)
(* What is said of one operation (OperationInv) holds whatever the others  *)
(* do: a step is about one operation, or it is a restart or a create,      *)
(* which close all of them the same way.  That one operation at a time has *)
(* the slot (Alone) is about two, and about those that are no strays.      *)
(***************************************************************************)
EXTENDS OperationsHistory, FiniteSetTheorems, TLAPS

Records == Record \cup {NoRecord}
Underway == {"running", "verifying", "rolling_back"}

Requests == [Submitters -> [op : Operations, seen : {"awaiting_confirmation", "failed_recoverable", "other"}] \cup {NoRequest}]

\* Types; a request is about an operation, and the first boot is not zero, which
\* is the boot no record names.
Types == TypeOK /\ request \in Requests /\ boot # 0

\* An operation nobody created yet has left no trace.
Fresh(o) ==
    o > created => /\ record[o] = NoRecord /\ worker[o] = "none" /\ last[o] = "none"
                   /\ unfinished[o] = "none" /\ o \notin unrecorded

\* _planning is the planners, and a planner's record is a plan, cancelled or not.
Planned(o) ==
    /\ o \in planning <=> worker[o] = "planning"
    /\ worker[o] = "planning" => record[o].state \in {"planned"} \cup TERMINAL_STATES

\* An executor's record is under way, or ended for good by somebody else.
Carried(o) ==
    worker[o] = "executing" =>
        /\ record[o].state \in Underway \cup TERMINAL_STATES \cup {"none"}
        /\ record[o].state # "none" => record[o].sound = TRUE
        /\ unfinished[o] \in TERMINAL_STATES \cup {"none"} /\ o \notin unrecorded

\* An end kept for an open record is one its state allows.
KeptEnd(o) ==
    Blocking(record[o]) /\ unfinished[o] # "none" => unfinished[o] \in TRANSITIONS(record[o].state)

OperationInv(o) == Fresh(o) /\ Planned(o) /\ Carried(o) /\ KeptEnd(o)

Inv == Types /\ \A o \in Operations : OperationInv(o)

-----------------------------------------------------------------------------
(***************************************************************************)
(* Records and states.                                                     *)
(***************************************************************************)

LEMMA StateFacts ==
    /\ SETTLED_STATES \subseteq States /\ TERMINAL_STATES \subseteq SETTLED_STATES
    /\ Underway \subseteq States /\ Underway \cap SETTLED_STATES = {}
    /\ "none" \notin States
    /\ \A s \in SETTLED_STATES : s = "failed_recoverable" \/ s \in TERMINAL_STATES
    /\ "failed_recoverable" \notin TERMINAL_STATES
    /\ \A s \in States : s \notin SETTLED_STATES =>
          s \in {"planned", "awaiting_confirmation"} \cup Underway
BY DEF States, SETTLED_STATES, TERMINAL_STATES, Underway

LEMMA TransitionFacts ==
    /\ \A s \in TERMINAL_STATES \cup {"none"} : TRANSITIONS(s) = {}
    /\ TRANSITIONS("failed_recoverable") \cap Ends \subseteq TERMINAL_STATES
    /\ \A s \in States : "running" \in TRANSITIONS(s) =>
          s \in {"awaiting_confirmation", "failed_recoverable"}
    /\ \A s \in Underway : "cancelled" \notin TRANSITIONS(s)
    /\ TRANSITIONS("planned") \cap Ends = {"cancelled"}
    /\ \A s \in Underway : "failed_terminal" \in TRANSITIONS(s)
    /\ "cancelled" \in Ends /\ "failed_terminal" \in Ends /\ "none" \notin Ends
BY DEF TRANSITIONS, Ends, States, SETTLED_STATES, TERMINAL_STATES, Underway

LEMMA RecordFacts ==
    ASSUME NEW r \in Records
    PROVE  /\ r # NoRecord <=> r \in Record
           /\ r \in Record <=> r.state \in States
           /\ r = NoRecord <=> r.state = "none"
           /\ Blocking(r) <=> r.state \in States /\ r.state \notin SETTLED_STATES
BY DEF Records, Record, NoRecord, States, Blocking

LEMMA EndedFacts ==
    ASSUME NEW r \in Record, NEW s \in States
    PROVE  /\ Ended(r, s) \in Record
           /\ Ended(r, s).state = s /\ Ended(r, s).stage = "ended" /\ Ended(r, s).hostDown = 0
           /\ Ended(r, s).sound = r.sound /\ Ended(r, s).blocked = r.blocked
BY DEF Record, Ended, Stages

LEMMA RecoveredFacts ==
    ASSUME NEW r \in Records
    PROVE  /\ Recovered(r) \in Records
           /\ r.state \in SETTLED_STATES \cup {"none"} => Recovered(r) = r
           /\ Blocking(r) => Recovered(r) \in Record /\ Recovered(r).state \in SETTLED_STATES
           /\ Blocking(r) => Recovered(r) # r
           /\ r = NoRecord <=> Recovered(r) = NoRecord
<1>1. CASE r = NoRecord \/ r.state \in SETTLED_STATES
    <2>1. Recovered(r) = r
        BY <1>1 DEF Recovered, NoRecord, SETTLED_STATES, TERMINAL_STATES
    <2>2. ~ Blocking(r)
        BY <1>1 DEF Blocking
    <2>3. QED
        BY <2>1, <2>2
<1>2. CASE r # NoRecord /\ r.state \notin SETTLED_STATES
    <2>1. r \in Record /\ r.state \in {"planned", "awaiting_confirmation"} \cup Underway
        BY <1>2, RecordFacts, StateFacts
    <2>2. PICK s \in {"succeeded", "failed_recoverable", "manual_action_required", "cancelled"} :
             Recovered(r) = Ended(r, s)
        BY <2>1 DEF Recovered, Underway
    <2>3. s \in SETTLED_STATES /\ s \in States
        BY <2>2 DEF SETTLED_STATES, TERMINAL_STATES, States
    <2>4. Recovered(r) \in Record /\ Recovered(r).state = s
        BY <2>1, <2>2, <2>3, EndedFacts
    <2>5. Recovered(r) # NoRecord
        BY <2>3, <2>4, StateFacts DEF NoRecord
    <2>6. r.state # "none" /\ Recovered(r) # r
        BY <1>2, <2>1, <2>3, <2>4, RecordFacts
    <2>7. QED
        BY <1>2, <2>1, <2>3, <2>4, <2>5, <2>6 DEF Records
<1>3. QED
    BY <1>1, <1>2

LEMMA RequestTypes ==
    ASSUME NEW f \in Requests
    PROVE  f \in [Submitters -> [op : Operations \cup {0}, seen : {"awaiting_confirmation", "failed_recoverable", "other", "none"}]]
BY DEF Requests, NoRequest

\* What Save and finish do to the operation they are about.
LEMMA SaveFacts ==
    ASSUME Types, NEW o \in Operations, NEW rec \in Record, Save(o, rec)
    PROVE  /\ ~ full /\ record'[o] = rec /\ unfinished'[o] = "none" /\ o \notin unrecorded'
           /\ \A x \in Operations \ {o} : /\ record'[x] = record[x] /\ unfinished'[x] = unfinished[x]
                                          /\ x \in unrecorded' <=> x \in unrecorded
           /\ record' \in [Operations -> Records] /\ unrecorded' \subseteq Operations
           /\ unfinished' \in [Operations -> Ends \cup {"none"}]
BY DEF Save, Types, TypeOK, Records

LEMMA FinishFacts ==
    ASSUME Types, NEW o \in Operations, NEW end \in Ends, finish(o, end)
    PROVE  /\ EndOf(o, end) \in Ends /\ EndOf(o, end) \in TRANSITIONS(record[o].state)
           /\ record[o] \in Record /\ record[o].state \notin TERMINAL_STATES
           /\ full => /\ record' = record /\ unrecorded' = unrecorded
                      /\ unfinished'[o] = EndOf(o, end)
           /\ ~ full => /\ record'[o] = Ended(record[o], EndOf(o, end))
                        /\ record'[o] \in Record /\ record'[o].state = EndOf(o, end)
                        /\ unfinished'[o] = "none" /\ o \notin unrecorded'
           /\ \A x \in Operations \ {o} : /\ record'[x] = record[x] /\ unfinished'[x] = unfinished[x]
                                          /\ x \in unrecorded' <=> x \in unrecorded
           /\ record' \in [Operations -> Records] /\ unrecorded' \subseteq Operations
           /\ unfinished' \in [Operations -> Ends \cup {"none"}]
<1> DEFINE e == EndOf(o, end)
<1>1. /\ e \in Ends /\ e \in TRANSITIONS(record[o].state) /\ e \in States
      /\ record[o] \in Record /\ record[o].state \notin TERMINAL_STATES
    BY RecordFacts, TransitionFacts, StateFacts
       DEF finish, CanEnd, EndOf, Exists, Types, TypeOK, Records, Ends
<1>2. CASE full
    BY <1>1, <1>2 DEF finish, Types, TypeOK, Records
<1>3. CASE ~ full
    <2> DEFINE rec == Ended(record[o], e)
    <2>1. rec \in Record /\ rec.state = e
        BY <1>1, EndedFacts
    <2>2. Save(o, rec)
        BY <1>3 DEF finish
    <2> HIDE DEF rec, e
    <2>3. QED
        BY <1>1, <1>3, <2>1, <2>2, SaveFacts DEF rec, e
<1>4. QED
    BY <1>2, <1>3

\* A step that leaves an operation alone.
Untouched(x) ==
    /\ record'[x] = record[x] /\ worker'[x] = worker[x] /\ last'[x] = last[x]
    /\ unfinished'[x] = unfinished[x]
    /\ x \in unrecorded' <=> x \in unrecorded
    /\ x \in planning' <=> x \in planning

LEMMA UntouchedInv ==
    ASSUME NEW x \in Operations, OperationInv(x), Untouched(x), x > created' => x > created
    PROVE  OperationInv(x)'
BY DEF OperationInv, Untouched, Fresh, Planned, Carried, KeptEnd, Blocking

\* It is enough to look at the operation a step is about.
LEMMA OneInv ==
    ASSUME Inv, NEW o \in Operations, Types', OperationInv(o)', created' = created,
           \A x \in Operations \ {o} : Untouched(x)
    PROVE  Inv'
BY UntouchedInv DEF Inv

-----------------------------------------------------------------------------
(***************************************************************************)
(* Every step keeps what is said of one operation.                         *)
(***************************************************************************)

LEMMA InitInv == Init => Inv
<1> SUFFICES ASSUME Init PROVE Inv
    OBVIOUS
<1>1. NoRequest \in [op : Operations \cup {0}, seen : {"awaiting_confirmation", "failed_recoverable", "other", "none"}]
    BY DEF NoRequest
<1>a. full \in BOOLEAN
    BY Zenon DEF Init
<1>b. /\ MaxOperations \in Nat /\ created \in 0..MaxOperations
      /\ boot \in Nat /\ stops \in Nat /\ fills \in Nat /\ boot # 0
    BY OperationsAssumption DEF Init
<1>2. Types
    BY <1>1, <1>a, <1>b DEF Init, Types, TypeOK, Requests
<1>3. ASSUME NEW o \in Operations PROVE OperationInv(o)
    BY DEF Init, OperationInv, Fresh, Planned, Carried, KeptEnd, Blocking
<1>4. QED
    BY <1>2, <1>3 DEF Inv

LEMMA PlannerRecord ==
    ASSUME Inv, NEW o \in Operations, worker[o] = "planning"
    PROVE  record[o] \in Record /\ record[o].state \in {"planned"} \cup TERMINAL_STATES
<1>1. record[o] \in Records /\ record[o].state \in {"planned"} \cup TERMINAL_STATES
    BY DEF Inv, OperationInv, Planned, Types, TypeOK, Records
<1>2. record[o].state \in States
    BY <1>1 DEF States, TERMINAL_STATES
<1>3. QED
    BY <1>1, <1>2, RecordFacts

LEMMA PlanShownInv ==
    ASSUME Inv, NEW o \in Operations, PlanShown(o)
    PROVE  Inv'
<1>1. Types /\ OperationInv(o) /\ record[o] \in Record
    BY RecordFacts DEF Inv, OperationInv, Planned, PlanShown, Types, TypeOK, Records
<1>2. PICK sound, blocked \in BOOLEAN :
         Save(o, [record[o] EXCEPT !.state = "awaiting_confirmation", !.sound = sound, !.blocked = blocked])
    BY DEF PlanShown
<1> DEFINE rec == [record[o] EXCEPT !.state = "awaiting_confirmation", !.sound = sound, !.blocked = blocked]
<1>3. rec \in Record
    BY <1>1 DEF Record, States
<1>4. Save(o, rec)
    BY <1>2
<1> HIDE DEF rec
<1>5. /\ UNCHANGED <<full, last, request, bounds>>
      /\ worker' = [worker EXCEPT ![o] = "none"] /\ planning' = planning \ {o}
    BY DEF PlanShown, PlannerLeaves
<1>6. Types'
    BY <1>1, <1>3, <1>4, <1>5, SaveFacts DEF Types, TypeOK, Records, bounds
<1>7. OperationInv(o)'
    BY <1>1, <1>3, <1>4, <1>5, SaveFacts
       DEF OperationInv, Fresh, Planned, Carried, KeptEnd, Types, TypeOK, bounds, PlanShown
<1>8. QED
    BY <1>1, <1>3, <1>4, <1>5, <1>6, <1>7, SaveFacts, OneInv DEF Untouched, bounds, Types, TypeOK

LEMMA PlanAbandonedInv ==
    ASSUME Inv, NEW o \in Operations, PlanAbandoned(o)
    PROVE  Inv'
<1>1. Types /\ OperationInv(o) /\ record[o] \in Record /\ ~ o > created
    BY PlannerRecord DEF Inv, OperationInv, PlanAbandoned, Fresh
<1>2. /\ UNCHANGED <<full, last, request, bounds>>
      /\ worker' = [worker EXCEPT ![o] = "none"] /\ planning' = planning \ {o}
    BY DEF PlanAbandoned, PlannerLeaves
<1>3. CASE Exists(o) /\ ~ Terminal(o) /\ ~ full
    <2> DEFINE rec == Ended(record[o], "cancelled")
    <2>1. rec \in Record
        BY <1>1, EndedFacts DEF States
    <2>2. Save(o, rec)
        BY <1>3 DEF PlanAbandoned, abandon
    <2> HIDE DEF rec
    <2>3. Types'
        BY <1>1, <1>2, <2>1, <2>2, SaveFacts DEF Types, TypeOK, Records, bounds
    <2>4. OperationInv(o)'
        BY <1>1, <1>2, <2>1, <2>2, SaveFacts
           DEF OperationInv, Fresh, Planned, Carried, KeptEnd, Types, TypeOK, bounds
    <2>5. QED
        BY <1>1, <1>2, <2>1, <2>2, <2>3, <2>4, SaveFacts, OneInv DEF Untouched, bounds, Types, TypeOK
<1>4. CASE ~ (Exists(o) /\ ~ Terminal(o) /\ ~ full)
    <2>1. UNCHANGED <<record, unfinished, unrecorded>>
        BY <1>4 DEF PlanAbandoned, abandon
    <2>2. Types'
        BY <1>1, <1>2, <2>1 DEF Types, TypeOK, bounds
    <2>3. OperationInv(o)'
        BY <1>1, <1>2, <2>1
           DEF OperationInv, Fresh, Planned, Carried, KeptEnd, Types, TypeOK, bounds, Blocking
    <2>4. QED
        BY <1>1, <1>2, <2>1, <2>2, <2>3, OneInv DEF Untouched, bounds, Types, TypeOK
<1>5. QED
    BY <1>3, <1>4

LEMMA PlanDiscardedInv ==
    ASSUME Inv, NEW o \in Operations, PlanDiscarded(o)
    PROVE  Inv'
<1>1. Types /\ OperationInv(o)
    BY DEF Inv
<1>2. /\ UNCHANGED <<full, last, request, bounds, unfinished, unrecorded>>
      /\ worker' = [worker EXCEPT ![o] = "none"] /\ planning' = planning \ {o}
      /\ record' = [record EXCEPT ![o] = NoRecord] /\ worker[o] = "planning"
    BY DEF PlanDiscarded, PlannerLeaves
<1>3. Types'
    BY <1>1, <1>2 DEF Types, TypeOK, bounds
<1>4. OperationInv(o)'
    BY <1>1, <1>2
       DEF OperationInv, Fresh, Planned, Carried, KeptEnd, Types, TypeOK, bounds, Blocking
<1>5. QED
    BY <1>1, <1>2, <1>3, <1>4, OneInv DEF Untouched, bounds, Types, TypeOK

\* An end, by a thread that stops or goes on, or under the thread at work.
LEMMA FinishInv ==
    ASSUME Inv, NEW o \in Operations, NEW end \in Ends, finish(o, end),
           UNCHANGED <<full, planning, bounds>>, request' \in Requests,
           NEW w \in {"none", worker[o]}, worker' = [worker EXCEPT ![o] = w],
           NEW l \in {"none", "looking", "closing"}, last' = [last EXCEPT ![o] = l],
           worker[o] = "planning" => w = "planning",
           worker[o] = "executing" => w = "none" \/ end \in TERMINAL_STATES
    PROVE  Inv'
<1>1. Types /\ OperationInv(o) /\ record[o] \in Record
    BY FinishFacts DEF Inv
<1>2. Types'
    BY <1>1, FinishFacts, RequestTypes DEF Types, TypeOK, Records, bounds
<1>3. /\ worker'[o] = w /\ record[o] # NoRecord /\ record'[o] \in Record
      /\ o \in planning' <=> w = "planning"
    BY <1>1, FinishFacts, RecordFacts DEF Types, TypeOK, OperationInv, Planned, Records
<1>4. Fresh(o)'
    BY <1>1, <1>3 DEF OperationInv, Fresh, bounds
<1>5. Planned(o)'
    <2> SUFFICES ASSUME w = "planning" PROVE record'[o].state \in {"planned"} \cup TERMINAL_STATES
        BY <1>3 DEF Planned
    <2>1. record[o].state = "planned"
        BY <1>1, FinishFacts DEF OperationInv, Planned
    <2>2. EndOf(o, end) = "cancelled"
        BY <1>1, <2>1, FinishFacts, TransitionFacts
    <2>3. QED
        BY <1>1, <2>1, <2>2, FinishFacts DEF TERMINAL_STATES
<1>6. Carried(o)'
    <2> SUFFICES ASSUME w = "executing" PROVE Carried(o)'
        BY <1>3 DEF Carried
    <2>1. worker[o] = "executing" /\ end \in TERMINAL_STATES
        OBVIOUS
    <2>2. EndOf(o, end) \in TERMINAL_STATES
        BY <1>1, <2>1 DEF EndOf, OperationInv, Carried
    <2>3. record[o].sound = TRUE /\ o \notin unrecorded
        BY <1>1, <1>3, <2>1, RecordFacts DEF OperationInv, Carried, Records
    <2>4. record'[o].sound = TRUE
        <3>1. CASE full
            BY <1>1, <2>3, <3>1, FinishFacts
        <3>2. CASE ~ full
            <4>1. record'[o] = Ended(record[o], EndOf(o, end)) /\ EndOf(o, end) \in States
                BY <1>1, <2>2, <3>2, FinishFacts, StateFacts
            <4>2. QED
                BY <1>1, <2>3, <4>1, EndedFacts
        <3>3. QED
            BY <3>1, <3>2
    <2>5. CASE full
        BY <1>1, <2>1, <2>2, <2>3, <2>4, <2>5, FinishFacts DEF OperationInv, Carried
    <2>6. CASE ~ full
        BY <1>1, <2>2, <2>4, <2>6, FinishFacts DEF Carried
    <2>7. QED
        BY <2>5, <2>6
<1>7. KeptEnd(o)'
    <2>1. CASE full
        BY <1>1, <2>1, FinishFacts DEF KeptEnd
    <2>2. CASE ~ full
        BY <1>1, <2>2, FinishFacts DEF KeptEnd
    <2>3. QED
        BY <2>1, <2>2
<1>8. QED
    BY <1>1, <1>2, <1>4, <1>5, <1>6, <1>7, FinishFacts, OneInv DEF Untouched, bounds, Types, TypeOK, OperationInv

LEMMA CancelInv ==
    ASSUME Inv, NEW o \in Operations, Cancel(o)
    PROVE  Inv'
<1>1. /\ worker' = [worker EXCEPT ![o] = worker[o]] /\ last' = [last EXCEPT ![o] = last[o]]
      /\ last[o] \in {"none", "looking", "closing"}
      /\ finish(o, "cancelled") /\ UNCHANGED <<full, planning, bounds>> /\ request' \in Requests
    BY DEF Cancel, Inv, Types, TypeOK
<1>2. "cancelled" \in Ends /\ "cancelled" \in TERMINAL_STATES
    BY TransitionFacts DEF TERMINAL_STATES
<1>3. QED
    BY <1>1, <1>2, FinishInv

LEMMA AnsweredFacts ==
    ASSUME Types, NEW t \in Submitters, Answered(t)
    PROVE  request' \in Requests
BY DEF Types, Answered, Requests

LEMMA SameInv ==
    ASSUME Inv, request' \in Requests, full' \in BOOLEAN, fills' \in Nat,
           UNCHANGED <<record, worker, last, planning, unfinished, unrecorded, created, boot, stops>>
    PROVE  Inv'
<1>1. Types'
    BY RequestTypes DEF Inv, Types, TypeOK
<1>2. ASSUME NEW x \in Operations PROVE OperationInv(x)'
    BY UntouchedInv DEF Inv, Untouched
<1>3. QED
    BY <1>1, <1>2 DEF Inv

LEMMA RefuseInv ==
    ASSUME Inv, NEW t \in Submitters, Refuse(t)
    PROVE  Inv'
<1> DEFINE o == request[t].op
<1>1. Types /\ request' \in Requests /\ UNCHANGED <<full, worker, last, planning, bounds>>
    BY AnsweredFacts DEF Refuse, Inv
<1>2. CASE /\ request[t].seen \in {"awaiting_confirmation", "failed_recoverable"}
           /\ Exists(o) /\ CanEnd(o, "failed_terminal")
    <2>1. finish(o, "failed_terminal") /\ Exists(o) /\ ~ record[o].sound
        BY <1>2 DEF Refuse
    <2>2. o \in Operations
        BY <1>1, <1>2 DEF Types, Requests, Refuse
    <2> HIDE DEF o
    <2>3. /\ worker' = [worker EXCEPT ![o] = worker[o]] /\ last' = [last EXCEPT ![o] = last[o]]
          /\ last[o] \in {"none", "looking", "closing"}
        BY <1>1, <2>1, <2>2 DEF Types, TypeOK
    <2>4. "failed_terminal" \in Ends /\ "failed_terminal" \in TERMINAL_STATES
        BY TransitionFacts DEF TERMINAL_STATES
    <2>5. QED
        BY <1>1, <2>1, <2>2, <2>3, <2>4, FinishInv
<1>3. CASE ~ (/\ request[t].seen \in {"awaiting_confirmation", "failed_recoverable"}
              /\ Exists(o) /\ CanEnd(o, "failed_terminal"))
    BY <1>1, <1>3, SameInv DEF Refuse, Types, TypeOK, bounds
<1>4. QED
    BY <1>2, <1>3

LEMMA QuietInv ==
    ASSUME Inv, \/ \E t \in Submitters : Submit(t) \/ ExecuteFails(t)
                \/ CardFills \/ CardFreed \/ UNCHANGED vars
    PROVE  Inv'
<1>1. Types
    BY DEF Inv
<1>2. UNCHANGED <<record, worker, last, planning, unfinished, unrecorded, created, boot, stops>>
    BY DEF Submit, ExecuteFails, CardFills, CardFreed, vars, disk, agent, bounds
<1>3. request' \in Requests
    <2>1. ASSUME NEW t \in Submitters, Submit(t) PROVE request' \in Requests
        <3>1. PICK o \in Operations : /\ Exists(o)
                                      /\ request' = [request EXCEPT ![t] = [op |-> o, seen |-> Seen(record[o].state)]]
            BY <2>1 DEF Submit
        <3>2. Seen(record[o].state) \in {"awaiting_confirmation", "failed_recoverable", "other"}
            BY DEF Seen
        <3>3. QED
            BY <1>1, <3>1, <3>2 DEF Types, Requests
    <2>2. ASSUME NEW t \in Submitters, ExecuteFails(t) PROVE request' \in Requests
        BY <1>1, <2>2, AnsweredFacts DEF ExecuteFails
    <2>3. QED
        BY <1>1, <2>1, <2>2 DEF CardFills, CardFreed, vars, agent, Types
<1>4. full' \in BOOLEAN /\ fills' \in Nat
    <2>1. full' \in BOOLEAN
        <3>1. full' \in {full, TRUE, FALSE}
            BY DEF Submit, ExecuteFails, CardFills, CardFreed, vars, disk, bounds
        <3>2. QED
            BY <1>1, <3>1, Zenon DEF Types, TypeOK
    <2>2. fills' \in Nat
        BY <1>1 DEF Submit, ExecuteFails, CardFills, CardFreed, vars, disk, bounds, Types, TypeOK
    <2>3. QED
        BY <2>1, <2>2
<1>5. QED
    BY <1>2, <1>3, <1>4, SameInv

\* Nobody is at work for what may be started.
LEMMA StartedFacts ==
    ASSUME Inv, NEW t \in Submitters, Execute(t), NEW o \in Operations, o = request[t].op
    PROVE  /\ worker[o] = "none" /\ record[o] \in Record /\ record[o].sound = TRUE
           /\ record[o].state \in {"awaiting_confirmation", "failed_recoverable"}
<1>1. record[o] \in Record /\ record[o].sound
    BY RecordFacts DEF Execute, Exists, Inv, Types, TypeOK, Records
<1>2. record[o].state \in {"awaiting_confirmation", "failed_recoverable"}
    BY <1>1, TransitionFacts DEF Execute, MayRun, Record
<1>3. worker[o] = "none"
    BY <1>2 DEF Inv, OperationInv, Planned, Carried, Underway, TERMINAL_STATES, Types, TypeOK
<1>4. record[o].sound = TRUE
    <2>1. record[o].sound \in BOOLEAN
        BY <1>1 DEF Record
    <2>2. QED
        BY <1>1, <2>1, Zenon
<1>5. QED
    BY <1>1, <1>2, <1>3, <1>4

\* What a start makes of the record.
Begun(rec) == [rec EXCEPT !.state = "running", !.stage = "untouched", !.hostDown = 0]

LEMMA BegunFacts ==
    ASSUME NEW r \in Record
    PROVE  /\ Begun(r) \in Record /\ Begun(r).state = "running"
           /\ Begun(r).stage = "untouched" /\ Begun(r).sound = r.sound
BY DEF Begun, Record, States, Stages

LEMMA ExecuteFacts ==
    ASSUME Inv, NEW t \in Submitters, Execute(t), NEW o \in Operations, o = request[t].op
    PROVE  /\ Save(o, Begun(record[o])) /\ record'[o] = Begun(record[o])
           /\ unfinished'[o] = "none" /\ o \notin unrecorded'
           /\ \/ worker'[o] = "executing" /\ last'[o] = last[o]
              \/ worker'[o] = worker[o] /\ last'[o] = "closing"
           /\ \A x \in Operations \ {o} : Untouched(x)
           /\ worker' \in [Operations -> {"none", "planning", "executing"}]
           /\ last' \in [Operations -> {"none", "looking", "closing"}]
           /\ request' \in Requests /\ UNCHANGED <<full, planning, bounds>>
<1>1. Types /\ Begun(record[o]) \in Record
    BY StartedFacts, BegunFacts DEF Inv
<1>2. /\ Save(o, Begun(record[o])) /\ request' \in Requests /\ UNCHANGED <<full, planning, bounds>>
    BY <1>1, AnsweredFacts DEF Execute, Begun
<1>3. CASE record[o].blocked
    <2>1. last' = [last EXCEPT ![o] = "closing"] /\ UNCHANGED worker
        BY <1>3 DEF Execute
    <2>2. QED
        BY <1>1, <1>2, <2>1, SaveFacts DEF Types, TypeOK, Untouched
<1>4. CASE ~ record[o].blocked
    <2>1. worker' = [worker EXCEPT ![o] = "executing"] /\ UNCHANGED last
        BY <1>4 DEF Execute
    <2>2. QED
        BY <1>1, <1>2, <2>1, SaveFacts DEF Types, TypeOK, Untouched
<1>5. QED
    BY <1>3, <1>4

LEMMA ExecuteInv ==
    ASSUME Inv, NEW t \in Submitters, Execute(t)
    PROVE  Inv'
<1>1. PICK o \in Operations : o = request[t].op
    BY DEF Inv, Types, Requests, Execute
<1>2. /\ worker[o] = "none" /\ record[o] \in Record /\ record[o].sound = TRUE /\ OperationInv(o) /\ Types
    BY <1>1, StartedFacts DEF Inv
<1>3. /\ record'[o] \in Record /\ record'[o].state = "running" /\ record'[o].sound = TRUE
      /\ Save(o, Begun(record[o])) /\ Begun(record[o]) \in Record
    BY <1>1, <1>2, ExecuteFacts, BegunFacts
<1>4. Types'
    BY <1>1, <1>2, <1>3, ExecuteFacts, SaveFacts, RequestTypes DEF Types, TypeOK, Records, bounds
<1>5. record[o] # NoRecord
    BY <1>2, RecordFacts DEF Records
<1>6. OperationInv(o)'
    <2>1. Fresh(o)'
        BY <1>1, <1>2, <1>5, ExecuteFacts DEF OperationInv, Fresh, bounds
    <2>2. Planned(o)'
        BY <1>1, <1>2, ExecuteFacts DEF OperationInv, Planned
    <2>3. Carried(o)'
        BY <1>1, <1>3, ExecuteFacts DEF Carried, Underway
    <2>4. KeptEnd(o)'
        BY <1>1, ExecuteFacts DEF KeptEnd
    <2>5. QED
        BY <2>1, <2>2, <2>3, <2>4 DEF OperationInv
<1>7. QED
    BY <1>1, <1>4, <1>6, ExecuteFacts, OneInv DEF bounds

\* A stage on record: the executor's record stays under way.
LEMMA StagedInv ==
    ASSUME Inv, NEW o \in Operations, worker[o] = "executing",
           NEW rec \in Record, rec.state \in Underway \cup TERMINAL_STATES, rec.sound = TRUE, Save(o, rec),
           UNCHANGED <<full, worker, last, planning, request, bounds>>
    PROVE  Inv'
<1>1. Types /\ OperationInv(o)
    BY DEF Inv
<1>2. Types'
    BY <1>1, SaveFacts DEF Types, TypeOK, Records, bounds
<1>3. OperationInv(o)'
    BY <1>1, SaveFacts DEF OperationInv, Fresh, Planned, Carried, KeptEnd, bounds
<1>4. QED
    BY <1>1, <1>2, <1>3, SaveFacts, OneInv DEF Untouched, bounds, Types, TypeOK

LEMMA ExecutingRecord ==
    ASSUME Inv, NEW o \in Operations, worker[o] = "executing", Exists(o)
    PROVE  /\ record[o] \in Record /\ record[o].state \in Underway \cup TERMINAL_STATES
           /\ record[o].sound = TRUE
BY RecordFacts DEF Inv, OperationInv, Carried, Types, TypeOK, Records, Exists

\* What an executor puts on record, the host asked down included.
Staged(o, rec) ==
    /\ rec \in Record /\ rec.sound = TRUE
    /\ \/ rec.state = record[o].state
       \/ record[o].state \in Underway /\ rec.state \in Underway
    /\ rec.stage = "touched" \/ (rec.stage = "down" /\ rec.hostDown = boot)

LEMMA StagedFacts ==
    ASSUME Inv, NEW o \in Operations, Advance(o) \/ AskDown(o)
    PROVE  /\ worker[o] = "executing" /\ Exists(o)
           /\ UNCHANGED <<full, worker, last, planning, request, bounds>>
           /\ \E rec : Staged(o, rec) /\ Save(o, rec)
<1>1. /\ worker[o] = "executing" /\ Exists(o) /\ UNCHANGED <<full, worker, last, planning, request, bounds>>
      /\ boot \in Nat
    BY DEF Advance, AskDown, Inv, Types, TypeOK
<1>2. /\ record[o] \in Record /\ record[o].state \in Underway \cup TERMINAL_STATES /\ record[o].sound = TRUE
    BY <1>1, ExecutingRecord
<1>3. CASE Advance(o)
    <2>1. PICK state \in {record[o].state} \cup (Passing \cap TRANSITIONS(record[o].state)) :
             Save(o, [record[o] EXCEPT !.state = state, !.stage = "touched"])
        BY <1>3 DEF Advance
    <2> DEFINE rec == [record[o] EXCEPT !.state = state, !.stage = "touched"]
    <2>2. \/ state = record[o].state
          \/ state \in Underway /\ record[o].state \in Underway
        BY <1>2, OperationsAssumption, TransitionFacts DEF Underway
    <2>3. state \in States
        BY <1>2, <2>2, StateFacts
    <2>4. rec \in Record /\ rec.state = state /\ rec.sound = TRUE /\ rec.stage = "touched"
        BY <1>2, <2>3 DEF Record, Stages
    <2> HIDE DEF rec
    <2>5. QED
        BY <1>1, <2>1, <2>2, <2>4 DEF Staged, rec
<1>4. CASE AskDown(o)
    <2> DEFINE rec == [record[o] EXCEPT !.stage = "down", !.hostDown = boot]
    <2>1. rec \in Record /\ rec.state = record[o].state /\ rec.sound = TRUE /\ rec.stage = "down" /\ rec.hostDown = boot
        BY <1>1, <1>2 DEF Record, Stages
    <2>2. Save(o, rec)
        BY <1>4 DEF AskDown
    <2> HIDE DEF rec
    <2>3. QED
        BY <1>1, <2>1, <2>2 DEF Staged
<1>5. QED
    BY <1>3, <1>4

LEMMA StageInv ==
    ASSUME Inv, NEW o \in Operations, Advance(o) \/ AskDown(o)
    PROVE  Inv'
<1>1. PICK rec : Staged(o, rec) /\ Save(o, rec)
    BY StagedFacts
<1>2. rec \in Record /\ rec.sound = TRUE /\ rec.state \in Underway \cup TERMINAL_STATES
    BY <1>1, StagedFacts, ExecutingRecord DEF Staged
<1>3. QED
    BY <1>1, <1>2, StagedFacts, StagedInv

LEMMA ExecutorEndsFacts ==
    ASSUME Inv, NEW o \in Operations, ExecutorEnds(o)
    PROVE  /\ worker[o] = "executing" /\ worker' = [worker EXCEPT ![o] = "none"]
           /\ \E end \in Ends : finish(o, end)
           /\ last[o] \in {"none", "looking", "closing"} /\ last' \in {last, [last EXCEPT ![o] = "looking"]}
           /\ UNCHANGED <<full, planning, request, bounds>>
<1>1. PICK end \in ExecutorEndings(o) : finish(o, end)
    BY DEF ExecutorEnds
<1>2. end \in Ends
    BY <1>1, OperationsAssumption DEF ExecutorEndings, Ends, SETTLED_STATES, TERMINAL_STATES
<1>3. QED
    BY <1>1, <1>2 DEF ExecutorEnds, Raises, Inv, Types, TypeOK

LEMMA ExecutorEndsInv ==
    ASSUME Inv, NEW o \in Operations, ExecutorEnds(o)
    PROVE  Inv'
<1>1. PICK end \in Ends : finish(o, end)
    BY ExecutorEndsFacts
<1>2. PICK l \in {"none", "looking", "closing"} : last' = [last EXCEPT ![o] = l]
    BY ExecutorEndsFacts DEF Inv, Types, TypeOK
<1>3. request' \in Requests
    BY ExecutorEndsFacts DEF Inv, Types
<1>4. QED
    BY <1>1, <1>2, <1>3, ExecutorEndsFacts, FinishInv

\* The thread that failed, and nothing on record.
LEMMA ThreadFacts ==
    ASSUME Inv, NEW o \in Operations, ExecutorRaises(o) \/ Looks(o)
    PROVE  /\ UNCHANGED <<record, full, planning, unfinished, unrecorded, request, bounds>>
           /\ worker[o] # "planning" => worker'[o] \in {worker[o], "none"}
           /\ worker[o] = "planning" => worker'[o] = "planning"
           /\ worker' \in [Operations -> {"none", "planning", "executing"}]
           /\ last' \in [Operations -> {"none", "looking", "closing"}]
           /\ last'[o] = "closing" => Blocking(record[o])
           /\ last[o] # "none" \/ worker[o] # "none"
           /\ \A x \in Operations \ {o} : Untouched(x)
<1>1. CASE ExecutorRaises(o)
    BY <1>1 DEF ExecutorRaises, Raises, disk, Inv, Types, TypeOK, Untouched
<1>2. CASE Looks(o)
    BY <1>2 DEF Looks, disk, Inv, Types, TypeOK, Untouched
<1>3. QED
    BY <1>1, <1>2

LEMMA ThreadInv ==
    ASSUME Inv, NEW o \in Operations, ExecutorRaises(o) \/ Looks(o)
    PROVE  Inv'
<1>1. Types /\ OperationInv(o)
    BY DEF Inv
<1>2. Types'
    BY <1>1, ThreadFacts DEF Types, TypeOK, bounds
<1>3. OperationInv(o)'
    BY <1>1, ThreadFacts DEF OperationInv, Fresh, Planned, Carried, KeptEnd, Blocking, bounds
<1>4. QED
    BY <1>2, <1>3, ThreadFacts, OneInv DEF bounds

LEMMA ClosesInv ==
    ASSUME Inv, NEW o \in Operations, Closes(o)
    PROVE  Inv'
<1>1. /\ last[o] = "closing" /\ last' = [last EXCEPT ![o] = "none"] /\ Types /\ OperationInv(o)
      /\ UNCHANGED <<full, worker, planning, request, bounds>> /\ request' \in Requests
      /\ worker' = [worker EXCEPT ![o] = worker[o]]
    BY DEF Closes, Inv, Types, TypeOK
<1>2. CASE Exists(o) /\ CanEnd(o, "failed_terminal")
    <2>1. finish(o, "failed_terminal")
        BY <1>2 DEF Closes
    <2>2. "failed_terminal" \in Ends /\ "failed_terminal" \in TERMINAL_STATES
        BY TransitionFacts DEF TERMINAL_STATES
    <2>3. QED
        BY <1>1, <2>1, <2>2, FinishInv
<1>3. CASE ~ (Exists(o) /\ CanEnd(o, "failed_terminal"))
    <2>1. UNCHANGED <<record, unfinished, unrecorded>>
        BY <1>3 DEF Closes
    <2>2. Types'
        BY <1>1, <2>1 DEF Types, TypeOK, bounds
    <2>3. OperationInv(o)'
        BY <1>1, <2>1 DEF OperationInv, Fresh, Planned, Carried, KeptEnd, Blocking, bounds, Types, TypeOK
    <2>4. QED
        BY <1>1, <2>1, <2>2, <2>3, OneInv DEF Untouched, bounds, Types, TypeOK
<1>4. QED
    BY <1>2, <1>3

\* What a restart makes of every record.
LEMMA RestartFacts ==
    ASSUME Inv, NEW b \in Nat, Restart(b)
    PROVE  /\ record' \in [Operations -> Records] /\ unrecorded' \subseteq Operations
           /\ \A o \in Operations :
                 /\ worker'[o] = "none" /\ last'[o] = "none" /\ unfinished'[o] = "none"
                 /\ o \notin planning'
                 /\ full => record'[o] = record[o] /\ (o \in unrecorded' <=> Blocking(record[o]))
                 /\ ~ full => record'[o] = Recovered(record[o]) /\ o \notin unrecorded'
<1> DEFINE found == {o \in Operations : Exists(o) /\ Recovered(record[o]) # record[o]}
<1>1. \A o \in Operations : record[o] \in Records
    BY DEF Inv, Types, TypeOK, Records
<1>2. \A o \in Operations : o \in found <=> Blocking(record[o])
    BY <1>1, RecoveredFacts, RecordFacts DEF Exists, Blocking
<1>3. \A o \in Operations : o \notin found => Recovered(record[o]) = record[o]
    BY <1>1, RecoveredFacts DEF Exists
<1>4. \A o \in Operations : Recovered(record[o]) \in Records
    BY <1>1, RecoveredFacts
<1>5. /\ full => unrecorded' = found /\ UNCHANGED record
      /\ ~ full => /\ unrecorded' = {}
                   /\ record' = [o \in Operations |-> IF o \in found THEN Recovered(record[o]) ELSE record[o]]
      /\ worker' = [o \in Operations |-> "none"] /\ last' = [o \in Operations |-> "none"]
      /\ planning' = {} /\ unfinished' = [o \in Operations |-> "none"]
    BY DEF Restart
<1> DEFINE closed == [o \in Operations |-> IF o \in found THEN Recovered(record[o]) ELSE record[o]]
<1>6. closed \in [Operations -> Records] /\ \A o \in Operations : closed[o] = Recovered(record[o])
    BY <1>1, <1>3, <1>4
<1>7. record \in [Operations -> Records] /\ found \subseteq Operations
    BY DEF Inv, Types, TypeOK, Records
<1> HIDE DEF found, closed
<1>8. CASE full
    BY <1>2, <1>5, <1>7, <1>8
<1>9. CASE ~ full
    BY <1>5, <1>6, <1>9 DEF closed
<1>10. QED
    BY <1>8, <1>9

LEMMA RestartInv ==
    ASSUME Inv, AgentStops \/ PowerCut \/ HostGoesDown
    PROVE  Inv'
<1>1. boot \in Nat /\ boot # 0 /\ stops \in Nat
    BY DEF Inv, Types, TypeOK
<1>2. PICK b \in Nat : b # 0 /\ Restart(b) /\ stops' \in Nat
    BY <1>1 DEF AgentStops, PowerCut, HostGoesDown
<1>3. /\ boot' = b /\ worker' = [o \in Operations |-> "none"] /\ planning' = {}
      /\ last' = [o \in Operations |-> "none"]
      /\ unfinished' = [o \in Operations |-> "none"]
      /\ request' = [t \in Submitters |-> NoRequest] /\ UNCHANGED <<full, created, fills>>
    BY <1>2 DEF Restart
<1>4. request' \in Requests
    BY <1>3 DEF Requests
<1>5. Types'
    BY <1>2, <1>3, <1>4, RestartFacts, RequestTypes DEF Inv, Types, TypeOK, Records
<1>6. ASSUME NEW o \in Operations PROVE OperationInv(o)'
    <2>1. OperationInv(o) /\ record[o] \in Records
        BY DEF Inv, Types, TypeOK, Records
    <2>2. Fresh(o)'
        <3>1. CASE o > created
            <4>1. record[o] = NoRecord /\ ~ Blocking(record[o])
                BY <2>1, <3>1 DEF OperationInv, Fresh, Blocking
            <4>2. record'[o] = NoRecord /\ o \notin unrecorded'
                BY <1>2, <4>1, RestartFacts, RecoveredFacts, <2>1
            <4>3. QED
                BY <1>3, <4>2 DEF Fresh
        <3>2. CASE ~ o > created
            BY <1>3, <3>2 DEF Fresh
        <3>3. QED
            BY <3>1, <3>2
    <2>3. QED
        BY <1>2, <2>2, RestartFacts DEF OperationInv, Planned, Carried, KeptEnd
<1>7. QED
    BY <1>5, <1>6 DEF Inv

\* What a create makes of every record that was left open.
LEMMA ClosedFacts ==
    ASSUME Inv, NEW o \in Operations
    PROVE  /\ Closed(o) \in Records
           /\ Closed(o) = NoRecord <=> record[o] = NoRecord
           /\ Blocking(record[o]) /\ (unfinished[o] # "none" \/ o \in unrecorded)
              => Closed(o).state \in SETTLED_STATES
           /\ Blocking(record[o]) /\ unfinished[o] = "none" /\ o \notin unrecorded => Closed(o) = record[o]
           /\ record[o].state \in TERMINAL_STATES \cup {"none"} => Closed(o) = record[o]
           /\ record[o].state = "failed_recoverable"
              => Closed(o) = record[o] \/ Closed(o).state \in TERMINAL_STATES
<1> DEFINE r == record[o]
           u == unfinished[o]
           c == Closed(o)
<1>1. r \in Records /\ u \in Ends \cup {"none"} /\ KeptEnd(o)
    BY DEF Inv, OperationInv, Types, TypeOK, Records
<1>2. CASE u # "none" /\ u \in TRANSITIONS(r.state)
    <2>1. u \in SETTLED_STATES /\ u \in States /\ r \in Record /\ r.state \notin TERMINAL_STATES \cup {"none"}
        BY <1>1, <1>2, TransitionFacts, StateFacts, RecordFacts DEF Ends
    <2>2. c = Ended(r, u)
        BY <1>2 DEF Closed
    <2>3. c \in Record /\ c.state = u
        BY <2>1, <2>2, EndedFacts
    <2>4. r.state = "failed_recoverable" => u \in TERMINAL_STATES
        BY <1>1, <1>2, TransitionFacts
    <2>5. c # NoRecord /\ r # NoRecord
        BY <2>1, <2>3, RecordFacts DEF Records
    <2> HIDE DEF r, u, c
    <2>6. QED
        BY <1>2, <2>1, <2>3, <2>4, <2>5 DEF Records, r, u, c
<1>3. CASE ~ (u # "none" /\ u \in TRANSITIONS(r.state)) /\ u = "none" /\ o \in unrecorded
    <2>1. c = Recovered(r)
        BY <1>3 DEF Closed
    <2>2. r.state = "failed_recoverable" => r.state \in SETTLED_STATES
        BY DEF SETTLED_STATES
    <2>3. r.state \in TERMINAL_STATES => r.state \in SETTLED_STATES
        BY StateFacts
    <2> HIDE DEF r, u, c
    <2>4. QED
        BY <1>1, <1>3, <2>1, <2>2, <2>3, RecoveredFacts DEF r, u, c
<1>4. CASE ~ (u # "none" /\ u \in TRANSITIONS(r.state)) /\ ~ (u = "none" /\ o \in unrecorded)
    <2>1. c = r
        BY <1>4 DEF Closed
    <2>2. Blocking(r) => u = "none" /\ o \notin unrecorded
        BY <1>1, <1>4 DEF KeptEnd
    <2> HIDE DEF r, u, c
    <2>3. QED
        BY <1>1, <2>1, <2>2 DEF r, u, c
<1>5. QED
    BY <1>2, <1>3, <1>4

\* Closing leaves a plan a plan or ends it, and ends for good, if at all, what an
\* executor carries out.
LEMMA ClosedAtWork ==
    ASSUME Inv, NEW o \in Operations
    PROVE  /\ worker[o] = "planning" => Closed(o).state \in {"planned"} \cup TERMINAL_STATES
           /\ worker[o] = "executing" => /\ Closed(o) = record[o] \/ Closed(o).state \in TERMINAL_STATES
                                         /\ Closed(o).sound = record[o].sound
<1> DEFINE r == record[o]
           u == unfinished[o]
<1>1. r \in Records /\ u \in Ends \cup {"none"} /\ OperationInv(o)
    BY DEF Inv, Types, TypeOK, Records
<1>2. CASE u # "none" /\ u \in TRANSITIONS(r.state)
    <2>1. u \in States /\ r \in Record
        BY <1>1, <1>2, TransitionFacts, StateFacts, RecordFacts DEF Ends
    <2>2. Closed(o) = Ended(r, u)
        BY <1>2 DEF Closed
    <2>3. Closed(o).state = u /\ Closed(o).sound = r.sound
        BY <2>1, <2>2, EndedFacts
    <2>4. worker[o] = "planning" => u = "cancelled"
        BY <1>1, <1>2, TransitionFacts DEF OperationInv, Planned
    <2>5. worker[o] = "executing" => u \in TERMINAL_STATES
        BY <1>1, <1>2 DEF OperationInv, Carried
    <2>6. QED
        BY <2>3, <2>4, <2>5 DEF TERMINAL_STATES
<1>3. CASE ~ (u # "none" /\ u \in TRANSITIONS(r.state)) /\ u = "none" /\ o \in unrecorded
    <2>1. Closed(o) = Recovered(r) /\ worker[o] # "executing"
        BY <1>1, <1>3 DEF Closed, OperationInv, Carried
    <2>2. CASE r.state = "planned"
        <3>1. Recovered(r) = Ended(r, "cancelled")
            BY <2>2 DEF Recovered
        <3>2. r \in Record /\ "cancelled" \in States
            BY <1>1, <2>2, RecordFacts DEF States
        <3>3. QED
            BY <2>1, <3>1, <3>2, EndedFacts DEF TERMINAL_STATES
    <2>3. CASE r.state \in TERMINAL_STATES
        BY <1>1, <2>1, <2>3, RecoveredFacts, StateFacts
    <2>4. QED
        BY <1>1, <2>1, <2>2, <2>3 DEF OperationInv, Planned
<1>4. CASE ~ (u # "none" /\ u \in TRANSITIONS(r.state)) /\ ~ (u = "none" /\ o \in unrecorded)
    <2>1. Closed(o) = r
        BY <1>4 DEF Closed
    <2>2. QED
        BY <1>1, <2>1 DEF OperationInv, Planned
<1>5. QED
    BY <1>2, <1>3, <1>4

CreateRefused ==
    /\ record' = [x \in Operations |-> Closed(x)]
    /\ UNCHANGED <<created, worker, planning>>

\* The slot is free once everything left open is closed, and nobody plans.
CreateGranted(o) ==
    /\ o = created + 1 /\ created' = o /\ record'[o] = NewRecord
    /\ worker' = [worker EXCEPT ![o] = "planning"] /\ planning' = planning \cup {o}
    /\ record' \in [Operations -> Records]
    /\ \A x \in Operations \ {o} :
          record'[x] = Closed(x) \/ (record'[x] = NoRecord /\ Closed(x).state \in TERMINAL_STATES)
    /\ \A x \in Operations : ~ Blocking(Closed(x)) /\ worker[x] # "planning"

LEMMA CreateFacts ==
    ASSUME Inv, Create
    PROVE  /\ ~ full /\ boot' = boot /\ UNCHANGED <<full, last, request, stops, fills>>
           /\ unfinished' = [x \in Operations |-> "none"] /\ unrecorded' = {}
           /\ CreateRefused \/ \E o \in Operations : CreateGranted(o)
<1> DEFINE closed == [x \in Operations |-> Closed(x)]
           o == created + 1
<1>1. /\ ~ full /\ boot' = boot /\ UNCHANGED <<full, last, request, stops, fills>>
      /\ unfinished' = [x \in Operations |-> "none"] /\ unrecorded' = {}
    BY DEF Create
<1>2. CASE Active(closed) # {} \/ created = MaxOperations
    BY <1>1, <1>2 DEF Create, CreateRefused
<1>3. CASE ~ (Active(closed) # {} \/ created = MaxOperations)
    <2>1. /\ record' = [Pruned(closed) EXCEPT ![o] = NewRecord] /\ created' = o
          /\ worker' = [worker EXCEPT ![o] = "planning"] /\ planning' = planning \cup {o}
        BY <1>3 DEF Create
    <2>2. o \in Operations
        BY <1>3, OperationsAssumption DEF Inv, Types, TypeOK, Operations
    <2>3. /\ \A x \in Operations : closed[x] = Closed(x)
          /\ \A x \in Operations : Closed(x) \in Records
        BY ClosedFacts
    <2> HIDE DEF closed, o
    <2>4. NewRecord \in Records
        BY DEF NewRecord, Records, Record, States, Stages
    <2>5. \A x \in Operations : \/ Pruned(closed)[x] = Closed(x)
                                \/ Pruned(closed)[x] = NoRecord /\ Closed(x).state \in TERMINAL_STATES
        BY <2>3 DEF Pruned
    <2>6. Pruned(closed) \in [Operations -> Records]
        <3>1. \A x \in Operations : Pruned(closed)[x] \in Records
            BY <2>3, <2>5 DEF Records
        <3>2. QED
            BY <3>1 DEF Pruned
    <2>7. /\ record' \in [Operations -> Records] /\ record'[o] = NewRecord
          /\ \A x \in Operations \ {o} : record'[x] = Pruned(closed)[x]
        BY <2>1, <2>2, <2>4, <2>6
    <2>8. \A x \in Operations : ~ Blocking(Closed(x)) /\ ~ (Closed(x) # NoRecord /\ x \in planning)
        BY <1>3, <2>3 DEF Active
    <2>9. ASSUME NEW x \in Operations PROVE worker[x] # "planning"
        <3> SUFFICES ASSUME worker[x] = "planning" PROVE FALSE
            OBVIOUS
        <3>1. record[x] # NoRecord /\ x \in planning
            BY StateFacts DEF Inv, OperationInv, Planned, NoRecord, TERMINAL_STATES
        <3>2. QED
            BY <2>8, <3>1, ClosedFacts
    <2>10. CreateGranted(o)
        BY <2>1, <2>5, <2>7, <2>8, <2>9 DEF CreateGranted, o
    <2>11. QED
        BY <1>1, <2>2, <2>10
<1>4. QED
    BY <1>2, <1>3

LEMMA CreateInv ==
    ASSUME Inv, Create
    PROVE  Inv'
<1>1. /\ boot' = boot /\ UNCHANGED <<full, last, request, stops, fills>>
      /\ unfinished' = [x \in Operations |-> "none"] /\ unrecorded' = {}
    BY CreateFacts
<1>2. Types /\ \A x \in Operations : OperationInv(x) /\ Closed(x) \in Records
    BY ClosedFacts DEF Inv
<1>3. CASE CreateRefused
    <2>1. Types'
        BY <1>1, <1>2, <1>3 DEF CreateRefused, Types, TypeOK, Records
    <2>2. ASSUME NEW x \in Operations PROVE OperationInv(x)'
        <3>1. record'[x] = Closed(x) /\ worker' = worker /\ planning' = planning /\ created' = created
            BY <1>3 DEF CreateRefused
        <3>2. OperationInv(x) /\ (record[x] = NoRecord <=> Closed(x) = NoRecord)
            BY <1>2, ClosedFacts
        <3>3. Fresh(x)' /\ KeptEnd(x)'
            BY <1>1, <3>1, <3>2 DEF OperationInv, Fresh, KeptEnd
        <3>4. Planned(x)'
            BY <3>1, <3>2, ClosedAtWork DEF OperationInv, Planned
        <3>5. Carried(x)'
            <4> SUFFICES ASSUME worker[x] = "executing" PROVE Carried(x)'
                BY <3>1 DEF Carried
            <4>1. /\ Closed(x) = record[x] \/ Closed(x).state \in TERMINAL_STATES
                  /\ Closed(x).sound = record[x].sound
                BY ClosedAtWork
            <4>2. record[x] = NoRecord => Closed(x).state = "none"
                BY <3>2 DEF NoRecord
            <4>3. record[x] # NoRecord => record[x].sound = TRUE
                BY <1>2, RecordFacts DEF OperationInv, Carried, Types, TypeOK, Records
            <4>4. QED
                BY <1>1, <3>1, <3>2, <4>1, <4>2, <4>3 DEF OperationInv, Carried
        <3>6. QED
            BY <3>3, <3>4, <3>5 DEF OperationInv
    <2>3. QED
        BY <2>1, <2>2 DEF Inv
<1>4. ASSUME NEW o \in Operations, CreateGranted(o) PROVE Inv'
    <2>1. Types'
        BY <1>1, <1>2, <1>4, OperationsAssumption DEF CreateGranted, Types, TypeOK, Records, Operations
    <2>2. NewRecord # NoRecord /\ NewRecord.state = "planned"
        BY DEF NewRecord, NoRecord
    <2>3. OperationInv(o)'
        BY <1>1, <1>2, <1>4, <2>2
           DEF CreateGranted, OperationInv, Fresh, Planned, Carried, KeptEnd, Types, TypeOK
    <2>4. ASSUME NEW x \in Operations \ {o} PROVE OperationInv(x)'
        <3>1. /\ worker'[x] = worker[x] /\ worker[x] # "planning" /\ last' = last
              /\ x \in planning' <=> x \in planning
              /\ record'[x] \in {Closed(x), NoRecord}
            BY <1>1, <1>2, <1>4 DEF CreateGranted, Types, TypeOK
        <3>2. OperationInv(x) /\ (record[x] = NoRecord <=> Closed(x) = NoRecord)
            BY <1>2, ClosedFacts
        <3>3. x > created' => x > created
            BY <1>2, <1>4 DEF CreateGranted, Types, TypeOK, Operations
        <3>4. Fresh(x)' /\ Planned(x)' /\ KeptEnd(x)'
            BY <1>1, <3>1, <3>2, <3>3 DEF OperationInv, Fresh, Planned, KeptEnd
        <3>5. Carried(x)'
            <4> SUFFICES ASSUME worker[x] = "executing" PROVE Carried(x)'
                BY <3>1 DEF Carried
            <4>1. NoRecord.state = "none"
                BY DEF NoRecord
            <4>2. /\ Closed(x) = record[x] \/ Closed(x).state \in TERMINAL_STATES
                  /\ Closed(x).sound = record[x].sound
                BY ClosedAtWork
            <4>3. record[x] # NoRecord => record[x].sound = TRUE
                BY <1>2, RecordFacts DEF OperationInv, Carried, Types, TypeOK, Records
            <4>4. QED
                BY <1>1, <3>1, <3>2, <4>1, <4>2, <4>3 DEF OperationInv, Carried
        <3>6. QED
            BY <3>4, <3>5 DEF OperationInv
    <2>5. QED
        BY <2>1, <2>3, <2>4 DEF Inv
<1>5. QED
    BY <1>3, <1>4, CreateFacts

LEMMA NextInv == Inv /\ [Next]_vars => Inv'
BY QuietInv, CreateInv, RestartInv, PlanShownInv, PlanAbandonedInv, PlanDiscardedInv, CancelInv,
   StageInv, ExecutorEndsInv, ThreadInv, ClosesInv, RefuseInv, ExecuteInv DEF Next

LEMMA Invariance == Spec => []Inv
BY InitInv, NextInv, PTL DEF Spec

\* Every record is one the store could have written (OperationStore).
THEOREM TypeCorrect == Spec => []TypeOK
BY Invariance, PTL DEF Inv, Types

-----------------------------------------------------------------------------
(***************************************************************************)
(* The history.  Every step but create, start and restart moves at most    *)
(* one operation on (Moves), which is a step of MutationSlot and gives     *)
(* nobody the slot.                                                        *)
(***************************************************************************)

\* One operation, strays apart, is open or has a planner.
Holding(o) == Blocking(record[o]) \/ worker[o] = "planning"
Alone == \A x, y \in Operations \ stray : Holding(x) /\ Holding(y) => x = y

\* Nobody has ended what is executed, unless it is a stray.
Owned(o) ==
    o \notin stray /\ worker[o] = "executing" => record[o].state \in Underway /\ unfinished[o] = "none"

\* A stray has been executed.
StrayRan(o) ==
    o \in stray => /\ record[o].state \notin {"planned", "awaiting_confirmation"}
                   /\ worker[o] # "planning" /\ ~ o > created

\* Recovering it ends it for good, in this boot and in every later one.
EndsForGood(r) ==
    \/ r = NoRecord
    \/ r.state \in TERMINAL_STATES
    \/ r.state \in Underway /\ (r.stage = "touched" \/ (r.hostDown # 0 /\ r.hostDown < boot))

Interruptions == halfMade \cup wentDown

StoppedForGood(o) ==
    o \in Interruptions =>
        /\ worker[o] = "none" /\ ~ o > created
        /\ unfinished[o] \in TERMINAL_STATES \cup {"none"}
        /\ EndsForGood(record[o])

\* A record that asks the host down names the boot it asked in.
BootNamed(o) ==
    worker[o] = "executing" /\ record[o].stage = "down" => record[o].hostDown # 0 /\ record[o].hostDown <= boot

\* Who may still end a failure for good: the thread that found it open, or
\* somebody who found it unsound.
Contest(o) ==
    record[o].state = "failed_recoverable" =>
        /\ last[o] = "closing" => o \in contested
        /\ unfinished[o] = "failed_terminal" => o \in contested \/ ~ record[o].sound

HistoryInv(o) ==
    /\ Owned(o) /\ StrayRan(o) /\ StoppedForGood(o) /\ BootNamed(o)
    /\ asked[o] = unfinished[o] /\ Contest(o)

HInv ==
    /\ Inv /\ Alone
    /\ stray \subseteq Operations /\ Interruptions \subseteq Operations
    /\ \A o \in Operations : HistoryInv(o)

\* What the action properties say of one operation and one step.
NotRun(o) == o \in Interruptions /\ worker[o] = "none" => worker'[o] # "executing"
EndWritten(o) ==
    record'[o].state # record[o].state /\ record'[o].state \in SETTLED_STATES =>
       /\ asked[o] # "none" => record'[o].state = asked[o] \/ stops' # stops
       /\ record[o].state = "failed_recoverable" /\ record'[o].state = "failed_terminal" =>
             o \in contested \/ ~ record[o].sound

HistoryStep(o) == HistoryInv(o)' /\ NotRun(o) /\ EndWritten(o)

LEMMA RememberedFacts ==
    ASSUME Remembered, NEW o \in Operations
    PROVE  /\ asked'[o] = IF unfinished'[o] = "none" \/ asked[o] = "none" THEN unfinished'[o] ELSE asked[o]
           /\ Blocking(record[o]) => (o \in contested' <=>
                 ~ Blocking(record'[o]) /\ last[o] = "closing" /\ last'[o] = "closing")
           /\ ~ Blocking(record[o]) => (o \in contested' <=> o \in contested)
BY DEF Remembered

\* An end, written or kept: the first one asked for, for good unless an executor
\* chose it, and of a failure only as Contest says.
Ending(o, e) ==
    /\ e \in Ends /\ e \in TRANSITIONS(record[o].state) /\ record[o] \in Record
    /\ unfinished[o] # "none" => e = unfinished[o]
    /\ full => /\ record'[o] = record[o] /\ unfinished'[o] = e
               /\ o \in unrecorded' <=> o \in unrecorded
    /\ ~ full => /\ record'[o] = Ended(record[o], e)
                 /\ unfinished'[o] = "none" /\ o \notin unrecorded'
    /\ worker'[o] = "executing" => o \in stray'
    /\ worker[o] = "none" /\ unfinished[o] = "none" => e \in TERMINAL_STATES
    /\ e = "failed_terminal" /\ record[o].state = "failed_recoverable" => o \in contested \/ ~ record[o].sound
    /\ last'[o] = "closing" => last[o] = "closing"

Kept(o) ==
    /\ record'[o] = record[o] /\ unfinished'[o] = unfinished[o]
    /\ o \in unrecorded' <=> o \in unrecorded
    /\ last'[o] = "closing" => last[o] = "closing" \/ Blocking(record[o])

Staging(o) ==
    /\ worker[o] = "executing" /\ record[o] # NoRecord /\ Staged(o, record'[o])
    /\ unfinished'[o] = "none" /\ o \notin unrecorded'

Showing(o) ==
    /\ record[o].state = "planned" /\ worker[o] = "planning"
    /\ record'[o].state = "awaiting_confirmation" /\ unfinished'[o] = "none"

Discarding(o) ==
    /\ record[o].state = "planned" /\ worker[o] = "planning"
    /\ record'[o] = NoRecord /\ unfinished'[o] = unfinished[o]

Moves(o) ==
    /\ UNCHANGED <<created, boot>>
    /\ \A x \in Operations \ {o} : Untouched(x)
    /\ worker'[o] \in {worker[o], "none"}
    /\ Kept(o) \/ (\E e : Ending(o, e)) \/ Staging(o) \/ Showing(o) \/ Discarding(o)

LEMMA EndingFacts ==
    ASSUME NEW o \in Operations, NEW e, Ending(o, e)
    PROVE  /\ e \in States /\ e \in SETTLED_STATES
           /\ record[o] # NoRecord /\ record[o].state \notin TERMINAL_STATES
           /\ record'[o] \in Record
           /\ ~ full => /\ record'[o].state = e /\ record'[o].stage = "ended" /\ ~ Blocking(record'[o])
           /\ full => record'[o] = record[o]
<1>1. e \in States /\ e \in SETTLED_STATES
    BY StateFacts DEF Ending, Ends
<1>2. record[o].state \notin TERMINAL_STATES /\ record[o] \in Record
    BY TransitionFacts DEF Ending
<1>3. record[o] # NoRecord
    BY <1>2, RecordFacts DEF Records
<1>4. Ended(record[o], e) \in Record /\ Ended(record[o], e).state = e /\ Ended(record[o], e).stage = "ended"
    BY <1>1, <1>2, EndedFacts
<1>5. QED
    BY <1>1, <1>2, <1>3, <1>4 DEF Ending, Blocking

\* The end that finish asks for.
LEMMA FinishEnding ==
    ASSUME Inv, NEW o \in Operations, NEW end \in Ends, finish(o, end),
           worker'[o] = "executing" => o \in stray',
           worker[o] = "none" => end \in TERMINAL_STATES,
           record[o].state = "failed_recoverable" /\ (unfinished[o] = "failed_terminal" \/ end = "failed_terminal")
              => o \in contested \/ ~ record[o].sound,
           last'[o] = "closing" => last[o] = "closing"
    PROVE  Ending(o, EndOf(o, end))
<1> DEFINE e == EndOf(o, end)
<1>1. Types
    BY DEF Inv
<1>2. e = unfinished[o] \/ (unfinished[o] = "none" /\ e = end)
    BY DEF EndOf
<1>3. /\ e \in Ends /\ e \in TRANSITIONS(record[o].state) /\ record[o] \in Record
      /\ full => /\ record'[o] = record[o] /\ unfinished'[o] = e
                 /\ o \in unrecorded' <=> o \in unrecorded
      /\ ~ full => /\ record'[o] = Ended(record[o], e)
                   /\ unfinished'[o] = "none" /\ o \notin unrecorded'
    BY <1>1, FinishFacts
<1> HIDE DEF e
<1>4. QED
    BY <1>2, <1>3, TransitionFacts DEF Ending, e

LEMMA PlannerMoves ==
    ASSUME HInv, NEW o \in Operations, PlanShown(o) \/ PlanAbandoned(o) \/ PlanDiscarded(o)
    PROVE  Moves(o)
<1>1. /\ Inv /\ Types /\ worker[o] = "planning" /\ record[o] \in Record /\ OperationInv(o)
      /\ record[o].state \in {"planned"} \cup TERMINAL_STATES
    BY PlannerRecord DEF HInv, Inv, PlanShown, PlanAbandoned, PlanDiscarded
<1>2. /\ UNCHANGED <<full, last, created, boot>> /\ worker' = [worker EXCEPT ![o] = "none"]
      /\ planning' = planning \ {o} /\ worker'[o] = "none"
    BY <1>1 DEF PlanShown, PlanAbandoned, PlanDiscarded, PlannerLeaves, bounds, Types, TypeOK
<1>3. CASE PlanShown(o)
    <2>1. PICK sound, blocked \in BOOLEAN :
             Save(o, [record[o] EXCEPT !.state = "awaiting_confirmation", !.sound = sound, !.blocked = blocked])
        BY <1>3 DEF PlanShown
    <2> DEFINE rec == [record[o] EXCEPT !.state = "awaiting_confirmation", !.sound = sound, !.blocked = blocked]
    <2>2. rec \in Record /\ rec.state = "awaiting_confirmation"
        BY <1>1 DEF Record, States
    <2>3. Save(o, rec) /\ record[o].state = "planned"
        BY <1>3, <2>1 DEF PlanShown
    <2> HIDE DEF rec
    <2>4. Showing(o) /\ \A x \in Operations \ {o} : Untouched(x)
        BY <1>1, <1>2, <2>2, <2>3, SaveFacts DEF Showing, Untouched, Types, TypeOK
    <2>5. QED
        BY <1>2, <2>4 DEF Moves
<1>4. CASE PlanAbandoned(o) /\ Exists(o) /\ ~ Terminal(o) /\ ~ full
    <2> DEFINE rec == Ended(record[o], "cancelled")
    <2>1. rec \in Record
        BY <1>1, EndedFacts DEF States
    <2>2. Save(o, rec) /\ record[o].state = "planned"
        BY <1>1, <1>4 DEF PlanAbandoned, abandon, Terminal
    <2>3. Blocking(record[o])
        BY <1>1, <2>2, RecordFacts DEF Records, States, SETTLED_STATES, TERMINAL_STATES
    <2>4. unfinished[o] # "none" => unfinished[o] = "cancelled"
        BY <1>1, <2>2, <2>3, TransitionFacts DEF OperationInv, KeptEnd, Types, TypeOK
    <2>5. "cancelled" \in Ends /\ "cancelled" \in TRANSITIONS(record[o].state) /\ "cancelled" \in TERMINAL_STATES
        BY <2>2, TransitionFacts DEF TERMINAL_STATES
    <2> HIDE DEF rec
    <2>6. Ending(o, "cancelled") /\ \A x \in Operations \ {o} : Untouched(x)
        BY <1>1, <1>2, <1>4, <2>1, <2>2, <2>4, <2>5, SaveFacts DEF Ending, Untouched, Types, TypeOK, rec
    <2>7. QED
        BY <1>2, <2>6 DEF Moves
<1>5. CASE PlanAbandoned(o) /\ ~ (Exists(o) /\ ~ Terminal(o) /\ ~ full)
    <2>1. UNCHANGED <<record, unfinished, unrecorded>>
        BY <1>5 DEF PlanAbandoned, abandon
    <2>2. Kept(o) /\ \A x \in Operations \ {o} : Untouched(x)
        BY <1>1, <1>2, <2>1 DEF Kept, Untouched, Types, TypeOK
    <2>3. QED
        BY <1>2, <2>2 DEF Moves
<1>6. CASE PlanDiscarded(o)
    <2>1. /\ record' = [record EXCEPT ![o] = NoRecord] /\ UNCHANGED <<unfinished, unrecorded>>
          /\ record[o].state = "planned"
        BY <1>6 DEF PlanDiscarded
    <2>2. Discarding(o) /\ \A x \in Operations \ {o} : Untouched(x)
        BY <1>1, <1>2, <2>1 DEF Discarding, Untouched, Types, TypeOK
    <2>3. QED
        BY <1>2, <2>2 DEF Moves
<1>7. QED
    BY <1>3, <1>4, <1>5, <1>6

LEMMA ExecutorMoves ==
    ASSUME HInv, NEW o \in Operations,
           Advance(o) \/ AskDown(o) \/ ExecutorEnds(o) \/ ExecutorRaises(o) \/ Looks(o)
    PROVE  Moves(o)
<1>1. Inv /\ Types /\ OperationInv(o)
    BY DEF HInv, Inv
<1>2. CASE Advance(o) \/ AskDown(o)
    <2>1. PICK rec : Staged(o, rec) /\ Save(o, rec)
        BY <1>1, <1>2, StagedFacts
    <2>2. rec \in Record
        BY <2>1 DEF Staged
    <2>3. Staging(o) /\ \A x \in Operations \ {o} : Untouched(x)
        BY <1>1, <1>2, <2>1, <2>2, SaveFacts, StagedFacts DEF Staging, Untouched, Exists
    <2>4. QED
        BY <1>1, <1>2, <2>3, StagedFacts DEF Moves, bounds
<1>3. CASE ExecutorEnds(o)
    <2>1. PICK end \in Ends : finish(o, end)
        BY <1>1, <1>3, ExecutorEndsFacts
    <2>2. /\ worker[o] = "executing" /\ worker'[o] = "none" /\ last'[o] \in {last[o], "looking"}
          /\ UNCHANGED <<full, planning, created, boot>>
          /\ \A x \in Operations \ {o} : worker'[x] = worker[x] /\ last'[x] = last[x]
        BY <1>1, <1>3, ExecutorEndsFacts DEF bounds, Types, TypeOK
    <2>3. record[o].state # "failed_recoverable"
        BY <1>1, <2>2 DEF OperationInv, Carried, Underway, TERMINAL_STATES
    <2>4. Ending(o, EndOf(o, end))
        BY <1>1, <2>1, <2>2, <2>3, FinishEnding
    <2>5. \A x \in Operations \ {o} : Untouched(x)
        BY <1>1, <2>1, <2>2, FinishFacts DEF Untouched
    <2>6. QED
        BY <2>2, <2>4, <2>5 DEF Moves
<1>4. CASE ExecutorRaises(o) \/ Looks(o)
    <2>1. Kept(o) /\ worker'[o] \in {worker[o], "none"}
        BY <1>1, <1>4, ThreadFacts DEF Kept
    <2>2. QED
        BY <1>1, <1>4, <2>1, ThreadFacts DEF Moves, bounds
<1>5. QED
    BY <1>2, <1>3, <1>4

\* An end asked for by somebody else than the executor at work.
LEMMA OtherMoves ==
    ASSUME HInv, NEW o \in Operations, NEW end \in TERMINAL_STATES, finish(o, end),
           UNCHANGED <<full, worker, planning, created, boot>>,
           last' = last \/ last' = [last EXCEPT ![o] = "none"],
           worker[o] = "executing" => o \in stray',
           record[o].state = "failed_recoverable" /\ end = "failed_terminal" => o \in contested \/ ~ record[o].sound
    PROVE  Moves(o)
<1>1. Inv /\ Types /\ Contest(o) /\ end \in Ends
    BY StateFacts DEF HInv, Inv, HistoryInv, Ends
<1>2. last'[o] \in {last[o], "none"} /\ \A x \in Operations \ {o} : last'[x] = last[x]
    BY <1>1 DEF Types, TypeOK
<1>3. Ending(o, EndOf(o, end))
    BY <1>1, <1>2, FinishEnding DEF Contest
<1>4. \A x \in Operations \ {o} : Untouched(x)
    BY <1>1, <1>2, FinishFacts DEF Untouched
<1>5. QED
    BY <1>3, <1>4 DEF Moves

LEMMA CancelMoves ==
    ASSUME HInv, NEW o \in Operations, Cancel(o), stray' = stray
    PROVE  Moves(o)
<1>1. finish(o, "cancelled") /\ UNCHANGED <<full, worker, last, planning, created, boot>>
    BY DEF Cancel, bounds
<1>2. "cancelled" \in TERMINAL_STATES
    BY DEF TERMINAL_STATES
<1>3. worker[o] = "executing" => o \in stray
    BY <1>1, TransitionFacts DEF HInv, HistoryInv, Owned, finish, CanEnd, EndOf
<1>4. QED
    BY <1>1, <1>2, <1>3, OtherMoves

LEMMA RefuseMoves ==
    ASSUME HInv, NEW t \in Submitters, Refuse(t), stray' = stray
    PROVE  \/ \E o \in Operations : Moves(o)
           \/ UNCHANGED <<record, worker, last, planning, unfinished, unrecorded, created, boot, stops>>
<1>1. request[t] # NoRequest /\ UNCHANGED <<full, worker, last, planning, created, boot, stops>>
    BY DEF Refuse, bounds
<1>2. PICK o \in Operations : o = request[t].op
    BY <1>1 DEF HInv, Inv, Types, Requests
<1>3. CASE finish(o, "failed_terminal") /\ ~ record[o].sound /\ Exists(o)
    <2>1. worker[o] # "executing"
        BY <1>3, ExecutingRecord DEF HInv
    <2>2. "failed_terminal" \in TERMINAL_STATES
        BY DEF TERMINAL_STATES
    <2>3. Moves(o)
        BY <1>1, <1>3, <2>1, <2>2, OtherMoves
    <2>4. QED
        BY <2>3
<1>4. CASE UNCHANGED <<record, unfinished, unrecorded>>
    BY <1>1, <1>4
<1>5. QED
    BY <1>2, <1>3, <1>4 DEF Refuse

LEMMA ClosesMoves ==
    ASSUME HInv, NEW o \in Operations, Closes(o), Disowned(o)
    PROVE  Moves(o)
<1>1. /\ last[o] = "closing" /\ last' = [last EXCEPT ![o] = "none"]
      /\ UNCHANGED <<full, worker, planning, created, boot>>
      /\ worker[o] = "executing" => o \in stray'
    BY DEF Closes, Disowned, bounds
<1>2. CASE Exists(o) /\ CanEnd(o, "failed_terminal")
    <2>1. finish(o, "failed_terminal") /\ "failed_terminal" \in TERMINAL_STATES
        BY <1>2 DEF Closes, TERMINAL_STATES
    <2>2. record[o].state = "failed_recoverable" => o \in contested
        BY <1>1 DEF HInv, HistoryInv, Contest
    <2>3. QED
        BY <1>1, <2>1, <2>2, OtherMoves
<1>3. CASE ~ (Exists(o) /\ CanEnd(o, "failed_terminal"))
    <2>1. UNCHANGED <<record, unfinished, unrecorded>>
        BY <1>3 DEF Closes
    <2>2. Kept(o) /\ \A x \in Operations \ {o} : Untouched(x)
        BY <1>1, <2>1 DEF Kept, Untouched, HInv, Inv, Types, TypeOK
    <2>3. QED
        BY <1>1, <2>2 DEF Moves
<1>4. QED
    BY <1>2, <1>3
-----------------------------------------------------------------------------
(***************************************************************************)
(* What is said of one operation, through the steps that move one on.      *)
(***************************************************************************)

LEMMA HistoryUntouched ==
    ASSUME NEW x \in Operations, HistoryInv(x), Untouched(x), boot' = boot, Remembered,
           x \in Interruptions' <=> x \in Interruptions, x \in stray' <=> x \in stray,
           x > created' => x > created
    PROVE  HistoryStep(x)
<1>1. Owned(x)' /\ StrayRan(x)' /\ BootNamed(x)'
    BY DEF HistoryInv, Owned, StrayRan, BootNamed, Untouched
<1>2. StoppedForGood(x)'
    BY DEF HistoryInv, StoppedForGood, Untouched, EndsForGood
<1>3. asked'[x] = unfinished'[x] /\ Contest(x)'
    BY RememberedFacts DEF HistoryInv, Contest, Untouched, Blocking, SETTLED_STATES
<1>4. NotRun(x) /\ EndWritten(x)
    BY DEF Untouched, NotRun, EndWritten
<1>5. QED
    BY <1>1, <1>2, <1>3, <1>4 DEF HistoryStep, HistoryInv

LEMMA MovesHistory ==
    ASSUME HInv, Inv', NEW o \in Operations, Moves(o), Remembered, UNCHANGED interruptions,
           stray' = stray \/ (stray' = stray \cup {o} /\ worker[o] = "executing")
    PROVE  HistoryStep(o)
<1>1. /\ Inv /\ Types /\ OperationInv(o) /\ HistoryInv(o) /\ record[o] \in Records /\ boot' = boot
      /\ worker'[o] \in {worker[o], "none"} /\ ~ (o > created' /\ ~ o > created)
      /\ Interruptions' = Interruptions /\ boot \in Nat /\ boot # 0
      /\ o \in stray => o \in stray'
    BY DEF HInv, Inv, Moves, interruptions, Interruptions, Types, TypeOK, Records
<1>2. Kept(o) \/ (\E e : Ending(o, e)) \/ Staging(o) \/ Showing(o) \/ Discarding(o)
    BY DEF Moves
<1>3. NoRecord.state = "none" /\ NoRecord.stage = "untouched"
    BY DEF NoRecord
<1>4. Staging(o) => /\ record'[o] \in Record /\ unfinished'[o] = "none"
                    /\ record'[o].state \in Underway \cup TERMINAL_STATES
                    /\ record[o].state \in Underway => record'[o].state \in Underway
                    /\ record[o].state \in TERMINAL_STATES => record'[o].state = record[o].state
    BY <1>1, ExecutingRecord DEF Staging, Staged, Exists, Underway, TERMINAL_STATES
<1>5. Owned(o)'
    <2> SUFFICES ASSUME o \notin stray', worker'[o] = "executing"
                 PROVE  record'[o].state \in Underway /\ unfinished'[o] = "none"
        BY DEF Owned
    <2>1. worker[o] = "executing" /\ record[o].state \in Underway /\ unfinished[o] = "none"
        BY <1>1 DEF HistoryInv, Owned
    <2>2. ~ \E e : Ending(o, e)
        BY DEF Ending
    <2>3. QED
        BY <1>2, <1>4, <2>1, <2>2 DEF Kept, Showing, Discarding
<1>6. StrayRan(o)'
    <2> SUFFICES ASSUME o \in stray' PROVE StrayRan(o)'
        BY DEF StrayRan
    <2>1. /\ record[o].state \notin {"planned", "awaiting_confirmation"} /\ worker[o] # "planning" /\ ~ o > created
        <3>1. CASE o \in stray
            BY <1>1, <3>1 DEF HistoryInv, StrayRan
        <3>2. CASE o \notin stray
            BY <1>1, <3>2 DEF HistoryInv, Owned, Underway, OperationInv, Fresh
        <3>3. QED
            BY <3>1, <3>2
    <2>2. record'[o].state \notin {"planned", "awaiting_confirmation"}
        <3>1. ASSUME NEW e, Ending(o, e) PROVE record'[o].state \notin {"planned", "awaiting_confirmation"}
            BY <2>1, <3>1, EndingFacts DEF SETTLED_STATES, TERMINAL_STATES
        <3>2. QED
            BY <1>2, <1>4, <2>1, <3>1 DEF Kept, Showing, Discarding, Underway, TERMINAL_STATES
    <2>3. QED
        BY <1>1, <2>1, <2>2 DEF StrayRan
<1>7. StoppedForGood(o)' /\ NotRun(o)
    <2> SUFFICES ASSUME o \in Interruptions PROVE StoppedForGood(o)' /\ worker'[o] = "none"
        BY <1>1 DEF StoppedForGood, NotRun
    <2>1. /\ worker[o] = "none" /\ ~ o > created /\ EndsForGood(record[o])
          /\ unfinished[o] \in TERMINAL_STATES \cup {"none"} /\ worker'[o] = "none"
        BY <1>1 DEF HistoryInv, StoppedForGood
    <2>2. CASE Kept(o)
        BY <1>1, <2>1, <2>2 DEF StoppedForGood, Kept, EndsForGood
    <2>3. ASSUME NEW e, Ending(o, e) PROVE StoppedForGood(o)'
        <3>1. e \in TERMINAL_STATES
            BY <2>1, <2>3 DEF Ending
        <3>2. CASE full
            BY <1>1, <2>1, <2>3, <3>1, <3>2 DEF StoppedForGood, Ending, EndsForGood
        <3>3. CASE ~ full
            BY <1>1, <2>1, <2>3, <3>1, <3>3, EndingFacts DEF StoppedForGood, Ending, EndsForGood
        <3>4. QED
            BY <3>2, <3>3
    <2>4. QED
        BY <1>2, <2>1, <2>2, <2>3 DEF Staging, Showing, Discarding
<1>8. BootNamed(o)'
    <2> SUFFICES ASSUME worker'[o] = "executing", record'[o].stage = "down"
                 PROVE  record'[o].hostDown # 0 /\ record'[o].hostDown <= boot'
        BY DEF BootNamed
    <2>1. worker[o] = "executing"
        BY <1>1
    <2>2. CASE record'[o] = record[o]
        BY <1>1, <2>1, <2>2 DEF HistoryInv, BootNamed
    <2>3. CASE Staging(o)
        BY <1>1, <2>3 DEF Staging, Staged
    <2>4. ASSUME NEW e, Ending(o, e) PROVE record'[o] = record[o]
        BY <2>4, EndingFacts
    <2>5. QED
        BY <1>2, <2>1, <2>2, <2>3, <2>4 DEF Kept, Showing, Discarding
<1>9. asked'[o] = unfinished'[o]
    BY <1>1, <1>2, RememberedFacts DEF HistoryInv, Kept, Ending, Staging, Showing, Discarding
<1>10. Contest(o)'
    <2> SUFFICES ASSUME record'[o].state = "failed_recoverable"
                 PROVE  /\ last'[o] = "closing" => o \in contested'
                        /\ unfinished'[o] = "failed_terminal" => o \in contested' \/ ~ record'[o].sound
        BY DEF Contest
    <2>1. ~ Blocking(record'[o])
        BY DEF Blocking, SETTLED_STATES
    <2>2. CASE Kept(o)
        BY <1>1, <2>1, <2>2, RememberedFacts DEF Kept, HistoryInv, Contest, Blocking
    <2>3. ASSUME NEW e, Ending(o, e)
          PROVE  /\ last'[o] = "closing" => o \in contested'
                 /\ unfinished'[o] = "failed_terminal" => o \in contested' \/ ~ record'[o].sound
        <3>1. CASE full
            <4>1. record'[o] = record[o] /\ unfinished'[o] = e /\ (last'[o] = "closing" => last[o] = "closing")
                BY <2>3, <3>1 DEF Ending
            <4>2. o \in contested' <=> o \in contested
                BY <2>1, <4>1, RememberedFacts DEF Blocking
            <4>3. QED
                BY <1>1, <2>3, <4>1, <4>2 DEF Ending, HistoryInv, Contest
        <3>2. CASE ~ full
            <4>1. e = "failed_recoverable" /\ unfinished'[o] = "none" /\ (last'[o] = "closing" => last[o] = "closing")
                BY <2>3, <3>2, EndingFacts DEF Ending
            <4>2. record[o].state # "failed_recoverable"
                BY <2>3, <4>1, TransitionFacts, StateFacts DEF Ending
            <4>3. Blocking(record[o])
                BY <1>1, <2>3, <4>2, EndingFacts, StateFacts DEF Blocking
            <4>4. QED
                BY <2>1, <4>1, <4>3, RememberedFacts
        <3>3. QED
            BY <3>1, <3>2
    <2>4. ~ Staging(o) /\ ~ Showing(o) /\ ~ Discarding(o)
        BY <1>3, <1>4 DEF Showing, Discarding, Underway, TERMINAL_STATES
    <2>5. QED
        BY <1>2, <2>2, <2>3, <2>4
<1>11. EndWritten(o)
    <2> SUFFICES ASSUME record'[o].state # record[o].state, record'[o].state \in SETTLED_STATES
                 PROVE  /\ asked[o] # "none" => record'[o].state = asked[o]
                        /\ record[o].state = "failed_recoverable" /\ record'[o].state = "failed_terminal" =>
                              o \in contested \/ ~ record[o].sound
        BY DEF EndWritten
    <2>1. ~ Kept(o) /\ ~ Showing(o) /\ ~ Discarding(o)
        BY <1>3 DEF Kept, Showing, Discarding, SETTLED_STATES, TERMINAL_STATES
    <2>2. ~ Staging(o)
        BY <1>1, <1>4, ExecutingRecord, StateFacts DEF Staging, Exists
    <2>3. PICK e : Ending(o, e)
        BY <1>2, <2>1, <2>2
    <2>4. record'[o].state = e
        BY <2>3, EndingFacts
    <2>5. QED
        BY <1>1, <2>3, <2>4 DEF Ending, HistoryInv
<1>12. QED
    BY <1>5, <1>6, <1>7, <1>8, <1>9, <1>10, <1>11 DEF HistoryStep, HistoryInv

\* It is enough to look at the operation a step is about.
LEMMA MovesAll ==
    ASSUME HInv, Inv', NEW o \in Operations, Moves(o), Remembered, UNCHANGED interruptions,
           stray' = stray \/ (stray' = stray \cup {o} /\ worker[o] = "executing")
    PROVE  \A x \in Operations : HistoryStep(x)
<1>1. ASSUME NEW x \in Operations, x # o PROVE HistoryStep(x)
    <2>1. /\ HistoryInv(x) /\ Untouched(x) /\ boot' = boot /\ (x \in stray' <=> x \in stray)
          /\ Interruptions' = Interruptions /\ created' = created
        BY <1>1 DEF HInv, Moves, interruptions, Interruptions
    <2>2. QED
        BY <2>1, HistoryUntouched
<1>2. QED
    BY <1>1, MovesHistory
-----------------------------------------------------------------------------
(***************************************************************************)
(* The slot.                                                               *)
(***************************************************************************)
Phase == [o \in Operations |-> SlotPhase(o)]
SlotStep == Slot!Next \/ UNCHANGED <<Phase, AtWork, stray>>

LEMMA PhaseFacts ==
    ASSUME NEW o \in Operations, record[o] \in Records
    PROVE  /\ SlotPhase(o) \in {"none", "held", "ending", "settled", "ended"}
           /\ SlotPhase(o) \in {"held", "ending"} <=> Blocking(record[o])
           /\ SlotPhase(o) = "settled" <=> record[o].state = "failed_recoverable"
           /\ record[o].state \in TERMINAL_STATES => SlotPhase(o) = "ended"
           /\ record[o] # NoRecord => SlotPhase(o) # "none"
           /\ SlotPhase(o) = "ending" <=> Blocking(record[o]) /\ (unfinished[o] # "none" \/ o \in unrecorded)
<1>1. CASE record[o] = NoRecord
    BY <1>1 DEF SlotPhase, Blocking, NoRecord, TERMINAL_STATES
<1>2. CASE record[o] # NoRecord
    BY <1>2, RecordFacts, StateFacts DEF SlotPhase, SETTLED_STATES
<1>3. QED
    BY <1>1, <1>2

LEMMA PhaseFactsNext ==
    ASSUME NEW o \in Operations, record'[o] \in Records
    PROVE  /\ SlotPhase(o)' \in {"none", "held", "ending", "settled", "ended"}
           /\ SlotPhase(o)' \in {"held", "ending"} <=> Blocking(record'[o])
           /\ SlotPhase(o)' = "settled" <=> record'[o].state = "failed_recoverable"
           /\ record'[o].state \in TERMINAL_STATES => SlotPhase(o)' = "ended"
           /\ record'[o] # NoRecord => SlotPhase(o)' # "none"
           /\ SlotPhase(o)' = "ending" <=> Blocking(record'[o]) /\ (unfinished'[o] # "none" \/ o \in unrecorded')
<1>1. CASE record'[o] = NoRecord
    BY <1>1 DEF SlotPhase, Blocking, NoRecord, TERMINAL_STATES
<1>2. CASE record'[o] # NoRecord
    BY <1>2, RecordFacts, StateFacts DEF SlotPhase, SETTLED_STATES
<1>3. QED
    BY <1>1, <1>2

\* What a step does to the phase of the operation it moves on.
LEMMA MovesPhase ==
    ASSUME HInv, Inv', NEW o \in Operations, Moves(o)
    PROVE  /\ \/ SlotPhase(o)' = SlotPhase(o)
              \/ SlotPhase(o) \in {"held", "ending"} /\ SlotPhase(o)' \in {"held", "ending", "settled", "ended"}
              \/ SlotPhase(o) = "settled" /\ SlotPhase(o)' = "ended"
           /\ Blocking(record'[o]) => Blocking(record[o])
<1>1. Inv /\ record[o] \in Records /\ record'[o] \in Records /\ created' = created /\ OperationInv(o)
    BY DEF HInv, Inv, Types, TypeOK, Records, Moves
<1>2. ~ Blocking(record[o]) => /\ record'[o].state = record[o].state \/ record[o].state = "failed_recoverable"
                               /\ record'[o] = NoRecord <=> record[o] = NoRecord
                               /\ \/ record'[o].state = record[o].state
                                  \/ record'[o].state \in TERMINAL_STATES
    <2> SUFFICES ASSUME ~ Blocking(record[o])
                 PROVE  /\ record'[o].state = record[o].state \/ record[o].state = "failed_recoverable"
                        /\ record'[o] = NoRecord <=> record[o] = NoRecord
                        /\ record'[o].state = record[o].state \/ record'[o].state \in TERMINAL_STATES
        OBVIOUS
    <2>1. record[o].state \in SETTLED_STATES \cup {"none"}
        BY <1>1, RecordFacts
    <2>2. ASSUME NEW e, Ending(o, e)
          PROVE  /\ record[o].state = "failed_recoverable" /\ record'[o] # NoRecord /\ record[o] # NoRecord
                 /\ record'[o].state = record[o].state \/ record'[o].state \in TERMINAL_STATES
        <3>1. record[o].state = "failed_recoverable" /\ record[o] # NoRecord /\ record'[o] # NoRecord
            BY <1>1, <2>1, <2>2, EndingFacts, StateFacts, RecordFacts DEF Records
        <3>2. e \in TERMINAL_STATES
            BY <2>2, <3>1, TransitionFacts DEF Ending
        <3>3. QED
            BY <2>2, <3>1, <3>2, EndingFacts
    <2>3. CASE Staging(o)
        <3>1. record[o].state \notin Underway /\ record'[o].state = record[o].state
            BY <2>1, <2>3, StateFacts DEF Staging, Staged, Underway
        <3>2. QED
            BY <1>1, <3>1, RecordFacts
    <2>4. ~ Showing(o) /\ ~ Discarding(o)
        BY <2>1 DEF Showing, Discarding, SETTLED_STATES, TERMINAL_STATES
    <2>5. QED
        BY <2>2, <2>3, <2>4 DEF Moves, Kept
<1>3. CASE ~ Blocking(record[o])
    <2>1. ~ Blocking(record'[o])
        BY <1>1, <1>2, <1>3, RecordFacts, StateFacts
    <2>2. CASE record'[o].state = record[o].state
        BY <1>1, <1>2, <1>3, <2>2 DEF SlotPhase, Blocking, SETTLED_STATES
    <2>3. CASE record'[o].state # record[o].state
        BY <1>1, <1>2, <1>3, <2>3, PhaseFacts, PhaseFactsNext
    <2>4. QED
        BY <2>1, <2>2, <2>3
<1>4. CASE Blocking(record[o])
    <2>1. o <= created
        BY <1>1, <1>4 DEF OperationInv, Fresh, Blocking, Inv, Types, TypeOK, Operations
    <2>2. SlotPhase(o)' # "none"
        BY <1>1, <2>1 DEF SlotPhase
    <2>3. QED
        BY <1>1, <1>4, <2>2, PhaseFacts, PhaseFactsNext
<1>5. QED
    BY <1>3, <1>4

LEMMA MovesRest ==
    ASSUME HInv, Inv', NEW o \in Operations, Moves(o), stray \subseteq stray'
    PROVE  /\ Phase' = [Phase EXCEPT ![o] = SlotPhase(o)'] /\ Phase[o] = SlotPhase(o)
           /\ AtWork' \in {AtWork, AtWork \ {o}}
           /\ Alone'
<1>1. \A x \in Operations \ {o} : SlotPhase(x)' = SlotPhase(x)
    BY DEF Moves, Untouched, SlotPhase
<1>2. AtWork' \in {AtWork, AtWork \ {o}}
    <2>1. \A x \in Operations \ {o} : x \in AtWork' <=> x \in AtWork
        BY DEF Moves, Untouched, AtWork
    <2>2. o \in AtWork' => o \in AtWork
        BY DEF Moves, AtWork
    <2>3. AtWork \subseteq Operations /\ AtWork' \subseteq Operations
        BY DEF AtWork
    <2>4. QED
        BY <2>1, <2>2, <2>3
<1>3. ASSUME NEW x \in Operations, Holding(x)' PROVE Holding(x)
    <2>1. CASE x # o
        BY <1>3, <2>1 DEF Moves, Untouched, Holding, Blocking
    <2>2. CASE x = o
        BY <1>3, <2>2, MovesPhase DEF Holding, Moves
    <2>3. QED
        BY <2>1, <2>2
<1>4. Alone'
    BY <1>3 DEF Alone, HInv
<1>5. QED
    BY <1>1, <1>2, <1>4 DEF Phase

LEMMA MovesSlot ==
    ASSUME HInv, Inv', NEW o \in Operations, Moves(o), stray' = stray
    PROVE  Alone' /\ SlotStep
<1>1. /\ Phase' = [Phase EXCEPT ![o] = SlotPhase(o)'] /\ Phase[o] = SlotPhase(o)
      /\ AtWork' \in {AtWork, AtWork \ {o}} /\ Alone'
    BY MovesRest
<1>2. CASE SlotPhase(o)' = SlotPhase(o)
    <2>1. Phase' = Phase
        BY <1>1, <1>2 DEF Phase
    <2>2. CASE AtWork' = AtWork
        BY <1>1, <2>1, <2>2 DEF SlotStep
    <2>3. CASE AtWork' = AtWork \ {o}
        <3>1. Slot!Leave(o)
            BY <2>1, <2>3 DEF Slot!Leave, Phase
        <3>2. QED
            BY <1>1, <3>1 DEF SlotStep, Slot!Next
    <2>4. QED
        BY <1>1, <2>2, <2>3
<1>3. CASE SlotPhase(o) \in {"held", "ending"} /\ SlotPhase(o)' \in {"held", "ending", "settled", "ended"}
    <2>1. Slot!End(o)
        BY <1>1, <1>3 DEF Slot!End, Slot!HasSlot, Phase
    <2>2. QED
        BY <1>1, <2>1 DEF SlotStep, Slot!Next
<1>4. CASE SlotPhase(o) = "settled" /\ SlotPhase(o)' = "ended"
    <2>1. Slot!GiveUp(o)
        BY <1>1, <1>4 DEF Slot!GiveUp, Phase
    <2>2. QED
        BY <1>1, <2>1 DEF SlotStep, Slot!Next
<1>5. QED
    BY <1>2, <1>3, <1>4, MovesPhase

\* A thread that failed at an earlier run ends the one at work: the operation is
\* a stray from here on.
LEMMA ClosesSlot ==
    ASSUME HInv, Inv', NEW o \in Operations, Closes(o), Disowned(o)
    PROVE  Alone' /\ SlotStep
<1>1. CASE worker[o] # "executing" \/ o \in stray
    <2>1. stray' = stray
        BY <1>1 DEF Disowned, HInv
    <2>2. QED
        BY <2>1, ClosesMoves, MovesSlot
<1>2. CASE worker[o] = "executing" /\ o \notin stray
    <2>1. /\ Inv /\ Types /\ record[o].state \in Underway /\ unfinished[o] = "none" /\ worker' = worker
          /\ record[o] \in Records /\ record'[o] \in Records
          /\ stray' = stray \cup {o}
        BY <1>2 DEF HInv, Inv, HistoryInv, Owned, Types, TypeOK, Records, Closes, Disowned
    <2>2. Blocking(record[o]) /\ Exists(o)
        BY <2>1, RecordFacts, StateFacts DEF Exists, Blocking
    <2>3. EndOf(o, "failed_terminal") = "failed_terminal" /\ CanEnd(o, "failed_terminal")
        BY <2>1, TransitionFacts DEF EndOf, CanEnd
    <2>4. finish(o, "failed_terminal") /\ "failed_terminal" \in Ends
        BY <2>2, <2>3, TransitionFacts DEF Closes
    <2>5. /\ Phase' = [Phase EXCEPT ![o] = SlotPhase(o)'] /\ Phase[o] = SlotPhase(o) /\ Alone'
        BY <2>1, ClosesMoves, MovesRest
    <2>6. SlotPhase(o)' \in {"ending", "ended"}
        <3>1. CASE full
            <4>1. record'[o] = record[o] /\ unfinished'[o] = "failed_terminal"
                BY <2>1, <2>3, <2>4, <3>1, FinishFacts
            <4>2. QED
                BY <2>1, <2>2, <4>1, PhaseFactsNext
        <3>2. CASE ~ full
            <4>1. record'[o].state = "failed_terminal"
                BY <2>1, <2>3, <2>4, <3>2, FinishFacts
            <4>2. QED
                BY <2>1, <4>1, PhaseFactsNext DEF TERMINAL_STATES
        <3>3. QED
            BY <3>1, <3>2
    <2>7. SlotPhase(o) \in {"held", "ending"} /\ o \in AtWork /\ AtWork' = AtWork
        BY <1>2, <2>1, <2>2, PhaseFacts DEF AtWork
    <2>8. Slot!Disown(o)
        BY <2>1, <2>5, <2>6, <2>7 DEF Slot!Disown, Slot!HasSlot, Phase
    <2>9. QED
        BY <2>5, <2>8 DEF SlotStep, Slot!Next
<1>3. QED
    BY <1>1, <1>2

\* Nothing of the store changes.
LEMMA StoreUnchanged ==
    ASSUME HInv, UNCHANGED <<record, worker, last, planning, unfinished, unrecorded, created, boot, stops>>,
           stray' = stray, Remembered, UNCHANGED interruptions
    PROVE  Alone' /\ SlotStep /\ \A x \in Operations : HistoryStep(x)
<1>1. Alone' /\ SlotStep
    BY DEF HInv, Alone, Holding, Blocking, SlotStep, Phase, SlotPhase, AtWork
<1>2. ASSUME NEW x \in Operations PROVE HistoryStep(x)
    <2>1. HistoryInv(x) /\ Untouched(x) /\ Interruptions' = Interruptions
        BY DEF HInv, Untouched, interruptions, Interruptions
    <2>2. QED
        BY <2>1, HistoryUntouched
<1>3. QED
    BY <1>1, <1>2

\* Whoever is at work and no stray has the slot.
LEMMA WorkHolds ==
    ASSUME HInv, NEW x \in AtWork \ stray
    PROVE  /\ x \in Operations /\ Holding(x)
           /\ worker[x] = "executing" => Blocking(record[x])
<1>1. x \in Operations /\ worker[x] \in {"planning", "executing"} /\ record[x] \in Records /\ HistoryInv(x)
    BY DEF AtWork, HInv, Inv, Types, TypeOK, Records
<1>2. worker[x] = "executing" => Blocking(record[x])
    BY <1>1, RecordFacts, StateFacts DEF HistoryInv, Owned
<1>3. QED
    BY <1>1, <1>2 DEF Holding
-----------------------------------------------------------------------------
(***************************************************************************)
(* Starts, restarts and creates.                                           *)
(***************************************************************************)

LEMMA ExecuteHistory ==
    ASSUME HInv, Inv', NEW t \in Submitters, Execute(t), Started(t), Remembered, UNCHANGED interruptions
    PROVE  \A x \in Operations : HistoryStep(x)
<1>1. PICK o \in Operations : o = request[t].op
    BY DEF HInv, Inv, Types, Requests, Execute
<1>2. /\ Inv /\ HistoryInv(o) /\ OperationInv(o)
      /\ worker[o] = "none" /\ record[o] \in Record
      /\ record[o].state \in {"awaiting_confirmation", "failed_recoverable"}
    BY <1>1, StartedFacts DEF HInv, Inv
<1>3. /\ record'[o].state = "running" /\ record'[o].stage = "untouched"
      /\ unfinished'[o] = "none" /\ o \notin unrecorded' /\ worker'[o] # "planning"
      /\ \A x \in Operations \ {o} : Untouched(x)
      /\ UNCHANGED <<created, boot>> /\ Interruptions' = Interruptions
    BY <1>1, <1>2, ExecuteFacts, BegunFacts DEF bounds, interruptions, Interruptions
<1>4. ASSUME NEW x \in Operations, x # o PROVE HistoryStep(x)
    <2>1. HistoryInv(x) /\ Untouched(x) /\ (x \in stray' <=> x \in stray)
        BY <1>1, <1>3, <1>4 DEF HInv, Started
    <2>2. QED
        BY <1>3, <2>1, HistoryUntouched
<1>5. o \notin Interruptions
    BY <1>2 DEF HistoryInv, StoppedForGood, EndsForGood, Underway, TERMINAL_STATES, NoRecord
<1>6. ~ o > created
    BY <1>2, RecordFacts DEF OperationInv, Fresh, Records
<1>7. HistoryStep(o)
    <2>1. Owned(o)' /\ StrayRan(o)' /\ StoppedForGood(o)' /\ BootNamed(o)' /\ Contest(o)'
        BY <1>3, <1>5, <1>6 DEF Owned, StrayRan, StoppedForGood, BootNamed, Contest, Underway
    <2>2. asked'[o] = unfinished'[o]
        BY <1>3, RememberedFacts
    <2>3. NotRun(o) /\ EndWritten(o)
        BY <1>3, <1>5 DEF NotRun, EndWritten, SETTLED_STATES, TERMINAL_STATES
    <2>4. QED
        BY <2>1, <2>2, <2>3 DEF HistoryStep, HistoryInv
<1>8. QED
    BY <1>4, <1>7

\* A plan and a retry get the slot only when no other has it; a confirmation that
\* was overtaken makes a stray.
LEMMA ExecuteSlot ==
    ASSUME HInv, Inv', NEW t \in Submitters, Execute(t), Started(t)
    PROVE  Alone' /\ SlotStep
<1>1. PICK o \in Operations : o = request[t].op
    BY DEF HInv, Inv, Types, Requests, Execute
<1>2. /\ Inv /\ HistoryInv(o) /\ OperationInv(o)
      /\ worker[o] = "none" /\ record[o] \in Record /\ record[o] \in Records
      /\ record[o].state \in {"awaiting_confirmation", "failed_recoverable"}
    BY <1>1, StartedFacts DEF HInv, Inv, Records
<1>3. /\ record'[o].state = "running" /\ unfinished'[o] = "none" /\ o \notin unrecorded'
      /\ \A x \in Operations \ {o} : Untouched(x)
      /\ worker'[o] # "planning" /\ created' = created /\ record'[o] \in Records
    BY <1>1, <1>2, ExecuteFacts, BegunFacts DEF bounds, Records
<1>4. SlotPhase(o)' = "held"
    BY <1>3, PhaseFactsNext, RecordFacts DEF States, SETTLED_STATES, TERMINAL_STATES
<1>5. Phase' = [Phase EXCEPT ![o] = "held"] /\ Phase[o] = SlotPhase(o)
    <2>1. \A x \in Operations \ {o} : SlotPhase(x)' = SlotPhase(x)
        BY <1>3 DEF Untouched, SlotPhase
    <2>2. QED
        BY <1>4, <2>1 DEF Phase
<1>6. AtWork' \in {AtWork, AtWork \cup {o}}
    <2>1. \A x \in Operations \ {o} : x \in AtWork' <=> x \in AtWork
        BY <1>3 DEF AtWork, Untouched
    <2>2. AtWork \subseteq Operations /\ AtWork' \subseteq Operations /\ o \notin AtWork
        BY <1>2 DEF AtWork
    <2>3. QED
        BY <2>1, <2>2
<1>7. \A x \in Operations \ {o} : Holding(x)' <=> Holding(x)
    BY <1>3 DEF Holding, Untouched, Blocking
<1>8. \A x \in Operations : SlotPhase(x) \in {"held", "ending"} => Holding(x)
    BY <1>2, PhaseFacts DEF Holding, Inv, Types, TypeOK, Records
<1>9. CASE Overtakes(t)
    <2>1. stray' = stray \cup {o} /\ SlotPhase(o) = "settled"
        BY <1>1, <1>2, <1>9, PhaseFacts DEF Started, Overtakes
    <2>2. Alone'
        BY <1>7, <2>1 DEF Alone, HInv
    <2>3. Slot!Overtake(o)
        BY <1>5, <1>6, <2>1 DEF Slot!Overtake, Phase
    <2>4. QED
        BY <2>2, <2>3 DEF SlotStep, Slot!Next
<1>10. CASE ~ Overtakes(t) /\ record[o].state = "awaiting_confirmation"
    <2>1. o \notin stray /\ stray' = stray
        BY <1>1, <1>2, <1>10 DEF HistoryInv, StrayRan, Started
    <2>2. Blocking(record[o])
        BY <1>2, <1>10, RecordFacts DEF States, SETTLED_STATES, TERMINAL_STATES
    <2>3. ASSUME NEW x \in Operations \ stray, Holding(x) PROVE x = o
        BY <2>1, <2>2, <2>3 DEF HInv, Alone, Holding
    <2>4. Alone'
        BY <1>7, <2>1, <2>3 DEF Alone
    <2>5. AtWork \subseteq stray
        BY <1>2, <2>3, WorkHolds DEF AtWork
    <2>6. SlotPhase(o) \in {"held", "ending"}
        BY <1>2, <2>2, PhaseFacts
    <2>7. \A x \in Operations \ ({o} \cup stray) : Phase[x] \notin {"held", "ending"}
        BY <1>8, <2>3 DEF Phase
    <2>8. Slot!Begin(o)
        BY <1>5, <1>6, <2>1, <2>5, <2>6, <2>7 DEF Slot!Begin, Slot!HasSlot, Phase
    <2>9. QED
        BY <2>4, <2>8 DEF SlotStep, Slot!Next
<1>11. CASE ~ Overtakes(t) /\ record[o].state = "failed_recoverable"
    <2>1. stray' = stray \ {o} /\ Active(record) \subseteq {o}
        BY <1>1, <1>11 DEF Started, Overtakes, Execute, MayRun
    <2>2. ASSUME NEW x \in Operations, Holding(x) PROVE x = o
        <3>1. record[x] # NoRecord /\ (Blocking(record[x]) \/ x \in planning)
            BY <1>2, <2>2, PlannerRecord, RecordFacts DEF Holding, Blocking, Inv, OperationInv, Planned, Records
        <3>2. x \in Active(record)
            BY <3>1 DEF Active
        <3>3. QED
            BY <2>1, <3>2
    <2>3. Alone'
        BY <1>7, <2>2 DEF Alone
    <2>4. AtWork \subseteq stray
        BY <1>2, <2>2, WorkHolds DEF AtWork
    <2>5. SlotPhase(o) = "settled"
        BY <1>2, <1>11, PhaseFacts
    <2>6. \A x \in Operations \ {o} : Phase[x] \notin {"held", "ending"}
        BY <1>8, <2>2 DEF Phase
    <2>7. Slot!Again(o)
        BY <1>5, <1>6, <2>1, <2>4, <2>5, <2>6 DEF Slot!Again, Slot!HasSlot, Phase
    <2>8. QED
        BY <2>3, <2>7 DEF SlotStep, Slot!Next
<1>12. QED
    BY <1>2, <1>9, <1>10, <1>11

\* A restart leaves no thread, and ends or marks whatever had the slot.
LEMMA RestartSlot ==
    ASSUME HInv, Inv', AgentStops \/ PowerCut \/ HostGoesDown, stray' = stray
    PROVE  Alone' /\ SlotStep
<1>0. Inv
    BY DEF HInv
<1>1. PICK b \in Nat : Restart(b)
    BY <1>0 DEF AgentStops, PowerCut, HostGoesDown, Inv, Types, TypeOK
<1>2. created' = created
    BY <1>1 DEF Restart
<1>3. \A o \in Operations : record[o] \in Records /\ record'[o] \in Records
    BY <1>0 DEF Inv, Types, TypeOK, Records
<1>4. ASSUME NEW o \in Operations PROVE Blocking(record'[o]) => Blocking(record[o])
    <2>1. CASE full
        BY <1>0, <1>1, <2>1, RestartFacts
    <2>2. CASE ~ full
        <3>1. record'[o] = Recovered(record[o])
            BY <1>0, <1>1, <2>2, RestartFacts
        <3>2. Blocking(record[o]) => ~ Blocking(record'[o])
            BY <1>3, <3>1, RecoveredFacts DEF Blocking
        <3>3. ~ Blocking(record[o]) => record'[o] = record[o]
            BY <1>3, <3>1, RecoveredFacts, RecordFacts DEF Blocking
        <3>4. QED
            BY <3>2, <3>3
    <2>3. QED
        BY <2>1, <2>2
<1>5. Alone'
    <2>1. \A o \in Operations : Holding(o)' => Holding(o)
        BY <1>0, <1>1, <1>4, RestartFacts DEF Holding
    <2>2. QED
        BY <2>1 DEF Alone, HInv
<1>6. ASSUME NEW o \in Operations
      PROVE  IF SlotPhase(o) \in {"held", "ending"}
             THEN SlotPhase(o)' \in {"ending", "settled", "ended"} ELSE SlotPhase(o)' = SlotPhase(o)
    <2>1. CASE Blocking(record[o])
        <3>1. record'[o] # NoRecord
            BY <1>0, <1>1, <1>3, <2>1, RestartFacts, RecoveredFacts DEF Blocking
        <3>2. Blocking(record'[o]) => o \in unrecorded'
            BY <1>0, <1>1, <1>3, <2>1, RestartFacts, RecoveredFacts DEF Blocking
        <3>3. QED
            BY <1>3, <2>1, <3>1, <3>2, PhaseFacts, PhaseFactsNext
    <2>2. CASE ~ Blocking(record[o])
        <3>1. record'[o] = record[o]
            BY <1>0, <1>1, <1>3, <2>2, RestartFacts, RecoveredFacts, RecordFacts DEF Blocking
        <3>2. record[o] # NoRecord => record[o].state \in SETTLED_STATES
            BY <2>2 DEF Blocking
        <3>3. SlotPhase(o)' = SlotPhase(o)
            BY <1>2, <3>1, <3>2, StateFacts DEF SlotPhase
        <3>4. QED
            BY <1>3, <2>2, <3>3, PhaseFacts
    <2>3. QED
        BY <2>1, <2>2
<1>7. Slot!Stop
    <2>1. AtWork' = {}
        BY <1>0, <1>1, RestartFacts DEF AtWork
    <2>2. Phase' \in [Operations -> {"none", "held", "ending", "settled", "ended"}]
        BY <1>3, PhaseFactsNext DEF Phase
    <2>3. \A o \in Operations : Phase[o] = SlotPhase(o) /\ Phase'[o] = SlotPhase(o)'
        BY DEF Phase
    <2>4. QED
        BY <1>6, <2>1, <2>2, <2>3 DEF Slot!Stop, Slot!HasSlot, Slot!Phases, Phase
<1>8. QED
    BY <1>5, <1>7 DEF SlotStep, Slot!Next

LEMMA RecoveredForGood ==
    ASSUME NEW r \in Record, r.state \in Underway,
           r.stage = "touched" \/ (r.hostDown # 0 /\ r.hostDown # boot')
    PROVE  Recovered(r).state \in TERMINAL_STATES
<1>1. Recovered(r) = Ended(r, "succeeded") \/ Recovered(r) = Ended(r, "manual_action_required")
    BY DEF Recovered, Underway
<1>2. "succeeded" \in States /\ "manual_action_required" \in States
    BY DEF States
<1>3. Recovered(r).state \in {"succeeded", "manual_action_required"}
    BY <1>1, <1>2, EndedFacts
<1>4. QED
    BY <1>3 DEF TERMINAL_STATES

LEMMA EndsForGoodFacts ==
    ASSUME NEW r \in Records, EndsForGood(r)
    PROVE  boot' \in Nat /\ boot \in Nat /\ boot <= boot' =>
              Recovered(r) = NoRecord \/ Recovered(r).state \in TERMINAL_STATES
<1>1. CASE r = NoRecord \/ r.state \in TERMINAL_STATES
    <2>1. r.state \in TERMINAL_STATES \cup {"none"}
        BY <1>1, RecordFacts
    <2>2. Recovered(r) = r
        BY <2>1, RecoveredFacts, StateFacts
    <2>3. QED
        BY <1>1, <2>2
<1>2. CASE r.state \in Underway /\ (r.stage = "touched" \/ (r.hostDown # 0 /\ r.hostDown < boot))
    <2>1. r \in Record /\ r.hostDown \in Nat
        BY <1>2, RecordFacts, StateFacts DEF Record
    <2>2. ASSUME boot' \in Nat, boot \in Nat, boot <= boot' PROVE Recovered(r).state \in TERMINAL_STATES
        <3>1. r.hostDown < boot => r.hostDown # boot'
            BY <2>1, <2>2
        <3>2. QED
            BY <1>2, <2>1, <3>1, RecoveredForGood
    <2>3. QED
        BY <2>2
<1>3. QED
    BY <1>1, <1>2 DEF EndsForGood

\* What a restart interrupts is ended for good, at once or when there is room.
LEMMA RestartHistory ==
    ASSUME HInv, Inv', AgentStops \/ PowerCut \/ HostGoesDown, Interrupted, stray' = stray, Remembered
    PROVE  /\ \A x \in Operations : HistoryStep(x)
           /\ Interruptions' \subseteq Operations
<1>1. Inv /\ boot \in Nat /\ stops \in Nat
    BY DEF HInv, Inv, Types, TypeOK
<1>2. PICK b \in Nat : b \in {boot, boot + 1} /\ Restart(b)
    BY <1>1 DEF AgentStops, PowerCut, HostGoesDown
<1>3. boot' = b /\ created' = created /\ boot' \in Nat /\ boot <= boot' /\ (boot' # boot => boot < boot')
    BY <1>1, <1>2 DEF Restart
<1>4. stops' # stops
    BY <1>1 DEF AgentStops, PowerCut, HostGoesDown
<1>5. ASSUME NEW x \in Operations PROVE HistoryStep(x)
    <2>1. /\ worker'[x] = "none" /\ last'[x] = "none" /\ unfinished'[x] = "none" /\ asked'[x] = "none"
          /\ record[x] \in Records /\ HistoryInv(x) /\ OperationInv(x)
          /\ full => record'[x] = record[x]
          /\ ~ full => record'[x] = Recovered(record[x])
        BY <1>1, <1>2, RestartFacts, RememberedFacts DEF HInv, Inv, Types, TypeOK, Records
    <2>2. ASSUME x \in Interruptions' PROVE ~ x > created /\ EndsForGood(record[x])'
        <3>1. CASE x \in Interruptions
            <4>1. ~ x > created /\ EndsForGood(record[x])
                BY <2>1, <3>1 DEF HistoryInv, StoppedForGood
            <4>2. Recovered(record[x]) = NoRecord \/ Recovered(record[x]).state \in TERMINAL_STATES
                BY <1>1, <1>3, <2>1, <4>1, EndsForGoodFacts
            <4>3. CASE ~ full
                BY <2>1, <4>1, <4>2, <4>3 DEF EndsForGood
            <4>4. CASE full
                <5>1. record[x].state \in Underway => record[x].hostDown \in Nat
                    BY <2>1, RecordFacts, StateFacts DEF Record
                <5>2. QED
                    BY <1>1, <1>3, <2>1, <4>1, <4>4, <5>1 DEF EndsForGood
            <4>5. QED
                BY <4>3, <4>4
        <3>2. CASE x \notin Interruptions
            <4>1. /\ worker[x] = "executing"
                  /\ record[x].stage = "touched" \/ (record[x].stage = "down" /\ boot' # boot)
                BY <2>2, <3>2 DEF Interruptions, Interrupted
            <4>2. record[x] \in Record /\ Exists(x)
                BY <2>1, <4>1 DEF Records, NoRecord, Exists
            <4>3. /\ record[x].state \in Underway \cup TERMINAL_STATES /\ record[x].hostDown \in Nat
                  /\ ~ x > created
                BY <1>1, <2>1, <4>1, <4>2, ExecutingRecord DEF Record, OperationInv, Fresh
            <4>4. record[x].stage = "touched" \/ (record[x].hostDown # 0 /\ record[x].hostDown < boot')
                BY <1>1, <1>3, <2>1, <4>1, <4>3 DEF HistoryInv, BootNamed
            <4>5. record[x].hostDown < boot' => record[x].hostDown # boot'
                BY <1>3, <4>3
            <4>6. CASE full
                BY <2>1, <4>3, <4>4, <4>6 DEF EndsForGood
            <4>7. CASE ~ full /\ record[x].state \in Underway
                <5>1. Recovered(record[x]).state \in TERMINAL_STATES
                    BY <4>2, <4>4, <4>5, <4>7, RecoveredForGood
                <5>2. QED
                    BY <2>1, <4>3, <4>7, <5>1 DEF EndsForGood
            <4>8. CASE ~ full /\ record[x].state \in TERMINAL_STATES
                <5>1. Recovered(record[x]) = record[x]
                    BY <2>1, <4>8, RecoveredFacts, StateFacts
                <5>2. QED
                    BY <2>1, <4>3, <4>8, <5>1 DEF EndsForGood
            <4>9. QED
                BY <4>3, <4>6, <4>7, <4>8
        <3>3. QED
            BY <3>1, <3>2
    <2>3. Owned(x)' /\ BootNamed(x)' /\ StoppedForGood(x)' /\ Contest(x)'
        BY <1>3, <2>1, <2>2 DEF Owned, BootNamed, StoppedForGood, Contest
    <2>4. StrayRan(x)'
        <3>1. record[x].state \notin {"planned", "awaiting_confirmation"}
              => Recovered(record[x]).state \notin {"planned", "awaiting_confirmation"}
            BY <2>1, RecoveredFacts, RecordFacts, StateFacts
               DEF SETTLED_STATES, TERMINAL_STATES
        <3>2. QED
            BY <1>3, <2>1, <3>1 DEF HistoryInv, StrayRan
    <2>5. QED
        BY <1>4, <2>1, <2>3, <2>4, RecoveredFacts
           DEF HistoryStep, HistoryInv, NotRun, EndWritten, SETTLED_STATES
<1>6. Interruptions' \subseteq Operations
    BY DEF HInv, Interruptions, Interrupted
<1>7. QED
    BY <1>5, <1>6
\* What a create makes of one operation: it ends with what was asked for first, or
\* as a restart would have ended it; and what was stopped half way ends for good.
LEMMA ClosedEnding ==
    ASSUME HInv, NEW x \in Operations, boot' = boot
    PROVE  /\ unfinished[x] # "none" /\ Closed(x).state # record[x].state => Closed(x).state = unfinished[x]
           /\ unfinished[x] = "none" /\ record[x].state = "failed_recoverable" => Closed(x) = record[x]
           /\ x \in Interruptions => \/ Closed(x) = record[x] \/ Closed(x) = NoRecord
                                     \/ Closed(x).state \in TERMINAL_STATES
<1>1. /\ Inv /\ record[x] \in Records /\ unfinished[x] \in Ends \cup {"none"} /\ HistoryInv(x)
      /\ boot \in Nat
    BY DEF HInv, Inv, Types, TypeOK, Records
<1>2. CASE unfinished[x] # "none" /\ unfinished[x] \in TRANSITIONS(record[x].state)
    <2>1. Closed(x) = Ended(record[x], unfinished[x])
        BY <1>2 DEF Closed
    <2>2. record[x] \in Record /\ unfinished[x] \in States
        BY <1>1, <1>2, RecordFacts, TransitionFacts, StateFacts DEF Ends
    <2>3. Closed(x).state = unfinished[x]
        BY <2>1, <2>2, EndedFacts
    <2>4. x \in Interruptions => unfinished[x] \in TERMINAL_STATES
        BY <1>1, <1>2 DEF HistoryInv, StoppedForGood
    <2>5. QED
        BY <1>2, <2>3, <2>4
<1>3. CASE unfinished[x] = "none" /\ x \in unrecorded
    <2>1. Closed(x) = Recovered(record[x])
        BY <1>3 DEF Closed
    <2>2. x \in Interruptions => Recovered(record[x]) = NoRecord \/ Recovered(record[x]).state \in TERMINAL_STATES
        BY <1>1, EndsForGoodFacts DEF HistoryInv, StoppedForGood
    <2>3. record[x].state = "failed_recoverable" => Recovered(record[x]) = record[x]
        BY <1>1, RecoveredFacts DEF SETTLED_STATES
    <2>4. QED
        BY <1>3, <2>1, <2>2, <2>3
<1>4. CASE /\ ~ (unfinished[x] # "none" /\ unfinished[x] \in TRANSITIONS(record[x].state))
           /\ ~ (unfinished[x] = "none" /\ x \in unrecorded)
    <2>1. Closed(x) = record[x]
        BY <1>4 DEF Closed
    <2>2. QED
        BY <2>1
<1>5. QED
    BY <1>2, <1>3, <1>4

\* One operation other than the one created.
LEMMA CreateOther ==
    ASSUME HInv, Inv', Create, stray' = stray, Remembered, UNCHANGED interruptions,
           NEW x \in Operations, x > created' <=> x > created, worker'[x] = worker[x],
           record'[x] = Closed(x) \/ (record'[x] = NoRecord /\ Closed(x).state \in TERMINAL_STATES)
    PROVE  HistoryStep(x)
<1>1. /\ Inv /\ HistoryInv(x) /\ record[x] \in Records /\ Closed(x) \in Records
      /\ boot' = boot /\ last'[x] = last[x] /\ unfinished'[x] = "none"
      /\ Interruptions' = Interruptions /\ asked'[x] = "none"
    BY CreateFacts, ClosedFacts, RememberedFacts
       DEF HInv, Inv, Types, TypeOK, Records, interruptions, Interruptions
<1>2. NoRecord.state = "none" /\ NoRecord.stage = "untouched"
    BY DEF NoRecord
<1>3. \/ record[x].state \in TERMINAL_STATES \cup {"none"} /\ Closed(x) = record[x]
      \/ Blocking(record[x])
      \/ record[x].state = "failed_recoverable" /\ ~ Blocking(record[x])
         /\ (Closed(x) = record[x] \/ Closed(x).state \in TERMINAL_STATES)
    <2>1. \/ record[x].state \in TERMINAL_STATES \cup {"none"} \/ Blocking(record[x])
          \/ record[x].state = "failed_recoverable" /\ ~ Blocking(record[x])
        BY <1>1, RecordFacts, StateFacts
    <2>2. QED
        BY <1>1, <2>1, ClosedFacts
<1>4. Owned(x)'
    <2> SUFFICES ASSUME x \notin stray, worker[x] = "executing" PROVE record'[x].state \in Underway
        BY <1>1 DEF Owned
    <2>1. record[x].state \in Underway /\ unfinished[x] = "none" /\ x \notin unrecorded
        BY <1>1 DEF HistoryInv, Owned, Inv, OperationInv, Carried
    <2>2. Closed(x) = record[x]
        BY <2>1, TransitionFacts DEF Closed
    <2>3. QED
        BY <2>1, <2>2, StateFacts
<1>5. StrayRan(x)'
    <2> SUFFICES ASSUME x \in stray PROVE StrayRan(x)'
        BY DEF StrayRan
    <2>1. record[x].state \notin {"planned", "awaiting_confirmation"} /\ worker[x] # "planning" /\ ~ x > created
        BY <1>1 DEF HistoryInv, StrayRan
    <2>2. Blocking(record[x]) => Closed(x) = record[x] \/ Closed(x).state \in SETTLED_STATES
        BY <1>1, ClosedFacts
    <2>3. Closed(x).state \notin {"planned", "awaiting_confirmation"}
        BY <1>3, <2>1, <2>2 DEF SETTLED_STATES, TERMINAL_STATES
    <2>4. QED
        BY <1>2, <2>1, <2>3 DEF StrayRan
<1>6. StoppedForGood(x)' /\ NotRun(x)
    <2> SUFFICES ASSUME x \in Interruptions PROVE StoppedForGood(x)' /\ worker'[x] = "none"
        BY <1>1 DEF StoppedForGood, NotRun
    <2>1. worker[x] = "none" /\ ~ x > created /\ EndsForGood(record[x])
        BY <1>1 DEF HistoryInv, StoppedForGood
    <2>2. record'[x] = record[x] \/ record'[x] = NoRecord \/ record'[x].state \in TERMINAL_STATES
        BY <1>1, ClosedEnding
    <2>3. EndsForGood(record[x])'
        BY <1>1, <2>1, <2>2 DEF EndsForGood
    <2>4. QED
        BY <1>1, <2>1, <2>3 DEF StoppedForGood
<1>7. BootNamed(x)'
    <2> SUFFICES ASSUME worker[x] = "executing", record'[x].stage = "down"
                 PROVE  record'[x] = record[x]
        BY <1>1 DEF BootNamed, HistoryInv
    <2>1. Closed(x) = record[x] \/ Closed(x) = Ended(record[x], unfinished[x])
        BY <1>1 DEF Closed, Inv, OperationInv, Carried
    <2>2. CASE Closed(x) # record[x]
        <3>1. unfinished[x] # "none" /\ unfinished[x] \in TRANSITIONS(record[x].state)
            BY <1>1, <2>2 DEF Closed, Inv, OperationInv, Carried
        <3>2. record[x] \in Record /\ unfinished[x] \in States
            BY <1>1, <3>1, RecordFacts, TransitionFacts, StateFacts DEF Ends, Inv, Types, TypeOK
        <3>3. Closed(x).stage = "ended"
            BY <2>1, <2>2, <3>2, EndedFacts
        <3>4. QED
            BY <1>2, <3>3
    <2>3. QED
        BY <1>2, <2>2
<1>8. Contest(x)'
    <2> SUFFICES ASSUME record'[x].state = "failed_recoverable", last[x] = "closing" PROVE x \in contested'
        BY <1>1 DEF Contest
    <2>1. record'[x] = Closed(x) /\ ~ Blocking(record'[x])
        BY <1>2 DEF Blocking, SETTLED_STATES
    <2>2. CASE Blocking(record[x])
        BY <1>1, <2>1, <2>2, RememberedFacts
    <2>3. CASE record[x].state = "failed_recoverable" /\ ~ Blocking(record[x])
        BY <1>1, <2>3, RememberedFacts DEF HistoryInv, Contest
    <2>4. QED
        BY <1>3, <2>1, <2>2, <2>3 DEF TERMINAL_STATES
<1>9. EndWritten(x)
    <2> SUFFICES ASSUME record'[x].state # record[x].state, record'[x].state \in SETTLED_STATES
                 PROVE  /\ asked[x] # "none" => record'[x].state = asked[x]
                        /\ record[x].state = "failed_recoverable" /\ record'[x].state = "failed_terminal" =>
                              x \in contested \/ ~ record[x].sound
        BY DEF EndWritten
    <2>1. record'[x] = Closed(x)
        BY <1>2, StateFacts
    <2>2. asked[x] # "none" => record'[x].state = asked[x]
        BY <1>1, <2>1, ClosedEnding DEF HistoryInv
    <2>3. record[x].state = "failed_recoverable" => unfinished[x] = record'[x].state
        BY <1>1, <2>1, ClosedEnding
    <2>4. QED
        BY <1>1, <2>2, <2>3 DEF HistoryInv, Contest
<1>10. QED
    BY <1>1, <1>4, <1>5, <1>6, <1>7, <1>8, <1>9 DEF HistoryStep, HistoryInv

LEMMA CreateHistory ==
    ASSUME HInv, Inv', Create, stray' = stray, Remembered, UNCHANGED interruptions
    PROVE  \A x \in Operations : HistoryStep(x)
<1>1. Inv
    BY DEF HInv
<1>2. CASE CreateRefused
    BY <1>2, CreateOther DEF CreateRefused
<1>3. ASSUME NEW o \in Operations, CreateGranted(o) PROVE \A x \in Operations : HistoryStep(x)
    <2>1. /\ o = created + 1 /\ created' = o /\ created \in Nat
          /\ worker \in [Operations -> {"none", "planning", "executing"}]
          /\ worker' = [worker EXCEPT ![o] = "planning"] /\ record'[o] = NewRecord
        BY <1>1, <1>3 DEF CreateGranted, Inv, Types, TypeOK
    <2>2. ASSUME NEW x \in Operations \ {o} PROVE HistoryStep(x)
        <3>1. x > created' <=> x > created
            BY <2>1 DEF Operations
        <3>2. worker'[x] = worker[x]
            BY <2>1
        <3>3. record'[x] = Closed(x) \/ (record'[x] = NoRecord /\ Closed(x).state \in TERMINAL_STATES)
            BY <1>3 DEF CreateGranted
        <3>4. QED
            BY <3>1, <3>2, <3>3, CreateOther
    <2>3. HistoryStep(o)
        <3>1. o > created /\ worker'[o] = "planning" /\ record'[o].state = "planned" /\ HistoryInv(o)
            BY <2>1 DEF NewRecord, HInv
        <3>2. o \notin Interruptions /\ o \notin stray /\ Interruptions' = Interruptions
            BY <3>1 DEF HistoryInv, StoppedForGood, StrayRan, interruptions, Interruptions
        <3>3. asked'[o] = unfinished'[o]
            BY <1>1, CreateFacts, RememberedFacts
        <3>4. QED
            BY <3>1, <3>2, <3>3
               DEF HistoryStep, HistoryInv, Owned, StrayRan, StoppedForGood, BootNamed, Contest, NotRun,
                   EndWritten, SETTLED_STATES, TERMINAL_STATES
    <2>4. QED
        BY <2>2, <2>3
<1>4. QED
    BY <1>1, <1>2, <1>3, CreateFacts
\* A create writes what was only ending; if then nobody has the slot, it goes to
\* the new operation.
LEMMA CreateSlot ==
    ASSUME HInv, Inv', Create, stray' = stray
    PROVE  Alone' /\ SlotStep
<1>0. Inv /\ Alone
    BY DEF HInv
<1>1. unfinished' = [x \in Operations |-> "none"] /\ unrecorded' = {}
    BY <1>0, CreateFacts
<1>2. \A x \in Operations : /\ record[x] \in Records /\ record'[x] \in Records /\ Closed(x) \in Records
                            /\ Phase[x] = SlotPhase(x) /\ Phase'[x] = SlotPhase(x)'
    BY <1>0, ClosedFacts DEF Inv, Types, TypeOK, Records, Phase
<1>3. Phase' \in [Operations -> {"none", "held", "ending", "settled", "ended"}]
    BY <1>0, <1>2, PhaseFactsNext DEF Phase
<1>4. ASSUME NEW x \in Operations, x > created' <=> x > created,
             record'[x] = Closed(x) \/ (record'[x] = NoRecord /\ Closed(x).state \in TERMINAL_STATES)
      PROVE  /\ Slot!Written(x, Phase')
             /\ Blocking(record'[x]) => Blocking(record[x])
    <2>1. CASE record[x] = NoRecord
        <3>1. record'[x] = NoRecord
            BY <1>0, <1>2, <1>4, <2>1, ClosedFacts
        <3>2. SlotPhase(x)' = SlotPhase(x)
            BY <1>0, <1>4, <2>1, <3>1 DEF SlotPhase, Inv, Types, TypeOK, Operations
        <3>3. QED
            BY <1>0, <1>2, <3>1, <3>2 DEF Slot!Written, Blocking, Phase
    <2>2. CASE record[x] # NoRecord /\ record'[x] = NoRecord
        <3>1. ~ x > created'
            BY <1>0, <1>4, <2>2 DEF Inv, OperationInv, Fresh
        <3>2. SlotPhase(x)' = "ended"
            BY <1>0, <2>2, <3>1 DEF SlotPhase, Inv, Types, TypeOK, Operations
        <3>3. SlotPhase(x) \in {"ending", "settled", "ended"}
            <4>1. Closed(x).state \in TERMINAL_STATES
                BY <1>0, <1>4, <2>2, ClosedFacts
            <4>2. SlotPhase(x) # "held"
                BY <1>0, <1>2, <4>1, PhaseFacts, ClosedFacts, StateFacts DEF Blocking
            <4>3. QED
                BY <1>0, <1>2, <2>2, <4>2, PhaseFacts
        <3>4. QED
            BY <1>0, <1>2, <2>2, <3>2, <3>3 DEF Slot!Written, Blocking, Phase
    <2>3. CASE record[x] # NoRecord /\ record'[x] = Closed(x)
        <3>1. CASE SlotPhase(x) = "held"
            <4>1. Blocking(record[x]) /\ unfinished[x] = "none" /\ x \notin unrecorded
                BY <1>0, <1>2, <3>1, PhaseFacts
            <4>2. record'[x] = record[x]
                BY <1>0, <2>3, <4>1, ClosedFacts
            <4>3. SlotPhase(x)' = "held"
                BY <1>0, <1>1, <1>2, <4>1, <4>2, PhaseFactsNext
            <4>4. QED
                BY <1>0, <1>2, <3>1, <4>1, <4>3 DEF Slot!Written, Phase
        <3>2. CASE SlotPhase(x) = "ending"
            <4>1. record'[x].state \in SETTLED_STATES
                BY <1>0, <1>2, <2>3, <3>2, PhaseFacts, ClosedFacts
            <4>2. SlotPhase(x)' \in {"settled", "ended"} /\ ~ Blocking(record'[x])
                BY <1>0, <1>2, <4>1, PhaseFactsNext, StateFacts DEF Blocking
            <4>3. QED
                BY <1>0, <1>2, <3>2, <4>2 DEF Slot!Written, Phase
        <3>3. CASE SlotPhase(x) = "settled"
            <4>1. record'[x].state \in TERMINAL_STATES \cup {"failed_recoverable"}
                BY <1>0, <1>2, <2>3, <3>3, PhaseFacts, ClosedFacts
            <4>2. SlotPhase(x)' \in {"settled", "ended"} /\ ~ Blocking(record'[x])
                BY <1>0, <1>2, <4>1, PhaseFactsNext, StateFacts DEF Blocking, SETTLED_STATES
            <4>3. QED
                BY <1>0, <1>2, <3>3, <4>2 DEF Slot!Written, Phase
        <3>4. CASE SlotPhase(x) = "ended"
            <4>1. record[x].state \in TERMINAL_STATES
                BY <1>0, <1>2, <2>3, <3>4, PhaseFacts, RecordFacts, StateFacts
            <4>2. record'[x] = record[x]
                BY <1>0, <2>3, <4>1, ClosedFacts
            <4>3. SlotPhase(x)' = "ended"
                BY <1>0, <1>2, <4>1, <4>2, PhaseFactsNext
            <4>4. QED
                BY <1>0, <1>2, <3>4, <4>2, <4>3 DEF Slot!Written, Phase
        <3>5. QED
            BY <1>0, <1>2, <2>3, <3>1, <3>2, <3>3, <3>4, PhaseFacts
    <2>4. QED
        BY <1>0, <1>4, <2>1, <2>2, <2>3
<1>5. CASE CreateRefused
    <2>1. \A x \in Operations : record'[x] = Closed(x)
        BY <1>0, <1>5 DEF CreateRefused
    <2>2. worker' = worker /\ created' = created
        BY <1>0, <1>5 DEF CreateRefused
    <2>3. Alone'
        BY <1>0, <1>4, <2>1, <2>2 DEF Alone, Holding
    <2>4. Slot!Write
        BY <1>0, <1>3, <1>4, <2>1, <2>2 DEF Slot!Write, Slot!Phases, Phase, AtWork
    <2>5. QED
        BY <1>0, <2>3, <2>4 DEF SlotStep, Slot!Next
<1>6. ASSUME NEW o \in Operations, CreateGranted(o) PROVE Alone' /\ SlotStep
    <2>1. /\ o = created + 1 /\ created' = o /\ record'[o] = NewRecord
          /\ worker' = [worker EXCEPT ![o] = "planning"]
          /\ \A x \in Operations : ~ Blocking(Closed(x)) /\ worker[x] # "planning"
        BY <1>0, <1>6 DEF CreateGranted
    <2>2. ASSUME NEW x \in Operations \ {o}
          PROVE  /\ x > created' <=> x > created
                 /\ \/ record'[x] = Closed(x)
                    \/ record'[x] = NoRecord /\ Closed(x).state \in TERMINAL_STATES
                 /\ ~ Blocking(record'[x]) /\ worker'[x] = worker[x]
        <3>1. x > created' <=> x > created
            BY <1>0, <2>1 DEF Inv, Types, TypeOK, Operations
        <3>2. QED
            BY <1>0, <1>6, <2>1, <3>1 DEF CreateGranted, Blocking, Inv, Types, TypeOK
    <2>3. Alone'
        BY <1>0, <2>1, <2>2 DEF Alone, Holding
    <2>4. AtWork \subseteq stray /\ AtWork' = AtWork \cup {o}
        <3>1. worker \in [Operations -> {"none", "planning", "executing"}]
            BY <1>0 DEF Inv, Types, TypeOK
        <3>2. worker'[o] = "planning" /\ \A x \in Operations \ {o} : worker'[x] = worker[x]
            BY <2>1, <3>1
        <3>3. AtWork' = AtWork \cup {o}
            BY <3>2 DEF AtWork
        <3>4. ASSUME NEW x \in AtWork \ stray PROVE FALSE
            <4>1. x \in Operations /\ worker[x] = "executing"
                BY <2>1, <3>4 DEF AtWork
            <4>2. Blocking(record[x]) /\ unfinished[x] = "none" /\ x \notin unrecorded
                BY <1>0, <3>4, <4>1, WorkHolds DEF HInv, HistoryInv, Owned, Inv, OperationInv, Carried
            <4>3. QED
                BY <1>0, <2>1, <4>1, <4>2, ClosedFacts
        <3>5. QED
            BY <3>3, <3>4
    <2>5. SlotPhase(o) = "none"
        BY <1>0, <2>1 DEF Inv, OperationInv, Fresh, SlotPhase, Types, TypeOK
    <2>6. SlotPhase(o)' = "held"
        <3>1. Blocking(NewRecord)
            BY <1>0 DEF Blocking, NewRecord, NoRecord, SETTLED_STATES, TERMINAL_STATES
        <3>2. QED
            BY <1>0, <1>1, <1>2, <2>1, <3>1, PhaseFactsNext
    <2>7. \A x \in Operations \ {o} : /\ Slot!Written(x, Phase')
                                      /\ SlotPhase(x)' \notin {"held", "ending"}
        BY <1>0, <1>2, <1>4, <2>2, PhaseFactsNext
    <2>8. Slot!Take(o)
        BY <1>0, <1>2, <2>4, <2>5, <2>6, <2>7 DEF Slot!Take, Phase
    <2>9. QED
        BY <1>0, <2>3, <2>8 DEF SlotStep, Slot!Next
<1>7. QED
    BY <1>0, <1>5, <1>6, CreateFacts

-----------------------------------------------------------------------------
(***************************************************************************)
(* The theorems.                                                           *)
(***************************************************************************)

LEMMA HistoryNextInv ==
    ASSUME Inv, [HNext]_<<vars, history>>
    PROVE  Inv'
<1>1. [Next]_vars
    BY DEF HNext, Next
<1>2. QED
    BY <1>1, NextInv

LEMMA HistoryNext ==
    ASSUME HInv, [HNext]_<<vars, history>>
    PROVE  /\ HInv' /\ SlotStep
           /\ \/ UNCHANGED <<vars, history>>
              \/ \A x \in Operations : NotRun(x) /\ EndWritten(x)
<1>1. Inv'
    BY HistoryNextInv DEF HInv
<1> DEFINE Good == /\ Alone' /\ SlotStep /\ Interruptions' \subseteq Operations /\ stray' \subseteq Operations
                   /\ \A x \in Operations : HistoryStep(x)
<1>2. Good => HInv' /\ SlotStep /\ \A x \in Operations : NotRun(x) /\ EndWritten(x)
    BY <1>1 DEF HInv, HistoryStep
<1>3. UNCHANGED interruptions => Interruptions' \subseteq Operations
    BY DEF HInv, interruptions, Interruptions
<1>4. stray' = stray => stray' \subseteq Operations
    BY DEF HInv
<1>5. CASE (AgentStops \/ PowerCut \/ HostGoesDown) /\ Interrupted /\ UNCHANGED stray /\ Remembered
    BY <1>1, <1>4, <1>5, RestartSlot, RestartHistory, <1>2
<1>6. ASSUME NEW t \in Submitters, Execute(t), Started(t), UNCHANGED interruptions, Remembered PROVE Good
    <2>1. stray' \subseteq Operations
        <3>1. request[t].op \in Operations
            BY <1>6 DEF HInv, Inv, Types, Requests, Execute
        <3>2. QED
            BY <1>6, <3>1 DEF HInv, Started
    <2>2. QED
        BY <1>1, <1>3, <1>6, <2>1, ExecuteSlot, ExecuteHistory
<1>7. ASSUME NEW o \in Operations, Closes(o), Disowned(o), UNCHANGED interruptions, Remembered PROVE Good
    <2>1. stray' \subseteq Operations /\ (stray' = stray \/ (stray' = stray \cup {o} /\ worker[o] = "executing"))
        BY <1>7 DEF HInv, Disowned
    <2>2. Moves(o)
        BY <1>7, ClosesMoves
    <2>3. QED
        BY <1>1, <1>3, <1>7, <2>1, <2>2, ClosesSlot, MovesAll
<1>8. ASSUME UNCHANGED <<interruptions, stray>>, Remembered, NEW o \in Operations, Moves(o) PROVE Good
    BY <1>1, <1>3, <1>4, <1>8, MovesSlot, MovesAll
<1>9. ASSUME UNCHANGED <<interruptions, stray>>, Remembered,
             UNCHANGED <<record, worker, last, planning, unfinished, unrecorded, created, boot, stops>>
      PROVE  Good
    BY <1>3, <1>4, <1>9, StoreUnchanged
<1>10. CASE UNCHANGED <<interruptions, stray>> /\ Remembered /\ Create
    BY <1>1, <1>2, <1>3, <1>4, <1>10, CreateSlot, CreateHistory
<1>11. ASSUME UNCHANGED <<interruptions, stray>>, Remembered, NEW o \in Operations,
              \/ PlanShown(o) \/ PlanAbandoned(o) \/ PlanDiscarded(o) \/ Cancel(o)
              \/ Advance(o) \/ AskDown(o) \/ ExecutorEnds(o) \/ ExecutorRaises(o) \/ Looks(o)
       PROVE  Good
    <2>1. Moves(o)
        BY <1>11, PlannerMoves, ExecutorMoves, CancelMoves
    <2>2. QED
        BY <1>8, <1>11, <2>1
<1>12. ASSUME UNCHANGED <<interruptions, stray>>, Remembered, NEW t \in Submitters,
              Submit(t) \/ Refuse(t) \/ ExecuteFails(t)
       PROVE  Good
    <2>1. \/ \E o \in Operations : Moves(o)
          \/ UNCHANGED <<record, worker, last, planning, unfinished, unrecorded, created, boot, stops>>
        BY <1>12, RefuseMoves DEF Submit, ExecuteFails, disk, bounds
    <2>2. QED
        BY <1>8, <1>9, <1>12, <2>1
<1>13. CASE UNCHANGED <<interruptions, stray>> /\ Remembered /\ (CardFills \/ CardFreed)
    <2>1. UNCHANGED <<record, worker, last, planning, unfinished, unrecorded, created, boot, stops>>
        BY <1>13 DEF CardFills, CardFreed, agent, bounds
    <2>2. QED
        BY <1>2, <1>9, <1>13, <2>1
<1>14. CASE UNCHANGED <<vars, history>>
    <2>1. UNCHANGED <<record, worker, last, planning, unfinished, unrecorded, created, boot, stops,
                      halfMade, wentDown, stray, asked, contested>>
        BY <1>14 DEF vars, disk, agent, bounds, history, interruptions, ends
    <2>2. SlotStep
        BY <2>1 DEF SlotStep, Phase, SlotPhase, AtWork
    <2>3. Alone' /\ stray' \subseteq Operations /\ Interruptions' \subseteq Operations
        BY <2>1 DEF HInv, Alone, Holding, Blocking, Interruptions
    <2>4. ASSUME NEW x \in Operations PROVE HistoryInv(x)'
        <3>1. HistoryInv(x)
            BY DEF HInv
        <3>2. QED
            BY <2>1, <3>1 DEF HistoryInv, Owned, StrayRan, StoppedForGood, BootNamed, Contest,
               EndsForGood, Interruptions
    <2>5. QED
        BY <1>1, <1>14, <2>2, <2>3, <2>4 DEF HInv
<1> HIDE DEF Good
<1>15. QED
    BY <1>2, <1>5, <1>6, <1>7, <1>10, <1>11, <1>12, <1>13, <1>14 DEF HNext

LEMMA HistoryStarts == HInit => HInv /\ Slot!Init
<1> SUFFICES ASSUME HInit PROVE HInv /\ Slot!Init
    OBVIOUS
<1>1. Inv
    BY InitInv DEF HInit
<1>2. \A o \in Operations : SlotPhase(o) = "none"
    BY DEF HInit, Init, SlotPhase, Operations
<1>3. AtWork = {} /\ stray = {} /\ Interruptions = {}
    BY DEF HInit, HistoryInit, Init, AtWork, Interruptions
<1>4. Alone
    BY DEF HInit, Init, Alone, Holding, Blocking
<1>5. ASSUME NEW o \in Operations PROVE HistoryInv(o)
    <2>1. /\ worker[o] = "none" /\ record[o] = NoRecord /\ unfinished[o] = "none" /\ asked[o] = "none"
        BY DEF HInit, HistoryInit, Init
    <2>2. NoRecord.state = "none"
        BY DEF NoRecord
    <2>3. QED
        BY <1>3, <2>1, <2>2 DEF HistoryInv, Owned, StrayRan, StoppedForGood, BootNamed, Contest
<1>6. QED
    BY <1>1, <1>2, <1>3, <1>4, <1>5 DEF HInv, Slot!Init

LEMMA HistoryInvariance == HSpec => []HInv
<1>1. HInv /\ [HNext]_<<vars, history>> => HInv'
    BY HistoryNext
<1>2. QED
    BY <1>1, HistoryStarts, PTL DEF HSpec

LEMMA OneAtWorkIfAlone == HInv => OneAtWork
<1> SUFFICES ASSUME HInv PROVE OneAtWork
    OBVIOUS
<1>1. \A o \in Operations \ stray : worker[o] = "executing" => Blocking(record[o])
    BY WorkHolds DEF AtWork
<1>2. AtWork \ stray = {} \/ \E o \in Operations : AtWork \ stray = {o}
    <2>1. \A x, y \in AtWork \ stray : x = y /\ x \in Operations
        BY WorkHolds DEF HInv, Alone
    <2>2. QED
        BY <2>1
<1>3. Cardinality(AtWork \ stray) <= 1
    <2>1. Cardinality(AtWork \ stray) \in {0, 1}
        BY <1>2, FS_EmptySet, FS_Singleton, Zenon
    <2>2. QED
        BY <2>1
<1>4. QED
    BY <1>1, <1>3 DEF OneAtWork

\* One planner or executor at a time that is no stray, and nobody ends or forgets
\* an operation under the thread that carries it out unless it is a stray, for any
\* number of operations, requests, restarts and full cards (active, create,
\* confirm, retry, finish, _close_unrecorded, _prune).
THEOREM OneAtWorkAlways == HSpec => []OneAtWork
BY HistoryInvariance, OneAtWorkIfAlone, PTL

\* The store implements the one slot of MutationSlot, its two exceptions included:
\* the first state is one of its first states, and every step is a step of the
\* slot or leaves it as it is (create, confirm, retry, recover_interrupted).
THEOREM OneSlotAlways == HSpec => OneSlot
<1>1. HInit => Slot!Init
    BY HistoryStarts
<1>2. HInv /\ [HNext]_<<vars, history>> => [Slot!Next]_<<Phase, AtWork, stray>>
    BY HistoryNext DEF SlotStep
<1>3. QED
    BY <1>1, <1>2, HistoryInvariance, PTL DEF HSpec, OneSlot, Slot!Spec, Phase

\* An operation that was stopped with the appliance half changed, or that the
\* host went down for, is never run again, through any number of restarts, full
\* cards, retries and overtaken confirmations (recover_interrupted, retry).
THEOREM NotRunAgainAlways == HSpec => NotRunAgain
<1>1. HInv /\ [HNext]_<<vars, history>> =>
         [\A o \in halfMade \cup wentDown : worker[o] = "none" => worker'[o] # "executing"]_<<vars, history>>
    <2> SUFFICES ASSUME HInv, [HNext]_<<vars, history>>, ~ UNCHANGED <<vars, history>>,
                        NEW o \in halfMade \cup wentDown
                 PROVE  worker[o] = "none" => worker'[o] # "executing"
        OBVIOUS
    <2>1. o \in Operations
        BY DEF HInv, Interruptions
    <2>2. QED
        BY <2>1, HistoryNext DEF NotRun, Interruptions
<1>2. QED
    BY <1>1, HistoryInvariance, PTL DEF HSpec, NotRunAgain

\* The end on record is the first one asked for, whoever asked for it and however
\* late it was written, unless the agent stopped in between; and a failure that
\* could be started again is ended for good only when it is unsound, or by the
\* thread that failed at it and had found the record open (finish,
\* _close_unrecorded, _run).
THEOREM EndAsItHappenedAlways == HSpec => EndAsItHappened
<1> DEFINE Kind(o) ==
       LET was == record[o].state
           is  == record'[o].state
       IN  is # was /\ is \in SETTLED_STATES =>
              /\ asked[o] # "none" => is = asked[o] \/ stops' # stops
              /\ was = "failed_recoverable" /\ is = "failed_terminal" =>
                    o \in contested \/ ~ record[o].sound
<1>1. HInv /\ [HNext]_<<vars, history>> => [\A o \in Operations : Kind(o)]_<<vars, history>>
    <2> SUFFICES ASSUME HInv, [HNext]_<<vars, history>>, ~ UNCHANGED <<vars, history>>, NEW o \in Operations
                 PROVE  Kind(o)
        OBVIOUS
    <2>1. EndWritten(o)
        BY HistoryNext
    <2>2. QED
        BY <2>1 DEF EndWritten
<1>2. QED
    BY <1>1, HistoryInvariance, PTL DEF HSpec, EndAsItHappened
=============================================================================
