---------------------- MODULE ReplacementDispatchProofs ----------------------
(***************************************************************************)
(* Proofs about ReplacementDispatch, for any finite set of request threads *)
(* and any number of calls.                                                *)
(*                                                                         *)
(* The argument: the entry that may still launch is unsettled, an          *)
(* unsettled entry with callers is the registered one, and its lock has    *)
(* one owner.  So one caller at a time is between the claim and the        *)
(* published outcome of its launcher call, and until then nobody can       *)
(* reopen the stage, although it may have failed.                          *)
(***************************************************************************)
EXTENDS ReplacementDispatch, FiniteSetTheorems, TLAPS

Claiming == {"committing", "launching", "running", "failing"}
Owning == Claiming \cup {"owning", "leaving"}
Inside == Owning \cup {"blocked", "released"}
Points == Inside \cup {"out", "called"}

CallerType ==
    [at : Points, kind : {"start", "retry"}, entry : Entries \cup {0},
     since : Nat, met : Nat, answer : Nat]

\* Types, with those of the callers and of the history.
Types ==
    /\ stage \in {"pending", "waiting", "failed", "moved"}
    /\ entry \in Entries \cup {0}
    /\ interest \in [Entries -> SUBSET Callers]
    /\ owner \in [Entries -> Callers \cup {Nobody}]
    /\ outcome \in [Entries -> {"none", "result", "failure"}]
    /\ caller \in [Callers -> CallerType]
    /\ launched \in Nat /\ total \in Nat
    /\ number \in [Entries -> Nat]

\* _DispatchEntry.waiting counts exactly the callers between _enter and _leave,
\* and nobody else has an answer.
InterestIsInside ==
    \A c \in Callers :
        /\ mine(c) \in Entries <=> caller[c].at \in Inside
        /\ mine(c) \in Entries \/ caller[c].answer = 0
        /\ \A e \in Entries : c \in interest[e] <=> mine(c) = e

\* _DispatchEntry.lock is held by one caller from its claim to its release.
LockIsOwned ==
    \A c \in Callers, e \in Entries : owner[e] = c <=> mine(c) = e /\ caller[c].at \in Owning

\* An entry nobody refers to is a new one.
UnusedIsNew == \A e \in Entries : interest[e] = {} => outcome[e] = "none"

\* An attempt is not settled before its launcher's outcome is published.
OpenAttempt == \A c \in Callers : caller[c].at \in Claiming => ~ settled(mine(c))

\* An open stage was not launched for, and a claim is one of an open stage.
LaunchIsOpen ==
    /\ stage = "pending" => launched = 0
    /\ \A c \in Callers :
          /\ caller[c].at \in {"committing", "launching"} => launched = 0
          /\ at(c, "launching") => stage # "pending"

\* The launcher call of a retry's attempt was begun after the retry, or it is the
\* one that the attempt had begun and not published when the retry entered.
RetryIsLater ==
    \A c \in Callers :
        /\ caller[c].since <= total
        /\ caller[c].kind = "retry" /\ mine(c) \in Entries =>
              number[mine(c)] > caller[c].since \/ number[mine(c)] = caller[c].met

\* The registered entry has callers, and every other with callers is settled.
OpenIsRegistered ==
    /\ entry # 0 => interest[entry] # {}
    /\ \A e \in Entries : interest[e] # {} /\ ~ settled(e) => e = entry

Inv ==
    /\ Types
    /\ InterestIsInside
    /\ LockIsOwned
    /\ UnusedIsNew
    /\ OpenAttempt
    /\ LaunchIsOpen
    /\ RetryIsLater
    /\ OpenIsRegistered
    /\ OneLaunchPerOpening
    /\ RetryIsNotSettledBefore

-----------------------------------------------------------------------------

LEMMA EntriesAreNumbers == Entries \subseteq Nat \ {0}
BY DispatchAssumption, FS_CardinalityType DEF Entries

\* A caller that is about to enter finds an entry nobody refers to: there are as
\* many entries as callers, and each caller refers to one at most.
LEMMA FreshEntry ==
    ASSUME Inv, NEW c \in Callers, at(c, "called")
    PROVE  \E e \in Entries : interest[e] = {}
<1> SUFFICES ASSUME \A e \in Entries : interest[e] # {}
             PROVE  FALSE
    OBVIOUS
<1> DEFINE rider == [e \in Entries |-> CHOOSE d \in Callers : d \in interest[e]]
           others == Callers \ {c}
<1>1. \A e \in Entries : rider[e] \in Callers /\ rider[e] \in interest[e]
    BY DEF Inv, Types
<1>2. \A e \in Entries : mine(rider[e]) = e
    BY <1>1 DEF Inv, InterestIsInside
<1>3. mine(c) \notin Entries
    BY DEF Inv, InterestIsInside, at, Inside, Owning, Claiming
<1>4. rider \in [Entries -> others]
    BY <1>1, <1>2, <1>3
<1>5. IsFiniteSet(others) /\ Cardinality(others) = Cardinality(Callers) - 1
    BY DispatchAssumption, FS_RemoveElement
<1>6. Cardinality(Callers) \in Nat
    BY DispatchAssumption, FS_CardinalityType
<1>7. IsFiniteSet(Entries) /\ Cardinality(Entries) = Cardinality(Callers)
    BY <1>6, FS_Interval DEF Entries
<1>8. Cardinality(others) < Cardinality(Entries)
    BY <1>5, <1>6, <1>7
<1> HIDE DEF rider, others
<1>9. \E x, y \in Entries : x # y /\ rider[x] = rider[y]
    BY <1>4, <1>5, <1>7, <1>8, FS_PigeonHole
<1>10. QED
    BY <1>2, <1>9

\* Between its claim and its launcher call a caller is alone.
LEMMA OneClaim ==
    ASSUME Inv, NEW c \in Callers, NEW d \in Callers,
           caller[c].at \in Claiming,
           caller[d].at \in Owning, ~ settled(mine(d))
    PROVE  c = d
BY DEF Inv, OpenAttempt, OpenIsRegistered, InterestIsInside, LockIsOwned, Inside, Owning, Claiming

\* Who is answered changes where it stands and its answer.
LEMMA AnswerFacts ==
    ASSUME Inv, NEW c \in Callers, mine(c) \in Entries, answer(c)
    PROVE  /\ caller' \in [Callers -> CallerType]
           /\ caller'[c].at = "leaving" /\ caller'[c].answer = number[mine(c)]
           /\ \A d \in Callers : /\ d # c => caller'[d].at = caller[d].at
                                 /\ d # c => caller'[d].answer = caller[d].answer
                                 /\ caller'[d].kind = caller[d].kind
                                 /\ caller'[d].entry = caller[d].entry
                                 /\ caller'[d].since = caller[d].since
                                 /\ caller'[d].met = caller[d].met
<1> DEFINE done == [caller[c] EXCEPT !.at = "leaving", !.answer = number[mine(c)]]
<1>1. caller \in [Callers -> CallerType] /\ number[mine(c)] \in Nat
    BY DEF Inv, Types
<1>2. /\ done \in CallerType /\ done.at = "leaving" /\ done.answer = number[mine(c)]
      /\ done.kind = caller[c].kind /\ done.entry = caller[c].entry
      /\ done.since = caller[c].since /\ done.met = caller[c].met
    BY <1>1 DEF CallerType, Points, Inside, Owning, Claiming
<1>3. caller' = [caller EXCEPT ![c] = done]
    BY DEF answer
<1> HIDE DEF done
<1>4. QED
    BY <1>1, <1>2, <1>3

LEMMA InitInv == Init => Inv
BY EntriesAreNumbers, DispatchAssumption
   DEF Init, Inv, Types, CallerType, Points, Inside, Owning, Claiming,
   InterestIsInside, LockIsOwned, UnusedIsNew, OpenAttempt, LaunchIsOpen, RetryIsLater,
   OpenIsRegistered, OneLaunchPerOpening, RetryIsNotSettledBefore, mine, at, settled, Out, Nobody

\* Who calls is interested in nothing yet.
LEMMA CallInv ==
    ASSUME Inv, NEW c \in Callers, NEW kind \in {"start", "retry"}, Call(c, kind)
    PROVE  Inv'
<1>1. Types'
    BY EntriesAreNumbers, DispatchAssumption
       DEF Call, Out, history, dispatcher, Inv, mine, at, settled, Types, CallerType,
           Points, Inside, Owning, Claiming
<1>2. InterestIsInside'
    BY EntriesAreNumbers, DispatchAssumption
       DEF Call, Out, history, dispatcher, Inv, mine, at, settled, InterestIsInside,
           Inside, Owning, Claiming, Types, CallerType
<1>3. LockIsOwned'
    BY EntriesAreNumbers, DispatchAssumption
       DEF Call, Out, history, dispatcher, Inv, mine, at, settled, LockIsOwned,
           InterestIsInside, Owning, Claiming, Inside, Types, CallerType
<1>4. UnusedIsNew'
    BY EntriesAreNumbers, DispatchAssumption
       DEF Call, Out, history, dispatcher, Inv, mine, at, settled, UnusedIsNew,
           InterestIsInside, Types, CallerType
<1>5. OpenAttempt'
    BY EntriesAreNumbers, DispatchAssumption
       DEF Call, Out, history, dispatcher, Inv, mine, at, settled, OpenAttempt,
           InterestIsInside, Inside, Owning, Claiming, LockIsOwned, UnusedIsNew, Types,
           CallerType
<1>6. LaunchIsOpen'
    BY EntriesAreNumbers, DispatchAssumption
       DEF Call, Out, history, dispatcher, Inv, mine, at, settled, LaunchIsOpen,
           OpenAttempt, Inside, Owning, Claiming, InterestIsInside, Types, CallerType
<1>7. RetryIsLater'
    BY EntriesAreNumbers, DispatchAssumption
       DEF Call, Out, history, dispatcher, Inv, mine, at, settled, RetryIsLater,
           InterestIsInside, Inside, Owning, Claiming, UnusedIsNew, OpenIsRegistered, Types,
           CallerType
<1>8. OpenIsRegistered'
    BY EntriesAreNumbers, DispatchAssumption
       DEF Call, Out, history, dispatcher, Inv, mine, at, settled, OpenIsRegistered,
           InterestIsInside, Inside, Owning, Claiming, UnusedIsNew, OpenAttempt, Types,
           CallerType
<1>9. OneLaunchPerOpening'
    BY EntriesAreNumbers, DispatchAssumption
       DEF Call, Out, history, dispatcher, Inv, mine, at, settled, OneLaunchPerOpening,
           LaunchIsOpen, Types
<1>10. RetryIsNotSettledBefore'
    BY EntriesAreNumbers, DispatchAssumption
       DEF Call, Out, history, dispatcher, Inv, mine, at, settled, RetryIsNotSettledBefore,
           RetryIsLater, InterestIsInside, Inside, Owning, Claiming, Types, CallerType
<1>11. QED
    BY <1>1, <1>2, <1>3, <1>4, <1>5, <1>6, <1>7, <1>8, <1>9, <1>10 DEF Inv

\* Who moves changes where it stands and nothing else.
LEMMA MoveFacts ==
    ASSUME caller \in [Callers -> CallerType], NEW c \in Callers, NEW p \in Points, move(c, p)
    PROVE  /\ caller' \in [Callers -> CallerType]
           /\ caller'[c].at = p
           /\ \A d \in Callers : /\ d # c => caller'[d].at = caller[d].at
                                 /\ caller'[d].kind = caller[d].kind
                                 /\ caller'[d].entry = caller[d].entry
                                 /\ caller'[d].since = caller[d].since
                                 /\ caller'[d].met = caller[d].met
                                 /\ caller'[d].answer = caller[d].answer
<1> DEFINE there == [caller[c] EXCEPT !.at = p]
<1>1. /\ there \in CallerType /\ there.at = p
      /\ there.kind = caller[c].kind /\ there.entry = caller[c].entry
      /\ there.since = caller[c].since /\ there.met = caller[c].met
      /\ there.answer = caller[c].answer
    BY DEF CallerType
<1>2. caller' = [caller EXCEPT ![c] = there]
    BY DEF move
<1> HIDE DEF there
<1>3. QED
    BY <1>1, <1>2

\* The lock goes to one of those who wait for it.
LEMMA AcquireInv == ASSUME Inv, NEW c \in Callers, Acquire(c) PROVE Inv'
<1>1. /\ caller[c].at = "blocked" /\ move(c, "owning")
      /\ owner[mine(c)] = Nobody /\ owner' = [owner EXCEPT ![mine(c)] = c]
      /\ UNCHANGED <<stage, entry, interest, outcome, launched, number, total>>
    BY DEF Acquire, at, history
<1>2. /\ "owning" \in Owning /\ "owning" \in Points /\ "owning" \in Inside
      /\ "blocked" \notin Owning /\ "blocked" \in Inside /\ "owning" \notin Claiming
    BY DEF Claiming, Owning, Points, Inside
<1>3. /\ caller' \in [Callers -> CallerType]
      /\ caller'[c].at = "owning"
      /\ \A d \in Callers : /\ d # c => caller'[d].at = caller[d].at
                            /\ caller'[d].kind = caller[d].kind
                            /\ caller'[d].entry = caller[d].entry
                            /\ caller'[d].since = caller[d].since
                            /\ caller'[d].met = caller[d].met
                            /\ caller'[d].answer = caller[d].answer
    BY <1>1, <1>2, MoveFacts DEF Inv, Types
<1>4. mine(c) \in Entries
    BY <1>1, <1>2 DEF Inv, InterestIsInside
<1>5. /\ owner' \in [Entries -> Callers \cup {Nobody}] /\ owner'[mine(c)] = c
      /\ \A e \in Entries : e # mine(c) => owner'[e] = owner[e]
    BY <1>1, <1>4 DEF Inv, Types
<1>6. Types'
    BY <1>1, <1>3, <1>5 DEF Inv, Types
<1>7. InterestIsInside'
    BY <1>1, <1>2, <1>3 DEF Inv, InterestIsInside, mine
<1>8. LockIsOwned'
    <2> SUFFICES ASSUME NEW d \in Callers, NEW e \in Entries
                 PROVE  owner'[e] = d <=> mine(d)' = e /\ caller'[d].at \in Owning
        BY DEF LockIsOwned
    <2>1. owner[e] = d <=> mine(d) = e /\ caller[d].at \in Owning
        BY DEF Inv, LockIsOwned
    <2>2. mine(d)' = mine(d)
        BY <1>3 DEF mine
    <2>3. CASE e = mine(c)
        BY <1>1, <1>2, <1>3, <1>5, <2>1, <2>2, <2>3, DispatchAssumption
    <2>4. CASE e # mine(c)
        BY <1>1, <1>2, <1>3, <1>5, <2>1, <2>2, <2>4
    <2>5. QED
        BY <2>3, <2>4
<1>9. UnusedIsNew' /\ OpenIsRegistered'
    BY <1>1 DEF Inv, UnusedIsNew, OpenIsRegistered, settled
<1>10. OpenAttempt'
    BY <1>1, <1>2, <1>3 DEF Inv, OpenAttempt, settled, mine
<1>11. LaunchIsOpen' /\ OneLaunchPerOpening'
    BY <1>1, <1>3 DEF Inv, LaunchIsOpen, OneLaunchPerOpening, at
<1>12. RetryIsLater' /\ RetryIsNotSettledBefore'
    BY <1>1, <1>3 DEF Inv, RetryIsLater, RetryIsNotSettledBefore, mine
<1>13. QED
    BY <1>6, <1>7, <1>8, <1>9, <1>10, <1>11, <1>12 DEF Inv

\* An answer moves its caller out of the claim and disturbs no other.
LEMMA AnswerStep ==
    ASSUME Inv, NEW c \in Callers, caller[c].at \in Owning, answer(c),
           UNCHANGED <<stage, entry, interest, owner, launched, number, total>>
    PROVE  /\ caller' \in [Callers -> CallerType] /\ InterestIsInside' /\ LockIsOwned'
           /\ LaunchIsOpen' /\ RetryIsLater' /\ OneLaunchPerOpening' /\ RetryIsNotSettledBefore'
<1>1. mine(c) \in Entries
    BY DEF Inv, InterestIsInside, Inside
<1>2. /\ caller' \in [Callers -> CallerType]
      /\ caller'[c].at = "leaving" /\ caller'[c].answer = number[mine(c)]
      /\ \A d \in Callers : /\ d # c => caller'[d].at = caller[d].at
                            /\ d # c => caller'[d].answer = caller[d].answer
                            /\ caller'[d].kind = caller[d].kind
                            /\ caller'[d].entry = caller[d].entry
                            /\ caller'[d].since = caller[d].since
                            /\ caller'[d].met = caller[d].met
    BY <1>1, AnswerFacts
<1>3. "leaving" \in Owning /\ "leaving" \notin Claiming
    BY DEF Owning, Claiming
<1>4. \A d \in Callers : /\ caller'[d].at \in Owning <=> caller[d].at \in Owning
                         /\ caller'[d].at \in Inside <=> caller[d].at \in Inside
    BY <1>2, <1>3 DEF Inside
<1>5. InterestIsInside' /\ LockIsOwned'
    BY <1>1, <1>2, <1>4 DEF Inv, InterestIsInside, LockIsOwned, mine
<1>6. LaunchIsOpen' /\ OneLaunchPerOpening'
    BY <1>2 DEF Inv, LaunchIsOpen, OneLaunchPerOpening, at
<1>7. RetryIsLater'
    BY <1>2 DEF Inv, RetryIsLater, mine
<1>8. RetryIsNotSettledBefore'
    BY <1>1, <1>2 DEF Inv, RetryIsNotSettledBefore, RetryIsLater
<1>9. QED
    BY <1>2, <1>5, <1>6, <1>7, <1>8

\* A caller that finds its attempt settled answers its outcome.
LEMMA CompletedInv == ASSUME Inv, NEW c \in Callers, Completed(c) PROVE Inv'
<1>1. /\ caller[c].at = "owning" /\ answer(c) /\ stage' = stage
      /\ UNCHANGED <<entry, interest, owner, outcome, launched, number, total>>
    BY DEF Completed, at, dispatcher, history
<1>2. caller[c].at \in Owning
    BY <1>1 DEF Owning, Claiming
<1>3. /\ caller' \in [Callers -> CallerType] /\ InterestIsInside' /\ LockIsOwned'
      /\ LaunchIsOpen' /\ RetryIsLater' /\ OneLaunchPerOpening' /\ RetryIsNotSettledBefore'
    BY <1>1, <1>2, AnswerStep
<1>4. Types' /\ UnusedIsNew' /\ OpenIsRegistered'
    BY <1>1, <1>3 DEF Inv, Types, UnusedIsNew, OpenIsRegistered, settled
<1>5. mine(c) \in Entries
    BY <1>2 DEF Inv, InterestIsInside, Inside
<1>6. OpenAttempt'
    BY <1>1, <1>5, AnswerFacts DEF Inv, OpenAttempt, Claiming, mine, settled
<1>7. QED
    BY <1>3, <1>4, <1>6 DEF Inv

\* A step from one point of the claim to another disturbs what concerns the
\* stage and the launcher call, and nothing else.
LEMMA ClaimStep ==
    ASSUME Inv, NEW c \in Callers, caller[c].at \in Owning, NEW p \in Owning, move(c, p),
           UNCHANGED <<dispatcher, number, total>>,
           stage' \in {"pending", "waiting", "failed", "moved"}, launched' \in Nat
    PROVE  /\ Types' /\ InterestIsInside' /\ LockIsOwned' /\ UnusedIsNew'
           /\ RetryIsLater' /\ OpenIsRegistered' /\ RetryIsNotSettledBefore'
<1>1. p \in Points
    BY DEF Points, Inside
<1>2. /\ caller' \in [Callers -> CallerType]
      /\ caller'[c].at = p
      /\ \A d \in Callers : /\ d # c => caller'[d].at = caller[d].at
                            /\ caller'[d].kind = caller[d].kind
                            /\ caller'[d].entry = caller[d].entry
                            /\ caller'[d].since = caller[d].since
                            /\ caller'[d].met = caller[d].met
                            /\ caller'[d].answer = caller[d].answer
    BY <1>1, MoveFacts DEF Inv, Types
<1>3. /\ entry' = entry /\ interest' = interest /\ owner' = owner /\ outcome' = outcome
      /\ number' = number /\ total' = total
    BY DEF dispatcher
<1>4. Types'
    BY <1>2, <1>3 DEF Inv, Types
<1>5. \A d \in Callers : /\ caller'[d].at \in Owning <=> caller[d].at \in Owning
                         /\ caller'[d].at \in Inside <=> caller[d].at \in Inside
    BY <1>2 DEF Inside
<1>6. InterestIsInside'
    BY <1>2, <1>3, <1>5 DEF Inv, InterestIsInside, mine
<1>7. LockIsOwned'
    BY <1>2, <1>3, <1>5 DEF Inv, LockIsOwned, mine
<1>8. UnusedIsNew' /\ OpenIsRegistered'
    BY <1>3 DEF Inv, UnusedIsNew, OpenIsRegistered, settled
<1>9. RetryIsLater'
    BY <1>2, <1>3 DEF Inv, RetryIsLater, mine, settled
<1>10. RetryIsNotSettledBefore'
    BY <1>2 DEF Inv, RetryIsNotSettledBefore
<1>11. QED
    BY <1>4, <1>6, <1>7, <1>8, <1>9, <1>10

\* The stage read again under the claim is open, so nothing was launched for it.
LEMMA StartInv == ASSUME Inv, NEW c \in Callers, StartOwned(c) PROVE Inv'
<1> DEFINE p == IF authorized THEN "committing" ELSE "leaving"
<1>1. /\ caller[c].at = "owning" /\ ~ settled(mine(c)) /\ move(c, p)
      /\ UNCHANGED <<dispatcher, number, total>> /\ stage' = stage /\ launched' = launched
    BY DEF StartOwned, at, history
<1>2. caller[c].at \in Owning /\ p \in Owning /\ p \in Points
    BY <1>1 DEF Owning, Claiming, Points, Inside
<1>3. p = "committing" => stage = "pending"
    BY DEF authorized
<1> HIDE DEF p
<1>4. /\ Types' /\ InterestIsInside' /\ LockIsOwned' /\ UnusedIsNew'
      /\ RetryIsLater' /\ OpenIsRegistered' /\ RetryIsNotSettledBefore'
    BY <1>1, <1>2, ClaimStep DEF Inv, Types
<1>5. /\ caller'[c].at = p
      /\ \A d \in Callers : /\ d # c => caller'[d].at = caller[d].at
                            /\ caller'[d].entry = caller[d].entry
    BY <1>1, <1>2, MoveFacts DEF Inv, Types
<1>6. p # "launching"
    BY DEF p
<1>7. OpenAttempt'
    BY <1>1, <1>5 DEF Inv, OpenAttempt, settled, mine, dispatcher
<1>8. LaunchIsOpen' /\ OneLaunchPerOpening'
    BY <1>1, <1>3, <1>5, <1>6 DEF Inv, LaunchIsOpen, OneLaunchPerOpening, at
<1>9. QED
    BY <1>4, <1>7, <1>8 DEF Inv

\* Who reopens the stage is the only one with a claim.
LEMMA RetryInv == ASSUME Inv, NEW c \in Callers, RetryOwned(c) PROVE Inv'
<1>1. /\ caller[c].at = "owning" /\ ~ settled(mine(c))
      /\ UNCHANGED <<dispatcher, number, total>>
    BY DEF RetryOwned, at
<1>2. PICK p \in {"committing", "leaving"} :
        /\ move(c, p)
        /\ \/ p = "committing" /\ stage' = "pending" /\ launched' = 0
           \/ p = "leaving" /\ stage' = stage /\ launched' = launched
    BY DEF RetryOwned
<1>3. caller[c].at \in Owning /\ p \in Owning /\ p \in Points
    BY <1>1 DEF Owning, Claiming, Points, Inside
<1>4. stage' \in {"pending", "waiting", "failed", "moved"} /\ launched' \in Nat
    BY <1>2 DEF Inv, Types
<1>5. /\ Types' /\ InterestIsInside' /\ LockIsOwned' /\ UnusedIsNew'
      /\ RetryIsLater' /\ OpenIsRegistered' /\ RetryIsNotSettledBefore'
    BY <1>1, <1>2, <1>3, <1>4, ClaimStep
<1>6. /\ caller'[c].at = p
      /\ \A d \in Callers : /\ d # c => caller'[d].at = caller[d].at
                            /\ caller'[d].entry = caller[d].entry
    BY <1>2, <1>3, MoveFacts DEF Inv, Types
<1>7. OpenAttempt'
    BY <1>1, <1>6 DEF Inv, OpenAttempt, settled, mine, dispatcher
<1>8. \A d \in Callers : caller[d].at \notin Claiming
    BY <1>1, <1>3, OneClaim DEF Claiming
<1>9. LaunchIsOpen' /\ OneLaunchPerOpening'
    BY <1>2, <1>6, <1>8 DEF Inv, LaunchIsOpen, OneLaunchPerOpening, at, Claiming
<1>10. QED
    BY <1>5, <1>7, <1>9 DEF Inv

\* The committed stage is not the open one.
LEMMA CommitInv == ASSUME Inv, NEW c \in Callers, Commit(c) PROVE Inv'
<1>1. /\ caller[c].at = "committing"
      /\ UNCHANGED <<dispatcher, number, total>> /\ launched' = launched
    BY DEF Commit, at, history
<1>2. PICK p \in {"launching", "leaving"} :
        /\ move(c, p)
        /\ \/ stage' = "waiting"
           \/ p = "leaving" /\ stage' = stage
    BY DEF Commit
<1>3. caller[c].at \in Owning /\ p \in Owning /\ p \in Points
    BY <1>1 DEF Owning, Claiming, Points, Inside
<1>4. stage' \in {"pending", "waiting", "failed", "moved"} /\ launched' \in Nat
    BY <1>1, <1>2 DEF Inv, Types
<1>5. /\ Types' /\ InterestIsInside' /\ LockIsOwned' /\ UnusedIsNew'
      /\ RetryIsLater' /\ OpenIsRegistered' /\ RetryIsNotSettledBefore'
    BY <1>1, <1>2, <1>3, <1>4, ClaimStep
<1>6. /\ caller'[c].at = p
      /\ \A d \in Callers : /\ d # c => caller'[d].at = caller[d].at
                            /\ caller'[d].entry = caller[d].entry
    BY <1>2, <1>3, MoveFacts DEF Inv, Types
<1>7. OpenAttempt'
    BY <1>1, <1>6 DEF Inv, OpenAttempt, settled, mine, dispatcher, Claiming
<1>8. LaunchIsOpen' /\ OneLaunchPerOpening'
    BY <1>1, <1>2, <1>6 DEF Inv, LaunchIsOpen, OneLaunchPerOpening, at
<1>9. QED
    BY <1>5, <1>7, <1>8 DEF Inv

\* The launcher call of the only claim.
LEMMA LaunchInv == ASSUME Inv, NEW c \in Callers, Launch(c) PROVE Inv'
<1>1. /\ caller[c].at = "launching" /\ move(c, "running") /\ total' = total + 1
      /\ launched' = launched + 1 /\ number' = [number EXCEPT ![mine(c)] = total + 1]
      /\ UNCHANGED <<stage, entry, interest, owner, outcome>>
    BY DEF Launch, at, dispatcher
<1>2. /\ "launching" \in Claiming /\ "running" \in Claiming /\ "running" \in Points
      /\ "launching" \in Owning /\ "running" \in Owning
    BY DEF Claiming, Owning, Claiming, Points, Inside
<1>3. /\ caller' \in [Callers -> CallerType]
      /\ caller'[c].at = "running"
      /\ \A d \in Callers : /\ d # c => caller'[d].at = caller[d].at
                            /\ caller'[d].kind = caller[d].kind
                            /\ caller'[d].entry = caller[d].entry
                            /\ caller'[d].since = caller[d].since
                            /\ caller'[d].met = caller[d].met
                            /\ caller'[d].answer = caller[d].answer
    BY <1>1, <1>2, MoveFacts DEF Inv, Types
<1>4. \A d \in Callers : /\ caller'[d].at \in Owning <=> caller[d].at \in Owning
                         /\ caller'[d].at \in Inside <=> caller[d].at \in Inside
                         /\ caller'[d].at \in Claiming <=> caller[d].at \in Claiming
    BY <1>1, <1>2, <1>3 DEF Inside
<1>5. mine(c) \in Entries
    BY <1>1, <1>2 DEF Inv, InterestIsInside, Inside
<1>6. /\ total \in Nat /\ number' \in [Entries -> Nat]
      /\ number'[mine(c)] = total + 1
      /\ \A e \in Entries : e # mine(c) => number'[e] = number[e]
    BY <1>1, <1>5 DEF Inv, Types
<1>7. Types'
    BY <1>1, <1>3, <1>6 DEF Inv, Types
<1>8. InterestIsInside' /\ LockIsOwned'
    BY <1>1, <1>3, <1>4 DEF Inv, InterestIsInside, LockIsOwned, mine
<1>9. UnusedIsNew' /\ OpenIsRegistered'
    BY <1>1 DEF Inv, UnusedIsNew, OpenIsRegistered, settled
<1>10. OpenAttempt'
    BY <1>1, <1>3, <1>4 DEF Inv, OpenAttempt, settled, mine
<1>11. \A d \in Callers : d # c => caller[d].at \notin Claiming
    BY <1>1, <1>2, OneClaim DEF Inv, OpenAttempt, Owning, Claiming
<1>12. launched = 0 /\ stage # "pending"
    BY <1>1 DEF Inv, LaunchIsOpen, at
<1>13. LaunchIsOpen' /\ OneLaunchPerOpening'
    BY <1>1, <1>3, <1>11, <1>12 DEF LaunchIsOpen, OneLaunchPerOpening, at, Claiming
<1>14. RetryIsLater'
    <2> SUFFICES ASSUME NEW d \in Callers
                 PROVE  /\ caller'[d].since <= total'
                        /\ caller'[d].kind = "retry" /\ mine(d)' \in Entries =>
                              \/ number'[mine(d)'] > caller'[d].since
                              \/ number'[mine(d)'] = caller'[d].met
        BY DEF RetryIsLater
    <2>1. /\ caller[d].since \in Nat /\ caller[d].since <= total
          /\ caller'[d].since = caller[d].since /\ mine(d)' = mine(d)
        BY <1>3 DEF Inv, Types, CallerType, RetryIsLater, mine
    <2>2. caller'[d].since <= total' /\ total + 1 > caller'[d].since
        BY <1>1, <1>6, <2>1
    <2>3. CASE mine(d) = mine(c)
        BY <1>6, <2>1, <2>2, <2>3
    <2>4. CASE mine(d) # mine(c)
        BY <1>3, <1>6, <2>1, <2>2, <2>4 DEF Inv, RetryIsLater
    <2>5. QED
        BY <2>3, <2>4
<1>15. RetryIsNotSettledBefore'
    BY <1>3 DEF Inv, RetryIsNotSettledBefore
<1>16. QED
    BY <1>7, <1>8, <1>9, <1>10, <1>13, <1>14, <1>15 DEF Inv

\* The outcome of the launcher settles the only claim.
LEMMA PublishInv ==
    ASSUME Inv, NEW c \in Callers, NEW what \in {"result", "failure"}, publish(c, what),
           caller[c].at \in {"running", "failing"},
           UNCHANGED <<stage, entry, interest, owner, launched, number, total>>
    PROVE  Inv'
<1>1. /\ caller[c].at \in Owning /\ caller[c].at \in Claiming /\ answer(c)
      /\ outcome' = [outcome EXCEPT ![mine(c)] = what]
    BY DEF Owning, Claiming, publish
<1>2. /\ caller' \in [Callers -> CallerType] /\ InterestIsInside' /\ LockIsOwned'
      /\ LaunchIsOpen' /\ RetryIsLater' /\ OneLaunchPerOpening' /\ RetryIsNotSettledBefore'
    BY <1>1, AnswerStep
<1>3. mine(c) \in Entries /\ c \in interest[mine(c)]
    BY <1>1 DEF Inv, InterestIsInside, Inside
<1>4. /\ outcome' \in [Entries -> {"none", "result", "failure"}]
      /\ \A e \in Entries : e # mine(c) => outcome'[e] = outcome[e]
    BY <1>1, <1>3 DEF Inv, Types
<1>5. Types'
    BY <1>2, <1>4 DEF Inv, Types
<1>6. UnusedIsNew'
    BY <1>3, <1>4 DEF Inv, UnusedIsNew
<1>7. OpenIsRegistered'
    BY <1>1, <1>3, <1>4 DEF Inv, Types, OpenIsRegistered, OpenAttempt, settled
<1>8. \A d \in Callers : d # c => caller[d].at \notin Claiming
    BY <1>1, OneClaim DEF Inv, OpenAttempt, Owning, Claiming
<1>9. OpenAttempt'
    BY <1>1, <1>3, <1>8, AnswerFacts DEF OpenAttempt, Claiming
<1>10. QED
    BY <1>2, <1>5, <1>6, <1>7, <1>9 DEF Inv

LEMMA LaunchedInv == ASSUME Inv, NEW c \in Callers, Launched(c) PROVE Inv'
BY PublishInv DEF Launched, at, history

LEMMA PublishFailureInv == ASSUME Inv, NEW c \in Callers, PublishFailure(c) PROVE Inv'
BY PublishInv DEF PublishFailure, at, history

\* The failure of the launcher is recorded before it is published.
LEMMA LaunchFailsInv == ASSUME Inv, NEW c \in Callers, LaunchFails(c) PROVE Inv'
<1>1. /\ caller[c].at = "running" /\ launched' = launched
      /\ UNCHANGED <<dispatcher, number, total>>
      /\ stage' \in {stage, IF stage = "waiting" THEN "failed" ELSE stage}
    BY DEF LaunchFails, at, history
<1>2. PICK p \in {"failing", "leaving"} : move(c, p)
    BY DEF LaunchFails
<1>3. caller[c].at \in Owning /\ caller[c].at \in Claiming /\ p \in Owning /\ p \in Points
    BY <1>1 DEF Owning, Claiming, Points, Inside
<1>4. stage' \in {"pending", "waiting", "failed", "moved"} /\ launched' \in Nat
    BY <1>1 DEF Inv, Types
<1>5. /\ Types' /\ InterestIsInside' /\ LockIsOwned' /\ UnusedIsNew'
      /\ RetryIsLater' /\ OpenIsRegistered' /\ RetryIsNotSettledBefore'
    BY <1>1, <1>2, <1>3, <1>4, ClaimStep
<1>6. /\ caller'[c].at = p
      /\ \A d \in Callers : /\ d # c => caller'[d].at = caller[d].at
                            /\ caller'[d].entry = caller[d].entry
    BY <1>2, <1>3, MoveFacts DEF Inv, Types
<1>7. OpenAttempt'
    BY <1>1, <1>3, <1>6 DEF Inv, OpenAttempt, settled, mine, dispatcher
<1>8. LaunchIsOpen' /\ OneLaunchPerOpening'
    BY <1>1, <1>2, <1>6 DEF Inv, LaunchIsOpen, OneLaunchPerOpening, at
<1>9. QED
    BY <1>5, <1>7, <1>8 DEF Inv

\* Releasing the lock settles nothing.
LEMMA ReleaseInv == ASSUME Inv, NEW c \in Callers, Release(c) PROVE Inv'
<1>1. /\ caller[c].at = "leaving" /\ move(c, "released")
      /\ owner' = [owner EXCEPT ![mine(c)] = Nobody]
      /\ UNCHANGED <<stage, entry, interest, outcome, launched, number, total>>
    BY DEF Release, at, history
<1>2. /\ "leaving" \in Owning /\ "released" \in Points /\ "released" \in Inside
      /\ "released" \notin Owning /\ "leaving" \in Inside
    BY DEF Claiming, Owning, Points, Inside
<1>3. /\ caller' \in [Callers -> CallerType]
      /\ caller'[c].at = "released"
      /\ \A d \in Callers : /\ d # c => caller'[d].at = caller[d].at
                            /\ caller'[d].kind = caller[d].kind
                            /\ caller'[d].entry = caller[d].entry
                            /\ caller'[d].since = caller[d].since
                            /\ caller'[d].met = caller[d].met
                            /\ caller'[d].answer = caller[d].answer
    BY <1>1, <1>2, MoveFacts DEF Inv, Types
<1>4. mine(c) \in Entries /\ owner[mine(c)] = c
    BY <1>1, <1>2 DEF Inv, InterestIsInside, LockIsOwned
<1>5. /\ owner' \in [Entries -> Callers \cup {Nobody}] /\ owner'[mine(c)] = Nobody
      /\ \A e \in Entries : e # mine(c) => owner'[e] = owner[e]
    BY <1>1, <1>4 DEF Inv, Types
<1>6. Types'
    BY <1>1, <1>3, <1>5 DEF Inv, Types
<1>7. InterestIsInside'
    BY <1>1, <1>2, <1>3 DEF Inv, InterestIsInside, mine
<1>8. LockIsOwned'
    <2> SUFFICES ASSUME NEW d \in Callers, NEW e \in Entries
                 PROVE  owner'[e] = d <=> mine(d)' = e /\ caller'[d].at \in Owning
        BY DEF LockIsOwned
    <2>1. owner[e] = d <=> mine(d) = e /\ caller[d].at \in Owning
        BY DEF Inv, LockIsOwned
    <2>2. mine(d)' = mine(d)
        BY <1>3 DEF mine
    <2>3. CASE e = mine(c)
        BY <1>2, <1>3, <1>4, <1>5, <2>1, <2>2, <2>3, DispatchAssumption
    <2>4. CASE e # mine(c)
        BY <1>2, <1>3, <1>5, <2>1, <2>2, <2>4
    <2>5. QED
        BY <2>3, <2>4
<1>9. UnusedIsNew' /\ OpenIsRegistered'
    BY <1>1 DEF Inv, UnusedIsNew, OpenIsRegistered, settled
<1>10. OpenAttempt'
    BY <1>1, <1>3 DEF Inv, OpenAttempt, settled, mine, Claiming
<1>11. LaunchIsOpen' /\ OneLaunchPerOpening'
    BY <1>1, <1>3 DEF Inv, LaunchIsOpen, OneLaunchPerOpening, at
<1>12. RetryIsLater' /\ RetryIsNotSettledBefore'
    BY <1>1, <1>3 DEF Inv, RetryIsLater, RetryIsNotSettledBefore, mine
<1>13. QED
    BY <1>6, <1>7, <1>8, <1>9, <1>10, <1>11, <1>12 DEF Inv

\* The last one to leave an entry takes its outcome along.
LEMMA LeaveInv == ASSUME Inv, NEW c \in Callers, Leave(c) PROVE Inv'
<1>1. Types'
    <2>1. mine(c) \in Entries
        BY DEF Leave, Inv, InterestIsInside, at, Inside, Owning, Claiming
    <2>2. Out \in CallerType
        BY DEF Out, CallerType, Points
    <2>3. caller' \in [Callers -> CallerType]
        BY <2>2 DEF Leave, Inv, Types
    <2>4. /\ interest' \in [Entries -> SUBSET Callers]
          /\ entry' \in Entries \cup {0}
        BY <2>1 DEF Leave, Inv, Types
    <2>5. outcome' \in [Entries -> {"none", "result", "failure"}] /\ number' \in [Entries -> Nat]
        BY <2>1 DEF Leave, Inv, Types
    <2>6. QED
        BY <2>3, <2>4, <2>5 DEF Leave, Inv, Types
<1>2. InterestIsInside'
    BY EntriesAreNumbers, DispatchAssumption
       DEF Leave, Out, last_interest, history, dispatcher, Inv, mine, at, settled,
           InterestIsInside, Inside, Owning, Claiming, Types, CallerType
<1>3. LockIsOwned'
    BY EntriesAreNumbers, DispatchAssumption
       DEF Leave, Out, last_interest, history, dispatcher, Inv, mine, at, settled,
           LockIsOwned, InterestIsInside, Owning, Claiming, Inside, Types, CallerType
<1>4. UnusedIsNew'
    BY EntriesAreNumbers, DispatchAssumption
       DEF Leave, Out, last_interest, history, dispatcher, Inv, mine, at, settled,
           UnusedIsNew, InterestIsInside, Types, CallerType
<1>5. OpenAttempt'
    BY EntriesAreNumbers, DispatchAssumption
       DEF Leave, Out, last_interest, history, dispatcher, Inv, mine, at, settled,
           OpenAttempt, InterestIsInside, Inside, Owning, Claiming, LockIsOwned, UnusedIsNew,
           Types, CallerType
<1>6. LaunchIsOpen'
    BY EntriesAreNumbers, DispatchAssumption
       DEF Leave, Out, last_interest, history, dispatcher, Inv, mine, at, settled,
           LaunchIsOpen, OpenAttempt, Inside, Owning, Claiming, InterestIsInside, Types,
           CallerType
<1>7. RetryIsLater'
    <2> SUFFICES ASSUME NEW d \in Callers
                 PROVE  /\ caller'[d].since <= total'
                        /\ caller'[d].kind = "retry" /\ mine(d)' \in Entries =>
                              \/ number'[mine(d)'] > caller'[d].since
                              \/ number'[mine(d)'] = caller'[d].met
        BY DEF RetryIsLater
    <2>1. total \in Nat /\ total' = total /\ caller' = [caller EXCEPT ![c] = Out]
        BY DEF Leave, Inv, Types
    <2>2. CASE d = c
        <3>1. caller'[d] = Out
            BY <2>1, <2>2 DEF Inv, Types
        <3>2. QED
            BY <2>1, <3>1, EntriesAreNumbers DEF Out, mine
    <2>3. CASE d # c
        <3>1. caller'[d] = caller[d] /\ mine(d)' = mine(d)
            BY <2>1, <2>3 DEF Inv, Types, mine
        <3>2. ASSUME mine(d) \in Entries PROVE number'[mine(d)] = number[mine(d)]
            <4>1. d \in interest[mine(d)]
                BY <3>2 DEF Inv, InterestIsInside
            <4>2. mine(d) = mine(c) => interest[mine(c)] # {c}
                BY <4>1, <2>3
            <4>3. QED
                BY <3>2, <4>2 DEF Leave, Inv, Types
        <3>3. QED
            BY <2>1, <3>1, <3>2 DEF Inv, RetryIsLater
    <2>4. QED
        BY <2>2, <2>3
<1>8. OpenIsRegistered'
    BY EntriesAreNumbers, DispatchAssumption
       DEF Leave, Out, last_interest, history, dispatcher, Inv, mine, at, settled,
           OpenIsRegistered, InterestIsInside, Inside, Owning, Claiming, UnusedIsNew,
           OpenAttempt, Types, CallerType
<1>9. OneLaunchPerOpening'
    BY EntriesAreNumbers, DispatchAssumption
       DEF Leave, Out, last_interest, history, dispatcher, Inv, mine, at, settled,
           OneLaunchPerOpening, LaunchIsOpen, Types
<1>10. RetryIsNotSettledBefore'
    BY EntriesAreNumbers, DispatchAssumption
       DEF Leave, Out, last_interest, history, dispatcher, Inv, mine, at, settled,
           RetryIsNotSettledBefore, RetryIsLater, InterestIsInside, Inside, Owning, Claiming, Types,
           CallerType
<1>11. QED
    BY <1>1, <1>2, <1>3, <1>4, <1>5, <1>6, <1>7, <1>8, <1>9, <1>10 DEF Inv

LEMMA ReplacedInv == ASSUME Inv, Replaced PROVE Inv'
BY DEF Replaced, history, dispatcher, Inv, Types, CallerType, Points, Inside, Owning, Claiming,
   InterestIsInside, LockIsOwned, UnusedIsNew, OpenAttempt, LaunchIsOpen, RetryIsLater,
   OpenIsRegistered, OneLaunchPerOpening, RetryIsNotSettledBefore, mine, at, settled

\* Whoever enters an attempt other than the registered one enters a new one, and
\* the registered one is settled then.
LEMMA EnterInv == ASSUME Inv, NEW c \in Callers, Enter(c) PROVE Inv'
<1> DEFINE fresh == CHOOSE e \in Entries : interest[e] = {}
           e == IF new_attempt(caller[c].kind) THEN fresh ELSE entry
           m == IF settled(e) THEN 0 ELSE number[e]
           inside == [caller[c] EXCEPT !.at = "blocked", !.entry = e, !.met = m]
<1>a. fresh \in Entries /\ interest[fresh] = {}
    BY FreshEntry DEF Enter
<1>b. /\ caller[c].at = "called" /\ mine(c) \notin Entries
      /\ entry' = e /\ interest' = [interest EXCEPT ![e] = @ \cup {c}]
      /\ caller' = [caller EXCEPT ![c] = inside]
      /\ UNCHANGED <<stage, owner, outcome, calls, launched, number, total>>
    BY DEF Enter, at, Inv, InterestIsInside, Inside, Owning, Claiming, history
<1>c. /\ e \in Entries
      /\ ~ settled(e) \/ (caller[c].kind = "start" /\ e = entry)
      /\ e # entry => interest[e] = {} /\ (entry = 0 \/ settled(entry))
    BY <1>a DEF new_attempt, Inv, Types, CallerType, UnusedIsNew, settled
<1>d. /\ m \in Nat /\ ~ settled(e) => m = number[e]
      /\ inside \in CallerType /\ inside.at = "blocked" /\ inside.entry = e /\ inside.met = m
      /\ inside.kind = caller[c].kind /\ inside.since = caller[c].since
      /\ inside.answer = caller[c].answer
    <2>1. caller[c] \in CallerType /\ m \in Nat
        BY <1>c DEF Inv, Types
    <2> HIDE DEF m, e
    <2>2. "blocked" \in Points
        BY DEF Points, Inside
    <2>3. /\ inside \in CallerType /\ inside.at = "blocked" /\ inside.entry = e /\ inside.met = m
          /\ inside.kind = caller[c].kind /\ inside.since = caller[c].since
          /\ inside.answer = caller[c].answer
        BY <1>c, <2>1, <2>2 DEF CallerType
    <2>4. ~ settled(e) => m = number[e]
        BY DEF m
    <2>5. QED
        BY <2>1, <2>3, <2>4
<1> HIDE DEF fresh, e, m, inside
<1>1. Types'
    BY EntriesAreNumbers, DispatchAssumption, <1>b, <1>c, <1>d
       DEF Inv, mine, at, settled, Types, CallerType, Points, Inside, Owning, Claiming
<1>2. InterestIsInside'
    BY EntriesAreNumbers, DispatchAssumption, <1>b, <1>c, <1>d
       DEF Inv, mine, at, settled, InterestIsInside, Inside, Owning, Claiming, Types,
           CallerType
<1>3. LockIsOwned'
    BY EntriesAreNumbers, DispatchAssumption, <1>b, <1>c, <1>d
       DEF Inv, mine, at, settled, LockIsOwned, InterestIsInside, Owning, Claiming, Inside,
           Types, CallerType
<1>4. UnusedIsNew'
    BY EntriesAreNumbers, DispatchAssumption, <1>b, <1>c, <1>d
       DEF Inv, mine, at, settled, UnusedIsNew, InterestIsInside, Types,
           CallerType
<1>5. OpenAttempt'
    BY EntriesAreNumbers, DispatchAssumption, <1>b, <1>c, <1>d
       DEF Inv, mine, at, settled, OpenAttempt, InterestIsInside, Inside, Owning, Claiming,
           LockIsOwned, UnusedIsNew, Types, CallerType
<1>6. LaunchIsOpen'
    BY EntriesAreNumbers, DispatchAssumption, <1>b, <1>c, <1>d
       DEF Inv, mine, at, settled, LaunchIsOpen, OpenAttempt, Inside, Owning, Claiming,
           InterestIsInside, Types, CallerType
<1>7. RetryIsLater'
    BY EntriesAreNumbers, DispatchAssumption, <1>b, <1>c, <1>d
       DEF Inv, mine, at, settled, RetryIsLater, InterestIsInside, Inside, Owning, Claiming,
           UnusedIsNew, OpenIsRegistered, Types, CallerType
<1>8. OpenIsRegistered'
    BY EntriesAreNumbers, DispatchAssumption, <1>b, <1>c, <1>d
       DEF Inv, mine, at, settled, OpenIsRegistered, InterestIsInside, Inside,
           Owning, Claiming, UnusedIsNew, OpenAttempt, Types, CallerType
<1>9. OneLaunchPerOpening'
    BY EntriesAreNumbers, DispatchAssumption, <1>b, <1>c, <1>d
       DEF Inv, mine, at, settled, OneLaunchPerOpening, LaunchIsOpen, Types
<1>10. RetryIsNotSettledBefore'
    BY EntriesAreNumbers, DispatchAssumption, <1>b, <1>c, <1>d
       DEF Inv, mine, at, settled, RetryIsNotSettledBefore, RetryIsLater,
           InterestIsInside, Inside, Owning, Claiming, Types, CallerType
<1>11. QED
    BY <1>1, <1>2, <1>3, <1>4, <1>5, <1>6, <1>7, <1>8, <1>9, <1>10 DEF Inv

LEMMA NextInv == Inv /\ [Next]_vars => Inv'
<1> SUFFICES ASSUME Inv, [Next]_vars PROVE Inv'
    OBVIOUS
<1>1. CASE Replaced
    BY <1>1, ReplacedInv
<1>2. ASSUME NEW c \in Callers, Step(c) PROVE Inv'
    BY <1>2, EnterInv, AcquireInv, CompletedInv, StartInv, RetryInv, CommitInv, LaunchInv,
       LaunchedInv, LaunchFailsInv, PublishFailureInv, ReleaseInv, LeaveInv DEF Step
<1>3. ASSUME NEW c \in Callers, NEW kind \in {"start", "retry"}, Call(c, kind) PROVE Inv'
    BY <1>3, CallInv
<1>4. CASE UNCHANGED vars
    BY <1>4 DEF vars, dispatcher, history, Inv, Types, InterestIsInside, LockIsOwned,
       UnusedIsNew, OpenAttempt, LaunchIsOpen, RetryIsLater, OpenIsRegistered,
       OneLaunchPerOpening, RetryIsNotSettledBefore, mine, at, settled
<1>5. QED
    BY <1>1, <1>2, <1>3, <1>4 DEF Next

LEMMA Invariance == Spec => []Inv
BY InitInv, NextInv, PTL DEF Spec

-----------------------------------------------------------------------------

\* Types, and a lock held only by a caller interested in its entry
\* (ReplacementDispatchCoordinator, _DispatchEntry).
THEOREM TypeCorrect == Spec => []TypeOK
<1>1. Inv => TypeOK
    BY DispatchAssumption DEF Inv, Types, TypeOK, LockIsOwned, InterestIsInside
<1>2. QED
    BY <1>1, Invariance, PTL

\* One opening of the stage gets at most one launcher call, however many threads
\* read it before any acted (_dispatch_authority, claim).
THEOREM OneLaunchAlways == Spec => []OneLaunchPerOpening
<1>1. Inv => OneLaunchPerOpening
    BY DEF Inv
<1>2. QED
    BY <1>1, Invariance, PTL

\* No settled attempt answers a retry (owned_retry): the launcher call it is given
\* the outcome of began after it, or was unpublished when the retry entered.
THEOREM RetryIsNotSettledBeforeAlways == Spec => []RetryIsNotSettledBefore
<1>1. Inv => RetryIsNotSettledBefore
    BY DEF Inv
<1>2. QED
    BY <1>1, Invariance, PTL

\* While the launcher runs its attempt is the registered one, and an entry lives
\* as long as it has callers (in_flight, _leave).
THEOREM RegistryIsLiveAlways == Spec => []RegistryIsLive
<1>1. Inv => RegistryIsLive
    <2> SUFFICES ASSUME Inv PROVE RegistryIsLive
        OBVIOUS
    <2>1. ASSUME NEW c \in Callers, launching(c)
          PROVE  entry # 0 /\ owner[entry] = c
        <3>1. mine(c) \in Entries /\ c \in interest[mine(c)] /\ owner[mine(c)] = c
            BY <2>1 DEF Inv, InterestIsInside, LockIsOwned, launching, Inside, Owning, Claiming
        <3>2. mine(c) = entry
            BY <2>1, <3>1 DEF Inv, OpenAttempt, OpenIsRegistered, launching, Claiming
        <3>3. QED
            BY <3>1, <3>2, EntriesAreNumbers
    <2>2. QED
        BY <2>1 DEF Inv, OpenIsRegistered, RegistryIsLive
<1>2. QED
    BY <1>1, Invariance, PTL
=============================================================================
