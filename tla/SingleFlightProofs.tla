------------------------- MODULE SingleFlightProofs -------------------------
(***************************************************************************)
(* Proofs about SingleFlight, for any callers, any keys and any number of  *)
(* calls and changes of the inputs.                                        *)
(*                                                                         *)
(* A caller that joined is answered long after it compared keys, by a run  *)
(* that is no longer the flight when it is released.  So the invariant     *)
(* follows the answer: what a run was started with, or has computed, is    *)
(* among the inputs each of its riders has seen, until the rider has it.   *)
(***************************************************************************)
EXTENDS SingleFlight, TLAPS

\* The history of a call is made of keys, and holds the inputs as they are now.
SeenIsCurrent ==
    /\ seen \in [Callers -> SUBSET Keys]
    /\ \A c \in Callers : at[c] # "out" => current \in seen[c]

\* A caller at work, or with its result not yet handed over, owns the flight.
OwnerFlies == \A c \in Callers : at[c] \in {"working", "landing"} => flight = c

\* A rider waits for a run that has not been released.
RidersWait ==
    \A d \in Callers :
        /\ joined[d] # Nobody <=> at[d] = "joined"
        /\ at[d] = "joined" => at[joined[d]] \in {"working", "landing", "landed"}

\* What the run of o will answer, or answers, is among the inputs in S.
AnswerIn(o, S) ==
    /\ at[o] = "working" => key \in S
    /\ at[o] \in {"landing", "landed"} /\ answer[o] \in Keys => answer[o] \in S

\* A run's answer is one its owner and every rider has seen the inputs of.
AnswersAreSeen ==
    \A c \in Callers :
        /\ AnswerIn(c, seen[c])
        /\ at[c] = "joined" => AnswerIn(joined[c], seen[c])
        /\ at[c] = "returning" /\ answer[c] \in Keys => answer[c] \in seen[c]

\* While a run is in flight its key is the one it was started with.
LandsItsKey == \A c \in Callers : at[c] = "landing" => answer[c] \in {key, Failed}

Inv ==
    /\ TypeOK
    /\ SeenIsCurrent
    /\ OwnerFlies
    /\ RidersWait
    /\ AnswersAreSeen
    /\ LandsItsKey
    /\ AnsweredFromOwnInputs

-----------------------------------------------------------------------------

LEMMA InitInv == Init => Inv
BY SingleFlightAssumption DEF Init, Inv, TypeOK, SeenIsCurrent, OwnerFlies, RidersWait,
   AnswerIn, AnswersAreSeen, LandsItsKey, AnsweredFromOwnInputs, Nobody, Failed, Pending

\* The inputs change: every call that has begun sees the new ones.
LEMMA ChangeInv == ASSUME Inv, Change PROVE Inv'
BY SingleFlightAssumption DEF Change, Inv, TypeOK, SeenIsCurrent, OwnerFlies, RidersWait,
   AnswerIn, AnswersAreSeen, LandsItsKey, AnsweredFromOwnInputs

LEMMA CallInv == ASSUME Inv, NEW c \in Callers, Call(c) PROVE Inv'
BY SingleFlightAssumption DEF Call, moves, Inv, TypeOK, SeenIsCurrent, OwnerFlies, RidersWait,
   AnswerIn, AnswersAreSeen, LandsItsKey, AnsweredFromOwnInputs, Pending

\* A run starts only where none is in flight, from the inputs of now.
LEMMA TakeOffInv == ASSUME Inv, NEW c \in Callers, TakeOff(c) PROVE Inv'
BY SingleFlightAssumption DEF TakeOff, takes_off, moves, Inv, TypeOK, SeenIsCurrent, OwnerFlies,
   RidersWait, AnswerIn, AnswersAreSeen, LandsItsKey, AnsweredFromOwnInputs

\* Who joins has seen the key of the run in flight, which is that of the inputs now.
LEMMA JoinInv == ASSUME Inv, NEW c \in Callers, Join(c) PROVE Inv'
BY SingleFlightAssumption DEF Join, takes_off, shares, moves, Inv, TypeOK, SeenIsCurrent,
   OwnerFlies, RidersWait, AnswerIn, AnswersAreSeen, LandsItsKey, AnsweredFromOwnInputs, Failed

LEMMA WaitInv == ASSUME Inv, NEW c \in Callers, Wait(c) PROVE Inv'
BY SingleFlightAssumption DEF Wait, moves, Inv, TypeOK, SeenIsCurrent, OwnerFlies,
   RidersWait, AnswerIn, AnswersAreSeen, LandsItsKey, AnsweredFromOwnInputs

LEMMA WorkInv == ASSUME Inv, NEW c \in Callers, Work(c) PROVE Inv'
BY SingleFlightAssumption DEF Work, moves, Inv, TypeOK, SeenIsCurrent, OwnerFlies,
   RidersWait, AnswerIn, AnswersAreSeen, LandsItsKey, AnsweredFromOwnInputs, Failed

\* The flight is over before its riders are released.
LEMMA LandInv == ASSUME Inv, NEW c \in Callers, Land(c) PROVE Inv'
BY SingleFlightAssumption DEF Land, woken, Inv, TypeOK, SeenIsCurrent, OwnerFlies,
   RidersWait, AnswerIn, AnswersAreSeen, LandsItsKey, AnsweredFromOwnInputs

LEMMA ReleaseInv == ASSUME Inv, NEW c \in Callers, Release(c) PROVE Inv'
BY SingleFlightAssumption DEF Release, Inv, TypeOK, SeenIsCurrent, OwnerFlies,
   RidersWait, AnswerIn, AnswersAreSeen, LandsItsKey, AnsweredFromOwnInputs

LEMMA ReturnInv == ASSUME Inv, NEW c \in Callers, Return(c) PROVE Inv'
BY SingleFlightAssumption DEF Return, moves, Inv, TypeOK, SeenIsCurrent, OwnerFlies,
   RidersWait, AnswerIn, AnswersAreSeen, LandsItsKey, AnsweredFromOwnInputs

LEMMA NextInv == Inv /\ [Next]_vars => Inv'
<1> SUFFICES ASSUME Inv, [Next]_vars PROVE Inv'
    OBVIOUS
<1>1. CASE Change
    BY <1>1, ChangeInv
<1>2. ASSUME NEW c \in Callers, Call(c) \/ Step(c) PROVE Inv'
    BY <1>2, CallInv, TakeOffInv, JoinInv, WaitInv, WorkInv, LandInv, ReleaseInv, ReturnInv
       DEF Step
<1>3. CASE UNCHANGED vars
    BY <1>3 DEF vars, Inv, TypeOK, SeenIsCurrent, OwnerFlies, RidersWait, AnswerIn,
       AnswersAreSeen, LandsItsKey, AnsweredFromOwnInputs
<1>4. QED
    BY <1>1, <1>2, <1>3 DEF Next

LEMMA Invariance == Spec => []Inv
BY InitInv, NextInv, PTL DEF Spec

-----------------------------------------------------------------------------

\* Types of the coordinator's state, and that a flight has an owner at work
\* (SingleFlight._flight, _Flight).
THEOREM TypeCorrect == Spec => []TypeOK
<1>1. Inv => TypeOK
    BY DEF Inv
<1>2. QED
    BY <1>1, Invariance, PTL

\* The shared refresh never runs twice at a time (SingleFlight.run).
THEOREM OneRunAlways == Spec => []OneRun
<1>1. Inv => OneRun
    BY DEF Inv, OwnerFlies, OneRun
<1>2. QED
    BY <1>1, Invariance, PTL

\* No caller is answered from inputs other than its own, although it may join a
\* run and read the answer long after the inputs changed (SingleFlight.run).
THEOREM AnsweredFromOwnInputsAlways == Spec => []AnsweredFromOwnInputs
<1>1. Inv => AnsweredFromOwnInputs
    BY DEF Inv
<1>2. QED
    BY <1>1, Invariance, PTL
=============================================================================
