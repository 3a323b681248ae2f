---------------------------- MODULE MutationSlot ----------------------------
(***************************************************************************)
(* What appliance/operations.py promises whoever plans an operation:       *)
(* "Durable, single-writer operation store with one active mutation".      *)
(* An operation takes the slot once nobody holds it or works in it, keeps  *)
(* it while its end is open, and is started again only from a failure that *)
(* left it startable.  A stop of the agent loses the work and never the    *)
(* operation.                                                              *)
(*                                                                         *)
(* The code keeps this up to two exceptions, which are actions of their    *)
(* own: Overtake and Disown.  An operation they befall is a stray, and the *)
(* slot is not kept free of its thread.                                    *)
(***************************************************************************)
CONSTANTS Operation

VARIABLES
    phase,          \* where each operation is
    work,           \* the operations a thread works for
    stray           \* the operations that may work beside the holder

\* held: it has the slot.  ending: it has the slot, and only until there is room
\* to write its end.  settled: it failed and may be started again.
Phases == {"none", "held", "ending", "settled", "ended"}

HasSlot(o) == phase[o] \in {"held", "ending"}

Init == phase = [o \in Operation |-> "none"] /\ work = {} /\ stray = {}

\* Operations whose end is written, and nothing else.
Written(o, next) ==
    \/ next[o] = phase[o]
    \/ phase[o] \in {"ending", "settled"} /\ next[o] \in {"settled", "ended"}

\* The slot changes hands: what was only ending is written first.
Take(o) ==
    /\ phase[o] = "none" /\ work \subseteq stray /\ work' = work \cup {o}
    /\ phase'[o] = "held"
    /\ \A x \in Operation \ {o} : Written(x, phase') /\ phase'[x] \notin {"held", "ending"}
    /\ UNCHANGED stray

\* The holder is started.
Begin(o) ==
    /\ HasSlot(o) /\ \A x \in Operation \ ({o} \cup stray) : ~ HasSlot(x)
    /\ work \subseteq stray /\ work' \in {work, work \cup {o}}
    /\ phase' = [phase EXCEPT ![o] = "held"]
    /\ UNCHANGED stray

\* A failure is started again, in a slot nobody has.
Again(o) ==
    /\ phase[o] = "settled" /\ \A x \in Operation \ {o} : ~ HasSlot(x)
    /\ work \subseteq stray /\ work' \in {work, work \cup {o}}
    /\ phase' = [phase EXCEPT ![o] = "held"]
    /\ stray' = stray \ {o}

\* A request that saw the operation before it failed starts it again, whoever has
\* the slot.
Overtake(o) ==
    /\ phase[o] = "settled"
    /\ work' \in {work, work \cup {o}}
    /\ phase' = [phase EXCEPT ![o] = "held"]
    /\ stray' = stray \cup {o}

\* Its end is decided, and written now or later; a thread may work on for it.
End(o) ==
    /\ HasSlot(o)
    /\ \E p \in {"held", "ending", "settled", "ended"} : phase' = [phase EXCEPT ![o] = p]
    /\ work' \in {work, work \ {o}}
    /\ UNCHANGED stray

\* It is ended by a thread that failed at it before it was started again.
Disown(o) ==
    /\ o \in work /\ HasSlot(o)
    /\ \E p \in {"ending", "ended"} : phase' = [phase EXCEPT ![o] = p]
    /\ stray' = stray \cup {o}
    /\ UNCHANGED work

\* A failure nobody starts again.
GiveUp(o) ==
    /\ phase[o] = "settled"
    /\ phase' \in {[phase EXCEPT ![o] = "ended"], phase}
    /\ work' \in {work, work \ {o}}
    /\ UNCHANGED stray

Leave(o) == work' = work \ {o} /\ UNCHANGED <<phase, stray>>

\* Ends are written when somebody asks for the slot and does not get it.
Write ==
    /\ \A o \in Operation : Written(o, phase')
    /\ phase' \in [Operation -> Phases]
    /\ UNCHANGED <<work, stray>>

\* The agent stops: no thread is left, and what had the slot ends.
Stop ==
    /\ work' = {}
    /\ phase' \in [Operation -> Phases]
    /\ \A o \in Operation :
          IF HasSlot(o) THEN phase'[o] \in {"ending", "settled", "ended"} ELSE phase'[o] = phase[o]
    /\ UNCHANGED stray

Next ==
    \/ Write \/ Stop
    \/ \E o \in Operation :
          \/ Take(o) \/ Begin(o) \/ Again(o) \/ Overtake(o)
          \/ End(o) \/ Disown(o) \/ GiveUp(o) \/ Leave(o)

Spec == Init /\ [][Next]_<<phase, work, stray>>
=============================================================================
