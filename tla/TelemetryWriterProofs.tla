------------------------ MODULE TelemetryWriterProofs ------------------------
(***************************************************************************)
(* Proofs about TelemetryWriter, for any queue, batch and retry limits and *)
(* any number of batches.                                                  *)
(*                                                                         *)
(* A batch goes from the queue through the worker's hand to a write, which *)
(* stores it, gives it up or both, unless the queue refuses it.  What was  *)
(* written precedes what is in hand, which precedes what waits, and each   *)
(* of the three is increasing: so taking from the queue's head and storing *)
(* at the end keep the order, and no batch is in two places.               *)
(***************************************************************************)
EXTENDS TelemetryWriter, SequenceTheorems, TLAPS

Increasing(s) == \A i, j \in 1..Len(s) : i < j => s[j] = Nil \/ s[i] < s[j]
Precedes(A, B) == \A a \in A, b \in B : a < b

Waiting == Range(queue) \ {Nil}
InHand == Range(hand)
Stored == Range(written)
Written == Stored \cup failed

Schemas == [checked : BOOLEAN, reports : Nat, failures : Nat, probe : Nat, due : BOOLEAN]

\* Types, with those of the history.
Types ==
    /\ TypeOK
    /\ schema \in Schemas
    /\ written \in Seq(Nat) /\ offered \in Nat /\ dropped \subseteq Nat /\ failed \subseteq Nat

\* Batches are numbered from one; only the queue may hold the wake-up.
Numbered == Nil \notin InHand /\ Nil \notin Stored

InOrder ==
    /\ Increasing(queue) /\ Increasing(hand) /\ Increasing(written)
    /\ Precedes(Written, InHand) /\ Precedes(Written, Waiting) /\ Precedes(InHand, Waiting)

\* Every batch offered is somewhere, and the refused ones are nowhere else.
Somewhere ==
    /\ 1..offered = Waiting \cup InHand \cup Written \cup dropped
    /\ dropped \cap (Waiting \cup InHand \cup Written) = {}

\* The worker holds a batch only from taking to writing it.
HandHeld == worker \in {"idle", "checking", "over"} => hand = <<>>

\* A schema check runs only while its reports and failures last.
CheckAllowed ==
    worker = "checking" => schema.reports < SchemaReports /\ schema.failures < SchemaFailures

Inv ==
    /\ Types
    /\ Numbered
    /\ InOrder
    /\ Somewhere
    /\ HandHeld
    /\ CheckAllowed

-----------------------------------------------------------------------------
(***************************************************************************)
(* Sequences of batch numbers.                                             *)
(***************************************************************************)

LEMMA RangeAppend ==
    ASSUME NEW s \in Seq(Nat), NEW x \in Nat
    PROVE  Append(s, x) \in Seq(Nat) /\ Range(Append(s, x)) = Range(s) \cup {x}
<1> DEFINE t == Append(s, x)
<1>1. /\ t \in Seq(Nat) /\ Len(t) = Len(s) + 1 /\ t[Len(s) + 1] = x
      /\ DOMAIN t = 1..Len(s) + 1 /\ DOMAIN s = 1..Len(s) /\ Len(s) \in Nat
      /\ \A i \in 1..Len(s) : t[i] = s[i]
    OBVIOUS
<1> HIDE DEF t
<1>2. QED
    BY <1>1 DEF Range

LEMMA RangeTail ==
    ASSUME NEW s \in Seq(Nat), s # <<>>
    PROVE  /\ Tail(s) \in Seq(Nat) /\ Head(s) \in Nat /\ Len(Tail(s)) = Len(s) - 1
           /\ Range(s) = {Head(s)} \cup Range(Tail(s))
<1> DEFINE t == Tail(s)
<1>1. /\ t \in Seq(Nat) /\ Len(t) = Len(s) - 1 /\ Head(s) = s[1] /\ Head(s) \in Nat
      /\ DOMAIN t = 1..Len(s) - 1 /\ DOMAIN s = 1..Len(s) /\ Len(s) \in Nat \ {0}
      /\ \A i \in 1..Len(s) - 1 : t[i] = s[i + 1]
    OBVIOUS
<1> HIDE DEF t
<1>2. ASSUME NEW y \in Range(s) PROVE y \in {Head(s)} \cup Range(t)
    <2>1. PICK i \in 1..Len(s) : y = s[i]
        BY <1>1 DEF Range
    <2>2. CASE i = 1
        BY <1>1, <2>1, <2>2
    <2>3. CASE i # 1
        <3>1. i - 1 \in 1..Len(s) - 1 /\ (i - 1) + 1 = i
            BY <1>1, <2>3
        <3>2. t[i - 1] = s[i]
            BY <1>1, <3>1
        <3>3. QED
            BY <1>1, <2>1, <3>1, <3>2 DEF Range
    <2>4. QED
        BY <2>2, <2>3
<1>3. ASSUME NEW y \in {Head(s)} \cup Range(t) PROVE y \in Range(s)
    <2>1. CASE y = Head(s)
        BY <1>1, <2>1 DEF Range
    <2>2. CASE y \in Range(t)
        <3>1. PICK i \in 1..Len(s) - 1 : y = t[i]
            BY <1>1, <2>2 DEF Range
        <3>2. i + 1 \in 1..Len(s) /\ y = s[i + 1]
            BY <1>1, <3>1
        <3>3. QED
            BY <1>1, <3>2 DEF Range
    <2>3. QED
        BY <1>3, <2>1, <2>2
<1>4. QED
    BY <1>1, <1>2, <1>3 DEF t

LEMMA RangeConcat ==
    ASSUME NEW s \in Seq(Nat), NEW t \in Seq(Nat)
    PROVE  s \o t \in Seq(Nat) /\ Range(s \o t) = Range(s) \cup Range(t)
<1> DEFINE u == s \o t
<1>1. /\ u \in Seq(Nat) /\ Len(u) = Len(s) + Len(t) /\ Len(s) \in Nat /\ Len(t) \in Nat
      /\ DOMAIN u = 1..Len(s) + Len(t) /\ DOMAIN s = 1..Len(s) /\ DOMAIN t = 1..Len(t)
      /\ \A i \in 1..Len(s) : u[i] = s[i]
      /\ \A i \in 1..Len(t) : u[Len(s) + i] = t[i]
    OBVIOUS
<1> HIDE DEF u
<1>2. ASSUME NEW y \in Range(u) PROVE y \in Range(s) \cup Range(t)
    <2>1. PICK i \in 1..Len(s) + Len(t) : y = u[i]
        BY <1>1 DEF Range
    <2>2. CASE i <= Len(s)
        <3>1. i \in 1..Len(s)
            BY <1>1, <2>2
        <3>2. QED
            BY <1>1, <2>1, <3>1 DEF Range
    <2>3. CASE i > Len(s)
        <3>1. i - Len(s) \in 1..Len(t) /\ Len(s) + (i - Len(s)) = i
            BY <1>1, <2>3
        <3>2. u[i] = t[i - Len(s)]
            BY <1>1, <3>1
        <3>3. QED
            BY <1>1, <2>1, <3>1, <3>2 DEF Range
    <2>4. QED
        BY <1>1, <2>2, <2>3
<1>3. ASSUME NEW y \in Range(s) \cup Range(t) PROVE y \in Range(u)
    <2>1. ASSUME NEW i \in 1..Len(s), y = s[i] PROVE y \in Range(u)
        <3>1. i \in 1..Len(s) + Len(t)
            BY <1>1
        <3>2. QED
            BY <1>1, <2>1, <3>1 DEF Range
    <2>2. ASSUME NEW i \in 1..Len(t), y = t[i] PROVE y \in Range(u)
        <3>1. Len(s) + i \in 1..Len(s) + Len(t)
            BY <1>1
        <3>2. QED
            BY <1>1, <2>2, <3>1 DEF Range
    <2>3. QED
        BY <1>1, <1>3, <2>1, <2>2 DEF Range
<1>4. QED
    BY <1>1, <1>2, <1>3 DEF u

\* What comes last in an increasing sequence may be anything greater, or the wake-up.
LEMMA AppendIncreasing ==
    ASSUME NEW s \in Seq(Nat), Increasing(s), NEW x \in Nat,
           x = Nil \/ \A y \in Range(s) : y < x
    PROVE  Increasing(Append(s, x))
<1> DEFINE t == Append(s, x)
<1>1. /\ Len(t) = Len(s) + 1 /\ Len(s) \in Nat /\ DOMAIN s = 1..Len(s)
      /\ \A i \in 1..Len(s) : t[i] = s[i]
      /\ t[Len(s) + 1] = x
    OBVIOUS
<1> HIDE DEF t
<1>2. ASSUME NEW i \in 1..Len(t), NEW j \in 1..Len(t), i < j PROVE t[j] = Nil \/ t[i] < t[j]
    <2>1. i \in 1..Len(s) /\ t[i] = s[i]
        BY <1>1, <1>2
    <2>2. CASE j <= Len(s)
        <3>1. j \in 1..Len(s) /\ t[j] = s[j]
            BY <1>1, <2>2
        <3>2. QED
            BY <1>2, <2>1, <3>1 DEF Increasing
    <2>3. CASE j > Len(s)
        <3>1. t[j] = x
            BY <1>1, <2>3
        <3>2. s[i] \in Range(s)
            BY <1>1, <2>1 DEF Range
        <3>3. QED
            BY <2>1, <3>1, <3>2
    <2>4. QED
        BY <1>1, <2>2, <2>3
<1>3. QED
    BY <1>2 DEF t, Increasing

LEMMA TailIncreasing ==
    ASSUME NEW s \in Seq(Nat), s # <<>>, Increasing(s)
    PROVE  Increasing(Tail(s)) /\ \A y \in Range(Tail(s)) \ {Nil} : Head(s) < y
<1> DEFINE t == Tail(s)
<1>1. /\ Len(t) = Len(s) - 1 /\ Head(s) = s[1] /\ Len(s) \in Nat \ {0}
      /\ DOMAIN t = 1..Len(s) - 1
      /\ \A i \in 1..Len(s) - 1 : t[i] = s[i + 1]
    OBVIOUS
<1> HIDE DEF t
<1>2. ASSUME NEW i \in 1..Len(t), NEW j \in 1..Len(t), i < j PROVE t[j] = Nil \/ t[i] < t[j]
    <2>1. i + 1 \in 1..Len(s) /\ j + 1 \in 1..Len(s) /\ i + 1 < j + 1
        BY <1>1, <1>2
    <2>2. t[i] = s[i + 1] /\ t[j] = s[j + 1]
        BY <1>1
    <2>3. QED
        BY <2>1, <2>2 DEF Increasing
<1>3. ASSUME NEW y \in Range(t) \ {Nil} PROVE Head(s) < y
    <2>1. PICK i \in 1..Len(s) - 1 : y = t[i]
        BY <1>1 DEF Range
    <2>2. 1 \in 1..Len(s) /\ i + 1 \in 1..Len(s) /\ 1 < i + 1 /\ y = s[i + 1]
        BY <1>1, <2>1
    <2>3. QED
        BY <1>1, <2>2 DEF Increasing
<1>4. QED
    BY <1>2, <1>3 DEF t, Increasing

LEMMA ConcatIncreasing ==
    ASSUME NEW s \in Seq(Nat), NEW t \in Seq(Nat), Increasing(s), Increasing(t),
           Precedes(Range(s), Range(t))
    PROVE  Increasing(s \o t)
<1> DEFINE u == s \o t
<1>1. /\ Len(u) = Len(s) + Len(t) /\ Len(s) \in Nat /\ Len(t) \in Nat
      /\ DOMAIN s = 1..Len(s) /\ DOMAIN t = 1..Len(t)
      /\ \A i \in 1..Len(s) : u[i] = s[i]
      /\ \A i \in 1..Len(t) : u[Len(s) + i] = t[i]
    OBVIOUS
<1> HIDE DEF u
<1>2. ASSUME NEW i \in 1..Len(u), NEW j \in 1..Len(u), i < j PROVE u[j] = Nil \/ u[i] < u[j]
    <2>1. CASE j <= Len(s)
        <3>1. i \in 1..Len(s) /\ j \in 1..Len(s)
            BY <1>1, <1>2, <2>1
        <3>2. QED
            BY <1>1, <1>2, <3>1 DEF Increasing
    <2>2. CASE j > Len(s)
        <3>1. j - Len(s) \in 1..Len(t) /\ Len(s) + (j - Len(s)) = j
            BY <1>1, <2>2
        <3>2. u[j] = t[j - Len(s)]
            BY <1>1, <3>1
        <3>3. CASE i <= Len(s)
            <4>1. i \in 1..Len(s)
                BY <1>1, <3>3
            <4>2. u[i] \in Range(s) /\ u[j] \in Range(t)
                BY <1>1, <3>1, <3>2, <4>1 DEF Range
            <4>3. QED
                BY <4>2 DEF Precedes
        <3>4. CASE i > Len(s)
            <4>1. i - Len(s) \in 1..Len(t) /\ Len(s) + (i - Len(s)) = i
                BY <1>1, <3>4
            <4>2. u[i] = t[i - Len(s)]
                BY <1>1, <4>1
            <4>3. i - Len(s) < j - Len(s)
                BY <1>1, <1>2
            <4>4. QED
                BY <3>1, <3>2, <4>1, <4>2, <4>3 DEF Increasing
        <3>5. QED
            BY <1>1, <3>3, <3>4
    <2>3. QED
        BY <1>1, <2>1, <2>2
<1>3. QED
    BY <1>2 DEF u, Increasing

LEMMA Empty == Range(<<>>) = {} /\ Increasing(<<>>) /\ <<>> \in Seq(Nat) /\ Len(<<>>) = 0
BY DEF Range, Increasing
-----------------------------------------------------------------------------
(***************************************************************************)
(* The steps.                                                              *)
(***************************************************************************)

\* Every batch that is anywhere has been offered.
LEMMA Offered ==
    ASSUME Inv
    PROVE  /\ \A y \in Waiting \cup InHand \cup Written \cup dropped : y \in Nat /\ 1 <= y /\ y <= offered
           /\ \A y \in Range(queue) : y \in Nat /\ y < offered + 1
           /\ offered \in Nat
<1>1. 1..offered = Waiting \cup InHand \cup Written \cup dropped /\ offered \in Nat
    BY DEF Inv, Somewhere, Types
<1>2. Range(queue) \subseteq Waiting \cup {Nil}
    BY DEF Waiting
<1>3. QED
    BY <1>1, <1>2 DEF Nil

LEMMA InitInv == Init => Inv
<1> SUFFICES ASSUME Init PROVE Inv
    OBVIOUS
<1>1. Waiting = {} /\ InHand = {} /\ Written = {} /\ Stored = {} /\ InOrder
    BY Empty DEF Init, Waiting, InHand, Stored, Written, InOrder, Precedes
<1>2. schema \in Schemas
    <2>1. FALSE \in BOOLEAN /\ TRUE \in BOOLEAN
        BY Zenon
    <2>2. QED
        BY <2>1 DEF Init, Schemas
<1>3. Types
    BY <1>2, Empty, WriterAssumption DEF Init, Types, TypeOK
<1>4. QED
    BY <1>1, <1>3 DEF Init, Inv, Numbered, Somewhere, HandHeld, CheckAllowed

LEMMA EnqueueInv == ASSUME Inv, Enqueue PROVE Inv'
<1>1. offered' = offered + 1 /\ offered' \in Nat
    BY DEF Enqueue, Inv, Types
<1>2. UNCHANGED <<worker, hand, written, failed, schema>>
    BY DEF Enqueue, writerVars, ends
<1>3. CASE Len(queue) < MaxQueue
    <2>1. queue' = Append(queue, offered + 1) /\ dropped' = dropped
        BY <1>3 DEF Enqueue
    <2>2. queue \in Seq(Nat) /\ offered + 1 \in Nat /\ offered + 1 # Nil
        BY DEF Inv, Types, TypeOK, Nil
    <2>3. /\ queue' \in Seq(Nat) /\ Range(queue') = Range(queue) \cup {offered + 1}
          /\ Len(queue') = Len(queue) + 1
        BY <2>1, <2>2, RangeAppend
    <2>4. Waiting' = Waiting \cup {offered + 1}
        BY <2>2, <2>3 DEF Waiting
    <2>5. Increasing(queue')
        BY <2>1, <2>2, Offered, AppendIncreasing DEF Inv, InOrder
    <2>6. Types'
        BY <1>1, <1>2, <1>3, <2>1, <2>3, WriterAssumption DEF Inv, Types, TypeOK
    <2>7. InOrder'
        BY <1>2, <2>4, <2>5, Offered DEF Inv, InOrder, InHand, Stored, Written, Precedes
    <2>8. Somewhere'
        <3>1. 1..offered + 1 = 1..offered \cup {offered + 1}
            BY DEF Inv, Types
        <3>2. offered + 1 \notin dropped
            BY Offered
        <3>3. QED
            BY <1>1, <1>2, <2>1, <2>4, <3>1, <3>2 DEF Inv, Somewhere, InHand, Stored, Written
    <2>9. QED
        BY <1>2, <2>6, <2>7, <2>8 DEF Inv, Numbered, InHand, Stored, Written, HandHeld, CheckAllowed
<1>4. CASE ~(Len(queue) < MaxQueue)
    <2>1. queue' = queue /\ dropped' = dropped \cup {offered + 1}
        BY <1>4 DEF Enqueue
    <2>2. Types'
        BY <1>1, <1>2, <2>1 DEF Inv, Types, TypeOK
    <2>3. Somewhere'
        <3>1. 1..offered + 1 = 1..offered \cup {offered + 1}
            BY DEF Inv, Types
        <3>2. offered + 1 \notin Waiting \cup InHand \cup Written
            BY Offered
        <3>3. QED
            BY <1>1, <1>2, <2>1, <3>1, <3>2 DEF Inv, Somewhere, Waiting, InHand, Stored, Written
    <2>4. QED
        BY <1>2, <2>1, <2>2, <2>3
           DEF Inv, Numbered, InOrder, Waiting, InHand, Stored, Written, HandHeld, CheckAllowed
<1>5. QED
    BY <1>3, <1>4

LEMMA WakeUpInv == ASSUME Inv, WakeUp PROVE Inv'
<1>1. UNCHANGED <<worker, hand, written, schema, offered, dropped, failed>>
    BY DEF WakeUp, writerVars, ends
<1>2. queue \in Seq(Nat) /\ Nil \in Nat
    BY DEF Inv, Types, TypeOK, Nil
<1>3. /\ queue' \in Seq(Nat) /\ Len(queue') <= MaxQueue
      /\ Waiting' = Waiting /\ Increasing(queue')
    <2>1. CASE Len(queue) < MaxQueue
        <3>1. queue' = Append(queue, Nil) /\ Len(queue') = Len(queue) + 1
            BY <1>2, <2>1 DEF WakeUp
        <3>2. queue' \in Seq(Nat) /\ Range(queue') = Range(queue) \cup {Nil}
            BY <1>2, <3>1, RangeAppend
        <3>3. Increasing(queue')
            BY <1>2, <3>1, AppendIncreasing DEF Inv, InOrder
        <3>4. QED
            BY <1>2, <2>1, <3>1, <3>2, <3>3, WriterAssumption DEF Waiting
    <2>2. CASE ~(Len(queue) < MaxQueue)
        BY <2>2 DEF WakeUp, Inv, Types, TypeOK, InOrder, Waiting
    <2>3. QED
        BY <2>1, <2>2
<1>4. QED
    BY <1>1, <1>3 DEF Inv, Types, TypeOK, Numbered, InOrder, InHand, Stored, Written, Somewhere,
       HandHeld, CheckAllowed

\* Taking the head of the queue: it is least, and leaves the rest in order.
LEMMA HeadTaken ==
    ASSUME Inv, queue # <<>>, queue' = Tail(queue)
    PROVE  /\ queue' \in Seq(Nat) /\ Len(queue') <= MaxQueue /\ Increasing(queue')
           /\ Head(queue) \in Nat
           /\ Head(queue) # Nil =>
                /\ Waiting = Waiting' \cup {Head(queue)}
                /\ \A y \in Waiting' : Head(queue) < y
           /\ Head(queue) = Nil => Waiting' = Waiting
<1>1. queue \in Seq(Nat) /\ Increasing(queue) /\ Len(queue) <= MaxQueue
    BY DEF Inv, Types, TypeOK, InOrder
<1>2. /\ queue' \in Seq(Nat) /\ Head(queue) \in Nat /\ Len(queue') = Len(queue) - 1
      /\ Range(queue) = {Head(queue)} \cup Range(queue')
    BY <1>1, RangeTail
<1>3. Increasing(queue') /\ \A y \in Range(queue') \ {Nil} : Head(queue) < y
    BY <1>1, TailIncreasing
<1>4. Len(queue') <= MaxQueue
    BY <1>1, <1>2, WriterAssumption
<1>5. QED
    BY <1>2, <1>3, <1>4 DEF Waiting

LEMMA TakeInv == ASSUME Inv, Take PROVE Inv'
<1>1. /\ queue # <<>> /\ queue' = Tail(queue) /\ worker = "idle" /\ hand = <<>>
      /\ UNCHANGED <<written, schema, offered, dropped, failed>>
    BY DEF Take, Inv, HandHeld, ends
<1>2. InHand = {}
    BY <1>1, Empty DEF InHand
<1>3. CASE Head(queue) = Nil
    <2>1. worker' = "over" /\ hand' = hand
        BY <1>3 DEF Take
    <2>2. Waiting' = Waiting
        BY <1>1, <1>3, HeadTaken
    <2>3. QED
        BY <1>1, <2>1, <2>2, HeadTaken DEF Inv, Types, TypeOK, Numbered, InOrder, InHand,
           Stored, Written, Somewhere, HandHeld, CheckAllowed
<1>4. CASE Head(queue) # Nil
    <2>1. worker' = "draining" /\ hand' = <<Head(queue)>>
        BY <1>4 DEF Take
    <2>2. /\ hand' \in Seq(Nat) /\ Len(hand') = 1 /\ Range(hand') = {Head(queue)}
          /\ Increasing(hand')
        <3>1. Head(queue) \in Nat
            BY <1>1, HeadTaken
        <3>2. hand' = Append(<<>>, Head(queue))
            BY <2>1
        <3>3. Increasing(hand')
            BY <3>1, <3>2, Empty, AppendIncreasing
        <3>4. hand' \in Seq(Nat) /\ Range(hand') = {Head(queue)}
            BY <3>1, <3>2, Empty, RangeAppend
        <3>5. QED
            BY <2>1, <3>3, <3>4
    <2>3. InHand' = {Head(queue)}
        BY <2>2 DEF InHand
    <2>4. Types'
        BY <1>1, <2>1, <2>2, HeadTaken, WriterAssumption DEF Inv, Types, TypeOK
    <2>5. InOrder'
        BY <1>1, <1>4, <2>2, <2>3, HeadTaken DEF Inv, InOrder, Stored, Written, Precedes
    <2>6. Somewhere'
        BY <1>1, <1>2, <1>4, <2>3, HeadTaken DEF Inv, Somewhere, Stored, Written
    <2>7. QED
        BY <1>1, <1>4, <2>1, <2>3, <2>4, <2>5, <2>6
           DEF Inv, Numbered, Stored, Written, HandHeld, CheckAllowed
<1>5. QED
    BY <1>3, <1>4

LEMMA DrainInv == ASSUME Inv, Drain PROVE Inv'
<1>1. worker = "draining" /\ UNCHANGED <<written, schema, offered, dropped, failed>>
    BY DEF Drain, ends
<1>2. CASE queue = <<>> \/ Len(hand) >= BatchMax
    BY <1>1, <1>2 DEF Drain, Inv, Types, TypeOK, Numbered, InOrder, Waiting, InHand, Stored, Written,
       Somewhere, HandHeld, CheckAllowed
<1>3. CASE ~(queue = <<>> \/ Len(hand) >= BatchMax)
    <2>1. queue # <<>> /\ queue' = Tail(queue)
        BY <1>3 DEF Drain
    <2>2. CASE Head(queue) = Nil
        <3>1. worker' = "writing" /\ hand' = hand
            BY <1>3, <2>2 DEF Drain
        <3>2. Waiting' = Waiting
            BY <2>1, <2>2, HeadTaken
        <3>3. QED
            BY <1>1, <2>1, <3>1, <3>2, HeadTaken DEF Inv, Types, TypeOK, Numbered, InOrder,
               InHand, Stored, Written, Somewhere, HandHeld, CheckAllowed
    <2>3. CASE Head(queue) # Nil
        <3>1. worker' = worker /\ hand' = Append(hand, Head(queue))
            BY <1>3, <2>3 DEF Drain
        <3>2. hand \in Seq(Nat) /\ Increasing(hand) /\ Head(queue) \in Nat /\ Len(hand) < BatchMax
            BY <1>3, <2>1, HeadTaken, WriterAssumption DEF Inv, Types, TypeOK, InOrder
        <3>3. hand' \in Seq(Nat) /\ InHand' = InHand \cup {Head(queue)} /\ Len(hand') = Len(hand) + 1
            BY <3>1, <3>2, RangeAppend DEF InHand
        <3>4. Head(queue) \in Waiting
            BY <2>1, <2>3, HeadTaken
        <3>5. Increasing(hand')
            BY <3>1, <3>2, <3>4, AppendIncreasing DEF Inv, InOrder, Precedes, InHand
        <3>6. Types'
            <4>1. Len(hand') <= BatchMax
                BY <3>2, <3>3, WriterAssumption
            <4>2. queue' \in Seq(Nat) /\ Len(queue') <= MaxQueue
                BY <2>1, HeadTaken
            <4>3. QED
                BY <1>1, <3>1, <3>3, <4>1, <4>2 DEF Inv, Types, TypeOK
        <3>7. InOrder'
            BY <1>1, <2>1, <2>3, <3>3, <3>4, <3>5, HeadTaken DEF Inv, InOrder, Stored, Written, Precedes
        <3>8. Somewhere'
            BY <1>1, <2>1, <2>3, <3>3, HeadTaken DEF Inv, Somewhere, Stored, Written
        <3>9. QED
            BY <1>1, <2>3, <3>1, <3>3, <3>6, <3>7, <3>8
               DEF Inv, Numbered, Stored, Written, HandHeld, CheckAllowed
    <2>4. QED
        BY <2>2, <2>3
<1>4. QED
    BY <1>2, <1>3

\* What may be stored of a sequence is in it, and in its order.
LEMMA Parts ==
    ASSUME NEW s \in Seq(Nat), Increasing(s), NEW part \in parts(s)
    PROVE  part \in Seq(Nat) /\ Range(part) \subseteq Range(s) /\ Increasing(part)
<1>1. PICK n \in 0..Len(s) :
        \E f \in [1..n -> 1..Len(s)] :
            /\ \A i, j \in 1..n : i < j => f[i] < f[j]
            /\ part = [i \in 1..n |-> s[f[i]]]
    BY DEF parts
<1>2. PICK f \in [1..n -> 1..Len(s)] :
            /\ \A i, j \in 1..n : i < j => f[i] < f[j]
            /\ part = [i \in 1..n |-> s[f[i]]]
    BY <1>1
<1>3. n \in Nat /\ DOMAIN s = 1..Len(s) /\ \A i \in 1..Len(s) : s[i] \in Nat
    OBVIOUS
<1>4. part \in [1..n -> Nat]
    BY <1>2, <1>3
<1>5. part \in Seq(Nat) /\ Len(part) = n
    BY <1>3, <1>4, SeqDef
<1>6. Range(part) \subseteq Range(s)
    BY <1>2, <1>3 DEF Range
<1>7. Increasing(part)
    <2> SUFFICES ASSUME NEW i \in 1..n, NEW j \in 1..n, i < j
                 PROVE  part[j] = Nil \/ part[i] < part[j]
        BY <1>5 DEF Increasing
    <2>1. f[i] \in 1..Len(s) /\ f[j] \in 1..Len(s) /\ f[i] < f[j]
        BY <1>2
    <2>2. s[f[j]] = Nil \/ s[f[i]] < s[f[j]]
        BY <2>1 DEF Increasing
    <2>3. QED
        BY <1>2, <2>2
<1>8. QED
    BY <1>5, <1>6, <1>7

LEMMA WriteFailsInv == ASSUME Inv, WriteFails PROVE Inv'
<1>1. /\ failed' = failed \cup InHand /\ hand' = <<>> /\ worker' = "idle"
      /\ UNCHANGED <<queue, schema, offered, dropped>>
    BY DEF WriteFails, GiveUp, InHand
<1>2. PICK part \in parts(hand) : written' = written \o part
    BY DEF WriteFails
<1>3. /\ written \in Seq(Nat) /\ Increasing(written)
      /\ hand \in Seq(Nat) /\ Increasing(hand)
    BY DEF Inv, Types, TypeOK, InOrder
<1>4. part \in Seq(Nat) /\ Range(part) \subseteq InHand /\ Increasing(part)
    BY <1>3, Parts DEF InHand
<1>5. Precedes(Range(written), Range(part))
    BY <1>4 DEF Inv, InOrder, Precedes, Written, Stored
<1>6. written' \in Seq(Nat) /\ Range(written') = Range(written) \cup Range(part)
    BY <1>2, <1>3, <1>4, RangeConcat
<1>7. Increasing(written')
    BY <1>2, <1>3, <1>4, <1>5, ConcatIncreasing
<1>8. InHand' = {} /\ Increasing(hand') /\ hand' \in Seq(Nat) /\ Len(hand') = 0
    BY <1>1, Empty DEF InHand
<1>9. Written' = Written \cup InHand /\ Nil \notin Stored'
    BY <1>1, <1>4, <1>6 DEF Written, Stored, Inv, Numbered
<1>10. failed' \subseteq Nat
    BY <1>1, Offered DEF Inv, Types
<1>11. Types'
    BY <1>1, <1>6, <1>8, <1>10, WriterAssumption DEF Inv, Types, TypeOK
<1>12. InOrder'
    BY <1>1, <1>7, <1>8, <1>9 DEF Inv, InOrder, Waiting, Precedes
<1>13. Somewhere'
    BY <1>1, <1>8, <1>9 DEF Inv, Somewhere, Waiting
<1>14. QED
    BY <1>1, <1>8, <1>9, <1>11, <1>12, <1>13 DEF Inv, Numbered, HandHeld, CheckAllowed

LEMMA WriteInv == ASSUME Inv, Write PROVE Inv'
<1>1. /\ written' = written \o hand /\ hand' = <<>>
      /\ UNCHANGED <<queue, offered, dropped, failed>>
    BY DEF Write
<1>2. InHand' = {} /\ Increasing(hand') /\ hand' \in Seq(Nat) /\ Len(hand') = 0
    BY <1>1, Empty DEF InHand
<1>3. written \in Seq(Nat) /\ hand \in Seq(Nat) /\ Increasing(written) /\ Increasing(hand)
    BY DEF Inv, Types, TypeOK, InOrder
<1>4. /\ written' \in Seq(Nat) /\ Stored' = Stored \cup InHand
      /\ Written' = Written \cup InHand
    BY <1>1, <1>3, RangeConcat DEF Stored, Written, InHand
<1>5. Increasing(written')
    BY <1>1, <1>3, ConcatIncreasing DEF Inv, InOrder, Precedes, Stored, Written, InHand
<1>6. schema' \in Schemas /\ schema'.reports = schema.reports /\ schema'.failures = schema.failures
    BY DEF Write, Inv, Types, Schemas
<1>7. worker' \in {"idle", "checking"} /\ (worker' = "checking" => may_check)
    BY DEF Write
<1>8. Types'
    BY <1>1, <1>2, <1>4, <1>6, <1>7, WriterAssumption DEF Inv, Types, TypeOK
<1>9. InOrder'
    BY <1>1, <1>2, <1>4, <1>5 DEF Inv, InOrder, Waiting, Precedes
<1>10. Somewhere'
    BY <1>1, <1>2, <1>4 DEF Inv, Somewhere, Waiting
<1>11. QED
    BY <1>1, <1>2, <1>4, <1>6, <1>7, <1>8, <1>9, <1>10
       DEF Inv, Numbered, HandHeld, CheckAllowed, may_check

\* The records that end a schema check.
LEMMA SchemaRecords ==
    ASSUME NEW s \in Schemas, NEW n \in Nat
    PROVE  /\ [s EXCEPT !.failures = n, !.due = FALSE] \in Schemas
           /\ [s EXCEPT !.failures = n, !.due = FALSE].failures = n
           /\ [s EXCEPT !.failures = n, !.due = FALSE].reports = s.reports
           /\ [s EXCEPT !.reports = n, !.due = FALSE] \in Schemas
           /\ [s EXCEPT !.reports = n, !.due = FALSE].reports = n
           /\ [s EXCEPT !.reports = n, !.due = FALSE].failures = s.failures
           /\ [s EXCEPT !.checked = TRUE, !.due = FALSE] \in Schemas
           /\ [s EXCEPT !.checked = TRUE, !.due = FALSE].reports = s.reports
           /\ [s EXCEPT !.checked = TRUE, !.due = FALSE].failures = s.failures
           /\ [s EXCEPT !.checked = TRUE] \in Schemas
           /\ [s EXCEPT !.checked = TRUE].reports = s.reports
           /\ [s EXCEPT !.checked = TRUE].failures = s.failures
           /\ [s EXCEPT !.failures = n] \in Schemas
           /\ [s EXCEPT !.failures = n].failures = n
           /\ [s EXCEPT !.failures = n].reports = s.reports
BY DEF Schemas

\* The schema check touches only its own counters, and ends within its limits.
LEMMA CheckInv ==
    ASSUME Inv, Probe \/ ProbeFails \/ CheckEnds \/ CheckDue
    PROVE  Inv'
<1>1. UNCHANGED <<queue, hand, written, offered, dropped, failed>> /\ worker' \in {worker, "idle"}
    BY DEF Probe, ProbeFails, CheckEnds, CheckDue, over_with, writerVars, ends
<1>2. worker' = "idle" => hand = <<>>
    BY DEF Probe, ProbeFails, CheckEnds, CheckDue, over_with, writerVars, ends, Inv, HandHeld
<1>3. /\ schema' \in Schemas
      /\ schema'.reports <= SchemaReports /\ schema'.failures <= SchemaFailures
      /\ worker' = "checking" => schema'.reports = schema.reports /\ schema'.failures = schema.failures
    <2>1. /\ schema \in Schemas /\ schema.reports <= SchemaReports /\ schema.failures <= SchemaFailures
          /\ worker = "checking" => schema.reports < SchemaReports /\ schema.failures < SchemaFailures
        BY WriterAssumption DEF Inv, Types, TypeOK, CheckAllowed
    <2>2. TRUE \in BOOLEAN /\ FALSE \in BOOLEAN
        BY Zenon
    <2>3. CASE Probe
        BY <2>1, <2>3 DEF Probe, Schemas, writerVars
    <2> DEFINE f == schema.failures + 1
               r == schema.reports + 1
    <2>n. f \in Nat /\ r \in Nat /\ SchemaFailures \in Nat
        BY <2>1, WriterAssumption DEF Schemas
    <2>l. worker = "checking" => f <= SchemaFailures /\ r <= SchemaReports
        BY <2>1, WriterAssumption DEF Schemas
    <2>4. CASE ProbeFails
        <3>1. /\ worker = "checking" /\ worker' = "idle"
              /\ \/ schema' = [schema EXCEPT !.failures = f, !.due = FALSE]
                 \/ schema' = [schema EXCEPT !.checked = TRUE]
                 \/ schema' = [schema EXCEPT !.failures = SchemaFailures]
            BY <2>4 DEF ProbeFails, over_with, gave_up
        <3> HIDE DEF f
        <3>2. CASE schema' = [schema EXCEPT !.failures = f, !.due = FALSE]
            <4>1. schema' \in Schemas /\ schema'.failures = f /\ schema'.reports = schema.reports
                BY <2>1, <2>n, <3>2, SchemaRecords
            <4>2. QED
                BY <2>1, <2>l, <3>1, <4>1
        <3>3. CASE schema' = [schema EXCEPT !.checked = TRUE]
            <4>1. /\ schema' \in Schemas
                  /\ schema'.failures = schema.failures /\ schema'.reports = schema.reports
                BY <2>1, <2>n, <3>3, SchemaRecords
            <4>2. QED
                BY <2>1, <3>1, <4>1
        <3>4. CASE schema' = [schema EXCEPT !.failures = SchemaFailures]
            <4>1. /\ schema' \in Schemas
                  /\ schema'.failures = SchemaFailures /\ schema'.reports = schema.reports
                BY <2>1, <2>n, <3>4, SchemaRecords
            <4>2. QED
                BY <2>1, <2>n, <3>1, <4>1
        <3>5. QED
            BY <3>1, <3>2, <3>3, <3>4
    <2>5. CASE CheckEnds
        <3>1. /\ worker = "checking" /\ worker' = "idle"
              /\ \/ schema' = [schema EXCEPT !.reports = r, !.due = FALSE]
                 \/ schema' = [schema EXCEPT !.checked = TRUE, !.due = FALSE]
                 \/ schema' = schema
            BY <2>5 DEF CheckEnds, over_with, completed
        <3> HIDE DEF r
        <3>2. CASE schema' = [schema EXCEPT !.reports = r, !.due = FALSE]
            <4>1. schema' \in Schemas /\ schema'.reports = r /\ schema'.failures = schema.failures
                BY <2>1, <2>n, <3>2, SchemaRecords
            <4>2. QED
                BY <2>1, <2>l, <3>1, <4>1
        <3>3. CASE schema' = [schema EXCEPT !.checked = TRUE, !.due = FALSE]
            <4>1. /\ schema' \in Schemas
                  /\ schema'.failures = schema.failures /\ schema'.reports = schema.reports
                BY <2>1, <2>n, <3>3, SchemaRecords
            <4>2. QED
                BY <2>1, <3>1, <4>1
        <3>4. QED
            BY <2>1, <3>1, <3>2, <3>3
    <2>6. CASE CheckDue
        BY <2>1, <2>2, <2>6 DEF CheckDue, Schemas, writerVars
    <2>7. QED
        BY <2>3, <2>4, <2>5, <2>6
<1>4. QED
    BY <1>1, <1>2, <1>3, WriterAssumption DEF Inv, Types, TypeOK, Schemas, Numbered, InOrder, Waiting,
       InHand, Stored, Written, Somewhere, HandHeld, CheckAllowed

LEMMA NextInv == Inv /\ [Next]_vars => Inv'
<1> SUFFICES ASSUME Inv, [Next]_vars PROVE Inv'
    OBVIOUS
<1>1. CASE Stop \/ Ends
    BY <1>1 DEF Stop, Ends, ends, writerVars, Inv, Types, TypeOK, Numbered, InOrder, Waiting, InHand,
       Stored, Written, Somewhere, HandHeld, CheckAllowed
<1>2. CASE UNCHANGED vars
    BY <1>2 DEF vars, ends, writerVars, Inv, Types, TypeOK, Numbered, InOrder, Waiting, InHand,
       Stored, Written, Somewhere, HandHeld, CheckAllowed
<1>3. QED
    BY <1>1, <1>2, EnqueueInv, WakeUpInv, TakeInv, DrainInv, WriteFailsInv, WriteInv, CheckInv
       DEF Next, WorkerStep

LEMMA Invariance == Spec => []Inv
BY InitInv, NextInv, PTL DEF Spec

-----------------------------------------------------------------------------

\* The queue, the batch and the schema check keep their limits, whatever is
\* offered while InfluxDB is away (max_queue, batch_max, SCHEMA_CHECK_REPORTS).
THEOREM TypeCorrect == Spec => []TypeOK
<1>1. Inv => TypeOK
    BY DEF Inv, Types
<1>2. QED
    BY <1>1, Invariance, PTL

\* InfluxDB gets every batch at most once and in the order it was offered
\* (enqueue, _drain_batch, _run).
THEOREM StoredInOrderAlways == Spec => []StoredInOrder
<1>1. Inv => StoredInOrder
    <2> SUFFICES ASSUME Inv, NEW i \in 1..Len(written), NEW j \in 1..Len(written), i < j
                 PROVE  written[i] < written[j]
        BY DEF StoredInOrder
    <2>1. written \in Seq(Nat) /\ written[j] \in Stored
        BY DEF Inv, Types, Stored, Written, Range
    <2>2. QED
        BY <2>1 DEF Inv, InOrder, Increasing, Numbered
<1>2. QED
    BY <1>1, Invariance, PTL

\* No batch disappears and none is in two places: each one offered waits, is in
\* hand, was refused and counted, or its write ended (enqueue, _drain_batch, _run).
THEOREM AccountedAlways == Spec => []Accounted
<1>1. Inv => Accounted
    <2> SUFFICES ASSUME Inv PROVE Accounted
        OBVIOUS
    <2> DEFINE places == <<Waiting, InHand, Written, dropped>>
    <2>1. /\ places[1] = Waiting /\ places[2] = InHand /\ places[3] = Written /\ places[4] = dropped
          /\ DOMAIN places = 1..4
        OBVIOUS
    <2> HIDE DEF places
    <2>2. Range(places) = {Waiting, InHand, Written, dropped}
        BY <2>1 DEF Range
    <2>3. 1..offered = UNION Range(places)
        BY <2>2 DEF Inv, Somewhere
    <2>4. /\ Waiting \cap InHand = {} /\ Waiting \cap Written = {} /\ InHand \cap Written = {}
          /\ dropped \cap Waiting = {} /\ dropped \cap InHand = {} /\ dropped \cap Written = {}
        BY Offered DEF Inv, InOrder, Precedes, Somewhere
    <2>5. \A i, j \in 1..4 : i # j => places[i] \cap places[j] = {}
        <3>1. 1..4 = {1, 2, 3, 4}
            OBVIOUS
        <3>2. QED
            BY <2>1, <2>4, <3>1
    <2>6. QED
        BY <2>3, <2>5 DEF Accounted, places, Waiting, InHand, Written, Stored
<1>2. QED
    BY <1>1, Invariance, PTL
=============================================================================
