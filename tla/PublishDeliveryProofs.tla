------------------------ MODULE PublishDeliveryProofs ------------------------
(***************************************************************************)
(* Proofs about PublishDelivery, for any set of packet identifiers, any    *)
(* history length and any number of publishes and connections.             *)
(*                                                                         *)
(* DeliveredIsOwn is not inductive: a PUBACK names only a MID, so what has *)
(* to be known is whose message can still be acknowledged under a MID that *)
(* is not quarantined.  Attribution says it: the publish in progress or    *)
(* the one pending token of that MID, and no two tokens share a MID.       *)
(***************************************************************************)
EXTENDS PublishDelivery, TLAPS, FiniteSetTheorems, WellFoundedInduction

registering == publisher.at = "registering"

\* The tokens that can have been acknowledged, or be on the wire.
Issued == (1..sequence) \cup (IF registering THEN {sequence + 1} ELSE {})

\* No two remembered tokens share a MID, and the publish being registered has
\* one that no remembered token has.
MidsDistinct ==
    /\ \A t, u \in Live : states[t].mid = states[u].mid => t = u
    /\ registering => \A t \in Live : states[t].mid # publisher.mid

\* Whose acknowledgement a MID outside the quarantine can still bring.
Attribution ==
    \A m \in wire : m.mid \notin quarantined =>
        \/ registering /\ m.token = sequence + 1 /\ m.mid = publisher.mid
        \/ m.token \in pending_tokens /\ states[m.token].mid = m.mid

\* A message on the wire was issued and is not acknowledged yet.
WireIsOpen ==
    /\ acknowledged \subseteq Issued
    /\ \A m \in wire : m.token \in Issued /\ m.token \notin acknowledged

\* One message per token.
OneMessage == \A m, n \in wire : m.token = n.token => m = n

\* An early acknowledgement is the one of the publish being registered.
EarlyIsOwn == early # {} => registering /\ sequence + 1 \in acknowledged

Inv ==
    /\ TypeOK
    /\ DeliveredIsOwn
    /\ QueueIsPending
    /\ MidsDistinct
    /\ Attribution
    /\ WireIsOpen
    /\ OneMessage
    /\ EarlyIsOwn

-----------------------------------------------------------------------------

\* A nonempty set of tokens has an oldest one (popitem(last=False), popleft).
LEMMA OldestToken ==
    ASSUME NEW toks, toks \subseteq Nat, toks # {}
    PROVE  oldest(toks) \in toks
<1>1. PICK x \in toks : \A y \in toks : ~(<<y, x>> \in OpToRel(<, Nat))
    BY NatLessThanWellFounded, WFMin
<1>2. ASSUME NEW y \in toks PROVE ~(y < x)
    <2>1. <<y, x>> \in Nat \X Nat /\ <<y, x>>[1] = y /\ <<y, x>>[2] = x
        OBVIOUS
    <2>2. QED
        BY <1>1, <2>1, Zenon DEF OpToRel
<1>3. \A y \in toks : x <= y
    BY <1>2
<1>4. QED
    BY <1>3 DEF oldest

\* The initial state: no token, no message.
LEMMA InitInv == Init => Inv
<1> SUFFICES ASSUME Init PROVE Inv
    OBVIOUS
<1>1. DOMAIN states = {} /\ Cardinality(DOMAIN states) = 0
    BY FS_EmptySet DEF Init
<1>2. TypeOK
    <2>1. publisher \in [at : {"idle", "checked"}]
        BY DEF Init, Idle
    <2>2. queue \in [Mids -> SUBSET Nat]
        BY DEF Init
    <2>3. connected \in BOOLEAN /\ link \in BOOLEAN
        BY Zenon DEF Init
    <2>4. /\ generation \in Nat /\ sequence \in Nat
          /\ Live \subseteq 1..sequence /\ Cardinality(Live) <= History
          /\ \A tok \in Live :
                states[tok] \in [mid : Mids, generation : Nat, state : States]
        BY <1>1, DeliveryAssumption DEF Init, Live
    <2>5. /\ quarantined \subseteq Mids /\ early \subseteq Nat \X Mids
          /\ callback \in {"none", "connecting", "disconnecting"}
          /\ wire \subseteq [token : Nat, mid : Mids] /\ acknowledged \subseteq Nat
        BY DEF Init
    <2>6. QED
        BY <2>1, <2>2, <2>3, <2>4, <2>5 DEF TypeOK
<1>3. QED
    BY <1>1, <1>2 DEF Init, Inv, DeliveredIsOwn, QueueIsPending, pending_tokens,
       MidsDistinct, Attribution, WireIsOpen, OneMessage, EarlyIsOwn,
       registering, Idle, Live, Issued

\* The first steps of a publish change only the publisher's position.
LEMMA BeginInv ==
    ASSUME Inv, publish_begin \/ publish_locked \/ publish_refused
    PROVE  Inv'
<1>1. /\ publisher.at # "registering" /\ publisher'.at # "registering"
      /\ UNCHANGED <<connected, client, callback, wire, acknowledged, link>>
    BY DEF publish_begin, publish_locked, publish_refused, Idle
<1>2. TypeOK'
    BY <1>1 DEF Inv, TypeOK, client, Live, publish_begin, publish_locked,
       publish_refused, Idle
<1>3. QED
    BY <1>1, <1>2 DEF Inv, client, Live, DeliveredIsOwn, QueueIsPending, in_queue,
       pending_tokens, MidsDistinct, Attribution, WireIsOpen, OneMessage,
       EarlyIsOwn, registering, Issued

\* Handing over puts one message on the wire, under a MID no token holds.
LEMMA HandedInv == ASSUME Inv, publish_handed PROVE Inv'
<1>1. PICK mid \in free_mids :
        /\ publisher' = [at |-> "registering", generation |-> publisher.generation,
                         mid |-> mid]
        /\ wire' = wire \cup {[token |-> sequence + 1, mid |-> mid]}
    BY DEF publish_handed
<1>2. /\ publisher.at = "handing"
      /\ UNCHANGED <<connected, client, callback, acknowledged, link>>
    BY DEF publish_handed
<1>3. /\ mid \in Mids /\ \A t \in Live : states[t].mid # mid
      /\ publisher.generation \in Nat
    BY <1>2 DEF free_mids, Inv, TypeOK
<1>4. TypeOK'
    BY <1>1, <1>2, <1>3 DEF Inv, TypeOK, client, Live
<1>5. ~registering /\ registering' /\ early = {}
    BY <1>1, <1>2 DEF registering, Inv, EarlyIsOwn
<1>6. DeliveredIsOwn' /\ QueueIsPending' /\ EarlyIsOwn'
    BY <1>2, <1>5 DEF Inv, client, Live, DeliveredIsOwn, QueueIsPending, in_queue,
       pending_tokens, EarlyIsOwn
<1>7. MidsDistinct'
    BY <1>1, <1>2, <1>3 DEF Inv, client, Live, MidsDistinct
<1>8. Attribution'
    BY <1>1, <1>2, <1>5 DEF Inv, client, Live, Attribution, pending_tokens
<1>9. WireIsOpen' /\ OneMessage'
    BY <1>1, <1>2, <1>5 DEF Inv, client, TypeOK, WireIsOpen, OneMessage, Issued
<1>10. QED
    BY <1>4, <1>6, <1>7, <1>8, <1>9 DEF Inv

\* Registering: the new token, the oldest one evicted, the MIDs lost with them.
LEMMA RegisterInv == ASSUME Inv, publish_register PROVE Inv'
<1> DEFINE tok    == sequence + 1
           mid    == publisher.mid
           record == [mid |-> mid, generation |-> publisher.generation,
                      state |-> registered_state]
           grown  == [t \in Live \cup {tok} |-> IF t = tok THEN record ELSE states[t]]
           lost   == (IF registered_state = "disconnected" THEN {mid} ELSE {})
                     \cup unresolved(grown)
           first  == oldest(DOMAIN grown)
           kept   == pruned(grown)
<1>1. /\ registering
      /\ sequence' = tok
      /\ quarantined' = quarantined \cup lost
      /\ states' = expire_queued(kept, lost)
      /\ queue' = [m \in Mids |->
                      IF m \in lost THEN {}
                      ELSE (IF m = mid /\ registered_state = "pending"
                            THEN queue[m] \cup {tok} ELSE queue[m]) \cap DOMAIN kept]
      /\ early' = {}
      /\ publisher' = Idle
      /\ UNCHANGED <<connected, generation, callback, wire, acknowledged, link>>
    BY DEF publish_register, registering
<1>2. /\ sequence \in Nat /\ tok \notin Live /\ mid \in Mids
      /\ record \in [mid : Mids, generation : Nat, state : States]
      /\ ~registering'
    BY <1>1 DEF Inv, TypeOK, registering, registered_state, States, Idle
<1>3. /\ \A t \in Live : states[t] \in [mid : Mids, generation : Nat, state : States]
      /\ \A t \in Live : states[t].mid # mid
      /\ \A t, u \in Live : states[t].mid = states[u].mid => t = u
    BY <1>1 DEF Inv, TypeOK, MidsDistinct
<1>4. /\ DOMAIN grown = Live \cup {tok}
      /\ grown[tok] = record
      /\ \A t \in Live : grown[t] = states[t]
    BY <1>2
<1>5. first \in DOMAIN grown
    <2>1. DOMAIN grown \subseteq Nat /\ DOMAIN grown # {}
        BY <1>2, <1>4 DEF Inv, TypeOK
    <2>2. QED
        BY <2>1, OldestToken
<1>6. /\ DOMAIN kept = IF overfull(grown) THEN DOMAIN grown \ {first} ELSE DOMAIN grown
      /\ \A t \in DOMAIN kept : kept[t] = grown[t]
    BY DEF pruned
<1>7. /\ overfull(grown) /\ grown[first].state \in {"pending", "disconnected"}
            => grown[first].mid \in lost
      /\ \A m \in lost : \/ m = mid /\ registered_state = "disconnected"
                         \/ overfull(grown) /\ m = grown[first].mid
    <2> HIDE DEF grown
    <2>1. unresolved(grown) = IF overfull(grown) /\ grown[first].state \in {"pending", "disconnected"}
                              THEN {grown[first].mid} ELSE {}
        BY DEF unresolved
    <2> HIDE DEF first
    <2>2. QED
        BY <2>1
<1>8. \A t \in Live \cup {tok} :
            grown[t] \in [mid : Mids, generation : Nat, state : States]
    BY <1>2, <1>3, <1>4
<1>9. /\ Live' = DOMAIN kept
      /\ \A t \in DOMAIN kept :
            /\ states'[t].mid = grown[t].mid
            /\ states'[t].generation = grown[t].generation
            /\ states'[t].state = IF grown[t].state = "pending" /\ in_queue(t, lost)
                                  THEN "expired" ELSE grown[t].state
            /\ states'[t] \in [mid : Mids, generation : Nat, state : States]
    <2>1. ASSUME NEW t \in DOMAIN kept
          PROVE  kept[t] \in [mid : Mids, generation : Nat, state : States]
        BY <1>4, <1>6, <1>8
    <2> HIDE DEF kept, lost
    <2>2. QED
        BY <1>1, <1>6, <2>1 DEF expire_queued, Live, States
<1> HIDE DEF kept, lost, grown, first, record
<1>10. \A m \in Mids : \A t \in queue[m] :
            t \in Live /\ states[t].state = "pending" /\ states[t].mid = m
    BY DEF Inv, QueueIsPending, pending_tokens
<1>11. TypeOK'
    <2>1. Cardinality(Live') <= History
        <3>1. IsFiniteSet(Live) /\ Cardinality(Live) \in Nat /\ Cardinality(Live) <= History
            <4>1. IsFiniteSet(1..sequence)
                BY <1>2, FS_Interval
            <4>2. Live \in SUBSET (1..sequence) /\ Cardinality(Live) <= History
                BY DEF Inv, TypeOK
            <4>3. IsFiniteSet(Live)
                BY <4>1, <4>2, FS_Subset
            <4>4. QED
                BY <4>2, <4>3, FS_CardinalityType
        <3>2. /\ IsFiniteSet(DOMAIN grown)
              /\ Cardinality(DOMAIN grown) = Cardinality(Live) + 1
            BY <1>2, <1>4, <3>1, FS_AddElement
        <3>3. Cardinality(DOMAIN grown \ {first}) = Cardinality(DOMAIN grown) - 1
            BY <1>5, <3>2, FS_RemoveElement
        <3>4. QED
            BY <1>6, <1>9, <3>1, <3>2, <3>3, DeliveryAssumption DEF overfull
    <2>2. Live' \subseteq 1..sequence'
        <3>1. Live \subseteq 1..sequence
            BY DEF Inv, TypeOK
        <3>2. Live' \subseteq Live \cup {tok}
            BY <1>4, <1>6, <1>9
        <3>3. QED
            BY <1>1, <1>2, <3>1, <3>2
    <2>3. lost \subseteq Mids
        BY <1>2, <1>4, <1>5, <1>7, <1>8
    <2>4. queue' \in [Mids -> SUBSET Nat]
        BY <1>1, <1>2 DEF Inv, TypeOK
    <2>5. publisher' \in [at : {"idle", "checked"}]
        BY <1>1 DEF Idle
    <2>6. QED
        BY <1>1, <1>2, <1>9, <2>1, <2>2, <2>3, <2>4, <2>5 DEF Inv, TypeOK
<1>12. DeliveredIsOwn'
    <2>1. registered_state = "delivered" => tok \in acknowledged
        BY DEF registered_state, Inv, EarlyIsOwn
    <2>2. QED
        BY <1>1, <1>4, <1>6, <1>9, <2>1 DEF Inv, DeliveredIsOwn, record
<1>13. QueueIsPending'
    <2>1. ASSUME NEW m \in Mids, NEW t \in queue'[m]
          PROVE  t \in pending_tokens' /\ states'[t].mid = m
        <3>1. m \notin lost /\ t \in DOMAIN kept
            BY <1>1
        <3>2. CASE t \in queue[m]
            <4>1. ~in_queue(t, lost)
                BY <1>2, <1>4, <1>5, <1>7, <1>8, <1>10, <3>1, <3>2 DEF in_queue
            <4>2. QED
                BY <1>4, <1>6, <1>9, <1>10, <3>1, <3>2, <4>1 DEF pending_tokens
        <3>3. CASE t = tok /\ m = mid /\ registered_state = "pending"
            <4>1. ~in_queue(t, lost)
                BY <1>2, <1>4, <1>5, <1>7, <1>8, <1>10, <3>3 DEF in_queue
            <4>2. QED
                BY <1>4, <1>6, <1>9, <3>1, <3>3, <4>1 DEF pending_tokens, record
        <3>4. QED
            BY <1>1, <3>2, <3>3
    <2>2. ASSUME NEW t \in pending_tokens'
          PROVE  in_queue(t, {states[t].mid})'
        <3>1. /\ t \in DOMAIN kept /\ grown[t].state = "pending" /\ ~in_queue(t, lost)
              /\ states'[t].mid = grown[t].mid /\ grown[t].mid \in Mids
            BY <1>4, <1>6, <1>8, <1>9 DEF pending_tokens
        <3>2. CASE t \in Live
            <4>1. t \in queue[states[t].mid]
                BY <1>4, <3>1, <3>2 DEF Inv, QueueIsPending, pending_tokens, in_queue
            <4>2. states[t].mid \notin lost
                BY <3>1, <4>1 DEF in_queue
            <4>3. QED
                BY <1>1, <1>4, <3>1, <3>2, <4>1, <4>2 DEF in_queue
        <3>3. CASE t = tok
            <4>1. mid \notin lost /\ registered_state = "pending"
                BY <1>3, <1>4, <1>5, <1>6, <1>7, <3>1, <3>3 DEF record
            <4>2. QED
                BY <1>1, <1>4, <3>1, <3>3, <4>1 DEF in_queue, record
        <3>4. QED
            BY <1>4, <1>6, <3>1, <3>2, <3>3
    <2>3. QED
        BY <2>1, <2>2 DEF QueueIsPending
<1>14. MidsDistinct'
    BY <1>2, <1>3, <1>4, <1>6, <1>9 DEF MidsDistinct, record
<1>15. Attribution'
    <2>1. SUFFICES ASSUME NEW m \in wire, m.mid \notin quarantined, m.mid \notin lost
                   PROVE  m.token \in pending_tokens' /\ states'[m.token].mid = m.mid
        BY <1>1 DEF Attribution
    <2>2. CASE m.token = tok /\ m.mid = mid
        <3>1. registered_state = "pending"
            <4>1. tok \notin acknowledged
                BY <2>2 DEF Inv, WireIsOpen
            <4>2. early = {}
                BY <4>1 DEF Inv, EarlyIsOwn
            <4>3. registered_state # "disconnected"
                BY <2>1, <2>2 DEF lost
            <4>4. QED
                BY <2>1, <2>2, <4>2, <4>3 DEF registered_state
        <3>2. tok \in DOMAIN kept
            BY <1>4, <1>6, <1>7, <2>1, <2>2, <3>1 DEF record
        <3>3. ~in_queue(tok, lost)
            BY <1>2, <1>4, <1>5, <1>7, <1>8, <1>10 DEF in_queue
        <3>4. QED
            BY <1>4, <1>9, <2>2, <3>1, <3>2, <3>3 DEF pending_tokens, record
    <2>3. CASE m.token \in pending_tokens /\ states[m.token].mid = m.mid
        <3>1. m.token \in Live /\ grown[m.token] = states[m.token]
              /\ grown[m.token].state = "pending"
            BY <1>4, <2>3 DEF pending_tokens
        <3>2. m.token \in DOMAIN kept
            BY <1>4, <1>6, <1>7, <2>1, <2>3, <3>1
        <3>3. ~in_queue(m.token, lost)
            BY <1>2, <1>4, <1>5, <1>7, <1>8, <1>10, <2>1, <2>3 DEF in_queue
        <3>4. QED
            BY <1>9, <2>3, <3>1, <3>2, <3>3 DEF pending_tokens
    <2>4. QED
        BY <2>1, <2>2, <2>3 DEF Inv, Attribution
<1>16. WireIsOpen' /\ OneMessage' /\ EarlyIsOwn'
    BY <1>1, <1>2 DEF Inv, WireIsOpen, OneMessage, EarlyIsOwn, Issued
<1>17. QED
    BY <1>11, <1>12, <1>13, <1>14, <1>15, <1>16 DEF Inv

\* A PUBACK settles the token it belongs to, and no other.
LEMMA PubackInv == ASSUME Inv, NEW message \in wire, on_publish(message) PROVE Inv'
<1> DEFINE mid    == message.mid
           tokens == queue[mid] \cap Live
<1>1. /\ wire' = wire \ {message}
      /\ acknowledged' = acknowledged \cup {message.token}
      /\ UNCHANGED <<connected, generation, sequence, quarantined, publisher,
                     callback, link>>
    BY DEF on_publish
<1>2. /\ message \in [token : Nat, mid : Mids] /\ queue \in [Mids -> SUBSET Nat]
      /\ \A t \in Live : states[t] \in [mid : Mids, generation : Nat, state : States]
    BY DEF Inv, TypeOK
<1>3. \A m \in Mids : \A t \in queue[m] :
            t \in Live /\ states[t].state = "pending" /\ states[t].mid = m
    BY DEF Inv, QueueIsPending, pending_tokens
<1>4. WireIsOpen'
    <2>1. ASSUME NEW m \in wire, m # message
          PROVE  m.token \in Issued /\ m.token \notin acknowledged
        BY DEF Inv, WireIsOpen
    <2>2. ASSUME NEW m \in wire, m.token = message.token PROVE m = message
        BY <2>2 DEF Inv, OneMessage
    <2>3. QED
        BY <1>1, <2>1, <2>2 DEF Inv, WireIsOpen, Issued, registering
<1>5. OneMessage'
    BY <1>1 DEF Inv, OneMessage
<1>6. CASE UNCHANGED <<states, queue, early>>
    <2>1. TypeOK'
        BY <1>1, <1>2, <1>6 DEF Inv, TypeOK, Live
    <2>2. DeliveredIsOwn' /\ QueueIsPending' /\ MidsDistinct'
        BY <1>1, <1>6 DEF Inv, DeliveredIsOwn, QueueIsPending, in_queue,
           pending_tokens, MidsDistinct, Live, registering
    <2>3. Attribution' /\ EarlyIsOwn'
        BY <1>1, <1>6 DEF Inv, Attribution, EarlyIsOwn, pending_tokens, Live,
           registering
    <2>4. QED
        BY <1>4, <1>5, <2>1, <2>2, <2>3 DEF Inv
<1>7. CASE /\ mid \notin quarantined /\ tokens # {}
           /\ queue' = [queue EXCEPT ![mid] = tokens \ {oldest(tokens)}]
           /\ states' = [states EXCEPT ![oldest(tokens)].state =
                             IF @ = "pending" THEN "delivered" ELSE @]
           /\ UNCHANGED early
    <2> DEFINE first == oldest(tokens)
    <2>1. first \in tokens
        BY <1>2, <1>7, OldestToken
    <2>2. /\ first \in Live /\ states[first].state = "pending"
          /\ states[first].mid = mid /\ mid \in Mids
        BY <1>2, <1>3, <2>1
    <2>3. message.token = first
        BY <1>7, <2>2 DEF Inv, Attribution, MidsDistinct, pending_tokens
    <2>4. tokens = {first}
        BY <1>2, <1>3, <2>1 DEF Inv, MidsDistinct
    <2> HIDE DEF first
    <2>5. /\ queue' = [queue EXCEPT ![mid] = {}]
          /\ states' = [states EXCEPT ![first].state = "delivered"]
        BY <1>7, <2>2, <2>4 DEF first
    <2>6. /\ Live' = Live
          /\ \A t \in Live : /\ states'[t].mid = states[t].mid
                             /\ states'[t].state = IF t = first THEN "delivered"
                                                   ELSE states[t].state
                             /\ states'[t] \in [mid : Mids, generation : Nat,
                                                state : States]
        BY <1>2, <2>2, <2>5 DEF Live, States
    <2>7. TypeOK'
        <3>1. queue' \in [Mids -> SUBSET Nat]
            BY <1>2, <2>5
        <3>2. QED
            BY <1>1, <1>2, <1>7, <2>6, <3>1 DEF Inv, TypeOK
    <2>8. DeliveredIsOwn'
        BY <1>1, <2>3, <2>6 DEF Inv, DeliveredIsOwn
    <2>9. QueueIsPending'
        <3>1. ASSUME NEW m \in Mids, NEW t \in queue'[m]
              PROVE  t \in pending_tokens' /\ states'[t].mid = m
            <4>1. m # mid /\ t \in queue[m]
                BY <1>2, <2>2, <2>5
            <4>2. QED
                BY <1>3, <2>2, <2>6, <4>1 DEF pending_tokens
        <3>2. ASSUME NEW t \in pending_tokens' PROVE in_queue(t, {states[t].mid})'
            <4>1. t \in pending_tokens /\ t # first
                BY <2>6 DEF pending_tokens
            <4>2. t \in queue[states[t].mid] /\ states[t].mid # mid
                BY <2>2, <4>1 DEF Inv, QueueIsPending, MidsDistinct, in_queue,
                   pending_tokens
            <4>3. t \in queue'[states'[t].mid]
                BY <1>2, <2>5, <2>6, <4>1, <4>2 DEF pending_tokens
            <4>4. QED
                BY <4>3 DEF in_queue
        <3>3. QED
            BY <3>1, <3>2 DEF QueueIsPending
    <2>10. MidsDistinct'
        BY <1>1, <2>6 DEF Inv, MidsDistinct, registering
    <2>11. Attribution'
        <3>1. ASSUME NEW m \in wire, m # message PROVE m.token # first
            BY <2>3, <3>1 DEF Inv, OneMessage
        <3>2. QED
            BY <1>1, <2>6, <3>1 DEF Inv, Attribution, pending_tokens, registering
    <2>12. EarlyIsOwn'
        BY <1>1, <1>7 DEF Inv, EarlyIsOwn, registering
    <2>13. QED
        BY <1>4, <1>5, <2>7, <2>8, <2>9, <2>10, <2>11, <2>12 DEF Inv
<1>8. CASE /\ mid \notin quarantined /\ tokens = {}
           /\ queue' = [queue EXCEPT ![mid] = {}]
           /\ early' = IF publish_in_progress
                       THEN early \cup {<<generation, mid>>} ELSE early
           /\ UNCHANGED states
    <2>1. queue[mid] = {} /\ queue' = queue
        BY <1>2, <1>3, <1>8
    <2>2. registering /\ message.token = sequence + 1
        BY <1>2, <1>8, <2>1 DEF Inv, Attribution, QueueIsPending, in_queue
    <2>3. TypeOK'
        <3>1. <<generation, mid>> \in Nat \X Mids
            BY <1>2 DEF Inv, TypeOK
        <3>2. early' \subseteq Nat \X Mids
            BY <1>8, <3>1 DEF Inv, TypeOK
        <3>3. QED
            BY <1>1, <1>2, <1>8, <2>1, <3>2 DEF Inv, TypeOK, Live
    <2>4. DeliveredIsOwn' /\ QueueIsPending' /\ MidsDistinct'
        BY <1>1, <1>8, <2>1 DEF Inv, DeliveredIsOwn, QueueIsPending, in_queue,
           pending_tokens, MidsDistinct, Live, registering
    <2>5. Attribution' /\ EarlyIsOwn'
        BY <1>1, <1>8, <2>2 DEF Inv, Attribution, EarlyIsOwn, pending_tokens, Live,
           registering
    <2>6. QED
        BY <1>4, <1>5, <2>3, <2>4, <2>5 DEF Inv
<1>9. QED
    BY <1>6, <1>7, <1>8 DEF on_publish

\* A lost connection settles its pending tokens and quarantines their MIDs.
LEMMA DropInv ==
    ASSUME Inv, NEW toks, toks \subseteq pending_tokens, drop(toks),
           UNCHANGED <<sequence, publisher, wire, acknowledged>>,
           connected' \in BOOLEAN, link' \in BOOLEAN, generation' \in Nat,
           callback' \in {"none", "connecting", "disconnecting"}
    PROVE  Inv'
<1> DEFINE mids == {states[tok].mid : tok \in toks}
<1>1. /\ quarantined' = quarantined \cup mids
      /\ states' = expire_queued(disconnect_tokens(states, toks), mids)
      /\ queue' = [mid \in Mids |-> IF mid \in mids THEN {} ELSE queue[mid]]
      /\ early' = {}
    BY DEF drop, quarantine
<1>2. \A t \in Live : states[t] \in [mid : Mids, generation : Nat, state : States]
    BY DEF Inv, TypeOK
<1>3. \A m \in Mids : \A t \in queue[m] :
            t \in Live /\ states[t].state = "pending" /\ states[t].mid = m
    BY DEF Inv, QueueIsPending, pending_tokens
<1>4. \A t \in Live : states[t].mid \in mids => t \in toks
    BY DEF Inv, MidsDistinct, pending_tokens
<1>5. mids \subseteq Mids
    BY <1>2 DEF pending_tokens
<1>6. /\ Live' = Live
      /\ \A t \in Live :
            /\ states'[t].mid = states[t].mid
            /\ states'[t].state = IF t \in toks THEN "disconnected" ELSE states[t].state
            /\ states'[t] \in [mid : Mids, generation : Nat, state : States]
    <2> DEFINE gone == disconnect_tokens(states, toks)
    <2>1. /\ DOMAIN gone = Live
          /\ \A t \in Live :
                /\ gone[t] \in [mid : Mids, generation : Nat, state : States]
                /\ gone[t].mid = states[t].mid
                /\ gone[t].state = IF t \in toks THEN "disconnected" ELSE states[t].state
        BY <1>2 DEF disconnect_tokens, Live, States
    <2>2. \A t \in Live : in_queue(t, mids) => t \in toks
        BY <1>3, <1>4, <1>5 DEF in_queue
    <2> HIDE DEF gone, mids
    <2>3. states' = [t \in Live |-> IF gone[t].state = "pending" /\ in_queue(t, mids)
                                    THEN [gone[t] EXCEPT !.state = "expired"] ELSE gone[t]]
        BY <1>1, <2>1 DEF expire_queued, gone
    <2>4. ASSUME NEW t \in Live PROVE states'[t] = gone[t]
        BY <2>1, <2>2, <2>3
    <2>5. QED
        BY <2>1, <2>3, <2>4 DEF Live
<1> HIDE DEF mids
<1>7. TypeOK'
    <2>1. queue' \in [Mids -> SUBSET Nat]
        BY <1>1 DEF Inv, TypeOK
    <2>2. QED
        BY <1>1, <1>5, <1>6, <2>1 DEF Inv, TypeOK
<1>8. DeliveredIsOwn'
    BY <1>6 DEF Inv, DeliveredIsOwn
<1>9. QueueIsPending'
    <2>1. ASSUME NEW m \in Mids, NEW t \in queue'[m]
          PROVE  t \in pending_tokens' /\ states'[t].mid = m
        <3>1. m \notin mids /\ t \in queue[m]
            BY <1>1
        <3>2. t \notin toks
            BY <1>3, <3>1 DEF mids
        <3>3. QED
            BY <1>3, <1>6, <3>1, <3>2 DEF pending_tokens
    <2>2. ASSUME NEW t \in pending_tokens' PROVE in_queue(t, {states[t].mid})'
        <3>1. t \in pending_tokens /\ t \notin toks /\ t \in Live
            BY <1>6 DEF pending_tokens
        <3>2. t \in queue[states[t].mid] /\ states[t].mid \notin mids
            BY <1>4, <3>1 DEF Inv, QueueIsPending, in_queue
        <3>3. QED
            BY <1>1, <1>2, <1>6, <3>1, <3>2 DEF in_queue
    <2>3. QED
        BY <2>1, <2>2 DEF QueueIsPending
<1>10. MidsDistinct'
    BY <1>6 DEF Inv, MidsDistinct, registering
<1>11. Attribution'
    <2>1. ASSUME NEW m \in wire, m.token \in toks, m.mid \notin mids,
                 states[m.token].mid = m.mid
          PROVE  FALSE
        BY <2>1 DEF mids
    <2>2. QED
        BY <1>1, <1>6, <2>1 DEF Inv, Attribution, pending_tokens, registering
<1>12. WireIsOpen' /\ OneMessage' /\ EarlyIsOwn'
    BY <1>1 DEF Inv, WireIsOpen, OneMessage, EarlyIsOwn, Issued, registering
<1>13. QED
    BY <1>7, <1>8, <1>9, <1>10, <1>11, <1>12 DEF Inv

\* Every step of the specification preserves the invariant.
LEMMA NextInv == ASSUME Inv, [Next]_vars PROVE Inv'
<1>1. CASE publish_begin \/ publish_locked \/ publish_refused
    BY <1>1, BeginInv
<1>2. CASE publish_handed
    BY <1>2, HandedInv
<1>3. CASE publish_register
    BY <1>3, RegisterInv
<1>4. ASSUME NEW message \in wire, on_publish(message) PROVE Inv'
    BY <1>4, PubackInv
<1>5. CASE on_disconnect
    <2>1. /\ {tok \in pending_tokens : states[tok].generation = generation}
                \subseteq pending_tokens
          /\ connected' \in BOOLEAN /\ link' \in BOOLEAN /\ generation' \in Nat
        BY <1>5 DEF on_disconnect, Inv, TypeOK
    <2>2. QED
        BY <1>5, <2>1, DropInv DEF on_disconnect
<1>6. CASE on_connect
    <2>1. connected' \in BOOLEAN /\ link' \in BOOLEAN /\ generation' \in Nat
        BY <1>6 DEF on_connect, Inv, TypeOK
    <2>2. QED
        BY <1>6, <2>1, DropInv DEF on_connect
<1>7. CASE on_disconnect_done \/ on_connect_done \/ UNCHANGED vars
    <2>1. /\ UNCHANGED <<client, publisher, wire, acknowledged>>
          /\ callback' \in {"none", callback}
        BY <1>7 DEF on_disconnect_done, on_connect_done, vars
    <2>2. connected' \in BOOLEAN /\ link' \in BOOLEAN
        BY <1>7 DEF on_disconnect_done, on_connect_done, vars, Inv, TypeOK
    <2>3. TypeOK'
        BY <2>1, <2>2 DEF Inv, TypeOK, client, Live
    <2>4. QED
        BY <2>1, <2>3 DEF Inv, client, Live, DeliveredIsOwn, QueueIsPending, in_queue,
           pending_tokens, MidsDistinct, Attribution, WireIsOpen, OneMessage,
           EarlyIsOwn, registering, Issued
<1>8. QED
    BY <1>1, <1>2, <1>3, <1>4, <1>5, <1>6, <1>7 DEF Next

\* The invariant holds in every reachable state of the client.
THEOREM Invariance == Spec => []Inv
<1>1. QED
    BY InitInv, NextInv, PTL DEF Spec

\* Every variable of the delivery client keeps its type, and the history of
\* tokens never outgrows _DELIVERY_TOKEN_HISTORY.
THEOREM TypeCorrect == Spec => []TypeOK
<1>1. Inv => TypeOK
    BY DEF Inv
<1>2. QED
    BY <1>1, Invariance, PTL

\* delivery_status answers "delivered" for a token only if the broker
\* acknowledged that very publish, however often paho reuses the identifier.
THEOREM DeliveredIsOwnAlways == Spec => []DeliveredIsOwn
<1>1. Inv => DeliveredIsOwn
    BY DEF Inv
<1>2. QED
    BY <1>1, Invariance, PTL

\* Pending tokens and the per-MID queues always agree, so _on_publish finds the
\* token of an acknowledgement that is not quarantined.
THEOREM QueueIsPendingAlways == Spec => []QueueIsPending
<1>1. Inv => QueueIsPending
    BY DEF Inv
<1>2. QED
    BY <1>1, Invariance, PTL

\* A token's verdict, once settled, is never revised: not by a late PUBACK, a
\* disconnect, a reconnect or an eviction.
THEOREM VerdictIsFinalAlways == Spec => VerdictIsFinal
<1> DEFINE Settled == \A tok \in Live \cap DOMAIN states' :
                        states[tok].state # "pending"
                            => states'[tok].state = states[tok].state
<1>1. ASSUME Inv, [Next]_vars PROVE [Settled]_vars
    <2>1. CASE publish_register
        <3>1. sequence + 1 \notin Live
            BY <1>1 DEF Inv, TypeOK
        <3>2. QED
            BY <2>1, <3>1 DEF publish_register, expire_queued, pruned, Live
    <2>2. ASSUME NEW message \in wire, on_publish(message) PROVE Settled
        <3>1. CASE UNCHANGED states
            BY <3>1
        <3>2. ASSUME NEW tok \in Live,
                     states' = [states EXCEPT ![tok].state =
                                    IF @ = "pending" THEN "delivered" ELSE @]
              PROVE  Settled
            BY <1>1, <3>2 DEF Inv, TypeOK, Live
        <3>3. queue[message.mid] \cap Live # {}
                => oldest(queue[message.mid] \cap Live) \in Live
            BY <1>1, OldestToken DEF Inv, TypeOK
        <3>4. QED
            BY <2>2, <3>1, <3>2, <3>3 DEF on_publish
    <2>3. ASSUME NEW toks, toks \subseteq pending_tokens, drop(toks) PROVE Settled
        BY <2>3 DEF drop, quarantine, expire_queued, disconnect_tokens, Live,
           pending_tokens
    <2>4. CASE on_disconnect \/ on_connect
        <3>1. {tok \in pending_tokens : states[tok].generation = generation}
                \subseteq pending_tokens
            OBVIOUS
        <3>2. QED
            BY <2>3, <2>4, <3>1 DEF on_disconnect, on_connect
    <2>5. CASE UNCHANGED states
        BY <2>5
    <2>6. QED
        BY <1>1, <2>1, <2>2, <2>4, <2>5 DEF Next, vars, client, publish_begin,
           publish_locked, publish_refused, publish_handed, on_disconnect_done,
           on_connect_done
<1>2. QED
    BY <1>1, Invariance, PTL DEF Spec, VerdictIsFinal
=============================================================================
