-------------------------- MODULE PublishDelivery ---------------------------
(***************************************************************************)
(* ems/zendure_mqtt/control.py, ZendureMqttControlClient: which publish a  *)
(* broker acknowledgement belongs to.                                      *)
(*                                                                         *)
(* A PUBACK callback carries only a 16-bit packet identifier (MID), which  *)
(* paho uses again and again.  The client gives every accepted publish a   *)
(* token of its own and must never credit a token with another message's   *)
(* acknowledgement.  Two threads meet: a publisher, whose call looks at    *)
(* _connected and then takes three steps under _publish_lock (note the     *)
(* generation, hand the message to paho, register the token), and paho's   *)
(* network thread, whose callbacks _on_publish, _on_connect and            *)
(* _on_disconnect run between those steps.  The connection callbacks are   *)
(* two steps each: the section under _delivery_lock, then the base class's *)
(* update of _connected.                                                   *)
(*                                                                         *)
(* A token is its sequence number.  A deque of tokens is a set: tokens are *)
(* appended in sequence order, so the oldest is the smallest.  Paho and    *)
(* the broker are external: `wire` holds the messages handed to paho and   *)
(* not yet acknowledged, and a reconnect sends them again, so a PUBACK may *)
(* come connections later.                                                 *)
(***************************************************************************)
EXTENDS Integers, FiniteSets

CONSTANTS
    Mids,               \* MQTT packet identifiers
    History,            \* _DELIVERY_TOKEN_HISTORY
    MaxPublishes,       \* bound: accepted publishes
    MaxGenerations      \* bound: connections

ASSUME DeliveryAssumption == /\ History \in Nat \ {0}
                             /\ MaxPublishes \in Nat
                             /\ MaxGenerations \in Nat

VARIABLES
    connected,      \* _connected
    generation,     \* _connection_generation
    sequence,       \* _publish_sequence
    states,         \* _delivery_states: the token's MID, generation and state
    queue,          \* _pending_delivery_tokens: per MID
    quarantined,    \* _quarantined_delivery_mids
    early,          \* _early_pubacks, the keys with a count
    publisher,      \* where the publish under _publish_lock stands
    callback,       \* the connection callback the network thread is inside
    wire,           \* messages paho has and the broker has not acknowledged
    acknowledged,   \* history: the tokens whose own PUBACK arrived
    link            \* the network connection is up (external)

client == <<generation, sequence, states, queue, quarantined, early>>
vars   == <<connected, client, publisher, callback, wire, acknowledged, link>>

Idle == [at |-> "idle"]

Live == DOMAIN states

Init ==
    /\ connected = FALSE
    /\ generation = 0
    /\ sequence = 0
    /\ states = <<>>
    /\ queue = [mid \in Mids |-> {}]
    /\ quarantined = {}
    /\ early = {}
    /\ publisher = Idle
    /\ callback = "none"
    /\ wire = {}
    /\ acknowledged = {}
    /\ link = FALSE

\* _publish_in_progress_generation is set and equals the connection's.
publish_in_progress ==
    publisher.at \in {"handing", "registering"} /\ publisher.generation = generation

(***************************************************************************)
(* _quarantine_delivery_mid_locked for a set of MIDs: what it leaves of    *)
(* the states (a pending token still queued there expires), the queues and *)
(* the early acknowledgements.                                             *)
(***************************************************************************)
in_queue(tok, mids) == \E mid \in mids : tok \in queue[mid]

expire_queued(s, mids) ==
    [tok \in DOMAIN s |->
        IF s[tok].state = "pending" /\ in_queue(tok, mids)
        THEN [s[tok] EXCEPT !.state = "expired"] ELSE s[tok]]

\* Mutant: the queue of a quarantined MID is left as it is.
quarantine_only(s, mids) ==
    /\ quarantined' = quarantined \cup mids
    /\ states' = expire_queued(s, mids)
    /\ UNCHANGED queue

quarantine(s, mids) ==
    /\ quarantined' = quarantined \cup mids
    /\ states' = expire_queued(s, mids)
    /\ queue' = [mid \in Mids |-> IF mid \in mids THEN {} ELSE queue[mid]]

(***************************************************************************)
(* The publisher.                                                          *)
(***************************************************************************)
publish_begin ==
    /\ publisher.at = "idle"
    /\ connected
    /\ sequence < MaxPublishes
    /\ publisher' = [at |-> "checked"]
    /\ UNCHANGED <<connected, client, callback, wire, acknowledged, link>>

\* _publish_lock is taken and the generation noted: _connected may be stale.
publish_locked ==
    /\ publisher.at = "checked"
    /\ publisher' = [at |-> "handing", generation |-> generation]
    /\ UNCHANGED <<connected, client, callback, wire, acknowledged, link>>

\* paho raised, or answered with an error code: nothing was handed over.
publish_refused ==
    /\ publisher.at = "handing"
    /\ publisher' = Idle
    /\ UNCHANGED <<connected, client, callback, wire, acknowledged, link>>

\* The MIDs paho may pick (external): it counts through 65,535 of them, so one
\* comes round again only after the history of 512 tokens has dropped its token.
free_mids == {mid \in Mids : \A tok \in Live : states[tok].mid # mid}

publish_handed ==
    /\ publisher.at = "handing"
    /\ \E mid \in free_mids :
        /\ publisher' = [at |-> "registering", generation |-> publisher.generation,
                         mid |-> mid]
        /\ wire' = wire \cup {[token |-> sequence + 1, mid |-> mid]}
    /\ UNCHANGED <<connected, client, callback, acknowledged, link>>

\* _prune_delivery_states_locked: one token more than the history drops the
\* oldest, and a MID whose evidence is lost unresolved is quarantined.
oldest(toks) == CHOOSE tok \in toks : \A other \in toks : tok <= other

\* Mutant: one token more than the history holds.
overfull_late(s) == Cardinality(DOMAIN s) > History + 1

overfull(s) == Cardinality(DOMAIN s) > History

pruned(s) == IF overfull(s) THEN [tok \in DOMAIN s \ {oldest(DOMAIN s)} |-> s[tok]] ELSE s

\* Mutant: a MID whose evidence is evicted unresolved stays in use.
nothing_unresolved(s) == {}

unresolved(s) ==
    IF overfull(s) /\ s[oldest(DOMAIN s)].state \in {"pending", "disconnected"}
    THEN {s[oldest(DOMAIN s)].mid} ELSE {}

registered_state ==
    IF publisher.mid \in quarantined THEN "expired"
    ELSE IF <<publisher.generation, publisher.mid>> \in early THEN "delivered"
    ELSE IF ~connected \/ publisher.generation # generation THEN "disconnected"
    ELSE "pending"

publish_register ==
    LET tok     == sequence + 1
        mid     == publisher.mid
        state   == registered_state
        record  == [mid |-> mid, generation |-> publisher.generation, state |-> state]
        grown   == [t \in Live \cup {tok} |-> IF t = tok THEN record ELSE states[t]]
        lost    == (IF state = "disconnected" THEN {mid} ELSE {}) \cup unresolved(grown)
    IN  /\ publisher.at = "registering"
        /\ sequence' = tok
        /\ quarantined' = quarantined \cup lost
        /\ states' = expire_queued(pruned(grown), lost)
        /\ queue' = [m \in Mids |->
                        IF m \in lost THEN {}
                        ELSE (IF m = mid /\ state = "pending" THEN queue[m] \cup {tok}
                              ELSE queue[m]) \cap DOMAIN pruned(grown)]
        /\ early' = {}
        /\ publisher' = Idle
        /\ UNCHANGED <<connected, generation, callback, wire, acknowledged, link>>

(***************************************************************************)
(* Paho's network thread.                                                  *)
(***************************************************************************)

\* _on_publish for the PUBACK of one message.
on_publish(message) ==
    LET mid    == message.mid
        tokens == queue[mid] \cap Live
    IN  /\ link /\ callback = "none"
        /\ message \in wire
        /\ wire' = wire \ {message}
        /\ acknowledged' = acknowledged \cup {message.token}
        /\ \/ /\ mid \in quarantined
              /\ UNCHANGED <<states, queue, early>>
           \/ /\ mid \notin quarantined /\ tokens # {}
              /\ queue' = [queue EXCEPT ![mid] = tokens \ {oldest(tokens)}]
              /\ states' = [states EXCEPT ![oldest(tokens)].state =
                                IF @ = "pending" THEN "delivered" ELSE @]
              /\ UNCHANGED early
           \/ /\ mid \notin quarantined /\ tokens = {}
              /\ queue' = [queue EXCEPT ![mid] = {}]
              /\ early' = IF publish_in_progress
                          THEN early \cup {<<generation, mid>>} ELSE early
              /\ UNCHANGED states
        /\ UNCHANGED <<connected, generation, sequence, quarantined, publisher,
                       callback, link>>

\* Mutant: a lost connection takes every token's verdict.
disconnect_every_token(s, toks) ==
    [tok \in DOMAIN s |-> [s[tok] EXCEPT !.state = "disconnected"]]

\* A pending publish whose connection is gone can no longer be attributed.
disconnect_tokens(s, toks) ==
    [tok \in DOMAIN s |-> IF tok \in toks THEN [s[tok] EXCEPT !.state = "disconnected"]
                          ELSE s[tok]]

pending_tokens == {tok \in Live : states[tok].state = "pending"}

drop(toks) ==
    /\ quarantine(disconnect_tokens(states, toks), {states[tok].mid : tok \in toks})
    /\ early' = {}

on_disconnect ==
    /\ link /\ callback = "none"
    /\ link' = FALSE
    /\ callback' = "disconnecting"
    /\ drop({tok \in pending_tokens : states[tok].generation = generation})
    /\ UNCHANGED <<connected, generation, sequence, publisher, wire, acknowledged>>

on_disconnect_done ==
    /\ callback = "disconnecting"
    /\ callback' = "none"
    /\ connected' = FALSE
    /\ UNCHANGED <<client, publisher, wire, acknowledged, link>>

on_connect ==
    /\ ~link /\ callback = "none"
    /\ generation < MaxGenerations
    /\ link' = TRUE
    /\ callback' = "connecting"
    /\ drop(pending_tokens)
    /\ generation' = generation + 1
    /\ UNCHANGED <<connected, sequence, publisher, wire, acknowledged>>

\* The base class reads the broker's answer: accepted, or refused.
on_connect_done ==
    /\ callback = "connecting"
    /\ callback' = "none"
    /\ connected' \in BOOLEAN
    /\ link' = connected'
    /\ UNCHANGED <<client, publisher, wire, acknowledged>>

Next ==
    \/ publish_begin
    \/ publish_locked
    \/ publish_refused
    \/ publish_handed
    \/ publish_register
    \/ \E message \in wire : on_publish(message)
    \/ on_disconnect
    \/ on_disconnect_done
    \/ on_connect
    \/ on_connect_done

Spec == Init /\ [][Next]_vars

-----------------------------------------------------------------------------
States == {"pending", "delivered", "disconnected", "expired"}

\* Types of every variable; the history of tokens stays within its limit.
TypeOK ==
    /\ connected \in BOOLEAN
    /\ generation \in Nat
    /\ sequence \in Nat
    /\ Live \subseteq 1..sequence /\ Cardinality(Live) <= History
    /\ \A tok \in Live : states[tok] \in [mid : Mids, generation : Nat, state : States]
    /\ queue \in [Mids -> SUBSET Nat]
    /\ quarantined \subseteq Mids
    /\ early \subseteq Nat \X Mids
    /\ \/ publisher \in [at : {"idle", "checked"}]
       \/ publisher \in [at : {"handing"}, generation : Nat]
       \/ publisher \in [at : {"registering"}, generation : Nat, mid : Mids]
    /\ callback \in {"none", "connecting", "disconnecting"}
    /\ wire \subseteq [token : Nat, mid : Mids]
    /\ acknowledged \subseteq Nat
    /\ link \in BOOLEAN

\* A token reads "delivered" only if the broker acknowledged that very publish:
\* no PUBACK of a message before it on the same MID -- late, from an earlier
\* connection, or evicted from the history -- is credited to it.
DeliveredIsOwn ==
    \A tok \in Live : states[tok].state = "delivered" => tok \in acknowledged

\* An acknowledgement that will still come finds its token: a pending token is
\* the only one queued for its MID, and nothing else is queued.
QueueIsPending ==
    /\ \A mid \in Mids : \A tok \in queue[mid] :
            tok \in pending_tokens /\ states[tok].mid = mid
    /\ \A tok \in pending_tokens : in_queue(tok, {states[tok].mid})

\* Evidence is settled once: a delivered, disconnected or expired token keeps
\* that verdict for as long as the history remembers it.
VerdictIsFinal ==
    [][\A tok \in Live \cap DOMAIN states' :
            states[tok].state # "pending" => states'[tok].state = states[tok].state]_vars
=============================================================================
