---------------------------- MODULE CommandState ----------------------------
(***************************************************************************)
(* ems/mqtt_control/command_state.py with the two tables it is driven by,  *)
(* reply_contracts.py and confirmation.py, and the expected properties of  *)
(* ems/power_command.py and mqtt_control/zendure_commands.py.              *)
(*                                                                         *)
(* Profile is the device's write profile: "zensdk" (properties/write),     *)
(* "invoke" (the legacy function/invoke automation, the only one with a    *)
(* reply contract) or "custom" (an operator's own topic).                  *)
(***************************************************************************)
EXTENDS ChargeRecord

CONSTANTS
    Profile,            \* "zensdk", "invoke" or "custom"
    Confirmable,        \* telemetry_confirmation_supported
    Tolerance,          \* confirmation_tolerance_w
    AckTimeout,         \* _command_ack_timeout_s, in ticks
    ConfirmTimeout      \* _confirmation_timeout_s, in ticks

ASSUME CommandAssumption == /\ Profile \in {"zensdk", "invoke", "custom"}
                            /\ Confirmable \in BOOLEAN
                            /\ Tolerance \in Nat
                            /\ AckTimeout \in Nat
                            /\ ConfirmTimeout \in Nat

supports_acknowledgement == Profile = "invoke"

ActiveStates == {"queued", "published", "acknowledged"}

TerminalStates == {"telemetry_confirmed", "completed_unconfirmed",
                   "confirmation_timed_out", "rejected", "timed_out",
                   "superseded"}

\* Mutant: a reply is taken for whatever command is in flight.
any_reply_matches(message_id, reply_id) == TRUE

\* A reply correlates by messageId; the device id is the client's own here.
reply_matches(message_id, reply_id) == message_id = reply_id

\* The state a correlated reply leaves a published command in.
apply_reply(success) == IF success THEN "acknowledged" ELSE "rejected"

apply_timeout(state, created) == state = "published" /\ created >= AckTimeout

\* Mutant: only an acknowledged command has a confirmation deadline.
acknowledged_timeout_only(state, published, acknowledged, from_published) ==
    state = "acknowledged" /\ acknowledged >= ConfirmTimeout

apply_confirmation_timeout(state, published, acknowledged, from_published) ==
    \/ state = "acknowledged" /\ acknowledged >= ConfirmTimeout
    \/ from_published /\ state = "published" /\ published >= ConfirmTimeout

\* ---- which telemetry proves a command applied ------------------------------

\* A command with no expected set of its own is proven by outputLimit alone.
expected_properties(target) ==
    CASE Profile = "zensdk" /\ target < 0 ->
            [smartMode |-> 1, acMode |-> AC_MODE_INPUT, outputLimit |-> 0,
             inputLimit |-> -target]
      [] Profile = "zensdk" /\ target >= 0 ->
            [smartMode |-> 1, acMode |-> AC_MODE_OUTPUT, outputLimit |-> target,
             inputLimit |-> 0]
      [] Profile = "invoke" /\ target < 0 ->
            [acMode |-> AC_MODE_INPUT, inputLimit |-> -target]
      [] OTHER -> [outputLimit |-> target]

optional_expected_keys(target) ==
    IF target < 0 THEN {"smartMode", "outputLimit"} ELSE {"smartMode", "inputLimit"}

\* Measured AC input stands in for the inputLimit a charging device omits.
evidence_key_for(target, key, m) ==
    IF /\ target < 0 /\ key = "inputLimit"
       /\ ~Observed(m, key) /\ Observed(m, "gridInputPower")
    THEN "gridInputPower" ELSE key

property_matches(key, observed, expected) ==
    IF key \in {"outputLimit", "inputLimit", "gridInputPower"}
    THEN Abs(observed - expected) <= Tolerance
    ELSE observed = expected

\* since: the properties reported at or after the command's publish.
property_confirmed(target, key, m, since) ==
    LET evidence == evidence_key_for(target, key, m)
    IN  IF Observed(m, evidence)
        THEN /\ property_matches(evidence, m[evidence], expected_properties(target)[key])
             /\ evidence \in since
        ELSE key \in optional_expected_keys(target) /\ evidence \notin DOMAIN m

confirm_eligible(state) ==
    state = "acknowledged" \/ (~supports_acknowledgement /\ state = "published")

\* The whole confirmation of one command from one merged snapshot.
confirms(state, target, m, since) ==
    /\ Confirmable
    /\ confirm_eligible(state)
    /\ "outputLimit" \in DOMAIN m
    /\ \A key \in DOMAIN expected_properties(target) :
            property_confirmed(target, key, m, since)
=============================================================================
