CONSTANTS
    Invalid = Invalid
    NoTarget = NoTarget
    NoCommand = NoCommand
    MessageIds = {m1, m2}
    Profile = "invoke"
    Confirmable = TRUE
    Tolerance = 1
    Margin = 3
    MaxPower = 8
    AckTimeout = 1
    ConfirmTimeout = 1
    ResendAfter = 1
    FOUND_EXIT_ATTEMPTS = 2
    StaleAfter = 1
    Targets = {0, 4}
    ExitShapes = {"to_output"}
    Reports <- FoundReports
SPECIFICATION Spec
SYMMETRY Symmetry
INVARIANTS TypeOK SingleInFlight LatestIntent SafetyNeverWaits AcceptanceIsTheDevices FoundExitsBounded StreakNeedsReports
PROPERTIES OutcomeIsFinal
