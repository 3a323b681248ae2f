CONSTANTS
    Invalid = Invalid
    NoTarget = NoTarget
    NoCommand = NoCommand
    MessageIds = {m1, m2}
    Profile = "zensdk"
    Confirmable = TRUE
    Tolerance = 1
    Margin = 3
    MaxPower = 8
    AckTimeout = 1
    ConfirmTimeout = 1
    ResendAfter = 1
    FOUND_EXIT_ATTEMPTS = 2
    StaleAfter = 1
    Targets <- SpentTargets
    ExitShapes = {"none", "final"}
    Reports <- DrawnReports
SPECIFICATION FairSpec
INVARIANTS NoExitOnceSpent
PROPERTIES SpentChargeIsLeft SlotIsReleased
