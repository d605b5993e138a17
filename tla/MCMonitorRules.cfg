SPECIFICATION RulesFairSpec
CONSTANTS
    REMINDER = 2
    DAILY = 3
    COOLDOWN = 2
    Counters = {"send_failed"}
    Scenarios <- MCScenarios
    MaxCount = 3
    MaxResets = 1
    MaxCrashes = 1
    MaxLost = 1
    NoValue = none
INVARIANTS
    IncreasesAnnounced
PROPERTIES
    ChangeIsAnnounced
    TroubleIsHeard
