SPECIFICATION Spec

CONSTANTS
    RequiredCollectorNames <- MCRequired
    OptionalCollectorNames <- MCOptional
    LogsCollectorName = "Logs"
    All = "all"
    Defaults = "defaults"
    Unknown = "other"
    MaxSelected = 3

INVARIANT
    CaseInsensitive

CHECK_DEADLOCK FALSE
