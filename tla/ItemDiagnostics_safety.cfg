SPECIFICATION Spec
CONSTANTS
    N = 3
    Kinds = {unsupported}
    MaxYield = 2
    MaxReports = 2
    MaxState = 3
INVARIANTS
    HintNamesItem
    StaleHintIsFailure
    NoForeignReports
    NoSilentError
