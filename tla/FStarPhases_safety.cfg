SPECIFICATION Spec
CONSTANTS
    Mutables <- MCMutables
    Fuel = 5
    Programs <- MCPrograms
    Arguments <- MCArguments
INVARIANTS
    MeaningKept
    FailuresAreExplained
