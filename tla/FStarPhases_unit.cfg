SPECIFICATION Spec
CONSTANTS
    Mutables <- MCMutables
    Fuel = 5
    Programs <- UnitNested
    Arguments <- MCArguments
INVARIANT
    JumpsHaveAnEquivalent
