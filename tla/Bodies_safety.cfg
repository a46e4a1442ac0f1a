SPECIFICATION BodiesSpec
CONSTANTS
    Adts <- MCAdts
    Ascii <- MCAscii
    Consts <- MCConsts
    Enums <- MCEnums
    Functions <- MCFunctions
    MirBodies <- MCBodies
    Steps <- MCSteps
    NoId = NoId
    Fuel = 6
INVARIANTS
    ConstantsKeepTheirValue
    ConstantErrorsAreExplained
    BodyKeepsItsMeaning
    BodyStopsAreExplained
    MeaningIsKept
    BodyErrorsAreExplained
CHECK_DEADLOCK FALSE
