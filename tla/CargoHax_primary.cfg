SPECIFICATION Spec
CONSTANTS
    Invocations = {p, q}
    lib = lib
    app = app
    Crates = {lib, app}
    Needs <- MCNeeds
    Configs <- MCAllConfigs
    NoOne = NoOne
INVARIANTS
    PrimaryIsTranslated
