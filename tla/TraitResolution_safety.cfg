SPECIFICATION Spec
CONSTANTS
    NoItem = NoItem
    D = D
    Z = Z
    C = C
    A = A
    Y = Y
    X = X
    method = method
    fn = fn
    closure = closure
    enum = enum
    enum_variant = enum_variant
    ctor = ctor
    impl = impl
    impl_fn = impl_fn
    implD = implD
    implVec = implVec
    Items <- MCItems
    Parent <- MCParent
    Kind <- MCKind
    Depth <- MCDepth
    NormTy <- RustcNormTy
    Select <- RustcSelect
    ImplHeaders <- MCImplHeaders
    Programs <- MCPrograms
    Queries <- MCQueries
    MaxSolved = 3
INVARIANTS
    AnswersAreProofs
    ParamIsFound
