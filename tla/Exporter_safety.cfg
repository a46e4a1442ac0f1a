SPECIFICATION Spec
CONSTANTS
    None = None
    m = m
    n = n
    k = k
    f = f
    g = g
    closure = closure
    inline = inline
    e = e
    v = v
    discr = discr
    t = t
    method = method
    i = i
    impl_method = impl_method
    other_crate = other_crate
    j = j
    l = l
    TyE = TyE
    TyClosure = TyClosure
    TyProj = TyProj
    TyVec = TyVec
    EIsT = EIsT
    VecIsT = VecIsT
    ProjIsT = ProjIsT
    Defs <- MCDefs
    Parent <- MCParent
    Children <- MCChildren
    DefKind <- MCDefKind
    ConstFns = {f}
    Tys <- MCTys
    TyShape <- MCTyShape
    TraitRefs <- MCTraitRefs
    Resolution <- MCResolution
    Rank <- MCRank
    Krates <- MCKrates
INVARIANTS
    BodiesLostInOrder
    TableIsSound
    FileIsReadBack
    ImplsHaveInfos
CHECK_DEADLOCK FALSE
