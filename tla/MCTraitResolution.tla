------------------------- MODULE MCTraitResolution --------------------------
(* Traits D, Z: D?, C<U> and A with two associated types Y and X; functions, *)
(* methods, closures and constructors that are generic in T.                 *)
EXTENDS TraitSelection

CONSTANTS D, Z, C, A, Y, X, method, fn, closure, enum, enum_variant, ctor, impl, impl_fn,
          implD, implVec

MCItems == {D, Z, C, A, Y, X, method, fn, closure, enum, enum_variant, ctor, impl, impl_fn,
            implD, implVec}
MCParent == [d \in MCItems |->
    CASE d \in {Y, X, method} -> A [] d = closure -> fn [] d = enum_variant -> enum
      [] d = ctor -> enum_variant [] d = impl_fn -> impl [] OTHER -> NoItem]
MCKind == [d \in MCItems |->
    CASE d \in {D, Z, C, A} -> "Trait" [] d \in {Y, X} -> "AssocTy"
      [] d \in {method, impl_fn} -> "AssocFn" [] d = fn -> "Fn" [] d = closure -> "Closure"
      [] d = enum -> "Enum" [] d = enum_variant -> "Variant" [] d = ctor -> "Ctor"
      [] OTHER -> "Impl"]

MCDepth == [d \in MCItems |->
    CASE d \in {Y, X, method, closure, enum_variant, impl_fn} -> 1 [] d = ctor -> 2 [] OTHER -> 0]

TyT == <<"T">>
Is(ty, t) == TraitClause(t, ty, <<>>)
IsC(ty, arg) == TraitClause(C, ty, arg)

MCImplHeaders == {[id |-> implD, trait |-> D, self |-> <<"u8">>, arg |-> <<>>],
                  [id |-> implVec, trait |-> D, self |-> <<"VecT">>, arg |-> TyT]}
\* impl<'a, U> D for Vec<U> where U: 'a, U::Y: D, U: D
RequiredByVec == <<Outlives, Is(<<"U", Y>>, D), Is(<<"U">>, D)>>

\* The clauses each trait and associated type may have.
ImpliedByZ == {<<>>, <<Outlives, Is(SelfTy, D)>>}
ImpliedByC == {<<Is(<<"U">>, D)>>, <<Outlives, Is(SelfTy, Z), Is(<<"U">>, D)>>}
ImpliedByA == {<<Is(SelfTy, D)>>, <<Outlives, Is(SelfTy, Z), Is(SelfTy, D)>>}
BoundsOfY == {<<>>, <<Is(<<"Self", Y>>, D)>>}
BoundsOfX == {<<Outlives, IsC(<<"Self", X>>, <<"Self", Y>>)>>,
              <<Is(<<"Self", X>>, A), IsC(<<"Self", X>>, <<"Self", Y>>)>>}
RequiredByX == {<<>>, <<Is(SelfTy, D)>>}
\* The clauses of the item: `T: A`, with more of what T::Y and T::X are.
RequiredByOwner == {<<Is(TyT, A)>>, <<Outlives, Is(<<"T", Y>>, Z), Is(TyT, A)>>,
                    <<Is(TyT, A), ProjectionClause(<<"T", Y>>, <<"u8">>)>>}

MCOwners == {method, closure, ctor, impl_fn}

Program(owner, z, c, a, y, x, rx, own) ==
    [owner |-> owner, builtin |-> {Z},
     params |-> [d \in MCItems |-> IF d = C THEN <<"U">> ELSE <<>>],
     bounds |-> [d \in MCItems |-> CASE d = Y -> y [] d = X -> x [] OTHER -> <<>>],
     explicit |-> [d \in MCItems |->
        CASE d = Z -> z [] d = C -> c [] d = A -> a [] d = X -> rx
          [] d \in {fn, enum, impl} -> own [] d = implVec -> RequiredByVec
          [] d \in {impl_fn, method} -> <<Outlives, Is(<<"V">>, Z)>>
          [] OTHER -> <<>>]]

\* rustc accepts a program only if what a clause of it requires is known: the
\* parameter of C is D when C says so.
Accepted(p) == p.bounds[X] = <<>> \/ p.explicit[C] = <<>> \/ p.bounds[Y] # <<>>

\* What Z implies is combined with the fuller ones of the other clauses, an X
\* that requires nothing itself with what the item says of T::Y, and a trait A
\* with one clause only with an item that says T: A alone.
Combined(z, a, rx, own) ==
    /\ Len(a) = 1 => z = <<>> /\ rx # <<>> /\ Len(own) = 1
    /\ rx = <<>> => z = <<>> /\ Len(own) > 1
    /\ z # <<>> => own[Len(own)].kind = "trait"

MCPrograms ==
    {p \in {Program(fn, z, c, a, y, x, rx, own) :
               z \in ImpliedByZ, c \in ImpliedByC, a \in ImpliedByA, y \in BoundsOfY,
               x \in BoundsOfX, rx \in RequiredByX, own \in RequiredByOwner} :
        Accepted(p) /\ Combined(p.explicit[Z], p.explicit[A], p.explicit[X], p.explicit[fn])}
    \cup {Program(o, <<>>, c, a, <<Is(<<"Self", Y>>, D)>>, x, <<Is(SelfTy, D)>>, own) :
              o \in MCOwners, c \in {<<Is(<<"U">>, D)>>},
              a \in {<<Outlives, Is(SelfTy, Z), Is(SelfTy, D)>>}, x \in BoundsOfX,
              own \in {<<Outlives, Is(<<"T", Y>>, Z), Is(TyT, A)>>}}

\* In the trait the references are about Self, elsewhere about T.
About(ty) == {Is(ty, D), Is(ty \o <<Y>>, D), Is(ty \o <<X>>, D), Is(ty \o <<X>>, A),
              IsC(ty \o <<X>>, ty \o <<Y>>), Is(ty \o <<X, Y>>, D)}
MCQueries == About(TyT) \cup {Is(SelfTy, Z), Is(<<"Self", X>>, A), Is(<<"VecT">>, D)}
=============================================================================
