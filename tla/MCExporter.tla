----------------------------- MODULE MCExporter -----------------------------
(* A module `m` with two constants `n` and `k`, a `const fn` `f`, a function *)
(* `g` with a closure and an inline constant, an enum `e` with an explicit   *)
(* discriminant, a trait `t` and its implementation `i`, which calls on an   *)
(* implementation `j` of another crate; `j` needs `l`, of that crate too.    *)
EXTENDS Exporter

CONSTANTS m, n, k, f, g, closure, inline, e, v, discr, t, method, i, impl_method,
          other_crate, j, l, TyE, TyClosure, TyProj, TyVec, EIsT, VecIsT, ProjIsT

MCDefs == {m, n, k, f, g, closure, inline, e, v, discr, t, method, i, impl_method,
           other_crate, j, l}

MCParent == [d \in MCDefs |->
    CASE d \in {n, k, f, g, e, t, i} -> m
      [] d \in {closure, inline} -> g
      [] d = v -> e
      [] d = discr -> v
      [] d = method -> t
      [] d = impl_method -> i
      [] d \in {j, l} -> other_crate
      [] OTHER -> None]
MCChildren == [d \in MCDefs |->
    CASE d = m -> <<n, k, f, g, e, t, i>>
      [] d = g -> <<closure, inline>>
      [] d = e -> <<v>>
      [] d = v -> <<discr>>
      [] d = t -> <<method>>
      [] d = i -> <<impl_method>>
      [] d = other_crate -> <<j, l>>
      [] OTHER -> <<>>]
MCDefKind == [d \in MCDefs |->
    CASE d \in {m, other_crate} -> "Mod"
      [] d \in {n, k} -> "Const"
      [] d \in {f, g} -> "Fn"
      [] d = closure -> "Closure"
      [] d = inline -> "InlineConst"
      [] d = e -> "Enum"
      [] d = v -> "Variant"
      [] d = discr -> "AnonConst"
      [] d = t -> "Trait"
      [] d \in {method, impl_method} -> "AssocFn"
      [] OTHER -> "Impl"]

MCTys == {TyE, TyClosure, TyProj, TyVec}
MCTraitRefs == {EIsT, VecIsT, ProjIsT}
MCTyShape == [ty \in MCTys |->
    CASE ty = TyE -> [kind |-> "Adt", def |-> e, args |-> <<>>, bounds |-> <<>>]
      [] ty = TyVec -> [kind |-> "Adt", def |-> e, args |-> <<TyE>>, bounds |-> <<EIsT>>]
      [] ty = TyClosure -> [kind |-> "Closure", def |-> closure, args |-> <<TyE>>]
      [] OTHER -> [kind |-> "Projection", assoc |-> method, bounds |-> <<VecIsT>>,
                   args |-> <<TyVec>>]]
MCResolution == [p \in MCTraitRefs |->
    CASE p = EIsT -> [kind |-> "Concrete", trait |-> t, args |-> <<TyE>>, impl |-> i,
                      generics |-> <<>>, nested |-> <<>>]
      [] p = VecIsT -> [kind |-> "Concrete", trait |-> t, args |-> <<TyVec>>, impl |-> j,
                        generics |-> <<TyE>>, nested |-> <<EIsT>>]
      [] OTHER -> [kind |-> "Concrete", trait |-> t, args |-> <<TyProj>>, impl |-> l,
                   generics |-> <<>>, nested |-> <<VecIsT>>]]
MCRank == [x \in MCDefs \cup MCTys \cup MCTraitRefs |->
    CASE x \in {m, other_crate} -> 0
      [] x \in {n, k, f, g, e, t, i, j, l} -> 1
      [] x \in {closure, inline, v, method, impl_method} -> 2
      [] x = discr -> 3
      [] x = TyE -> 4
      [] x \in {TyClosure, EIsT} -> 5
      [] x = TyVec -> 6
      [] x = VecIsT -> 7
      [] x = TyProj -> 8
      [] OTHER -> 9]

Crate(owners, ill, evaluates, items, types) ==
    [body_owners |-> owners, ill_typed |-> ill, items |-> items, body_types |-> types,
     evaluates |-> [d \in MCDefs |-> {b \in MCDefs : <<d, b>> \in evaluates}],
     consts |-> [d \in MCDefs |-> IF d = v THEN <<discr>> ELSE <<>>],
     mentions |-> [d \in MCDefs |->
        CASE d = g -> <<TyClosure, f, n>>
          [] d = closure -> <<TyE>>
          [] d = i -> <<TyE, t, VecIsT>>
          [] d = impl_method -> <<TyProj, method>>
          [] d = j -> <<TyVec, t, ProjIsT>>
          [] d \in {n, k} -> <<k>>
          [] OTHER -> <<>>]]

\* What is evaluated, in any order of the bodies: a constant in the type of
\* another, a constant in a discriminant, a function called by a constant, and a
\* constant in the type of a function.
Evaluations == {<<n, k>>, <<k, n>>, <<discr, n>>, <<n, f>>, <<f, k>>, <<g, f>>}
Some == {s \in SUBSET Evaluations : ~{<<n, k>>, <<k, n>>} \subseteq s}
Bodies == {<<g, closure, inline>> \o s : s \in SetToSeqs({f, n, k, discr})}
MCKrates ==
    {Crate(o, ill, s, <<n, f>>, {"Thir"}) : o \in Bodies, ill \in {{}, {f}}, s \in Some}
    \cup {Crate(<<n, f, g, closure, inline, k, discr, impl_method>>, {}, s, it, types) :
             s \in {{}, {<<n, k>>}},
             it \in {<<m>>, <<g, e, t, i, m>>, <<i, g, e, n, f, k, t, m>>, <<e, t>>},
             types \in SUBSET {"Thir", "MirBuilt"}}
=============================================================================
