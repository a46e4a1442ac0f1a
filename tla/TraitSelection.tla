--------------------------- MODULE TraitSelection ---------------------------
(***************************************************************************)
(* What rustc does for TraitResolution: the clauses in scope of an item,   *)
(* the normalisation of types, and the selection of the source of an       *)
(* implementation, by the rules of the language.  External.                *)
(***************************************************************************)
EXTENDS TraitResolution

CONSTANT ImplHeaders \* the trait and the type of each implementation, with what
                     \* the parameter of the implementation is in that type

\* The item and those it inherits predicates from.
RECURSIVE ScopeOf(_)
ScopeOf(d) == {d} \cup (IF Inherits(d) THEN ScopeOf(Parent[d]) ELSE {})

CallerBounds(p) ==
    {SelfPredicate(p, d) : d \in {d \in ScopeOf(p.owner) : Kind[d] = "Trait"}}
    \cup UNION {ToSet(RequiredPredicates(p, d)) : d \in ScopeOf(p.owner)}

\* A type is rewritten with the equalities in scope.
Rewrite(ty, eqs) == IF eqs = {} THEN ty
                    ELSE LET c == CHOOSE c \in eqs : TRUE
                         IN  c.arg \o SubSeq(ty, Len(c.self) + 1, Len(ty))
RustcNormTy(p, ty) ==
    Rewrite(ty, {c \in CallerBounds(p) : c.kind = "projection" /\ IsPrefix(c.self, ty)})
Norm(p, c) == TraitClause(c.trait, RustcNormTy(p, c.self), RustcNormTy(p, c.arg))

\* Supertraits: the clauses of the trait that are about Self.
SuperPredicates(p, c) ==
    {Norm(p, Instantiate(s, c)) :
        s \in {s \in ToSet(TraitClauses(ImpliedPredicates(p, c.trait))) : s.self = SelfTy}}
RECURSIVE ElaborateFrom(_, _, _)
ElaborateFrom(p, cs, more) ==
    IF more \subseteq cs THEN cs
    ELSE ElaborateFrom(p, cs \cup more, UNION {SuperPredicates(p, c) : c \in more})
Elaborate(p, cs) == ElaborateFrom(p, {}, cs)

\* A clause of the environment, or a bound of the associated type it is about.
RECURSIVE HoldsByParam(_, _)
HoldsByParam(p, c) ==
    \/ c \in Elaborate(p, {Norm(p, b) : b \in {b \in CallerBounds(p) : b.kind = "trait"}})
    \/ /\ Len(c.self) > 1
       /\ HoldsByParam(p, TraitOf(c.self))
       /\ c \in Elaborate(p, {Norm(p, b) : b \in ToSet(ItemBounds(p, c.self))})

ImplsFor(c) == {im \in ImplHeaders : im.trait = c.trait /\ im.self = c.self}
\* The generics of an implementation are what its parameter stands for.
SourceOf(kind, id, generics) == [kind |-> kind, id |-> id, generics |-> generics]
NoGenerics == [self |-> <<>>, arg |-> <<>>]
RustcSelect(p, c) ==
    IF HoldsByParam(p, c) THEN SourceOf("Param", NoItem, NoGenerics)
    ELSE IF ImplsFor(c) # {}
    THEN LET im == CHOOSE im \in ImplsFor(c) : TRUE
         IN  SourceOf("Concrete", im.id, [self |-> c.self, arg |-> im.arg])
    ELSE SourceOf(IF c.trait \in p.builtin THEN "Builtin"
                  ELSE IF c.self = <<"dyn", c.trait>> THEN "Dyn" ELSE "Error",
                  NoItem, NoGenerics)

-----------------------------------------------------------------------------
\* "we select the shortest path when looking up predicates" (resolution.rs): no
\* shorter path of implied clauses and bounds of associated types proves it.
RECURSIVE Within(_)
Within(n) ==
    IF n = 0 THEN {EraseAndNorm(program, a.clause) : a \in ToSet(InitialSearchPredicates(program))}
    ELSE LET ps == Within(n - 1)
             tys(c) == {Append(c.self, d) : d \in {d \in AssocTys : Parent[d] = c.trait}}
         IN  ps \cup {EraseAndNorm(program, c) : c \in UNION {
                 ToSet(InstantiateAll(TraitClauses(ImpliedPredicates(program, c.trait)), c))
                 \cup UNION {ToSet(ItemBounds(program, ty)) : ty \in tys(c)} : c \in ps}}
ShortestPath ==
    \A q \in DOMAIN impl_exprs :
        impl_exprs[q].kind \in {"LocalBound", "SelfImpl"} /\ impl_exprs[q].path # <<>> =>
            EraseAndNorm(program, q) \notin Within(Len(impl_exprs[q].path) - 1)

\* "The index of this predicate in the list returned by `implied_predicates`"
\* (traits.rs:40 and 48).
IndexedInImplied ==
    \A p \in DOMAIN candidates : \A n \in DOMAIN candidates[p].path :
        LET chunk == candidates[p].path[n]
            from == After(program, candidates[p].origin.clause, candidates[p].path, n - 1)
            implied == ImpliedPredicates(program,
                           IF chunk.kind = "Parent" THEN from.trait ELSE chunk.item)
        IN  /\ chunk.index + 1 \in DOMAIN implied
            /\ Instantiate(implied[chunk.index + 1], from) = chunk.predicate
=============================================================================
