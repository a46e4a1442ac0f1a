-------------------------- MODULE TraitResolution ---------------------------
(***************************************************************************)
(* The resolution of trait references inside one item                      *)
(* (frontend/exporter/src/traits/resolution.rs, traits/utils.rs and        *)
(* solve_trait of traits.rs).                                              *)
(*                                                                         *)
(* A PredicateSearcher is made once per item and kept in its cache.  It    *)
(* starts with the clauses in scope and what they imply, and grows each    *)
(* time a trait reference about an associated type is resolved.  The       *)
(* answer for a clause in scope is the clause it comes from (an index) and *)
(* a path of implied clauses, so that what was resolved before must not    *)
(* make an answer wrong, or missing.                                       *)
(*                                                                         *)
(* resolve and resolve_local call each other; what they add to the         *)
(* candidates stays when a call further down the stack looks again, so the *)
(* stack of the calls is explicit.  rustc is external: it selects the      *)
(* source of an implementation (Select) and normalises types (NormTy).     *)
(***************************************************************************)
EXTENDS RustData, SequencesExt, FiniteSets, Functions

CONSTANTS Items,        \* the definitions: items, traits, associated types
          NoItem,       \* no definition
          Parent,       \* Parent[d]: what encloses d, or NoItem
          Kind,         \* Kind[d]: its DefKind
          Depth,        \* Depth[d]: how many definitions enclose it
          Programs,     \* the programs, and the item whose references are resolved
          NormTy(_, _), \* NormTy(g, ty): ty normalised in the owner of g
          Select(_, _), \* Select(g, p): where the implementation of p comes from
          Queries,      \* the trait references to resolve
          MaxSolved     \* bound: how many of them an item has

AssocTys == {d \in Items : Kind[d] = "AssocTy"}
Impls == {d \in Items : Kind[d] = "Impl"}

\* The kinds whose predicates come after those of what encloses them.
Inherits(d) == Kind[d] \in {"AssocTy", "AssocFn", "AssocConst", "Closure", "Ctor", "Variant"}

ASSUME ItemsAssumption ==
    /\ Kind \in [Items -> STRING]
    /\ Depth \in [Items -> Nat]
    \* what inherits predicates is enclosed by something
    /\ \A d \in Items : Inherits(d) => Parent[d] \in Items /\ Depth[Parent[d]] < Depth[d]

\* The clauses of a list: those that are trait clauses are about traits.
IsClauseList(s) == /\ s \in Seq(Range(s))
                   /\ \A c \in Range(s) : c.kind = "trait" => c.trait \in Items

ASSUME ProgramsAssumption ==
    \A g \in Programs :
        /\ g.owner \in Items
        /\ \A d \in Items : IsClauseList(g.explicit[d])   \* predicates_defined_on
        /\ \A d \in Items : IsClauseList(g.bounds[d])     \* explicit_item_bounds

ASSUME QueriesAssumption == \A tref \in Queries : tref.trait \in Items

VARIABLES
    program,            \* the clauses of each item, and the owner
    predicate_searcher, \* ItemCache: "none" before the first use, then "made"
    candidates,         \* PredicateSearcher.candidates
    extending,          \* the candidates that extend still has to insert
    stack,              \* the calls of resolve and resolve_local under way
    impl_exprs          \* ItemCache.impl_exprs: the answers

vars == <<program, predicate_searcher, candidates, extending, stack, impl_exprs>>

-----------------------------------------------------------------------------
(* Clauses.  A type is a parameter or a type constant followed by associated  *)
(* types: <<"T", Y>> is T::Y.                                                 *)

SelfTy == <<"Self">>
\* The parameter of a trait.
ParamU == "U"

TraitClause(t, self, arg) == [kind |-> "trait", trait |-> t, self |-> self, arg |-> arg]
\* A clause that is no trait clause: `'a: 'b` or `T: 'a`.
Outlives == [kind |-> "outlives", trait |-> NoItem, self |-> <<>>, arg |-> <<>>]
\* `<T as Trait>::Y == term`.
ProjectionClause(ty, term) == [kind |-> "projection", trait |-> NoItem, self |-> ty, arg |-> term]

TraitClauses(s) == Among(s, {c \in Range(s) : c.kind = "trait"})

\* The substitution of a trait's Self and parameter, in trait clauses.
SubstTy(ty, p) == CASE ty = <<>> -> <<>>
                    [] Head(ty) = "Self" -> p.self \o Tail(ty)
                    [] Head(ty) = ParamU -> p.arg \o Tail(ty)
                    [] OTHER -> ty
Instantiate(c, p) == TraitClause(c.trait, SubstTy(c.self, p), SubstTy(c.arg, p))
InstantiateAll(s, p) == [i \in DOMAIN s |-> Instantiate(s[i], p)]

EraseAndNorm(g, p) == TraitClause(p.trait, NormTy(g, p.self), NormTy(g, p.arg))

\* Variants and constructors have the predicates of what encloses them.
RequiredPredicates(g, d) ==
    LET variant == IF Kind[d] = "Ctor" THEN Parent[d] ELSE d
        e == IF Kind[variant] = "Variant" THEN Parent[variant] ELSE variant
    IN  IF Kind[e] \in {"AssocConst", "AssocFn", "AssocTy", "Const", "Enum", "Fn", "ForeignTy",
                        "Impl", "OpaqueTy", "Static", "Struct", "TraitAlias", "TyAlias", "Union"}
        THEN g.explicit[e] ELSE <<>>

ImpliedPredicates(g, d) ==
    CASE Kind[d] = "Trait" -> g.explicit[d]
      [] Kind[d] = "AssocTy" /\ Kind[Parent[d]] = "Trait" -> g.bounds[d]
      [] OTHER -> <<>>

SelfPredicate(g, d) == TraitClause(d, SelfTy, g.params[d])

\* An associated type can be projected from: its trait, with what it is about.
IsProjection(ty) == Len(ty) > 1 /\ Last(ty) \in AssocTys
TraitOf(ty) == TraitClause(Parent[Last(ty)], Front(ty), <<>>)
AliasArgs(ty) == [self |-> Front(ty), arg |-> <<>>]

-----------------------------------------------------------------------------
(* initial_search_predicates *)

SelfPred == -1

\* acc_predicates: the predicates so far, and the number of the next one.
NoPredicates(g, d) ==
    [predicates |-> IF Kind[d] = "Trait"
                    THEN <<[origin |-> SelfPred, clause |-> SelfPredicate(g, d)]>> ELSE <<>>,
     pred_id |-> 0]
WithOwn(g, outer, d) ==
    LET own == TraitClauses(RequiredPredicates(g, d))
    IN  [predicates |-> outer.predicates
             \o [i \in DOMAIN own |-> [origin |-> outer.pred_id + i - 1, clause |-> own[i]]],
         pred_id |-> outer.pred_id + Len(own)]
\* From the outermost item.
AccPredicates(g) ==
    LET acc[d \in Items] ==
            WithOwn(g, IF Inherits(d) THEN acc[Parent[d]] ELSE NoPredicates(g, d), d)
    IN  acc
InitialSearchPredicates(g) == AccPredicates(g)[g.owner].predicates

-----------------------------------------------------------------------------
(* PredicateSearcher::extend *)

Candidate(path, pred, origin) == [path |-> path, pred |-> pred, origin |-> origin]

InitialCandidates(g) ==
    LET initial == InitialSearchPredicates(g)
    IN  [i \in DOMAIN initial |-> Candidate(<<>>, initial[i].clause, initial[i])]

\* Faulty variant of Indexed: the index in the list with every clause.
IndexedAll(s) == [i \in DOMAIN TraitClauses(s) |->
                     [index |-> (CHOOSE k \in DOMAIN s : s[k] = TraitClauses(s)[i]) - 1,
                      clause |-> TraitClauses(s)[i]]]

\* The trait clauses of a list, numbered from 0.
Indexed(s) == [i \in DOMAIN TraitClauses(s) |-> [index |-> i - 1, clause |-> TraitClauses(s)[i]]]

ParentChunk(pred, index) ==
    [kind |-> "Parent", item |-> NoItem, impl_exprs |-> <<>>, predicate |-> pred, index |-> index]
AssocChunk(item, exprs, pred, index) ==
    [kind |-> "AssocItem", item |-> item, impl_exprs |-> exprs, predicate |-> pred, index |-> index]

\* parents_trait_predicates, with the path that leads to each.
ParentsOf(g, c) ==
    LET implied == Indexed(ImpliedPredicates(g, c.pred.trait))
    IN  [i \in DOMAIN implied |->
            LET pred == Instantiate(implied[i].clause, c.pred)
            IN  Candidate(Append(c.path, ParentChunk(pred, implied[i].index)), pred, c.origin)]

\* One turn of the loop: the first candidate for a predicate is kept.  What it
\* implies is inserted after all that there is to insert (extend_parents), breadth
\* first.
Normalised(g, c) == [c EXCEPT !.pred = EraseAndNorm(g, @)]
Extend ==
    /\ extending # <<>>
    /\ LET c == Normalised(program, Head(extending))
       IN  IF c.pred \in DOMAIN candidates
           THEN extending' = Tail(extending) /\ UNCHANGED candidates
           ELSE /\ extending' = Tail(extending) \o ParentsOf(program, c)
                /\ candidates' = Put(candidates, c.pred, c)
    /\ UNCHANGED <<program, predicate_searcher, stack, impl_exprs>>

-----------------------------------------------------------------------------
(* The calls under way.  target is what a call looks for, found the candidate *)
(* that resolve_local returned to it, preds what it still has to resolve      *)
(* besides, and exprs the answers to the first of these.                      *)

Call(fn, target) == [fn |-> fn, target |-> target, step |-> "start",
                     found |-> <<>>, preds |-> <<>>, exprs |-> <<>>]
Top == Last(stack)
Caller == stack[Len(stack) - 1]
Running(step) == extending = <<>> /\ stack # <<>> /\ Top.step = step

\* A call waits for another, has found its candidate, or resolves preds.
Waiting(f) == [f EXCEPT !.step = "local"]
WithFound(f, found) == [f EXCEPT !.found = found, !.step = "found"]
WithPreds(f, preds) == [f EXCEPT !.step = "nested", !.preds = preds]

Going(frame) == [stack EXCEPT ![Len(stack)] = frame]
Calling(frame, call) == Append(Going(frame), call)
Returning(frame) == [Front(stack) EXCEPT ![Len(stack) - 1] = frame]

Lookup(p) == IF p \in DOMAIN candidates THEN <<candidates[p]>> ELSE <<>>
\* resolve_local returns to a call of either function.
ReturningFound(found) == Returning(WithFound(Caller, found))

-----------------------------------------------------------------------------
(* PredicateSearcher::resolve *)

NoOrigin == [origin |-> NoItem, clause |-> Outlives]
ImplExpr(tref, kind, id, origin, path, nested) ==
    [trait |-> tref, kind |-> kind, id |-> id, origin |-> origin, path |-> path,
     impl_exprs |-> nested]

\* An answer that names a clause in scope, or an error.
LocalAnswer(tref, found) ==
    IF found = <<>> THEN ImplExpr(tref, "Error", NoItem, NoOrigin, <<>>, <<>>)
    ELSE ImplExpr(tref, IF found[1].origin.origin = SelfPred THEN "SelfImpl" ELSE "LocalBound",
                  NoItem, found[1].origin, found[1].path, <<>>)
\* An answer that names no clause, with those of what it requires.
SourceAnswer(tref, source, nested) ==
    ImplExpr(tref, IF source.kind \in {"Concrete", "Builtin", "Dyn"} THEN source.kind ELSE "Error",
             source.id, NoOrigin, <<>>, nested)

\* What the chosen source of an implementation requires.
Required(g, source, p) ==
    CASE source.kind = "Concrete" /\ source.id \in Impls ->
            InstantiateAll(TraitClauses(RequiredPredicates(g, source.id)), source.generics)
      [] source.kind = "Builtin" ->
            InstantiateAll(TraitClauses(ImpliedPredicates(g, p.trait)), p)
      [] OTHER -> <<>>

Source(g, tref) == Select(g, EraseAndNorm(g, tref))

\* The reference is normalised, and rustc chooses.
Resolve ==
    /\ Running("start") /\ Top.fn = "resolve"
    /\ LET p == EraseAndNorm(program, Top.target)
           source == Source(program, Top.target)
       IN  stack' = IF source.kind = "Param"
                    THEN Calling(Waiting(Top), Call("resolve_local", p))
                    ELSE Going(WithPreds(Top, Required(program, source, p)))
    /\ UNCHANGED <<program, predicate_searcher, candidates, extending, impl_exprs>>

\* resolve_predicates: the next one.
ResolveNext ==
    /\ Running("nested") /\ Len(Top.exprs) < Len(Top.preds)
    /\ stack' = Append(stack, Call("resolve", Top.preds[Len(Top.exprs) + 1]))
    /\ UNCHANGED <<program, predicate_searcher, candidates, extending, impl_exprs>>

\* The answer goes to the call that asked for it, or to the cache.
Answers(expr) ==
    /\ IF Len(stack) = 1
       THEN stack' = <<>> /\ impl_exprs' = Put(impl_exprs, Top.target, expr)
       ELSE /\ stack' = Returning([Caller EXCEPT !.exprs = Append(@, expr)])
            /\ UNCHANGED impl_exprs
    /\ UNCHANGED <<program, predicate_searcher, candidates, extending>>
AnswerLocal == /\ Running("found") /\ Top.fn = "resolve"
               /\ Answers(LocalAnswer(Top.target, Top.found))
AnswerSource == /\ Running("nested") /\ Top.fn = "resolve" /\ Len(Top.exprs) = Len(Top.preds)
                /\ Answers(SourceAnswer(Top.target, Source(program, Top.target), Top.exprs))

-----------------------------------------------------------------------------
(* PredicateSearcher::resolve_local, and add_associated_type_refs *)

\* Faulty variant of IsMissing: what is not there is not looked for.
NotLookedFor(p) == FALSE
IsMissing(p) == Lookup(p) = <<>> /\ IsProjection(p.self)

\* The bounds of an associated type come with the clause that holds its trait.
ResolveLocal ==
    /\ Running("start") /\ Top.fn = "resolve_local"
    /\ stack' = IF IsMissing(Top.target)
                THEN Calling(Waiting(Top), Call("resolve_local", TraitOf(Top.target.self)))
                ELSE ReturningFound(Lookup(Top.target))
    /\ UNCHANGED <<program, predicate_searcher, candidates, extending, impl_exprs>>

\* What the associated type requires itself is resolved first.
RequiredByType(g, ty) ==
    InstantiateAll(TraitClauses(RequiredPredicates(g, Last(ty))), AliasArgs(ty))

TraitFound ==
    /\ Running("found") /\ Top.fn = "resolve_local"
    /\ stack' = IF Top.found = <<>> THEN ReturningFound(Lookup(Top.target))
                ELSE Going(WithPreds(Top, RequiredByType(program, Top.target.self)))
    /\ UNCHANGED <<program, predicate_searcher, candidates, extending, impl_exprs>>

\* The candidates for the bounds, from the one that holds the trait.
BoundCandidates(g, ty, holder, exprs) ==
    LET bounds == Indexed(ImpliedPredicates(g, Last(ty)))
    IN  [i \in DOMAIN bounds |->
            LET pred == Instantiate(bounds[i].clause, AliasArgs(ty))
            IN  Candidate(Append(holder.path, AssocChunk(Last(ty), exprs, pred, bounds[i].index)),
                          pred, holder.origin)]

AddBounds ==
    /\ Running("nested") /\ Top.fn = "resolve_local" /\ Len(Top.exprs) = Len(Top.preds)
    /\ extending' = BoundCandidates(program, Top.target.self, Top.found[1], Top.exprs)
    /\ stack' = Going([Top EXCEPT !.step = "extended"])
    /\ UNCHANGED <<program, predicate_searcher, candidates, impl_exprs>>

LookUpAgain ==
    /\ Running("extended") /\ Top.fn = "resolve_local"
    /\ stack' = ReturningFound(Lookup(Top.target))
    /\ UNCHANGED <<program, predicate_searcher, candidates, extending, impl_exprs>>

-----------------------------------------------------------------------------
(* solve_trait, for any reference of the item in any order *)

Init == /\ program \in Programs
        /\ predicate_searcher = "none"
        /\ candidates = <<>> /\ extending = <<>>
        /\ stack = <<>> /\ impl_exprs = <<>>

SolveTrait(tref) ==
    /\ stack = <<>> /\ tref \notin DOMAIN impl_exprs
    /\ Cardinality(DOMAIN impl_exprs) < MaxSolved
    /\ stack' = <<Call("resolve", tref)>>
    /\ extending' = IF predicate_searcher = "none" THEN InitialCandidates(program) ELSE <<>>
    /\ predicate_searcher' = "made"
    /\ UNCHANGED <<program, candidates, impl_exprs>>

\* A reference that was answered is answered from the cache: nothing changes.
SolvedTrait(tref) == /\ stack = <<>> /\ tref \in DOMAIN impl_exprs
                     /\ UNCHANGED vars

Next == \/ \E tref \in Queries : SolveTrait(tref) \/ SolvedTrait(tref)
        \/ Extend \/ Resolve \/ ResolveNext \/ AnswerLocal \/ AnswerSource
        \/ ResolveLocal \/ TraitFound \/ AddBounds \/ LookUpAgain

Spec == Init /\ [][Next]_vars

-----------------------------------------------------------------------------
(* Properties *)

\* The predicate that holds after the first n chunks of a path from a clause.
After(g, clause, path, n) == EraseAndNorm(g, IF n = 0 THEN clause ELSE path[n].predicate)

\* A chunk names a clause that p implies, by its place among the trait clauses of
\* its trait or of one of its associated types; in the second case with an answer
\* for each clause that the type requires, in order.
Follows(g, p, chunk) ==
    LET from == IF chunk.kind = "Parent" THEN p.trait ELSE chunk.item
        implied == TraitClauses(ImpliedPredicates(g, from))
    IN  /\ chunk.index + 1 \in DOMAIN implied
        /\ chunk.predicate = Instantiate(implied[chunk.index + 1], p)
        /\ chunk.kind = "AssocItem" =>
              LET required == InstantiateAll(TraitClauses(RequiredPredicates(g, from)), p)
              IN  /\ Parent[from] = p.trait
                  /\ Len(chunk.impl_exprs) = Len(required)
                  /\ \A i \in DOMAIN required : chunk.impl_exprs[i].trait = required[i]

LeadsTo(g, clause, path, p) ==
    /\ \A n \in DOMAIN path : Follows(g, After(g, clause, path, n - 1), path[n])
    /\ After(g, clause, path, Len(path)) = p

\* The path of a candidate, followed from the clause it starts at, proves the
\* predicate: whatever was resolved before, and through normalisation.
PathsAreProofs ==
    \A p \in DOMAIN candidates :
        LeadsTo(program, candidates[p].origin.clause, candidates[p].path, p)

\* The index of a bound is the place of its clause among the trait clauses that
\* the items in scope require, from the outermost one; the self predicate is that
\* of a trait ("The nth (non-self) predicate found for this item", resolution.rs).
ClausesOf(g) ==
    LET clauses[d \in Items] == (IF Inherits(d) THEN clauses[Parent[d]] ELSE <<>>)
                                \o TraitClauses(RequiredPredicates(g, d))
    IN  clauses
ClausesInScope(g) == ClausesOf(g)[g.owner]
IsNumbered(g, o) ==
    IF o.origin = SelfPred
    THEN Kind[o.clause.trait] = "Trait" /\ o.clause = SelfPredicate(g, o.clause.trait)
    ELSE o.origin + 1 \in DOMAIN ClausesInScope(g) /\ ClausesInScope(g)[o.origin + 1] = o.clause
IndexNamesClause == \A p \in DOMAIN candidates : IsNumbered(program, candidates[p].origin)

\* An answer is about the reference it was asked for; one that names a clause in
\* scope has a path from there to the reference, and one that names an
\* implementation has an answer for each clause that is required, in order.
Proves(g, expr, tref) ==
    /\ expr.trait = tref
    /\ expr.kind \in {"LocalBound", "SelfImpl"} =>
          /\ IsNumbered(g, expr.origin)
          /\ LeadsTo(g, expr.origin.clause, expr.path, EraseAndNorm(g, tref))
    /\ expr.kind \in {"Concrete", "Builtin"} =>
          LET required == Required(g, Source(g, tref), EraseAndNorm(g, tref))
          IN  /\ Len(expr.impl_exprs) = Len(required)
              /\ \A i \in DOMAIN required : expr.impl_exprs[i].trait = required[i]

\* The answers in the cache and those the calls under way have collected.
AnswersProve ==
    /\ \A q \in DOMAIN impl_exprs : Proves(program, impl_exprs[q], q)
    /\ \A n \in DOMAIN stack : \A i \in DOMAIN stack[n].exprs :
          Proves(program, stack[n].exprs[i], stack[n].preds[i])

\* Candidates and answers are proofs: the index names the clause that the path
\* starts at, and the path leads from there to the predicate, although candidates
\* are added between the moment a call looks for one and the moment it looks again,
\* and answers are collected by calls that other calls interrupt.
AnswersAreProofs == PathsAreProofs /\ IndexNamesClause /\ AnswersProve

\* What the predicates of S imply, in as many steps as there are items: the
\* supertraits of a trait do not come back to it.
Implied(g, S) ==
    UNION {LET implied == TraitClauses(ImpliedPredicates(g, q.trait))
           IN  {EraseAndNorm(g, Instantiate(implied[i], q)) : i \in DOMAIN implied} : q \in S}
Elaborated(g, S) ==
    LET elaborated[n \in 0 .. Cardinality(Items)] ==
            IF n = 0 THEN S
            ELSE LET before == elaborated[n - 1] IN before \cup Implied(g, before)
    IN  elaborated[Cardinality(Items)]

Environment(g) ==
    LET initial == InitialSearchPredicates(g)
    IN  {EraseAndNorm(g, initial[i].clause) : i \in DOMAIN initial}
ItemBounds(g, ty) == InstantiateAll(TraitClauses(ImpliedPredicates(g, Last(ty))), AliasArgs(ty))
Bounds(g, ty) == {EraseAndNorm(g, ItemBounds(g, ty)[i]) : i \in DOMAIN ItemBounds(g, ty)}

\* The trait that holds the associated type at the end of the first n + 1 elements
\* of what p is about.
Holder(p, n) == IF n = Len(p.self) THEN p ELSE TraitOf(SubSeq(p.self, 1, n + 1))

\* One of them is implied by the clauses in scope, and each of the next ones by the
\* bounds of the type it is about.
GivenByClauses(g, p) ==
    \E k \in 1 .. Len(p.self) :
        /\ Holder(p, k) \in Elaborated(g, Environment(g))
        /\ \A n \in (k + 1) .. Len(p.self) :
              /\ IsProjection(SubSeq(p.self, 1, n))
              /\ Holder(p, n) \in Elaborated(g, Bounds(g, SubSeq(p.self, 1, n)))

\* What rustc means by a source that is a parameter.
ASSUME ParamAssumption ==
    /\ IsFiniteSet(Items)
    /\ \A g \in Programs : \A tref \in Queries : Source(g, tref).kind = "Param" =>
          LET p == EraseAndNorm(g, tref)
          IN  p.self \in Seq(Range(p.self)) /\ GivenByClauses(g, p)

\* What rustc proves with the clauses in scope is found, in any order of the
\* references: none is answered with an error.
ParamIsFound ==
    stack = <<>> => \A q \in DOMAIN impl_exprs :
        impl_exprs[q].kind \notin {"LocalBound", "SelfImpl"} => Source(program, q).kind # "Param"
=============================================================================
