--------------------------- MODULE ItemSelection ---------------------------
(***************************************************************************)
(* What the engine does of annotated items: their import, the inclusion    *)
(* clauses of `-i`, the items they are associated with, their status, the  *)
(* quotes, and the contracts a backend finds when it translates.  The      *)
(* items are those Annotations expands.                                    *)
(***************************************************************************)
EXTENDS Annotations, EngineItems

CONSTANT ClauseLists \* the lists of inclusion clauses a user may give

ASSUME FormulasAssumption ==
    \A p \in Programs : \A d \in DOMAIN p, role \in Roles : WrittenOn(p[d], role) \cap Errors = {}

VARIABLES clauses,   \* the inclusion clauses
          list,      \* the engine's items, by identifier
          translated \* what is translated, and the formulas found on each site

engine == <<clauses, list, translated>>

\* No user knows the names of companions.
ASSUME ClausesAssumption ==
    \A cs \in ClauseLists :
       /\ cs \in Seq(ToSet(cs))
       /\ \A c \in ToSet(cs) :
             /\ c = Clause(c.kind, c.names) /\ c.kind \in {"+", "+~", "+!", "+:", "-"}
             /\ c.names = Everything \/ \A i \in c.names : i \notin Nat \X CompanionKinds

-----------------------------------------------------------------------------
(* import_thir_items: the import *)

Own(d) == items[d].attrs
\* c_item_attrs: an item has the attributes of all that encloses it, except
\* what associates items.
ItemAttrs(d) ==
    LET enclosing == Flat([k \in DOMAIN Enclosing(d) |-> Own(Enclosing(d)[k])])
    IN  Own(d) \o Among(enclosing, {a \in ToSet(enclosing) : a[1] \notin {"Uid", "AssociatedItem"}})

SubKinds == {"field", "trait_fn", "impl_fn"}
Subs(d) == {e \in DOMAIN items : items[e].parent = d /\ items[e].kind \in SubKinds}
TopLevel == {d \in DOMAIN items : items[d].kind \in {"fn", "const", "struct", "trait", "impl", "mod"}}
Methods == {m \in DOMAIN items : /\ items[m].kind = "impl_fn"
                                 /\ items[items[m].parent].kind = "inherent"}

TypeOnly(cs, d) == /\ MostPrecise(cs, d) # <<>> /\ Last(MostPrecise(cs, d)).kind = "+:"
                   /\ ~ Has(ItemAttrs(d), "NeverErased")

\* The parts of an item; the attributes of a field are only its own.
Part(e) == [attrs |-> IF items[e].kind = "field" THEN Own(e) ELSE ItemAttrs(e),
            kind |-> items[e].kind, uses |-> items[e].uses, calls |-> items[e].body.calls]
PartsOf(d) == [e \in Subs(d) |-> Part(e)]

\* c_item_unwrapped. No implementation here has associated types.
ImportItem(cs, d) ==
    LET kind == items[d].kind
        by_hax == TypeOnly(cs, d) /\ kind \in {"fn", "impl"}
        attrs == WithErased(by_hax, ItemAttrs(d))
        erased == Has(attrs, "Erased")
        drop_body == erased /\ ~ Has(attrs, "NeverErased")
    IN  CASE kind \in {"fn", "const"} ->
               EngineItem("fn", attrs, items[d].uses, IF drop_body THEN Dropped ELSE items[d].body, <<>>)
          [] kind = "struct" ->
               EngineItem("struct", attrs, items[d].uses, items[d].output,
                          IF erased THEN <<>> ELSE PartsOf(d))
          [] kind = "trait" -> EngineItem("trait", attrs, items[d].uses, Unit, PartsOf(d))
          [] kind = "impl" ->
               EngineItem("impl", attrs, items[d].uses, Unit, IF erased THEN <<>> ELSE PartsOf(d))
          [] kind = "mod" -> EngineItem("nothing", attrs, {}, Unit, <<>>)

\* A method of an inherent implementation becomes a function; what the clauses
\* and the attributes say of the implementation decides of its body too.
ImportMethod(cs, m) ==
    LET by_hax == TypeOnly(cs, items[m].parent)
        attrs == WithErased(by_hax, ItemAttrs(m))
    IN  EngineItem("fn", attrs, items[m].uses,
                   IF Has(attrs, "Erased") THEN Dropped ELSE items[m].body, <<>>)

Imported(cs) == Joined([i \in TopLevel |-> ImportItem(cs, i)],
                       [i \in Methods |-> ImportMethod(cs, i)])

-----------------------------------------------------------------------------
(* The steps of the engine *)

Start(cs) == /\ stage = "expanded"
             /\ clauses' = cs /\ list' = Imported(cs) /\ stage' = "imported"
             /\ UNCHANGED <<expansion, translated>>

ImportThirItems ==
    /\ stage = "imported"
    /\ LET S == WithAssociated(list, FilterByInclusionClauses(clauses, list))
       IN  list' = Keep(list, {i \in S : Status(list[i].attrs) # "excluded"})
    /\ stage' = "selected" /\ UNCHANGED <<expansion, clauses, translated>>

\* Transform_hax_lib_inline, in F* only: coq has no such phase.
ApplyPhases ==
    /\ stage = "selected"
    /\ list' = IF build.backend # "fstar" THEN list
               ELSE [i \in DOMAIN list |->
                        IF list[i].kind = "fn" /\ QuoteParents(list, i) # {} THEN AsQuote(list, i)
                        ELSE list[i]]
    /\ stage' = "phases" /\ UNCHANGED <<expansion, clauses, translated>>

\* The parts of an item a backend reads the formulas of. Coq reads those of
\* functions only; F* prints the fields of a struct that is not a record without
\* their attributes.
PartsRead(its, i) ==
    IF /\ build.backend = "fstar" /\ its[i].kind \notin {"quote", "nothing"}
       /\ its[i].kind = "struct" => IsRecord(its[i])
    THEN DOMAIN its[i].subs ELSE {}

\* The sites of an item a backend looks at, and what it finds.
Formulas(its, i) ==
    LET newtype == its[i].kind = "struct" /\ Has(its[i].attrs, "NewtypeAsRefinement")
        own == IF its[i].kind = "fn" THEN {"requires", "ensures"}
               ELSE IF newtype /\ build.backend = "fstar" THEN {"ensures"} ELSE {}
    IN  [s \in ({i} \X own) \cup (PartsRead(its, i) \X Roles) |->
            IF s[1] = i THEN AssociatedExpr(its, its[i].attrs, s[2])
            ELSE IF its[i].subs[s[1]].kind = "trait_fn" THEN FirstOf(its, its[i].subs[s[1]].attrs, s[2])
            ELSE AssociatedExpr(its, its[i].subs[s[1]].attrs, s[2])]

\* What is skipped late is not translated, but what is sees it.
Translate ==
    /\ stage = "phases"
    /\ translated' = [i \in {i \in DOMAIN list : ~ IsLateSkip(list[i].attrs)} |-> Formulas(list, i)]
    /\ stage' = "translated" /\ UNCHANGED <<expansion, clauses, list>>

SelectionInit == Init /\ clauses = <<>> /\ list = <<>> /\ translated = <<>>

Expansion == ((\E d \in DOMAIN items : Expand(d)) \/ Resolve) /\ UNCHANGED engine

Next == \/ Expansion
        \/ Translated /\ \E cs \in ClauseLists : Start(cs)
        \/ ImportThirItems \/ ApplyPhases \/ Translate

vars == <<expansion, stage, engine>>
Spec == SelectionInit /\ [][Next]_vars

-----------------------------------------------------------------------------
(* Properties *)

Selected == FilterByInclusionClauses(clauses, list)
Source == Imported(<<>>)
SourceGraph == ItemGraph(Source, Source)
\* The same graph without the bodies of functions.
SignatureGraph == ItemGraph(DropBodies(Source, DOMAIN Source), Source)

\* What the documentation of `-i` says of a clause after others have included S,
\* with the companions of an item among its dependencies.
DocumentedBy(S, c) ==
    LET matched == {d \in DOMAIN list : MatchesNamespace(c, d)}
    IN  CASE c.kind = "+" -> S \cup TransitiveDependencies(SourceGraph, matched)
          [] c.kind = "+~" -> S \cup matched \cup Successors(SourceGraph, matched)
          [] c.kind \in {"+!", "+:"} -> S \cup matched
          [] c.kind = "-" -> S \ matched
Documented ==
    LET included[n \in 0 .. Len(clauses)] ==
            IF n = 0 THEN DOMAIN list ELSE DocumentedBy(included[n - 1], clauses[n])
    IN  included[Len(clauses)]

\* The clauses that take dependencies.
Deps == {k \in DOMAIN clauses : clauses[k].kind \in {"+", "+~"}}
\* Nothing is removed once dependencies are taken, nothing is reduced, and `+~`
\* is the only clause that takes them when there is one.
Independent ==
    \A k \in Deps : /\ clauses[k].kind = "+~" => Deps = {k}
                    /\ \A l \in DOMAIN clauses : /\ clauses[l].kind # "+:"
                                                 /\ l > k => clauses[l].kind # "-"

\* The items the documentation includes are selected by the two passes, for the
\* lists where clauses do not meet. In others the second pass forgets: bodies
\* dropped by one `+~` or `+:` hide the dependencies of what another clause
\* includes, and what is reached only through an excluded item is lost.
NothingMissing == stage = "imported" /\ Independent => Documented \cap DOMAIN list \subseteq Selected

\* Nothing is removed or reduced after a `+~`.
FinalShallow ==
    \A k, l \in DOMAIN clauses :
        clauses[k].kind = "+~" /\ k < l => clauses[l].kind \notin {"-", "+:"}

\* Nothing else is selected, but what is reached from there without going
\* through the body of a function: the signatures, the contracts and the bodies of
\* implementations that the direct dependencies of `+~` bring. An exclusion after a
\* `+~` takes out an item and not what it brought, and a `+:` gives a dependency
\* its body back.
NothingExtra ==
    stage = "imported" /\ FinalShallow =>
        Selected \subseteq TransitiveDependencies(SignatureGraph, Documented)

\* What -i asks for is what is translated, after both passes over the clauses.
SelectionIsExact == NothingMissing /\ NothingExtra

\* In F*, the quotes of an item are translated exactly when the item was kept,
\* whatever clauses and statuses did to either; the quotes of inherent
\* implementations and of parts vanish.
QuotesFollow ==
    stage = "translated" /\ build.backend = "fstar" =>
        \A d \in DOMAIN program : \A u \in {u \in UidsOf(d, "quote") : <<u, "fn">> \in DOMAIN items} :
            IF d \in TopLevel \cup Methods
            THEN <<u, "fn">> \in DOMAIN translated <=> d \in DOMAIN list
            ELSE <<u, "fn">> \notin DOMAIN translated

\* No other companion is ever translated: its own late_skip outweighs the
\* statuses of what encloses it, and it is skipped although it was imported,
\* selected and associated.
CompanionsStayHidden ==
    stage = "translated" =>
        \A c \in DOMAIN translated \ DOMAIN program :
            c[2] = "mod" \/ (list[c].kind = "quote" /\ build.backend = "fstar")

\* Companions are in no build that hax does not make, and in no translation.
CompanionsStayApart == CompanionsStayOut /\ CompanionsStayHidden

\* What no backend looks at: outside of functions Coq reads no formula, and F*
\* none of the fields of a struct that is not a record.
NeverRead(d, e) ==
    \/ build.backend # "fstar" /\ list[d].kind # "fn"
    \/ list[d].kind = "struct" /\ e # d /\ ~ IsRecord(list[d])

\* What is found of the formulas of a role where some are written: all of them,
\* or an error that says they were not. On the method of a trait the first of them
\* stands for all, and `+:` drops the body of a refinement, which is not marked
\* NeverErased.
FoundOf(e, role, found) ==
    \/ found \in {{why} : why \in Errors} \cup {Written(e, role)}
    \/ items[e].kind = "trait_fn" /\ \E phi \in Written(e, role) : found = {phi}
    \/ /\ role = "refine" /\ found = {"dropped"}
       /\ \E k \in DOMAIN clauses : clauses[k] = Clause("+:", Everything)

\* A formula written on an item that is translated, or on a part of it that was
\* imported, is looked up and found, or an error says it was not. It is lost in
\* silence where the backend never reads it (NeverRead), and in the two ways of
\* FoundOf: the further ones on the method of a trait, and the body of a refinement
\* under a `+:` for everything.
NoSilentLoss ==
    stage = "translated" =>
        \A d \in DOMAIN translated \cap DOMAIN program :
            \A e \in {d} \cup DOMAIN list[d].subs, role \in Roles :
                Written(e, role) # {} =>
                    IF <<e, role>> \in DOMAIN translated[d]
                    THEN FoundOf(e, role, translated[d][<<e, role>>])
                    ELSE NeverRead(d, e)

\* An item is not found only where a quote of another backend is associated, or
\* on a part of an item that was included without its dependencies.
ErrorsAreExplained ==
    stage = "translated" =>
        \A d \in DOMAIN translated : \A s \in DOMAIN translated[d] :
            translated[d][s] = {"could not find item"} =>
                \/ \E a \in ToSet(program[s[1]].attrs) :
                      \/ a[1] \in {"quote", "replace"} /\ a[2] # build.backend
                      \/ a[1] \in {"options", "verification_status"} /\ build.backend # "fstar"
                \/ s[1] # d /\ \E k \in DOMAIN clauses :
                      clauses[k].kind \in {"+!", "+:"} /\ MatchesNamespace(clauses[k], d)
=============================================================================
