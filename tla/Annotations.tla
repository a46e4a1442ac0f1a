---------------------------- MODULE Annotations ----------------------------
(***************************************************************************)
(* The annotations of hax-lib (hax-lib/macros): how the attribute macros   *)
(* turn `requires`, `ensures`, `refine`, quotes and markers into           *)
(* companion items and `_hax::json` payloads that refer to them by uid.    *)
(*                                                                         *)
(* A macro is expanded once the macros of what encloses its item are, in   *)
(* any order of the items.  The same program is compiled three ways: by    *)
(* cargo alone (the macros of dummy.rs), as a dependency under cargo hax   *)
(* (implementation.rs without `hax_compilation`) and as a package that is  *)
(* translated for a backend.                                               *)
(***************************************************************************)
EXTENDS Attributes

CONSTANTS Programs, \* the programs: functions from items to what is written
          Builds,   \* the ways to compile them
          NoItem    \* no enclosing item

VARIABLES program, \* what is written
          build,   \* how it is compiled
          items,   \* the items so far
          uids,    \* the number of uids drawn (ItemUid::fresh: never one twice)
          failure, \* why the compilation fails, or ""
          stage    \* how far the item list has come

expansion == <<program, build, items, uids, failure>>

Translated == build.how = "translated"

\* Payloads are `#[cfg_attr(hax_compilation, _hax::json(..))]`.
Payload(p) == IF Translated THEN <<p>> ELSE <<>>

\* Programs have finitely many items, which are not named like companions, fields
\* are those of structs, and the attributes are those the user writes
\* (impl_fn_decoration is internal), on items their macros parse.
ASSUME ProgramsAssumption ==
    /\ NoItem \notin Nat \X CompanionKinds
    /\ \A p \in Programs :
          /\ p = [d \in DOMAIN p |-> p[d]] /\ IsFiniteSet(DOMAIN p)
          /\ \A d \in DOMAIN p :
                /\ d \notin Nat \X CompanionKinds /\ IsItem(p[d]) /\ SaysApart(p[d])
                /\ p[d].parent \in DOMAIN p \cup {NoItem}
                /\ p[d].kind = "field" => p[d].parent \in DOMAIN p /\ p[p[d].parent].kind = "struct"
                /\ p[d].attrs \in Seq(ToSet(p[d].attrs))
                /\ \A a \in ToSet(p[d].attrs) :
                      /\ a[1] \in (MacroTags \ {"impl_fn_decoration"}) \cup {"refine", "doc"}
                      /\ a[1] \in DecorationKinds \cup {"lemma"} =>
                            p[d].kind \in {"fn", "trait_fn", "impl_fn"}
                      /\ a[1] = "refinement_type" => p[d].kind = "struct"

\* What encloses an item, the nearest first.
Enclosing(d) ==
    LET up[n \in 0..Cardinality(DOMAIN items)] ==
            [e \in DOMAIN items |->
                IF n = 0 \/ items[e].parent = NoItem THEN <<>>
                ELSE <<items[e].parent>> \o up[n - 1][items[e].parent]]
    IN  up[Cardinality(DOMAIN items)][d]
Ancestors(d) == ToSet(Enclosing(d))
Within(d) == {d} \cup {e \in DOMAIN items : d \in Ancestors(e)}

MacrosOf(d) == {k \in DOMAIN items[d].attrs : items[d].attrs[k][1] \in MacroTags}
\* The next macro of an item is the first; those of what encloses it come before.
NextMacro(d) == CHOOSE k \in MacrosOf(d) : \A l \in MacrosOf(d) : k <= l
Ready(d) == MacrosOf(d) # {} /\ \A e \in Ancestors(d) : MacrosOf(e) = {}
Macro(d) == items[d].attrs[NextMacro(d)]
\* What a macro is given besides its own attribute.
Rest(d) == RemoveAt(items[d].attrs, NextMacro(d))

Changed(d, item) == [items EXCEPT ![d] = item]
NoItems == [c \in {} |-> NoItem]
\* Expanding a macro of d: its new attributes, and the items made of it.
Expands(d, attrs, made) ==
    /\ items' = Joined(Changed(d, WithAttrs(items[d], attrs)), made)
    /\ UNCHANGED <<program, build, failure, stage>>
Fails(why) == failure' = why /\ UNCHANGED <<program, build, items, uids, stage>>
Expanding(d, tags) == /\ stage = "expand" /\ failure = "" /\ build.how # "ordinary"
                      /\ Ready(d) /\ Macro(d)[1] \in tags

-----------------------------------------------------------------------------
(* make_fn_decoration *)

\* Faulty variant of DecorationBuilt: `debug_assertions` instead of the
\* `debug_assertion` that nothing sets.
BuiltForDebug == TRUE

\* `#[cfg(any(hax_compilation, debug_assertion))]`
DecorationBuilt == Translated

\* What a decoration of fn adds under parent.
Decoration(u, parent, role, fn, phi) ==
    IF ~ DecorationBuilt THEN NoItems
    ELSE Joined(Wrapped(u, parent, DecorationFn(u, role, fn, RewriteSelf(fn, phi))),
                [c \in IF role = "ensures" THEN {<<u, "future">>} ELSE {} |-> FutureHelper(u)])

\* An AttrPayload::AssociatedItem.
AssocAttr(role, u) == Payload(<<"AssociatedItem", role, u>>)

\* Why it fails: `Self` without a type for it, a `future` that is compiled,
\* or `const _` among the items of an impl or a trait.
WhyNot(parent, role, fn, phi, self_type) ==
    IF MentionsSelf(fn, phi) /\ ~ self_type THEN "needs attributes"
    ELSE IF ~ DecorationBuilt THEN ""
    ELSE IF BadFuture(role, RewriteSelf(fn, phi)) THEN "no such future"
    ELSE IF parent # NoItem /\ items[parent].kind \in {"impl", "inherent", "trait"}
    THEN "unnamed const"
    ELSE ""

-----------------------------------------------------------------------------
(* The macros, one action each *)

\* include, exclude, opaque, transparent and the markers of ProVerif.
Mark(d) == /\ Expanding(d, DOMAIN Markers)
           /\ Expands(d, Payload(Markers[Macro(d)[1]]) \o Rest(d), NoItems)
           /\ UNCHANGED uids

\* A decoration with its formula, on a function: companion, payload and item.
DecorateWith(d, parent, role, phi, attrs, fn, self_type) ==
    IF WhyNot(parent, role, fn, phi, self_type) # ""
    THEN Fails(WhyNot(parent, role, fn, phi, self_type))
    ELSE /\ uids' = uids + 1
         /\ Expands(d, AssocAttr(role, uids + 1) \o attrs,
                    Decoration(uids + 1, parent, role, fn, phi))

\* requires, ensures: the item has a body, or it does not parse.
Decorate(d) ==
    /\ Expanding(d, DecorationKinds)
    /\ IF items[d].kind = "trait_fn" THEN Fails("expected a body")
       ELSE DecorateWith(d, items[d].parent, Macro(d)[1], Macro(d)[2], Rest(d), items[d], FALSE)

\* impl_fn_decoration, made by `attributes`: the companion goes in the body.
ImplFnDecoration(d) ==
    /\ Expanding(d, {"impl_fn_decoration"})
    /\ DecorateWith(d, d, Macro(d)[2], Macro(d)[3], Rest(d), items[d], TRUE)

\* lemma: `Proof<{phi}>` is a postcondition and no output.
ProofLemma(d, fn, phi, parent) ==
    IF WhyNot(parent, "ensures", fn, phi, FALSE) # ""
    THEN Fails(WhyNot(parent, "ensures", fn, phi, FALSE))
    ELSE /\ uids' = uids + 1
         /\ items' = Joined(
                Changed(d, WithAttrs(fn, AssocAttr("ensures", uids + 1) \o Payload(<<"Lemma">>) \o Rest(d))),
                Decoration(uids + 1, parent, "ensures", fn, phi))
         /\ UNCHANGED <<program, build, failure, stage>>

Lemma(d) ==
    /\ Expanding(d, {"lemma"})
    /\ CASE items[d].output[1] = "proof" ->
              ProofLemma(d, [items[d] EXCEPT !.output = Unit], items[d].output[2], items[d].parent)
         [] items[d].output = Unit ->
              /\ Expands(d, Payload(<<"Lemma">>) \o Payload(<<"NeverErased">>) \o Rest(d), NoItems)
              /\ UNCHANGED uids
         [] OTHER -> Fails("expected a proof")

\* quote::item: the item first, then the quote in a const of its own, compiled
\* for its backend only.
QuoteBuilt(backend) == Translated /\ build.backend = backend
QuoteItem(u, parent, backend, position, contents) ==
    IF ~ QuoteBuilt(backend) THEN NoItems
    ELSE Wrapped(u, parent, Item("fn", <<u, "const">>,
                  <<<<"NeverErased">>, <<"Uid", u>>, <<"ItemQuote", position>>>>, <<>>, Unit, contents))

QuoteWith(d, q, attrs) ==
    IF QuoteBuilt(q[2]) /\ items[d].kind \in {"impl_fn", "trait_fn"}
    THEN Fails("unnamed const")
    ELSE /\ uids' = uids + 1
         /\ Expands(d, AssocAttr("quote", uids + 1) \o attrs,
                    QuoteItem(uids + 1, items[d].parent, q[2], q[3], q[4]))

\* fstar_before, fstar_after, coq_before..
Quote(d) == Expanding(d, {"quote"}) /\ QuoteWith(d, Macro(d), Rest(d))

\* fstar_replace..: the item is skipped late, the quote comes before.
Replace(d) == /\ Expanding(d, {"replace"})
              /\ QuoteWith(d, <<"quote", Macro(d)[2], "Before", Macro(d)[3]>>,
                           Payload(LateSkip) \o Rest(d))

Push == Expr("#push-options", {}, {}, {})
Pop == Expr("#pop-options", {}, {}, {})

\* fstar_options
Options(d) == /\ Expanding(d, {"options"})
              /\ Expands(d, <<<<"quote", "fstar", "Before", Push>>,
                              <<"quote", "fstar", "After", Pop>>>> \o Rest(d), NoItems)
              /\ UNCHANGED uids

Admitted(item) == [item EXCEPT !.body = [@ EXCEPT !.says = "admitted"]]

\* fstar_verification_status
VerificationStatus(d) ==
    /\ Expanding(d, {"verification_status"})
    /\ CASE Macro(d)[2] = "lax" -> Expands(d, <<<<"options">>>> \o Rest(d), NoItems) /\ UNCHANGED uids
         [] Macro(d)[2] = "panic_free" /\ items[d].kind \notin {"fn", "impl_fn"} ->
              Fails("expected a body")
         [] Macro(d)[2] = "panic_free" /\ items[d].kind \in {"fn", "impl_fn"} ->
              /\ items' = Changed(d, Admitted(WithAttrs(items[d], Rest(d))))
              /\ UNCHANGED <<program, build, failure, stage, uids>>
         [] OTHER -> Fails("expected a status")

-----------------------------------------------------------------------------
(* attributes *)

Sites(d) == UNION {{<<m, k>> : k \in DOMAIN items[m].attrs} : m \in Within(d)}
\* The decorations of the methods of traits.
TraitSpecs(d) == {s \in Sites(d) : /\ items[s[1]].kind = "trait_fn"
                                   /\ items[s[1]].attrs[s[2]][1] \in DecorationKinds}
\* The first refinement of each field of the structs.
Refinements(d) == {s \in Sites(d) :
    /\ items[s[1]].kind = "field" /\ items[s[1]].parent \in Within(d)
    /\ items[s[1]].attrs[s[2]][1] = "refine"
    /\ \A l \in 1 .. s[2] - 1 : items[s[1]].attrs[l][1] # "refine"}

\* The places that draw a uid: one for each, in some order.
Drawn(d) == TraitSpecs(d) \cup Refinements(d)
\* Faulty variant of UidAt: one uid for all.
OneUid(d, s) == uids + 1
UidAt(d, s) == uids + Order(Drawn(d))[s]

\* The fields of the struct up to this one: what its refinement may name.
FieldsIn(its, f) == LET fields == its[its[f].parent].inputs
                    IN  SubSeq(fields, 1, CHOOSE k \in DOMAIN fields : fields[k].name = its[f].body.says)
FieldsUpTo(f) == FieldsIn(items, f)

\* A refinement is compiled under hax only, and may be erased.
Refinement(u, f, phi) ==
    IF ~ Translated THEN NoItems
    ELSE Wrapped(u, items[items[f].parent].parent,
                 Item("fn", <<u, "const">>, <<<<"Uid", u>>, LateSkip>>, FieldsUpTo(f), ValueType, phi))

\* The companions of methods of traits follow the whole item; those of fields
\* are next to their struct.
MadeAt(d, s) ==
    LET a == items[s[1]].attrs[s[2]]
    IN  IF a[1] = "refine" THEN Refinement(UidAt(d, s), s[1], a[2])
        ELSE Decoration(UidAt(d, s), items[d].parent, a[1], items[s[1]], a[2])

\* What an attribute of a descendant becomes, in its place.
VisitedAttr(d, e, k) ==
    LET a == items[e].attrs[k]
    IN  CASE <<e, k>> \in TraitSpecs(d) -> AssocAttr(a[1], UidAt(d, <<e, k>>))
          [] <<e, k>> \in Refinements(d) -> AssocAttr("refine", UidAt(d, <<e, k>>))
          [] items[e].kind = "impl_fn" /\ a[1] \in DecorationKinds ->
               <<<<"impl_fn_decoration", a[1], a[2]>>>>
          [] OTHER -> <<a>>
VisitedAttrs(d, e) ==
    Flat([k \in DOMAIN items[e].attrs |->
             IF e = d /\ k = NextMacro(d) THEN <<>> ELSE VisitedAttr(d, e, k)])

Visited(d) == [e \in DOMAIN items |-> IF e \in Within(d)
                  THEN WithAttrs(items[e], VisitedAttrs(d, e)) ELSE items[e]]
MadeBy(d) == [c \in UNION {DOMAIN MadeAt(d, s) : s \in Drawn(d)} |->
                 MadeAt(d, CHOOSE s \in Drawn(d) : c \in DOMAIN MadeAt(d, s))[c]]

WhyNotAt(d, s) == LET a == items[s[1]].attrs[s[2]]
                  IN  IF a[1] = "refine" THEN ""
                      ELSE WhyNot(items[d].parent, a[1], items[s[1]], a[2], TRUE)

Attributes(d) ==
    /\ Expanding(d, {"attributes"})
    /\ IF \E s \in TraitSpecs(d) : WhyNotAt(d, s) # ""
       THEN Fails("no such future")
       ELSE /\ items' = Joined(Visited(d), MadeBy(d))
            /\ uids' = uids + Cardinality(Drawn(d))
            /\ UNCHANGED <<program, build, failure, stage>>

-----------------------------------------------------------------------------
(* refinement_type: the newtype goes to a module of its own, with the formula *)
(* as its postcondition and three implementations that are not translated.    *)

ExcludedImpl(u, d) == Item("impl", <<u, "mod">>, <<<<"exclude">>>>, <<>>, Unit,
                           Expr("code", {}, {}, {d}))

RefinementItems(u, d) ==
    [c \in {u} \X {"mod", "Refinement", "Deref", "RefineAs"} |->
        IF c[2] = "mod" THEN Item("mod", items[d].parent, <<>>, <<>>, Unit, NoCode)
        ELSE ExcludedImpl(u, d)]

RefinementType(d) ==
    /\ Expanding(d, {"refinement_type"})
    /\ LET u == uids + 1
           moved == [items[d] EXCEPT !.parent = <<u, "mod">>]
           sig == [[items[d] EXCEPT !.inputs = <<>>] EXCEPT !.output = ValueType]
       IN  IF items[d].output # Positional \/ Len(items[d].inputs) # 1
           THEN Fails("expected a newtype")
           ELSE /\ uids' = u
                /\ items' = Joined(
                      Changed(d, WithAttrs(moved, Payload(<<"NewtypeAsRefinement">>)
                                                  \o AssocAttr("ensures", u) \o Rest(d))),
                      Joined(RefinementItems(u, d),
                             Decoration(u, <<u, "mod">>, "ensures", sig, Macro(d)[2])))
                /\ UNCHANGED <<program, build, failure, stage>>

-----------------------------------------------------------------------------
(* dummy.rs *)

\* attributes: decorations of methods and refinements are removed.
Stripped(d, e) ==
    Among(items[e].attrs, {a \in ToSet(items[e].attrs) :
        ~ \/ items[e].kind \in {"trait_fn", "impl_fn"} /\ a[1] \in DecorationKinds
          \/ items[e].kind = "field" /\ a[1] = "refine"})

\* Every other macro is the identity, and a lemma is no item at all.
Dummy(d) ==
    /\ stage = "expand" /\ failure = "" /\ build.how = "ordinary" /\ Ready(d)
    /\ items' = CASE Macro(d)[1] = "lemma" -> [e \in DOMAIN items \ Within(d) |-> items[e]]
                  [] Macro(d)[1] = "attributes" ->
                       [e \in DOMAIN items |->
                          IF e = d THEN WithAttrs(items[e], Rest(d))
                          ELSE IF e \in Within(d) THEN WithAttrs(items[e], Stripped(d, e))
                          ELSE items[e]]
                  [] OTHER -> Changed(d, WithAttrs(items[d], Rest(d)))
    /\ UNCHANGED <<program, build, uids, failure, stage>>

-----------------------------------------------------------------------------
(* An expansion *)

\* The programs compile: a formula names what is in scope where it is written,
\* and `future` is known in postconditions only. That it is applied to `&mut`
\* inputs is for the macros to check.
ASSUME NamesAssumption ==
    \A p \in Programs : \A d \in DOMAIN p :
        /\ p[d].inputs \in Seq(ToSet(p[d].inputs))
        /\ \A x \in ToSet(p[d].inputs) : x = [name |-> x.name, by |-> x.by]
        /\ \A a \in ToSet(p[d].attrs) :
              /\ a[1] = "requires" => a[2].names \subseteq InputNames(p[d].inputs) /\ a[2].futures = {}
              /\ a[1] = "ensures" => a[2].names \subseteq InputNames(p[d].inputs) \cup ResultNames(p[d])
              /\ a[1] = "refinement_type" => a[2].names \subseteq {"result"} /\ a[2].futures = {}
              /\ a[1] = "refine" /\ p[d].kind = "field" =>
                    a[2].names \subseteq InputNames(FieldsIn(p, d)) /\ a[2].futures = {}
        /\ IsProof(p[d]) => p[d].output[2].names \subseteq InputNames(p[d].inputs) \cup ResultNames(p[d])

Init == /\ program \in Programs /\ build \in Builds
        /\ items = program
        /\ uids = 0 /\ failure = "" /\ stage = "expand"

Expand(d) == \/ Mark(d) \/ Decorate(d) \/ ImplFnDecoration(d) \/ Lemma(d) \/ Quote(d)
             \/ Replace(d) \/ Options(d) \/ VerificationStatus(d) \/ Attributes(d)
             \/ RefinementType(d) \/ Dummy(d)

\* rustc, when no macro is left: an attribute nobody took is unknown.
Resolve ==
    /\ stage = "expand" /\ failure = "" /\ \A d \in DOMAIN items : MacrosOf(d) = {}
    /\ IF \E d \in DOMAIN items : \E k \in DOMAIN items[d].attrs : items[d].attrs[k][1] = "refine"
       THEN Fails("unknown attribute")
       ELSE stage' = "expanded" /\ UNCHANGED expansion

-----------------------------------------------------------------------------
(* Properties *)

Expanded == stage # "expand"

Written(d, role) == WrittenOn(program[d], role)

UidsOf(d, role) == {a[2] : a \in {a \in AssociatedUids(items[d].attrs) : a[1] = role}}

\* Each formula written on an item of the source, on a method or on a field is
\* that of exactly one companion, which the item is associated with in the role
\* it was written for, and no companion is shared: the macros run one by one and
\* know each other only by the uids they draw and the attributes they leave.
ContractsAttached ==
    Expanded /\ Translated =>
        \A d \in DOMAIN program, role \in Roles :
            /\ {items[<<u, "fn">>].body.says : u \in UidsOf(d, role)} = Written(d, role)
            /\ Cardinality(UidsOf(d, role)) = Cardinality(Written(d, role))
            /\ \A e \in DOMAIN program, other \in Roles :
                  UidsOf(d, role) \cap UidsOf(e, other) # {} => d = e /\ role = other

IsFormula(c) == c \in DOMAIN items \ DOMAIN program /\ c[2] = "fn" /\ ~ Has(items[c].attrs, "ItemQuote")

\* The formula of a companion names its own inputs, the result and the futures
\* of its last input, and nothing of the item it was written on: the rewriting of
\* self, the fields in front of a refinement and the futures agree with the inputs.
FormulaIsClosed ==
    \A c \in DOMAIN items : IsFormula(c) =>
        LET last(tag) == {p[2] : p \in {p \in ToSet(items[c].post) : p[1] = tag}}
        IN  /\ items[c].body.names \subseteq {x.name : x \in ToSet(items[c].inputs)} \cup last("result")
            /\ items[c].body.futures \subseteq last("future")

\* The output the engine gives a function: its `&mut` inputs, and its result
\* unless that is the unit type.
EngineOutput(d) ==
    LET futures == [k \in DOMAIN MutInputs(items[d].inputs) |->
                       <<"future", MutInputs(items[d].inputs)[k].name>>]
    IN  IF items[d].output = Unit /\ futures # <<>> THEN futures
        ELSE Append(futures, <<"result", "result">>)

\* The last input of a postcondition is what the engine makes the function
\* return (`&mut` inputs are given back): the macro decides by the syntax, the
\* engine by the types. They differ on `&mut self`, on aliases of `()`, and where
\* a postcondition is read before `lemma` takes the type of its function away.
PostconditionFits ==
    Expanded /\ Translated => \A d \in DOMAIN program : \A u \in UidsOf(d, "ensures") :
        \/ items[d].kind = "struct" \/ items[d].output = <<"alias">>
        \/ IsProof(program[d]) /\ Has(program[d].attrs, "ensures")
        \/ \E k \in DOMAIN items[d].inputs : items[d].inputs[k] = ByMut("self")
        \/ items[<<u, "fn">>].post = EngineOutput(d)

\* A formula stands where the macro put it: it is closed, and a postcondition
\* is applied to what the engine applies it to.
FormulaFits == FormulaIsClosed /\ PostconditionFits

\* Without hax, and in a dependency under hax, annotations leave no trace: no
\* companion but the implementations of a refinement type, no payload, and the
\* items as they were written.
CompanionsStayOut ==
    Expanded /\ ~ Translated =>
        /\ \A c \in DOMAIN items \ DOMAIN program : c[2] \in {"mod", "Refinement", "Deref", "RefineAs"}
        /\ \A c \in DOMAIN items : \A k \in DOMAIN items[c].attrs : items[c].attrs[k][1] = "doc"
        /\ \A d \in DOMAIN program \cap DOMAIN items :
              \/ items[d].body = program[d].body /\ items[d].inputs = program[d].inputs
              \/ \E a \in ToSet(program[d].attrs) : a[1] = "verification_status" /\ a[2] = "panic_free"
=============================================================================
