---------------------------- MODULE Attributes -----------------------------
(***************************************************************************)
(* Items and their attributes, as the macros of hax-lib see them: what is  *)
(* written, the functions that make_fn_decoration writes, and the uids     *)
(* that `_hax::json` payloads name.                                        *)
(***************************************************************************)
EXTENDS RustData, SequencesExt, FiniteSets

-----------------------------------------------------------------------------
(* Items: kind and parent; attributes, macros and payloads alike; the         *)
(* signature; the items it uses; and the body.                                *)

\* A body: what it says, the variables it names, plainly and under `future`,
\* and the items it refers to.
Expr(says, names, futures, calls) ==
    [says |-> says, names |-> names, futures |-> futures, calls |-> calls]

Function(parent, attrs, inputs, output, post, uses, body) ==
    [kind |-> "fn", parent |-> parent, attrs |-> attrs, inputs |-> inputs,
     output |-> output, post |-> post, uses |-> uses, body |-> body]
Item(kind, parent, attrs, inputs, output, body) ==
    [kind |-> kind, parent |-> parent, attrs |-> attrs, inputs |-> inputs,
     output |-> output, post |-> <<>>, uses |-> {}, body |-> body]
WithAttrs(item, attrs) == [item EXCEPT !.attrs = attrs]

ByValue(x) == [name |-> x, by |-> "value"]
ByRef(x) == [name |-> x, by |-> "ref"]
ByMut(x) == [name |-> x, by |-> "mut"]
Unit == <<"unit">>
ValueType == <<"value">>
\* How a struct writes its fields: this is in the place of an output.
Record == <<"record">>
Positional == <<"positional">>

LateSkip == <<"ItemStatus", "late_skip">>

\* The macros that are attributes of their own; `refine` is only seen by `attributes`.
Markers == [include |-> <<"ItemStatus", "included">>, exclude |-> <<"ItemStatus", "excluded">>,
            opaque |-> <<"Erased">>, transparent |-> <<"NeverErased">>,
            process_read |-> <<"ProcessRead">>, pv_handwritten |-> <<"PVHandwritten">>]
DecorationKinds == {"requires", "ensures"}
MacroTags == DOMAIN Markers \cup DecorationKinds
             \cup {"lemma", "attributes", "impl_fn_decoration", "quote", "replace", "options",
                   "verification_status", "refinement_type"}

Has(attrs, tag) == \E k \in DOMAIN attrs : attrs[k][1] = tag

\* The roles of formulas, and what an item of the source is written with:
\* attributes, and for a lemma the proof it returns.
Roles == {"requires", "ensures", "refine"}
WrittenAs(a, role) == a[1] = role \/ (role = "ensures" /\ a[1] = "refinement_type")
IsProof(item) == item.output[1] = "proof" /\ Has(item.attrs, "lemma")

\* A formula stands for the place it is written at: no two of one item and role
\* say the same.
SaysApart(item) ==
    \A role \in Roles, k \in DOMAIN item.attrs : WrittenAs(item.attrs[k], role) =>
        /\ \A l \in DOMAIN item.attrs :
              WrittenAs(item.attrs[l], role) /\ item.attrs[l][2].says = item.attrs[k][2].says => k = l
        /\ role = "ensures" /\ IsProof(item) => item.attrs[k][2].says # item.output[2].says

IsItem(x) == x = [kind |-> x.kind, parent |-> x.parent, attrs |-> x.attrs, inputs |-> x.inputs,
                  output |-> x.output, post |-> x.post, uses |-> x.uses, body |-> x.body]

\* What macros make of an item is named by a uid and by what it is.
CompanionKinds == {"const", "fn", "future", "mod", "Refinement", "Deref", "RefineAs"}

-----------------------------------------------------------------------------
(* make_fn_decoration *)

SelfName(x) == IF x = "self" THEN "self_" ELSE x

\* Faulty variant of RewriteSelf: the formula keeps `self`.
RewriteInputsOnly(fn, phi) ==
    [inputs |-> [k \in DOMAIN fn.inputs |->
                    IF fn.inputs[k].name = "self" THEN ByValue("self_") ELSE fn.inputs[k]],
     phi |-> phi]

\* RewriteSelf: `self` becomes the variable `self_` of type Self, and the
\* receiver, whatever its reference, an input of that type.
RewriteSelf(fn, phi) ==
    [inputs |-> [k \in DOMAIN fn.inputs |->
                    IF fn.inputs[k].name = "self" THEN ByValue("self_") ELSE fn.inputs[k]],
     phi |-> Expr(phi.says, {SelfName(x) : x \in phi.names},
                  {SelfName(x) : x \in phi.futures}, phi.calls)]

MentionsSelf(fn, phi) == \/ "self" \in phi.names \cup phi.futures
                         \/ \E k \in DOMAIN fn.inputs : fn.inputs[k].name = "self"
                         \/ fn.output = <<"Self">>

MutInputs(inputs) == Among(inputs, {x \in ToSet(inputs) : x.by = "mut"})

\* unmut_references_in_inputs
UnmutReferences(inputs) ==
    [k \in DOMAIN inputs |-> IF inputs[k].by = "mut" THEN ByRef(inputs[k].name) ELSE inputs[k]]

\* add_unit_to_sig_if_needed
AddUnitIfNeeded(inputs) == IF inputs = <<>> THEN <<ByValue("_")>> ELSE inputs

\* The tuple an `ensures` takes last: the future of each `&mut` input, and the
\* result unless it is the unit type, written `()`, and there is a future.
LastInput(muts, output) ==
    [k \in DOMAIN muts |-> <<"future", muts[k].name>>]
    \o (IF output # Unit \/ muts = <<>> THEN <<<<"result", "result">>>> ELSE <<>>)

BadFuture(role, rewritten) ==
    role = "ensures"
    /\ ~ (rewritten.phi.futures \subseteq {x.name : x \in ToSet(MutInputs(rewritten.inputs))})

\* Faulty variant of NeverErased: contracts are dropped like other bodies.
MayBeErased == <<>>
NeverErased == <<<<"NeverErased">>>>

\* The function a decoration becomes.
DecorationFn(u, role, fn, rewritten) ==
    LET inputs == UnmutReferences(rewritten.inputs)
        muts == MutInputs(rewritten.inputs)
    IN  Function(<<u, "const">>, <<<<"Uid", u>>, LateSkip>> \o NeverErased,
                 IF role = "ensures" THEN AddUnitIfNeeded(inputs) ELSE inputs, ValueType,
                 IF role = "ensures" THEN LastInput(muts, fn.output) ELSE <<>>,
                 fn.uses, rewritten.phi)

NoCode == Expr("code", {}, {}, {})
Wrapper(parent) == Item("const", parent, <<LateSkip>>, <<>>, Unit, NoCode)
FutureHelper(u) == Item("fn", <<u, "const">>, <<LateSkip, <<"Language">>>>, <<ByMut("x")>>,
                        ValueType, NoCode)
\* A function in a constant without a name.
Wrapped(u, parent, fn) == [c \in {<<u, "const">>, <<u, "fn">>} |->
                              IF c = <<u, "fn">> THEN fn ELSE Wrapper(parent)]

-----------------------------------------------------------------------------
(* Formulas and uids *)

InputNames(inputs) == {x.name : x \in ToSet(inputs)}
\* A postcondition names the result when there is one beside the futures.
ResultNames(item) ==
    {x \in {"result"} : (item.output # Unit /\ ~ IsProof(item)) \/ MutInputs(item.inputs) = <<>>}

\* The formulas written on an item of the source.
WrittenOn(item, role) ==
    {item.attrs[k][2].says : k \in {k \in DOMAIN item.attrs : WrittenAs(item.attrs[k], role)}}
    \cup IF role = "ensures" /\ IsProof(item) THEN {item.output[2].says} ELSE {}

\* The items that attributes associate, by role and uid.
AssociatedUids(attrs) == {<<attrs[k][2], attrs[k][3]>> :
                            k \in {k \in DOMAIN attrs : attrs[k][1] = "AssociatedItem"}}

\* Numbers for the places that draw a uid.
Order(S) == CHOOSE n \in [S -> 1..Cardinality(S)] : \A s, r \in S : n[s] = n[r] => s = r
=============================================================================
