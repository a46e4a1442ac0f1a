-------------------------- MODULE MCItemSelection --------------------------
(* Small instances of ItemSelection for TLC: five crates of annotated items,  *)
(* with the annotations that matter on each.                                  *)
EXTENDS ItemSelection, TLC

CONSTANTS f, g, h, used,                         \* functions: f calls g, g calls h, h calls used, as formulas do
          m, t, tm, i, im, n, nm, point, x, y \* a module, a trait, implementations, a struct

Phi(says, names, futures) == Expr(says, names, futures, {used})
Code(calls) == Expr("code", {}, {}, calls)
Fn(attrs, inputs, output, calls) == Item("fn", NoItem, attrs, inputs, output, Code(calls))

Pre(v) == <<"requires", Phi("pre", {v}, {})>>
Other == <<"requires", Phi("other", {"b"}, {})>>
Post(v, fs) == <<"ensures", Phi("post", {v}, fs)>>
Quoted(b, pos) == <<"quote", b, pos, Expr("verbatim", {}, {}, {h})>>

\* f calls g, which calls h; formulas refer to used.
Crate(fn, others) == f :> fn @@ g :> Fn(<<>>, <<>>, ValueType, {h}) @@ h :> Fn(<<>>, <<>>, ValueType, {used})
                     @@ used :> Fn(<<>>, <<ByValue("a")>>, ValueType, {}) @@ others

AB == <<ByMut("a"), ByValue("b")>>
Functions ==
    {Crate(Fn(attrs, AB, Unit, {g}), <<>>) : attrs \in
        {<<Pre("b"), Post("a", {"a"})>>, <<Post("a", {"b"})>>, <<Pre("b"), Other>>,
         <<<<"exclude">>, Pre("b"), <<"include">>>>, <<<<"opaque">>, Pre("b")>>,
         <<Quoted("fstar", "After"), Pre("a")>>, <<Pre("a"), Quoted("coq", "Before")>>,
         <<<<"replace", "fstar", Expr("other code", {}, {}, {})>>, Pre("b")>>,
         <<<<"verification_status", "lax">>>>, <<<<"verification_status", "panic_free">>, Pre("a")>>,
         <<<<"verification_status", "none">>>>}}
    \cup {Crate(Fn(<<Post("result", {})>>, <<>>, ValueType, {g}), <<>>),
          Crate(Fn(<<Post("b", {"a"})>>, AB, <<"alias">>, {g}), <<>>)}

Lemmas == {Crate(Fn(<<>>, <<>>, ValueType, {g}),
               n :> Fn(<<<<"lemma">>>> \o attrs, <<ByValue("a")>>, out, {})) :
              attrs \in {<<>>, <<Pre("a")>>},
              out \in {<<"proof", Phi("statement", {"a"}, {})>>, Unit, ValueType}}

\* A trait, an implementation of it and a struct, in a module.
Field(v, attrs) == Item("field", point, attrs, <<>>, ValueType, Expr(v, {}, {}, {}))
Self(a) == <<a, ByValue("b")>>
Modules ==
    {Crate(Fn(<<>>, <<>>, ValueType, {g, i, point}),
         m :> Item("mod", NoItem, mods, <<>>, Unit, Code({}))
         @@ t :> Item("trait", m, <<>>, <<>>, Unit, Code({}))
         @@ tm :> Item("trait_fn", t, tms, Self(ByRef("self")), ValueType, Code({}))
         @@ i :> [Item("impl", m, <<>>, <<>>, Unit, Code({})) EXCEPT !.uses = {t, point}]
         @@ im :> Item("impl_fn", i, ims, Self(recv), ValueType, Code({h}))
         @@ point :> Item("struct", m, <<>>, <<ByValue("x"), ByValue("y")>>, Record, Code({}))
         @@ x :> Field("x", <<>>)
         @@ y :> Field("y", <<<<"refine", Phi("bound", {"x", "y"}, {})>>>>)) :
        mods \in {<<>>, <<<<"attributes">>, <<"include">>>>, <<<<"attributes">>, <<"exclude">>>>,
                  <<Quoted("fstar", "After")>>},
        tms \in {<<Pre("self"), Post("result", {})>>, <<Pre("b"), Other>>},
        <<ims, recv>> \in {<<<<Post("self", {})>>, ByRef("self")>>, <<<<Post("b", {"self"})>>, ByMut("self")>>,
                           <<<<Post("result", {}), Pre("b")>>, ByMut("self")>>}}

\* An inherent implementation, with and without attributes.
Inherent ==
    {Crate(Fn(<<>>, <<>>, ValueType, {g, nm}),
         n :> Item("inherent", NoItem, ns, <<>>, Unit, Code({}))
         @@ nm :> Item("impl_fn", n, nms, Self(ByRef("self")), Unit, Code({h}))) :
        ns \in {<<>>, <<<<"attributes">>>>, <<<<"opaque">>, <<"attributes">>>>, <<Quoted("fstar", "Before")>>},
        nms \in {<<Pre("self")>>, <<Pre("b")>>, <<Quoted("fstar", "Before")>>, <<<<"process_read">>, Pre("b")>>}}

\* A refinement type and structs with a refined field, records and others.
Types ==
    {Crate([Fn(<<>>, <<>>, ValueType, {g}) EXCEPT !.uses = {point}],
         point :> Item("struct", NoItem, ss, fields, shape, Code({}))
         @@ y :> Field("y", ys)) :
        ss \in {<<<<"refinement_type", Phi("bound", {"result"}, {})>>>>,
                <<<<"opaque">>, <<"attributes">>>>, <<<<"attributes">>, <<"transparent">>>>,
                <<<<"verification_status", "panic_free">>>>},
        fields \in {<<ByValue("y")>>, <<ByValue("x"), ByValue("y")>>},
        shape \in {Record, Positional},
        ys \in {<<>>, <<<<"refine", Phi("bound", {"y"}, {})>>>>,
                <<<<"refine", Phi("bound", {"y"}, {})>>, <<"refine", Phi("again", {"y"}, {})>>>>}}

MCPrograms == Functions \cup Lemmas \cup Modules \cup Inherent \cup Types
MCBuilds == {[how |-> "ordinary", backend |-> "none"], [how |-> "dependency", backend |-> "none"],
             [how |-> "translated", backend |-> "fstar"], [how |-> "translated", backend |-> "coq"]}

None == Clause("-", Everything)
MCClauseLists ==
    {<<>>, <<None>>, <<Clause("-", {h})>>, <<Clause("+:", Everything)>>,
     <<Clause("+:", Everything), Clause("+", {f})>>, <<Clause("+", {f}), Clause("+:", {n})>>}
    \cup {<<None, Clause(k, {r})>> : k \in {"+", "+~", "+!", "+:"}, r \in {f, g, i}}
    \cup {<<None, Clause("+", {f}), Clause("-", {g})>>, <<None, Clause("+~", {g}), Clause("+", {f})>>,
          <<None, Clause("+", {g}), Clause("+!", {f})>>}
=============================================================================
