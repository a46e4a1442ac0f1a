-------------------------------- MODULE Thir --------------------------------
(***************************************************************************)
(* The body of a function on its way from rustc's THIR to the expressions  *)
(* the phases of FStarPhases start from: the exporter copies THIR          *)
(* (exporter/src/types/thir.rs), the engine imports the copy               *)
(* (engine/lib/import_thir.ml), and three phases of the F* backend make    *)
(* while loops, and drop blocks and match guards.                          *)
(*                                                                         *)
(* A node is a record: its kind `k', the id `hir' that is exported with    *)
(* it, its children under the names of the fields of the Rust types, and   *)
(* what else the node carries.  The children under a name are a sequence,  *)
(* of at most one for an Option.  Variables are rustc's ids, of which no   *)
(* two are the same.  Types are left out, but for the block of type `!',   *)
(* the enum that is cast and what a pattern without a variant is of;       *)
(* attributes, spans, generics and the safety of blocks are left out, and  *)
(* so are places other than variables.                                     *)
(*                                                                         *)
(* One evaluator gives a meaning to the nodes of all stages.               *)
(***************************************************************************)
EXTENDS Integers, SequencesExt

CONSTANTS Bodies,   \* the bodies, as rustc has them
          Vars,     \* the parameters of the function, by their ids
          Inputs,   \* the arguments it is called with: functions on Vars
          NoId,     \* for what has no id, and for the innermost loop
          Fuel      \* a loop that runs longer is taken to diverge

VARIABLES body,     \* the body, as rustc has it
          current,  \* the body as the last stage left it
          stage

vars == <<body, current, stage>>

-----------------------------------------------------------------------------
(* Nodes *)

Node(k) == [k |-> k, hir |-> NoId]
Node1(k, source) == Node(k) @@ [source |-> <<source>>]
Node2(k, lhs, rhs) == Node(k) @@ [lhs |-> <<lhs>>, rhs |-> <<rhs>>]
Failure == Node("Failure")
Fatal == Node("Fatal")

Scope(id, value) == Node("Scope") @@ [id |-> id, value |-> <<value>>]
If(c, t, e) == Node("If") @@ [cond |-> <<c>>, then |-> <<t>>, else_opt |-> e]
Call(f, args) == Node("Call") @@ [fun |-> <<f>>, args |-> args]
Binary(op, l, r) == Node2("Binary", l, r) @@ [op |-> op]
LogicalOp(op, l, r) == Node2("LogicalOp", l, r) @@ [op |-> op]
\* `enum' says whether the source is an enum, and has the type of the cast as repr.
Cast(e, enum) == Node1("Cast", e) @@ [enum |-> enum]
Use(e) == Node1("Use", e)
Unary(op, e) == Node1("Unary", e) @@ [op |-> op]
Box(e) == Node1("Box", e)
PointerCoercion(cast, e) == Node1("PointerCoercion", e) @@ [cast |-> cast]
PlaceTypeAscription(e) == Node1("PlaceTypeAscription", e)
RawBorrow(e) == Node1("RawBorrow", e)
NeverToAny(e) == Node1("NeverToAny", e)
ValueTypeAscription(e) == Node1("ValueTypeAscription", e)
Borrow(e) == Node1("Borrow", e)
Deref(e) == Node1("Deref", e)
Loop(b) == Node("Loop") @@ [body |-> <<b>>]
Match(e, arms) == Node("Match") @@ [scrutinee |-> <<e>>, arms |-> arms]
Arm(p, g, b) == Node("Arm") @@ [pattern |-> <<p>>, guard |-> g, body |-> <<b>>]
LetCond(e, p) == Node("Let") @@ [expr |-> <<e>>, pat |-> <<p>>]
Block(id, never, stmts, e) ==
    Node("Block") @@ [region |-> id, never |-> never, stmts |-> stmts, expr |-> e]
ExprStmt(e) == Node("Expr") @@ [expr |-> <<e>>]
LetStmt(p, init, else) ==
    Node("LetStmt") @@ [pattern |-> <<p>>, initializer |-> init, else_block |-> else]
Assign(l, r) == Node2("Assign", l, r)
AssignOp(op, l, r) == Node2("AssignOp", l, r) @@ [op |-> op]
Field(e, of, field) == Node1("Field", e) @@ [of |-> of, field |-> field]
VarRef(x) == Node("VarRef") @@ [var |-> x]
UpvarRef(x) == Node("UpvarRef") @@ [var |-> x]
Break(label, value) == Node("Break") @@ [label |-> label, value |-> value]
Continue(label) == Node("Continue") @@ [label |-> label]
Return(value) == Node("Return") @@ [value |-> value]
Array(es) == Node("Array") @@ [fields |-> es]
Repeat(e, count) == Node("Repeat") @@ [value |-> <<e>>, count |-> <<count>>]
Index(e, i) == Node("Index") @@ [lhs |-> <<e>>, index |-> <<i>>]
Tuple(es) == Node("Tuple") @@ [fields |-> es]
Adt(c, es) == Node("Adt") @@ [ctor |-> c, fields |-> es]
Param(p) == Node("Param") @@ [pat |-> p]
Closure(params, b, upvars) ==
    Node("Closure") @@ [params |-> params, body |-> <<b>>, upvars |-> upvars]
Literal(n) == Node("Literal") @@ [n |-> n]
NonHirLiteral(n) == Node("NonHirLiteral") @@ [n |-> n]
\* A value without size: a function, a struct without fields, or PhantomData.
ZstLiteral(of, name) == Node("ZstLiteral") @@ [of |-> of, name |-> name]
GlobalName(name) == Node("GlobalName") @@ [name |-> name]
NamedConst(name) == Node("NamedConst") @@ [name |-> name]
StaticRef(name) == Node("StaticRef") @@ [name |-> name]

PWild == Node("Wild")
PBinding(x, sub) == Node("Binding") @@ [var |-> x, subpattern |-> sub]
\* A pattern of a struct or a tuple, as rustc has it.
PLeaf(of, c, ps) == Node("Leaf") @@ [of |-> of, ctor |-> c, subpatterns |-> ps]
PVariant(c, ps) == Node("Variant") @@ [ctor |-> c, subpatterns |-> ps]
PTuple(ps) == Node("PTuple") @@ [subpatterns |-> ps]
PDeref(p) == Node("PDeref") @@ [subpattern |-> <<p>>]
PAscribeUserType(p) == Node("AscribeUserType") @@ [subpattern |-> <<p>>]
PInlineConstant(p) == Node("InlineConstant") @@ [subpattern |-> <<p>>]
PDerefPattern(p) == Node("DerefPattern") @@ [subpattern |-> <<p>>]
PConstant(n) == Node("Constant") @@ [n |-> n]
POr(ps) == Node("Or") @@ [pats |-> ps]
\* `kind' is Slice or PArray.
PSlice(kind, ps) == Node(kind) @@ [prefix |-> ps]

ChildNames == {"value", "cond", "then", "else_opt", "fun", "args", "lhs", "rhs", "source", "body",
               "scrutinee", "arms", "pattern", "guard", "expr", "pat", "stmts", "initializer",
               "else_block", "fields", "params", "upvars", "subpattern", "subpatterns", "pats",
               "prefix", "condition", "index", "count"}
Children(n) == UNION {ToSet(n[f]) : f \in DOMAIN n \cap ChildNames}
MapChildren(F(_), n) ==
    [f \in DOMAIN n |-> IF f \in ChildNames THEN [i \in DOMAIN n[f] |-> F(n[f][i])] ELSE n[f]]

RECURSIVE Nodes(_)
Nodes(n) == {n} \cup UNION {Nodes(c) : c \in Children(n)}
Has(n, kinds) == \E m \in Nodes(n) : m.k \in kinds

-----------------------------------------------------------------------------
(* The exporter *)

RECURSIVE UnrollScope(_)
UnrollScope(n) == IF n.k = "Scope" THEN UnrollScope(n.value[1]) ELSE n
\* The scope an expression is wrapped in has the id of the expression.
HirId(n) == IF n.k = "Scope" THEN n.id ELSE NoId

\* Children are exported in the order in which the Rust types declare them.
FieldOrder ==
    [If |-> <<"cond", "then", "else_opt">>, Call |-> <<"fun", "args">>,
     Match |-> <<"scrutinee", "arms">>, Arm |-> <<"pattern", "guard", "body">>,
     Let |-> <<"expr", "pat">>, Block |-> <<"stmts", "expr">>, Expr |-> <<"expr">>,
     LetStmt |-> <<"pattern", "initializer", "else_block">>, Loop |-> <<"body">>,
     Closure |-> <<"params", "body", "upvars">>, Param |-> <<"pat">>,
     Break |-> <<"value">>, Return |-> <<"value">>,
     Tuple |-> <<"fields">>, Adt |-> <<"fields">>, Array |-> <<"fields">>,
     Repeat |-> <<"value", "count">>, Index |-> <<"lhs", "index">>,
     Binding |-> <<"subpattern">>, Leaf |-> <<"subpatterns">>, Variant |-> <<"subpatterns">>,
     PDeref |-> <<"subpattern">>, AscribeUserType |-> <<"subpattern">>,
     InlineConstant |-> <<"subpattern">>, DerefPattern |-> <<"subpattern">>,
     Or |-> <<"pats">>, Slice |-> <<"prefix">>, PArray |-> <<"prefix">>]

\* Faulty variant of Declared: an arm that is declared with its pattern last.
PatternLast == [FieldOrder EXCEPT !["Arm"] = <<"guard", "body", "pattern">>]

Declared == FieldOrder
Fields(n) == CASE n.k \in DOMAIN Declared -> Declared[n.k]
               [] {"lhs", "rhs"} \subseteq DOMAIN n -> <<"lhs", "rhs">>
               [] "source" \in DOMAIN n -> <<"source">>
               [] OTHER -> <<>>

\* The binding of a variable makes its name known to what is exported later.
LocalCtx(n, ctx) == IF n.k = "Binding" THEN ctx \cup {n.var} ELSE ctx

\* What a kind is exported as, once its children are.
SInto(n, ctx) ==
    CASE n.k = "Cast" /\ n.enum = "other" -> Cast([n EXCEPT !.enum = "repr"], "no")
      [] n.k = "NonHirLiteral" -> Literal(n.n)
      [] n.k = "ZstLiteral" /\ n.of = "PhantomData" -> Adt(n.name, <<>>)
      [] n.k = "ZstLiteral" /\ n.of # "PhantomData" -> GlobalName(n.name)
      [] n.k = "Field" -> [n EXCEPT !.k = IF n.of = "Tuple" THEN "TupleField" ELSE "Field"]
      [] n.k = "Leaf" -> CASE n.of = "Adt" -> PVariant(n.ctor, n.subpatterns)
                           [] n.of = "Tuple" -> PTuple(n.subpatterns)
                           [] OTHER -> Fatal
      [] n.k \in {"VarRef", "UpvarRef"} -> IF n.var \in ctx THEN n ELSE Fatal
      [] OTHER -> n

RECURSIVE ExportNode(_, _)
\* The node for n, with the id of its scope, and the names known after it.
ExportNode(n, ctx) ==
    LET all(ns, c) ==
            FoldLeft(LAMBDA acc, m : LET r == ExportNode(m, acc.ctx)
                                     IN  [nodes |-> Append(acc.nodes, r.node), ctx |-> r.ctx],
                     [nodes |-> <<>>, ctx |-> c], ns)
        u == UnrollScope(n)
        parts == FoldLeft(LAMBDA acc, f : LET r == all(acc.node[f], acc.ctx)
                                          IN  [node |-> [acc.node EXCEPT ![f] = r.nodes],
                                               ctx |-> r.ctx],
                          [node |-> u, ctx |-> LocalCtx(u, ctx)], Fields(u))
    IN  [node |-> [SInto(parts.node, parts.ctx) EXCEPT !.hir = HirId(n)], ctx |-> parts.ctx]

\* make_fn_def: the parameters come before the body.
ExportBody(n) == ExportNode(n, Vars).node

-----------------------------------------------------------------------------
(* The import, of expressions that can be imported *)

App(f, args) == Node("App") @@ [fun |-> <<f>>, args |-> args]
LetIn(p, r, b) == Node("LetIn") @@ [pat |-> <<p>>, rhs |-> <<r>>, body |-> <<b>>]
InBlock(e) == Node("InBlock") @@ [value |-> <<e>>]
IfLet(p, e) == Node("IfLet") @@ [pat |-> <<p>>, expr |-> <<e>>]
Unit == Tuple(<<>>)
UnitOr(es) == IF es = <<>> THEN Unit ELSE es[1]

PatFails(p) == Has(p, {"Slice", "PArray", "DerefPattern"})
StmtFails(s) == s.k = "LetStmt" /\ (PatFails(s.pattern[1]) \/ s.initializer = <<>>)
RECURSIVE BlockFails(_)
BlockFails(b) == \E s \in ToSet(b.stmts) :
                    \/ StmtFails(s)
                    \/ s.k = "LetStmt" /\ \E e \in ToSet(s.else_block) : BlockFails(e)
\* Import raises an exception here, and not in a part that catches it.
Raises(n) ==
    LET lets(ns) == {m.pat[1] : m \in {m \in ToSet(ns) : m.k = "Let"}}
    IN  CASE n.k \in {"Let", "ConstBlock", "Yield", "PlaceTypeAscription"} -> TRUE
          [] n.k = "Unary" -> n.op = "ptr_metadata"
          [] n.k = "PointerCoercion" -> n.cast \notin {"fn", "unsize"}
          [] n.k = "If" -> \E p \in lets(n.cond) : PatFails(p)
          [] n.k = "Match" -> \E a \in ToSet(n.arms) :
                                \E p \in ToSet(a.pattern) \cup lets(a.guard) : PatFails(p)
          [] n.k = "Block" -> BlockFails(n)
          [] n.k = "Closure" -> \E p \in ToSet(n.params) : \E q \in ToSet(p.pat) : PatFails(q)
          [] OTHER -> FALSE

RECURSIVE CPat(_)
CPat(p) == LET q == MapChildren(CPat, p)
           IN  CASE p.k = "PTuple" -> PVariant("tuple", q.subpatterns)
                 [] p.k = "InlineConstant" -> q.subpattern[1]
                 [] OTHER -> q

RECURSIVE CExpr(_)
CExprs(es) == [i \in DOMAIN es |-> CExpr(es[i])]

CArm(arm) ==
    LET guard(g) == IF g.k = "Let" THEN IfLet(CPat(g.pat[1]), CExpr(g.expr[1]))
                    ELSE IfLet(PConstant(1), CExpr(g))
    IN  Arm(CPat(arm.pattern[1]), [i \in DOMAIN arm.guard |-> guard(arm.guard[i])],
            CExpr(arm.body[1]))

\* A block of type `!' that ends with a statement has that for its value; the
\* block of an `else' is taken to have the type of the block it is in.
RECURSIVE CBlock(_, _)
CBlock(b, never) ==
    LET lift == never /\ b.expr = <<>> /\ b.stmts # <<>> /\ Last(b.stmts).k = "Expr"
        stmts == IF lift THEN Front(b.stmts) ELSE b.stmts
        expr == IF lift THEN Last(b.stmts).expr ELSE b.expr
        step(s, rest) ==
            IF s.k = "Expr" THEN LetIn(PWild, CExpr(s.expr[1]), rest)
            ELSE LET p == CPat(s.pattern[1])
                     rhs == CExpr(s.initializer[1])
                 IN  IF s.else_block = <<>> THEN LetIn(p, rhs, rest)
                     ELSE Match(rhs, <<Arm(p, <<>>, rest),
                                       Arm(PWild, <<>>, CBlock(s.else_block[1], never))>>)
    IN  FoldRight(step, stmts, IF expr = <<>> THEN Unit ELSE InBlock(CExpr(expr[1])))

CIf(n) ==
    LET c == n.cond[1]
    IN  IF c.k # "Let" THEN If(CExpr(c), CExpr(n.then[1]), CExprs(n.else_opt))
        ELSE Match(CExpr(c.expr[1]), <<Arm(CPat(c.pat[1]), <<>>, CExpr(n.then[1])),
                                       Arm(PWild, <<>>, UnitOr(CExprs(n.else_opt)))>>)

CClosure(n) ==
    LET given == SelectSeq(n.params, LAMBDA p : p.pat # <<>>)
        params == [i \in DOMAIN given |-> CPat(given[i].pat[1])]
    IN  Closure(IF params = <<>> THEN <<PWild>> ELSE params, CExpr(n.body[1]), CExprs(n.upvars))

\* c_expr_unwrapped.  No label is looked at.
CExprUnwrapped(n) ==
    LET apply(f, es) == App(GlobalName(f), CExprs(es)) IN
    CASE n.k = "If" -> CIf(n)
      [] n.k = "Call" -> App(CExpr(n.fun[1]), IF n.args = <<>> THEN <<Unit>> ELSE CExprs(n.args))
      [] n.k \in {"Binary", "LogicalOp"} -> apply(n.op, n.lhs \o n.rhs)
      [] n.k = "Cast" -> apply(IF n.enum = "no" THEN "cast" ELSE "discriminant", n.source)
      [] n.k = "Unary" -> apply(n.op, n.source)
      [] n.k = "Index" -> apply("index", n.lhs \o n.index)
      [] n.k = "Box" -> apply("box_new", n.source)
      [] n.k = "Repeat" -> App(GlobalName("box_new"), <<apply("repeat", n.value \o n.count)>>)
      [] n.k = "PointerCoercion" /\ n.cast = "unsize" -> apply("unsize", n.source)
      [] n.k = "Deref" -> apply("deref", n.source)
      [] n.k = "NeverToAny" -> apply("never_to_any", n.source)
      [] n.k \in {"Field", "TupleField"} -> apply(n.field, n.source)
      [] n.k \in {"Use", "ValueTypeAscription"} \/ (n.k = "PointerCoercion" /\ n.cast = "fn") ->
            CExpr(n.source[1])
      [] n.k = "RawBorrow" -> Node1("AddressOf", CExpr(n.source[1]))
      [] n.k = "StaticRef" -> GlobalName(n.name)
      [] n.k = "Borrow" -> Borrow(CExpr(n.source[1]))
      [] n.k = "Loop" -> Loop(CExpr(n.body[1]))
      [] n.k = "Match" -> Match(CExpr(n.scrutinee[1]), [i \in DOMAIN n.arms |-> CArm(n.arms[i])])
      [] n.k = "Block" -> CBlock(n, n.never)
      [] n.k = "Assign" -> Assign(CExpr(n.lhs[1]), CExpr(n.rhs[1]))
      [] n.k = "AssignOp" -> LET l == CExpr(n.lhs[1])
                             IN  Assign(l, App(GlobalName(n.op), <<l, CExpr(n.rhs[1])>>))
      [] n.k \in {"VarRef", "UpvarRef"} -> VarRef(n.var)
      [] n.k = "Break" -> Break(NoId, <<UnitOr(CExprs(n.value))>>)
      [] n.k = "Continue" -> Continue(NoId)
      [] n.k = "Return" -> Return(<<UnitOr(CExprs(n.value))>>)
      [] n.k \in {"Tuple", "Adt", "Array"} -> [n EXCEPT !.fields = CExprs(n.fields), !.hir = NoId]
      [] n.k = "Closure" -> CClosure(n)
      [] n.k \in {"Literal", "GlobalName", "NamedConst"} -> [n EXCEPT !.hir = NoId]

\* Where it raises an exception, there is an error in its place.
CExpr(n) == IF Raises(n) THEN Failure ELSE CExprUnwrapped(n)

-----------------------------------------------------------------------------
(* Reconstruct_while_loops, Drop_blocks and Drop_match_guards *)

StripBlock(n) == IF n.k = "InBlock" THEN n.value[1] ELSE n
IsNeverToAny(n) == n.k = "App" /\ n.fun = <<GlobalName("never_to_any")>>
\* never_to_any (never_to_any (break ())), in blocks or not
IsBreak(n) ==
    LET e == StripBlock(n)
    IN  /\ IsNeverToAny(e)
        /\ LET f == StripBlock(e.args[1])
           IN  /\ IsNeverToAny(f)
               /\ f.args[1].k = "Break" /\ f.args[1].value = <<Unit>>
IsWhile(n) == /\ n.k = "Loop"
              /\ LET b == StripBlock(n.body[1])
                 IN  b.k = "If" /\ b.else_opt # <<>> /\ IsBreak(b.else_opt[1])

RECURSIVE WhileLoops(_)
WhileLoops(n) ==
    IF ~IsWhile(n) THEN MapChildren(WhileLoops, n)
    ELSE LET b == StripBlock(n.body[1])
         IN  Node("While") @@ [condition |-> <<WhileLoops(b.cond[1])>>,
                               body |-> <<WhileLoops(b.then[1])>>]

RECURSIVE DropBlocks(_)
DropBlocks(n) == IF n.k = "InBlock" THEN DropBlocks(n.value[1]) ELSE MapChildren(DropBlocks, n)

\* Faulty variant of MaybeSimplifiedMatch: a match of one `_' arm is its body, whoever made it.
SimplifiedMatch(scrutinee, original, arms) ==
    IF Len(arms) = 1 /\ arms[1].pattern[1].k = "Wild" THEN arms[1].body[1]
    ELSE Match(scrutinee, arms)
\* A match of one `_' arm that this phase made is its body.
MaybeSimplifiedMatch(scrutinee, original, arms) ==
    LET wild(as) == Len(as) = 1 /\ as[1].pattern[1].k = "Wild"
    IN  IF wild(arms) /\ ~wild(original) THEN arms[1].body[1] ELSE Match(scrutinee, arms)

\* match s {p if let q = r => b, ...} becomes
\*   match s {_ => match match s {p => match r {q => Some(b), _ => None}, _ => None}
\*                 {Some(m) => m, None => match s {...}}}
\* from the last arm on.
RECURSIVE DropMatchGuards(_)
TransformArm(scrutinee, arm, treated) ==
    LET some(e) == Adt("Some", <<e>>)
        none == Adt("None", <<>>)
        option(e, p, b) == Match(e, <<Arm(p, <<>>, b), Arm(PWild, <<>>, none)>>)
        guard == arm.guard[1]
        r == option(scrutinee, arm.pattern[1],
                    option(DropMatchGuards(guard.expr[1]), guard.pat[1],
                           some(DropMatchGuards(arm.body[1]))))
        rest == MaybeSimplifiedMatch(scrutinee, <<>>, treated)
    IN  IF arm.guard = <<>> THEN <<[arm EXCEPT !.body = <<DropMatchGuards(@[1])>>]>> \o treated
        ELSE <<Arm(PWild, <<>>, Match(r, <<Arm(PVariant("Some", <<PBinding("matched", <<>>)>>), <<>>,
                                               VarRef("matched")),
                                           Arm(PVariant("None", <<>>), <<>>, rest)>>))>>
DropMatchGuards(n) ==
    IF n.k # "Match" THEN MapChildren(DropMatchGuards, n)
    ELSE LET s == DropMatchGuards(n.scrutinee[1])
         IN  MaybeSimplifiedMatch(s, n.arms,
                FoldRight(LAMBDA arm, treated : TransformArm(s, arm, treated), n.arms, <<>>))

-----------------------------------------------------------------------------
(* A body on its way *)

Init == /\ body \in Bodies
        /\ current = body
        /\ stage = "rustc"

Stage(from, to, new) == /\ stage = from
                        /\ current' = new
                        /\ stage' = to
                        /\ UNCHANGED body

Export == LET e == ExportBody(body)
          IN  Stage("rustc", IF Has(e, {"Fatal"}) THEN "stopped" ELSE "exported", e)
Import == Stage("exported", "imported", CExpr(current))
ReconstructWhileLoops == Stage("imported", "loops", WhileLoops(current))
RemoveBlocks == Stage("loops", "blocks", DropBlocks(current))
RemoveMatchGuards == Stage("blocks", "guards", DropMatchGuards(current))

Next == Export \/ Import \/ ReconstructWhileLoops \/ RemoveBlocks \/ RemoveMatchGuards
Spec == Init /\ [][Next]_vars

-----------------------------------------------------------------------------
(* What a node of any stage means *)

\* Values: integers, and constructors applied to values.  A closure has its node.
IntV(n) == [c |-> "int", n |-> n, vs |-> <<>>]
DataV(c, vs) == [c |-> c, n |-> 0, vs |-> vs]
UnitV == DataV("tuple", <<>>)

\* An evaluation comes to a value, a jump "brk" or "cont" to a label, a return,
\* a loop without end, or has no meaning.
Outcome(k, v, env) == [k |-> k, v |-> v, env |-> env, label |-> NoId]
Jump(k, label, r) == [r EXCEPT !.k = k, !.label = label]
Stuck(env) == Outcome("stuck", UnitV, env)
Val(v, env) == Outcome("val", v, env)

SubPatterns(p) == CASE p.k = "Binding" -> p.subpattern
                    [] p.k \in {"Leaf", "Variant", "PTuple"} -> p.subpatterns
                    [] p.k \in {"PDeref", "AscribeUserType", "InlineConstant"} -> p.subpattern
                    [] OTHER -> <<>>
\* The constructor a pattern asks for.
Asks(p) == CASE p.k = "PTuple" \/ (p.k = "Leaf" /\ p.of = "Tuple") -> "tuple"
             [] p.k \in {"Leaf", "Variant"} -> p.ctor
             [] OTHER -> ""
\* The parts of v that the subpatterns are about.
PartsOf(p, v) == IF Asks(p) # "" THEN v.vs ELSE [i \in DOMAIN SubPatterns(p) |-> v]

RECURSIVE Fits(_, _)
Fits(p, v) ==
    CASE p.k = "Constant" -> v.n = p.n
      [] p.k = "Or" -> \E q \in ToSet(p.pats) : Fits(q, v)
      [] OTHER -> /\ Asks(p) \in {"", v.c}
                  /\ \A i \in DOMAIN SubPatterns(p) : Fits(SubPatterns(p)[i], PartsOf(p, v)[i])
RECURSIVE Bound(_, _)
Bound(p, v) ==
    IF p.k = "Or" THEN Bound(SelectSeq(p.pats, LAMBDA q : Fits(q, v))[1], v)
    ELSE FoldLeft(LAMBDA b, i : Bound(SubPatterns(p)[i], PartsOf(p, v)[i]) @@ b,
                  IF p.k = "Binding" THEN p.var :> v ELSE <<>>,
                  [i \in DOMAIN SubPatterns(p) |-> i])

\* What functions compute; `and' and `or' are evaluated elsewhere.
Apply(f, vs) ==
    CASE f = "add" -> IntV(vs[1].n + vs[2].n)
      [] f = "less" -> IntV(IF vs[1].n < vs[2].n THEN 1 ELSE 0)
      [] f = "zero" -> IntV(0)
      [] f = "Some" -> DataV("Some", vs)
      [] f \in {"cast", "discriminant", "deref", "never_to_any", "id", "box_new", "unsize",
               "ptr_metadata"} -> vs[1]
      [] f = "not" -> IntV(1 - vs[1].n)
      [] f = "index" -> vs[1].vs[vs[2].n + 1]
      [] f = "repeat" -> DataV("array", [i \in 1..vs[2].n |-> vs[1]])
      [] f = "first" -> vs[1].vs[1]

IsMade(n) == n.k = "App" \* by the engine
NameOf(n) == IF IsMade(n) /\ n.fun[1].k = "GlobalName" THEN n.fun[1].name
             ELSE IF n.k = "LogicalOp" THEN n.op ELSE ""

RECURSIVE Eval(_, _), EvalAll(_, _, _), Iterate(_, _, _)

\* Left to right; `vs' are the values so far.
EvalAll(es, env, vs) ==
    IF es = <<>> THEN Val(vs, env)
    ELSE LET r == Eval(Head(es), env)
         IN  IF r.k # "val" THEN r ELSE EvalAll(Tail(es), r.env, Append(vs, r.v))
\* F of the values of es
With(es, env, F(_, _)) ==
    LET r == EvalAll(es, env, <<>>) IN IF r.k = "val" THEN F(r.v, r.env) ELSE r

EvalUnder(p, v, e, env) == IF Fits(p, v) THEN Eval(e, Bound(p, v) @@ env) ELSE Stuck(env)

Catches(n, r) == r.label \in {NoId, n.hir}
\* `n' has a condition if it is a while loop; i iterations are left.
Iterate(n, env, i) ==
    LET test == IF n.k = "While" THEN Eval(n.condition[1], env) ELSE Val(IntV(1), env)
        r == Eval(n.body[1], test.env)
    IN  CASE i = 0 -> Outcome("diverge", UnitV, env)
          [] test.k # "val" -> test
          [] test.v.n = 0 -> Val(UnitV, test.env)
          [] r.k = "val" \/ (r.k = "cont" /\ Catches(n, r)) -> Iterate(n, r.env, i - 1)
          [] r.k = "brk" /\ Catches(n, r) -> Val(r.v, r.env)
          [] OTHER -> r

\* The first arm that fits and whose guard, a condition or a pattern, does.
RECURSIVE EvalArms(_, _, _)
EvalArms(arms, v, env) ==
    IF arms = <<>> THEN Stuck(env)
    ELSE LET arm == Head(arms)
             inner == Bound(arm.pattern[1], v) @@ env
             test == IF arm.guard = <<>> THEN Val(IntV(1), inner) ELSE Eval(arm.guard[1], inner)
         IN  IF ~Fits(arm.pattern[1], v) THEN EvalArms(Tail(arms), v, env)
             ELSE CASE test.k # "val" -> test
                    [] test.v.n = 0 -> EvalArms(Tail(arms), v, test.env)
                    [] OTHER -> Eval(arm.body[1], test.env)

\* Whether a value fits, with the variables it binds.
EvalTest(p, e, env) ==
    With(<<e>>, env, LAMBDA vs, new :
        IF Fits(p, vs[1]) THEN Val(IntV(1), Bound(p, vs[1]) @@ new) ELSE Val(IntV(0), new))

RECURSIVE EvalStmts(_, _, _)
EvalStmts(stmts, e, env) ==
    IF stmts = <<>> THEN IF e = <<>> THEN Val(UnitV, env) ELSE Eval(e[1], env)
    ELSE LET s == Head(stmts)
             next(new) == EvalStmts(Tail(stmts), e, new)
         IN  CASE s.k = "Expr" -> With(s.expr, env, LAMBDA vs, new : next(new))
               [] s.initializer = <<>> -> next(env)
               [] OTHER -> With(s.initializer, env, LAMBDA vs, new :
                    LET p == s.pattern[1]
                    IN  CASE Fits(p, vs[1]) -> next(Bound(p, vs[1]) @@ new)
                          [] s.else_block # <<>> -> Eval(s.else_block[1], new)
                          [] OTHER -> Stuck(new))

\* A closure is called where it is made.
EvalCall(vs, env) ==
    LET f == vs[1].c
        closure == vs[2].vs[1]
        ps == closure.params
        bind(b, i) == Bound(IF ps[i].k = "Param" THEN ps[i].pat[1] ELSE ps[i], vs[3].vs[i]) @@ b
        r == Eval(closure.body[1], FoldLeft(bind, env, [i \in DOMAIN vs[3].vs |-> i]))
    IN  IF f # "call" THEN Val(Apply(f, Tail(vs)), env)
        ELSE IF r.k = "ret" THEN Val(r.v, r.env) ELSE r

Store(x, F(_), es, env) ==
    With(es, env, LAMBDA vs, new : IF x \in DOMAIN new
                                   THEN Val(UnitV, [new EXCEPT ![x] = F(<<new[x]>> \o vs)])
                                   ELSE Stuck(new))
Target(n) == UnrollScope(n.lhs[1]).var

Eval(n, env) ==
    CASE n.k = "Scope" -> Eval([n.value[1] EXCEPT !.hir = n.id], env)
      [] n.k \in {"Literal", "NonHirLiteral", "Constant"} -> Val(IntV(n.n), env)
      [] n.k \in {"VarRef", "UpvarRef"} ->
            IF n.var \in DOMAIN env THEN Val(env[n.var], env) ELSE Stuck(env)
      [] n.k \in {"GlobalName", "NamedConst", "StaticRef", "ZstLiteral"} -> Val(DataV(n.name, <<>>), env)
      [] NameOf(n) \in {"and", "or"} ->
            LET es == IF IsMade(n) THEN n.args ELSE n.lhs \o n.rhs
            IN  With(<<es[1]>>, env, LAMBDA vs, new :
                    IF (vs[1].n = 1) = (NameOf(n) = "and") THEN Eval(es[2], new)
                    ELSE Val(vs[1], new))
      [] n.k \in {"Call", "App"} -> With(n.fun \o n.args, env, EvalCall)
      [] n.k = "Binary" -> With(n.lhs \o n.rhs, env, LAMBDA vs, new : Val(Apply(n.op, vs), new))
      [] n.k = "Unary" -> With(n.source, env, LAMBDA vs, new : Val(Apply(n.op, vs), new))
      [] n.k = "Index" -> With(n.lhs \o n.index, env, LAMBDA vs, new : Val(Apply("index", vs), new))
      [] n.k = "Repeat" -> With(n.value \o n.count, env, LAMBDA vs, new : Val(Apply("repeat", vs), new))
      [] n.k \in {"Cast", "Use", "NeverToAny", "ValueTypeAscription", "Borrow", "Deref", "Box",
                  "PointerCoercion", "PlaceTypeAscription", "RawBorrow", "AddressOf"} ->
            Eval(n.source[1], env)
      [] n.k \in {"Field", "TupleField"} ->
            With(n.source, env, LAMBDA vs, new : Val(Apply(n.field, vs), new))
      [] n.k = "If" -> With(n.cond, env, LAMBDA vs, new :
                            CASE vs[1].n = 1 -> Eval(n.then[1], new)
                              [] n.else_opt # <<>> -> Eval(n.else_opt[1], new)
                              [] OTHER -> Val(UnitV, new))
      [] n.k = "Match" -> With(n.scrutinee, env, LAMBDA vs, new : EvalArms(n.arms, vs[1], new))
      [] n.k \in {"Let", "IfLet"} -> EvalTest(n.pat[1], n.expr[1], env)
      [] n.k = "LetIn" -> With(n.rhs, env, LAMBDA vs, new :
                               EvalUnder(n.pat[1], vs[1], n.body[1], new))
      [] n.k = "Block" -> LET r == EvalStmts(n.stmts, n.expr, env)
                          IN  IF r.k = "brk" /\ r.label = n.region /\ n.region # NoId
                              THEN Val(r.v, r.env) ELSE r
      [] n.k = "InBlock" -> Eval(n.value[1], env)
      [] n.k \in {"Loop", "While"} -> Iterate(n, env, Fuel)
      [] n.k = "Assign" -> Store(Target(n), LAMBDA vs : vs[2], n.rhs, env)
      \* The right operand of a primitive operator is evaluated first.
      [] n.k = "AssignOp" -> Store(Target(n), LAMBDA vs : Apply(n.op, vs), n.rhs, env)
      [] n.k \in {"Break", "Return"} ->
            LET r == IF n.value = <<>> THEN Val(UnitV, env) ELSE Eval(n.value[1], env)
            IN  CASE r.k # "val" -> r
                  [] n.k = "Return" -> [r EXCEPT !.k = "ret"]
                  [] OTHER -> Jump("brk", n.label, r)
      [] n.k = "Continue" -> Jump("cont", n.label, Val(UnitV, env))
      [] n.k \in {"Tuple", "Array", "Adt"} ->
            With(n.fields, env, LAMBDA vs, new :
                 Val(DataV(CASE n.k = "Tuple" -> "tuple" [] n.k = "Array" -> "array"
                             [] OTHER -> n.ctor, vs), new))
      [] n.k = "Closure" -> Val(DataV("closure", <<n>>), env)
      [] OTHER -> Stuck(env)

\* The result of the function, and what it left in its parameters.
Meaning(n, input) ==
    LET r == Eval(n, input)
    IN  [k |-> IF r.k = "ret" THEN "val" ELSE r.k,
         v |-> IF r.k \in {"val", "ret"} THEN r.v ELSE UnitV,
         vars |-> IF r.k \in {"val", "ret"} THEN [x \in Vars |-> r.env[x]] ELSE <<>>]
SameMeaning(m, n) == \A input \in Inputs : Meaning(m, input) = Meaning(n, input)

-----------------------------------------------------------------------------
(* Properties *)

\* A jump that leaves more than the loop around it.
RECURSIVE JumpsFar(_, _)
JumpsFar(n, inner) ==
    CASE n.k \in {"Break", "Continue"} ->
            n.label # inner \/ \E c \in Children(n) : JumpsFar(c, inner)
      [] n.k = "Loop" -> JumpsFar(n.body[1], n.hir)
      [] n.k = "Scope" -> JumpsFar([n.value[1] EXCEPT !.hir = n.id], inner)
      [] OTHER -> \E c \in Children(n) : JumpsFar(c, inner)

Assigned(n) == {Target(m) : m \in {m \in Nodes(n) : m.k \in {"Assign", "AssignOp"}}}
Read(n) == {m.var : m \in {m \in Nodes(n) : m.k \in {"VarRef", "UpvarRef"}}}

\* The right operand assigns what the left one reads too early.
ReadsTooEarly(n) ==
    \E m \in Nodes(n) : m.k = "AssignOp" /\ Target(m) \in Assigned(m.rhs[1])

\* A match on something else the second time it is evaluated, which it is when
\* an arm with a guard is followed by another one than `_'.
EvaluatesTwice(n) ==
    \E m \in Nodes(n) :
        /\ m.k = "Match"
        /\ \E a \in ToSet(m.arms) : a.guard # <<>>
        /\ LET s == m.scrutinee[1]
               guards == UNION {Assigned(g) : g \in UNION {ToSet(a.guard) : a \in ToSet(m.arms)}}
           IN  Assigned(s) \cup (Read(s) \cap guards) # {}

\* Exporting a body loses nothing of what it does: not even where a break or a
\* continue goes to, although scopes are removed. What the engine makes of the
\* body, after the import and after each of the three phases, does what the
\* body does, but for three constructions that are translated to something else
\* without a word: far jumps, x op= e where e assigns x, and guards after a
\* scrutinee with effects.
MeaningIsKept ==
    /\ stage = "exported" => SameMeaning(body, current)
    /\ /\ stage \in {"imported", "loops", "blocks", "guards"}
       /\ ~Has(current, {"Failure"})
       /\ ~JumpsFar(body, NoId) /\ ~ReadsTooEarly(body)
       => SameMeaning(body, current) \/ (stage = "guards" /\ EvaluatesTwice(body))

\* A pattern that is none of those hax has, in a place that can have one.
Unsupported(n) ==
    \/ Has(n, {"Slice", "PArray", "DerefPattern", "ConstBlock", "Yield", "PlaceTypeAscription"})
    \/ \E m \in Nodes(n) : \/ m.k = "Unary" /\ m.op = "ptr_metadata"
                           \/ m.k = "PointerCoercion" /\ m.cast = "other"
    \/ \E m \in Nodes(n) : m.k = "LetStmt" /\ m.initializer = <<>>
    \* a condition that is more than one `let'
    \/ \E m \in Nodes(n) : /\ m.k = "LogicalOp"
                           /\ \E c \in Children(m) : UnrollScope(c).k = "Let"

\* The exporter knows the name of every variable it meets, and stops only on a
\* pattern of a struct or a tuple that is neither. The engine has an error for
\* a body exactly if something in it cannot be translated.
BodyErrorsAreExplained ==
    /\ stage = "stopped" => \E m \in Nodes(body) : m.k = "Leaf" /\ m.of = "other"
    /\ stage = "imported" => (Has(current, {"Failure"}) <=> Unsupported(body))
=============================================================================
