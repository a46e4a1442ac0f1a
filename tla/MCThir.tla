------------------------------- MODULE MCThir -------------------------------
(* Bodies as rustc builds them, small but with every node of Thir.         *)
EXTENDS Thir

L(n) == Literal(n)
X == VarRef("x")
Y == VarRef("y")
Add(l, r) == Binary("add", l, r)
Less(l, r) == Binary("less", l, r)
Fn(f) == Scope("fn", ZstLiteral("fn", f))
Do(stmts, e) == Block(NoId, FALSE, [i \in DOMAIN stmts |-> ExprStmt(stmts[i])], <<e>>)
Sequence(es) == Block(NoId, FALSE, [i \in DOMAIN es |-> ExprStmt(es[i])], <<>>)
\* The block of an expression that does not return
Never(e) == NeverToAny(Block(NoId, TRUE, <<ExprStmt(NeverToAny(e))>>, <<>>))
SomeP(p) == PVariant("Some", <<p>>)
NoneP == PVariant("None", <<>>)
SomeOf(e) == Call(Fn("Some"), <<e>>)
Bind(v) == PBinding(v, <<>>)

SetX == {Assign(X, L(1)), AssignOp("add", X, L(1))}
EffectX == Do(<<Assign(X, L(1))>>, L(1))

Values0 == {L(0), X, Y}
Values == Values0 \cup {Add(a, b) : a \in {X, L(1)}, b \in {Y, EffectX}}
          \cup {EffectX, Call(Fn("zero"), <<>>), Call(Fn("id"), <<X>>), Call(VarRef("f"), <<Y>>),
                Cast(X, "no"), Cast(NamedConst("E"), "other"), Use(Deref(Borrow(X))), NonHirLiteral(1),
                Field(Tuple(<<X, Y>>), "Tuple", "first"), Field(Adt("S", <<Y>>), "Adt", "first"),
                Unary("not", Less(X, EffectX)), Box(X), PointerCoercion("unsize", Box(Y)),
                Call(PointerCoercion("fn", ZstLiteral("fn", "id")), <<EffectX>>), Deref(RawBorrow(X)), StaticRef("S"),
                Index(Array(<<X, EffectX, Y>>), X), Index(Repeat(X, L(2)), Do(<<Assign(X, L(0))>>, X)),
                ZstLiteral("PhantomData", "P"), ZstLiteral("struct", "S"), ValueTypeAscription(Y),
                Never(Return(<<Y>>))}
Conditions == {Less(X, L(1)), LogicalOp("and", Less(X, Y), Less(EffectX, L(2))),
               LogicalOp("or", Less(X, Y), Less(L(0), EffectX)),
               LetCond(SomeOf(X), SomeP(PConstant(0))), LetCond(Tuple(<<X, Y>>), PLeaf("Tuple", "", <<Bind("a"), PWild>>))}

Straight ==
    {Do(<<e>>, v) : e \in SetX, v \in Values}
    \cup {Do(<<AssignOp("add", v, EffectX)>>, X) : v \in {X, Y}}
    \cup {If(c, t, e) : c \in Conditions, t \in Values0, e \in {<<X>>, <<EffectX>>, <<Never(Return(<<>>))>>}}
    \cup {Do(<<If(c, Sequence(<<s>>), <<>>)>>, X) : c \in Conditions, s \in SetX}
    \cup {Block(NoId, never, <<LetStmt(p, <<v>>, else)>>, e) :
            never \in BOOLEAN, v \in {SomeOf(X), SomeOf(EffectX)}, p \in {SomeP(Bind("a"))},
            else \in {<<>>, <<Block(NoId, TRUE, <<ExprStmt(Return(<<Y>>))>>, <<>>)>>},
            e \in {<<VarRef("a")>>, <<>>}}
    \cup {Block(NoId, TRUE, <<LetStmt(SomeP(PConstant(0)), <<SomeOf(X)>>,
                                      <<Block(NoId, TRUE, <<ExprStmt(Return(<<Y>>))>>, <<>>)>>),
                              ExprStmt(e)>>, <<>>) : e \in {Return(<<>>), Return(<<X>>)}}
    \cup {Call(Fn("call"), <<Borrow(Closure(ps, b, <<Y>>)), Tuple(args)>>) :
            ps \in {<<Param(<<Bind("p")>>)>>}, args \in {<<X>>}, b \in {Add(VarRef("p"), UpvarRef("y")), Return(<<VarRef("p")>>)}}
    \cup {Do(<<Call(Fn("call"), <<Borrow(Closure(<<>>, Sequence(<<s>>), <<X>>)), Tuple(<<>>)>>)>>, X) : s \in SetX}
    \cup {Block("b", FALSE, <<ExprStmt(If(Less(X, Y), Sequence(<<Never(Break("b", <<L(0)>>))>>), <<>>))>>, <<Y>>)}

\* Matches with guards
Patterns == {PConstant(0), PBinding("a", <<PConstant(1)>>), POr(<<PConstant(0), PConstant(2)>>), PDeref(PConstant(1)),
             PAscribeUserType(PBinding("a", <<PInlineConstant(PConstant(1))>>))}
Guards == {<<>>, <<Less(X, Y)>>, <<Less(Y, Do(<<Assign(Y, L(1))>>, L(1)))>>, <<LetCond(SomeOf(X), SomeP(Bind("g")))>>}
Matches ==
    {Match(s, <<Arm(p, g, b)>> \o more \o <<Arm(PWild, <<>>, L(3))>>) :
        s \in {X, Add(Y, L(0)), Do(<<AssignOp("add", Y, L(1))>>, Y)}, p \in Patterns, g \in Guards,
        b \in {X, Do(<<Assign(X, L(1))>>, X)},
        more \in {<<>>, <<Arm(PConstant(1), <<>>, Y)>>, <<Arm(PWild, <<Less(L(0), Y)>>, L(4))>>}}
    \cup {Match(Do(<<AssignOp("add", Y, L(1))>>, Y), <<Arm(PWild, g, L(3))>>) : g \in {<<>>}}
    \cup {Match(Adt("S", <<X>>), <<Arm(PLeaf(of, "S", <<Bind("a")>>), <<>>, VarRef("a"))>>) : of \in {"Adt", "other"}}

\* Loops, in one or two scopes
InScope(id, twice, e) == IF twice THEN Scope(id, Scope(id, e)) ELSE Scope(id, e)
While(id, c, b) == InScope(id, FALSE, Loop(Do(<<>>, If(c, b, <<Never(Break(id, <<>>))>>))))
Jumps == UNION {{Break(id, <<>>), Continue(id)} : id \in {"l", "m"}} \cup {Return(<<X>>), Break("b", <<>>)}
Inner ==
    {While("m", Less(X, L(2)), Sequence(<<AssignOp("add", X, L(1)), If(Less(Y, L(1)), Sequence(<<Never(j)>>), <<>>)>>)) : j \in Jumps}
    \cup {InScope("m", twice, Loop(Sequence(<<If(Less(X, L(2)), Sequence(<<AssignOp("add", X, L(1))>>), <<Never(j)>>)>>))) :
            twice \in BOOLEAN, j \in Jumps}
    \cup {InScope("m", TRUE, Loop(If(Less(X, L(2)), Sequence(<<AssignOp("add", X, L(1))>>), <<Never(j)>>))) : j \in Jumps}
Loops ==
    {Block("b", FALSE, <<ExprStmt(While("l", Less(Y, L(2)), Sequence(<<AssignOp("add", Y, L(1)), i, AssignOp("add", X, L(1))>>)))>>, <<>>) : i \in Inner}
    \cup {Block("b", FALSE, <<ExprStmt(InScope("l", FALSE, Loop(Sequence(<<i, AssignOp("add", Y, L(1)),
             If(Less(L(1), Y), Sequence(<<Never(Break("l", <<>>))>>), <<>>)>>))))>>, <<>>) : i \in Inner}
    \cup {InScope("l", FALSE, Loop(Sequence(<<AssignOp("add", X, L(1)), If(LetCond(SomeOf(X), SomeP(PConstant(n))),
              Sequence(<<Never(Break("l", <<Y>>))>>), <<>>)>>))) : n \in {2, 9}}

Unsupporteds ==
    {If(LogicalOp("and", LetCond(SomeOf(X), SomeP(Bind("a"))), c), X, <<Y>>) : c \in {Less(X, Y), LetCond(SomeOf(Y), SomeP(PConstant(1)))}}
    \cup {Block(NoId, FALSE, <<ExprStmt(e), LetStmt(Bind("a"), <<>>, <<>>), ExprStmt(Assign(VarRef("a"), X))>>, <<VarRef("a")>>) : e \in SetX}
    \cup {Match(X, <<Arm(PSlice("Slice", <<PWild>>), <<>>, Y), Arm(PWild, <<>>, L(0))>>), Do(<<Node("Yield")>>, Y), Node("ConstBlock"),
          Call(Fn("call"), <<Borrow(Closure(<<Param(<<PSlice("Slice", <<>>)>>)>>, X, <<>>)), Tuple(<<Y>>)>>),
          If(LetCond(X, PSlice("Slice", <<PWild>>)), X, <<>>), Match(X, <<Arm(PWild, <<LetCond(X, PSlice("Slice", <<>>))>>, Y), Arm(PWild, <<>>, X)>>),
          Block(NoId, FALSE, <<LetStmt(PSlice("PArray", <<>>), <<X>>, <<>>)>>, <<X>>),
          Block(NoId, FALSE, <<LetStmt(PDerefPattern(PWild), <<X>>, <<>>)>>, <<X>>), Do(<<PlaceTypeAscription(X)>>, X),
          Add(X, Unary("ptr_metadata", Borrow(X))), Call(PointerCoercion("other", VarRef("f")), <<X>>)}

\* The scopes of one expression have one id.
MCBodies == {InScope(IF b.k = "Scope" THEN b.id ELSE "body", FALSE, b) :
                b \in Straight \cup Matches \cup Loops \cup Unsupporteds}
MCVars == {"x", "y", "f"}
MCInputs == {("x" :> IntV(a)) @@ ("y" :> IntV(b)) @@ ("f" :> DataV("id", <<>>)) : a, b \in 0..2}
=============================================================================
