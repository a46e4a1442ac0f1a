---------------------------- MODULE MCFStarPhases ----------------------------
(***************************************************************************)
(* Function bodies put together from a small set of statements.  Every     *)
(* body has the parameters c and d (0 or 1) and o (a Result) and begins    *)
(* with `let mut x = 0; let mut y = 1;`.  Bodies of functions that return  *)
(* pairs end with (x, y).  Those of unit functions, of which a caller sees *)
(* only panics, end with `report(x, y)`, which panics with both.           *)
(***************************************************************************)
EXTENDS FStarPhases

MCMutables == <<"x", "y">>

x == LocalVar("x")
y == LocalVar("y")
Add(a, b) == App("add", <<a, b>>)

MCArguments ==
    {("c" :> IntV(c)) @@ ("d" :> IntV(d)) @@ ("o" :> o) :
       c \in 0 .. 1, d \in 0 .. 1,
       o \in {DataV("Ok", <<IntV(5)>>), DataV("Err", <<IntV(6)>>)}}

\* Statements are bindings; `e;` is `let _ = e`.
Stmt(e) == Binding(PWild, e)
Block(stmts) == MakeLets(stmts, Unit)
ReturnIt == Return(Tuple(<<x, Literal(9)>>))

Plain ==
    {Stmt(Assign("x", Add(x, Literal(1)))),
     Stmt(Assign("y", Add(y, x)))}

\* `if c { jump; }`, `if d { x += 2; jump; }`, `if c { y += 1 } else { jump }`
IfJumps(jump) ==
    {Stmt(IfThen(LocalVar("c"), Block(<<Stmt(jump)>>))),
     Stmt(IfThen(LocalVar("d"),
                 Block(<<Stmt(Assign("x", Add(x, Literal(2)))), Stmt(jump)>>))),
     Stmt(IfElse(LocalVar("c"), Assign("y", Add(y, Literal(1))),
                 App("never_to_any", <<jump>>)))}

\* Statements with effects in operands, conditions and initializers.
Nested ==
    { \* x = x + { y += 2; y };
     Stmt(Assign("x", Add(x, MakeLets(<<Stmt(Assign("y", Add(y, Literal(2))))>>, y)))),
      \* y = x + { x = 3; x + 1 };
     Stmt(Assign("y", Add(x, MakeLets(<<Stmt(Assign("x", Literal(3)))>>,
                                      Add(x, Literal(1)))))),
      \* if { x += 1; x < 2 } { y = x }
     Stmt(IfThen(MakeLets(<<Stmt(Assign("x", Add(x, Literal(1))))>>,
                          App("less", <<x, Literal(2)>>)),
                 Assign("y", x))),
      \* let z = if c { x += 1; y } else { return .. }; y = y + z;
     Binding(PBinding("z"),
             IfElse(LocalVar("c"),
                    MakeLets(<<Stmt(Assign("x", Add(x, Literal(1))))>>, y),
                    App("never_to_any", <<ReturnIt>>))),
      \* let z = match o { Ok(v) => v, Err(e) => return .. };
     Binding(PBinding("z"),
             Match(LocalVar("o"),
                   <<PConstruct("Ok", <<PBinding("v")>>),
                     PConstruct("Err", <<PBinding("e")>>)>>,
                   <<LocalVar("v"), Return(Tuple(<<x, LocalVar("e")>>))>>)),
      \* x = match o { Ok(v) => { y += v; v }, Err(e) => e };
     Stmt(Assign("x",
             Match(LocalVar("o"),
                   <<PConstruct("Ok", <<PBinding("v")>>),
                     PConstruct("Err", <<PBinding("e")>>)>>,
                   <<MakeLets(<<Stmt(Assign("y", Add(y, LocalVar("v"))))>>,
                              LocalVar("v")), LocalVar("e")>>)))}

OutsideLoops == Plain \cup IfJumps(ReturnIt) \cup Nested
InsideLoops == OutsideLoops \cup IfJumps(Break(Unit)) \cup IfJumps(Continue)

ForTwice(body) == Loop("ForLoop", PBinding("i"), Literal(2), body)
WhileSmall(body) ==
    Loop("WhileLoop", PWild, App("less", <<x, Literal(3)>>), body)
Forever(body) == Loop("UnconditionalLoop", PWild, Unit, body)

Pairs == {Block(<<s, t>>) : s \in InsideLoops, t \in InsideLoops}
Bodies == {Block(<<s, Stmt(Assign("x", Add(x, Literal(1))))>>) : s \in InsideLoops}

Simple == {ForTwice(b) : b \in Pairs}
Whiles == {WhileSmall(b) : b \in Bodies}
Inner == {ForTwice(b) : b \in Bodies}
LoopsInLoops ==
    {ForTwice(Block(<<Stmt(l), s>>)) : l \in Inner, s \in InsideLoops}

\* for i in 0..{ y += 2; 2 } { .. }
ForImpure(body) ==
    Loop("ForLoop", PBinding("i"),
         MakeLets(<<Stmt(Assign("y", Add(y, Literal(2))))>>, Literal(2)), body)

\* Loops under conditions, and in the initializer of a variable.
Enclosed ==
    {Stmt(IfThen(LocalVar("d"), Block(<<Stmt(l)>>))) : l \in Inner} \cup
    {Binding(PBinding("w"), MakeLets(<<Stmt(l)>>, y)) : l \in Inner} \cup
    {Stmt(ForImpure(b)) : b \in Bodies}

With(stmts, final) ==
    MakeLets(<<Binding(PBinding("x"), Literal(0)), Binding(PBinding("y"), Literal(1))>>
             \o stmts, final)
Body(stmts) == With(stmts, Tuple(<<x, y>>))
UnitBody(stmts) == With(stmts, App("report", <<x, y>>))

PairPrograms ==
    {Body(<<s, t>>) : s \in OutsideLoops, t \in OutsideLoops} \cup
    {Body(<<Stmt(l), s>>) : l \in Simple \cup Whiles, s \in Plain \cup IfJumps(ReturnIt)} \cup
    {Body(<<Stmt(l)>>) : l \in LoopsInLoops} \cup
    {Body(<<Stmt(l), Stmt(m)>>) : l \in Inner, m \in Inner \cup Whiles} \cup
    {Body(<<l, s>>) : l \in Enclosed, s \in {Stmt(m) : m \in Inner} \cup Plain} \cup
    {Body(<<Stmt(Forever(b))>>) : b \in Bodies}

-----------------------------------------------------------------------------
\* Unit functions

UnitOutside ==
    Plain \cup IfJumps(Return(Unit)) \cup
    { \* let z = match o { Ok(v) => v, Err(_) => return };
     Binding(PBinding("z"),
             Match(LocalVar("o"),
                   <<PConstruct("Ok", <<PBinding("v")>>), PConstruct("Err", <<PWild>>)>>,
                   <<LocalVar("v"), Return(Unit)>>))}
UnitInside == UnitOutside \cup IfJumps(Break(Unit)) \cup IfJumps(Continue)

\* A loop that assigns, and one that only jumps
UnitBodies ==
    {Block(<<s, Stmt(Assign("x", Add(x, Literal(1))))>>) : s \in UnitInside} \cup
    {Block(<<s>>) : s \in UnitInside}
UnitLoops == {ForTwice(b) : b \in UnitBodies}
UnitNested ==
    {UnitBody(<<Stmt(ForTwice(Block(<<Stmt(l), s>>)))>>) : l \in UnitLoops, s \in UnitInside}

UnitPrograms ==
    {UnitBody(<<s, t>>) : s \in UnitOutside, t \in UnitOutside} \cup
    {UnitBody(<<Stmt(l), s>>) : l \in UnitLoops, s \in UnitOutside} \cup
    {UnitBody(<<Stmt(WhileSmall(b))>>) : b \in UnitBodies} \cup
    {UnitBody(<<Stmt(l), Stmt(m)>>) : l \in UnitLoops, m \in UnitLoops} \cup
    {UnitBody(<<Stmt(IfThen(LocalVar("d"), Block(<<Stmt(l)>>))), s>>) :
       l \in UnitLoops, s \in UnitOutside} \cup
    {UnitBody(<<Binding(PBinding("w"), MakeLets(<<Stmt(l)>>, y)), s>>) :
       l \in UnitLoops, s \in UnitOutside} \cup
    UnitNested

MCPrograms == PairPrograms \cup UnitPrograms
=============================================================================
