-------------------------------- MODULE MCMir --------------------------------
(* Bodies that read, write and take references to all places up to three    *)
(* projections deep, and bodies with the other rvalues, branches and calls. *)
EXTENDS Mir, MCConstants

MCEnums == {"Flag", "Choice"}
MCSteps == 12

\* fn f<T: Copy>, trait Visit<T> { fn visit<U: Clone> } and
\* impl<T: Ord> Map<T> { fn insert<U: Clone> }
MCFunctions ==
    LET fn == [container |-> "none", of |-> "", params |-> 0, container_requires |-> <<>>,
               requires |-> <<[trait |-> "Copy", param |-> 1]>>, gives |-> Num(7)]
    IN  [f |-> fn,
         visit |-> [fn EXCEPT !.container = "trait", !.of = "Visit", !.params = 2,
                              !.requires = <<[trait |-> "Clone", param |-> 3]>>],
         insert |-> [fn EXCEPT !.container = "impl", !.params = 1,
                               !.container_requires = <<[trait |-> "Ord", param |-> 1]>>,
                               !.requires = <<[trait |-> "Clone", param |-> 2]>>]]

Bool == Prim("Bool")
Coroutine == Prim("Coroutine")
U8Array == ArrayTy(U8, 3)

\* The locals of all bodies, but for the result.  The last two are the heap
\* and the caller's.
Locals(t) == <<t, TupleTy(<<AdtTy("Choice"), AdtTy("Wrapper")>>), U8Array, RefTy(TRUE, SliceTy(U8)),
               BoxTy(AdtTy("Choice")), ClosureTy(<<RawPtrTy(TRUE, U8), I2>>), U8, Coroutine,
               Bool, Prim("Char"), FnPtrTy, TupleTy(<<U8, Bool>>),
               AdtTy("Choice"), U8Array>>
L(l) == Place(l, <<>>)
Some2 == Variant(2, <<Num(-1), Num(9)>>)
Memories(choices, numbers) ==
    {<<Uninit, List(<<c, Variant(1, <<Num(4)>>)>>), Bytes(<<1, 2, 255>>),
       RefTo(Path(14, <<SliceOf(0, 3)>>)), RefTo(Path(13, <<>>)),
       List(<<RefTo(Path(14, <<Part(2)>>)), Num(-2)>>), Num(n), List(<<Num(5)>>),
       Num(n % 2), Num(n), Named("f", <<>>), Uninit, Some2, Bytes(<<6, 7, 8>>)>>
        : c \in choices, n \in numbers}
MostMemories == Memories({Variant(1, <<>>), Some2}, {0, 1, 3})

-----------------------------------------------------------------------------
(* Places *)

\* What can follow a place of type t.
Following(t) ==
    CASE t.ty \in {"Ref", "RawPtr"} -> {<<Deref>>}
      [] t.ty = "Adt" /\ t.adt = "Box" -> {<<Deref>>}
      [] t.ty = "Adt" /\ t.adt \in MCEnums ->
            {<<Downcast(i)>> : i \in DOMAIN MCAdts[t.adt]}
            \cup UNION {{<<Downcast(i), Field(k, MCAdts[t.adt][i][k])>>
                            : k \in DOMAIN MCAdts[t.adt][i]} : i \in DOMAIN MCAdts[t.adt]}
      [] t.ty = "Adt" -> {<<Field(k, MCAdts[t.adt][1][k])>> : k \in DOMAIN MCAdts[t.adt][1]}
      [] t.ty = "Tuple" -> {<<Field(k, t.tys[k])>> : k \in DOMAIN t.tys}
      [] t.ty = "Closure" -> {<<Field(k, t.upvars[k])>> : k \in DOMAIN t.upvars}
      [] t.ty = "Coroutine" -> {<<Field(1, U8)>>}
      [] t.ty = "Array" -> {<<Index(7)>>, <<ConstantIndex(1, 2, FALSE)>>}
                           \cup (IF t.len > 1 THEN {<<Subslice(1, t.len, FALSE)>>} ELSE {})
      [] t.ty = "Slice" -> {<<Index(7)>>, <<ConstantIndex(1, 2, FALSE)>>,
                            <<ConstantIndex(2, 2, TRUE)>>, <<Subslice(1, 0, TRUE)>>}
      [] t.ty = "Int" -> {<<OpaqueCast(I2)>>, <<Subtype(I2)>>}
      [] OTHER -> {}

RECURSIVE Deeper(_, _)
Deeper(p, depth) ==
    {p} \cup (IF depth = 0 THEN {}
              ELSE UNION {Deeper(Place(p.local, p.projection \o elems), depth - 1)
                             : elems \in Following(PlaceTy([locals |-> Locals(U8)], p))})
MCPlaces == UNION {Deeper(L(l), 3) : l \in 2..8}

Block(statements, terminator) == [statements |-> statements, terminator |-> terminator]
Return == [t |-> "Return"]
Goto(b) == [t |-> "Goto", target |-> b]
Assign(p, r) == [s |-> "Assign", place |-> p, rvalue |-> r]
Use(op) == [r |-> "Use", args |-> <<op>>]
Of(r, p) == [r |-> r, place |-> p]
Const(t, v) == ConstOperand([from |-> "Val", ty |-> t, value |-> v, use |-> "body", wide |-> "Slice"])

Straight(t, statements) == [locals |-> Locals(t), blocks |-> <<Block(statements, Return)>>]
PlaceBodies ==
    LET type(p) == PlaceTy([locals |-> Locals(U8)], p)
        reads(p) == IF type(p).ty = "Slice" THEN {Straight(RefTy(TRUE, type(p)),
                                                           <<Assign(L(1), Of("Ref", p))>>)}
                    ELSE {Straight(type(p), <<Assign(L(1), Use(Copy(p)))>>)}
        others(p) ==
            CASE type(p).ty \in {"Slice", "Array"} -> {Straight(U8, <<Assign(L(1), Of("Len", p))>>)}
              [] type(p) = AdtTy("Choice") ->
                    {Straight(I2, <<Assign(L(1), Of("Discriminant", p))>>),
                     Straight(U8, <<[s |-> "SetDiscriminant", place |-> p, variant |-> 1]>>)}
              [] type(p) = U8 ->
                    {Straight(U8, <<Assign(p, Use(Const(U8, Num(40)))), Assign(L(1), Use(Move(p)))>>),
                     Straight(RawPtrTy(TRUE, U8), <<Assign(L(1), Of("RawPtr", p))>>)}
              [] OTHER -> {Straight(RefTy(TRUE, type(p)), <<Assign(L(1), Of("Ref", p))>>)}
    IN  UNION {reads(p) \cup others(p) : p \in MCPlaces}

-----------------------------------------------------------------------------
(* The other bodies *)

Binary(op, x, y) == [r |-> "BinaryOp", op |-> op, args |-> <<x, y>>]
Switch(discr, map, otherwise) ==
    [t |-> "SwitchInt", discr |-> discr, targets |-> [map |-> map, otherwise |-> otherwise]]
Sets(n) == Block(<<Assign(L(1), Use(Const(U8, Num(n))))>>, Return)
SwitchBodies ==
    {[locals |-> Locals(U8), blocks |-> <<Block(<<>>, s), Sets(1), Sets(2), Sets(3)>>] :
        s \in {Switch(Copy(L(9)), <<<<0, 2>>>>, 3),
               Switch(Copy(L(7)), <<<<0, 2>>, <<3, 3>>>>, 4),
               Switch(Copy(L(10)), <<<<0, 2>>>>, 3),
               Switch(Copy(Place(6, <<Field(2, I2)>>)), <<<<1, 3>>, <<2, 2>>>>, 4)}}
    \cup {[locals |-> Locals(I2),
           blocks |-> <<Block(<<Assign(L(1), Of("Discriminant", Place(2, <<Field(1, AdtTy("Choice"))>>)))>>,
                              Switch(Move(L(1)), <<<<0, 2>>, <<1, 3>>>>, 4)),
                        Block(<<>>, [t |-> "FalseEdge", target |-> 3, imaginary_target |-> 4]),
                        Block(<<Assign(L(1), Use(Const(I2, Num(-2))))>>, Return),
                        Block(<<>>, [t |-> "Unreachable"])>>]}

\* x[i] and x + y with their checks, and a loop.
CheckedBodies ==
    {[locals |-> Locals(U8),
      blocks |-> <<Block(<<Assign(L(12), Use(Const(TupleTy(<<>>), List(<<>>)))),
                           Assign(L(1), Of("Len", L(3))),
                           Assign(L(9), Binary("Lt", Copy(L(7)), Copy(L(1))))>>,
                         [t |-> "Assert", cond |-> Move(L(9)), expected |-> TRUE, target |-> 2]),
                   Block(<<Assign(L(1), Use(Copy(Place(3, <<Index(7)>>))))>>, Return)>>],
     [locals |-> Locals(U8),
      blocks |-> <<Block(<<Assign(L(12), Binary("AddWithOverflow", Copy(L(7)),
                                                Copy(Place(3, <<ConstantIndex(2, 3, FALSE)>>))))>>,
                         [t |-> "Assert", cond |-> Copy(Place(12, <<Field(2, Bool)>>)),
                          expected |-> FALSE, target |-> 2]),
                   Block(<<Assign(L(1), Use(Move(Place(12, <<Field(1, U8)>>))))>>, Return)>>],
     [locals |-> Locals(U8),
      blocks |-> <<Block(<<Assign(L(1), Use(Const(U8, Num(0))))>>, Goto(2)),
                   Block(<<Assign(L(1), Binary("Add", Copy(L(1)), Const(U8, Num(2)))),
                           Assign(L(9), Binary("Eq", Copy(L(1)), Copy(L(7))))>>,
                         Switch(Move(L(9)), <<<<0, 2>>>>, 3)),
                   Block(<<>>, Return)>>]}

Arithmetic ==
    {Straight(U8, <<Assign(L(1), Binary(op, Copy(L(7)), Const(U8, Num(254))))>>)
        : op \in {"Add", "AddUnchecked", "Sub", "SubUnchecked", "Mul", "MulUnchecked"}}
    \cup {Straight(I2, <<Assign(L(1), [r |-> "UnaryOp", op |-> "Neg",
                                       args |-> <<Copy(Place(6, <<Field(2, I2)>>))>>])>>),
          Straight(Bool, <<Assign(L(1), [r |-> "UnaryOp", op |-> "Not", args |-> <<Copy(L(9))>>])>>)}

Constructing(kind, variant, ops) ==
    Assign(L(1), [r |-> "Aggregate", kind |-> kind, variant |-> variant, args |-> ops])
Aggregates ==
    {Straight(AdtTy("Choice"), <<Constructing("Adt", 2, <<Const(I2, Num(-1)), Move(L(7))>>)>>),
     Straight(AdtTy("Choice"), <<Constructing("Adt", 1, <<>>)>>),
     Straight(TupleTy(<<U8Array, U8>>), <<Constructing("Tuple", 1, <<Move(L(3)), Copy(L(7))>>),
                                          [s |-> "StorageDead", local |-> 3], [s |-> "Nop"],
                                          Assign(L(7), Use(Copy(Place(1, <<Field(1, U8Array), Index(7)>>))))>>),
     Straight(ArrayTy(U8, 2), <<Assign(L(1), [r |-> "Repeat", args |-> <<Copy(L(7))>>,
                 count |-> [from |-> "Value", ty |-> U8, value |-> Num(2), use |-> "body"]])>>),
     Straight(AdtTy("Wrapper"), <<Assign(L(1), Of("CopyForDeref", Place(2, <<Field(2, AdtTy("Wrapper"))>>)))>>)}

ConstantBodies ==
    {Straight(x[1], <<Assign(L(1), Use(Const(x[1], x[2])))>>) :
        x \in {<<StrRef, Bytes(<<65>>)>>, <<I2, Num(-1)>>, <<F2, Num(2)>>, <<Bool, Num(1)>>,
               <<TupleTy(<<I2, U8>>), List(<<Num(-1), Num(3)>>)>>, <<AdtTy("Choice"), Some2>>,
               <<U8s, Bytes(<<65>>)>>, <<RawPtrTy(TRUE, U8), Address(1)>>, <<U8Array, Bytes(<<1, 2, 3>>)>>}}

Calls(func) ==
    [locals |-> Locals(U8),
     blocks |-> <<Block(<<>>, [t |-> "Call", func |-> func, args |-> <<Copy(L(7)), Move(L(3))>>,
                               place |-> Place(5, <<Deref, Downcast(2), Field(2, U8)>>), target |-> 2]),
                  Block(<<>>, [t |-> "Drop", place |-> Place(5, <<Deref>>), target |-> 3]),
                  Block(<<>>, Return)>>]
CallBodies ==
    {Calls(Const(FnTy(f, <<"A", "B", "C">>), Named(f, <<>>))) : f \in DOMAIN MCFunctions}
    \cup {Calls(Move(L(11))), Calls(Copy(L(11))), Calls(Const(FnPtrTy, Named("f", <<>>)))}

OtherBodies == SwitchBodies \cup CheckedBodies \cup Arithmetic \cup Aggregates
               \cup ConstantBodies \cup CallBodies
MCBodies == {[body |-> b, calls |-> MostMemories] : b \in PlaceBodies \cup OtherBodies}
=============================================================================
