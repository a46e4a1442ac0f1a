----------------------------- MODULE MCConstants -----------------------------
(* Constants of all kinds over types nested two deep, with small numbers.   *)
EXTENDS Constants, TLC

I2 == IntTy("Int", 2)
F2 == IntTy("Float", 2)
FnDefTy == [ty |-> "FnDef", def |-> "f"]

\* Marker {}, Wrapper(u8), enum { A, B }, enum { None, Some(i2, u8) } and
\* Phantom { unit: () }.
MCAdts == [Marker |-> <<<<>>>>, Wrapper |-> <<<<U8>>>>, Flag |-> <<<<>>, <<>>>>,
           Choice |-> <<<<>>, <<I2, U8>>>>, Phantom |-> <<<<TupleTy(<<>>)>>>>]
MCAscii == 128

Small == {I2, F2, U8, Prim("Bool"), Prim("Char")}
U8s == RefTy(FALSE, SliceTy(U8))
StrRef == RefTy(FALSE, Prim("Str"))

SmallValues(t) == CASE t.ty = "Int" -> {Num(n) : n \in -2..1}
                    [] t.ty = "Float" -> {Num(n) : n \in 0..3}
                    [] t.ty = "Uint" -> {Num(65), Num(200)}
                    [] OTHER -> {Num(0), Num(1)}

ByteLists == {<<>>, <<65>>, <<65, 200>>}
RECURSIVE Lists(_)
Lists(sets) == IF sets = <<>> THEN {<<>>}
               ELSE {<<x>> \o l : x \in Head(sets), l \in Lists(Tail(sets))}

RECURSIVE Values(_, _)
\* The values of a type; in bodies, references to something sized are pointers.
Values(t, body) ==
    LET lists(ts) == Lists([k \in DOMAIN ts |-> Values(ts[k], body)])
        pointers == IF t.to = U8 THEN {Pointer("", <<65>>, 0), Pointer("", <<65, 200>>, 1),
                                       Pointer("S", <<>>, 0), Pointer("S", <<>>, 1)}
                    ELSE {Pointer("", <<65, 200>>, 0), Pointer("", <<65, 200, 65>>, 0)}
    IN  CASE t.ty \in Scalars -> SmallValues(t)
          [] t.ty = "Tuple" -> {List(l) : l \in lists(t.tys)}
          [] t.ty = "Array" -> {List(l) : l \in lists([k \in 1 .. t.len |-> t.elem])}
          [] t.ty = "Adt" -> UNION {{Variant(i, l) : l \in lists(MCAdts[t.adt][i])}
                                       : i \in DOMAIN MCAdts[t.adt]}
          [] t.ty = "Slice" -> {Bytes(l) : l \in ByteLists}
          [] t.ty = "Str" -> {Bytes(<<>>), Bytes(<<65>>)}
          [] t.ty = "FnDef" -> {Named("f", <<>>)}
          [] t.ty = "RawPtr" -> {Address(1)} \cup (IF body THEN pointers ELSE {})
          [] t.ty = "Ref" -> IF body /\ ~IsWide(t) THEN pointers ELSE Values(t.to, body)

Flat == Small \cup {AdtTy(a) : a \in DOMAIN MCAdts} \cup {TupleTy(<<>>), FnDefTy}
Pointers == {RefTy(FALSE, U8), RefTy(TRUE, U8), RefTy(FALSE, ArrayTy(U8, 2)),
             RawPtrTy(FALSE, U8), RawPtrTy(TRUE, U8), U8s, StrRef}
Deep == {ArrayTy(I2, 2), ArrayTy(I2, 0), ArrayTy(StrRef, 1), TupleTy(<<U8>>),
         TupleTy(<<I2, StrRef>>), TupleTy(<<AdtTy("Choice"), U8s>>), TupleTy(<<TupleTy(<<>>), F2>>),
         TupleTy(<<AdtTy("Phantom"), AdtTy("Marker")>>), TupleTy(<<AdtTy("Phantom"), I2, U8>>),
         TupleTy(<<RefTy(FALSE, U8), Prim("Bool")>>), TupleTy(<<AdtTy("Flag"), I2>>)}
Types == Flat \cup Pointers \cup Deep

Uses == {"type", "pattern"}
MCConsts ==
    UNION {UNION {{[from |-> "Value", ty |-> t, value |-> v, use |-> u] : u \in Uses}
                     : v \in Values(t, FALSE)} : t \in Types}
    \cup UNION {UNION {{[from |-> "Val", ty |-> t, value |-> v, use |-> u, wide |-> w] :
                           u \in {"body", "pattern"}, w \in {"Slice", "Indirect"}}
                     : v \in Values(t, TRUE)} : t \in Types}
    \cup UNION {{[from |-> "Literal", ty |-> t, value |-> v, use |-> "expression"]
                     : v \in SmallValues(t)} : t \in Small}
    \cup {[from |-> "Unevaluated", side |-> s, item |-> i, def |-> "C", args |-> a, fails |-> f,
           ty |-> I2, value |-> Num(-1), wide |-> "Slice", use |-> u] :
             s \in {"ty", "mir"}, i \in {"anon", "inherent", "trait"}, a \in {<<>>, <<"T">>},
             f \in BOOLEAN, u \in Uses \cup {"body"}}
    \cup {[from |-> "Unevaluated", side |-> s, item |-> "top", def |-> "C", args |-> <<>>,
           fails |-> FALSE, ty |-> I2, value |-> Num(1), wide |-> "Slice", use |-> u] :
             s \in {"ty", "mir"}, u \in Uses}
    \cup {[from |-> "Unevaluated", side |-> "mir", item |-> "promoted", def |-> "P", args |-> <<>>,
           fails |-> f, ty |-> StrRef, value |-> Bytes(<<65>>), wide |-> "Slice", use |-> "body"] :
             f \in BOOLEAN}
    \cup {[from |-> "Param", name |-> "N", ty |-> Usize, use |-> u] : u \in Uses}
    \cup {[from |-> k, use |-> "type"] : k \in {"Infer", "Error", "Expr", "Bound"}}
=============================================================================
