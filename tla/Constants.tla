------------------------------ MODULE Constants ------------------------------
(***************************************************************************)
(* The constants of a program.  rustc keeps a constant as a tree of        *)
(* scalars (in types), as bytes of its interpreter (in bodies), or as the  *)
(* name of something to evaluate.  The exporter makes one kind of          *)
(* expression of the three (exporter/src/constant_utils.rs), and the       *)
(* engine makes literals, expressions and patterns of that                 *)
(* (engine/lib/import_thir.ml).                                            *)
(*                                                                         *)
(* What rustc keeps is external: ValTree and ConstValue.  A reference has  *)
(* the value of what it points to.  The bytes of a static or of memory     *)
(* are its value, a name stands for the value of what it names.            *)
(*                                                                         *)
(* A constant `c' is used in a type, a pattern, an expression or a body    *)
(* (MIR, which the engine does not read), and comes from                   *)
(*   "Literal"      an expression that rustc made up, of type c.ty         *)
(*   "Value"        the types: c.value, of type c.ty                       *)
(*   "Val"          a body: c.value, of type c.ty; a wide reference is     *)
(*                  kept as c.wide                                         *)
(*   "Unevaluated"  either (c.side), as the item c.def that is c.item:     *)
(*                  "anon", "promoted", "inherent", "trait" or "top"       *)
(*   "Param"        a parameter c.name of the item                         *)
(*   anything else  a constant that rustc could not make sense of          *)
(***************************************************************************)
EXTENDS Integers, Sequences

CONSTANTS Adts,     \* Adts[a]: the variants of a type, each the types of its fields
          Ascii,    \* a sequence of bytes is UTF-8 if all are less than this
          Consts    \* the constants: a type, what rustc keeps, and where

VARIABLES constant, \* a constant of the program
          exported, \* the ConstantExpr, once it is exported
          imported, \* the expression of the engine
          pattern,  \* the pattern of the engine, for a constant in a pattern
          stage     \* "rustc", "exported" or "imported"

vars == <<constant, exported, imported, pattern, stage>>

-----------------------------------------------------------------------------
(* Types and values *)

Prim(k) == [ty |-> k]
IntTy(k, bits) == [ty |-> k, bits |-> bits]
RefTy(m, t) == [ty |-> "Ref", mut |-> m, to |-> t]
RawPtrTy(m, t) == [ty |-> "RawPtr", mut |-> m, to |-> t]
ArrayTy(t, n) == [ty |-> "Array", elem |-> t, len |-> n]
SliceTy(t) == [ty |-> "Slice", elem |-> t]
TupleTy(ts) == [ty |-> "Tuple", tys |-> ts]
AdtTy(a) == [ty |-> "Adt", adt |-> a]
U8 == IntTy("Uint", 8)
Usize == IntTy("Uint", 64)

Num(n) == [v |-> "num", n |-> n]
List(vs) == [v |-> "list", vs |-> vs]
Bytes(bs) == List([k \in DOMAIN bs |-> Num(bs[k])])
Variant(i, vs) == [v |-> "variant", i |-> i, vs |-> vs]
Named(d, args) == [v |-> "named", def |-> d, args |-> args]
Address(n) == [v |-> "address", n |-> n]
\* A pointer into an allocation, which is a static or bytes in memory.
Pointer(static, bytes, offset) ==
    [v |-> "pointer", static |-> static, bytes |-> bytes, offset |-> offset]
Nonsense == [v |-> "nonsense"]

\* What a pointer to a t points to.
Reading(p, t) ==
    IF p.static # "" THEN [v |-> "within", def |-> p.static, offset |-> p.offset]
    ELSE IF t.ty = "Array" THEN Bytes(SubSeq(p.bytes, p.offset + 1, p.offset + t.len))
    ELSE Num(p.bytes[p.offset + 1])

-----------------------------------------------------------------------------
(* rustc *)

ToUnsigned(n, t) == n % 2 ^ t.bits
\* ScalarInt::to_int extends the sign.
ToSigned(bits, t) == IF bits < 2 ^ (t.bits - 1) THEN bits ELSE bits - 2 ^ t.bits
BitsOf(n, t) == IF t.ty \in {"Int", "Uint"} THEN ToUnsigned(n, t) ELSE n

Scalars == {"Int", "Uint", "Bool", "Char", "Float"}
IsWide(t) == t.ty = "Ref" /\ t.to.ty \in {"Str", "Slice"}

FieldTys(t, v) == CASE t.ty = "Tuple" -> t.tys
                    [] t.ty \in {"Array", "Slice"} -> [k \in DOMAIN v.vs |-> t.elem]
                    [] t.ty = "Adt" -> Adts[t.adt][v.i]
                    [] OTHER -> <<>>

Leaf(bits) == [tree |-> "Leaf", bits |-> bits]
Branch(ts, v) == [tree |-> "Branch", branches |-> ts, of |-> v]
RECURSIVE ValTree(_, _)
ValTree(v, t) ==
    CASE t.ty \in Scalars -> Leaf(BitsOf(v.n, t))
      [] t.ty = "RawPtr" -> Leaf(v.n)
      [] t.ty = "Ref" -> ValTree(v, t.to)
      [] t.ty = "Str" -> Branch([k \in DOMAIN v.vs |-> Leaf(v.vs[k].n)], v)
      [] t.ty = "FnDef" -> Branch(<<>>, v)
      [] OTHER -> Branch([k \in DOMAIN v.vs |-> ValTree(v.vs[k], FieldTys(t, v)[k])], v)

RECURSIVE IsZst(_)
IsZst(t) == CASE t.ty = "Tuple" -> \A k \in DOMAIN t.tys : IsZst(t.tys[k])
              [] t.ty = "Adt" -> /\ Len(Adts[t.adt]) = 1
                                 /\ \A k \in DOMAIN Adts[t.adt][1] : IsZst(Adts[t.adt][1][k])
              [] t.ty = "Array" -> t.len = 0 \/ IsZst(t.elem)
              [] OTHER -> t.ty = "FnDef"

\* Laid out like a scalar: also what has a single part that takes space, and
\* enums without fields.
RECURSIVE IsScalar(_)
IsScalar(t) ==
    LET single(ts) == \E k \in DOMAIN ts :
                         IsScalar(ts[k]) /\ \A l \in DOMAIN ts \ {k} : IsZst(ts[l])
    IN  CASE t.ty = "Tuple" -> single(t.tys)
          [] t.ty = "Adt" /\ Len(Adts[t.adt]) = 1 -> single(Adts[t.adt][1])
          [] t.ty = "Adt" -> \A i \in DOMAIN Adts[t.adt] : Adts[t.adt][i] = <<>>
          [] t.ty = "Ref" -> ~IsWide(t)
          [] OTHER -> t.ty \in Scalars \cup {"RawPtr"}

\* A constant in a body.  References to something sized are pointers there.
ConstValue(v, t, wide) ==
    CASE IsZst(t) -> [const |-> "ZeroSized"]
      [] t.ty \in Scalars -> [const |-> "Scalar", int |-> TRUE, bits |-> BitsOf(v.n, t)]
      [] v.v = "address" -> [const |-> "Scalar", int |-> TRUE, bits |-> v.n]
      [] v.v = "pointer" -> [const |-> "Scalar", int |-> FALSE, to |-> v]
      [] IsScalar(t) -> [const |-> "Scalar", int |-> TRUE]
      [] IsWide(t) /\ wide = "Slice" ->
            [const |-> "Slice", bytes |-> [k \in DOMAIN v.vs |-> v.vs[k].n]]
      [] OTHER -> [const |-> "Indirect", of |-> v]

\* destructure_const and try_destructure_mir_constant_for_user_output
VariantOf(v) == IF v.v = "variant" THEN v.i ELSE 1
Fields(v, t) == [k \in DOMAIN v.vs |-> [value |-> v.vs[k], ty |-> FieldTys(t, v)[k]]]

-----------------------------------------------------------------------------
(* The exporter *)

Literal(k, x, t) == [c |-> "Literal", lit |-> k, of |-> x, ty |-> t, fields |-> <<>>]
Adt(i, es, t) == [c |-> "Adt", variant |-> i, fields |-> es, ty |-> t]
Compound(k, es, t) == [c |-> k, fields |-> es, ty |-> t]
GlobalName(d, args, t) == [c |-> "GlobalName", def |-> d, args |-> args, ty |-> t, fields |-> <<>>]
TraitConst(d, args, t) == [GlobalName(d, args, t) EXCEPT !.c = "TraitConst"]
ConstRef(x, t) == [c |-> "ConstRef", name |-> x, ty |-> t, fields |-> <<>>]
FnPtr(d, t) == [c |-> "FnPtr", def |-> d, ty |-> t, fields |-> <<>>]
Memory(bs, t) == [c |-> "Memory", of |-> bs, ty |-> t, fields |-> <<>>]
Fatal == [c |-> "Fatal", fields |-> <<>>]

RECURSIVE Stops(_)
Stops(e) == e.c = "Fatal" \/ \E k \in DOMAIN e.fields : Stops(e.fields[k])

\* Bytes that are UTF-8 become a string, whatever the type is.
ByteStr(bs, t) == IF \A k \in DOMAIN bs : bs[k] < Ascii
                  THEN Literal("Str", bs, t) ELSE Literal("ByteStr", bs, t)

\* The text of a float has its sign in front.
FloatText(bits, t) == [minus |-> bits >= 2 ^ (t.bits - 1), digits |-> bits % 2 ^ (t.bits - 1)]

\* Faulty variant of ScalarIntToLiteral: signed numbers are read without extending their sign.
UnsignedLiteral(bits, t) ==
    CASE t.ty = "Float" -> Literal("Float", FloatText(bits, t), t)
      [] t.ty \in Scalars \ {"Float"} -> Literal(t.ty, bits, t)
      [] OTHER -> Fatal

ScalarIntToLiteral(bits, t) ==
    CASE t.ty = "Int" -> Literal("Int", ToSigned(bits, t), t)
      [] t.ty = "Float" -> Literal("Float", FloatText(bits, t), t)
      [] t.ty \in {"Uint", "Bool", "Char"} -> Literal(t.ty, bits, t)
      [] OTHER -> Fatal

\* The bytes of the allocation: the offset of the pointer is not looked at.
PointerContents(p, t) ==
    CASE p.static # "" -> GlobalName(p.static, <<>>, t)
      [] t.ty \in {"Array", "Slice"} /\ t.elem = U8 -> Literal("ByteStr", p.bytes, t)
      [] OTHER -> Memory(p.bytes, t)

ScalarToConstantExpr(scalar, t) ==
    CASE t.ty \in Scalars -> IF scalar.int THEN ScalarIntToLiteral(scalar.bits, t) ELSE Fatal
      [] (t.ty = "Ref" /\ ~t.mut) \/ (t.ty = "RawPtr" /\ t.mut) ->
            IF scalar.int THEN Fatal
            ELSE Compound(IF t.ty = "Ref" THEN "Borrow" ELSE "RawBorrow",
                          <<PointerContents(scalar.to, t.to)>>, t)
      [] t = TupleTy(<<>>) -> Compound("Tuple", <<>>, t)
      [] t.ty = "Adt" /\ Adts[t.adt] = <<<<>>>> -> Adt(1, <<>>, t)
      [] OTHER -> Fatal

RECURSIVE ValTreeToConstantExpr(_, _)
ValTreeToConstantExpr(tree, t) ==
    LET branch == tree.tree = "Branch"
        fields == LET fs == Fields(tree.of, t)
                  IN  [k \in DOMAIN fs |-> ValTreeToConstantExpr(ValTree(fs[k].value, fs[k].ty),
                                                                 fs[k].ty)]
    IN  CASE t.ty = "Ref" -> Compound("Borrow", <<ValTreeToConstantExpr(tree, t.to)>>, t)
          [] branch /\ t.ty = "Str" ->
                ByteStr([k \in DOMAIN tree.branches |-> tree.branches[k].bits], t)
          [] branch /\ t.ty \in {"Array", "Tuple"} -> Compound(t.ty, fields, t)
          [] branch /\ t.ty = "Adt" -> Adt(VariantOf(tree.of), fields, t)
          [] ~branch /\ t.ty = "RawPtr" ->
                Compound("Cast", <<Literal("Uint", tree.bits, Usize)>>, t)
          [] ~branch /\ t.ty # "RawPtr" -> ScalarIntToLiteral(tree.bits, t)
          [] OTHER -> Fatal

\* Faulty variant of ZeroSizedToConstantExpr: the unit value is forgotten.
AdtsAndFunctions(t) == CASE t.ty = "FnDef" -> FnPtr(t.def, t)
                         [] t.ty = "Adt" /\ Len(Adts[t.adt]) = 1 -> Adt(1, <<>>, t)
                         [] OTHER -> Fatal

ZeroSizedToConstantExpr(t) ==
    CASE t = TupleTy(<<>>) -> Compound("Tuple", <<>>, t)
      [] t.ty = "FnDef" -> FnPtr(t.def, t)
      [] t.ty = "Adt" /\ Len(Adts[t.adt]) = 1 -> Adt(1, <<>>, t)
      [] OTHER -> Fatal

RECURSIVE ConstValueToConstantExpr(_, _, _)
\* An Indirect constant.
ReferenceToConstantExpr(v, t, wide) ==
    LET fs == Fields(v, t)
        fields == [k \in DOMAIN fs |->
                     ConstValueToConstantExpr(ConstValue(fs[k].value, fs[k].ty, wide), fs[k].ty, wide)]
    IN  CASE t.ty = "Tuple" -> Compound("Tuple", fields, t)
          [] t.ty = "Adt" -> Adt(VariantOf(v), fields, t)
          [] OTHER -> Fatal
ConstValueToConstantExpr(cv, t, wide) ==
    CASE cv.const = "Scalar" -> ScalarToConstantExpr(cv, t)
      [] cv.const = "Indirect" -> ReferenceToConstantExpr(cv.of, t, wide)
      [] cv.const = "Slice" -> ByteStr(cv.bytes, t)
      [] cv.const = "ZeroSized" -> ZeroSizedToConstantExpr(t)

TyValue(c) == ValTreeToConstantExpr(ValTree(c.value, c.ty), c.ty)
MirVal(c) == ConstValueToConstantExpr(ConstValue(c.value, c.ty, c.wide), c.ty, c.wide)

EvalConstant(c) == IF c.fails THEN Fatal ELSE IF c.side = "ty" THEN TyValue(c) ELSE MirVal(c)

\* What has no name is evaluated, everything else is left as its name.
TranslateUneval(c) ==
    CASE c.item \in {"anon", "promoted"} -> EvalConstant(c)
      [] c.item = "trait" -> TraitConst(c.def, c.args, c.ty)
      [] c.item = "inherent" -> GlobalName(c.def, c.args, c.ty)
      [] c.item = "top" -> IF c.args = <<>> THEN GlobalName(c.def, <<>>, c.ty) ELSE Fatal

SInto(c) == CASE c.from = "Literal" -> ScalarIntToLiteral(BitsOf(c.value.n, c.ty), c.ty)
              [] c.from = "Value" -> TyValue(c)
              [] c.from = "Val" -> MirVal(c)
              [] c.from = "Unevaluated" -> TranslateUneval(c)
              [] c.from = "Param" -> ConstRef(c.name, c.ty)
              [] OTHER -> Fatal

-----------------------------------------------------------------------------
(* The expression that a ConstantExpr stands for, made by the exporter for *)
(* literals and by the engine for all other constants.                     *)

Magnitude(n) == IF n < 0 THEN -n ELSE n
LiteralExpr(e) ==
    LET number(n, neg) == [x |-> "Literal", lit |-> e.lit, of |-> n, neg |-> neg, ty |-> e.ty,
                           args |-> <<>>]
    IN  IF e.lit = "Int" THEN number(Magnitude(e.of), e.of < 0) ELSE number(e.of, FALSE)
RECURSIVE AsExpr(_)
AsExpr(e) ==
    LET args == [k \in DOMAIN e.fields |-> AsExpr(e.fields[k])]
    IN  CASE e.c = "Literal" -> LiteralExpr(e)
          [] e.c = "Adt" -> [x |-> "Adt", variant |-> e.variant, args |-> args]
          [] e.c = "GlobalName" -> [x |-> "GlobalName", def |-> e.def, args |-> <<>>]
          [] e.c = "ConstRef" -> [x |-> "ConstRef", name |-> e.name, args |-> <<>>]
          [] e.c \in {"Array", "Tuple", "Borrow", "RawBorrow", "Cast"} ->
                [x |-> e.c, args |-> args]
          [] OTHER -> [x |-> "Todo", args |-> <<>>]

-----------------------------------------------------------------------------
(* The engine *)

Failure == [x |-> "Failure", args |-> <<>>]
RECURSIVE Fails(_)
Fails(e) == e.x = "Failure" \/ \E k \in DOMAIN e.args : Fails(e.args[k])

MkU8(n) == [x |-> "Literal", lit |-> "Uint", of |-> n, neg |-> FALSE, ty |-> U8, args |-> <<>>]
\* The sign that is still in the text of a float is chopped off here.
CLit(e, chop) ==
    CASE e.lit = "ByteStr" -> [x |-> "Array", args |-> [k \in DOMAIN e.of |-> MkU8(e.of[k])]]
      [] e.lit \in {"Int", "Uint"} /\ e.ty.ty \notin {"Int", "Uint"} -> Failure
      [] e.lit = "Float" /\ chop -> [e EXCEPT !.of.minus = FALSE, !.neg = e.of.minus]
      [] OTHER -> e

RECURSIVE CExpr(_, _)
CExpr(e, chop) ==
    IF e.x = "Literal" THEN CLit(e, chop)
    ELSE [e EXCEPT !.args = [k \in DOMAIN e.args |-> CExpr(e.args[k], chop)]]

RECURSIVE Importable(_)
Importable(e) == /\ e.c \notin {"Cast", "RawBorrow", "TraitConst", "FnPtr", "Memory"}
                 /\ \A k \in DOMAIN e.fields : Importable(e.fields[k])
CConstantExpr(e) == IF Importable(e) THEN CExpr(AsExpr(e), TRUE) ELSE Failure

RECURSIVE PatOfExpr(_)
PatOfExpr(e) ==
    CASE e.x = "Literal" -> [e EXCEPT !.x = "PConstant"]
      [] e.x \in {"Array", "Borrow"} ->
            [x |-> IF e.x = "Array" THEN "PArray" ELSE "PDeref",
             args |-> [k \in DOMAIN e.args |-> PatOfExpr(e.args[k])]]
      [] OTHER -> Failure

-----------------------------------------------------------------------------
(* A constant on its way *)

None == [none |-> TRUE]

Init == /\ constant \in Consts
        /\ stage = "rustc"
        /\ exported = None /\ imported = None /\ pattern = None

Export == /\ stage = "rustc"
          /\ exported' = SInto(constant)
          /\ stage' = IF Stops(exported') THEN "stopped" ELSE "exported"
          /\ UNCHANGED <<constant, imported, pattern>>

\* NonHirLiterals are expressions already, everything else is a ConstantExpr.
Import == /\ stage = "exported" /\ constant.use # "body"
          /\ imported' = IF constant.from = "Literal" THEN CExpr(AsExpr(exported), FALSE)
                         ELSE CConstantExpr(exported)
          /\ stage' = IF Fails(imported') THEN "failed" ELSE "imported"
          /\ UNCHANGED <<constant, exported, pattern>>

ImportPattern == /\ stage = "imported" /\ constant.use = "pattern"
                 /\ pattern' = PatOfExpr(imported)
                 /\ stage' = IF Fails(pattern') THEN "failed" ELSE "matched"
                 /\ UNCHANGED <<constant, exported, imported>>

Next == Export \/ Import \/ ImportPattern
Spec == Init /\ [][Next]_vars

-----------------------------------------------------------------------------
(* What is kept of a constant *)

RECURSIVE Meant(_, _)
\* References and pointers are seen through.
Meant(v, t) ==
    CASE v.v = "pointer" -> Reading(v, t.to)
      [] v.v \in {"list", "variant"} /\ t.ty # "Ref" /\ t.ty # "Str" ->
            [v EXCEPT !.vs = [k \in DOMAIN v.vs |-> Meant(v.vs[k], FieldTys(t, v)[k])]]
      [] t.ty = "Ref" -> Meant(v, t.to)
      [] OTHER -> v

Value(c) == CASE c.from = "Param" -> Named(c.name, <<>>)
              [] c.from = "Unevaluated" /\ c.item \in {"trait", "inherent", "top"} ->
                    Named(c.def, c.args)
              [] OTHER -> Meant(c.value, c.ty)

FloatBits(text, neg, t) == text.digits + IF neg # text.minus THEN 2 ^ (t.bits - 1) ELSE 0
RECURSIVE Pointee(_)
Pointee(t) == IF t.ty \in {"Ref", "RawPtr"} THEN Pointee(t.to) ELSE t
LiteralMeaning(k, x, neg, t) ==
    CASE k = "Float" -> Num(FloatBits(x, neg, t))
      [] k = "Str" -> IF Pointee(t).ty = "Str" THEN Bytes(x) ELSE Nonsense
      [] k = "ByteStr" -> Bytes(x)
      [] OTHER -> Num(IF neg THEN -x ELSE x)

RECURSIVE ConstantMeaning(_)
ConstantMeaning(e) ==
    LET parts == [k \in DOMAIN e.fields |-> ConstantMeaning(e.fields[k])]
    IN  CASE e.c = "Literal" -> LiteralMeaning(e.lit, e.of, FALSE, e.ty)
          [] e.c = "Adt" -> Variant(e.variant, parts)
          [] e.c \in {"Array", "Tuple"} -> List(parts)
          [] e.c \in {"Borrow", "RawBorrow"} ->
                IF parts[1].v = "named" THEN [v |-> "within", def |-> parts[1].def, offset |-> 0]
                ELSE parts[1]
          [] e.c = "Cast" -> Address(parts[1].n)
          [] e.c = "ConstRef" -> Named(e.name, <<>>)
          [] e.c = "FnPtr" -> Named(e.def, <<>>)
          [] e.c = "Memory" -> Reading(Pointer("", e.of, 0), e.ty)
          [] OTHER -> Named(e.def, e.args)

RECURSIVE ExprMeaning(_)
ExprMeaning(e) ==
    LET parts == [k \in DOMAIN e.args |-> ExprMeaning(e.args[k])]
    IN  CASE e.x \in {"Literal", "PConstant"} -> LiteralMeaning(e.lit, e.of, e.neg, e.ty)
          [] e.x = "Adt" -> Variant(e.variant, parts)
          [] e.x \in {"Array", "PArray", "Tuple"} -> List(parts)
          [] e.x \in {"Borrow", "PDeref"} ->
                IF parts[1].v = "named" THEN [v |-> "within", def |-> parts[1].def, offset |-> 0]
                ELSE parts[1]
          [] e.x = "ConstRef" -> Named(e.name, <<>>)
          [] OTHER -> Named(e.def, <<>>)

-----------------------------------------------------------------------------
(* Properties *)

RECURSIVE Parts(_, _)
\* A constant's value and everything in it, with their types.
Parts(v, t) ==
    LET inside == IF v.v \in {"list", "variant"} /\ t.ty # "Str" THEN DOMAIN v.vs ELSE {}
    IN  {[value |-> v, ty |-> t]} \cup
        (IF t.ty = "Ref" /\ v.v # "pointer" THEN Parts(v, t.to)
         ELSE UNION {Parts(v.vs[k], FieldTys(t, v)[k]) : k \in inside})

HasValue(c) == \/ c.from \in {"Value", "Val", "Literal"}
               \/ c.from = "Unevaluated" /\ c.item \in {"anon", "promoted"}
PartsOf(c) == IF HasValue(c) THEN Parts(c.value, c.ty) ELSE {}
InBody(c) == c.from = "Val" \/ (c.from = "Unevaluated" /\ c.side = "mir")

\* What the exporter gets wrong of a part of a constant in a body: a pointer
\* into an allocation, or to the first bytes of one (only its bytes are kept);
\* byte strings that are UTF-8 (they become strings); the fields of structures
\* without size.
Misread(p, wide) ==
    \/ p.value.v = "pointer" /\ \/ p.value.offset # 0
                                \/ /\ p.value.static = "" /\ p.ty.to.ty = "Array"
                                   /\ p.ty.to.len # Len(p.value.bytes)
    \/ /\ IsWide(p.ty) /\ p.ty.to.ty = "Slice" /\ wide = "Slice"
       /\ \A k \in DOMAIN p.value.vs : p.value.vs[k].n < Ascii
    \/ p.ty.ty = "Adt" /\ IsZst(p.ty) /\ Adts[p.ty.adt][1] # <<>>
IsMisread(c) == InBody(c) /\ \E p \in PartsOf(c) : Misread(p, c.wide)

WithoutArgs(v) == IF v.v = "named" THEN [v EXCEPT !.args = <<>>] ELSE v

\* What is exported of a constant, the expression the engine imports and the
\* pattern it makes of it all stand for the constant's value: signed and
\* unsigned numbers, floats and their signs, variants, references, names.
\* The exceptions are those of Misread, and generic arguments of constants,
\* which the engine does not import.
ConstantsKeepTheirValue ==
    ~IsMisread(constant) =>
        /\ stage \in {"exported", "imported", "matched", "failed"} =>
              ConstantMeaning(exported) = Value(constant)
        /\ stage \in {"imported", "matched"} =>
              ExprMeaning(imported) = WithoutArgs(Value(constant))
        /\ stage = "matched" => ExprMeaning(pattern) = Value(constant)

\* What cannot be exported: constants rustc did not make sense of or cannot
\* evaluate, and some parts of the others.  In types these are slices and
\* functions.  In bodies: addresses, `&mut' and `*const', arrays that are not
\* behind a reference, wide references within other constants, compounds that
\* are laid out like a scalar, and tuples without size other than ().
Unexportable(p, c) ==
    IF InBody(c)
    THEN \/ p.value.v = "address" \/ p.ty.ty = "Array"
         \/ p.ty.ty = "Ref" /\ p.ty.mut
         \/ p.ty.ty = "RawPtr" /\ ~p.ty.mut
         \/ IsWide(p.ty) /\ c.wide = "Indirect"
         \/ p.ty.ty \in {"Tuple", "Adt"} /\ IsScalar(p.ty)
         \/ p.ty.ty = "Tuple" /\ IsZst(p.ty) /\ p.ty.tys # <<>>
    ELSE p.ty.ty \in {"Slice", "FnDef"}
ExportStopsOn(c) ==
    \/ c.from \in {"Infer", "Error", "Expr", "Bound"}
    \/ c.from = "Unevaluated" /\ c.item \in {"anon", "promoted"} /\ c.fails
    \/ \E p \in PartsOf(c) : Unexportable(p, c)
\* What the engine does not import: constants of traits, raw pointers,
\* functions, and memory that is not an array of bytes.
ImportFailsOn(c) ==
    \/ c.from = "Unevaluated" /\ c.item = "trait"
    \/ \E p \in PartsOf(c) :
          \/ p.ty.ty \in {"RawPtr", "FnDef"}
          \/ p.value.v = "pointer" /\ p.value.static = "" /\ p.ty.to.ty # "Array"
\* What is no pattern: names, and compounds other than arrays.
PatternFailsOn(c) == ~HasValue(c) \/ \E p \in PartsOf(c) : \/ p.ty.ty \in {"Tuple", "Adt"}
                                                           \/ p.value.v = "pointer"

\* The exporter stops, and the engine fails, on those constants only: every
\* other one, however its parts are nested, gets through.
ConstantErrorsAreExplained ==
    /\ stage = "stopped" => ExportStopsOn(constant)
    /\ stage = "failed" => \/ ImportFailsOn(constant)
                           \/ constant.use = "pattern" /\ PatternFailsOn(constant)
=============================================================================
