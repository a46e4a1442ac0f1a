--------------------------------- MODULE Mir ---------------------------------
(***************************************************************************)
(* The MIR of a function body as the exporter copies it                    *)
(* (exporter/src/types/mir.rs) for the tools that read MIR.  Most of MIR   *)
(* is copied node by node.  Places are turned inside out: rustc has a      *)
(* local and a list of projections, the copy has nested places that each   *)
(* know their type, and a downcast goes into the field after it.  Calls    *)
(* are resolved, and the targets of switches are typed.                    *)
(*                                                                         *)
(* Locals, fields and variants are numbered from 1, blocks are entered at  *)
(* 1, and local 1 is the result.  One evaluator gives a meaning to rustc's *)
(* bodies and to the copies.  Left out: spans, scopes and names, lifetimes,*)
(* unwinding, coroutines, inline assembly, unions, casts and bounds of     *)
(* types.                                                                  *)
(*                                                                         *)
(* What a specification exports is a constant of Constants, or a body.     *)
(***************************************************************************)
EXTENDS Constants, SequencesExt

CONSTANTS Enums,     \* the types of Adts that are enums
          Functions, \* the functions: their container, and what both require
          MirBodies, \* the bodies, and what they are called with
          Steps      \* a body that runs through more blocks is taken to diverge

VARIABLES source, \* the body as rustc has it
          mir     \* its copy

mirVars == <<source, mir>>

-----------------------------------------------------------------------------
(* rustc *)

BoxTy(t) == [ty |-> "Adt", adt |-> "Box", to |-> t]
ClosureTy(ts) == [ty |-> "Closure", upvars |-> ts]
FnTy(f, generics) == [ty |-> "FnDef", def |-> f, generics |-> generics]
FnPtrTy == [ty |-> "FnPtr"]

Deref == [e |-> "Deref"]
Field(k, t) == [e |-> "Field", index |-> k, ty |-> t]
Index(l) == [e |-> "Index", local |-> l]
ConstantIndex(offset, min_length, from_end) ==
    [e |-> "ConstantIndex", offset |-> offset, min_length |-> min_length, from_end |-> from_end]
Subslice(from, to, from_end) == [e |-> "Subslice", from |-> from, to |-> to, from_end |-> from_end]
Downcast(i) == [e |-> "Downcast", variant |-> i]
OpaqueCast(t) == [e |-> "OpaqueCast", ty |-> t]
Subtype(t) == [e |-> "Subtype", ty |-> t]

Place(l, projection) == [local |-> l, projection |-> projection]
Copy(p) == [o |-> "Copy", place |-> p]
Move(p) == [o |-> "Move", place |-> p]
ConstOperand(c) == [o |-> "Constant", constant |-> c]

\* What a place is of.  A subslice of an array is a shorter array.
ElemTy(t, elem) ==
    CASE elem.e = "Deref" -> t.to
      [] elem.e \in {"Field", "OpaqueCast", "Subtype"} -> elem.ty
      [] elem.e \in {"Index", "ConstantIndex"} -> t.elem
      [] elem.e = "Subslice" /\ t.ty = "Array" -> ArrayTy(t.elem, elem.to - elem.from)
      [] OTHER -> t
PlaceTy(body, p) == FoldLeft(ElemTy, body.locals[p.local], p.projection)
OperandTy(body, op) == IF op.o = "Constant" THEN op.constant.ty ELSE PlaceTy(body, op.place)

\* The clauses of an item are about one of its generics each.
Instantiate(clauses, generics) ==
    [k \in DOMAIN clauses |-> [trait |-> clauses[k].trait, args |-> <<generics[clauses[k].param]>>]]

-----------------------------------------------------------------------------
(* Places *)

PlaceLocal(t, l) == [ty |-> t, kind |-> "Local", local |-> l]
Projection(t, p, elem) == [ty |-> t, kind |-> "Projection", place |-> p, elem |-> elem]
FatalPlace == [ty |-> Prim("none"), kind |-> "Fatal"]

FieldOf(kind, i, k) == [e |-> "Field", of |-> kind, variant |-> i, index |-> k]
NoVariant == 0

\* mk_field, for a field of a variant or of a struct.
MkField(t, k, i) ==
    CASE t.ty = "Adt" /\ (t.adt \in Enums <=> i # NoVariant) -> FieldOf("Adt", i, k)
      [] t.ty = "Tuple" -> FieldOf("Tuple", NoVariant, k)
      [] OTHER -> FatalPlace

\* One turn of the loop, for a projection by itself: the new kind and type.
ElemSInto(t, elem) ==
    CASE elem.e = "Deref" ->
            IF t.ty \in {"Ref", "RawPtr"} \/ (t.ty = "Adt" /\ t.adt = "Box")
            THEN <<elem, t.to>> ELSE <<FatalPlace, t>>
      [] elem.e = "Field" ->
            IF t.ty = "Closure"
            THEN <<FieldOf("ClosureState", NoVariant, elem.index), t.upvars[elem.index]>>
            ELSE <<MkField(t, elem.index, NoVariant), elem.ty>>
      [] elem.e \in {"Index", "ConstantIndex"} ->
            IF t.ty \in {"Slice", "Array"} THEN <<elem, t.elem>> ELSE <<FatalPlace, t>>
      \* "TODO: We assume subslice preserves the type"
      [] elem.e = "Subslice" -> <<elem, t>>
      [] elem.e = "OpaqueCast" -> <<[e |-> "OpaqueCast"], elem.ty>>
      [] OTHER -> <<FatalPlace, t>>

Grow(p, elem_ty) == IF elem_ty[1] = FatalPlace THEN FatalPlace
                    ELSE Projection(elem_ty[2], p, elem_ty[1])

RECURSIVE Project(_, _)
Project(p, elems) ==
    CASE p = FatalPlace \/ elems = <<>> -> p
      [] Len(elems) > 1 /\ elems[1].e = "Downcast" /\ elems[2].e = "Field" ->
            Project(Grow(p, <<MkField(p.ty, elems[2].index, elems[1].variant), elems[2].ty>>),
                    SubSeq(elems, 3, Len(elems)))
      [] OTHER -> Project(Grow(p, ElemSInto(p.ty, elems[1])), Tail(elems))

PlaceSInto(body, p) == Project(PlaceLocal(body.locals[p.local], p.local), p.projection)

ConstOperandSInto(c) == [o |-> "Constant", ty |-> c.ty, const |-> SInto(c)]
OperandSInto(body, op) == IF op.o = "Constant" THEN ConstOperandSInto(op.constant)
                          ELSE [op EXCEPT !.place = PlaceSInto(body, @)]
TyOf(op) == IF op.o = "Constant" THEN op.ty ELSE op.place.ty

-----------------------------------------------------------------------------
(* Calls *)

\* Faulty variant of FunctionOf: what the impl block requires is forgotten.
OwnClauses(f, generics) ==
    [def |-> f, trait_info |-> <<>>, generics |-> generics,
     trait_refs |-> Instantiate(Functions[f].requires, generics)]

\* get_function_from_def_id_and_generics: of a method of a trait, the trait
\* reference has the generics of the trait, and the rest is the method's own;
\* what an impl block requires comes before what its method does.
FunctionOf(f, generics) ==
    LET fn == Functions[f]
        own == Instantiate(fn.requires, generics)
    IN  CASE fn.container = "trait" ->
                [def |-> f,
                 trait_info |-> <<[trait |-> fn.of, args |-> SubSeq(generics, 1, fn.params)]>>,
                 generics |-> SubSeq(generics, fn.params + 1, Len(generics)),
                 trait_refs |-> own]
          [] fn.container = "impl" ->
                [def |-> f, trait_info |-> <<>>, generics |-> generics,
                 trait_refs |-> Instantiate(fn.container_requires,
                                            SubSeq(generics, 1, fn.params)) \o own]
          [] OTHER -> [def |-> f, trait_info |-> <<>>, generics |-> generics, trait_refs |-> own]

Static(call) == [fun |-> "Static", of |-> call]
DynamicMove(p) == [fun |-> "DynamicMove", place |-> p]
FatalFun == [fun |-> "Fatal"]

FunOperand(body, func) ==
    LET t == OperandTy(body, func)
    IN  CASE t.ty = "FnDef" -> Static(FunctionOf(t.def, t.generics))
          [] t.ty \in {"FnPtr", "Closure"} /\ func.o = "Move" ->
                DynamicMove(PlaceSInto(body, func.place))
          [] OTHER -> FatalFun

-----------------------------------------------------------------------------
(* Switches *)

\* The bits that rustc compares, to be read with the type of the scrutinee.
ScalarInt(bits, t) == [data |-> bits, int_ty |-> t]
SwitchIf(if_block, else_block) == [targets |-> "If", blocks |-> <<if_block, else_block>>]
SwitchInt(map, otherwise) == [targets |-> "SwitchInt", map |-> map, otherwise |-> otherwise]
FatalSwitch == [targets |-> "Fatal"]

\* Faulty variant of TranslateSwitchTargets: unsigned numbers are forgotten.
SignedSwitchTargets(t, targets) ==
    CASE t.ty = "Bool" -> SwitchIf(targets.otherwise, targets.map[1][2])
      [] t.ty = "Int" ->
            SwitchInt([k \in DOMAIN targets.map |->
                          <<ScalarInt(targets.map[k][1], t), targets.map[k][2]>>],
                      targets.otherwise)
      [] OTHER -> FatalSwitch

\* rustc tests a bool for 0, which is the `else' block.
TranslateSwitchTargets(t, targets) ==
    CASE t.ty = "Bool" ->
            IF Len(targets.map) = 1 /\ targets.map[1][1] = 0
            THEN SwitchIf(targets.otherwise, targets.map[1][2]) ELSE FatalSwitch
      [] t.ty \in {"Int", "Uint"} ->
            SwitchInt([k \in DOMAIN targets.map |->
                          <<ScalarInt(targets.map[k][1], t), targets.map[k][2]>>],
                      targets.otherwise)
      [] OTHER -> FatalSwitch

-----------------------------------------------------------------------------
(* Statements and terminators, blocks and bodies *)

\* The unchecked operators are merged into the others.
Merged == [AddUnchecked |-> "Add", SubUnchecked |-> "Sub", MulUnchecked |-> "Mul",
           ShlUnchecked |-> "Shl", ShrUnchecked |-> "Shr"]
BinOpSInto(op) == IF op \in DOMAIN Merged THEN Merged[op] ELSE op

OperandsSInto(body, ops) == [k \in DOMAIN ops |-> OperandSInto(body, ops[k])]
RvalueSInto(body, r) ==
    CASE r.r \in {"Use", "UnaryOp", "Aggregate"} -> [r EXCEPT !.args = OperandsSInto(body, @)]
      [] r.r = "Repeat" -> [r EXCEPT !.args = OperandsSInto(body, @), !.count = SInto(@)]
      [] r.r = "BinaryOp" -> [r EXCEPT !.op = BinOpSInto(@), !.args = OperandsSInto(body, @)]
      [] OTHER -> [r EXCEPT !.place = PlaceSInto(body, @)]

StatementSInto(body, s) ==
    CASE s.s = "Assign" -> [s EXCEPT !.place = PlaceSInto(body, @), !.rvalue = RvalueSInto(body, @)]
      [] s.s = "SetDiscriminant" -> [s EXCEPT !.place = PlaceSInto(body, @)]
      [] OTHER -> s

TerminatorSInto(body, t) ==
    CASE t.t = "SwitchInt" ->
            [t EXCEPT !.discr = OperandSInto(body, @),
                      !.targets = TranslateSwitchTargets(TyOf(OperandSInto(body, t.discr)), @)]
      [] t.t = "Call" ->
            [t EXCEPT !.func = FunOperand(body, @), !.args = OperandsSInto(body, @),
                      !.place = PlaceSInto(body, @)]
      [] t.t = "Drop" -> [t EXCEPT !.place = PlaceSInto(body, @)]
      [] t.t = "Assert" -> [t EXCEPT !.cond = OperandSInto(body, @)]
      [] OTHER -> t

BlockSInto(body, b) == [statements |-> [k \in DOMAIN b.statements |->
                                           StatementSInto(body, b.statements[k])],
                        terminator |-> TerminatorSInto(body, b.terminator)]
BodySInto(body) == [body EXCEPT !.blocks = [k \in DOMAIN @ |-> BlockSInto(body, @[k])]]

-----------------------------------------------------------------------------
(* What stops the exporter *)

OperandsOf(node) == {node[f] : f \in DOMAIN node \cap {"discr", "cond"}}
                    \cup UNION {ToSet(node[f]) : f \in DOMAIN node \cap {"args"}}
\* The nodes of a body that have operands and places.
NodesOf(body) ==
    LET statements == UNION {ToSet(b.statements) : b \in ToSet(body.blocks)}
    IN  statements \cup {s.rvalue : s \in {s \in statements : s.s = "Assign"}}
        \cup {b.terminator : b \in ToSet(body.blocks)}
CallsOf(body) == {t \in {b.terminator : b \in ToSet(body.blocks)} : t.t = "Call"}
\* What is called by its value: of other functions the type is enough.
PointersCalled(body) == {f \in {t.func : t \in CallsOf(body)} : /\ f.o = "Move"
                                                          /\ OperandTy(body, f).ty # "FnDef"}
Operands(body) == PointersCalled(body) \cup UNION {OperandsOf(node) : node \in NodesOf(body)}
Places(body) == {n.place : n \in {n \in NodesOf(body) \cup Operands(body) : "place" \in DOMAIN n}}
ConstantsOf(body) == {op.constant : op \in {op \in Operands(body) : op.o = "Constant"}}
                     \cup {n.count : n \in {n \in NodesOf(body) : "count" \in DOMAIN n}}

MirStops(body) ==
    \/ \E p \in Places(body) : PlaceSInto(body, p) = FatalPlace
    \/ \E c \in ConstantsOf(body) : Stops(SInto(c))
    \/ \E t \in CallsOf(body) : FunOperand(body, t.func) = FatalFun
    \/ \E b \in ToSet(body.blocks) :
          /\ b.terminator.t = "SwitchInt"
          /\ FatalSwitch = TranslateSwitchTargets(OperandTy(body, b.terminator.discr),
                                                  b.terminator.targets)

-----------------------------------------------------------------------------
(* The export of a constant, or of a body *)

NoConstant == [from |-> "nowhere"]

MirInit ==
    \/ Init /\ source = None /\ mir = None
    \/ /\ source \in {b.body : b \in MirBodies} /\ mir = None
       /\ constant = NoConstant /\ stage = "body"
       /\ exported = None /\ imported = None /\ pattern = None

ExportMir == /\ source # None /\ mir = None
             /\ mir' = IF MirStops(source) THEN Fatal ELSE BodySInto(source)
             /\ UNCHANGED <<source, vars>>

MirNext == (Next /\ UNCHANGED mirVars) \/ ExportMir
MirSpec == MirInit /\ [][MirNext]_<<vars, mirVars>>

-----------------------------------------------------------------------------
(* Memory: a value for each local.  A path goes into the value of a local. *)
(* References and boxes are paths; a reference in a constant is the value  *)
(* it refers to.  What a caller has, and the heap, is in further locals.   *)

Uninit == [v |-> "uninit"]
RefTo(path) == [v |-> "ref", at |-> path]
Path(l, steps) == [local |-> l, steps |-> steps]
BadPath == Path(0, <<>>)

Part(k) == [from |-> k - 1, slice |-> FALSE]
SliceOf(from, len) == [from |-> from, slice |-> TRUE, len |-> len]

\* A part of a slice is a part of what it is a slice of.
Enter(path, step) ==
    LET last == Last(path.steps)
    IN  IF path.steps # <<>> /\ last.slice
        THEN Path(path.local, Append(Front(path.steps), [step EXCEPT !.from = @ + last.from]))
        ELSE Path(path.local, Append(path.steps, step))

Inside(v, step) ==
    CASE v.v \notin {"list", "variant"} -> Nonsense
      [] step.slice -> List(SubSeq(v.vs, step.from + 1, step.from + step.len))
      [] step.from + 1 \in DOMAIN v.vs -> v.vs[step.from + 1]
      [] OTHER -> Nonsense
Read(mem, path) == IF path = BadPath THEN Nonsense
                   ELSE FoldLeft(Inside, mem[path.local], path.steps)

RECURSIVE Replace(_, _, _)
Replace(v, steps, new) ==
    IF steps = <<>> THEN new
    ELSE [v EXCEPT !.vs[steps[1].from + 1] = Replace(@, Tail(steps), new)]
Write(mem, path, new) == [mem EXCEPT ![path.local] = Replace(@, path.steps, new)]

RECURSIVE HasTy(_, _, _)
HasTy(mem, v, t) ==
    LET all(ts) == Len(v.vs) = Len(ts) /\ \A k \in DOMAIN ts : HasTy(mem, v.vs[k], ts[k])
    IN  CASE v.v \in {"uninit", "named", "within", "address"} -> TRUE
          [] v.v = "ref" -> /\ t.ty \in {"Ref", "RawPtr"} \/ (t.ty = "Adt" /\ t.adt = "Box")
                            /\ HasTy(mem, Read(mem, v.at), t.to)
          [] t.ty = "Ref" -> HasTy(mem, v, t.to)
          [] v.v = "num" -> t.ty \in Scalars
          [] v.v = "variant" -> t.ty = "Adt" /\ t.adt # "Box" /\ all(Adts[t.adt][v.i])
          [] v.v = "list" ->
                CASE t.ty = "Tuple" -> all(t.tys)
                  [] t.ty = "Closure" -> all(t.upvars)
                  [] t.ty = "Array" -> all([k \in 1..t.len |-> t.elem])
                  [] OTHER -> t.ty \in {"Slice", "Str", "Coroutine"}
          [] OTHER -> FALSE

-----------------------------------------------------------------------------
(* The meaning of places and operands, of rustc's and of the copies *)

\* Where a projection leads to from a path to the value v.
StepFrom(mem, path, v, elem) ==
    LET of(i) == v.v = "variant" /\ v.i = i
        size == IF v.v = "list" THEN Len(v.vs) ELSE 0
        entered(step) == IF v.v \in {"list", "variant"} THEN Enter(path, step) ELSE BadPath
    IN  CASE elem.e = "Deref" -> IF v.v = "ref" THEN v.at ELSE path
          [] elem.e = "Downcast" -> IF of(elem.variant) THEN path ELSE BadPath
          [] elem.e = "Field" /\ "of" \notin DOMAIN elem -> entered(Part(elem.index))
          [] elem.e = "Field" ->
                IF elem.of # "Adt" \/ of(IF elem.variant = NoVariant THEN 1 ELSE elem.variant)
                THEN entered(Part(elem.index)) ELSE BadPath
          [] elem.e = "Index" -> entered(Part(mem[elem.local].n + 1))
          [] elem.e = "ConstantIndex" ->
                entered(Part(IF elem.from_end THEN size - elem.offset + 1 ELSE elem.offset + 1))
          [] elem.e = "Subslice" ->
                entered(SliceOf(elem.from, (IF elem.from_end THEN size - elem.to ELSE elem.to)
                                           - elem.from))
          [] OTHER -> path
Step(mem, path, elem) == StepFrom(mem, path, Read(mem, path), elem)

RustcPath(mem, p) ==
    FoldLeft(LAMBDA path, elem : Step(mem, path, elem), Path(p.local, <<>>), p.projection)

\* What is at each of the nested places has the type that is noted there.
Typed(mem, path, t) == IF HasTy(mem, Read(mem, path), t) THEN path ELSE BadPath
RECURSIVE Levels(_)
Levels(p) == IF p.kind = "Local" THEN <<p>> ELSE Append(Levels(p.place), p)
CopiedPath(mem, p) ==
    FoldLeft(LAMBDA path, q : Typed(mem, IF q.kind = "Local" THEN Path(q.local, <<>>)
                                         ELSE Step(mem, path, q.elem), q.ty),
             BadPath, Levels(p))
PathOf(mem, p) == IF "projection" \in DOMAIN p THEN RustcPath(mem, p) ELSE CopiedPath(mem, p)

OfConst(c) == IF "from" \in DOMAIN c THEN Value(c) ELSE ConstantMeaning(c)
ValueOf(mem, op) ==
    CASE op.o # "Constant" -> Read(mem, PathOf(mem, op.place))
      [] "const" \in DOMAIN op -> OfConst(op.const)
      [] OTHER -> OfConst(op.constant)
TypeOf(body, op) == IF "constant" \in DOMAIN op THEN op.constant.ty
                    ELSE IF op.o # "Constant" /\ "projection" \in DOMAIN op.place
                    THEN PlaceTy(body, op.place) ELSE TyOf(op)

\* What is moved is no longer there.
Moved(mem, ops) == FoldLeft(LAMBDA m, op : IF op.o = "Move"
                                           THEN Write(m, PathOf(mem, op.place), Uninit) ELSE m,
                            mem, ops)

-----------------------------------------------------------------------------
(* The meaning of bodies *)

Wrapped(n, t) == IF t.ty = "Int" THEN ToSigned(ToUnsigned(n, t), t) ELSE ToUnsigned(n, t)
Truth(b) == Num(IF b THEN 1 ELSE 0)
\* Overflow wraps, unless it is checked for or must not happen.
Computed(op, x, y, t) ==
    LET exact == CASE op \in {"Add", "AddUnchecked", "AddWithOverflow"} -> x + y
                   [] op \in {"Sub", "SubUnchecked", "SubWithOverflow"} -> x - y
                   [] OTHER -> x * y
        wrapped == Num(Wrapped(exact, t))
    IN  CASE op = "Eq" -> Truth(x = y)
          [] op = "Lt" -> Truth(x < y)
          [] op \in {"AddUnchecked", "SubUnchecked", "MulUnchecked"} ->
                IF wrapped = Num(exact) THEN wrapped ELSE Nonsense
          [] op \in {"AddWithOverflow", "SubWithOverflow", "MulWithOverflow"} ->
                List(<<wrapped, Truth(wrapped # Num(exact))>>)
          [] OTHER -> wrapped

Reference(r, at, v) ==
    CASE v = Nonsense -> v
      [] r.r \in {"Ref", "RawPtr"} -> RefTo(at)
      [] r.r = "CopyForDeref" -> v
      [] r.r = "Len" -> IF v.v = "list" THEN Num(Len(v.vs)) ELSE Nonsense
      [] r.r = "Discriminant" -> IF v.v = "variant" THEN Num(v.i - 1) ELSE Nonsense
Operation(body, r, vs) ==
    CASE \E k \in DOMAIN vs : vs[k] \in {Nonsense, Uninit} -> Nonsense
      [] r.r = "Use" -> vs[1]
      [] r.r = "Repeat" -> List([k \in 1 .. OfConst(r.count).n |-> vs[1]])
      [] r.r = "UnaryOp" -> IF r.op = "Not" THEN Num(1 - vs[1].n)
                            ELSE Num(Wrapped(-vs[1].n, TypeOf(body, r.args[1])))
      [] r.r = "BinaryOp" -> Computed(r.op, vs[1].n, vs[2].n, TypeOf(body, r.args[1]))
      [] r.r = "Aggregate" -> IF r.kind = "Adt" THEN Variant(r.variant, vs) ELSE List(vs)
ValuesOf(mem, ops) == [k \in DOMAIN ops |-> ValueOf(mem, ops[k])]
RvalueOf(body, mem, r) ==
    IF "args" \in DOMAIN r THEN Operation(body, r, ValuesOf(mem, r.args))
    ELSE LET of(at) == Reference(r, at, Read(mem, at)) IN of(PathOf(mem, r.place))

\* A running body: its block, its memory, what it called and dropped.
Running(block, mem, trace) == [end |-> "", block |-> block, mem |-> mem, trace |-> trace]
Stopped(how, mem, trace) == [Running(0, mem, trace) EXCEPT !.end = how]
Undefined == Stopped("undefined", <<>>, <<>>)

\* A statement changes the memory, which is <<>> once that makes no sense.
Stored(mem, at, new) == IF Nonsense \in {new, Read(mem, at)} THEN <<>> ELSE Write(mem, at, new)
OfVariant(v, i) == IF v.v = "variant" THEN [v EXCEPT !.i = i] ELSE Nonsense
Done(body, mem, s) ==
    CASE mem = <<>> \/ s.s = "Nop" -> mem
      [] s.s = "StorageDead" -> [mem EXCEPT ![s.local] = Uninit]
      [] s.s = "SetDiscriminant" ->
            LET set(at) == Stored(mem, at, OfVariant(Read(mem, at), s.variant))
            IN  set(PathOf(mem, s.place))
      [] s.s = "Assign" ->
            Stored(IF "args" \in DOMAIN s.rvalue THEN Moved(mem, s.rvalue.args) ELSE mem,
                   PathOf(mem, s.place), RvalueOf(body, mem, s.rvalue))

\* Which block a switch goes to.
Target(targets, n, ty) ==
    LET meant(x) == IF x.int_ty.ty = "Int" THEN ToSigned(x.data, x.int_ty) ELSE x.data
        match == {k \in DOMAIN targets.map :
                     IF "targets" \in DOMAIN targets THEN meant(targets.map[k][1]) = n
                     ELSE targets.map[k][1] = BitsOf(n, ty)}
    IN  CASE "blocks" \in DOMAIN targets -> IF n = 1 THEN targets.blocks[1] ELSE targets.blocks[2]
          [] "map" \in DOMAIN targets ->
                IF match = {} THEN targets.otherwise ELSE targets.map[CHOOSE k \in match : TRUE][2]

\* The function that a type names, with its generics and, for each clause of
\* the trait or impl block it is in and for each of its own, what proves it.
NamedFunction(f, generics) ==
    LET fn == Functions[f]
        outer == SubSeq(generics, 1, fn.params)
        of_container == CASE fn.container = "trait" -> <<[trait |-> fn.of, args |-> outer]>>
                          [] fn.container = "impl" -> Instantiate(fn.container_requires, outer)
                          [] OTHER -> <<>>
    IN  [def |-> f, generics |-> generics,
         proofs |-> of_container \o Instantiate(fn.requires, generics)]
StaticFunction(call) ==
    [def |-> call.def,
     generics |-> (IF call.trait_info = <<>> THEN <<>> ELSE call.trait_info[1].args)
                  \o call.generics,
     proofs |-> call.trait_info \o call.trait_refs]

Callee(body, mem, func) ==
    CASE "fun" \in DOMAIN func /\ func.fun = "Static" -> StaticFunction(func.of)
      [] "fun" \in DOMAIN func -> ValueOf(mem, Move(func.place))
      [] TypeOf(body, func).ty = "FnDef" ->
            NamedFunction(TypeOf(body, func).def, TypeOf(body, func).generics)
      [] OTHER -> ValueOf(mem, func)

Switched(body, mem, trace, t, v) ==
    IF v.v = "num" THEN Running(Target(t.targets, v.n, TypeOf(body, t.discr)), mem, trace)
    ELSE Undefined
Dropped(mem, trace, t, at) ==
    IF at = BadPath THEN Undefined
    ELSE Running(t.target, Write(mem, at, Uninit), Append(trace, [drops |-> Read(mem, at)]))
Called(mem, trace, t, at, callee) ==
    IF at = BadPath \/ "def" \notin DOMAIN callee THEN Undefined
    ELSE Running(t.target, Write(Moved(mem, t.args), at, Functions[callee.def].gives),
                 Append(trace, [calls |-> callee, args |-> ValuesOf(mem, t.args)]))
Ended(body, mem, trace, t) ==
    CASE t.t \in {"Goto", "FalseEdge"} -> Running(t.target, mem, trace)
      [] t.t = "SwitchInt" -> Switched(body, mem, trace, t, ValueOf(mem, t.discr))
      [] t.t = "Assert" ->
            IF ValueOf(mem, t.cond) = Truth(t.expected) THEN Running(t.target, mem, trace)
            ELSE Stopped("panicked", mem, trace)
      [] t.t = "Drop" -> Dropped(mem, trace, t, PathOf(mem, t.place))
      [] t.t = "Call" -> Called(mem, trace, t, PathOf(mem, t.place), Callee(body, mem, t.func))
      [] t.t = "Return" -> Stopped("returned", mem, trace)
      [] OTHER -> Undefined

After(body, mem, trace, t) == IF mem = <<>> THEN Undefined ELSE Ended(body, mem, trace, t)
RunBlock(body, r, block) ==
    After(body, FoldLeft(LAMBDA m, s : Done(body, m, s), r.mem, block.statements), r.trace,
          block.terminator)
RECURSIVE Run(_, _, _)
Run(body, r, fuel) ==
    CASE r.end # "" -> r
      [] r.end = "" /\ fuel = 0 -> Stopped("diverged", r.mem, r.trace)
      [] OTHER -> Run(body, RunBlock(body, r, body.blocks[r.block]), fuel - 1)
Runs(body, mem) == Run(body, Running(1, mem, <<>>), Steps)

-----------------------------------------------------------------------------
(* Properties *)

\* The projections of a place, each with the type of what it is applied to.
Projections(body, p) ==
    {[on |-> PlaceTy(body, Place(p.local, SubSeq(p.projection, 1, k - 1))),
      elem |-> p.projection[k],
      next |-> IF k = Len(p.projection) THEN "" ELSE p.projection[k + 1].e]
        : k \in DOMAIN p.projection}
AllProjections(body) == UNION {Projections(body, p) : p \in Places(body)}

\* Whatever it is called with, the copy of a body does what the body does: it
\* goes through the same places, takes the same branches, computes the same,
\* and calls the same functions with the same generics and proofs of all that
\* they require.  The places in between have the types noted for them, but for
\* subslices of arrays.
BodyKeepsItsMeaning ==
    /\ source # None /\ mir \notin {None, Fatal}
    /\ ~\E x \in AllProjections(source) : x.elem.e = "Subslice" /\ x.on.ty = "Array"
    /\ ~\E c \in ConstantsOf(source) : IsMisread(c)
    => \A b \in MirBodies : b.body = source =>
          \A mem \in b.calls : Runs(source, mem) \in {Undefined, Runs(mir, mem)}

\* A body is not exported only if it has a variant that is not entered, a
\* change to a subtype, a field of something that is no Adt, tuple or closure,
\* a constant that cannot be exported, a switch on a character, or a call of a
\* function pointer that is a constant or that is not moved.
BodyStopsAreExplained ==
    source # None /\ mir = Fatal =>
        \/ \E x \in AllProjections(source) :
              \/ x.elem.e = "Downcast" /\ x.next # "Field"
              \/ x.elem.e = "Subtype"
              \/ x.elem.e = "Field" /\ x.on.ty \notin {"Adt", "Tuple", "Closure"}
        \/ \E c \in ConstantsOf(source) : ExportStopsOn(c)
        \/ \E b \in ToSet(source.blocks) : /\ b.terminator.t = "SwitchInt"
                                           /\ OperandTy(source, b.terminator.discr).ty = "Char"
        \/ \E t \in CallsOf(source) : /\ OperandTy(source, t.func).ty # "FnDef"
                                      /\ t.func.o # "Move"
=============================================================================
