-------------------------------- MODULE HaxLib --------------------------------
(***************************************************************************)
(* The run-time library: refinement types, bounded integers, mathematical  *)
(* integers, propositions and assertions (hax-lib, the refinement_type     *)
(* macro and hax-bounded-integers).                                        *)
(*                                                                         *)
(* A program that calls the library is executed three ways at once: by a   *)
(* debug build, by a release build, and in its reading, which is what hax  *)
(* extracts: there a refinement type is a subset of its base type, Int is  *)
(* the integers, Prop is a formula, and an operation has a proof           *)
(* obligation.  The program is any sequence of library calls.              *)
(*                                                                         *)
(* Machine arithmetic (core) and its reading (proof-libs) are external.    *)
(***************************************************************************)
EXTENDS Integers

CONSTANTS Types,      \* refinement types: their base type, bounds, operators
          ByteRange,  \* the number of values of a byte
          BYTES,      \* the bytes of a BigInt
          Len,        \* the length of the slice that is indexed
          IntBound    \* bound: the Ints of a run

Builds == {"debug", "release"}
Executions == Builds \cup {"reading"}

Operators == {"add", "sub", "mul", "div", "rem"}

ASSUME TypesAssumption ==
    /\ \A t \in Types : /\ t.minT \in Int /\ t.maxT \in Int /\ t.minT <= 0 /\ 0 < t.maxT
                        /\ t.MIN \in t.minT..t.maxT /\ t.MAX \in t.minT..t.maxT
                        /\ t.MIN <= t.MAX /\ t.invariant_checked \in BOOLEAN
                        /\ t.ops \subseteq Operators
                        \* proof-libs divides as F* does, which is not what core
                        \* does with negative numbers
                        /\ {"div", "rem"} \cap t.ops # {} => t.minT = 0
    /\ ByteRange \in Nat \ {0, 1} /\ BYTES \in Nat \ {0} /\ Len \in Nat /\ IntBound \in Nat

VARIABLES
    type,      \* the type of x
    x,         \* a value of the refinement type, in each execution
    n,         \* a value of the base type
    int,       \* an Int
    p,         \* a Prop
    defined,   \* whether the program has an Int yet
    panic,     \* why a build stopped
    proved     \* whether the obligations hold so far, and what is assumed

vars == <<type, x, n, int, p, defined, panic, proved>>

BaseType == type.minT..type.maxT

Invariant(v) == type.MIN <= v /\ v <= type.MAX

-----------------------------------------------------------------------------
(* Machine arithmetic *)

Wrap(v) == ((v - type.minT) % (type.maxT - type.minT + 1)) + type.minT

Exact(op, a, b) == CASE op = "add" -> a + b
                     [] op = "sub" -> a - b
                     [] op = "mul" -> a * b
                     [] op = "div" -> a \div b
                     [] op = "rem" -> a % b

Returns(v) == [panic |-> "none", value |-> v]
Panics(why) == [panic |-> why, value |-> 0]

\* An operator of core: division by zero panics, and overflow does in a debug
\* build; a release build wraps.
Compute(b, op, l, r) ==
    IF op \in {"div", "rem"} /\ r = 0 THEN Panics("div_by_zero")
    ELSE IF Exact(op, l, r) \in BaseType THEN Returns(Exact(op, l, r))
    ELSE IF b = "debug" THEN Panics("overflow") ELSE Returns(Wrap(Exact(op, l, r)))

\* What it requires in proof-libs.
Requires(op, l, r) == IF op \in {"div", "rem"} THEN r # 0 ELSE Exact(op, l, r) \in BaseType

-----------------------------------------------------------------------------
(* One call, in the three executions *)

\* code[b] is what the call does in a build, obligation what the reading requires.
\* A program that is not proved is followed until its debug run ends.
Stop(code, obligation) ==
    /\ proved \/ panic["debug"] = "none"
    /\ panic' = [b \in Builds |-> IF panic[b] = "none" THEN code[b].panic ELSE panic[b]]
    /\ proved' = (proved /\ obligation)

\* The call gives a register its value; a call that panics gives none.
Assigned(reg, code, reading, obligation) ==
    [e \in Executions |->
        IF e = "reading" THEN IF proved /\ obligation THEN reading ELSE reg[e]
        ELSE IF panic[e] = "none" /\ code[e].panic = "none" THEN code[e].value ELSE reg[e]]

InBuilds(reg) == [b \in Builds |-> Returns(reg[b])]

-----------------------------------------------------------------------------
(* The Refinement, RefineAs, Zero, One and FromBytes of a refinement type *)

\* `no_debug_assert.then_some(..)`: the assertion is generated when the option
\* no_debug_runtime_check is given, and then Prop is no condition for it: the
\* type does not compile.  A type that does has no check.
RunTimeCheck(b) == FALSE

New(b, v) == IF RunTimeCheck(b) /\ ~Invariant(v) THEN Panics("invariant") ELSE Returns(v)

\* Refinement::new and into_checked: an ascription to the refinement type.
IntoChecked ==
    LET code == [b \in Builds |-> New(b, n[b])]
    IN  /\ x' = Assigned(x, code, n.reading, Invariant(n.reading))
        /\ Stop(code, Invariant(n.reading))
        /\ UNCHANGED <<type, n, int, p, defined>>

\* Zero, One and FromBytes are excluded from the extraction: nothing can be proved.
FromConstant(v) ==
    LET code == [b \in Builds |-> New(b, v)]
    IN  /\ x' = Assigned(x, code, v, FALSE)
        /\ Stop(code, FALSE)
        /\ UNCHANGED <<type, n, int, p, defined>>
Zero == FromConstant(0)
One == FromConstant(1)
FromBytes == \E v \in BaseType : FromConstant(v)

\* Refinement::get, Deref.
Get == LET code == InBuilds(x)
       IN  /\ n' = Assigned(n, code, x.reading, TRUE)
           /\ Stop(code, TRUE)
           /\ UNCHANGED <<type, x, int, p, defined>>

\* A literal, or an input.
Literal == \E v \in BaseType :
    LET code == [b \in Builds |-> Returns(v)]
    IN  /\ n' = Assigned(n, code, v, TRUE)
        /\ Stop(code, TRUE)
        /\ UNCHANGED <<type, x, int, p, defined>>

-----------------------------------------------------------------------------
(* The operators of a bounded integer *)

\* Faulty variant of BoundedOp: the operands are swapped.
SwappedOp(b, op, self, other) == Compute(b, op, other, self)

\* BoundedT<A, B> <OP> T: the operator of the base type.
BoundedOp(b, op, self, other) == Compute(b, op, self, other)

\* T <OP> BoundedT<A, B>
OpBounded(b, op, self, other) == Compute(b, op, self, other)

Operation(op, code, l, r) ==
    /\ n' = Assigned(n, code, Exact(op, l, r), Requires(op, l, r))
    /\ Stop(code, Requires(op, l, r))
    /\ UNCHANGED <<type, x, int, p, defined>>

BinOp == \E op \in type.ops :
    \/ Operation(op, [b \in Builds |-> BoundedOp(b, op, x[b], n[b])], x.reading, n.reading)
    \/ Operation(op, [b \in Builds |-> OpBounded(b, op, n[b], x[b])], n.reading, x.reading)
    \/ Operation(op, [b \in Builds |-> BoundedOp(b, op, x[b], x[b])], x.reading, x.reading)

\* WrappingAdd, WrappingSub, WrappingMul
WrappingOp == \E op \in type.ops \cap {"add", "sub", "mul"} :
    LET code == [b \in Builds |-> Returns(Wrap(Exact(op, x[b], n[b])))]
    IN  /\ n' = Assigned(n, code, Wrap(Exact(op, x.reading, n.reading)), TRUE)
        /\ Stop(code, TRUE)
        /\ UNCHANGED <<type, x, int, p, defined>>

\* CheckedAdd.. give an Option; the program keeps n when it is None.
Checked(op, l, r) == IF (op \in {"div", "rem"} => r # 0) /\ Exact(op, l, r) \in BaseType
                     THEN Exact(op, l, r) ELSE r
CheckedOp == \E op \in type.ops \ {"rem"} :
    LET code == [b \in Builds |-> Returns(Checked(op, x[b], n[b]))]
    IN  /\ n' = Assigned(n, code, Checked(op, x.reading, n.reading), TRUE)
        /\ Stop(code, TRUE)
        /\ UNCHANGED <<type, x, int, p, defined>>

Not == LET Flip(v) == type.minT + type.maxT - v
           code == [b \in Builds |-> Returns(Flip(x[b]))]
       IN  /\ n' = Assigned(n, code, Flip(x.reading), TRUE)
           /\ Stop(code, TRUE)
           /\ UNCHANGED <<type, x, int, p, defined>>

\* Faulty variant of Keeps: the reading has the base type.
KeepsBase(v) == TRUE

\* In the reading an assignment to x is a value of its type.
Keeps(v) == Invariant(v)

\* AddAssign..: through get_mut, which checks nothing.
AssignOp == \E op \in type.ops :
    LET code == [b \in Builds |-> BoundedOp(b, op, x[b], n[b])]
        value == Exact(op, x.reading, n.reading)
        obligation == Requires(op, x.reading, n.reading) /\ Keeps(value)
    IN  /\ x' = Assigned(x, code, value, obligation)
        /\ Stop(code, obligation)
        /\ UNCHANGED <<type, n, int, p, defined>>

\* Indexing a slice by a BoundedUsize.
Index == LET code == [b \in Builds |-> IF 0 <= x[b] /\ x[b] < Len THEN Returns(0)
                                       ELSE Panics("index")]
         IN  /\ Stop(code, 0 <= x.reading /\ x.reading < Len)
             /\ UNCHANGED <<type, x, n, int, p, defined>>

-----------------------------------------------------------------------------
(* Int *)

Abs(v) == IF v < 0 THEN -v ELSE v

\* At most BYTES bytes.
FitsArray(v) == Abs(v) < ByteRange^BYTES

\* BigInt::new: `try_into` makes an array of a vector of exactly its length.  The
\* bytes of zero are one zero byte.
FillsArray(v) == /\ FitsArray(v)
                 /\ Abs(v) >= ByteRange^(BYTES - 1) \/ (v = 0 /\ BYTES = 1)

BigIntNew(v) == IF FillsArray(v) THEN Returns(v) ELSE Panics("bigint")

Lift == LET code == [b \in Builds |-> BigIntNew(n[b])]
        IN  /\ int' = Assigned(int, code, n.reading, TRUE)
            /\ Stop(code, TRUE)
            /\ defined' = TRUE
            /\ UNCHANGED <<type, x, n, p>>

\* Add, Sub, Mul: of the Int and a lifted machine integer.
IntOp == /\ defined
         /\ \E op \in {"add", "sub", "mul"} :
              LET code == [b \in Builds |->
                             IF FillsArray(n[b]) THEN BigIntNew(Exact(op, int[b], n[b]))
                             ELSE Panics("bigint")]
                  value == Exact(op, int.reading, n.reading)
              IN  /\ Abs(value) <= IntBound
                  /\ int' = Assigned(int, code, value, TRUE)
                  /\ Stop(code, TRUE)
         /\ UNCHANGED <<type, x, n, p, defined>>

\* to_u8..: the debug assertion and unwrap both panic.
Concretize == /\ defined
              /\ LET code == [b \in Builds |-> IF int[b] \in BaseType THEN Returns(int[b])
                                               ELSE Panics("concretize")]
                 IN  /\ n' = Assigned(n, code, int.reading, int.reading \in BaseType)
                     /\ Stop(code, int.reading \in BaseType)
              /\ UNCHANGED <<type, x, int, p, defined>>

-----------------------------------------------------------------------------
(* Prop, and the assertions *)

Connectives == {"from_bool", "and", "or", "not", "eq", "ne", "implies"}

\* prop::constructors
Constructor(c, l, r) == CASE c = "from_bool" -> r
                          [] c = "and" -> l /\ r
                          [] c = "or" -> l \/ r
                          [] c = "not" -> ~l
                          [] c = "eq" -> l = r
                          [] c = "ne" -> l # r
                          [] c = "implies" -> l \/ ~r

\* The formulas they are read as.
Formula(c, l, r) == IF c = "implies" THEN l => r ELSE Constructor(c, l, r)

Prop == \E c \in Connectives :
    LET code == [b \in Builds |-> Returns(Constructor(c, p[b], n[b] <= x[b]))]
    IN  /\ p' = Assigned(p, code, Formula(c, p.reading, n.reading <= x.reading), TRUE)
        /\ Stop(code, TRUE)
        /\ UNCHANGED <<type, x, n, int, defined>>

\* forall and exists hold at run time.
Forall == LET code == [b \in Builds |-> Returns(TRUE)]
          IN  /\ p' = Assigned(p, code, \A v \in BaseType : v <= x.reading, TRUE)
              /\ Stop(code, TRUE)
              /\ UNCHANGED <<type, x, n, int, defined>>
Exists == LET code == [b \in Builds |-> Returns(TRUE)]
          IN  /\ p' = Assigned(p, code, \E v \in BaseType : v < x.reading, TRUE)
              /\ Stop(code, TRUE)
              /\ UNCHANGED <<type, x, n, int, defined>>

\* Faulty variant of AssertsIn: the two build modes are swapped.
AssertsInRelease(b) == b = "release"

\* proxy_macro_if_not_hax gives the macro in a debug build and nothing in a
\* release build, for `assert!` as for `debug_assert!`.
AssertsIn(b) == b = "debug"

Proxy(b, condition) == IF AssertsIn(b) /\ ~condition THEN Panics("assert") ELSE Returns(0)

\* `assert!` is an assertion of the reading too.
Assert == LET code == [b \in Builds |-> Proxy(b, n[b] <= x[b])]
          IN  /\ Stop(code, n.reading <= x.reading)
              /\ UNCHANGED <<type, x, n, int, p, defined>>

\* `debug_assert!` disappears from the reading.
DebugAssert == LET code == [b \in Builds |->
                              IF Proxy(b, n[b] <= x[b]).panic = "assert"
                              THEN Panics("debug_assert") ELSE Returns(0)]
               IN  /\ Stop(code, TRUE)
                   /\ UNCHANGED <<type, x, n, int, p, defined>>

\* `assert_prop!` and `assume!` are in the reading only.
AssertProp == /\ Stop([b \in Builds |-> Returns(0)], p.reading)
              /\ UNCHANGED <<type, x, n, int, p, defined>>

-----------------------------------------------------------------------------
Init == /\ type \in Types
        /\ x = [e \in Executions |-> type.MIN]
        /\ n = [e \in Executions |-> 0]
        /\ int = [e \in Executions |-> 0]
        /\ p = [e \in Executions |-> TRUE]
        /\ defined = FALSE
        /\ panic = [b \in Builds |-> "none"]
        /\ proved = TRUE

Next == \/ IntoChecked \/ Zero \/ One \/ FromBytes \/ Get \/ Literal
        \/ BinOp \/ WrappingOp \/ CheckedOp \/ Not \/ AssignOp \/ Index
        \/ Lift \/ IntOp \/ Concretize
        \/ Prop \/ Forall \/ Exists \/ Assert \/ DebugAssert \/ AssertProp

Spec == Init /\ [][Next]_vars

-----------------------------------------------------------------------------
(* Properties *)

Reasons == {"none", "overflow", "div_by_zero", "invariant", "index", "bigint",
            "concretize", "assert", "debug_assert"}

TypeOK ==
    /\ type \in Types
    /\ x \in [Executions -> BaseType] /\ n \in [Executions -> BaseType]
    /\ int \in [Executions -> Int]
    /\ p \in [Executions -> BOOLEAN]
    /\ defined \in BOOLEAN /\ proved \in BOOLEAN
    /\ panic \in [Builds -> Reasons]

\* A program whose obligations hold does not panic, in either build: except that
\* an Int may not fit its array, and that a debug assertion is no obligation.
ProvedIsSafe == proved => /\ panic["release"] \in {"none", "bigint"}
                          /\ panic["debug"] \in {"none", "bigint", "debug_assert"}

\* Its run computes what its reading does, as long as it runs.  (The Props may
\* differ: nothing at run time looks at one.)
ProvedIsFaithful ==
    proved => \A b \in Builds : panic[b] = "none" =>
                x[b] = x.reading /\ n[b] = n.reading /\ int[b] = int.reading

\* No check is made when a refinement type is used, but the value of a proved
\* program satisfies the invariant in both builds, assignments through get_mut
\* included.
ProvedIsInBounds == proved => \A b \in Builds : panic[b] = "none" => Invariant(x[b])

\* What a debug build computes without panicking, a release build of the same
\* program computes too: the tests of a debug build hold for a release build,
\* proved or not.
ReleaseAgrees ==
    panic["debug"] = "none" =>
        /\ panic["release"] = "none"
        /\ x["release"] = x["debug"] /\ n["release"] = n["debug"]
        /\ int["release"] = int["debug"] /\ p["release"] = p["debug"]

\* "In addition, in debug mode, the invariant is checked at run-time, unless this
\* behavior was disabled" (hax-lib/src/implementation.rs): a debug build goes
\* past into_checked with a value of the type only.
CheckedAtRunTime ==
    [][IntoChecked /\ type.invariant_checked /\ panic'["debug"] = "none"
          => Invariant(x'["debug"])]_vars

\* "Proxy to `std::assert!`" (hax-lib/src/implementation.rs), which every build
\* checks: a build goes past an assertion that holds only.
AssertIsChecked ==
    [][\A b \in Builds : Assert /\ panic'[b] = "none" => n[b] <= x[b]]_vars

\* "This operation panics when the provided [`num_bigint::BigInt`] has more than
\* [`BYTES`] bytes" (hax-lib/src/int/bigint.rs): not when it has fewer.
LiftFits ==
    [][\A b \in Builds : Lift /\ panic[b] = "none" /\ FitsArray(n[b]) => panic'[b] = "none"]_vars
=============================================================================
