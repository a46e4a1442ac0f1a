---------------------------- MODULE HaxLib_proofs ----------------------------
(* Proofs about HaxLib, for every refinement type and every width.           *)
EXTENDS HaxLib, TLAPS

\* What a refinement type is.
LEMMA TypeFacts ==
    ASSUME type \in Types
    PROVE  /\ type.minT \in Int /\ type.maxT \in Int /\ type.minT <= 0 /\ 0 < type.maxT
           /\ type.MIN \in BaseType /\ type.MAX \in BaseType /\ type.MIN <= type.MAX
           /\ \A op \in type.ops : op \in {"div", "rem"} => type.minT = 0
  BY TypesAssumption DEF BaseType

\* Machine arithmetic stays in the base type.
LEMMA WrapType == ASSUME type \in Types, NEW v \in Int PROVE Wrap(v) \in BaseType
  <1> DEFINE m == type.maxT - type.minT + 1
  <1>1. type.minT \in Int /\ type.maxT \in Int /\ m \in Int /\ m > 0
    BY TypeFacts
  <1>2. (v - type.minT) % m \in 0..(m - 1)
    BY <1>1
  <1> QED
    BY <1>1, <1>2 DEF Wrap, BaseType

\* The arithmetic of integers gives integers; a quotient and a remainder stay in
\* the base type, which is unsigned then.
LEMMA ExactType ==
    ASSUME type \in Types, NEW op \in type.ops, NEW l \in BaseType, NEW r \in BaseType,
           op \in {"div", "rem"} => r # 0
    PROVE  /\ Exact(op, l, r) \in Int
           /\ op \in {"div", "rem"} => Exact(op, l, r) \in BaseType
  <1>1. /\ l \in Int /\ r \in Int /\ l <= type.maxT /\ type.minT <= l
        /\ r <= type.maxT /\ type.minT <= r
    BY TypeFacts DEF BaseType
  <1>2. CASE op \in {"div", "rem"}
    <2>1. type.minT = 0 /\ type.maxT \in Int
      BY <1>2, TypeFacts
    <2>2. l \in Nat /\ r \in Nat \ {0}
      BY <1>1, <1>2, <2>1
    <2>3. l \div r \in Int /\ 0 <= l \div r /\ l \div r <= l
      BY <2>2
    <2>4. l % r \in Int /\ 0 <= l % r /\ l % r < r
      BY <2>2
    <2> QED
      BY <1>1, <1>2, <2>1, <2>3, <2>4 DEF Exact, BaseType
  <1>3. CASE op \notin {"div", "rem"}
    <2>1. op \in {"add", "sub", "mul"}
      BY <1>3, TypesAssumption DEF Operators
    <2> QED
      BY <1>1, <1>3, <2>1 DEF Exact
  <1> QED
    BY <1>2, <1>3

-----------------------------------------------------------------------------
(* The inductive invariant, and what a call does to it *)

Allowed(b) == {"none", "bigint"} \cup (IF b = "debug" THEN {"debug_assert"} ELSE {})

Safe == proved => \A b \in Builds : panic[b] \in Allowed(b)

IInv == TypeOK /\ Safe /\ ProvedIsFaithful /\ ReleaseAgrees

\* What a call must do: its results have their type, a proved one does what its
\* reading does and panics only where it may, and a release build does what a
\* debug build that does not panic does.
Typed(code, S) == \A b \in Builds :
    /\ code[b].panic \in Reasons
    /\ panic[b] = "none" /\ code[b].panic = "none" => code[b].value \in S
Allows(code, obligation) ==
    proved /\ obligation => \A b \in Builds : panic[b] = "none" => code[b].panic \in Allowed(b)
Reads(code, reading, obligation) ==
    proved /\ obligation => \A b \in Builds :
        panic[b] = "none" /\ code[b].panic = "none" => code[b].value = reading
Agrees(code) ==
    panic["debug"] = "none" /\ code["debug"].panic = "none" =>
        code["release"].panic = "none" /\ code["release"].value = code["debug"].value

Good(code, reading, obligation, S) ==
    /\ obligation \in BOOLEAN
    /\ proved /\ obligation => reading \in S
    /\ Typed(code, S) /\ Allows(code, obligation) /\ Agrees(code)

\* The control of a call: what is proved after it was proved before it, and a
\* build that runs after it ran before it and did not panic in it.
LEMMA StopFacts ==
    ASSUME IInv, NEW code, NEW obligation \in BOOLEAN, NEW S, Stop(code, obligation),
           Typed(code, S), Allows(code, obligation), Agrees(code)
    PROVE  /\ panic' \in [Builds -> Reasons] /\ proved' \in BOOLEAN
           /\ proved' => proved /\ obligation
           /\ \A b \in Builds : panic'[b] = "none" => panic[b] = "none" /\ code[b].panic = "none"
           /\ Safe'
           /\ panic'["debug"] = "none" => panic'["release"] = "none"
  BY DEF IInv, TypeOK, Safe, Stop, Typed, Allows, Agrees, ReleaseAgrees, Builds, Reasons, Allowed

\* The register that is assigned.
LEMMA AssignedFacts ==
    ASSUME IInv, NEW code, NEW obligation, NEW reading, NEW S, Stop(code, obligation),
           Good(code, reading, obligation, S),
           NEW reg, reg \in [Executions -> S],
           panic["debug"] = "none" => reg["release"] = reg["debug"],
           NEW reg2, reg2 = Assigned(reg, code, reading, obligation)
    PROVE  /\ reg2 \in [Executions -> S]
           /\ panic'["debug"] = "none" => reg2["release"] = reg2["debug"]
           /\ Reads(code, reading, obligation)
                /\ (proved => \A b \in Builds : panic[b] = "none" => reg[b] = reg.reading)
              => (proved' => \A b \in Builds : panic'[b] = "none" => reg2[b] = reg2.reading)
  <1>1. obligation \in BOOLEAN /\ proved \in BOOLEAN
    BY DEF Good, IInv, TypeOK
  <1>2. reg2 \in [Executions -> S]
    BY <1>1 DEF Good, Typed, Assigned, Executions, Builds
  <1>3. /\ proved' => proved /\ obligation
        /\ \A b \in Builds : panic'[b] = "none" => panic[b] = "none" /\ code[b].panic = "none"
        /\ panic'["debug"] = "none" => panic'["release"] = "none"
    BY StopFacts DEF Good
  <1>4. panic'["debug"] = "none" => reg2["release"] = reg2["debug"]
    BY <1>3 DEF Good, Agrees, Assigned, Executions, Builds
  <1>5. ASSUME Reads(code, reading, obligation),
               proved => \A b \in Builds : panic[b] = "none" => reg[b] = reg.reading
        PROVE  proved' => \A b \in Builds : panic'[b] = "none" => reg2[b] = reg2.reading
    BY <1>3, <1>5 DEF Reads, Assigned, Executions, Builds
  <1> QED
    BY <1>2, <1>4, <1>5

\* A call that assigns x, n, int, p, or nothing.
LEMMA SetsX ==
    ASSUME IInv, NEW code, NEW reading, NEW obligation, Good(code, reading, obligation, BaseType),
           Reads(code, reading, obligation), x' = Assigned(x, code, reading, obligation),
           Stop(code, obligation), UNCHANGED <<type, n, int, p, defined>>
    PROVE  IInv'
  <1>1. /\ x' \in [Executions -> BaseType]
        /\ panic'["debug"] = "none" => x'["release"] = x'["debug"]
        /\ proved' => \A b \in Builds : panic'[b] = "none" => x'[b] = x'.reading
    BY AssignedFacts DEF IInv, TypeOK, ReleaseAgrees, ProvedIsFaithful
  <1>2. /\ panic' \in [Builds -> Reasons] /\ proved' \in BOOLEAN /\ Safe'
        /\ proved' => proved
        /\ \A b \in Builds : panic'[b] = "none" => panic[b] = "none"
        /\ panic'["debug"] = "none" => panic'["release"] = "none"
    BY StopFacts DEF Good
  <1> QED
    BY <1>1, <1>2 DEF IInv, TypeOK, ReleaseAgrees, ProvedIsFaithful, BaseType, Builds

LEMMA SetsN ==
    ASSUME IInv, NEW code, NEW reading, NEW obligation, Good(code, reading, obligation, BaseType),
           Reads(code, reading, obligation), n' = Assigned(n, code, reading, obligation),
           Stop(code, obligation), UNCHANGED <<type, x, int, p, defined>>
    PROVE  IInv'
  <1>1. /\ n' \in [Executions -> BaseType]
        /\ panic'["debug"] = "none" => n'["release"] = n'["debug"]
        /\ proved' => \A b \in Builds : panic'[b] = "none" => n'[b] = n'.reading
    BY AssignedFacts DEF IInv, TypeOK, ReleaseAgrees, ProvedIsFaithful
  <1>2. /\ panic' \in [Builds -> Reasons] /\ proved' \in BOOLEAN /\ Safe'
        /\ proved' => proved
        /\ \A b \in Builds : panic'[b] = "none" => panic[b] = "none"
        /\ panic'["debug"] = "none" => panic'["release"] = "none"
    BY StopFacts DEF Good
  <1> QED
    BY <1>1, <1>2 DEF IInv, TypeOK, ReleaseAgrees, ProvedIsFaithful, BaseType, Builds

LEMMA SetsInt ==
    ASSUME IInv, NEW code, NEW reading, NEW obligation, Good(code, reading, obligation, Int),
           Reads(code, reading, obligation), int' = Assigned(int, code, reading, obligation),
           Stop(code, obligation), UNCHANGED <<type, x, n, p>>, defined' \in BOOLEAN
    PROVE  IInv'
  <1>1. /\ int' \in [Executions -> Int]
        /\ panic'["debug"] = "none" => int'["release"] = int'["debug"]
        /\ proved' => \A b \in Builds : panic'[b] = "none" => int'[b] = int'.reading
    BY AssignedFacts DEF IInv, TypeOK, ReleaseAgrees, ProvedIsFaithful
  <1>2. /\ panic' \in [Builds -> Reasons] /\ proved' \in BOOLEAN /\ Safe'
        /\ proved' => proved
        /\ \A b \in Builds : panic'[b] = "none" => panic[b] = "none"
        /\ panic'["debug"] = "none" => panic'["release"] = "none"
    BY StopFacts DEF Good
  <1> QED
    BY <1>1, <1>2 DEF IInv, TypeOK, ReleaseAgrees, ProvedIsFaithful, BaseType, Builds

\* What a Prop is read as may differ from what it is.
LEMMA SetsP ==
    ASSUME IInv, NEW code, NEW reading, NEW obligation, Good(code, reading, obligation, BOOLEAN),
           p' = Assigned(p, code, reading, obligation),
           Stop(code, obligation), UNCHANGED <<type, x, n, int, defined>>
    PROVE  IInv'
  <1>1. /\ p' \in [Executions -> BOOLEAN]
        /\ panic'["debug"] = "none" => p'["release"] = p'["debug"]
    BY AssignedFacts DEF IInv, TypeOK, ReleaseAgrees
  <1>2. /\ panic' \in [Builds -> Reasons] /\ proved' \in BOOLEAN /\ Safe'
        /\ proved' => proved
        /\ \A b \in Builds : panic'[b] = "none" => panic[b] = "none"
        /\ panic'["debug"] = "none" => panic'["release"] = "none"
    BY StopFacts DEF Good
  <1> QED
    BY <1>1, <1>2 DEF IInv, TypeOK, ReleaseAgrees, ProvedIsFaithful, BaseType, Builds

LEMMA SetsNothing ==
    ASSUME IInv, NEW code, NEW obligation \in BOOLEAN, Typed(code, Int), Allows(code, obligation),
           Agrees(code), Stop(code, obligation), UNCHANGED <<type, x, n, int, p, defined>>
    PROVE  IInv'
  <1>1. /\ panic' \in [Builds -> Reasons] /\ proved' \in BOOLEAN /\ Safe'
        /\ proved' => proved
        /\ \A b \in Builds : panic'[b] = "none" => panic[b] = "none"
        /\ panic'["debug"] = "none" => panic'["release"] = "none"
    BY StopFacts
  <1> QED
    BY <1>1 DEF IInv, TypeOK, ReleaseAgrees, ProvedIsFaithful, BaseType, Builds

\* An operator of core, in a build where its operands are those of the reading.
LEMMA ComputeFacts ==
    ASSUME type \in Types, NEW op \in type.ops, NEW b \in Builds,
           NEW l \in BaseType, NEW r \in BaseType
    PROVE  /\ Compute(b, op, l, r).panic \in {"none", "overflow", "div_by_zero"}
           /\ Compute(b, op, l, r).panic = "none" => Compute(b, op, l, r).value \in BaseType
           /\ Requires(op, l, r) \in BOOLEAN
           /\ Requires(op, l, r) =>
                /\ Exact(op, l, r) \in BaseType
                /\ Compute(b, op, l, r) = Returns(Exact(op, l, r))
           /\ Compute("debug", op, l, r).panic = "none" =>
                Compute("release", op, l, r) = Compute("debug", op, l, r)
  <1>1. (op \in {"div", "rem"} => r # 0) => /\ Exact(op, l, r) \in Int
                                           /\ (op \in {"div", "rem"} => Exact(op, l, r) \in BaseType)
    BY ExactType
  <1>2. Exact(op, l, r) \in Int => Wrap(Exact(op, l, r)) \in BaseType
    BY WrapType
  <1>3. CASE op \in {"div", "rem"} /\ r = 0
    BY <1>3 DEF Compute, Requires, Panics
  <1>4. CASE ~(op \in {"div", "rem"} /\ r = 0) /\ Exact(op, l, r) \in BaseType
    BY <1>4 DEF Compute, Requires, Returns
  <1>5. CASE ~(op \in {"div", "rem"} /\ r = 0) /\ Exact(op, l, r) \notin BaseType
    <2>0. /\ Exact(op, l, r) \in Int
          /\ ~(op \in {"div", "rem"})
      <3>1. op \in {"div", "rem"} => r # 0
        BY <1>5
      <3>2. Exact(op, l, r) \in Int /\ (op \in {"div", "rem"} => Exact(op, l, r) \in BaseType)
        BY <3>1, ExactType
      <3> QED
        BY <1>5, <3>2
    <2>1. Wrap(Exact(op, l, r)) \in BaseType /\ ~(op \in {"div", "rem"})
      BY <1>2, <2>0
    <2>2. Compute(b, op, l, r) = IF b = "debug" THEN Panics("overflow")
                                 ELSE Returns(Wrap(Exact(op, l, r)))
      BY <1>5, <2>1 DEF Compute
    <2>3. Compute("debug", op, l, r) = Panics("overflow")
      BY <1>5, <2>1 DEF Compute
    <2>4. ~Requires(op, l, r) /\ Requires(op, l, r) \in BOOLEAN
      BY <1>5, <2>1 DEF Requires
    <2>5. Compute("debug", op, l, r).panic # "none"
      BY <2>3 DEF Panics
    <2>6. CASE b = "debug"
      BY <2>2, <2>4, <2>5, <2>6 DEF Panics
    <2>7. CASE b # "debug"
      BY <2>1, <2>2, <2>4, <2>5, <2>7 DEF Returns
    <2> QED
      BY <2>6, <2>7
  <1> QED
    BY <1>3, <1>4, <1>5

\* What the invariant says of the registers.
LEMMA Registers ==
    ASSUME IInv
    PROVE  /\ type \in Types /\ proved \in BOOLEAN
           /\ \A e \in Executions : x[e] \in BaseType /\ n[e] \in BaseType /\ int[e] \in Int
                                    /\ p[e] \in BOOLEAN
           /\ x.reading \in BaseType /\ n.reading \in BaseType /\ int.reading \in Int
           /\ p.reading \in BOOLEAN
           /\ \A b \in Builds : /\ x[b] \in BaseType /\ n[b] \in BaseType /\ int[b] \in Int
                                /\ p[b] \in BOOLEAN
           /\ "debug" \in Builds /\ "release" \in Builds
           /\ proved => \A b \in Builds : panic[b] = "none" =>
                 x[b] = x.reading /\ n[b] = n.reading /\ int[b] = int.reading
           /\ panic["debug"] = "none" =>
                 /\ x["release"] = x["debug"] /\ n["release"] = n["debug"]
                 /\ int["release"] = int["debug"] /\ p["release"] = p["debug"]
  BY DEF IInv, TypeOK, ProvedIsFaithful, ReleaseAgrees, Executions, Builds

\* A call that cannot panic is good when its results are.
LEMMA ReturnsGood ==
    ASSUME IInv, NEW val, NEW code, code = [b \in Builds |-> Returns(val[b])],
           NEW S, \A b \in Builds : val[b] \in S,
           panic["debug"] = "none" => val["release"] = val["debug"],
           NEW reading, NEW obligation \in BOOLEAN, reading \in S
    PROVE  /\ Good(code, reading, obligation, S)
           /\ (proved => \A b \in Builds : panic[b] = "none" => val[b] = reading)
                => Reads(code, reading, obligation)
  BY DEF Good, Reads, Typed, Allows, Agrees, Returns, Builds, Reasons, Allowed

-----------------------------------------------------------------------------
(* Each call *)

LEMMA InitIInv == Init => IInv
  <1> SUFFICES ASSUME Init PROVE IInv
    OBVIOUS
  <1>1. type.MIN \in BaseType /\ 0 \in BaseType
    BY TypeFacts DEF Init, BaseType
  <1>2. TypeOK
    <2>1. /\ x \in [Executions -> BaseType] /\ n \in [Executions -> BaseType]
          /\ int \in [Executions -> Int]
      BY <1>1 DEF Init
    <2>2. /\ p \in [Executions -> BOOLEAN] /\ panic \in [Builds -> Reasons]
          /\ type \in Types /\ defined \in BOOLEAN /\ proved \in BOOLEAN
      BY DEF Init, Reasons
    <2> QED
      BY <2>1, <2>2 DEF TypeOK
  <1>3. Safe
    BY DEF Init, Safe, Allowed
  <1>4. ProvedIsFaithful /\ ReleaseAgrees
    BY DEF Init, ProvedIsFaithful, ReleaseAgrees, Executions, Builds
  <1> QED
    BY <1>2, <1>3, <1>4 DEF IInv

LEMMA IntoCheckedStep == IInv /\ IntoChecked => IInv'
  <1> SUFFICES ASSUME IInv, IntoChecked PROVE IInv'
    OBVIOUS
  <1> DEFINE code == [b \in Builds |-> New(b, n[b])]
  <1>1. code = [b \in Builds |-> Returns(n[b])]
    BY DEF New, RunTimeCheck
  <1>2. Invariant(n.reading) \in BOOLEAN
    BY DEF Invariant
  <1>3. Good(code, n.reading, Invariant(n.reading), BaseType)
        /\ Reads(code, n.reading, Invariant(n.reading))
    BY <1>1, <1>2, Registers, ReturnsGood
  <1> QED
    BY <1>3, SetsX DEF IntoChecked

LEMMA FromConstantStep ==
    ASSUME NEW v \in BaseType PROVE IInv /\ FromConstant(v) => IInv'
  <1> SUFFICES ASSUME IInv, FromConstant(v) PROVE IInv'
    OBVIOUS
  <1> DEFINE code == [b \in Builds |-> New(b, v)]
             val == [b \in Builds |-> v]
  <1>1. code = [b \in Builds |-> Returns(val[b])] /\ val["debug"] = v /\ val["release"] = v
        /\ \A b \in Builds : val[b] = v
    BY DEF New, RunTimeCheck, Builds
  <1>2. Good(code, v, FALSE, BaseType) /\ Reads(code, v, FALSE)
    <2> HIDE DEF code, val
    <2> QED BY <1>1, Registers, ReturnsGood
  <1> QED
    BY <1>2, SetsX DEF FromConstant

LEMMA GetStep == IInv /\ Get => IInv'
  <1> SUFFICES ASSUME IInv, Get PROVE IInv'
    OBVIOUS
  <1>1. Good(InBuilds(x), x.reading, TRUE, BaseType) /\ Reads(InBuilds(x), x.reading, TRUE)
    BY Registers, ReturnsGood DEF InBuilds
  <1> QED
    BY <1>1, SetsN DEF Get

LEMMA LiteralStep == IInv /\ Literal => IInv'
  <1> SUFFICES ASSUME IInv, Literal PROVE IInv'
    OBVIOUS
  <1>1. PICK v \in BaseType :
          LET code == [b \in Builds |-> Returns(v)]
          IN  /\ n' = Assigned(n, code, v, TRUE)
              /\ Stop(code, TRUE)
              /\ UNCHANGED <<type, x, int, p, defined>>
    BY DEF Literal
  <1> DEFINE code == [b \in Builds |-> Returns(v)]
             val == [b \in Builds |-> v]
  <1>2. code = [b \in Builds |-> Returns(val[b])] /\ val["debug"] = v /\ val["release"] = v
        /\ \A b \in Builds : val[b] = v
    BY DEF Builds
  <1>3. Good(code, v, TRUE, BaseType) /\ Reads(code, v, TRUE)
    <2> HIDE DEF code, val
    <2> QED BY <1>2, Registers, ReturnsGood
  <1> QED
    BY <1>1, <1>3, SetsN

\* An operator of core applied to values that are those of the reading when they
\* must be.
LEMMA ComputeGood ==
    ASSUME IInv, NEW op \in type.ops, NEW l, NEW r,
           \A b \in Builds : l[b] \in BaseType /\ r[b] \in BaseType,
           panic["debug"] = "none" => l["release"] = l["debug"] /\ r["release"] = r["debug"],
           l.reading \in BaseType, r.reading \in BaseType,
           proved => \A b \in Builds : panic[b] = "none" => l[b] = l.reading /\ r[b] = r.reading,
           NEW code, code = [b \in Builds |-> Compute(b, op, l[b], r[b])],
           NEW obligation \in BOOLEAN, obligation => Requires(op, l.reading, r.reading)
    PROVE  /\ Good(code, Exact(op, l.reading, r.reading), obligation, BaseType)
           /\ Reads(code, Exact(op, l.reading, r.reading), obligation)
  <1>1. type \in Types /\ "debug" \in Builds /\ "release" \in Builds
    BY Registers
  <1>2. \A b \in Builds : /\ code[b] = Compute(b, op, l[b], r[b])
                          /\ code[b].panic \in {"none", "overflow", "div_by_zero"}
                          /\ code[b].panic = "none" => code[b].value \in BaseType
    BY <1>1, ComputeFacts
  <1>3. Typed(code, BaseType)
    BY <1>2 DEF Typed, Reasons
  <1>4. obligation => Exact(op, l.reading, r.reading) \in BaseType
    BY <1>1, ComputeFacts
  <1>5. proved /\ obligation => \A b \in Builds : panic[b] = "none" =>
            code[b] = Returns(Exact(op, l.reading, r.reading))
    BY <1>1, <1>2, ComputeFacts
  <1>6. Allows(code, obligation) /\ Reads(code, Exact(op, l.reading, r.reading), obligation)
    BY <1>5 DEF Allows, Reads, Allowed, Returns
  <1>7. Agrees(code)
    <2> SUFFICES ASSUME panic["debug"] = "none", code["debug"].panic = "none"
                 PROVE  code["release"] = code["debug"]
      BY DEF Agrees
    <2>1. /\ code["release"] = Compute("release", op, l["debug"], r["debug"])
          /\ code["debug"] = Compute("debug", op, l["debug"], r["debug"])
      BY <1>1
    <2>2. l["debug"] \in BaseType /\ r["debug"] \in BaseType
      BY <1>1
    <2> QED
      BY <1>1, <2>1, <2>2, ComputeFacts
  <1> QED
    BY <1>3, <1>4, <1>6, <1>7 DEF Good

LEMMA RequiresType ==
    ASSUME NEW op, NEW l, NEW r PROVE Requires(op, l, r) \in BOOLEAN
  <1>1. CASE op \in {"div", "rem"}
    BY <1>1 DEF Requires
  <1>2. CASE op \notin {"div", "rem"}
    BY <1>2 DEF Requires
  <1> QED
    BY <1>1, <1>2

LEMMA OperationStep ==
    ASSUME IInv, NEW op \in type.ops, NEW l, NEW r, l \in {x, n}, r \in {x, n},
           NEW code, code = [b \in Builds |-> Compute(b, op, l[b], r[b])],
           Operation(op, code, l.reading, r.reading)
    PROVE  IInv'
  <1>1. Requires(op, l.reading, r.reading) \in BOOLEAN
    BY RequiresType
  <1>2. /\ Good(code, Exact(op, l.reading, r.reading), Requires(op, l.reading, r.reading), BaseType)
        /\ Reads(code, Exact(op, l.reading, r.reading), Requires(op, l.reading, r.reading))
    <2>1. /\ \A b \in Builds : l[b] \in BaseType /\ r[b] \in BaseType
          /\ panic["debug"] = "none" => l["release"] = l["debug"] /\ r["release"] = r["debug"]
          /\ l.reading \in BaseType /\ r.reading \in BaseType
          /\ proved => \A b \in Builds : panic[b] = "none" =>
                            l[b] = l.reading /\ r[b] = r.reading
      BY Registers
    <2> QED
      BY <1>1, <2>1, ComputeGood
  <1> QED
    BY <1>2, SetsN DEF Operation

LEMMA BinOpStep == IInv /\ BinOp => IInv'
  <1> SUFFICES ASSUME IInv, BinOp PROVE IInv'
    OBVIOUS
  <1>1. PICK op \in type.ops :
          \/ Operation(op, [b \in Builds |-> Compute(b, op, x[b], n[b])], x.reading, n.reading)
          \/ Operation(op, [b \in Builds |-> Compute(b, op, n[b], x[b])], n.reading, x.reading)
          \/ Operation(op, [b \in Builds |-> Compute(b, op, x[b], x[b])], x.reading, x.reading)
    BY DEF BinOp, BoundedOp, OpBounded
  <1> QED
    BY <1>1, OperationStep

LEMMA AssignOpStep == IInv /\ AssignOp => IInv'
  <1> SUFFICES ASSUME IInv, AssignOp PROVE IInv'
    OBVIOUS
  <1> DEFINE Code(op) == [b \in Builds |-> Compute(b, op, x[b], n[b])]
             Value(op) == Exact(op, x.reading, n.reading)
             Obligation(op) == Requires(op, x.reading, n.reading) /\ Keeps(Value(op))
  <1>1. PICK op \in type.ops :
          /\ x' = Assigned(x, Code(op), Value(op), Obligation(op))
          /\ Stop(Code(op), Obligation(op))
          /\ UNCHANGED <<type, n, int, p, defined>>
    BY DEF AssignOp, BoundedOp
  <1>2. Obligation(op) \in BOOLEAN /\ (Obligation(op) => Requires(op, x.reading, n.reading))
    BY DEF Requires, Keeps, Invariant
  <1>3. Good(Code(op), Value(op), Obligation(op), BaseType)
        /\ Reads(Code(op), Value(op), Obligation(op))
    BY <1>2, Registers, ComputeGood
  <1> QED
    BY <1>1, <1>3, SetsX

\* Exact has a value for the operators that do not divide.
LEMMA RingType ==
    ASSUME NEW op \in {"add", "sub", "mul"}, NEW l \in Int, NEW r \in Int
    PROVE  Exact(op, l, r) \in Int
  BY DEF Exact

LEMMA WrappingOpStep == IInv /\ WrappingOp => IInv'
  <1> SUFFICES ASSUME IInv, WrappingOp PROVE IInv'
    OBVIOUS
  <1> DEFINE val(op) == [b \in Builds |-> Wrap(Exact(op, x[b], n[b]))]
             code(op) == [b \in Builds |-> Returns(Wrap(Exact(op, x[b], n[b])))]
             reading(op) == Wrap(Exact(op, x.reading, n.reading))
  <1>1. PICK op \in type.ops \cap {"add", "sub", "mul"} :
          /\ n' = Assigned(n, code(op), reading(op), TRUE)
          /\ Stop(code(op), TRUE)
          /\ UNCHANGED <<type, x, int, p, defined>>
    BY DEF WrappingOp
  <1>2. \A l, r \in BaseType : Wrap(Exact(op, l, r)) \in BaseType
    <2> SUFFICES ASSUME NEW l \in BaseType, NEW r \in BaseType
                 PROVE  Wrap(Exact(op, l, r)) \in BaseType
      OBVIOUS
    <2>1. type \in Types
      BY Registers
    <2>2. l \in Int /\ r \in Int
      BY <2>1, TypeFacts DEF BaseType
    <2> QED
      BY <2>1, <2>2, RingType, WrapType
  <1>3. /\ code(op) = [b \in Builds |-> Returns(val(op)[b])]
        /\ \A b \in Builds : val(op)[b] \in BaseType
        /\ panic["debug"] = "none" => val(op)["release"] = val(op)["debug"]
        /\ reading(op) \in BaseType
        /\ proved => \A b \in Builds : panic[b] = "none" => val(op)[b] = reading(op)
    BY <1>2, Registers
  <1>4. Good(code(op), reading(op), TRUE, BaseType) /\ Reads(code(op), reading(op), TRUE)
    <2> HIDE DEF code, val, reading
    <2> QED BY <1>3, ReturnsGood
  <1> QED
    BY <1>1, <1>4, SetsN

LEMMA CheckedOpStep == IInv /\ CheckedOp => IInv'
  <1> SUFFICES ASSUME IInv, CheckedOp PROVE IInv'
    OBVIOUS
  <1> DEFINE val(op) == [b \in Builds |-> Checked(op, x[b], n[b])]
             code(op) == [b \in Builds |-> Returns(Checked(op, x[b], n[b]))]
             reading(op) == Checked(op, x.reading, n.reading)
  <1>1. PICK op \in type.ops :
          /\ n' = Assigned(n, code(op), reading(op), TRUE)
          /\ Stop(code(op), TRUE)
          /\ UNCHANGED <<type, x, int, p, defined>>
    BY DEF CheckedOp
  <1>2. \A l, r \in BaseType : Checked(op, l, r) \in BaseType
    BY DEF Checked
  <1>3. /\ code(op) = [b \in Builds |-> Returns(val(op)[b])]
        /\ \A b \in Builds : val(op)[b] \in BaseType
        /\ panic["debug"] = "none" => val(op)["release"] = val(op)["debug"]
        /\ reading(op) \in BaseType
        /\ proved => \A b \in Builds : panic[b] = "none" => val(op)[b] = reading(op)
    BY <1>2, Registers
  <1>4. Good(code(op), reading(op), TRUE, BaseType) /\ Reads(code(op), reading(op), TRUE)
    <2> HIDE DEF code, val, reading
    <2> QED BY <1>3, ReturnsGood
  <1> QED
    BY <1>1, <1>4, SetsN

LEMMA NotStep == IInv /\ Not => IInv'
  <1> SUFFICES ASSUME IInv, Not PROVE IInv'
    OBVIOUS
  <1> DEFINE Flip(v) == type.minT + type.maxT - v
             val == [b \in Builds |-> Flip(x[b])]
             code == [b \in Builds |-> Returns(Flip(x[b]))]
  <1>1. /\ n' = Assigned(n, code, Flip(x.reading), TRUE)
        /\ Stop(code, TRUE)
        /\ UNCHANGED <<type, x, int, p, defined>>
    BY DEF Not
  <1>2. \A v \in BaseType : Flip(v) \in BaseType
    BY TypeFacts, Registers DEF BaseType
  <1>3. /\ code = [b \in Builds |-> Returns(val[b])]
        /\ \A b \in Builds : val[b] \in BaseType
        /\ panic["debug"] = "none" => val["release"] = val["debug"]
        /\ Flip(x.reading) \in BaseType
        /\ proved => \A b \in Builds : panic[b] = "none" => val[b] = Flip(x.reading)
    BY <1>2, Registers
  <1>4. Good(code, Flip(x.reading), TRUE, BaseType) /\ Reads(code, Flip(x.reading), TRUE)
    <2> HIDE DEF code, val, Flip
    <2> QED BY <1>3, ReturnsGood
  <1> QED
    BY <1>1, <1>4, SetsN

LEMMA IndexStep == IInv /\ Index => IInv'
  <1> SUFFICES ASSUME IInv, Index PROVE IInv'
    OBVIOUS
  <1> DEFINE code == [b \in Builds |-> IF 0 <= x[b] /\ x[b] < Len THEN Returns(0)
                                       ELSE Panics("index")]
             obligation == 0 <= x.reading /\ x.reading < Len
  <1>1. Typed(code, Int) /\ Agrees(code)
    BY Registers DEF Typed, Agrees, Returns, Panics, Reasons
  <1>2. Allows(code, obligation)
    BY Registers DEF Allows, Returns, Allowed
  <1>3. obligation \in BOOLEAN
    OBVIOUS
  <1>4. Stop(code, obligation) /\ UNCHANGED <<type, x, n, int, p, defined>>
    BY DEF Index
  <1> HIDE DEF code, obligation
  <1> QED
    BY <1>1, <1>2, <1>3, <1>4, SetsNothing

LEMMA LiftStep == IInv /\ Lift => IInv'
  <1> SUFFICES ASSUME IInv, Lift PROVE IInv'
    OBVIOUS
  <1> DEFINE code == [b \in Builds |-> BigIntNew(n[b])]
  <1>1. /\ int' = Assigned(int, code, n.reading, TRUE)
        /\ Stop(code, TRUE) /\ defined' \in BOOLEAN
        /\ UNCHANGED <<type, x, n, p>>
    BY DEF Lift
  <1>2. \A b \in Builds : n[b] \in Int
    BY Registers, TypeFacts DEF BaseType
  <1>3. n.reading \in Int
    BY Registers, TypeFacts DEF BaseType
  <1>4. Typed(code, Int) /\ Agrees(code) /\ Allows(code, TRUE) /\ Reads(code, n.reading, TRUE)
    BY <1>2, Registers
       DEF Typed, Agrees, Allows, Reads, BigIntNew, Returns, Panics, Reasons, Allowed
  <1> HIDE DEF code
  <1>5. Good(code, n.reading, TRUE, Int)
    BY <1>3, <1>4 DEF Good
  <1> QED
    BY <1>1, <1>4, <1>5, SetsInt

LEMMA IntOpStep == IInv /\ IntOp => IInv'
  <1> SUFFICES ASSUME IInv, IntOp PROVE IInv'
    OBVIOUS
  <1> DEFINE code(op) == [b \in Builds |->
                             IF FillsArray(n[b]) THEN BigIntNew(Exact(op, int[b], n[b]))
                             ELSE Panics("bigint")]
             value(op) == Exact(op, int.reading, n.reading)
  <1>1. PICK op \in {"add", "sub", "mul"} :
          /\ int' = Assigned(int, code(op), value(op), TRUE)
          /\ Stop(code(op), TRUE) /\ UNCHANGED <<type, x, n, p, defined>>
    BY DEF IntOp
  <1>2. \A b \in Builds : Exact(op, int[b], n[b]) \in Int
    <2>1. \A b \in Builds : int[b] \in Int /\ n[b] \in Int
      BY Registers, TypeFacts DEF BaseType
    <2> QED
      BY <2>1, RingType
  <1>3. value(op) \in Int
    <2>1. int.reading \in Int /\ n.reading \in Int
      BY Registers, TypeFacts DEF BaseType
    <2> QED
      BY <2>1, RingType
  <1>4. /\ Typed(code(op), Int) /\ Agrees(code(op)) /\ Allows(code(op), TRUE)
        /\ Reads(code(op), value(op), TRUE)
    BY <1>2, Registers
       DEF Typed, Agrees, Allows, Reads, BigIntNew, Returns, Panics, Reasons, Allowed
  <1>5. defined' \in BOOLEAN
    BY <1>1 DEF IInv, TypeOK
  <1> HIDE DEF code, value
  <1>6. Good(code(op), value(op), TRUE, Int)
    BY <1>3, <1>4 DEF Good
  <1> QED
    BY <1>1, <1>4, <1>5, <1>6, SetsInt

LEMMA ConcretizeStep == IInv /\ Concretize => IInv'
  <1> SUFFICES ASSUME IInv, Concretize PROVE IInv'
    OBVIOUS
  <1> DEFINE code == [b \in Builds |-> IF int[b] \in BaseType THEN Returns(int[b])
                                       ELSE Panics("concretize")]
             obligation == int.reading \in BaseType
  <1>1. /\ n' = Assigned(n, code, int.reading, obligation)
        /\ Stop(code, obligation) /\ UNCHANGED <<type, x, int, p, defined>>
    BY DEF Concretize
  <1>2. Typed(code, BaseType)
    BY DEF Typed, Returns, Panics, Reasons
  <1>3. Agrees(code)
    BY Registers DEF Agrees, Returns, Panics
  <1>4. Allows(code, obligation) /\ Reads(code, int.reading, obligation)
    BY Registers DEF Allows, Reads, Returns, Panics, Allowed
  <1>5. obligation \in BOOLEAN /\ (obligation => int.reading \in BaseType)
    OBVIOUS
  <1> HIDE DEF code, obligation
  <1>6. Good(code, int.reading, obligation, BaseType)
    BY <1>2, <1>3, <1>4, <1>5 DEF Good
  <1> QED
    BY <1>1, <1>4, <1>6, SetsN

LEMMA PropStep == IInv /\ Prop => IInv'
  <1> SUFFICES ASSUME IInv, Prop PROVE IInv'
    OBVIOUS
  <1> DEFINE val(c) == [b \in Builds |-> Constructor(c, p[b], n[b] <= x[b])]
             code(c) == [b \in Builds |-> Returns(Constructor(c, p[b], n[b] <= x[b]))]
             reading(c) == Formula(c, p.reading, n.reading <= x.reading)
  <1>1. PICK c \in Connectives :
          /\ p' = Assigned(p, code(c), reading(c), TRUE)
          /\ Stop(code(c), TRUE)
          /\ UNCHANGED <<type, x, n, int, defined>>
    BY DEF Prop
  <1>2. \A l, r \in BOOLEAN : Constructor(c, l, r) \in BOOLEAN /\ Formula(c, l, r) \in BOOLEAN
    BY ZenonT(30) DEF Constructor, Formula, Connectives
  <1>3. \A e \in Executions : p[e] \in BOOLEAN /\ (n[e] <= x[e]) \in BOOLEAN
    BY Registers
  <1>4. /\ code(c) = [b \in Builds |-> Returns(val(c)[b])]
        /\ \A b \in Builds : val(c)[b] \in BOOLEAN
        /\ panic["debug"] = "none" => val(c)["release"] = val(c)["debug"]
        /\ reading(c) \in BOOLEAN
    BY <1>2, <1>3, Registers DEF Executions
  <1>5. Good(code(c), reading(c), TRUE, BOOLEAN)
    <2> HIDE DEF code, val, reading
    <2> QED BY <1>4, ReturnsGood
  <1> QED
    BY <1>1, <1>5, SetsP

\* A quantifier over the base type holds at run time.
LEMMA QuantifierStep ==
    ASSUME IInv, NEW code, code = [b \in Builds |-> Returns(TRUE)], NEW reading \in BOOLEAN,
           p' = Assigned(p, code, reading, TRUE), Stop(code, TRUE),
           UNCHANGED <<type, x, n, int, defined>>
    PROVE  IInv'
  <1> DEFINE val == [b \in Builds |-> TRUE]
  <1>1. code = [b \in Builds |-> Returns(val[b])] /\ \A b \in Builds : val[b] = TRUE
    OBVIOUS
  <1>2. val["release"] = val["debug"]
    BY DEF Builds
  <1>3. Good(code, reading, TRUE, BOOLEAN)
    <2> HIDE DEF val
    <2> QED BY <1>1, <1>2, ReturnsGood
  <1> QED
    BY <1>3, SetsP

LEMMA ForallStep == IInv /\ Forall => IInv'
  BY QuantifierStep DEF Forall

LEMMA ExistsStep == IInv /\ Exists => IInv'
  BY QuantifierStep DEF Exists

LEMMA AssertStep == IInv /\ Assert => IInv'
  <1> SUFFICES ASSUME IInv, Assert PROVE IInv'
    OBVIOUS
  <1> DEFINE code == [b \in Builds |-> Proxy(b, n[b] <= x[b])]
             obligation == n.reading <= x.reading
  <1>1. Stop(code, obligation) /\ UNCHANGED <<type, x, n, int, p, defined>>
    BY DEF Assert
  <1>2. Typed(code, Int) /\ Agrees(code)
    BY Registers DEF Typed, Agrees, Proxy, AssertsIn, Returns, Panics, Reasons
  <1>3. obligation \in BOOLEAN
    BY Registers, TypeFacts DEF BaseType
  <1>4. Allows(code, obligation)
    BY Registers DEF Allows, Proxy, Returns, Allowed
  <1> HIDE DEF code, obligation
  <1> QED
    BY <1>1, <1>2, <1>3, <1>4, SetsNothing

LEMMA DebugAssertStep == IInv /\ DebugAssert => IInv'
  <1> SUFFICES ASSUME IInv, DebugAssert PROVE IInv'
    OBVIOUS
  <1> DEFINE code == [b \in Builds |-> IF Proxy(b, n[b] <= x[b]).panic = "assert"
                                       THEN Panics("debug_assert") ELSE Returns(0)]
  <1>1. Stop(code, TRUE) /\ UNCHANGED <<type, x, n, int, p, defined>>
    BY DEF DebugAssert
  <1>2. Typed(code, Int) /\ Agrees(code) /\ Allows(code, TRUE)
    BY DEF Typed, Agrees, Allows, Proxy, AssertsIn, Returns, Panics, Reasons, Allowed, Builds
  <1> HIDE DEF code
  <1> QED
    BY <1>1, <1>2, SetsNothing

LEMMA AssertPropStep == IInv /\ AssertProp => IInv'
  <1> SUFFICES ASSUME IInv, AssertProp PROVE IInv'
    OBVIOUS
  <1> DEFINE code == [b \in Builds |-> Returns(0)]
  <1>1. Stop(code, p.reading) /\ UNCHANGED <<type, x, n, int, p, defined>>
    BY DEF AssertProp
  <1>2. Typed(code, Int) /\ Agrees(code) /\ Allows(code, p.reading)
    BY DEF Typed, Agrees, Allows, Returns, Reasons, Allowed, Builds
  <1>3. p.reading \in BOOLEAN
    BY Registers
  <1> HIDE DEF code
  <1> QED
    BY <1>1, <1>2, <1>3, SetsNothing

LEMMA StutterStep == IInv /\ UNCHANGED vars => IInv'
  BY DEF IInv, vars, TypeOK, Safe, ProvedIsFaithful, ReleaseAgrees, BaseType

LEMMA NextIInv == IInv /\ [Next]_vars => IInv'
  <1> SUFFICES ASSUME IInv, [Next]_vars PROVE IInv'
    OBVIOUS
  <1>1. 0 \in BaseType /\ 1 \in BaseType
    BY Registers, TypeFacts DEF BaseType
  <1>2. CASE IntoChecked \/ Get \/ Literal
    BY <1>2, IntoCheckedStep, GetStep, LiteralStep
  <1>3. CASE Zero \/ One \/ FromBytes
    BY <1>1, <1>3, FromConstantStep DEF Zero, One, FromBytes
  <1>4. CASE BinOp \/ WrappingOp \/ CheckedOp \/ Not \/ AssignOp \/ Index
    BY <1>4, BinOpStep, WrappingOpStep, CheckedOpStep, NotStep, AssignOpStep, IndexStep
  <1>5. CASE Lift \/ IntOp \/ Concretize
    BY <1>5, LiftStep, IntOpStep, ConcretizeStep
  <1>6. CASE Prop \/ Forall \/ Exists
    BY <1>6, PropStep, ForallStep, ExistsStep
  <1>7. CASE Assert \/ DebugAssert \/ AssertProp
    BY <1>7, AssertStep, DebugAssertStep, AssertPropStep
  <1>8. CASE UNCHANGED vars
    BY <1>8, StutterStep
  <1> QED
    BY <1>2, <1>3, <1>4, <1>5, <1>6, <1>7, <1>8 DEF Next

LEMMA SpecIInv == Spec => []IInv
  <1> QED
    BY InitIInv, NextIInv, PTL DEF Spec

-----------------------------------------------------------------------------
(* The theorems *)

\* Every value has its type, at every width: no call leaves the base type, and a
\* build stops for one of the reasons the code has.
THEOREM TypeCorrect == Spec => []TypeOK
  <1>1. IInv => TypeOK
    BY DEF IInv
  <1> QED
    BY <1>1, SpecIInv, PTL

\* A program whose obligations hold panics in no build, except for an Int that
\* does not fill its array or a debug assertion.
THEOREM ProvedProgramsAreSafe == Spec => []ProvedIsSafe
  <1>1. IInv => ProvedIsSafe
    BY DEF IInv, Safe, ProvedIsSafe, Allowed, Builds
  <1> QED
    BY <1>1, SpecIInv, PTL

\* Its run computes what hax extracts.
THEOREM ProvedProgramsAreFaithful == Spec => []ProvedIsFaithful
  <1>1. IInv => ProvedIsFaithful
    BY DEF IInv
  <1> QED
    BY <1>1, SpecIInv, PTL

\* A release build computes what a debug build that does not panic computes.
THEOREM ReleaseDoesWhatDebugDoes == Spec => []ReleaseAgrees
  <1>1. IInv => ReleaseAgrees
    BY DEF IInv
  <1> QED
    BY <1>1, SpecIInv, PTL

-----------------------------------------------------------------------------
(* The invariant of the refinement type *)

\* The reading of x satisfies the invariant of its type whatever is proved, since
\* it changes only when what it becomes is.
ReadingIsInBounds == proved => Invariant(x.reading)

\* The reading of a register changes as a proved call assigns it.
LEMMA AssignedReading ==
    ASSUME NEW reg, NEW code, NEW reading, NEW obligation
    PROVE  Assigned(reg, code, reading, obligation).reading
             = IF proved /\ obligation THEN reading ELSE reg.reading
  BY DEF Assigned, Executions

LEMMA ReadingInBounds == IInv /\ ReadingIsInBounds /\ [Next]_vars => ReadingIsInBounds'
  <1> SUFFICES ASSUME IInv, ReadingIsInBounds, [Next]_vars PROVE ReadingIsInBounds'
    OBVIOUS
  <1>1. ASSUME UNCHANGED <<type, x>>, proved' => proved PROVE ReadingIsInBounds'
    BY <1>1 DEF ReadingIsInBounds, Invariant
  <1>2. ASSUME NEW code, NEW reading, NEW obligation \in BOOLEAN,
               x' = Assigned(x, code, reading, obligation), Stop(code, obligation),
               type' = type, obligation => Invariant(reading)
        PROVE  ReadingIsInBounds'
    BY <1>2, AssignedReading, Registers DEF ReadingIsInBounds, Invariant, Stop
  <1>3. CASE IntoChecked
    BY <1>2, <1>3 DEF IntoChecked, Invariant
  <1>4. CASE Zero \/ One \/ FromBytes
    BY <1>2, <1>4 DEF Zero, One, FromBytes, FromConstant
  <1>5. CASE AssignOp
    <2>1. PICK op \in type.ops :
            LET code == [b \in Builds |-> BoundedOp(b, op, x[b], n[b])]
                value == Exact(op, x.reading, n.reading)
                obligation == Requires(op, x.reading, n.reading) /\ Keeps(value)
            IN  /\ x' = Assigned(x, code, value, obligation)
                /\ Stop(code, obligation)
                /\ UNCHANGED <<type, n, int, p, defined>>
      BY <1>5 DEF AssignOp
    <2> QED
      BY <1>2, <2>1 DEF Keeps
  <1>6. \A code, obligation : Stop(code, obligation) => (proved' => proved)
    BY DEF Stop
  <1>7. CASE Get \/ Literal \/ BinOp \/ WrappingOp \/ CheckedOp \/ Not \/ Index
    BY <1>1, <1>6, <1>7
       DEF Get, Literal, BinOp, Operation, WrappingOp, CheckedOp, Not, Index
  <1>8. CASE Lift \/ IntOp \/ Concretize \/ Prop \/ Forall \/ Exists
    BY <1>1, <1>6, <1>8 DEF Lift, IntOp, Concretize, Prop, Forall, Exists
  <1>9. CASE Assert \/ DebugAssert \/ AssertProp
    BY <1>1, <1>6, <1>9 DEF Assert, DebugAssert, AssertProp
  <1>10. CASE UNCHANGED vars
    BY <1>1, <1>10 DEF vars
  <1> QED
    BY <1>3, <1>4, <1>5, <1>7, <1>8, <1>9, <1>10 DEF Next

\* A value of a refinement type of a proved program is in its bounds, in a debug
\* and in a release build, although neither checks it.
THEOREM ProvedValuesAreInBounds == Spec => []ProvedIsInBounds
  <1>1. Init => ReadingIsInBounds
    BY TypesAssumption DEF Init, ReadingIsInBounds, Invariant, Executions
  <1>2. IInv /\ ReadingIsInBounds => ProvedIsInBounds
    BY DEF IInv, ProvedIsFaithful, ReadingIsInBounds, ProvedIsInBounds, Invariant
  <1> QED
    BY <1>1, <1>2, ReadingInBounds, SpecIInv, PTL DEF Spec
=============================================================================
