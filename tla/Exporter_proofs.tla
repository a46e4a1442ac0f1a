--------------------------- MODULE Exporter_proofs ---------------------------
(***************************************************************************)
(* Proofs about the export of a crate (Exporter): the table of nodes is    *)
(* sound, the file can be read back, bodies are lost in order, and the     *)
(* implementations have their ImplInfos.                                   *)
(***************************************************************************)
EXTENDS Exporter, DataLemmas, SequenceTheorems, FiniteSetTheorems

-----------------------------------------------------------------------------
(* The inductive invariant *)

\* The steps of convert_thir and of the reading, and the ways they end.
Reading == {"table", "done", "not_found_in_cache"}
Steps == {"bodies", "items", "impls", "thir_not_found", "mir_stolen"} \cup Reading

Ids == 0..(next_id - 1)
Node == [value : Values, refs : SUBSET Nat]
PairSet == [id : Nat, value : Values, refs : SUBSET Nat]
Frame == [owner : Defs, value : Values \cup {None}, todo : Seq(Task), refs : SUBSET Nat]
Meta == [items : SUBSET Nat, impl_infos : SUBSET Nat, impls : SUBSET Defs,
         def_ids : SUBSET Nat, table : Seq(PairSet)]

\* The types of the variables.
ExportTypes ==
    /\ krate \in Krates
    /\ pc \in Steps
    /\ bodies \in Seq(Defs)
    /\ thir \in [Defs -> {"none", "body", "dummy"}]
    /\ thief \in [Defs -> Defs \cup {None}]
    /\ todo_items \in Seq(Defs)
    /\ stack \in Seq(Frame)
    /\ cache \in [Defs \X Values -> SUBSET Nat]
    /\ touched \subseteq Defs
    /\ next_id \in Nat
    /\ table \in [Ids -> Node]
    /\ haxmeta \in Meta

\* Which steps have calls under way, and what the calls are of: the first is an
\* item or an implementation, each other one is of a part of the one before it, so
\* that none is of what is being translated already.
StackShape ==
    /\ pc \in {"bodies"} \cup Reading => stack = <<>>
    /\ stack # <<>> => stack[1].value = None
    /\ \A n \in 2..Len(stack) :
          /\ stack[n].value \in Values
          /\ \A t \in Range(stack[n].todo) :
                t.task = "value" /\ t.arg \in Range(Parts(stack[n].value))
    /\ \A n, q \in 2..Len(stack) : n < q => Rank[stack[q].value] < Rank[stack[n].value]

\* The tasks of a call that are not values: bodies that were asked for first, and
\* items, of which none is an anonymous constant of a function.
ItemIsKnown(d) == DefKind[d] = "AnonConst" => ~IsFn(Parent[d])
TaskIsKnown(t) ==
    /\ t.task = "body" => t.arg \in Range(LocalBodies(krate))
    /\ t.task = "item" => ItemIsKnown(t.arg)
TasksAreKnown ==
    /\ \A n \in 1..Len(stack) : \A t \in Range(stack[n].todo) : TaskIsKnown(t)
    /\ pc \in {"bodies", "items"} => \A d \in Range(todo_items) : ItemIsKnown(d)

\* The bodies that are left are in order, and whoever took a body comes before them.
ByLevels(s) == \A i, j \in 1..Len(s) : i < j => ConstLevel(s[i]) <= ConstLevel(s[j])
BodiesInOrder ==
    /\ pc # "thir_not_found"
    /\ pc # "bodies" => bodies = <<>>
    /\ \A b \in Range(LocalBodies(krate)) : thir[b] = "none" => b \in Range(bodies)
    /\ ByLevels(bodies)
    /\ \A b \in Defs : thief[b] # None =>
          \A c \in Range(bodies) : ConstLevel(thief[b]) <= ConstLevel(c)
    /\ \A b \in Defs : thir[b] = "dummy" =>
          /\ b \in errors
          /\ \/ b \in krate.ill_typed
             \/ thief[b] # None /\ ConstLevel(thief[b]) <= ConstLevel(b)

\* An id is used after its node was made.
IdsExist ==
    /\ \A o \in Defs, v \in Values : cache[<<o, v>>] \subseteq Ids
    /\ \A n \in 1..Len(stack) : stack[n].refs \subseteq Ids
    /\ haxmeta.items \subseteq Ids
    /\ haxmeta.impl_infos \subseteq Ids
    /\ haxmeta.def_ids \subseteq Ids
    /\ \A i \in Ids : table[i].refs \subseteq 0..(i - 1)

\* A part of a value that is translated is still to do, is being translated, or
\* has its node among those the value will refer to.
HasNode(ids, v) == \E r \in ids : table[r].value = v
PartIsKnown(n, p) ==
    \/ \E t \in Range(stack[n].todo) : t.arg = p
    \/ n < Len(stack) /\ stack[n + 1].value = p
    \/ HasNode(stack[n].refs, p)
PartsAreKnown ==
    /\ \A n \in 2..Len(stack) : \A p \in Range(Parts(stack[n].value)) \ TraitRefs :
          PartIsKnown(n, p)
    /\ \A i \in Ids : \A p \in Range(Parts(table[i].value)) \ TraitRefs :
          HasNode(table[i].refs, p)

\* What the caches say is in the table, each definition of the table is in its
\* cache, and a definition that is being translated is not.
CacheIsTable ==
    /\ \A o \in Defs, v \in Values \ TraitRefs :
          cache[<<o, v>>] # {} => HasNode(cache[<<o, v>>], v)
    /\ \A i \in Ids : table[i].value \in Defs =>
          cache[<<table[i].value, table[i].value>>] # {}
    /\ \A n \in 2..Len(stack) : stack[n].value \in Defs =>
          cache[<<stack[n].value, stack[n].value>>] = {}

\* What was read is what was written.
FileIsTable ==
    /\ pc # "not_found_in_cache"
    /\ pc \in Reading => haxmeta.table = IdValuePairs
    /\ pc \notin Reading => read = 0
    /\ pc = "done" => read = next_id
    /\ read \in 0..next_id
    /\ state \in [0..(read - 1) -> Node]
    /\ \A i \in 0..(read - 1) : state[i] = table[i]

IsImpl(v) == v \in Defs /\ DefKind[v] = "Impl"

\* The ImplInfos of an implementation are there, are being made, or will be made.
HasInfos(d) == \/ d \in haxmeta.impls \/ d \in Range(todo_items)
               \/ stack # <<>> /\ stack[1].owner = d

\* A definition is touched before its node is made, and the nodes that are there
\* when the implementations are listed are those below some id.
ImplsAreListed ==
    /\ \A i \in Ids : table[i].value \in Defs => table[i].value \in touched
    /\ \A n \in 2..Len(stack) : stack[n].value \in Defs => stack[n].value \in touched
    /\ pc \in Reading => todo_items = <<>>
    /\ pc \in {"impls"} \cup Reading =>
          \E n \in 0..next_id :
              /\ haxmeta.items \subseteq 0..(n - 1)
              /\ \A i \in 0..(n - 1) : IsImpl(table[i].value) => HasInfos(table[i].value)
-----------------------------------------------------------------------------
(* The operators of the model *)

\* A body that runs when constants are evaluated is in front.
LEMMA LevelType == \A b \in Defs : ConstLevel(b) \in 0..2
BY DEF ConstLevel

\* LocalBodies are the bodies that rustc lists and that are kept, by level.
LEMMA LocalBodiesFacts ==
    ASSUME NEW k \in Krates
    PROVE  /\ LocalBodies(k) \in Seq(Defs)
           /\ Range(LocalBodies(k)) = {b \in Range(k.body_owners) : IsKept(b)}
           /\ ByLevels(LocalBodies(k))
<1> DEFINE owners == k.body_owners
           s == Among(owners, {b \in Defs : IsKept(b)})
           At(n) == {b \in Defs : ConstLevel(b) = n}
           L(n) == Among(s, At(n))
<1>1. owners \in Seq(Defs) /\ Range(owners) \subseteq Defs
  <2>1. owners \in Seq(Defs)
    BY KratesAssumption
  <2> QED BY <2>1, SeqFacts
<1>2. s \in Seq(Defs) /\ Range(s) = Range(owners) \cap {b \in Defs : IsKept(b)}
  BY <1>1, AmongRange
<1> HIDE DEF s, At
<1>3. \A n : L(n) \in Seq(Defs) /\ Range(L(n)) = Range(s) \cap At(n)
  BY <1>2, AmongRange
<1>4. LocalBodies(k) = L(0) \o L(1) \o L(2)
  BY DEF LocalBodies, ByLevel, s, At
<1> DEFINE a == L(0)
           b == L(1)
           c == L(2)
<1>5. /\ a \in Seq(Defs) /\ b \in Seq(Defs) /\ c \in Seq(Defs)
      /\ Range(a) = Range(s) \cap At(0) /\ Range(b) = Range(s) \cap At(1)
      /\ Range(c) = Range(s) \cap At(2)
  BY <1>3
<1>6. LocalBodies(k) = (a \o b) \o c
  BY <1>4
<1> HIDE DEF a, b, c, L
<1>7. a \o b \in Seq(Defs) /\ Range(a \o b) = Range(a) \cup Range(b)
  BY <1>5, ConcatFacts
<1>8. /\ LocalBodies(k) \in Seq(Defs)
      /\ Range(LocalBodies(k)) = Range(a) \cup Range(b) \cup Range(c)
  <2> DEFINE ab == a \o b
  <2>1. ab \in Seq(Defs) /\ Range(ab) = Range(a) \cup Range(b) /\ LocalBodies(k) = ab \o c
    BY <1>6, <1>7
  <2> HIDE DEF ab
  <2>2. ab \o c \in Seq(Defs) /\ Range(ab \o c) = Range(ab) \cup Range(c)
    BY <1>5, <2>1, ConcatFacts
  <2> QED BY <2>1, <2>2
<1>9. Range(LocalBodies(k)) = {x \in Range(owners) : IsKept(x)}
  <2>1. \A x \in Defs : x \in At(0) \cup At(1) \cup At(2)
    BY LevelType DEF At
  <2>2. Range(LocalBodies(k)) = Range(s)
    BY <2>1, <1>1, <1>2, <1>5, <1>8
  <2> QED BY <2>2, <1>1, <1>2
<1>10. ASSUME NEW i \in 1..Len(LocalBodies(k)), NEW j \in 1..Len(LocalBodies(k)), i < j
       PROVE  ConstLevel(LocalBodies(k)[i]) <= ConstLevel(LocalBodies(k)[j])
  <2> DEFINE la == Len(a)
             lb == Len(b)
             lc == Len(c)
             q == LocalBodies(k)
  <2>1. la \in Nat /\ lb \in Nat /\ lc \in Nat
    BY <1>5
  <2>2. /\ \A n \in 1..la : ConstLevel(a[n]) = 0
        /\ \A n \in 1..lb : ConstLevel(b[n]) = 1
        /\ \A n \in 1..lc : ConstLevel(c[n]) = 2
    <3>1. /\ \A n \in 1..la : a[n] \in Range(a)
          /\ \A n \in 1..lb : b[n] \in Range(b)
          /\ \A n \in 1..lc : c[n] \in Range(c)
      BY <1>5, SeqFacts
    <3> QED BY <3>1, <1>5 DEF At
  <2>3. /\ Len(a \o b) = la + lb
        /\ \A n \in 1..(la + lb) : (a \o b)[n] = IF n <= la THEN a[n] ELSE b[n - la]
    BY <1>5, ConcatProperties
  <2>4. /\ Len(q) = (la + lb) + lc
        /\ \A n \in 1..((la + lb) + lc) :
              q[n] = IF n <= la + lb THEN (a \o b)[n] ELSE c[n - (la + lb)]
    BY <1>5, <1>6, <1>7, <2>3, ConcatProperties
  <2> HIDE DEF la, lb, lc, q
  <2>5. \A n \in 1..Len(q) : ConstLevel(q[n]) = IF n <= la THEN 0
                                               ELSE IF n <= la + lb THEN 1 ELSE 2
    <3> SUFFICES ASSUME NEW n \in 1..Len(q)
                 PROVE  ConstLevel(q[n]) = IF n <= la THEN 0
                                           ELSE IF n <= la + lb THEN 1 ELSE 2
      OBVIOUS
    <3>1. CASE n <= la
      <4>1. n \in 1..la /\ n \in 1..(la + lb) /\ n <= la + lb /\ n \in 1..((la + lb) + lc)
        BY <2>1, <2>4, <3>1
      <4>2. q[n] = (a \o b)[n] /\ (a \o b)[n] = a[n]
        BY <4>1, <3>1, <2>3, <2>4
      <4> QED BY <4>1, <4>2, <3>1, <2>2
    <3>2. CASE ~(n <= la) /\ n <= la + lb
      <4>1. n - la \in 1..lb /\ n \in 1..(la + lb) /\ n \in 1..((la + lb) + lc)
        BY <2>1, <2>4, <3>2
      <4>2. q[n] = (a \o b)[n] /\ (a \o b)[n] = b[n - la]
        BY <4>1, <3>2, <2>3, <2>4
      <4> QED BY <4>1, <4>2, <3>2, <2>2
    <3>3. CASE ~(n <= la + lb)
      <4>1. n - (la + lb) \in 1..lc /\ n \in 1..((la + lb) + lc) /\ ~(n <= la)
        BY <2>1, <2>4, <3>3
      <4> QED BY <4>1, <3>3, <2>2, <2>4
    <3> QED BY <3>1, <3>2, <3>3
  <2>6. i \in 1..Len(q) /\ j \in 1..Len(q) /\ i < j
    BY <1>10 DEF q
  <2>7. Len(q) \in Nat
    BY <2>1, <2>4
  <2>8. ConstLevel(q[i]) <= ConstLevel(q[j])
    BY <2>1, <2>5, <2>6, <2>7
  <2> QED BY <2>8 DEF q
<1> QED BY <1>8, <1>9, <1>10 DEF ByLevels

\* A sequence that is mapped, element by element.
LEMMA MapFacts ==
    ASSUME NEW S, NEW s \in Seq(S), NEW T, NEW f \in [S -> T], NEW m,
           m = [n \in DOMAIN s |-> f[s[n]]]
    PROVE  m \in Seq(T) /\ \A y : y \in Range(m) <=> \E x \in Range(s) : y = f[x]
<1>1. Len(s) \in Nat /\ DOMAIN s = 1..Len(s) /\ \A n \in 1..Len(s) : s[n] \in S
  OBVIOUS
<1>2. m \in [1..Len(s) -> T]
  BY <1>1
<1>3. m \in Seq(T) /\ DOMAIN m = 1..Len(s)
  BY <1>1, <1>2
<1>4. \A y : y \in Range(m) <=> \E n \in 1..Len(s) : y = m[n]
  BY <1>3 DEF Range
<1>5. \A x : x \in Range(s) <=> \E n \in 1..Len(s) : s[n] = x
  BY SeqFacts
<1>6. \A n \in 1..Len(s) : m[n] = f[s[n]]
  BY <1>1
<1>7. ASSUME NEW y, y \in Range(m) PROVE \E x \in Range(s) : y = f[x]
  <2>1. PICK n \in 1..Len(s) : y = m[n]
    BY <1>4, <1>7
  <2> QED BY <2>1, <1>5, <1>6
<1>8. ASSUME NEW x \in Range(s) PROVE f[x] \in Range(m)
  <2>1. PICK n \in 1..Len(s) : s[n] = x
    BY <1>5, <1>8
  <2> QED BY <2>1, <1>4, <1>6
<1> QED BY <1>3, <1>7, <1>8

\* The tasks made of a list of values are one for each, under the same owner.
LEMMA ValuesOfFacts ==
    ASSUME NEW o \in Defs, NEW s \in Seq(Values)
    PROVE  /\ ValuesOf(o, s) \in Seq(Task)
           /\ \A t \in Range(ValuesOf(o, s)) :
                 t.task = "value" /\ t.owner = o /\ t.arg \in Range(s)
           /\ \A v \in Range(s) : \E t \in Range(ValuesOf(o, s)) : t.arg = v
<1> DEFINE f == [v \in Values |-> Value(o, v)]
           m == ValuesOf(o, s)
<1>1. f \in [Values -> Task]
  BY DEF Task, Value
<1>2. m = [n \in DOMAIN s |-> f[s[n]]]
  <2>1. \A n \in DOMAIN s : s[n] \in Values
    OBVIOUS
  <2> QED BY <2>1 DEF ValuesOf
<1>3. \A v \in Values : f[v].task = "value" /\ f[v].owner = o /\ f[v].arg = v
  BY DEF Value
<1>4. Range(s) \subseteq Values
  BY SeqFacts
<1> HIDE DEF f, m
<1>5. m \in Seq(Task) /\ \A y : y \in Range(m) <=> \E x \in Range(s) : y = f[x]
  <2> DEFINE V == Values
  <2>1. s \in Seq(V) /\ f \in [V -> Task]
    BY <1>1
  <2> HIDE DEF V
  <2> QED BY <1>2, <2>1, MapFacts
<1>6. \A t \in Range(m) : t.task = "value" /\ t.owner = o /\ t.arg \in Range(s)
  BY <1>3, <1>4, <1>5
<1>7. \A v \in Range(s) : f[v] \in Range(m) /\ f[v].arg = v
  BY <1>3, <1>4, <1>5
<1> QED BY <1>5, <1>6, <1>7 DEF m

\* The parts of a value are values of lower rank.
LEMMA PartsType == ASSUME NEW v \in Values
                   PROVE  /\ Parts(v) \in Seq(Values) /\ Rank[v] \in Nat
                          /\ Range(Parts(v)) \subseteq Values
                          /\ \A p \in Range(Parts(v)) : Rank[p] < Rank[v]
<1>1. /\ Parts(v) \in Seq(Values) /\ Rank[v] \in Nat
      /\ \A i \in DOMAIN Parts(v) : Rank[Parts(v)[i]] < Rank[v]
  BY PartsAssumption
<1>2. Range(Parts(v)) \subseteq Values
  BY <1>1, SeqFacts
<1>3. \A p \in Range(Parts(v)) : \E i \in DOMAIN Parts(v) : p = Parts(v)[i]
  BY DEF Range
<1> QED BY <1>1, <1>2, <1>3

\* The definitions that are translated with d are no anonymous constants of
\* functions.
LEMMA BelowFacts ==
    ASSUME krate \in Krates, NEW d \in Defs
    PROVE  Below(d) \in Seq(Defs) /\ \A c \in Range(Below(d)) : ItemIsKnown(c)
<1> DEFINE consts == krate.consts[d]
           below == CASE DefKind[d] \in {"Trait", "Impl"} -> AssocItems(d)
                      [] DefKind[d] = "Enum" -> Variants(d)
                      [] DefKind[d] = "Mod" -> ModItems(d)
                      [] OTHER -> <<>>
<1>1. Below(d) = consts \o below
  BY DEF Below
<1>2. consts \in Seq(Defs) /\ \A c \in Range(consts) : ItemIsKnown(c)
  <2>1. /\ krate.consts \in [Defs -> Seq(Defs)]
        /\ \A i \in DOMAIN consts : DefKind[consts[i]] = "AnonConst" =>
              Parent[consts[i]] \in {p \in Defs : DefKind[p] \notin FnKinds}
    BY KratesAssumption
  <2>2. \A i \in DOMAIN consts : ItemIsKnown(consts[i])
    BY <2>1 DEF ItemIsKnown, IsFn
  <2> QED BY <2>1, <2>2 DEF Range
<1>3. ASSUME NEW kinds, "AnonConst" \notin kinds
      PROVE  Enclosed(d, kinds) \in Seq(Defs) /\ \A c \in Range(Enclosed(d, kinds)) : ItemIsKnown(c)
  <2>1. Children[d] \in Seq(Defs)
    BY DefsAssumption
  <2>2. /\ Enclosed(d, kinds) \in Seq(Defs)
        /\ Range(Enclosed(d, kinds)) =
              Range(Children[d]) \cap {c \in Defs : DefKind[c] \in kinds}
    BY <2>1, AmongRange DEF Enclosed
  <2> QED BY <2>2, <1>3 DEF ItemIsKnown
<1>4. /\ "AnonConst" \notin {"AssocFn", "AssocConst", "AssocTy"}
      /\ "AnonConst" \notin {"Variant"} /\ "AnonConst" \notin ItemKinds
  BY DEF ItemKinds
<1>5. <<>> \in Seq(Defs) /\ \A c \in Range(<<>>) : ItemIsKnown(c)
  BY RangeEmpty
<1>6. below \in Seq(Defs) /\ \A c \in Range(below) : ItemIsKnown(c)
  <2>1. AssocItems(d) \in Seq(Defs) /\ \A c \in Range(AssocItems(d)) : ItemIsKnown(c)
    BY <1>3, <1>4 DEF AssocItems
  <2>2. Variants(d) \in Seq(Defs) /\ \A c \in Range(Variants(d)) : ItemIsKnown(c)
    BY <1>3, <1>4 DEF Variants
  <2>3. ModItems(d) \in Seq(Defs) /\ \A c \in Range(ModItems(d)) : ItemIsKnown(c)
    BY <1>3, <1>4 DEF ModItems
  <2>4. \/ below = AssocItems(d) \/ below = Variants(d) \/ below = ModItems(d)
        \/ below = <<>>
    OBVIOUS
  <2> HIDE DEF below
  <2> QED BY <2>1, <2>2, <2>3, <2>4, <1>5
<1> HIDE DEF consts, below
<1>7. consts \o below \in Seq(Defs) /\ Range(consts \o below) = Range(consts) \cup Range(below)
  BY <1>2, <1>6, ConcatFacts
<1> QED BY <1>1, <1>2, <1>6, <1>7

\* What an item asks for.
LEMMA ItemTasksFacts ==
    ASSUME krate \in Krates, NEW d \in Defs, ItemIsKnown(d)
    PROVE  ItemTasks(d) \in Seq(Task) /\ \A t \in Range(ItemTasks(d)) : TaskIsKnown(t)
<1> DEFINE below == Below(d)
           s1 == <<Value(d, d)>>
           s2 == ValuesOf(d, krate.mentions[d])
           s3 == IF Asks(d) THEN <<BodyOf(d, d)>> ELSE <<>>
           f == [c \in Defs |-> ItemTask(c)]
           s4 == [i \in DOMAIN below |-> ItemTask(below[i])]
<1>1. ItemTasks(d) = ((s1 \o s2) \o s3) \o s4
  BY DEF ItemTasks
<1>2. s1 \in Seq(Task) /\ \A t \in Range(s1) : TaskIsKnown(t)
  <2>1. Value(d, d) \in Task /\ Value(d, d).task = "value"
    BY DEF Task, Value, Values
  <2>2. s1 \in Seq(Task) /\ Range(s1) = {Value(d, d)}
    BY <2>1, SingletonFacts
  <2> QED BY <2>1, <2>2 DEF TaskIsKnown
<1>3. s2 \in Seq(Task) /\ \A t \in Range(s2) : TaskIsKnown(t)
  <2>1. krate.mentions[d] \in Seq(Values)
    BY KratesAssumption
  <2>2. s2 \in Seq(Task) /\ \A t \in Range(s2) : t.task = "value"
    BY <2>1, ValuesOfFacts
  <2> HIDE DEF s2
  <2> QED BY <2>2 DEF TaskIsKnown
<1>4. s3 \in Seq(Task) /\ \A t \in Range(s3) : TaskIsKnown(t)
  <2>1. CASE Asks(d)
    <3>1. d \in Range(LocalBodies(krate))
      <4>1. d \in Range(krate.body_owners) /\ (FnAsks(d) \/ ConstAsks(d))
        BY <2>1 DEF Asks
      <4>2. IsKept(d)
        BY <4>1 DEF IsKept, FnAsks, ConstAsks, ItemIsKnown
      <4> QED BY <4>1, <4>2, LocalBodiesFacts
    <3>2. BodyOf(d, d) \in Task /\ BodyOf(d, d).task = "body" /\ BodyOf(d, d).arg = d
      BY DEF Task, BodyOf
    <3>3. s3 = <<BodyOf(d, d)>>
      BY <2>1
    <3> HIDE DEF s3
    <3>4. s3 \in Seq(Task) /\ Range(s3) = {BodyOf(d, d)}
      BY <3>2, <3>3, SingletonFacts
    <3> QED BY <3>1, <3>2, <3>4 DEF TaskIsKnown
  <2>2. CASE ~Asks(d)
    <3>1. s3 = <<>>
      BY <2>2
    <3> HIDE DEF s3
    <3>2. s3 \in Seq(Task)
      BY <3>1
    <3> QED BY <3>1, <3>2, RangeEmpty
  <2> QED BY <2>1, <2>2
<1>5. s4 \in Seq(Task) /\ \A t \in Range(s4) : TaskIsKnown(t)
  <2>1. below \in Seq(Defs) /\ \A c \in Range(below) : ItemIsKnown(c)
    BY BelowFacts
  <2>2. f \in [Defs -> Task]
    BY DEF Task, ItemTask
  <2>3. \A c \in Defs : f[c].task = "item" /\ f[c].arg = c
    BY DEF ItemTask
  <2> HIDE DEF below
  <2>4. s4 = [i \in DOMAIN below |-> f[below[i]]]
    <3>1. \A i \in DOMAIN below : below[i] \in Defs
      BY <2>1
    <3> QED BY <3>1
  <2>5. Range(below) \subseteq Defs
    BY <2>1, SeqFacts
  <2> HIDE DEF f, s4
  <2>6. s4 \in Seq(Task) /\ \A y : y \in Range(s4) <=> \E x \in Range(below) : y = f[x]
    BY <2>1, <2>2, <2>4, MapFacts
  <2>7. ASSUME NEW t \in Range(s4) PROVE TaskIsKnown(t)
    <3>1. PICK c \in Range(below) : t = f[c]
      BY <2>6
    <3>2. t.task = "item" /\ t.arg = c /\ ItemIsKnown(c)
      BY <3>1, <2>1, <2>3, <2>5
    <3> QED BY <3>2 DEF TaskIsKnown
  <2> QED BY <2>6, <2>7
<1> HIDE DEF s1, s2, s3, s4
<1>6. s1 \o s2 \in Seq(Task) /\ \A t \in Range(s1 \o s2) : TaskIsKnown(t)
  BY <1>2, <1>3, ConcatFacts
<1> DEFINE s12 == s1 \o s2
<1>7. s12 \in Seq(Task) /\ \A t \in Range(s12) : TaskIsKnown(t)
  BY <1>6
<1> HIDE DEF s12
<1>8. s12 \o s3 \in Seq(Task) /\ \A t \in Range(s12 \o s3) : TaskIsKnown(t)
  BY <1>4, <1>7, ConcatFacts
<1> DEFINE s123 == s12 \o s3
<1>9. s123 \in Seq(Task) /\ \A t \in Range(s123) : TaskIsKnown(t)
  BY <1>8
<1> HIDE DEF s123
<1>10. s123 \o s4 \in Seq(Task) /\ \A t \in Range(s123 \o s4) : TaskIsKnown(t)
  BY <1>5, <1>9, ConcatFacts
<1> QED BY <1>1, <1>10 DEF s123, s12

\* The closures of a body that was asked for were asked for too.
LEMMA ClosuresOfFacts ==
    ASSUME krate \in Krates, NEW o \in Defs, NEW b \in Range(LocalBodies(krate))
    PROVE  ClosuresOf(o, b) \in Seq(Task) /\ \A t \in Range(ClosuresOf(o, b)) : TaskIsKnown(t)
<1> DEFINE cs == Among(Children[b], {c \in Defs : DefKind[c] = "Closure"})
           f == [c \in Defs |-> BodyOf(o, c)]
           m == ClosuresOf(o, b)
<1>1. b \in Range(krate.body_owners) /\ b \in Defs
  <2>1. krate.body_owners \in Seq(Defs)
    BY KratesAssumption
  <2>2. Range(krate.body_owners) \subseteq Defs
    BY <2>1, SeqFacts
  <2> QED BY <2>2, LocalBodiesFacts
<1>2. Children[b] \in Seq(Defs)
  BY <1>1, DefsAssumption
<1>3. /\ cs \in Seq(Defs)
      /\ Range(cs) = Range(Children[b]) \cap {c \in Defs : DefKind[c] = "Closure"}
  BY <1>2, AmongRange
<1>4. ASSUME NEW c \in Range(cs) PROVE c \in Range(LocalBodies(krate)) /\ c \in Defs
  <2>1. c \in Range(Children[b]) /\ c \in Defs /\ DefKind[c] = "Closure"
    BY <1>3
  <2>2. PICK i \in DOMAIN Children[b] : Children[b][i] = c
    BY <2>1 DEF Range
  <2>3. c \in Range(krate.body_owners)
    BY <1>1, <2>1, <2>2, KratesAssumption
  <2>4. IsKept(c)
    BY <2>1 DEF IsKept
  <2> QED BY <2>1, <2>3, <2>4, LocalBodiesFacts
<1>5. f \in [Defs -> Task]
  BY DEF Task, BodyOf
<1>6. \A c \in Defs : f[c].task = "body" /\ f[c].arg = c
  BY DEF BodyOf
<1>7. m = [i \in DOMAIN cs |-> f[cs[i]]]
  <2>1. \A i \in DOMAIN cs : cs[i] \in Defs
    BY <1>3
  <2>2. m = [i \in DOMAIN cs |-> BodyOf(o, cs[i])]
    BY DEF ClosuresOf
  <2> HIDE DEF cs, m
  <2> QED BY <2>1, <2>2
<1> HIDE DEF cs, f, m
<1>8. m \in Seq(Task) /\ \A y : y \in Range(m) <=> \E x \in Range(cs) : y = f[x]
  BY <1>3, <1>5, <1>7, MapFacts
<1>9. ASSUME NEW t \in Range(m) PROVE TaskIsKnown(t)
  <2>1. PICK c \in Range(cs) : t = f[c]
    BY <1>8
  <2>2. t.task = "body" /\ t.arg = c /\ c \in Range(LocalBodies(krate))
    BY <2>1, <1>4, <1>6
  <2> QED BY <2>2 DEF TaskIsKnown
<1> QED BY <1>8, <1>9 DEF m

-----------------------------------------------------------------------------
(* What the steps do to the stack of calls *)

\* The fields of a call.
LEMMA FrameFacts ==
    ASSUME NEW f \in Frame
    PROVE  /\ f.owner \in Defs /\ f.value \in Values \cup {None}
           /\ f.todo \in Seq(Task) /\ f.refs \in SUBSET Nat
BY DEF Frame

\* The fields of a task.
LEMMA TaskFacts ==
    ASSUME NEW t \in Task
    PROVE  /\ t.owner \in Defs /\ t.arg \in Values /\ t.task \in {"value", "body", "item"}
           /\ t.task # "value" => t.arg \in Defs
BY DEF Task, Values

\* The key of a definition is the definition alone.
LEMMA CacheKeyFacts ==
    ASSUME NEW o \in Defs, NEW v \in Values
    PROVE  /\ CacheKey(o, v) \in Defs \X Values
           /\ CacheKey(o, v)[1] \in Defs /\ CacheKey(o, v)[2] = v
           /\ v \in Defs => CacheKey(o, v) = <<v, v>> /\ CacheKey(o, v)[1] = v
BY DEF CacheKey

\* The topmost call.
LEMMA TopFacts ==
    ASSUME stack \in Seq(Frame), stack # <<>>
    PROVE  /\ Len(stack) \in Nat /\ Len(stack) >= 1
           /\ Top = stack[Len(stack)] /\ Top \in Frame
           /\ Top.owner \in Defs /\ Top.value \in Values \cup {None}
           /\ Top.todo \in Seq(Task) /\ Top.refs \in SUBSET Nat
<1>1. Len(stack) \in Nat /\ Len(stack) >= 1 /\ stack[Len(stack)] \in Frame
  OBVIOUS
<1> QED BY <1>1, FrameFacts DEF Top

\* Replacing the topmost call.
LEMMA SetTopFacts ==
    ASSUME stack \in Seq(Frame), stack # <<>>, NEW f \in Frame
    PROVE  /\ SetTop(f) \in Seq(Frame) /\ SetTop(f) # <<>>
           /\ Len(SetTop(f)) = Len(stack)
           /\ SetTop(f)[Len(stack)] = f
           /\ \A n \in 1..(Len(stack) - 1) : SetTop(f)[n] = stack[n]
<1>1. Len(stack) \in Nat /\ Len(stack) >= 1 /\ Len(stack) \in 1..Len(stack)
  OBVIOUS
<1>2. /\ SetTop(f) \in Seq(Frame) /\ Len(SetTop(f)) = Len(stack)
      /\ \A n \in 1..Len(stack) : SetTop(f)[n] = IF n = Len(stack) THEN f ELSE stack[n]
  BY <1>1, ExceptSeq DEF SetTop
<1>3. SetTop(f)[Len(stack)] = f
  BY <1>1, <1>2
<1>4. \A n \in 1..(Len(stack) - 1) : SetTop(f)[n] = stack[n]
  <2>1. \A n \in 1..(Len(stack) - 1) : n \in 1..Len(stack) /\ n # Len(stack)
    BY <1>1
  <2> QED BY <2>1, <1>2
<1>5. SetTop(f) # <<>>
  BY <1>1, <1>2
<1> QED BY <1>2, <1>3, <1>4, <1>5

\* A call that is made and not answered from the cache.
LEMMA PushFacts ==
    ASSUME stack \in Seq(Frame), stack # <<>>, NEW f \in Frame, NEW g \in Frame,
           NEW s, s = Append(SetTop(f), g)
    PROVE  /\ s \in Seq(Frame) /\ s # <<>> /\ Len(s) = Len(stack) + 1
           /\ s[Len(stack) + 1] = g /\ s[Len(stack)] = f
           /\ \A n \in 1..(Len(stack) - 1) : s[n] = stack[n]
<1> DEFINE q == SetTop(f)
<1>1. /\ q \in Seq(Frame) /\ Len(q) = Len(stack) /\ q[Len(stack)] = f
      /\ \A n \in 1..(Len(stack) - 1) : q[n] = stack[n]
  BY SetTopFacts
<1>2. Len(stack) \in Nat /\ Len(stack) >= 1
  OBVIOUS
<1> HIDE DEF q
<1>3. /\ Append(q, g) \in Seq(Frame) /\ Append(q, g) # <<>>
      /\ Len(Append(q, g)) = Len(q) + 1
      /\ \A n \in 1..Len(q) : Append(q, g)[n] = q[n]
      /\ Append(q, g)[Len(q) + 1] = g
  BY <1>1, AppendProperties
<1>4. s = Append(q, g)
  BY DEF q
<1>5. Len(stack) \in 1..Len(q) /\ \A n \in 1..(Len(stack) - 1) : n \in 1..Len(q)
  BY <1>1, <1>2
<1> QED BY <1>1, <1>3, <1>4, <1>5

\* A call that returns to its caller.
LEMMA PopFacts ==
    ASSUME stack \in Seq(Frame), Len(stack) >= 2, NEW f \in Frame,
           NEW s, s = [Callers EXCEPT ![Len(Callers)] = f]
    PROVE  /\ s \in Seq(Frame) /\ s # <<>> /\ Len(s) = Len(stack) - 1
           /\ s[Len(stack) - 1] = f
           /\ \A n \in 1..(Len(stack) - 2) : s[n] = stack[n]
<1> DEFINE L == Len(stack)
<1>1. L \in Nat /\ L >= 2 /\ \A n \in 1..L : stack[n] \in Frame
  OBVIOUS
<1>2. Callers = SubSeq(stack, 1, L - 1)
  BY DEF Callers
<1> HIDE DEF L
<1>3. /\ Callers \in Seq(Frame) /\ Len(Callers) = L - 1
      /\ \A n \in 1..(L - 1) : Callers[n] = stack[n]
  <2>1. 1 \in Int /\ L - 1 \in Int /\ 1 <= L - 1 /\ \A n \in 1..(L - 1) : stack[n] \in Frame
    BY <1>1
  <2>2. /\ SubSeq(stack, 1, L - 1) \in Seq(Frame)
        /\ Len(SubSeq(stack, 1, L - 1)) = IF 1 <= L - 1 THEN (L - 1) - 1 + 1 ELSE 0
        /\ \A n \in 1..((L - 1) - 1 + 1) : SubSeq(stack, 1, L - 1)[n] = stack[1 + n - 1]
    BY <2>1, SubSeqProperties
  <2>3. \A n \in 1..(L - 1) : n \in 1..((L - 1) - 1 + 1) /\ 1 + n - 1 = n
    BY <1>1
  <2> QED BY <2>1, <2>2, <2>3, <1>1, <1>2
<1>4. Len(Callers) \in 1..Len(Callers)
  BY <1>1, <1>3
<1>5. /\ s \in Seq(Frame) /\ Len(s) = Len(Callers)
      /\ \A n \in 1..Len(Callers) : s[n] = IF n = Len(Callers) THEN f ELSE Callers[n]
  BY <1>3, <1>4, ExceptSeq
<1>6. \A n \in 1..(L - 2) : n \in 1..Len(Callers) /\ n # Len(Callers) /\ n \in 1..(L - 1)
  BY <1>1, <1>3
<1>7. s # <<>>
  BY <1>1, <1>3, <1>5
<1> QED BY <1>1, <1>3, <1>4, <1>5, <1>6, <1>7 DEF L

\* CallSInto: the caller goes on, and the value may be called.
CallOf == Head(Top.todo)
KeyOf == CacheKey(CallOf.owner, CallOf.arg)
CallerThen == [Top EXCEPT !.todo = Tail(@), !.refs = @ \cup cache[KeyOf]]
Called == [owner |-> CallOf.owner, value |-> CallOf.arg,
           todo |-> ValuesOf(CallOf.owner, Parts(CallOf.arg)), refs |-> {}]

\* What CallSInto does, in the names above.
LEMMA CallFacts ==
    ASSUME ExportTypes, CallSInto
    PROVE  /\ Len(stack) \in Nat /\ Len(stack) >= 1 /\ stack # <<>>
           /\ CallOf \in Task /\ CallOf.task = "value" /\ CallOf \in Range(Top.todo)
           /\ Range(Top.todo) = {CallOf} \cup Range(Tail(Top.todo))
           /\ CallOf.owner \in Defs /\ CallOf.arg \in Values
           /\ KeyOf \in Defs \X Values /\ KeyOf[2] = CallOf.arg
           /\ KeyOf[1] \in Defs /\ (CallOf.arg \in Defs => KeyOf = <<CallOf.arg, CallOf.arg>>)
           /\ CallerThen \in Frame /\ CallerThen.owner = Top.owner
           /\ CallerThen.value = Top.value /\ CallerThen.todo = Tail(Top.todo)
           /\ CallerThen.refs = Top.refs \cup cache[KeyOf]
           /\ Called \in Frame
           /\ stack' \in Seq(Frame)
           /\ cache[KeyOf] # {} => stack' = SetTop(CallerThen)
           /\ cache[KeyOf] = {} => stack' = Append(SetTop(CallerThen), Called)
           /\ touched' = touched \cup {KeyOf[1]}
<1>1. /\ Len(stack) \in Nat /\ Len(stack) >= 1 /\ stack # <<>>
      /\ Top \in Frame /\ Top.todo \in Seq(Task) /\ Top.refs \in SUBSET Nat
      /\ Top.owner \in Defs /\ Top.value \in Values \cup {None}
  BY TopFacts DEF ExportTypes, CallSInto
<1>2. Top.todo # <<>> /\ CallOf.task = "value"
  BY DEF CallSInto, CallOf
<1>3. /\ CallOf \in Task /\ Tail(Top.todo) \in Seq(Task) /\ CallOf \in Range(Top.todo)
      /\ Range(Top.todo) = {CallOf} \cup Range(Tail(Top.todo))
  BY <1>1, <1>2, HeadTail DEF CallOf
<1>4. CallOf.owner \in Defs /\ CallOf.arg \in Values
  BY <1>3, TaskFacts
<1>5. /\ KeyOf \in Defs \X Values /\ KeyOf[2] = CallOf.arg /\ KeyOf[1] \in Defs
      /\ CallOf.arg \in Defs => KeyOf = <<CallOf.arg, CallOf.arg>>
  BY <1>4, CacheKeyFacts DEF KeyOf
<1>6. cache[KeyOf] \in SUBSET Nat
  BY <1>5 DEF ExportTypes
<1>7. /\ CallerThen \in Frame /\ CallerThen.owner = Top.owner
      /\ CallerThen.value = Top.value /\ CallerThen.todo = Tail(Top.todo)
      /\ CallerThen.refs = Top.refs \cup cache[KeyOf]
  BY <1>1, <1>3, <1>6 DEF CallerThen, Frame
<1>8. Called \in Frame
  <2>1. ValuesOf(CallOf.owner, Parts(CallOf.arg)) \in Seq(Task)
    BY <1>4, PartsType, ValuesOfFacts
  <2> QED BY <1>4, <2>1 DEF Called, Frame
<1>9. /\ stack' = IF cache[KeyOf] # {} THEN SetTop(CallerThen)
                  ELSE Append(SetTop(CallerThen), Called)
      /\ touched' = touched \cup {KeyOf[1]}
  BY DEF CallSInto, CallOf, KeyOf, CallerThen, Called
<1>10. SetTop(CallerThen) \in Seq(Frame)
  BY <1>1, <1>7, SetTopFacts DEF ExportTypes
<1>11. stack' \in Seq(Frame)
  <2>1. Append(SetTop(CallerThen), Called) \in Seq(Frame)
    BY <1>8, <1>10, AppendProperties
  <2> QED BY <1>9, <1>10, <2>1
<1> QED BY <1>1, <1>2, <1>3, <1>4, <1>5, <1>7, <1>8, <1>9, <1>11

\* ReturnSInto: what the value is for its caller, and the caller that has it.
ReturnedRefs == IF Top.value \notin TraitRefs THEN {next_id} ELSE Top.refs
TopKey == CacheKey(Top.owner, Top.value)
CallerHas == [stack[Len(stack) - 1] EXCEPT !.refs = @ \cup ReturnedRefs]
NewNode == [value |-> Top.value, refs |-> Top.refs]

\* What ReturnSInto does: the caller gets the ids, the cache is filled.
LEMMA ReturnFacts ==
    ASSUME ExportTypes, StackShape, ReturnSInto
    PROVE  /\ Len(stack) \in Nat /\ Len(stack) >= 2 /\ stack # <<>>
           /\ Top = stack[Len(stack)] /\ Top.todo = <<>> /\ Top.value \in Values
           /\ Top.refs \in SUBSET Nat
           /\ TopKey \in Defs \X Values /\ TopKey[2] = Top.value
           /\ Top.value \in Defs => TopKey = <<Top.value, Top.value>>
           /\ CallerHas \in Frame /\ CallerHas.owner = stack[Len(stack) - 1].owner
           /\ CallerHas.value = stack[Len(stack) - 1].value
           /\ CallerHas.todo = stack[Len(stack) - 1].todo
           /\ CallerHas.refs = stack[Len(stack) - 1].refs \cup ReturnedRefs
           /\ ReturnedRefs \in SUBSET Nat
           /\ stack' \in Seq(Frame) /\ stack' # <<>> /\ Len(stack') = Len(stack) - 1
           /\ stack'[Len(stack) - 1] = CallerHas
           /\ \A n \in 1..(Len(stack) - 2) : stack'[n] = stack[n]
           /\ cache' = [cache EXCEPT ![TopKey] = ReturnedRefs]
<1>1. /\ Len(stack) \in Nat /\ Len(stack) >= 1 /\ stack # <<>>
      /\ Top = stack[Len(stack)] /\ Top \in Frame /\ Top.refs \in SUBSET Nat
      /\ Top.owner \in Defs /\ Top.value \in Values \cup {None}
  BY TopFacts DEF ExportTypes, ReturnSInto
<1>2. Top.todo = <<>> /\ Top.value # None
  BY DEF ReturnSInto
<1>3. Len(stack) >= 2
  BY <1>1, <1>2 DEF StackShape
<1>4. Top.value \in Values
  BY <1>1, <1>2
<1>5. /\ TopKey \in Defs \X Values /\ TopKey[2] = Top.value
      /\ Top.value \in Defs => TopKey = <<Top.value, Top.value>>
  BY <1>1, <1>4, CacheKeyFacts DEF TopKey
<1>6. ReturnedRefs \in SUBSET Nat
  BY <1>1 DEF ReturnedRefs, ExportTypes
<1>7. stack[Len(stack) - 1] \in Frame
  <2>1. Len(stack) - 1 \in 1..Len(stack)
    BY <1>1, <1>3
  <2> QED BY <2>1 DEF ExportTypes
<1>8. /\ CallerHas \in Frame /\ CallerHas.owner = stack[Len(stack) - 1].owner
      /\ CallerHas.value = stack[Len(stack) - 1].value
      /\ CallerHas.todo = stack[Len(stack) - 1].todo
      /\ CallerHas.refs = stack[Len(stack) - 1].refs \cup ReturnedRefs
  BY <1>6, <1>7 DEF CallerHas, Frame
<1>9. /\ stack' = [Callers EXCEPT ![Len(Callers)] = CallerHas]
      /\ cache' = [cache EXCEPT ![TopKey] = ReturnedRefs]
  BY DEF ReturnSInto, CallerHas, ReturnedRefs, TopKey
<1>10. /\ stack' \in Seq(Frame) /\ stack' # <<>> /\ Len(stack') = Len(stack) - 1
       /\ stack'[Len(stack) - 1] = CallerHas
       /\ \A n \in 1..(Len(stack) - 2) : stack'[n] = stack[n]
  <2>1. stack \in Seq(Frame)
    BY DEF ExportTypes
  <2> DEFINE s == stack'
  <2>2. s = [Callers EXCEPT ![Len(Callers)] = CallerHas]
    BY <1>9
  <2> HIDE DEF s
  <2>3. /\ s \in Seq(Frame) /\ s # <<>> /\ Len(s) = Len(stack) - 1
        /\ s[Len(stack) - 1] = CallerHas
        /\ \A n \in 1..(Len(stack) - 2) : s[n] = stack[n]
    <3>1. Len(stack) >= 2 /\ CallerHas \in Frame
      BY <1>3, <1>8
    <3>2. s \in Seq(Frame) /\ s # <<>> /\ Len(s) = Len(stack) - 1
      BY ONLY <3>1, <2>1, <2>2, PopFacts
    <3>3. s[Len(stack) - 1] = CallerHas
      BY ONLY <3>1, <2>1, <2>2, PopFacts
    <3>4. \A n \in 1..(Len(stack) - 2) : s[n] = stack[n]
      BY ONLY <3>1, <2>1, <2>2, PopFacts
    <3> QED BY <3>2, <3>3, <3>4
  <2> QED BY <2>3 DEF s
<1> QED BY <1>1, <1>2, <1>3, <1>4, <1>5, <1>6, <1>8, <1>9, <1>10

\* A node is put at the end of the table, and the others stay.
LEMMA NodeFacts ==
    ASSUME ExportTypes, StackShape, ReturnSInto, Top.value \notin TraitRefs
    PROVE  /\ next_id' = next_id + 1 /\ ReturnedRefs = {next_id} /\ next_id \notin Ids
           /\ Ids' = Ids \cup {next_id} /\ next_id \in Nat
           /\ table' \in [Ids' -> Node] /\ table'[next_id] = NewNode
           /\ NewNode.value = Top.value /\ NewNode.refs = Top.refs
           /\ \A i \in Ids : table'[i] = table[i]
<1>1. next_id' = next_id + 1 /\ table' = Put(table, next_id, NewNode) /\ ReturnedRefs = {next_id}
  BY DEF ReturnSInto, FreshId, NewNode, ReturnedRefs
<1>2. next_id \in Nat /\ table \in [Ids -> Node] /\ DOMAIN table = Ids
  BY DEF ExportTypes
<1>3. next_id \notin Ids /\ Ids' = Ids \cup {next_id}
  BY <1>1, <1>2 DEF Ids
<1>4. NewNode \in Node /\ NewNode.value = Top.value /\ NewNode.refs = Top.refs
  BY ReturnFacts DEF NewNode, Node
<1> HIDE DEF Ids
<1>5. table' = [i \in Ids \cup {next_id} |-> IF i = next_id THEN NewNode ELSE table[i]]
  BY <1>1, <1>2 DEF Put
<1>6. table' \in [Ids' -> Node] /\ table'[next_id] = NewNode
  BY <1>2, <1>3, <1>4, <1>5
<1>7. \A i \in Ids : table'[i] = table[i]
  BY <1>3, <1>5
<1> QED BY <1>1, <1>2, <1>3, <1>4, <1>6, <1>7

\* A trait reference has no node: the ids of its parts are handed on.
LEMMA NoNodeFacts ==
    ASSUME ReturnSInto, Top.value \in TraitRefs
    PROVE  /\ next_id' = next_id /\ ReturnedRefs = Top.refs
           /\ Ids' = Ids /\ table' = table
BY DEF ReturnSInto, ReturnedRefs, Ids

\* EnterItem and GetBody are steps of an item, which no call is under.
LEMMA ItemFacts ==
    ASSUME ExportTypes, StackShape, EnterItem \/ GetBody
    PROVE  /\ Len(stack) = 1 /\ stack # <<>> /\ Top = stack[1] /\ Top.value = None
           /\ CallOf \in Task /\ CallOf \in Range(Top.todo) /\ CallOf.arg \in Defs
           /\ CallOf.owner \in Defs
           /\ Top \in Frame /\ Tail(Top.todo) \in Seq(Task)
           /\ Range(Top.todo) = {CallOf} \cup Range(Tail(Top.todo))
<1>1. stack # <<>> /\ Top.todo # <<>> /\ CallOf.task # "value"
  BY DEF EnterItem, GetBody, CallOf
<1>2. /\ Len(stack) \in Nat /\ Len(stack) >= 1 /\ Top = stack[Len(stack)]
      /\ Top \in Frame /\ Top.todo \in Seq(Task)
  BY <1>1, TopFacts DEF ExportTypes
<1>3. /\ CallOf \in Task /\ Tail(Top.todo) \in Seq(Task) /\ CallOf \in Range(Top.todo)
      /\ Range(Top.todo) = {CallOf} \cup Range(Tail(Top.todo))
  BY <1>1, <1>2, HeadTail DEF CallOf
<1>4. CallOf.owner \in Defs /\ CallOf.arg \in Defs
  BY <1>1, <1>3, TaskFacts
<1>5. Len(stack) = 1
  <2>1. Len(stack) >= 2 => Len(stack) \in 2..Len(stack)
    BY <1>2
  <2>2. Len(stack) >= 2 => \A t \in Range(Top.todo) : t.task = "value"
    BY <2>1, <1>2 DEF StackShape
  <2> QED BY <1>1, <1>2, <1>3, <2>2
<1>6. Top.value = None
  BY <1>1, <1>2, <1>5 DEF StackShape
<1> QED BY <1>1, <1>2, <1>3, <1>4, <1>5, <1>6

\* The tasks that take the place of the one that was begun.
Begins(s) == [Top EXCEPT !.todo = s]

\* The topmost call begins other tasks.
LEMMA BeginFacts ==
    ASSUME stack \in Seq(Frame), stack # <<>>, Top \in Frame, NEW s \in Seq(Task)
    PROVE  /\ Begins(s) \in Frame /\ Begins(s).owner = Top.owner /\ Begins(s).value = Top.value
           /\ Begins(s).todo = s /\ Begins(s).refs = Top.refs
           /\ SetTop(Begins(s)) \in Seq(Frame) /\ SetTop(Begins(s)) # <<>>
           /\ Len(SetTop(Begins(s))) = Len(stack)
           /\ SetTop(Begins(s))[Len(stack)] = Begins(s)
<1>1. /\ Begins(s) \in Frame /\ Begins(s).owner = Top.owner /\ Begins(s).value = Top.value
      /\ Begins(s).todo = s /\ Begins(s).refs = Top.refs
  BY DEF Begins, Frame
<1> QED BY <1>1, SetTopFacts

EnterTodo == ItemTasks(CallOf.arg) \o Tail(Top.todo)

\* EnterItem, in the names above.
LEMMA EnterFacts ==
    ASSUME ExportTypes, StackShape, TasksAreKnown, EnterItem
    PROVE  /\ EnterTodo \in Seq(Task) /\ stack' = SetTop(Begins(EnterTodo))
           /\ \A t \in Range(EnterTodo) : TaskIsKnown(t)
<1>1. /\ stack # <<>> /\ Len(stack) = 1 /\ Top = stack[1]
      /\ CallOf \in Range(Top.todo) /\ CallOf.arg \in Defs
      /\ Tail(Top.todo) \in Seq(Task) /\ Top \in Frame
      /\ Range(Top.todo) = {CallOf} \cup Range(Tail(Top.todo))
  BY ItemFacts
<1>2. \A t \in Range(Top.todo) : TaskIsKnown(t)
  <2>1. 1 \in 1..Len(stack)
    BY <1>1
  <2> QED BY <1>1, <2>1 DEF TasksAreKnown
<1>3. CallOf.task = "item"
  BY DEF EnterItem, CallOf
<1>4. ItemIsKnown(CallOf.arg)
  BY <1>1, <1>2, <1>3 DEF TaskIsKnown
<1>5. /\ ItemTasks(CallOf.arg) \in Seq(Task)
      /\ \A t \in Range(ItemTasks(CallOf.arg)) : TaskIsKnown(t)
  BY <1>1, <1>4, ItemTasksFacts DEF ExportTypes
<1>6. /\ EnterTodo \in Seq(Task)
      /\ Range(EnterTodo) = Range(ItemTasks(CallOf.arg)) \cup Range(Tail(Top.todo))
  <2> DEFINE s == ItemTasks(CallOf.arg)
             t == Tail(Top.todo)
  <2>1. s \in Seq(Task) /\ t \in Seq(Task)
    BY <1>1, <1>5
  <2> HIDE DEF s, t
  <2>2. s \o t \in Seq(Task) /\ Range(s \o t) = Range(s) \cup Range(t)
    BY <2>1, ConcatFacts
  <2> QED BY <2>2 DEF EnterTodo, s, t
<1>7. \A t \in Range(EnterTodo) : TaskIsKnown(t)
  BY <1>1, <1>2, <1>5, <1>6
<1>8. stack' = SetTop(Begins(EnterTodo))
  <2>1. stack' = SetTop([Top EXCEPT !.todo = ItemTasks(Head(@).arg) \o Tail(@)])
    BY DEF EnterItem
  <2>2. Top.todo \in Seq(Task)
    BY <1>1, FrameFacts
  <2>3. [Top EXCEPT !.todo = ItemTasks(Head(@).arg) \o Tail(@)] = Begins(EnterTodo)
    BY DEF Begins, EnterTodo, CallOf
  <2> QED BY <2>1, <2>3
<1> QED BY <1>6, <1>7, <1>8

BodyTodo ==
    LET closures == IF "Thir" \in krate.body_types THEN ClosuresOf(CallOf.owner, CallOf.arg)
                    ELSE <<>>
    IN  closures \o ValuesOf(CallOf.owner, krate.mentions[CallOf.arg]) \o Tail(Top.todo)

\* GetBody, in the names above: the body was precomputed.
LEMMA BodyFacts ==
    ASSUME ExportTypes, StackShape, TasksAreKnown, GetBody
    PROVE  /\ BodyTodo \in Seq(Task) /\ stack' = SetTop(Begins(BodyTodo))
           /\ \A t \in Range(BodyTodo) : TaskIsKnown(t)
           /\ CallOf.arg \in Range(LocalBodies(krate))
           /\ touched' = touched \cup {CallOf.arg}
<1>1. /\ stack # <<>> /\ Len(stack) = 1 /\ Top = stack[1]
      /\ CallOf \in Range(Top.todo) /\ CallOf.arg \in Defs /\ CallOf.owner \in Defs
      /\ Tail(Top.todo) \in Seq(Task) /\ Top \in Frame
      /\ Range(Top.todo) = {CallOf} \cup Range(Tail(Top.todo))
  BY ItemFacts
<1>2. \A t \in Range(Top.todo) : TaskIsKnown(t)
  <2>1. 1 \in 1..Len(stack)
    BY <1>1
  <2> QED BY <1>1, <2>1 DEF TasksAreKnown
<1>3. CallOf.task = "body"
  BY DEF GetBody, CallOf
<1>4. CallOf.arg \in Range(LocalBodies(krate))
  BY <1>1, <1>2, <1>3 DEF TaskIsKnown
<1> DEFINE closures == IF "Thir" \in krate.body_types THEN ClosuresOf(CallOf.owner, CallOf.arg)
                       ELSE <<>>
           named == ValuesOf(CallOf.owner, krate.mentions[CallOf.arg])
           rest == Tail(Top.todo)
<1>5. closures \in Seq(Task) /\ \A t \in Range(closures) : TaskIsKnown(t)
  <2>1. /\ ClosuresOf(CallOf.owner, CallOf.arg) \in Seq(Task)
        /\ \A t \in Range(ClosuresOf(CallOf.owner, CallOf.arg)) : TaskIsKnown(t)
    BY <1>1, <1>4, ClosuresOfFacts DEF ExportTypes
  <2>2. <<>> \in Seq(Task) /\ \A t \in Range(<<>>) : TaskIsKnown(t)
    BY RangeEmpty
  <2> QED BY <2>1, <2>2
<1>6. named \in Seq(Task) /\ \A t \in Range(named) : TaskIsKnown(t)
  <2>1. krate.mentions[CallOf.arg] \in Seq(Values)
    BY <1>1, KratesAssumption DEF ExportTypes
  <2>2. named \in Seq(Task) /\ \A t \in Range(named) : t.task = "value"
    BY <1>1, <2>1, ValuesOfFacts
  <2> HIDE DEF named
  <2> QED BY <2>2 DEF TaskIsKnown
<1>7. rest \in Seq(Task) /\ \A t \in Range(rest) : TaskIsKnown(t)
  BY <1>1, <1>2
<1>8. BodyTodo = (closures \o named) \o rest
  BY DEF BodyTodo
<1> HIDE DEF closures, named, rest
<1> DEFINE both == closures \o named
<1>9. both \in Seq(Task) /\ \A t \in Range(both) : TaskIsKnown(t)
  BY <1>5, <1>6, ConcatFacts
<1> HIDE DEF both
<1>10. both \o rest \in Seq(Task) /\ \A t \in Range(both \o rest) : TaskIsKnown(t)
  BY <1>7, <1>9, ConcatFacts
<1>11. stack' = SetTop(Begins(BodyTodo)) /\ touched' = touched \cup {CallOf.arg}
  <2>1. stack' = SetTop([Top EXCEPT !.todo = BodyTodo])
    <3>1. stack' = SetTop([Top EXCEPT !.todo =
                       (IF "Thir" \in krate.body_types THEN ClosuresOf(CallOf.owner, CallOf.arg)
                        ELSE <<>>)
                       \o ValuesOf(CallOf.owner, krate.mentions[CallOf.arg]) \o Tail(@)])
      BY DEF GetBody, CallOf
    <3> QED BY <3>1 DEF BodyTodo
  <2> QED BY <2>1 DEF Begins, GetBody, CallOf
<1> QED BY <1>4, <1>8, <1>10, <1>11 DEF both

\* A call that begins an item, or the ImplInfos of an implementation.
LEMMA RootFacts ==
    ASSUME NEW d \in Defs, NEW s \in Seq(Task)
    PROVE  /\ Root(d, s) \in Seq(Frame) /\ Root(d, s) # <<>> /\ Len(Root(d, s)) = 1
           /\ Root(d, s)[1].owner = d /\ Root(d, s)[1].value = None
           /\ Root(d, s)[1].todo = s /\ Root(d, s)[1].refs = {}
<1> DEFINE f == [owner |-> d, value |-> None, todo |-> s, refs |-> {}]
<1>1. f \in Frame /\ f.owner = d /\ f.value = None /\ f.todo = s /\ f.refs = {}
  BY DEF Frame
<1>2. Root(d, s) = <<f>>
  BY DEF Root
<1> HIDE DEF f
<1>3. <<f>> \in Seq(Frame) /\ Len(<<f>>) = 1 /\ <<f>>[1] = f /\ <<f>> # <<>>
  BY <1>1
<1> QED BY <1>1, <1>2, <1>3

\* What the ImplInfos of an implementation ask for.
LEMMA InfosTasksFacts ==
    ASSUME krate \in Krates, NEW d \in Defs
    PROVE  LET s == <<Value(d, d)>> \o ValuesOf(d, krate.mentions[d])
           IN  s \in Seq(Task) /\ \A t \in Range(s) : TaskIsKnown(t)
<1> DEFINE s1 == <<Value(d, d)>>
           s2 == ValuesOf(d, krate.mentions[d])
<1>1. Value(d, d) \in Task /\ Value(d, d).task = "value"
  BY DEF Task, Value, Values
<1>2. s1 \in Seq(Task) /\ Range(s1) = {Value(d, d)}
  BY <1>1, SingletonFacts
<1>3. krate.mentions[d] \in Seq(Values)
  BY KratesAssumption
<1>4. s2 \in Seq(Task) /\ \A t \in Range(s2) : t.task = "value"
  BY <1>3, ValuesOfFacts
<1> HIDE DEF s1, s2
<1>5. s1 \o s2 \in Seq(Task) /\ Range(s1 \o s2) = Range(s1) \cup Range(s2)
  BY <1>2, <1>4, ConcatFacts
<1>6. \A t \in Range(s1 \o s2) : TaskIsKnown(t)
  BY <1>1, <1>2, <1>4, <1>5 DEF TaskIsKnown
<1> QED BY <1>5, <1>6 DEF s1, s2

\* WithParents is a recursion: it starts from the definitions, and a step adds
\* those that enclose them.
LEMMA WithParentsFacts ==
    ASSUME NEW ds \in SUBSET Defs
    PROVE  ds \subseteq WithParents(ds) /\ WithParents(ds) \subseteq Defs
<1> DEFINE N == Cardinality(Defs)
           Up(below) == below \cup ({Parent[d] : d \in below} \ {None})
           D == SUBSET Defs
           step == [p \in D \X (1..N) |-> Up(p[1])]
<1>1. N \in Nat
  BY DefsAssumption, FS_CardinalityType
<1>2. \A below \in D : Up(below) \in D /\ below \subseteq Up(below)
  BY DefsAssumption
<1> HIDE DEF N, Up
<1>3. step \in [D \X (1..N) -> D] /\ \A b \in D, n \in 1..N : step[<<b, n>>] = Up(b)
  BY <1>2
<1>4. ds \in D
  OBVIOUS
<1> HIDE DEF D, step
<1>5. PICK f : IsRecursion(f, D, ds, N, step)
  BY <1>1, <1>3, <1>4, RecursionExists
<1>6. \A n \in 0..N : n # 0 => n \in 1..N /\ n - 1 \in 0..N /\ f[n - 1] \in D
  BY <1>1, <1>5 DEF IsRecursion
<1>7. f = [n \in 0..N |-> IF n = 0 THEN ds ELSE Up(f[n - 1])]
  BY <1>3, <1>5, <1>6 DEF IsRecursion
<1> DEFINE up == CHOOSE g : g = [n \in 0..N |-> IF n = 0 THEN ds ELSE Up(g[n - 1])]
<1>8. up = [n \in 0..N |-> IF n = 0 THEN ds ELSE Up(up[n - 1])]
  BY <1>7
<1>9. WithParents(ds) = up[N]
  BY DEF WithParents, Up, N
<1> HIDE DEF up
<1> DEFINE T == {n \in 0..N : up[n] \in D /\ ds \subseteq up[n]}
<1>10. 0 \in T
  BY <1>1, <1>4, <1>8
<1>11. ASSUME NEW n \in 0..(N - 1), n \in T PROVE n + 1 \in T
  <2>1. n + 1 \in 0..N /\ n + 1 # 0 /\ (n + 1) - 1 = n
    BY <1>1
  <2>2. up[n + 1] = Up(up[n])
    BY <2>1, <1>8
  <2>3. up[n] \in D /\ ds \subseteq up[n]
    BY <1>11
  <2>4. up[n + 1] \in D /\ ds \subseteq up[n + 1]
    BY <2>2, <2>3, <1>2
  <2> QED BY <2>1, <2>4
<1>12. 0..N \subseteq T
  <2> HIDE DEF T
  <2> QED BY <1>1, <1>10, <1>11, IntervalInduction
<1>13. N \in 0..N
  BY <1>1
<1>14. up[N] \in D /\ ds \subseteq up[N]
  BY <1>12, <1>13
<1> QED BY <1>9, <1>14 DEF D

\* A sequence without repetitions that is as long as a finite set has elements
\* holds them all.
LEMMA SetToSeqsFacts ==
    ASSUME NEW S, IsFiniteSet(S), NEW s \in SetToSeqs(S)
    PROVE  s \in Seq(S) /\ Range(s) = S
<1> DEFINE N == Cardinality(S)
<1>1. N \in Nat
  BY FS_CardinalityType
<1>2. s \in [1..N -> S] /\ \A i, j \in 1..N : i # j => s[i] # s[j]
  BY DEF SetToSeqs
<1>3. s \in Injection(1..N, S)
  BY <1>2 DEF Injection, IsInjective
<1> HIDE DEF N
<1>4. IsFiniteSet(1..N) /\ Cardinality(1..N) = N
  <2>1. 1 \in Int /\ N \in Int
    BY <1>1
  <2>2. IsFiniteSet(1..N) /\ Cardinality(1..N) = IF 1 > N THEN 0 ELSE N - 1 + 1
    BY <2>1, FS_Interval
  <2>3. (IF 1 > N THEN 0 ELSE N - 1 + 1) = N
    BY <1>1
  <2> QED BY <2>2, <2>3
<1>5. s \in Surjection(1..N, S)
  BY <1>3, <1>4, FS_Injection DEF N
<1>6. \A x \in S : \E i \in 1..N : s[i] = x
  BY <1>5 DEF Surjection
<1>7. s \in Seq(S)
  BY <1>1, <1>2
<1> QED BY <1>2, <1>6, <1>7 DEF Range

\* The implementations whose ImplInfos are asked for.
LEMMA ImplListType ==
    ASSUME touched \subseteq Defs, ItemsDone
    PROVE  /\ todo_items' \in Seq(Defs)
           /\ \A d \in touched : DefKind[d] = "Impl" => d \in Range(todo_items')
<1> DEFINE S == {d \in WithParents(touched) : DefKind[d] = "Impl"}
<1>1. S \subseteq Defs /\ \A d \in touched : DefKind[d] = "Impl" => d \in S
  BY WithParentsFacts
<1>2. IsFiniteSet(S)
  BY <1>1, DefsAssumption, FS_Subset
<1>3. todo_items' \in SetToSeqs(S)
  BY DEF ItemsDone
<1> HIDE DEF S
<1>4. todo_items' \in Seq(S) /\ Range(todo_items') = S
  BY <1>2, <1>3, SetToSeqsFacts
<1> QED BY <1>1, <1>4, SeqMonotonic

-----------------------------------------------------------------------------
(* Types *)

\* What is assumed of the crates.
LEMMA KrateFacts ==
    ASSUME NEW k \in Krates
    PROVE  /\ k.body_owners \in Seq(Defs) /\ k.items \in Seq(Defs)
           /\ k.evaluates \in [Defs -> SUBSET Defs] /\ k.mentions \in [Defs -> Seq(Values)]
           /\ \A b \in Defs : b \notin k.evaluates[b]
           /\ \A i \in DOMAIN k.items : DefKind[k.items[i]] # "AnonConst"
BY KratesAssumption

\* The pairs of the file are the nodes of the table.
LEMMA PairsType ==
    ASSUME next_id \in Nat, table \in [Ids -> Node]
    PROVE  /\ IdValuePairs \in Seq(PairSet) /\ Len(IdValuePairs) = next_id
           /\ \A i \in Ids : /\ IdValuePairs[i + 1].id = i
                             /\ IdValuePairs[i + 1].value = table[i].value
                             /\ IdValuePairs[i + 1].refs = table[i].refs
<1>1. \A i \in 1..next_id : i - 1 \in Ids
  BY DEF Ids
<1>2. \A i \in 1..next_id : Pair(i - 1) \in PairSet
  BY <1>1 DEF Pair, PairSet, Node, Ids
<1>3. IdValuePairs \in [1..next_id -> PairSet]
  BY <1>2 DEF IdValuePairs
<1>4. IdValuePairs \in Seq(PairSet) /\ Len(IdValuePairs) = next_id
  BY <1>3
<1>5. \A i \in Ids : i + 1 \in 1..next_id /\ (i + 1) - 1 = i
  BY DEF Ids
<1>6. \A i \in Ids : IdValuePairs[i + 1] = Pair(i)
  BY <1>5 DEF IdValuePairs
<1>7. \A i \in Ids : Pair(i).id = i /\ Pair(i).value = table[i].value
                      /\ Pair(i).refs = table[i].refs
  BY DEF Pair
<1> QED BY <1>4, <1>6, <1>7

\* The types hold at the start.
LEMMA TypesInit == Init => ExportTypes
<1> SUFFICES ASSUME Init PROVE ExportTypes
  OBVIOUS
<1> USE DEF Init
<1>1. krate \in Krates /\ bodies \in Seq(Defs) /\ todo_items \in Seq(Defs)
  BY LocalBodiesFacts, KrateFacts
<1>2. pc \in Steps
  BY DEF Steps
<1>3. thir \in [Defs -> {"none", "body", "dummy"}] /\ thief \in [Defs -> Defs \cup {None}]
  OBVIOUS
<1>4. stack \in Seq(Frame) /\ touched \subseteq Defs /\ next_id \in Nat
  OBVIOUS
<1>5. cache \in [Defs \X Values -> SUBSET Nat]
  OBVIOUS
<1>6. table \in [Ids -> Node]
  <2>1. DOMAIN table = {} /\ Ids = {}
    BY DEF Ids
  <2>2. table = [i \in DOMAIN table |-> table[i]]
    OBVIOUS
  <2> QED BY <2>1, <2>2
<1>7. haxmeta \in Meta
  BY DEF Meta
<1> QED BY <1>1, <1>2, <1>3, <1>4, <1>5, <1>6, <1>7 DEF ExportTypes

\* Every step keeps the types.
LEMMA TypesStep ==
    ASSUME ExportTypes, StackShape, TasksAreKnown, [Next]_vars
    PROVE  ExportTypes'
<1> USE DEF ExportTypes
<1>1. ASSUME PrecomputeBody PROVE ExportTypes'
  <2> USE <1>1 DEF PrecomputeBody
  <2> DEFINE b == Head(bodies)
  <2>1. b \in Defs /\ Tail(bodies) \in Seq(Defs)
    BY HeadTail
  <2>2. thir' \in [Defs -> {"none", "body", "dummy"}]
    <3>1. \E x \in {"dummy", "body"} : thir' = [thir EXCEPT ![b] = x]
      OBVIOUS
    <3> QED BY <2>1, <3>1
  <2>3. thief' \in [Defs -> Defs \cup {None}]
    <3>1. thief' = [d \in Defs |-> IF thief[d] = None /\ d \in krate.evaluates[b]
                                   THEN b ELSE thief[d]]
      OBVIOUS
    <3> HIDE DEF b
    <3> QED BY <2>1, <3>1
  <2>4. bodies' = Tail(bodies) /\ touched' = touched \cup {b}
    OBVIOUS
  <2>5. /\ UNCHANGED <<krate, pc, todo_items, stack, cache, next_id, table, haxmeta>>
        /\ Ids' = Ids
    BY DEF exportVars, Ids
  <2> QED BY <2>1, <2>2, <2>3, <2>4, <2>5
<1>2. ASSUME BodiesDone PROVE ExportTypes'
  BY <1>2 DEF BodiesDone, bodyVars, tableVars, exportVars, Steps, Ids
<1>3. ASSUME StartItem PROVE ExportTypes'
  <2> USE <1>3 DEF StartItem
  <2> DEFINE d == Head(todo_items)
             s == <<ItemTask(d)>>
  <2>1. d \in Defs /\ Tail(todo_items) \in Seq(Defs)
    BY HeadTail
  <2>2. s \in Seq(Task)
    <3>1. ItemTask(d) \in Task
      BY <2>1 DEF ItemTask, Task
    <3> QED BY <3>1
  <2>3. stack' = Root(d, s)
    OBVIOUS
  <2> HIDE DEF d, s
  <2>4. Root(d, s) \in Seq(Frame)
    BY <2>1, <2>2, RootFacts
  <2>5. /\ UNCHANGED <<krate, pc, bodies, thir, thief, cache, touched, next_id, table, haxmeta>>
        /\ Ids' = Ids
    BY DEF bodyVars, tableVars, exportVars, Ids
  <2>6. stack' \in Seq(Frame) /\ todo_items' \in Seq(Defs)
    BY <2>1, <2>3, <2>4
  <2> QED BY <2>5, <2>6
<1>4. ASSUME EnterItem PROVE ExportTypes'
  <2>1. stack' \in Seq(Frame)
    BY <1>4, ItemFacts, EnterFacts, BeginFacts
  <2>2. /\ UNCHANGED <<krate, pc, bodies, thir, thief, todo_items, cache, touched, next_id,
                       table, haxmeta>>
        /\ Ids' = Ids
    BY <1>4 DEF EnterItem, bodyVars, tableVars, exportVars, Ids
  <2> QED BY <2>1, <2>2
<1>5. ASSUME GetBody PROVE ExportTypes'
  <2>1. stack' \in Seq(Frame)
    BY <1>5, ItemFacts, BodyFacts, BeginFacts
  <2>2. touched' \subseteq Defs
    BY <1>5, ItemFacts, BodyFacts
  <2>3. pc' \in Steps
    BY <1>5 DEF GetBody, Steps
  <2>4. /\ UNCHANGED <<krate, bodies, thir, thief, todo_items, cache, next_id, table, haxmeta>>
        /\ Ids' = Ids
    BY <1>5 DEF GetBody, bodyVars, exportVars, Ids
  <2> QED BY <2>1, <2>2, <2>3, <2>4
<1>6. ASSUME CallSInto PROVE ExportTypes'
  <2>1. stack' \in Seq(Frame) /\ touched' \subseteq Defs
    BY <1>6, CallFacts
  <2>2. /\ UNCHANGED <<krate, pc, bodies, thir, thief, todo_items, cache, next_id, table, haxmeta>>
        /\ Ids' = Ids
    BY <1>6 DEF CallSInto, bodyVars, exportVars, Ids
  <2> QED BY <2>1, <2>2
<1>7. ASSUME ReturnSInto PROVE ExportTypes'
  <2>1. stack' \in Seq(Frame) /\ cache' \in [Defs \X Values -> SUBSET Nat]
    BY <1>7, ReturnFacts
  <2>2. next_id' \in Nat /\ table' \in [Ids' -> Node]
    BY <1>7, NodeFacts, NoNodeFacts
  <2>3. UNCHANGED <<krate, pc, bodies, thir, thief, todo_items, touched, haxmeta>>
    BY <1>7 DEF ReturnSInto, bodyVars, exportVars
  <2> HIDE DEF ExportTypes
  <2>4. /\ krate \in Krates /\ pc \in Steps /\ bodies \in Seq(Defs)
        /\ thir \in [Defs -> {"none", "body", "dummy"}]
        /\ thief \in [Defs -> Defs \cup {None}]
        /\ todo_items \in Seq(Defs) /\ touched \subseteq Defs /\ haxmeta \in Meta
    BY DEF ExportTypes
  <2> QED BY <2>1, <2>2, <2>3, <2>4 DEF ExportTypes
<1>8. ASSUME FinishItem PROVE ExportTypes'
  <2>1. haxmeta' \in Meta /\ stack' \in Seq(Frame)
    <3>1. stack # <<>>
      <4>1. Len(stack) = 1
        BY <1>8 DEF FinishItem
      <4> QED BY <4>1, LenNotEmpty
    <3>2. Top.refs \in SUBSET Nat
      BY <3>1, TopFacts
    <3>3. haxmeta \in Meta /\ stack' = <<>>
          /\ haxmeta' = [haxmeta EXCEPT !.items = @ \cup Top.refs]
      BY <1>8 DEF FinishItem
    <3> HIDE DEF ExportTypes
    <3>4. haxmeta' \in Meta
      BY <3>2, <3>3 DEF Meta
    <3> QED BY <3>3, <3>4
  <2>2. /\ UNCHANGED <<krate, pc, bodies, thir, thief, todo_items, cache, touched, next_id, table>>
        /\ Ids' = Ids
    BY <1>8 DEF FinishItem, bodyVars, tableVars, Ids
  <2> QED BY <2>1, <2>2
<1>9. ASSUME ItemsDone PROVE ExportTypes'
  <2> DEFINE S == {d \in WithParents(touched) : DefKind[d] = "Impl"}
  <2>1. todo_items' \in Seq(Defs)
    BY <1>9, ImplListType DEF ItemsDone
  <2>2. pc' \in Steps
    BY <1>9 DEF ItemsDone, Steps
  <2>3. /\ UNCHANGED <<krate, bodies, thir, thief, stack, cache, touched, next_id, table, haxmeta>>
        /\ Ids' = Ids
    BY <1>9 DEF ItemsDone, bodyVars, tableVars, exportVars, Ids
  <2> QED BY <2>1, <2>2, <2>3
<1>10. ASSUME StartImplInfos PROVE ExportTypes'
  <2> USE <1>10 DEF StartImplInfos
  <2> DEFINE d == Head(todo_items)
             s == <<Value(d, d)>> \o ValuesOf(d, krate.mentions[d])
  <2>1. d \in Defs /\ Tail(todo_items) \in Seq(Defs)
    BY HeadTail
  <2>2. stack' = Root(d, s)
    OBVIOUS
  <2>3. s \in Seq(Task)
    BY <2>1, InfosTasksFacts
  <2> HIDE DEF d, s
  <2>4. Root(d, s) \in Seq(Frame)
    BY <2>1, <2>3, RootFacts
  <2>5. /\ UNCHANGED <<krate, pc, bodies, thir, thief, cache, touched, next_id, table, haxmeta>>
        /\ Ids' = Ids
    BY DEF bodyVars, tableVars, exportVars, Ids
  <2>6. stack' \in Seq(Frame) /\ todo_items' \in Seq(Defs)
    BY <2>1, <2>2, <2>4
  <2> QED BY <2>5, <2>6
<1>11. ASSUME FinishImplInfos PROVE ExportTypes'
  <2>1. haxmeta' \in Meta /\ stack' \in Seq(Frame)
    <3>1. Top.refs \in SUBSET Nat /\ Top.owner \in Defs
      <4>1. stack # <<>>
        BY <1>11, LenNotEmpty DEF FinishImplInfos
      <4> QED BY <4>1, TopFacts
    <3>2. haxmeta \in Meta /\ stack' = <<>>
          /\ haxmeta' = [haxmeta EXCEPT !.impl_infos = @ \cup Top.refs,
                                       !.impls = @ \cup {Top.owner}]
      BY <1>11 DEF FinishImplInfos
    <3> HIDE DEF ExportTypes
    <3>3. haxmeta' \in Meta
      BY <3>1, <3>2 DEF Meta
    <3> QED BY <3>2, <3>3
  <2>2. /\ UNCHANGED <<krate, pc, bodies, thir, thief, todo_items, cache, touched, next_id, table>>
        /\ Ids' = Ids
    BY <1>11 DEF FinishImplInfos, bodyVars, tableVars, Ids
  <2> QED BY <2>1, <2>2
<1>12. ASSUME Export PROVE ExportTypes'
  <2>1. UNION {cache[<<d, d>>] : d \in touched} \in SUBSET Nat
    <3>1. \A d \in touched : cache[<<d, d>>] \in SUBSET Nat
      BY DEF Values
    <3> QED BY <3>1
  <2>2. IdValuePairs \in Seq(PairSet)
    BY PairsType
  <2>3. haxmeta' = [haxmeta EXCEPT !.def_ids = UNION {cache[<<d, d>>] : d \in touched},
                                   !.table = IdValuePairs]
    BY <1>12 DEF Export
  <2>4. haxmeta' \in Meta
    <3> DEFINE ids == UNION {cache[<<d, d>>] : d \in touched}
    <3>1. ids \in SUBSET Nat
      BY <2>1
    <3> HIDE DEF ids
    <3> QED BY <2>2, <2>3, <3>1 DEF Meta, ids
  <2>5. pc' \in Steps
    BY <1>12 DEF Export, Steps, Reading
  <2>6. /\ UNCHANGED <<krate, bodies, thir, thief, todo_items, stack, cache, touched, next_id, table>>
        /\ Ids' = Ids
    BY <1>12 DEF Export, bodyVars, tableVars, Ids
  <2> QED BY <2>4, <2>5, <2>6
<1>13. ASSUME ReadPair PROVE ExportTypes'
  BY <1>13 DEF ReadPair, bodyVars, tableVars, Ids, Steps, Reading
<1>14. ASSUME ReadValue PROVE ExportTypes'
  BY <1>14 DEF ReadValue, bodyVars, tableVars, exportVars, Ids, Steps, Reading
<1>15. ASSUME UNCHANGED vars PROVE ExportTypes'
  BY <1>15 DEF vars, Ids
<1> QED BY <1>1, <1>2, <1>3, <1>4, <1>5, <1>6, <1>7, <1>8, <1>9, <1>10, <1>11, <1>12,
           <1>13, <1>14, <1>15 DEF Next

-----------------------------------------------------------------------------
(* The shape of the stack *)

\* The calls after CallSInto: the caller goes on, and one more call may begin.
LEMMA CallShape ==
    ASSUME ExportTypes, CallSInto
    PROVE  /\ stack'[Len(stack)] = CallerThen /\ stack' # <<>>
           /\ \A n \in 1..(Len(stack) - 1) : stack'[n] = stack[n]
           /\ cache[KeyOf] # {} => Len(stack') = Len(stack)
           /\ cache[KeyOf] = {} => Len(stack') = Len(stack) + 1 /\ stack'[Len(stack) + 1] = Called
           /\ \A n \in 1..Len(stack) : stack'[n].value = stack[n].value
                                       /\ stack'[n].owner = stack[n].owner
<1>1. /\ stack \in Seq(Frame) /\ stack # <<>> /\ CallerThen \in Frame /\ Called \in Frame
      /\ cache[KeyOf] # {} => stack' = SetTop(CallerThen)
      /\ cache[KeyOf] = {} => stack' = Append(SetTop(CallerThen), Called)
      /\ CallerThen.value = Top.value /\ CallerThen.owner = Top.owner
  BY CallFacts DEF ExportTypes
<1>2. CASE cache[KeyOf] # {}
  <2>1. /\ stack' # <<>> /\ Len(stack') = Len(stack) /\ stack'[Len(stack)] = CallerThen
        /\ \A n \in 1..(Len(stack) - 1) : stack'[n] = stack[n]
    BY <1>1, <1>2, SetTopFacts
  <2> QED BY <2>1, <1>1, <1>2, TopFacts
<1>3. CASE cache[KeyOf] = {}
  <2> DEFINE s == stack'
  <2>1. s = Append(SetTop(CallerThen), Called)
    BY <1>1, <1>3
  <2> HIDE DEF s
  <2>2. /\ s # <<>> /\ Len(s) = Len(stack) + 1 /\ s[Len(stack) + 1] = Called
        /\ s[Len(stack)] = CallerThen /\ \A n \in 1..(Len(stack) - 1) : s[n] = stack[n]
    <3>1. stack \in Seq(Frame) /\ stack # <<>> /\ CallerThen \in Frame /\ Called \in Frame
      BY <1>1
    <3> DEFINE f == CallerThen
               g == Called
    <3>2. f \in Frame /\ g \in Frame /\ s = Append(SetTop(f), g)
      BY <3>1, <2>1
    <3>3. stack \in Seq(Frame) /\ stack # <<>>
      BY <3>1
    <3> HIDE DEF f, g
    <3>4. /\ s # <<>> /\ Len(s) = Len(stack) + 1 /\ s[Len(stack) + 1] = g
          /\ s[Len(stack)] = f /\ \A n \in 1..(Len(stack) - 1) : s[n] = stack[n]
      BY <3>2, <3>3, PushFacts
    <3> QED BY <3>4 DEF f, g
  <2>3. \A n \in 1..Len(stack) : s[n].value = stack[n].value /\ s[n].owner = stack[n].owner
    BY <1>1, <2>2, TopFacts
  <2> QED BY <1>3, <2>2, <2>3 DEF s
<1> QED BY <1>2, <1>3

\* There are no calls on the empty stack.
LEMMA NoFrames == Len(<<>>) = 0
OBVIOUS

\* A call is of a part of its caller, of lower rank than all the calls below.
LEMMA ShapeCall ==
    ASSUME ExportTypes, StackShape, CallSInto
    PROVE  StackShape'
<1> DEFINE L == Len(stack)
<1>1. /\ L \in Nat /\ L >= 1 /\ stack # <<>> /\ CallOf \in Range(Top.todo) /\ CallOf.task = "value"
      /\ Range(Top.todo) = {CallOf} \cup Range(Tail(Top.todo))
      /\ CallOf.arg \in Values /\ CallOf.owner \in Defs /\ Top = stack[L]
      /\ CallerThen.value = Top.value /\ CallerThen.todo = Tail(Top.todo)
  BY CallFacts, TopFacts DEF ExportTypes
<1>2. /\ stack'[L] = CallerThen /\ stack' # <<>>
      /\ \A n \in 1..(L - 1) : stack'[n] = stack[n]
      /\ cache[KeyOf] # {} => Len(stack') = L
      /\ cache[KeyOf] = {} => Len(stack') = L + 1 /\ stack'[L + 1] = Called
      /\ \A n \in 1..L : stack'[n].value = stack[n].value
  BY CallShape
<1>3. /\ Called.value = CallOf.arg
      /\ \A t \in Range(Called.todo) : t.task = "value" /\ t.arg \in Range(Parts(Called.value))
  <2>1. Parts(CallOf.arg) \in Seq(Values)
    BY <1>1, PartsType
  <2>2. Called.value = CallOf.arg /\ Called.todo = ValuesOf(CallOf.owner, Parts(CallOf.arg))
    BY DEF Called
  <2> QED BY <1>1, <2>1, <2>2, ValuesOfFacts
<1> HIDE DEF L
<1>4. stack'[1].value = None
  BY <1>1, <1>2 DEF StackShape
<1>5. pc' \notin {"bodies"} \cup Reading
  BY DEF CallSInto, Reading
<1>6. \A n \in 2..L : /\ stack[n].value \in Values
                      /\ \A t \in Range(stack[n].todo) :
                            t.task = "value" /\ t.arg \in Range(Parts(stack[n].value))
  BY DEF StackShape, L
<1>7. \A n \in 2..L : /\ stack'[n].value \in Values
                      /\ \A t \in Range(stack'[n].todo) :
                            t.task = "value" /\ t.arg \in Range(Parts(stack'[n].value))
  <2> SUFFICES ASSUME NEW n \in 2..L
               PROVE  /\ stack'[n].value \in Values
                      /\ \A t \in Range(stack'[n].todo) :
                            t.task = "value" /\ t.arg \in Range(Parts(stack'[n].value))
    OBVIOUS
  <2>1. CASE n = L
    <3>1. stack'[n].todo = Tail(Top.todo) /\ Range(Tail(Top.todo)) \subseteq Range(stack[n].todo)
      BY <2>1, <1>1, <1>2
    <3>2. stack'[n].value = stack[n].value
      BY <1>1, <1>2, <2>1
    <3> QED BY <3>1, <3>2, <1>6
  <2>2. CASE n # L
    <3>1. n \in 1..(L - 1)
      BY <2>2, <1>1
    <3> QED BY <3>1, <1>2, <1>6
  <2> QED BY <2>1, <2>2
<1>8. \A n, q \in 2..L : n < q => Rank[stack'[q].value] < Rank[stack'[n].value]
  <2>1. \A n \in 2..L : n \in 1..L
    OBVIOUS
  <2> QED BY <2>1, <1>2 DEF StackShape, L
<1>9. \A n \in 2..L : Rank[CallOf.arg] < Rank[stack'[n].value]
  <2> SUFFICES ASSUME NEW n \in 2..L PROVE Rank[CallOf.arg] < Rank[stack'[n].value]
    OBVIOUS
  <2>1. L \in 2..L /\ L \in 1..L /\ n \in 1..L
    BY <1>1
  <2>2. CallOf.arg \in Range(Parts(stack[L].value)) /\ stack[L].value \in Values
    BY <2>1, <1>1, <1>6
  <2>3. Rank[CallOf.arg] < Rank[stack[L].value] /\ Rank[CallOf.arg] \in Nat
        /\ Rank[stack[L].value] \in Nat
    BY <2>2, <1>1, PartsType
  <2>4. n # L => n < L
    BY <2>1, <1>1
  <2>5. n # L => Rank[stack[L].value] < Rank[stack[n].value]
    BY <2>1, <2>4 DEF StackShape, L
  <2>6. Rank[stack[n].value] \in Nat
    BY <1>6, PartsType
  <2>7. stack'[n].value = stack[n].value
    BY <2>1, <1>2
  <2> QED BY <2>3, <2>5, <2>6, <2>7
<1>10. CASE cache[KeyOf] # {}
  <2>1. Len(stack') = L
    BY <1>10, <1>2
  <2> QED BY <2>1, <1>4, <1>5, <1>7, <1>8 DEF StackShape
<1>11. CASE cache[KeyOf] = {}
  <2>1. Len(stack') = L + 1 /\ stack'[L + 1] = Called
    BY <1>11, <1>2
  <2>2. \A n \in 2..(L + 1) : n \in 2..L \/ n = L + 1
    BY <1>1
  <2>3. \A n \in 2..(L + 1) : /\ stack'[n].value \in Values
                              /\ \A t \in Range(stack'[n].todo) :
                                    t.task = "value" /\ t.arg \in Range(Parts(stack'[n].value))
    BY <2>1, <2>2, <1>1, <1>3, <1>7
  <2>4. ASSUME NEW n \in 2..(L + 1), NEW q \in 2..(L + 1), n < q
        PROVE  Rank[stack'[q].value] < Rank[stack'[n].value]
    <3>1. n \in 2..L
      BY <2>4, <1>1
    <3>2. CASE q = L + 1
      BY <3>1, <3>2, <2>1, <1>3, <1>9
    <3>3. CASE q \in 2..L
      BY <3>1, <3>3, <2>4, <1>8
    <3> QED BY <3>2, <3>3, <2>2
  <2> QED BY <2>1, <2>3, <2>4, <1>4, <1>5 DEF StackShape
<1> QED BY <1>10, <1>11

\* A call less.
LEMMA ShapeReturn ==
    ASSUME ExportTypes, StackShape, ReturnSInto
    PROVE  StackShape'
<1> DEFINE L == Len(stack)
<1>1. /\ L \in Nat /\ L >= 2 /\ stack' # <<>> /\ Len(stack') = L - 1 /\ stack # <<>>
      /\ stack'[L - 1] = CallerHas
      /\ \A n \in 1..(L - 2) : stack'[n] = stack[n]
      /\ CallerHas.value = stack[L - 1].value /\ CallerHas.todo = stack[L - 1].todo
  BY ReturnFacts
<1> HIDE DEF L
<1>2. \A n \in 1..(L - 1) : stack'[n].value = stack[n].value /\ stack'[n].todo = stack[n].todo
  <2>1. \A n \in 1..(L - 1) : n = L - 1 \/ n \in 1..(L - 2)
    BY <1>1
  <2> QED BY <1>1, <2>1
<1>3. \A n \in 2..(L - 1) : n \in 1..(L - 1) /\ n \in 2..L
  BY <1>1
<1>4. stack'[1].value = None
  <2>1. 1 \in 1..(L - 1)
    BY <1>1
  <2> QED BY <2>1, <1>1, <1>2 DEF StackShape
<1>5. pc' \notin {"bodies"} \cup Reading
  BY DEF ReturnSInto, Reading
<1>6. \A n \in 2..(L - 1) : /\ stack'[n].value \in Values
                            /\ \A t \in Range(stack'[n].todo) :
                                  t.task = "value" /\ t.arg \in Range(Parts(stack'[n].value))
  BY <1>2, <1>3 DEF StackShape, L
<1>7. \A n, q \in 2..(L - 1) : n < q => Rank[stack'[q].value] < Rank[stack'[n].value]
  BY <1>2, <1>3 DEF StackShape, L
<1> QED BY <1>1, <1>4, <1>5, <1>6, <1>7 DEF StackShape

\* One call is under way, of an item or an implementation.
LEMMA ShapeOne ==
    ASSUME Len(stack') = 1, stack'[1].value = None, pc' \notin {"bodies"} \cup Reading
    PROVE  StackShape'
<1>1. \A n : n \notin 2..Len(stack')
  OBVIOUS
<1> QED BY <1>1 DEF StackShape

\* No call is under way.
LEMMA ShapeNone == ASSUME stack' = <<>> PROVE StackShape'
<1>1. Len(stack') = 0
  BY NoFrames
<1>2. \A n : n \notin 2..Len(stack')
  BY <1>1
<1> QED BY <1>2 DEF StackShape

\* The calls stay as they are.
LEMMA ShapeSame ==
    ASSUME StackShape, UNCHANGED stack,
           pc' \in {"bodies"} \cup Reading => pc \in {"bodies"} \cup Reading \/ stack = <<>>
    PROVE  StackShape'
BY DEF StackShape

\* Every step keeps the shape of the stack.
LEMMA ShapeStep ==
    ASSUME ExportTypes, StackShape, TasksAreKnown, [Next]_vars
    PROVE  StackShape'
<1>1. ASSUME PrecomputeBody PROVE StackShape'
  BY <1>1, ShapeSame DEF PrecomputeBody
<1>2. ASSUME BodiesDone PROVE StackShape'
  BY <1>2, ShapeSame DEF BodiesDone
<1>3. ASSUME StartItem PROVE StackShape'
  <2> DEFINE d == Head(todo_items)
             s == <<ItemTask(d)>>
  <2>1. d \in Defs
    BY <1>3, HeadTail DEF StartItem, ExportTypes
  <2>2. s \in Seq(Task)
    <3>1. ItemTask(d) \in Task
      BY <2>1 DEF ItemTask, Task
    <3> QED BY <3>1
  <2>3. stack' = Root(d, s) /\ pc' = "items"
    BY <1>3 DEF StartItem
  <2> HIDE DEF d, s
  <2>4. Len(stack') = 1 /\ stack'[1].value = None
    BY <2>1, <2>2, <2>3, RootFacts
  <2> QED BY <2>3, <2>4, ShapeOne DEF Reading
<1>4. ASSUME EnterItem PROVE StackShape'
  <2>1. Len(stack') = 1 /\ stack'[1].value = None
    BY <1>4, ItemFacts, EnterFacts, BeginFacts DEF ExportTypes
  <2>2. pc' \notin {"bodies"} \cup Reading
    BY <1>4 DEF EnterItem, Reading
  <2> QED BY <2>1, <2>2, ShapeOne
<1>5. ASSUME GetBody PROVE StackShape'
  <2>1. Len(stack') = 1 /\ stack'[1].value = None
    BY <1>5, ItemFacts, BodyFacts, BeginFacts DEF ExportTypes
  <2>2. pc' \notin {"bodies"} \cup Reading
    BY <1>5 DEF GetBody, Reading
  <2> QED BY <2>1, <2>2, ShapeOne
<1>6. ASSUME CallSInto PROVE StackShape'
  BY <1>6, ShapeCall
<1>7. ASSUME ReturnSInto PROVE StackShape'
  BY <1>7, ShapeReturn
<1>8. ASSUME FinishItem PROVE StackShape'
  BY <1>8, ShapeNone DEF FinishItem
<1>9. ASSUME ItemsDone PROVE StackShape'
  BY <1>9, ShapeSame DEF ItemsDone
<1>10. ASSUME StartImplInfos PROVE StackShape'
  <2> DEFINE d == Head(todo_items)
             s == <<Value(d, d)>> \o ValuesOf(d, krate.mentions[d])
  <2>1. d \in Defs
    BY <1>10, HeadTail DEF StartImplInfos, ExportTypes
  <2>2. s \in Seq(Task)
    BY <2>1, InfosTasksFacts DEF ExportTypes
  <2>3. stack' = Root(d, s) /\ pc' = "impls"
    BY <1>10 DEF StartImplInfos
  <2> HIDE DEF d, s
  <2>4. Len(stack') = 1 /\ stack'[1].value = None
    BY <2>1, <2>2, <2>3, RootFacts
  <2> QED BY <2>3, <2>4, ShapeOne DEF Reading
<1>11. ASSUME FinishImplInfos PROVE StackShape'
  BY <1>11, ShapeNone DEF FinishImplInfos
<1>12. ASSUME Export PROVE StackShape'
  BY <1>12, ShapeSame DEF Export
<1>13. ASSUME ReadPair PROVE StackShape'
  BY <1>13, ShapeSame DEF ReadPair, Reading
<1>14. ASSUME ReadValue PROVE StackShape'
  BY <1>14, ShapeSame DEF ReadValue, Reading
<1>15. ASSUME UNCHANGED vars PROVE StackShape'
  BY <1>15, ShapeSame DEF vars
<1> QED BY <1>1, <1>2, <1>3, <1>4, <1>5, <1>6, <1>7, <1>8, <1>9, <1>10, <1>11, <1>12,
           <1>13, <1>14, <1>15 DEF Next

-----------------------------------------------------------------------------
(* The tasks *)

\* The crate that is exported stays the same.
LEMMA KrateStays == ASSUME [Next]_vars PROVE krate' = krate
BY DEF Next, vars, exportVars, PrecomputeBody, BodiesDone, StartItem, EnterItem, GetBody,
       CallSInto, ReturnSInto, FinishItem, ItemsDone, StartImplInfos, FinishImplInfos,
       Export, ReadPair, ReadValue

\* What is known of a task depends on the crate only.
LEMMA TaskStays == ASSUME krate' = krate, NEW t, TaskIsKnown(t) PROVE TaskIsKnown(t)'
BY DEF TaskIsKnown

\* The calls stay as they are.
LEMMA TasksSame ==
    ASSUME TasksAreKnown, krate' = krate, stack' = stack \/ stack' = <<>>,
           pc' \in {"bodies", "items"} =>
              pc \in {"bodies", "items"} /\ todo_items' = todo_items
    PROVE  TasksAreKnown'
<1>1. \A n \in 1..Len(stack') : \A t \in Range(stack'[n].todo) : TaskIsKnown(t)
  <2>1. CASE stack' = <<>>
    <3>1. \A n : n \notin 1..Len(stack')
      BY <2>1, NoFrames
    <3> QED BY <3>1
  <2> QED BY <2>1 DEF TasksAreKnown
<1>2. pc' \in {"bodies", "items"} => \A d \in Range(todo_items') : ItemIsKnown(d)
  BY DEF TasksAreKnown
<1>3. \A n \in 1..Len(stack') : \A t \in Range(stack'[n].todo) : TaskIsKnown(t)'
  BY <1>1, TaskStays
<1> QED BY <1>2, <1>3 DEF TasksAreKnown

\* One call is under way, and its tasks are known.
LEMMA TasksOne ==
    ASSUME krate' = krate, NEW s, Len(stack') = 1, stack'[1].todo = s,
           \A t \in Range(s) : TaskIsKnown(t),
           pc' \in {"bodies", "items"} => \A d \in Range(todo_items') : ItemIsKnown(d)
    PROVE  TasksAreKnown'
<1>1. \A n \in 1..Len(stack') : n = 1
  OBVIOUS
<1>2. \A n \in 1..Len(stack') : \A t \in Range(stack'[n].todo) : TaskIsKnown(t)'
  BY <1>1, TaskStays
<1> QED BY <1>2 DEF TasksAreKnown

\* The tasks of a value are values.
LEMMA TasksCall ==
    ASSUME ExportTypes, TasksAreKnown, CallSInto
    PROVE  TasksAreKnown'
<1> DEFINE L == Len(stack)
<1>1. /\ L \in Nat /\ L >= 1
      /\ Range(Top.todo) = {CallOf} \cup Range(Tail(Top.todo)) /\ Top = stack[L]
      /\ CallOf.arg \in Values /\ CallOf.owner \in Defs
      /\ CallerThen.todo = Tail(Top.todo)
  BY CallFacts, TopFacts DEF ExportTypes
<1>2. /\ stack'[L] = CallerThen
      /\ \A n \in 1..(L - 1) : stack'[n] = stack[n]
      /\ cache[KeyOf] # {} => Len(stack') = L
      /\ cache[KeyOf] = {} => Len(stack') = L + 1 /\ stack'[L + 1] = Called
  BY CallShape
<1>3. \A n \in 1..L : \A t \in Range(stack[n].todo) : TaskIsKnown(t)
  BY DEF TasksAreKnown, L
<1>4. \A t \in Range(Called.todo) : TaskIsKnown(t)
  <2>1. Parts(CallOf.arg) \in Seq(Values)
    BY <1>1, PartsType
  <2>2. Called.todo = ValuesOf(CallOf.owner, Parts(CallOf.arg))
    BY DEF Called
  <2>3. \A t \in Range(Called.todo) : t.task = "value"
    BY <1>1, <2>1, <2>2, ValuesOfFacts
  <2> QED BY <2>3 DEF TaskIsKnown
<1> HIDE DEF L
<1>5. \A n \in 1..L : \A t \in Range(stack'[n].todo) : TaskIsKnown(t)
  <2>1. \A n \in 1..L : n = L \/ n \in 1..(L - 1)
    BY <1>1
  <2>2. L \in 1..L
    BY <1>1
  <2>3. \A t \in Range(stack'[L].todo) : TaskIsKnown(t)
    BY <2>2, <1>1, <1>2, <1>3
  <2> QED BY <2>1, <2>3, <1>2, <1>3
<1>6. \A n \in 1..Len(stack') : n \in 1..L \/ (n = L + 1 /\ stack'[n] = Called)
  BY <1>1, <1>2
<1>7. \A n \in 1..Len(stack') : \A t \in Range(stack'[n].todo) : TaskIsKnown(t)
  BY <1>4, <1>5, <1>6
<1>8. krate' = krate /\ pc' = pc /\ todo_items' = todo_items
  BY DEF CallSInto, exportVars
<1>9. \A n \in 1..Len(stack') : \A t \in Range(stack'[n].todo) : TaskIsKnown(t)'
  BY <1>7, <1>8, TaskStays
<1> QED BY <1>8, <1>9 DEF TasksAreKnown

\* The caller keeps its tasks.
LEMMA TasksReturn ==
    ASSUME ExportTypes, StackShape, TasksAreKnown, ReturnSInto
    PROVE  TasksAreKnown'
<1> DEFINE L == Len(stack)
<1>1. /\ L \in Nat /\ L >= 2 /\ Len(stack') = L - 1
      /\ stack'[L - 1].todo = stack[L - 1].todo
      /\ \A n \in 1..(L - 2) : stack'[n] = stack[n]
  BY ReturnFacts
<1>2. \A n \in 1..L : \A t \in Range(stack[n].todo) : TaskIsKnown(t)
  BY DEF TasksAreKnown, L
<1>3. krate' = krate /\ pc' = pc /\ todo_items' = todo_items
  BY DEF ReturnSInto, exportVars
<1> HIDE DEF L
<1>4. \A n \in 1..(L - 1) : n \in 1..L /\ (n = L - 1 \/ n \in 1..(L - 2))
  BY <1>1
<1>5. \A n \in 1..(L - 1) : \A t \in Range(stack'[n].todo) : TaskIsKnown(t)
  BY <1>1, <1>2, <1>4
<1>6. \A n \in 1..Len(stack') : \A t \in Range(stack'[n].todo) : TaskIsKnown(t)'
  BY <1>1, <1>3, <1>5, TaskStays
<1> QED BY <1>3, <1>6 DEF TasksAreKnown

\* The items of the crate are known.
LEMMA TasksInit == ASSUME Init PROVE TasksAreKnown
<1>1. krate.items \in Seq(Defs) /\ \A i \in DOMAIN krate.items : DefKind[krate.items[i]] # "AnonConst"
  BY KrateFacts DEF Init
<1>2. \A d \in Range(krate.items) : ItemIsKnown(d)
  BY <1>1, SeqFacts DEF ItemIsKnown
<1>3. \A n : n \notin 1..Len(stack)
  BY NoFrames DEF Init
<1> QED BY <1>2, <1>3 DEF Init, TasksAreKnown

\* Every step keeps the tasks known.
LEMMA TasksStep ==
    ASSUME ExportTypes, StackShape, TasksAreKnown, [Next]_vars
    PROVE  TasksAreKnown'
<1>0. krate' = krate
  BY KrateStays
<1>1. ASSUME PrecomputeBody PROVE TasksAreKnown'
  BY <1>0, <1>1, TasksSame DEF PrecomputeBody
<1>2. ASSUME BodiesDone PROVE TasksAreKnown'
  BY <1>0, <1>2, TasksSame DEF BodiesDone
<1>3. ASSUME StartItem PROVE TasksAreKnown'
  <2> DEFINE d == Head(todo_items)
             s == <<ItemTask(d)>>
  <2>1. /\ d \in Defs /\ Range(todo_items) = {d} \cup Range(Tail(todo_items))
        /\ pc = "items" /\ todo_items' = Tail(todo_items)
    BY <1>3, HeadTail DEF StartItem, ExportTypes
  <2>2. \A e \in Range(todo_items) : ItemIsKnown(e)
    BY <2>1 DEF TasksAreKnown
  <2>3. ItemTask(d) \in Task /\ TaskIsKnown(ItemTask(d))
    BY <2>1, <2>2 DEF ItemTask, Task, TaskIsKnown
  <2>4. s \in Seq(Task) /\ Range(s) = {ItemTask(d)}
    BY <2>3, SingletonFacts
  <2>5. \A t \in Range(s) : TaskIsKnown(t)
    BY <2>3, <2>4
  <2>6. stack' = Root(d, s)
    BY <1>3 DEF StartItem
  <2> HIDE DEF d, s
  <2>7. Len(stack') = 1 /\ stack'[1].todo = s
    BY <2>1, <2>4, <2>6, RootFacts
  <2> QED BY <1>0, <2>1, <2>2, <2>5, <2>7, TasksOne
<1>4. ASSUME EnterItem PROVE TasksAreKnown'
  <2>1. Len(stack') = 1 /\ stack'[1].todo = EnterTodo
    BY <1>4, ItemFacts, EnterFacts, BeginFacts DEF ExportTypes
  <2>2. \A t \in Range(EnterTodo) : TaskIsKnown(t)
    BY <1>4, EnterFacts
  <2>3. pc' = pc /\ todo_items' = todo_items
    BY <1>4 DEF EnterItem
  <2> QED BY <1>0, <2>1, <2>2, <2>3, TasksOne DEF TasksAreKnown
<1>5. ASSUME GetBody PROVE TasksAreKnown'
  <2>1. Len(stack') = 1 /\ stack'[1].todo = BodyTodo
    BY <1>5, ItemFacts, BodyFacts, BeginFacts DEF ExportTypes
  <2>2. \A t \in Range(BodyTodo) : TaskIsKnown(t)
    BY <1>5, BodyFacts
  <2>3. pc = "items" /\ todo_items' = todo_items
    BY <1>5 DEF GetBody
  <2> QED BY <1>0, <2>1, <2>2, <2>3, TasksOne DEF TasksAreKnown
<1>6. ASSUME CallSInto PROVE TasksAreKnown'
  BY <1>6, TasksCall
<1>7. ASSUME ReturnSInto PROVE TasksAreKnown'
  BY <1>7, TasksReturn
<1>8. ASSUME FinishItem PROVE TasksAreKnown'
  BY <1>0, <1>8, TasksSame DEF FinishItem
<1>9. ASSUME ItemsDone PROVE TasksAreKnown'
  BY <1>0, <1>9, TasksSame DEF ItemsDone
<1>10. ASSUME StartImplInfos PROVE TasksAreKnown'
  <2> DEFINE d == Head(todo_items)
             s == <<Value(d, d)>> \o ValuesOf(d, krate.mentions[d])
  <2>1. d \in Defs
    BY <1>10, HeadTail DEF StartImplInfos, ExportTypes
  <2>2. s \in Seq(Task) /\ \A t \in Range(s) : TaskIsKnown(t)
    BY <2>1, InfosTasksFacts DEF ExportTypes
  <2>3. stack' = Root(d, s) /\ pc' = "impls"
    BY <1>10 DEF StartImplInfos
  <2> HIDE DEF d, s
  <2>4. Len(stack') = 1 /\ stack'[1].todo = s
    BY <2>1, <2>2, <2>3, RootFacts
  <2> QED BY <1>0, <2>2, <2>3, <2>4, TasksOne
<1>11. ASSUME FinishImplInfos PROVE TasksAreKnown'
  BY <1>0, <1>11, TasksSame DEF FinishImplInfos
<1>12. ASSUME Export PROVE TasksAreKnown'
  BY <1>0, <1>12, TasksSame DEF Export
<1>13. ASSUME ReadPair PROVE TasksAreKnown'
  BY <1>0, <1>13, TasksSame DEF ReadPair
<1>14. ASSUME ReadValue PROVE TasksAreKnown'
  BY <1>0, <1>14, TasksSame DEF ReadValue
<1>15. ASSUME UNCHANGED vars PROVE TasksAreKnown'
  BY <1>0, <1>15, TasksSame DEF vars
<1> QED BY <1>1, <1>2, <1>3, <1>4, <1>5, <1>6, <1>7, <1>8, <1>9, <1>10, <1>11, <1>12,
           <1>13, <1>14, <1>15 DEF Next

-----------------------------------------------------------------------------
(* Bodies are lost in order *)

\* The rest of a list that is in order is in order, and comes after its head.
LEMMA TailByLevels ==
    ASSUME NEW s \in Seq(Defs), s # <<>>, ByLevels(s)
    PROVE  ByLevels(Tail(s)) /\ \A c \in Range(Tail(s)) : ConstLevel(Head(s)) <= ConstLevel(c)
<1>1. /\ Len(s) \in Nat /\ Len(s) >= 1 /\ Len(Tail(s)) = Len(s) - 1 /\ Head(s) = s[1]
      /\ \A n \in 1..(Len(s) - 1) : Tail(s)[n] = s[n + 1]
      /\ Tail(s) \in Seq(Defs)
  BY HeadTail
<1>2. \A i, j \in 1..Len(s) : i < j => ConstLevel(s[i]) <= ConstLevel(s[j])
  BY DEF ByLevels
<1>3. \A c \in Range(Tail(s)) : \E n \in 1..Len(Tail(s)) : Tail(s)[n] = c
  <2> DEFINE r == Tail(s)
  <2>1. r \in Seq(Defs)
    BY <1>1
  <2> HIDE DEF r
  <2>2. \A c \in Range(r) : \E n \in 1..Len(r) : r[n] = c
    BY <2>1, SeqFacts
  <2> QED BY <2>2 DEF r
<1>4. \A n \in 1..(Len(s) - 1) : n + 1 \in 1..Len(s) /\ 1 \in 1..Len(s) /\ 1 < n + 1
  BY <1>1
<1>5. \A c \in Range(Tail(s)) : ConstLevel(Head(s)) <= ConstLevel(c)
  BY <1>1, <1>2, <1>3, <1>4
<1>6. ASSUME NEW i \in 1..(Len(s) - 1), NEW j \in 1..(Len(s) - 1), i < j
      PROVE  ConstLevel(Tail(s)[i]) <= ConstLevel(Tail(s)[j])
  <2>1. i + 1 < j + 1
    BY <1>6
  <2>2. ConstLevel(s[i + 1]) <= ConstLevel(s[j + 1])
    BY <2>1, <1>2, <1>4
  <2> QED BY <2>2, <1>1
<1>7. ByLevels(Tail(s))
  BY <1>1, <1>6 DEF ByLevels
<1> QED BY <1>5, <1>7

\* The bodies are sorted at the start.
LEMMA OrderInit == ASSUME Init PROVE BodiesInOrder
<1>1. /\ krate \in Krates /\ pc = "bodies" /\ bodies = LocalBodies(krate)
      /\ thir = [d \in Defs |-> "none"] /\ thief = [d \in Defs |-> None]
  BY DEF Init
<1>2. ByLevels(bodies)
  BY <1>1, LocalBodiesFacts
<1>3. \A b \in Defs : thir[b] # "dummy" /\ thief[b] = None
  BY <1>1
<1> QED BY <1>1, <1>2, <1>3 DEF BodiesInOrder

\* Steps that ask for no body.
LEMMA OrderSame ==
    ASSUME BodiesInOrder, krate' = krate, UNCHANGED bodyVars, pc' # "thir_not_found",
           pc' = "bodies" \/ pc # "bodies" \/ bodies = <<>>
    PROVE  BodiesInOrder'
BY DEF BodiesInOrder, bodyVars

\* The next body is asked for: what it evaluates is lost to it, and comes no earlier.
LEMMA OrderPrecompute ==
    ASSUME ExportTypes, BodiesInOrder, krate' = krate, PrecomputeBody
    PROVE  BodiesInOrder'
<1> DEFINE b == Head(bodies)
           lost == b \in krate.ill_typed \/ thief[b] # None
<1>1. /\ pc = "bodies" /\ pc' = pc /\ bodies # <<>> /\ bodies' = Tail(bodies)
      /\ thief' = [d \in Defs |-> IF thief[d] = None /\ d \in krate.evaluates[b]
                                  THEN b ELSE thief[d]]
      /\ thir' = [thir EXCEPT ![b] = IF lost THEN "dummy" ELSE "body"]
      /\ errors' = IF lost THEN errors \cup {b} ELSE errors
  BY DEF PrecomputeBody
<1>2. /\ bodies \in Seq(Defs) /\ b \in Defs /\ Range(bodies) = {b} \cup Range(Tail(bodies))
      /\ thir \in [Defs -> {"none", "body", "dummy"}]
      /\ None \notin Defs
  BY <1>1, HeadTail, DefsAssumption DEF ExportTypes
<1>3. /\ ByLevels(Tail(bodies))
      /\ \A c \in Range(Tail(bodies)) : ConstLevel(b) <= ConstLevel(c)
  BY <1>1, <1>2, TailByLevels DEF BodiesInOrder
<1>4. \A d \in Defs : thir'[d] = IF d = b THEN (IF lost THEN "dummy" ELSE "body") ELSE thir[d]
  BY <1>1, <1>2
<1>5. \A d \in Defs : thief'[d] = IF thief[d] = None /\ d \in krate.evaluates[b]
                                  THEN b ELSE thief[d]
  BY <1>1
<1>6. \A c \in Range(LocalBodies(krate)) : c \in Defs
  <2>1. LocalBodies(krate) \in Seq(Defs)
    BY LocalBodiesFacts DEF ExportTypes
  <2> QED BY <2>1, SeqFacts
<1> HIDE DEF b
<1>7. \A c \in Range(LocalBodies(krate)) : thir'[c] = "none" => c \in Range(bodies')
  BY <1>1, <1>2, <1>4, <1>6 DEF BodiesInOrder
<1>8. \A d \in Defs : thief'[d] # None =>
         \A c \in Range(bodies') : ConstLevel(thief'[d]) <= ConstLevel(c)
  BY <1>1, <1>2, <1>3, <1>5 DEF BodiesInOrder
<1>9. ASSUME NEW d \in Defs, thir'[d] = "dummy"
      PROVE  /\ d \in errors'
             /\ \/ d \in krate.ill_typed
                \/ thief'[d] # None /\ ConstLevel(thief'[d]) <= ConstLevel(d)
  <2>1. CASE d = b
    <3>1. lost
      BY <2>1, <1>4, <1>9
    <3>2. d \in errors'
      BY <3>1, <2>1, <1>1
    <3>3. thief[b] # None => thief'[b] = thief[b] /\ ConstLevel(thief[b]) <= ConstLevel(b)
      BY <1>2, <1>5 DEF BodiesInOrder
    <3> QED BY <2>1, <3>1, <3>2, <3>3
  <2>2. CASE d # b
    <3>1. thir[d] = "dummy"
      BY <2>2, <1>4, <1>9
    <3>2. /\ d \in errors
          /\ \/ d \in krate.ill_typed
             \/ thief[d] # None /\ ConstLevel(thief[d]) <= ConstLevel(d)
      BY <3>1 DEF BodiesInOrder
    <3>3. thief[d] # None => thief'[d] = thief[d]
      BY <1>5
    <3>4. errors \subseteq errors'
      BY <1>1
    <3> QED BY <3>2, <3>3, <3>4
  <2> QED BY <2>1, <2>2
<1> QED BY <1>1, <1>3, <1>7, <1>8, <1>9 DEF BodiesInOrder

\* Every step keeps the bodies in order.
LEMMA OrderStep ==
    ASSUME ExportTypes, StackShape, TasksAreKnown, BodiesInOrder, [Next]_vars
    PROVE  BodiesInOrder'
<1>0. krate' = krate
  BY KrateStays
<1>1. ASSUME PrecomputeBody PROVE BodiesInOrder'
  BY <1>0, <1>1, OrderPrecompute
<1>2. ASSUME BodiesDone PROVE BodiesInOrder'
  BY <1>0, <1>2, OrderSame DEF BodiesDone
<1>3. ASSUME StartItem PROVE BodiesInOrder'
  BY <1>0, <1>3, OrderSame DEF StartItem, BodiesInOrder
<1>4. ASSUME EnterItem PROVE BodiesInOrder'
  BY <1>0, <1>4, OrderSame DEF EnterItem, BodiesInOrder
<1>5. ASSUME GetBody PROVE BodiesInOrder'
  <2>1. pc = "items" /\ UNCHANGED bodyVars
        /\ (pc' = "thir_not_found" => thir[CallOf.arg] = "none")
        /\ (pc' = "bodies" => pc = "bodies")
    BY <1>5 DEF GetBody, CallOf
  <2>2. CallOf.arg \in Range(LocalBodies(krate))
    BY <1>5, BodyFacts
  <2>3. bodies = <<>> /\ (thir[CallOf.arg] = "none" => CallOf.arg \in Range(bodies))
    BY <2>1, <2>2 DEF BodiesInOrder
  <2>4. pc' # "thir_not_found"
    BY <2>1, <2>3, RangeEmpty
  <2> QED BY <1>0, <2>1, <2>3, <2>4, OrderSame
<1>6. ASSUME CallSInto PROVE BodiesInOrder'
  BY <1>0, <1>6, OrderSame DEF CallSInto, BodiesInOrder
<1>7. ASSUME ReturnSInto PROVE BodiesInOrder'
  BY <1>0, <1>7, OrderSame DEF ReturnSInto, BodiesInOrder
<1>8. ASSUME FinishItem PROVE BodiesInOrder'
  BY <1>0, <1>8, OrderSame DEF FinishItem, BodiesInOrder
<1>9. ASSUME ItemsDone PROVE BodiesInOrder'
  BY <1>0, <1>9, OrderSame DEF ItemsDone
<1>10. ASSUME StartImplInfos PROVE BodiesInOrder'
  BY <1>0, <1>10, OrderSame DEF StartImplInfos, BodiesInOrder
<1>11. ASSUME FinishImplInfos PROVE BodiesInOrder'
  BY <1>0, <1>11, OrderSame DEF FinishImplInfos, BodiesInOrder
<1>12. ASSUME Export PROVE BodiesInOrder'
  BY <1>0, <1>12, OrderSame DEF Export, BodiesInOrder
<1>13. ASSUME ReadPair PROVE BodiesInOrder'
  BY <1>0, <1>13, OrderSame DEF ReadPair, BodiesInOrder
<1>14. ASSUME ReadValue PROVE BodiesInOrder'
  BY <1>0, <1>14, OrderSame DEF ReadValue, BodiesInOrder
<1>15. ASSUME UNCHANGED vars PROVE BodiesInOrder'
  <2>1. UNCHANGED bodyVars /\ pc' = pc
    BY <1>15 DEF vars, bodyVars
  <2> QED BY <1>0, <2>1, OrderSame DEF BodiesInOrder
<1> QED BY <1>1, <1>2, <1>3, <1>4, <1>5, <1>6, <1>7, <1>8, <1>9, <1>10, <1>11, <1>12,
           <1>13, <1>14, <1>15 DEF Next

-----------------------------------------------------------------------------
(* The table *)

\* What a step that neither calls sinto nor returns from it does to the calls.
AtRoot ==
    \/ stack' = stack
    \/ stack' = <<>>
    \/ /\ Len(stack') = 1 /\ stack'[1].value = None
       /\ \/ stack'[1].refs = {}
          \/ stack # <<>> /\ stack'[1].refs = stack[1].refs

\* Only the calls of sinto and their returns touch the caches and the table.
LEMMA OtherSteps ==
    ASSUME ExportTypes, StackShape, TasksAreKnown, [Next]_vars, ~CallSInto, ~ReturnSInto
    PROVE  UNCHANGED <<cache, next_id, table>> /\ AtRoot
<1>1. ASSUME PrecomputeBody PROVE UNCHANGED <<cache, next_id, table>> /\ AtRoot
  BY <1>1 DEF PrecomputeBody, AtRoot
<1>2. ASSUME BodiesDone PROVE UNCHANGED <<cache, next_id, table>> /\ AtRoot
  BY <1>2 DEF BodiesDone, AtRoot, tableVars
<1>3. ASSUME StartItem PROVE UNCHANGED <<cache, next_id, table>> /\ AtRoot
  <2> DEFINE d == Head(todo_items)
             s == <<ItemTask(d)>>
  <2>1. d \in Defs
    BY <1>3, HeadTail DEF StartItem, ExportTypes
  <2>2. ItemTask(d) \in Task
    BY <2>1 DEF ItemTask, Task
  <2>3. s \in Seq(Task)
    BY <2>2
  <2>4. stack' = Root(d, s) /\ UNCHANGED <<cache, next_id, table>>
    BY <1>3 DEF StartItem, tableVars
  <2> HIDE DEF d, s
  <2>5. Len(stack') = 1 /\ stack'[1].refs = {} /\ stack'[1].value = None
    BY <2>1, <2>3, <2>4, RootFacts
  <2> QED BY <2>4, <2>5 DEF AtRoot
<1>4. ASSUME EnterItem PROVE UNCHANGED <<cache, next_id, table>> /\ AtRoot
  <2>1. /\ Len(stack') = 1 /\ stack'[1].refs = Top.refs /\ Top = stack[1] /\ stack # <<>>
        /\ stack'[1].value = Top.value /\ Top.value = None
    <3>1. stack \in Seq(Frame)
      BY DEF ExportTypes
    <3>2. /\ Len(stack) = 1 /\ stack # <<>> /\ Top = stack[1] /\ Top.value = None
          /\ Top \in Frame
      BY <1>4, ItemFacts
    <3>3. EnterTodo \in Seq(Task) /\ stack' = SetTop(Begins(EnterTodo))
      BY <1>4, EnterFacts
    <3>4. /\ Begins(EnterTodo).value = Top.value /\ Begins(EnterTodo).refs = Top.refs
          /\ Len(SetTop(Begins(EnterTodo))) = Len(stack)
          /\ SetTop(Begins(EnterTodo))[Len(stack)] = Begins(EnterTodo)
      BY ONLY <3>1, <3>2, <3>3, BeginFacts
    <3> QED BY <3>2, <3>3, <3>4
  <2>2. UNCHANGED <<cache, next_id, table>>
    BY <1>4 DEF EnterItem, tableVars
  <2> QED BY <2>1, <2>2 DEF AtRoot
<1>5. ASSUME GetBody PROVE UNCHANGED <<cache, next_id, table>> /\ AtRoot
  <2>1. /\ Len(stack') = 1 /\ stack'[1].refs = Top.refs /\ Top = stack[1] /\ stack # <<>>
        /\ stack'[1].value = Top.value /\ Top.value = None
    BY <1>5, ItemFacts, BodyFacts, BeginFacts DEF ExportTypes
  <2>2. UNCHANGED <<cache, next_id, table>>
    BY <1>5 DEF GetBody
  <2> QED BY <2>1, <2>2 DEF AtRoot
<1>6. ASSUME FinishItem PROVE UNCHANGED <<cache, next_id, table>> /\ AtRoot
  BY <1>6 DEF FinishItem, AtRoot, tableVars
<1>7. ASSUME ItemsDone PROVE UNCHANGED <<cache, next_id, table>> /\ AtRoot
  BY <1>7 DEF ItemsDone, AtRoot, tableVars
<1>8. ASSUME StartImplInfos PROVE UNCHANGED <<cache, next_id, table>> /\ AtRoot
  <2> DEFINE d == Head(todo_items)
             s == <<Value(d, d)>> \o ValuesOf(d, krate.mentions[d])
  <2>1. d \in Defs
    BY <1>8, HeadTail DEF StartImplInfos, ExportTypes
  <2>2. s \in Seq(Task)
    BY <2>1, InfosTasksFacts DEF ExportTypes
  <2>3. stack' = Root(d, s) /\ UNCHANGED <<cache, next_id, table>>
    BY <1>8 DEF StartImplInfos, tableVars
  <2> HIDE DEF d, s
  <2>4. Len(stack') = 1 /\ stack'[1].refs = {} /\ stack'[1].value = None
    BY <2>1, <2>2, <2>3, RootFacts
  <2> QED BY <2>3, <2>4 DEF AtRoot
<1>9. ASSUME FinishImplInfos PROVE UNCHANGED <<cache, next_id, table>> /\ AtRoot
  BY <1>9 DEF FinishImplInfos, AtRoot, tableVars
<1>10. ASSUME Export \/ ReadPair \/ ReadValue
       PROVE  UNCHANGED <<cache, next_id, table>> /\ AtRoot
  BY <1>10 DEF Export, ReadPair, ReadValue, AtRoot, tableVars
<1>11. ASSUME UNCHANGED vars PROVE UNCHANGED <<cache, next_id, table>> /\ AtRoot
  BY <1>11 DEF vars, AtRoot
<1> QED BY <1>1, <1>2, <1>3, <1>4, <1>5, <1>6, <1>7, <1>8, <1>9, <1>10, <1>11 DEF Next

\* Nodes are added, never changed.
LEMMA TableGrows ==
    ASSUME ExportTypes, StackShape, TasksAreKnown, [Next]_vars
    PROVE  Ids \subseteq Ids' /\ \A i \in Ids : table'[i] = table[i]
<1>1. CASE ReturnSInto
  BY <1>1, NodeFacts, NoNodeFacts
<1>2. CASE CallSInto
  BY <1>2 DEF CallSInto, Ids
<1>3. CASE ~CallSInto /\ ~ReturnSInto
  BY <1>3, OtherSteps DEF Ids
<1> QED BY <1>1, <1>2, <1>3

\* A node that is there stays.
LEMMA HasNodeStays ==
    ASSUME ExportTypes, StackShape, TasksAreKnown, [Next]_vars,
           NEW ids, ids \subseteq Ids, NEW v, HasNode(ids, v)
    PROVE  \E r \in ids : table'[r].value = v
BY TableGrows DEF HasNode

\* What haxmeta becomes.
LEMMA HaxmetaGrows ==
    ASSUME ExportTypes, [Next]_vars
    PROVE  \/ haxmeta' = haxmeta
           \/ /\ stack # <<>> /\ Len(stack) = 1 /\ FinishItem
              /\ haxmeta'.items = haxmeta.items \cup stack[1].refs
              /\ haxmeta'.impl_infos = haxmeta.impl_infos
              /\ haxmeta'.impls = haxmeta.impls
              /\ haxmeta'.def_ids = haxmeta.def_ids
              /\ haxmeta'.table = haxmeta.table
           \/ /\ stack # <<>> /\ Len(stack) = 1 /\ FinishImplInfos
              /\ haxmeta'.items = haxmeta.items
              /\ haxmeta'.impl_infos = haxmeta.impl_infos \cup stack[1].refs
              /\ haxmeta'.impls = haxmeta.impls \cup {stack[1].owner}
              /\ haxmeta'.def_ids = haxmeta.def_ids
              /\ haxmeta'.table = haxmeta.table
           \/ /\ Export
              /\ haxmeta'.items = haxmeta.items
              /\ haxmeta'.impl_infos = haxmeta.impl_infos
              /\ haxmeta'.impls = haxmeta.impls
              /\ haxmeta'.def_ids = UNION {cache[<<d, d>>] : d \in touched}
              /\ haxmeta'.table = IdValuePairs
<1>0. haxmeta \in Meta
  BY DEF ExportTypes
<1>1. CASE FinishItem
  <2>1. Len(stack) = 1 /\ haxmeta' = [haxmeta EXCEPT !.items = @ \cup Top.refs] /\ Top = stack[1]
    BY <1>1 DEF FinishItem, Top
  <2>2. stack # <<>>
    BY <2>1, LenNotEmpty
  <2> QED BY <1>0, <1>1, <2>1, <2>2 DEF Meta
<1>2. CASE FinishImplInfos
  <2>1. /\ Len(stack) = 1 /\ Top = stack[1]
        /\ haxmeta' = [haxmeta EXCEPT !.impl_infos = @ \cup Top.refs,
                                      !.impls = @ \cup {Top.owner}]
    BY <1>2 DEF FinishImplInfos, Top
  <2>2. stack # <<>>
    BY <2>1, LenNotEmpty
  <2> QED BY <1>0, <1>2, <2>1, <2>2 DEF Meta
<1>3. CASE Export
  <2> DEFINE u == UNION {cache[<<d, d>>] : d \in touched}
  <2>1. haxmeta' = [haxmeta EXCEPT !.def_ids = u, !.table = IdValuePairs]
    BY <1>3 DEF Export
  <2> HIDE DEF u
  <2>2. /\ haxmeta'.items = haxmeta.items
        /\ haxmeta'.impl_infos = haxmeta.impl_infos
        /\ haxmeta'.impls = haxmeta.impls
        /\ haxmeta'.def_ids = u
        /\ haxmeta'.table = IdValuePairs
    BY <1>0, <2>1 DEF Meta
  <2> QED BY <1>3, <2>2 DEF u
<1>4. CASE ~FinishItem /\ ~FinishImplInfos /\ ~Export
  <2>1. haxmeta' = haxmeta
    BY <1>4 DEF Next, vars, exportVars, PrecomputeBody, BodiesDone, StartItem, EnterItem,
                GetBody, CallSInto, ReturnSInto, ItemsDone, StartImplInfos, ReadPair, ReadValue
  <2> QED BY <2>1
<1> QED BY <1>1, <1>2, <1>3, <1>4

\* At most one call is under way.
LEMMA NoneAfterFirst ==
    ASSUME NEW s, s = <<>> \/ Len(s) = 1
    PROVE  \A n : n \notin 2..Len(s)
<1>1. CASE s = <<>>
  <2>1. Len(s) = 0
    BY <1>1, NoFrames
  <2> QED BY <2>1
<1>2. CASE Len(s) = 1
  BY <1>2
<1> QED BY <1>1, <1>2

\* Ids are used after their nodes were made.
LEMMA CacheIdsStep ==
    ASSUME ExportTypes, StackShape, TasksAreKnown, IdsExist, [Next]_vars
    PROVE  /\ \A o \in Defs, v \in Values : cache'[<<o, v>>] \subseteq Ids'
           /\ \A n \in 1..Len(stack') : stack'[n].refs \subseteq Ids'
<1>0. Ids \subseteq Ids'
  BY TableGrows
<1>1. CASE ReturnSInto
  <2> DEFINE L == Len(stack)
  <2>1. /\ L \in Nat /\ L >= 2 /\ Len(stack') = L - 1 /\ Top = stack[L]
        /\ stack'[L - 1].refs = stack[L - 1].refs \cup ReturnedRefs
        /\ \A n \in 1..(L - 2) : stack'[n] = stack[n]
        /\ cache' = [cache EXCEPT ![TopKey] = ReturnedRefs]
    BY <1>1, ReturnFacts
  <2>2. \A n \in 1..L : stack[n].refs \subseteq Ids
    BY DEF IdsExist, L
  <2> HIDE DEF L
  <2>3. ReturnedRefs \subseteq Ids'
    <3>1. L \in 1..L
      BY <2>1
    <3>2. Top.refs \subseteq Ids
      BY <3>1, <2>1, <2>2
    <3> QED BY <1>0, <1>1, <3>2, NodeFacts, NoNodeFacts
  <2>4. \A n \in 1..(L - 1) : n \in 1..L /\ (n = L - 1 \/ n \in 1..(L - 2))
    BY <2>1
  <2>5. \A n \in 1..Len(stack') : stack'[n].refs \subseteq Ids'
    BY <1>0, <2>1, <2>2, <2>3, <2>4
  <2>6. cache \in [Defs \X Values -> SUBSET Nat]
    BY DEF ExportTypes
  <2>7. ASSUME NEW o \in Defs, NEW v \in Values PROVE cache'[<<o, v>>] \subseteq Ids'
    <3>1. cache'[<<o, v>>] = IF <<o, v>> = TopKey THEN ReturnedRefs ELSE cache[<<o, v>>]
      BY <2>1, <2>6
    <3>2. cache[<<o, v>>] \subseteq Ids
      BY DEF IdsExist
    <3> QED BY <1>0, <2>3, <3>1, <3>2
  <2> QED BY <2>5, <2>7
<1>2. CASE CallSInto
  <2> DEFINE L == Len(stack)
  <2>1. /\ L \in Nat /\ L >= 1 /\ KeyOf \in Defs \X Values
        /\ CallerThen.refs = Top.refs \cup cache[KeyOf] /\ Top = stack[L]
    BY <1>2, CallFacts, TopFacts DEF ExportTypes
  <2>2. /\ stack'[L] = CallerThen
        /\ \A n \in 1..(L - 1) : stack'[n] = stack[n]
        /\ cache[KeyOf] # {} => Len(stack') = L
        /\ cache[KeyOf] = {} => Len(stack') = L + 1 /\ stack'[L + 1] = Called
    BY <1>2, CallShape
  <2>3. \A n \in 1..L : stack[n].refs \subseteq Ids
    BY DEF IdsExist, L
  <2>4. UNCHANGED <<cache, next_id, table>>
    BY <1>2 DEF CallSInto
  <2> HIDE DEF L
  <2>5. cache[KeyOf] \subseteq Ids
    BY <2>1 DEF IdsExist
  <2>6. Called.refs = {}
    BY DEF Called
  <2>7. CallerThen.refs \subseteq Ids
    <3>1. L \in 1..L
      BY <2>1
    <3> QED BY <3>1, <2>1, <2>3, <2>5
  <2>8. \A n \in 1..(L + 1) : n = L + 1 \/ n = L \/ (n \in 1..(L - 1) /\ n \in 1..L)
    BY <2>1
  <2>9. ASSUME NEW n \in 1..Len(stack') PROVE stack'[n].refs \subseteq Ids
    <3>1. n \in 1..(L + 1) /\ (n = L + 1 => cache[KeyOf] = {})
      BY <2>1, <2>2
    <3> QED BY <3>1, <2>2, <2>3, <2>6, <2>7, <2>8
  <2> QED BY <1>0, <2>4, <2>9 DEF IdsExist
<1>3. CASE ~CallSInto /\ ~ReturnSInto
  <2>1. UNCHANGED <<cache, next_id, table>> /\ AtRoot
    BY <1>3, OtherSteps
  <2>2. \A n \in 1..Len(stack) : stack[n].refs \subseteq Ids
    BY DEF IdsExist
  <2>3. stack # <<>> => 1 \in 1..Len(stack)
    BY SeqFacts DEF ExportTypes
  <2>4. ASSUME NEW n \in 1..Len(stack') PROVE stack'[n].refs \subseteq Ids
    <3>1. CASE stack' = stack
      BY <3>1, <2>2
    <3>2. CASE stack' = <<>>
      BY <3>2, NoFrames
    <3>3. CASE /\ Len(stack') = 1 /\ stack'[1].value = None
               /\ \/ stack'[1].refs = {}
                  \/ stack # <<>> /\ stack'[1].refs = stack[1].refs
      <4>1. n = 1
        BY <3>3
      <4> QED BY <3>3, <4>1, <2>2, <2>3
    <3> QED BY <2>1, <3>1, <3>2, <3>3 DEF AtRoot
  <2> QED BY <1>0, <2>1, <2>4 DEF IdsExist
<1> QED BY <1>1, <1>2, <1>3

\* The ids of the file are those of the table.
LEMMA HaxmetaIdsStep ==
    ASSUME ExportTypes, StackShape, TasksAreKnown, IdsExist, [Next]_vars
    PROVE  /\ haxmeta'.items \subseteq Ids' /\ haxmeta'.impl_infos \subseteq Ids'
           /\ haxmeta'.def_ids \subseteq Ids'
<1>0. Ids \subseteq Ids'
  BY TableGrows
<1>1. /\ haxmeta.items \subseteq Ids /\ haxmeta.impl_infos \subseteq Ids
      /\ haxmeta.def_ids \subseteq Ids
  BY DEF IdsExist
<1>2. stack # <<>> => stack[1].refs \subseteq Ids
  <2>1. stack # <<>> => 1 \in 1..Len(stack)
    BY SeqFacts DEF ExportTypes
  <2> QED BY <2>1 DEF IdsExist
<1>3. UNION {cache[<<d, d>>] : d \in touched} \subseteq Ids
  <2>1. \A d \in touched : d \in Defs /\ d \in Values
    BY DEF ExportTypes, Values
  <2> QED BY <2>1 DEF IdsExist
<1> QED BY <1>0, <1>1, <1>2, <1>3, HaxmetaGrows

\* A new node refers to older ones.
LEMMA TableIdsStep ==
    ASSUME ExportTypes, StackShape, TasksAreKnown, IdsExist, [Next]_vars
    PROVE  \A i \in Ids' : table'[i].refs \subseteq 0..(i - 1)
<1>1. \A i \in Ids : table[i].refs \subseteq 0..(i - 1)
  BY DEF IdsExist
<1>2. CASE ReturnSInto /\ Top.value \notin TraitRefs
  <2>1. /\ Ids' = Ids \cup {next_id} /\ table'[next_id] = NewNode /\ NewNode.refs = Top.refs
        /\ \A i \in Ids : table'[i] = table[i]
    BY <1>2, NodeFacts
  <2>2. Top.refs \subseteq Ids
    <3>1. Top = stack[Len(stack)] /\ Len(stack) \in Nat /\ Len(stack) >= 2
      BY <1>2, ReturnFacts
    <3>2. Len(stack) \in 1..Len(stack)
      BY <3>1
    <3> QED BY <3>1, <3>2 DEF IdsExist
  <2>3. Top.refs \subseteq 0..(next_id - 1)
    BY <2>2 DEF Ids
  <2> QED BY <1>1, <2>1, <2>3
<1>3. CASE ReturnSInto /\ Top.value \in TraitRefs
  BY <1>1, <1>3, NoNodeFacts
<1>4. CASE CallSInto
  BY <1>1, <1>4 DEF CallSInto, Ids
<1>5. CASE ~CallSInto /\ ~ReturnSInto
  BY <1>1, <1>5, OtherSteps DEF Ids
<1> QED BY <1>2, <1>3, <1>4, <1>5

\* There are no ids at the start.
LEMMA IdsInit == ASSUME Init PROVE IdsExist
<1>1. \A n : n \notin 1..Len(stack)
  BY NoFrames DEF Init
<1>2. Ids = {}
  BY DEF Init, Ids
<1>3. \A o \in Defs, v \in Values : cache[<<o, v>>] = {}
  BY DEF Init
<1>4. haxmeta.items = {} /\ haxmeta.impl_infos = {} /\ haxmeta.def_ids = {}
  BY DEF Init
<1> QED BY <1>1, <1>2, <1>3, <1>4 DEF IdsExist

\* Every step uses ids after their nodes were made.
LEMMA IdsStep ==
    ASSUME ExportTypes, StackShape, TasksAreKnown, IdsExist, [Next]_vars
    PROVE  IdsExist'
BY CacheIdsStep, HaxmetaIdsStep, TableIdsStep DEF IdsExist

\* The caches and the table.
LEMMA CacheInit == ASSUME Init PROVE CacheIsTable
<1>1. \A n : n \notin 2..Len(stack)
  BY NoFrames DEF Init
<1>2. Ids = {}
  BY DEF Init, Ids
<1>3. \A o \in Defs, v \in Values \ TraitRefs : cache[<<o, v>>] = {}
  BY DEF Init
<1> QED BY <1>1, <1>2, <1>3 DEF CacheIsTable

\* The cache and the table are filled together, and no other call is of the same value.
LEMMA CacheReturn ==
    ASSUME ExportTypes, StackShape, TasksAreKnown, IdsExist, CacheIsTable, ReturnSInto
    PROVE  CacheIsTable'
<1> DEFINE L == Len(stack)
           T == Top.value
<1>1. /\ L \in Nat /\ L >= 2 /\ Len(stack') = L - 1 /\ T \in Values /\ T = stack[L].value
      /\ stack'[L - 1].value = stack[L - 1].value
      /\ \A n \in 1..(L - 2) : stack'[n] = stack[n]
      /\ TopKey \in Defs \X Values /\ TopKey[2] = T /\ (T \in Defs => TopKey = <<T, T>>)
      /\ cache' = [cache EXCEPT ![TopKey] = ReturnedRefs]
  BY ReturnFacts
<1>2. T \notin TraitRefs =>
          /\ ReturnedRefs = {next_id} /\ Ids' = Ids \cup {next_id}
          /\ table'[next_id] = NewNode /\ NewNode.value = T
          /\ \A i \in Ids : table'[i] = table[i]
  BY NodeFacts
<1>3. T \in TraitRefs => Ids' = Ids /\ table' = table
  BY NoNodeFacts
<1>4. cache \in [Defs \X Values -> SUBSET Nat] /\ Defs \subseteq Values /\ Defs \cap TraitRefs = {}
  BY DefsAssumption DEF ExportTypes, Values
<1>5. ASSUME NEW o \in Defs, NEW v \in Values
      PROVE  cache'[<<o, v>>] = IF <<o, v>> = TopKey THEN ReturnedRefs ELSE cache[<<o, v>>]
  BY <1>1, <1>4
<1>6. /\ \A o \in Defs, v \in Values \ TraitRefs :
            cache[<<o, v>>] # {} => \E r \in cache[<<o, v>>] : table[r].value = v
      /\ \A o \in Defs, v \in Values : cache[<<o, v>>] \subseteq Ids
  BY DEF CacheIsTable, HasNode, IdsExist
<1>7. \A i \in Ids : table[i].value \in Defs => cache[<<table[i].value, table[i].value>>] # {}
  BY DEF CacheIsTable
<1>8. \A n \in 2..L : stack[n].value \in Defs => cache[<<stack[n].value, stack[n].value>>] = {}
  BY DEF CacheIsTable, L
<1>9. \A n \in 2..(L - 1) : stack[n].value # T /\ stack[n].value \in Values
  <2>1. /\ \A n \in 2..L : stack[n].value \in Values
        /\ \A n, q \in 2..L : n < q => Rank[stack[q].value] < Rank[stack[n].value]
    BY DEF StackShape, L
  <2>2. L \in 2..L /\ \A n \in 2..(L - 1) : n \in 2..L /\ n < L
    BY <1>1
  <2>3. \A n \in 2..(L - 1) : Rank[T] < Rank[stack[n].value] /\ Rank[T] \in Nat
    BY <1>1, <2>1, <2>2, PartsType
  <2> QED BY <2>1, <2>2, <2>3
<1> HIDE DEF L, T
<1>10. ASSUME NEW o \in Defs, NEW v \in Values \ TraitRefs, cache'[<<o, v>>] # {}
       PROVE  \E r \in cache'[<<o, v>>] : table'[r].value = v
  <2>1. CASE <<o, v>> = TopKey
    <3>1. v = T /\ T \notin TraitRefs
      BY <2>1, <1>1, <1>10
    <3> QED BY <2>1, <3>1, <1>2, <1>5
  <2>2. CASE <<o, v>> # TopKey
    <3>1. cache'[<<o, v>>] = cache[<<o, v>>]
      BY <2>2, <1>5, <1>10
    <3>2. PICK r \in cache[<<o, v>>] : table[r].value = v
      BY <3>1, <1>6, <1>10
    <3>3. r \in Ids
      BY <3>2, <1>6, <1>10
    <3>4. table'[r] = table[r]
      BY <3>3, <1>2, <1>3
    <3> QED BY <3>1, <3>2, <3>4
  <2> QED BY <2>1, <2>2
<1>11. ASSUME NEW i \in Ids', table'[i].value \in Defs
       PROVE  cache'[<<table'[i].value, table'[i].value>>] # {}
  <2> DEFINE w == table'[i].value
  <2>1. w \in Defs /\ w \in Values
    BY <1>4, <1>11
  <2>2. CASE i \in Ids
    <3>1. table'[i] = table[i]
      BY <2>2, <1>2, <1>3
    <3>2. cache[<<w, w>>] # {}
      BY <2>2, <3>1, <1>7, <1>11
    <3>3. <<w, w>> = TopKey => ReturnedRefs # {}
      BY <1>1, <1>2, <1>4, <2>1
    <3> QED BY <2>1, <3>2, <3>3, <1>5
  <2>3. CASE i \notin Ids
    <3>1. T \notin TraitRefs /\ i = next_id
      BY <2>3, <1>2, <1>3, <1>11
    <3>2. w = T
      BY <3>1, <1>2
    <3>3. <<w, w>> = TopKey
      BY <3>2, <2>1, <1>1
    <3> QED BY <3>1, <3>3, <2>1, <1>2, <1>5
  <2> QED BY <2>2, <2>3
<1>12. ASSUME NEW n \in 2..Len(stack'), stack'[n].value \in Defs
       PROVE  cache'[<<stack'[n].value, stack'[n].value>>] = {}
  <2> DEFINE w == stack'[n].value
  <2>1. n \in 2..(L - 1) /\ n \in 2..L /\ (n = L - 1 \/ n \in 1..(L - 2))
    BY <1>1, <1>12
  <2>2. w = stack[n].value
    BY <2>1, <1>1
  <2>3. w \in Defs /\ w \in Values /\ w # T
    BY <2>1, <2>2, <1>9, <1>12
  <2>4. <<w, w>> # TopKey
    BY <2>3, <1>1
  <2>5. cache[<<w, w>>] = {}
    BY <2>1, <2>2, <2>3, <1>8
  <2> QED BY <2>3, <2>4, <2>5, <1>5
<1> QED BY <1>10, <1>11, <1>12 DEF CacheIsTable, HasNode

\* Every step keeps the caches and the table in agreement.
LEMMA CacheStep ==
    ASSUME ExportTypes, StackShape, TasksAreKnown, IdsExist, CacheIsTable, [Next]_vars
    PROVE  CacheIsTable'
<1>1. CASE ReturnSInto
  BY <1>1, CacheReturn
<1>2. CASE UNCHANGED <<cache, next_id, table>>
           /\ \A n \in 2..Len(stack') : stack'[n].value \in Defs =>
                 cache[<<stack'[n].value, stack'[n].value>>] = {}
  <2>1. Ids' = Ids
    BY <1>2 DEF Ids
  <2>2. /\ \A o \in Defs, v \in Values \ TraitRefs :
              cache'[<<o, v>>] # {} => \E r \in cache'[<<o, v>>] : table'[r].value = v
        /\ \A i \in Ids' : table'[i].value \in Defs =>
              cache'[<<table'[i].value, table'[i].value>>] # {}
    BY <1>2, <2>1 DEF CacheIsTable, HasNode
  <2>3. \A n \in 2..Len(stack') : stack'[n].value \in Defs =>
                 cache'[<<stack'[n].value, stack'[n].value>>] = {}
    BY <1>2
  <2> QED BY <2>2, <2>3 DEF CacheIsTable, HasNode
<1>3. CASE CallSInto
  <2> DEFINE L == Len(stack)
  <2>1. /\ L \in Nat /\ L >= 1 /\ CallOf.arg \in Values
        /\ (CallOf.arg \in Defs => KeyOf = <<CallOf.arg, CallOf.arg>>)
    BY <1>3, CallFacts
  <2>2. /\ \A n \in 1..L : stack'[n].value = stack[n].value
        /\ cache[KeyOf] # {} => Len(stack') = L
        /\ cache[KeyOf] = {} => Len(stack') = L + 1 /\ stack'[L + 1] = Called
    BY <1>3, CallShape
  <2>3. \A n \in 2..L : stack[n].value \in Defs =>
                            cache[<<stack[n].value, stack[n].value>>] = {}
    BY DEF CacheIsTable, L
  <2> HIDE DEF L
  <2>4. Called.value = CallOf.arg
    BY DEF Called
  <2>5. ASSUME NEW n \in 2..Len(stack'), stack'[n].value \in Defs
        PROVE  cache[<<stack'[n].value, stack'[n].value>>] = {}
    <3>1. CASE n \in 2..L
      <4>1. n \in 1..L
        BY <3>1, <2>1
      <4> QED BY <3>1, <4>1, <2>2, <2>3, <2>5
    <3>2. CASE n \notin 2..L
      <4>1. n = L + 1 /\ cache[KeyOf] = {}
        BY <3>2, <2>1, <2>2, <2>5
      <4> QED BY <4>1, <2>1, <2>2, <2>4, <2>5
    <3> QED BY <3>1, <3>2
  <2>6. UNCHANGED <<cache, next_id, table>>
    BY <1>3 DEF CallSInto
  <2> QED BY <1>2, <2>5, <2>6
<1>4. CASE ~CallSInto /\ ~ReturnSInto
  <2>1. UNCHANGED <<cache, next_id, table>> /\ AtRoot
    BY <1>4, OtherSteps
  <2>2. CASE stack' = stack
    BY <2>1, <2>2, <1>2 DEF CacheIsTable
  <2>3. CASE stack' = <<>> \/ Len(stack') = 1
    <3>1. \A n : n \notin 2..Len(stack')
      BY <2>3, NoneAfterFirst
    <3> QED BY <2>1, <3>1, <1>2
  <2> QED BY <2>1, <2>2, <2>3 DEF AtRoot
<1> QED BY <1>1, <1>3, <1>4

\* A definition has one node.
LEMMA OneNodeStep ==
    ASSUME ExportTypes, StackShape, TasksAreKnown, IdsExist, CacheIsTable,
           \A i, j \in Ids : table[i].value = table[j].value /\ table[i].value \in Defs => i = j,
           [Next]_vars
    PROVE  \A i, j \in Ids' :
              table'[i].value = table'[j].value /\ table'[i].value \in Defs => i = j
<1>1. CASE ReturnSInto /\ Top.value \notin TraitRefs
  <2>1. /\ Ids' = Ids \cup {next_id} /\ table'[next_id] = NewNode /\ NewNode.value = Top.value
        /\ \A i \in Ids : table'[i] = table[i]
    BY <1>1, NodeFacts
  <2>2. Top.value \in Defs => cache[<<Top.value, Top.value>>] = {}
    <3>1. Top = stack[Len(stack)] /\ Len(stack) \in Nat /\ Len(stack) >= 2
      BY <1>1, ReturnFacts
    <3>2. Len(stack) \in 2..Len(stack)
      BY <3>1
    <3> QED BY <3>1, <3>2 DEF CacheIsTable
  <2>3. \A i \in Ids : table[i].value = Top.value => Top.value \notin Defs
    BY <2>2 DEF CacheIsTable
  <2> QED BY <2>1, <2>3
<1>2. CASE ReturnSInto /\ Top.value \in TraitRefs
  BY <1>2, NoNodeFacts
<1>3. CASE CallSInto
  BY <1>3 DEF CallSInto, Ids
<1>4. CASE ~CallSInto /\ ~ReturnSInto
  BY <1>4, OtherSteps DEF Ids
<1> QED BY <1>1, <1>2, <1>3, <1>4

\* The parts of the values.
LEMMA PartsInit == ASSUME Init PROVE PartsAreKnown
<1>1. \A n : n \notin 2..Len(stack)
  BY NoFrames DEF Init
<1>2. Ids = {}
  BY DEF Init, Ids
<1> QED BY <1>1, <1>2 DEF PartsAreKnown

\* The parts of a node are nodes it refers to.
LEMMA NodePartsStep ==
    ASSUME ExportTypes, StackShape, TasksAreKnown, IdsExist, PartsAreKnown, [Next]_vars
    PROVE  \A i \in Ids' : \A p \in Range(Parts(table'[i].value)) \ TraitRefs :
              \E r \in table'[i].refs : table'[r].value = p
<1>1. \A i \in Ids : \A p \in Range(Parts(table[i].value)) \ TraitRefs :
          \E r \in table[i].refs : table[r].value = p
  BY DEF PartsAreKnown, HasNode
<1>2. /\ \A i \in Ids : table[i].refs \subseteq 0..(i - 1)
      /\ \A i \in Ids : 0..(i - 1) \subseteq Ids
  BY DEF IdsExist, Ids, ExportTypes
<1>3. \A i \in Ids : table'[i] = table[i]
  BY TableGrows
<1>4. \A i \in Ids : \A p \in Range(Parts(table'[i].value)) \ TraitRefs :
          \E r \in table'[i].refs : table'[r].value = p
  <2> SUFFICES ASSUME NEW i \in Ids, NEW p \in Range(Parts(table[i].value)) \ TraitRefs
               PROVE  \E r \in table[i].refs : table'[r].value = p
    BY <1>3
  <2>1. PICK r \in table[i].refs : table[r].value = p
    BY <1>1
  <2>2. r \in Ids
    BY <1>2
  <2> QED BY <2>1, <2>2, <1>3
<1>5. CASE ReturnSInto /\ Top.value \notin TraitRefs
  <2>1. /\ Ids' = Ids \cup {next_id} /\ table'[next_id] = NewNode
        /\ NewNode.value = Top.value /\ NewNode.refs = Top.refs
    BY <1>5, NodeFacts
  <2>2. Top = stack[Len(stack)] /\ Len(stack) \in Nat /\ Len(stack) >= 2 /\ Top.todo = <<>>
    BY <1>5, ReturnFacts
  <2>3. Len(stack) \in 2..Len(stack) /\ Len(stack) \in 1..Len(stack)
    BY <2>2
  <2>4. Top.refs \subseteq Ids
    BY <2>2, <2>3 DEF IdsExist
  <2>5. ASSUME NEW p \in Range(Parts(Top.value)) \ TraitRefs
        PROVE  \E r \in Top.refs : table'[r].value = p
    <3>1. PartIsKnown(Len(stack), p)
      BY <2>2, <2>3 DEF PartsAreKnown
    <3>2. HasNode(Top.refs, p)
      <4>1. ~(Len(stack) < Len(stack))
        BY <2>2
      <4>2. Range(stack[Len(stack)].todo) = {}
        BY <2>2, RangeEmpty
      <4> QED BY <3>1, <4>1, <4>2, <2>2 DEF PartIsKnown
    <3> QED BY <3>2, <2>4, <1>3 DEF HasNode
  <2>6. \A p \in Range(Parts(table'[next_id].value)) \ TraitRefs :
            \E r \in table'[next_id].refs : table'[r].value = p
    BY <2>1, <2>5
  <2> QED BY <2>1, <2>6, <1>4
<1>6. CASE ReturnSInto /\ Top.value \in TraitRefs
  BY <1>4, <1>6, NoNodeFacts
<1>7. CASE CallSInto
  BY <1>4, <1>7 DEF CallSInto, Ids
<1>8. CASE ~CallSInto /\ ~ReturnSInto
  BY <1>4, <1>8, OtherSteps DEF Ids
<1> QED BY <1>5, <1>6, <1>7, <1>8

\* A part that is taken from the tasks is answered by the cache, or is being translated.
LEMMA PartsCall ==
    ASSUME ExportTypes, StackShape, TasksAreKnown, CacheIsTable, PartsAreKnown, CallSInto,
           NEW n \in 2..Len(stack'), NEW p \in Range(Parts(stack'[n].value)) \ TraitRefs
    PROVE  PartIsKnown(n, p)'
<1> DEFINE L == Len(stack)
<1>1. /\ L \in Nat /\ L >= 1 /\ CallOf.arg \in Values /\ CallOf.owner \in Defs
      /\ KeyOf \in Defs \X Values /\ KeyOf[2] = CallOf.arg
      /\ Range(Top.todo) = {CallOf} \cup Range(Tail(Top.todo))
      /\ CallerThen.todo = Tail(Top.todo) /\ CallerThen.refs = Top.refs \cup cache[KeyOf]
      /\ Top = stack[L]
  BY CallFacts, TopFacts DEF ExportTypes
<1>2. /\ stack'[L] = CallerThen
      /\ \A q \in 1..(L - 1) : stack'[q] = stack[q]
      /\ \A q \in 1..L : stack'[q].value = stack[q].value
      /\ cache[KeyOf] # {} => Len(stack') = L
      /\ cache[KeyOf] = {} => Len(stack') = L + 1 /\ stack'[L + 1] = Called
  BY CallShape
<1>3. UNCHANGED table
  BY DEF CallSInto
<1>4. SUFFICES \/ \E t \in Range(stack'[n].todo) : t.arg = p
               \/ (n < Len(stack') /\ stack'[n + 1].value = p)
               \/ \E r \in stack'[n].refs : table[r].value = p
  BY <1>3 DEF PartIsKnown, HasNode
<1>5. ASSUME n \in 2..L
      PROVE  /\ p \in Range(Parts(stack[n].value)) \ TraitRefs
             /\ \/ \E t \in Range(stack[n].todo) : t.arg = p
                \/ (n < L /\ stack[n + 1].value = p)
                \/ \E r \in stack[n].refs : table[r].value = p
  <2>1. n \in 1..L
    BY <1>5, <1>1
  <2>2. p \in Range(Parts(stack[n].value)) \ TraitRefs
    BY <2>1, <1>2
  <2>3. PartIsKnown(n, p)
    BY <2>2, <1>5 DEF PartsAreKnown, L
  <2> QED BY <2>2, <2>3 DEF PartIsKnown, HasNode, L
<1> HIDE DEF L
<1>6. CASE n \in 2..(L - 1)
  <2>1. n \in 2..L /\ n \in 1..(L - 1) /\ n + 1 \in 1..L /\ n < Len(stack')
    BY <1>1, <1>2, <1>6
  <2>2. stack'[n] = stack[n] /\ stack'[n + 1].value = stack[n + 1].value
    BY <2>1, <1>2
  <2> QED BY <2>1, <2>2, <1>5
<1>7. CASE n = L
  <2>1. n \in 2..L
    BY <1>1, <1>7
  <2>2. \/ \E t \in Range(Top.todo) : t.arg = p
        \/ \E r \in Top.refs : table[r].value = p
    BY <2>1, <1>1, <1>5, <1>7
  <2>3. CASE CallOf.arg = p
    <3>1. CASE cache[KeyOf] = {}
      <4>1. n < Len(stack') /\ stack'[n + 1].value = p
        BY <3>1, <2>3, <1>1, <1>2, <1>7 DEF Called
      <4> QED BY <4>1
    <3>2. CASE cache[KeyOf] # {}
      <4>1. \A o \in Defs, v \in Values \ TraitRefs :
                cache[<<o, v>>] # {} => \E r \in cache[<<o, v>>] : table[r].value = v
        BY DEF CacheIsTable, HasNode
      <4>2. p \in Values \ TraitRefs /\ KeyOf = <<KeyOf[1], p>> /\ KeyOf[1] \in Defs
        BY <1>1, <2>3
      <4>3. \E r \in cache[KeyOf] : table[r].value = p
        BY <3>2, <4>1, <4>2
      <4> QED BY <4>3, <1>1, <1>2, <1>7
    <3> QED BY <3>1, <3>2
  <2>4. CASE CallOf.arg # p
    BY <2>2, <2>4, <1>1, <1>2, <1>7
  <2> QED BY <2>3, <2>4
<1>8. CASE n = L + 1
  <2>1. stack'[n] = Called
    BY <1>1, <1>2, <1>8
  <2>2. Called.value = CallOf.arg /\ Called.todo = ValuesOf(CallOf.owner, Parts(CallOf.arg))
    BY DEF Called
  <2>3. Parts(CallOf.arg) \in Seq(Values)
    BY <1>1, PartsType
  <2>4. \A v \in Range(Parts(CallOf.arg)) :
            \E t \in Range(ValuesOf(CallOf.owner, Parts(CallOf.arg))) : t.arg = v
    BY <1>1, <2>3, ValuesOfFacts
  <2> QED BY <2>1, <2>2, <2>4
<1>9. n \in 2..(L - 1) \/ n = L \/ n = L + 1
  BY <1>1, <1>2
<1> QED BY <1>6, <1>7, <1>8, <1>9

\* The part that was being translated has its node.
LEMMA PartsReturn ==
    ASSUME ExportTypes, StackShape, TasksAreKnown, IdsExist, PartsAreKnown, ReturnSInto,
           NEW n \in 2..Len(stack'), NEW p \in Range(Parts(stack'[n].value)) \ TraitRefs
    PROVE  PartIsKnown(n, p)'
<1> DEFINE L == Len(stack)
<1>1. /\ L \in Nat /\ L >= 2 /\ Len(stack') = L - 1 /\ Top = stack[L]
      /\ stack'[L - 1].value = stack[L - 1].value
      /\ stack'[L - 1].todo = stack[L - 1].todo
      /\ stack'[L - 1].refs = stack[L - 1].refs \cup ReturnedRefs
      /\ \A q \in 1..(L - 2) : stack'[q] = stack[q]
  BY ReturnFacts
<1>2. Ids \subseteq Ids' /\ \A i \in Ids : table'[i] = table[i]
  <2>1. Next
    BY DEF Next
  <2> QED BY <2>1, TableGrows
<1>3. Top.value \notin TraitRefs =>
          ReturnedRefs = {next_id} /\ table'[next_id].value = Top.value
  BY NodeFacts
<1>4. /\ n \in 2..L /\ n \in 1..L /\ n < L /\ n + 1 \in 1..L
      /\ (n = L - 1 \/ (n \in 1..(L - 2) /\ n < L - 1))
  BY <1>1
<1>5. stack'[n].value = stack[n].value /\ stack'[n].todo = stack[n].todo
      /\ stack[n].refs \subseteq stack'[n].refs
  BY <1>1, <1>4
<1>6. PartIsKnown(n, p) /\ stack[n].refs \subseteq Ids
  BY <1>4, <1>5 DEF PartsAreKnown, IdsExist, L
<1>7. CASE \E t \in Range(stack[n].todo) : t.arg = p
  BY <1>5, <1>7 DEF PartIsKnown
<1>8. CASE stack[n + 1].value = p
  <2>1. CASE n = L - 1
    <3>1. p = Top.value /\ p \notin TraitRefs
      BY <1>1, <1>8, <2>1
    <3>2. next_id \in stack'[n].refs /\ table'[next_id].value = p
      BY <3>1, <2>1, <1>1, <1>3
    <3> QED BY <3>2 DEF PartIsKnown, HasNode
  <2>2. CASE n < L - 1
    <3>1. n < Len(stack') /\ (n + 1 = L - 1 \/ n + 1 \in 1..(L - 2))
      BY <2>2, <1>1, <1>4
    <3>2. stack'[n + 1].value = stack[n + 1].value
      BY <3>1, <1>1
    <3> QED BY <3>1, <3>2, <1>8 DEF PartIsKnown
  <2> QED BY <2>1, <2>2, <1>4
<1>9. CASE \E r \in stack[n].refs : table[r].value = p
  BY <1>2, <1>5, <1>6, <1>9 DEF PartIsKnown, HasNode
<1> QED BY <1>6, <1>7, <1>8, <1>9 DEF PartIsKnown, HasNode

\* Every step keeps the parts known.
LEMMA PartsStep ==
    ASSUME ExportTypes, StackShape, TasksAreKnown, IdsExist, CacheIsTable, PartsAreKnown,
           [Next]_vars
    PROVE  PartsAreKnown'
<1>1. \A n \in 2..Len(stack') : \A p \in Range(Parts(stack'[n].value)) \ TraitRefs :
          PartIsKnown(n, p)'
  <2>1. CASE CallSInto
    BY <2>1, PartsCall
  <2>2. CASE ReturnSInto
    BY <2>2, PartsReturn
  <2>3. CASE ~CallSInto /\ ~ReturnSInto
    <3>1. UNCHANGED <<cache, next_id, table>> /\ AtRoot
      BY <2>3, OtherSteps
    <3>2. CASE stack' = stack
      BY <3>1, <3>2 DEF PartsAreKnown, PartIsKnown, HasNode
    <3>3. CASE stack' = <<>> \/ Len(stack') = 1
      <4>1. \A n : n \notin 2..Len(stack')
        BY <3>3, NoneAfterFirst
      <4> QED BY <4>1
    <3> QED BY <3>1, <3>2, <3>3 DEF AtRoot
  <2> QED BY <2>1, <2>2, <2>3
<1>2. \A i \in Ids' : \A p \in Range(Parts(table'[i].value)) \ TraitRefs :
          \E r \in table'[i].refs : table'[r].value = p
  BY NodePartsStep
<1> QED BY <1>1, <1>2 DEF PartsAreKnown, HasNode

-----------------------------------------------------------------------------
(* The file *)

\* Nothing is read at the start.
LEMMA FileInit == ASSUME Init PROVE FileIsTable
<1>1. pc = "bodies" /\ next_id = 0 /\ read = 0 /\ state = <<>>
  BY DEF Init
<1>2. state \in [0..(read - 1) -> Node]
  <2>1. DOMAIN state = {} /\ 0..(read - 1) = {}
    BY <1>1
  <2>2. state = [i \in 0..(read - 1) |-> state[i]]
    BY <1>1, <2>1
  <2> QED BY <2>1, <2>2
<1> QED BY <1>1, <1>2 DEF FileIsTable, Reading

\* Before the export nothing is read.
LEMMA FileBefore ==
    ASSUME FileIsTable, pc \notin Reading, pc' \notin Reading, next_id' \in Nat,
           UNCHANGED <<read, state>>
    PROVE  FileIsTable'
<1>1. read = 0 /\ state \in [0..(read - 1) -> Node]
  BY DEF FileIsTable
<1>2. 0..(read' - 1) = {}
  BY <1>1
<1>3. pc' # "not_found_in_cache" /\ pc' # "done"
  BY DEF Reading
<1> QED BY <1>1, <1>2, <1>3 DEF FileIsTable

\* The table is written.
LEMMA FileExport ==
    ASSUME ExportTypes, FileIsTable, Export
    PROVE  FileIsTable'
<1>1. /\ pc = "impls" /\ pc' = "table" /\ UNCHANGED <<next_id, table, read, state>>
      /\ haxmeta \in Meta
  BY DEF Export, tableVars, ExportTypes
<1>2. haxmeta'.table = IdValuePairs
  <2> DEFINE u == UNION {cache[<<d, d>>] : d \in touched}
  <2>1. haxmeta' = [haxmeta EXCEPT !.def_ids = u, !.table = IdValuePairs]
    BY DEF Export
  <2> HIDE DEF u
  <2> QED BY <1>1, <2>1 DEF Meta
<1>3. IdValuePairs' = IdValuePairs
  BY <1>1 DEF IdValuePairs, Pair
<1>4. read = 0 /\ read \in 0..next_id /\ state \in [0..(read - 1) -> Node]
      /\ \A i \in 0..(read - 1) : state[i] = table[i]
  BY <1>1 DEF FileIsTable, Reading
<1> QED BY <1>1, <1>2, <1>3, <1>4 DEF FileIsTable

\* The nodes a pair refers to were read: it is added.
LEMMA FileReadPair ==
    ASSUME ExportTypes, IdsExist, FileIsTable, ReadPair
    PROVE  FileIsTable'
<1>1. /\ pc = "table" /\ UNCHANGED <<haxmeta, next_id, table>>
      /\ next_id \in Nat /\ table \in [Ids -> Node]
  BY DEF ReadPair, tableVars, ExportTypes
<1>2. /\ haxmeta.table = IdValuePairs /\ read \in 0..next_id
      /\ state \in [0..(read - 1) -> Node] /\ \A i \in 0..(read - 1) : state[i] = table[i]
  BY <1>1 DEF FileIsTable, Reading
<1>3. read < next_id /\ read \in Ids
  <2>1. Len(IdValuePairs) = next_id
    BY <1>1, PairsType
  <2>2. read < Len(haxmeta.table)
    BY DEF ReadPair
  <2> QED BY <1>1, <1>2, <2>1, <2>2 DEF Ids
<1> DEFINE pair == haxmeta.table[read + 1]
           node == [value |-> pair.value, refs |-> pair.refs]
<1>4. pair.id = read /\ pair.value = table[read].value /\ pair.refs = table[read].refs
  BY <1>1, <1>2, <1>3, PairsType
<1>5. table[read] \in Node /\ node = table[read]
  BY <1>1, <1>3, <1>4 DEF Node
<1>6. pair.refs \subseteq DOMAIN state
  BY <1>2, <1>3, <1>4 DEF IdsExist
<1>7. state' = Put(state, read, node) /\ read' = read + 1 /\ pc' = pc
  BY <1>4, <1>6 DEF ReadPair
<1> HIDE DEF pair, node
<1>8. state' = [i \in 0..(read - 1) \cup {read} |-> IF i = read THEN node ELSE state[i]]
  BY <1>2, <1>7 DEF Put
<1>9. 0..(read - 1) \cup {read} = 0..(read' - 1) /\ read' \in 0..next_id
  BY <1>1, <1>2, <1>3, <1>7
<1>10. \A i \in 0..(read' - 1) : state'[i] = table[i] /\ table[i] \in Node
  <2>1. \A i \in 0..(read' - 1) : state'[i] = IF i = read THEN node ELSE state[i]
    BY <1>8, <1>9
  <2>2. \A i \in 0..(read' - 1) : i = read \/ (i \in 0..(read - 1) /\ state[i] \in Node)
    BY <1>2, <1>9
  <2> QED BY <2>1, <2>2, <1>2, <1>5
<1>11. state' \in [0..(read' - 1) -> Node]
  <2>1. DOMAIN state' = 0..(read' - 1) /\ state' = [i \in 0..(read' - 1) |-> state'[i]]
    BY <1>8, <1>9
  <2> QED BY <2>1, <1>10
<1>12. IdValuePairs' = IdValuePairs
  BY <1>1 DEF IdValuePairs, Pair
<1> QED BY <1>1, <1>2, <1>7, <1>9, <1>10, <1>11, <1>12 DEF FileIsTable, Reading

\* The whole table was read: the value is decoded.
LEMMA FileReadValue ==
    ASSUME ExportTypes, IdsExist, FileIsTable, ReadValue
    PROVE  FileIsTable'
<1>1. /\ pc = "table" /\ UNCHANGED <<haxmeta, next_id, table, read, state>>
      /\ next_id \in Nat /\ table \in [Ids -> Node]
  BY DEF ReadValue, tableVars, exportVars, ExportTypes
<1>2. /\ haxmeta.table = IdValuePairs /\ read \in 0..next_id
      /\ state \in [0..(read - 1) -> Node] /\ \A i \in 0..(read - 1) : state[i] = table[i]
  BY <1>1 DEF FileIsTable, Reading
<1>3. read = next_id
  <2>1. Len(IdValuePairs) = next_id
    BY <1>1, PairsType
  <2>2. read = Len(haxmeta.table)
    BY DEF ReadValue
  <2> QED BY <1>2, <2>1, <2>2
<1>4. DOMAIN state = Ids
  BY <1>2, <1>3 DEF Ids
<1>5. pc' = "done"
  BY <1>4 DEF ReadValue, IdsExist
<1>6. IdValuePairs' = IdValuePairs
  BY <1>1 DEF IdValuePairs, Pair
<1> QED BY <1>1, <1>2, <1>3, <1>5, <1>6 DEF FileIsTable, Reading

\* Every step keeps what was read equal to what was written.
LEMMA FileStep ==
    ASSUME ExportTypes, StackShape, TasksAreKnown, IdsExist, FileIsTable, [Next]_vars
    PROVE  FileIsTable'
<1>0. next_id' \in Nat
  BY TypesStep DEF ExportTypes
<1>1. CASE Export
  BY <1>1, FileExport
<1>2. CASE ReadPair
  BY <1>2, FileReadPair
<1>3. CASE ReadValue
  BY <1>3, FileReadValue
<1>4. CASE UNCHANGED vars
  BY <1>4 DEF vars, FileIsTable, IdValuePairs, Pair
<1>5. ASSUME PrecomputeBody \/ BodiesDone \/ StartItem \/ EnterItem \/ GetBody
      PROVE  FileIsTable'
  <2>1. pc \notin Reading /\ pc' \notin Reading /\ UNCHANGED <<read, state>>
    BY <1>5 DEF PrecomputeBody, BodiesDone, StartItem, EnterItem, GetBody, exportVars, Reading
  <2> QED BY <1>0, <2>1, FileBefore
<1>6. ASSUME CallSInto \/ ReturnSInto \/ FinishItem \/ ItemsDone \/ StartImplInfos
             \/ FinishImplInfos
      PROVE  FileIsTable'
  <2>1. pc \notin Reading /\ pc' \notin Reading /\ UNCHANGED <<read, state>>
    BY <1>6 DEF CallSInto, ReturnSInto, FinishItem, ItemsDone, StartImplInfos,
                FinishImplInfos, exportVars, Reading
  <2> QED BY <1>0, <2>1, FileBefore
<1> QED BY <1>1, <1>2, <1>3, <1>4, <1>5, <1>6 DEF Next

-----------------------------------------------------------------------------
(* The implementations *)

\* A definition is touched when its translation begins.
LEMMA TouchedStep ==
    ASSUME ExportTypes, StackShape, TasksAreKnown, [Next]_vars,
           \A i \in Ids : table[i].value \in Defs => table[i].value \in touched,
           \A n \in 2..Len(stack) : stack[n].value \in Defs => stack[n].value \in touched
    PROVE  /\ \A i \in Ids' : table'[i].value \in Defs => table'[i].value \in touched'
           /\ \A n \in 2..Len(stack') :
                 stack'[n].value \in Defs => stack'[n].value \in touched'
<1>0. touched \subseteq touched'
  BY DEF Next, vars, tableVars, PrecomputeBody, BodiesDone, StartItem, EnterItem, GetBody,
         CallSInto, ReturnSInto, FinishItem, ItemsDone, StartImplInfos, FinishImplInfos,
         Export, ReadPair, ReadValue
<1>1. CASE CallSInto
  <2> DEFINE L == Len(stack)
  <2>1. /\ L \in Nat /\ L >= 1 /\ touched' = touched \cup {KeyOf[1]}
        /\ (CallOf.arg \in Defs => KeyOf = <<CallOf.arg, CallOf.arg>>)
    BY <1>1, CallFacts
  <2>2. /\ \A n \in 1..L : stack'[n].value = stack[n].value
        /\ cache[KeyOf] # {} => Len(stack') = L
        /\ cache[KeyOf] = {} => Len(stack') = L + 1 /\ stack'[L + 1] = Called
    BY <1>1, CallShape
  <2>3. Called.value = CallOf.arg
    BY DEF Called
  <2>4. CallOf.arg \in Defs => CallOf.arg \in touched'
    BY <2>1
  <2>5. \A n \in 2..L : stack[n].value \in Defs => stack[n].value \in touched
    OBVIOUS
  <2>6. Ids' = Ids /\ table' = table
    BY <1>1 DEF CallSInto, Ids
  <2> HIDE DEF L
  <2>7. ASSUME NEW n \in 2..Len(stack'), stack'[n].value \in Defs
        PROVE  stack'[n].value \in touched'
    <3>1. CASE n \in 2..L
      <4>1. n \in 1..L
        BY <3>1, <2>1
      <4> QED BY <3>1, <4>1, <1>0, <2>2, <2>5, <2>7
    <3>2. CASE n \notin 2..L
      <4>1. n = L + 1 /\ cache[KeyOf] = {}
        BY <3>2, <2>1, <2>2, <2>7
      <4> QED BY <4>1, <2>2, <2>3, <2>4, <2>7
    <3> QED BY <3>1, <3>2
  <2> QED BY <1>0, <2>6, <2>7
<1>2. CASE ReturnSInto
  <2> DEFINE L == Len(stack)
  <2>1. /\ L \in Nat /\ L >= 2 /\ Len(stack') = L - 1 /\ Top.value = stack[L].value
        /\ stack'[L - 1].value = stack[L - 1].value
        /\ \A n \in 1..(L - 2) : stack'[n] = stack[n]
    BY <1>2, ReturnFacts
  <2>2. \A n \in 2..L : stack[n].value \in Defs => stack[n].value \in touched
    OBVIOUS
  <2> HIDE DEF L
  <2>3. \A n \in 2..(L - 1) : n \in 2..L /\ (n = L - 1 \/ n \in 1..(L - 2))
    BY <2>1
  <2>4. \A n \in 2..Len(stack') : stack'[n].value \in Defs => stack'[n].value \in touched'
    BY <1>0, <2>1, <2>2, <2>3
  <2>5. Top.value \in Defs => Top.value \in touched
    <3>1. L \in 2..L
      BY <2>1
    <3> QED BY <3>1, <2>1, <2>2
  <2>6. \A i \in Ids' : table'[i].value \in Defs => table'[i].value \in touched'
    <3>1. CASE Top.value \in TraitRefs
      BY <1>0, <1>2, <3>1, NoNodeFacts
    <3>2. CASE Top.value \notin TraitRefs
      <4>1. /\ Ids' = Ids \cup {next_id} /\ table'[next_id] = NewNode
            /\ NewNode.value = Top.value /\ \A i \in Ids : table'[i] = table[i]
        BY <1>2, <3>2, NodeFacts
      <4> QED BY <1>0, <2>5, <4>1
    <3> QED BY <3>1, <3>2
  <2> QED BY <2>4, <2>6
<1>3. CASE ~CallSInto /\ ~ReturnSInto
  <2>1. UNCHANGED <<cache, next_id, table>> /\ AtRoot
    BY <1>3, OtherSteps
  <2>2. Ids' = Ids
    BY <2>1 DEF Ids
  <2>3. \A n \in 2..Len(stack') : stack'[n].value \in Defs => stack'[n].value \in touched'
    <3>1. CASE stack' = stack
      BY <1>0, <3>1
    <3>2. CASE stack' = <<>> \/ Len(stack') = 1
      <4>1. \A n : n \notin 2..Len(stack')
        BY <3>2, NoneAfterFirst
      <4> QED BY <4>1
    <3> QED BY <2>1, <3>1, <3>2 DEF AtRoot
  <2> QED BY <1>0, <2>1, <2>2, <2>3
<1> QED BY <1>1, <1>2, <1>3

\* The first call keeps its owner.
LEMMA OwnerStays ==
    ASSUME ExportTypes, StackShape, CallSInto \/ ReturnSInto
    PROVE  stack # <<>> /\ stack' # <<>> /\ stack'[1].owner = stack[1].owner
<1>1. CASE CallSInto
  <2>1. /\ Len(stack) \in Nat /\ Len(stack) >= 1 /\ stack # <<>> /\ stack' # <<>>
        /\ \A n \in 1..Len(stack) : stack'[n].owner = stack[n].owner
    BY <1>1, CallFacts, CallShape
  <2>2. 1 \in 1..Len(stack)
    BY <2>1
  <2> QED BY <2>1, <2>2
<1>2. CASE ReturnSInto
  <2> DEFINE L == Len(stack)
  <2>1. /\ L \in Nat /\ L >= 2 /\ stack # <<>> /\ stack' # <<>>
        /\ stack'[L - 1].owner = stack[L - 1].owner
        /\ \A n \in 1..(L - 2) : stack'[n] = stack[n]
    BY <1>2, ReturnFacts
  <2> HIDE DEF L
  <2>2. L - 1 = 1 \/ 1 \in 1..(L - 2)
    BY <2>1
  <2> QED BY <2>1, <2>2
<1> QED BY <1>1, <1>2

\* When the implementations are listed, what is to have its ImplInfos keeps it, and
\* the items have been written.
LEMMA InfosStay ==
    ASSUME ExportTypes, StackShape, TasksAreKnown, pc \in {"impls"} \cup Reading,
           pc \in Reading => todo_items = <<>>, [Next]_vars
    PROVE  /\ pc' \in {"impls"} \cup Reading
           /\ pc' \in Reading => todo_items' = <<>>
           /\ haxmeta'.items = haxmeta.items
           /\ \A d \in Defs : HasInfos(d) => HasInfos(d)'
<1> DEFINE Stays == /\ pc' \in {"impls"} \cup Reading
                    /\ pc' \in Reading => todo_items' = <<>>
                    /\ haxmeta'.items = haxmeta.items
                    /\ \A d \in Defs : HasInfos(d) => HasInfos(d)'
<1>0. pc # "bodies" /\ pc # "items"
  BY DEF Reading
<1>1. ASSUME CallSInto \/ ReturnSInto PROVE Stays
  <2>1. stack # <<>> /\ stack' # <<>> /\ stack'[1].owner = stack[1].owner
    BY <1>1, OwnerStays
  <2>2. UNCHANGED <<pc, todo_items, haxmeta>>
    BY <1>1 DEF CallSInto, ReturnSInto, exportVars
  <2> QED BY <2>1, <2>2 DEF HasInfos
<1>2. ASSUME StartImplInfos PROVE Stays
  <2> DEFINE d == Head(todo_items)
             s == <<Value(d, d)>> \o ValuesOf(d, krate.mentions[d])
  <2>1. d \in Defs /\ Range(todo_items) = {d} \cup Range(Tail(todo_items))
    BY <1>2, HeadTail DEF StartImplInfos, ExportTypes
  <2>2. s \in Seq(Task)
    BY <2>1, InfosTasksFacts DEF ExportTypes
  <2>3. /\ stack' = Root(d, s) /\ todo_items' = Tail(todo_items) /\ stack = <<>>
        /\ UNCHANGED <<pc, haxmeta>> /\ pc = "impls"
    BY <1>2 DEF StartImplInfos, exportVars
  <2> HIDE DEF d, s
  <2>4. stack' # <<>> /\ stack'[1].owner = d
    BY <2>1, <2>2, <2>3, RootFacts
  <2> QED BY <2>1, <2>3, <2>4 DEF HasInfos, Reading
<1>3. ASSUME FinishImplInfos PROVE Stays
  <2>1. /\ pc = "impls" /\ pc' = pc /\ UNCHANGED todo_items
        /\ Len(stack) = 1 /\ Top = stack[1] /\ haxmeta \in Meta
        /\ haxmeta' = [haxmeta EXCEPT !.impl_infos = @ \cup Top.refs,
                                      !.impls = @ \cup {Top.owner}]
    BY <1>3 DEF FinishImplInfos, Top, ExportTypes
  <2>2. haxmeta'.items = haxmeta.items /\ haxmeta'.impls = haxmeta.impls \cup {stack[1].owner}
    BY <2>1 DEF Meta
  <2> QED BY <2>1, <2>2 DEF HasInfos, Reading
<1>4. ASSUME Export PROVE Stays
  <2> DEFINE u == UNION {cache[<<d, d>>] : d \in touched}
  <2>1. /\ haxmeta' = [haxmeta EXCEPT !.def_ids = u, !.table = IdValuePairs]
        /\ haxmeta \in Meta /\ pc' = "table" /\ UNCHANGED <<todo_items, stack>>
        /\ todo_items = <<>>
    BY <1>4 DEF Export, ExportTypes
  <2> HIDE DEF u
  <2>2. haxmeta'.items = haxmeta.items /\ haxmeta'.impls = haxmeta.impls
    BY <2>1 DEF Meta
  <2> QED BY <2>1, <2>2 DEF HasInfos, Reading
<1>5. ASSUME ReadPair \/ ReadValue PROVE Stays
  <2>1. /\ pc = "table" /\ pc' \in Reading /\ UNCHANGED <<todo_items, stack, haxmeta>>
    BY <1>5 DEF ReadPair, ReadValue, exportVars, Reading
  <2> QED BY <2>1 DEF HasInfos, Reading
<1>6. ASSUME UNCHANGED vars PROVE Stays
  BY <1>6 DEF vars, HasInfos
<1>7. ~PrecomputeBody /\ ~BodiesDone /\ ~StartItem /\ ~EnterItem /\ ~GetBody
      /\ ~FinishItem /\ ~ItemsDone
  BY <1>0 DEF PrecomputeBody, BodiesDone, StartItem, EnterItem, GetBody, FinishItem, ItemsDone
<1> HIDE DEF Stays
<1>8. Stays
  BY <1>1, <1>2, <1>3, <1>4, <1>5, <1>6, <1>7 DEF Next
<1> QED BY <1>8 DEF Stays

\* No implementation is listed at the start.
LEMMA ImplsInit == ASSUME Init PROVE ImplsAreListed
<1>1. \A n : n \notin 2..Len(stack)
  BY NoFrames DEF Init
<1>2. Ids = {} /\ pc = "bodies"
  BY DEF Init, Ids
<1> QED BY <1>1, <1>2 DEF ImplsAreListed, Reading

\* A bound on a number, from one on its predecessor.
LEMMA LessByOne == ASSUME NEW a \in Nat, NEW b \in Nat, a - 1 \in 0..(b - 1) PROVE a <= b
OBVIOUS

\* Every step keeps the implementations listed.
LEMMA ImplsStep ==
    ASSUME ExportTypes, StackShape, TasksAreKnown, IdsExist, ImplsAreListed, [Next]_vars
    PROVE  ImplsAreListed'
<1>1. /\ \A i \in Ids' : table'[i].value \in Defs => table'[i].value \in touched'
      /\ \A n \in 2..Len(stack') : stack'[n].value \in Defs => stack'[n].value \in touched'
  BY TouchedStep DEF ImplsAreListed
<1>2. Ids \subseteq Ids' /\ (\A i \in Ids : table'[i] = table[i])
      /\ next_id \in Nat /\ next_id' \in Nat
  BY TableGrows, TypesStep DEF ExportTypes
<1>3. CASE pc \in {"impls"} \cup Reading
  <2>1. /\ pc' \in {"impls"} \cup Reading
        /\ pc' \in Reading => todo_items' = <<>>
        /\ haxmeta'.items = haxmeta.items
        /\ \A d \in Defs : HasInfos(d) => HasInfos(d)'
    BY <1>3, InfosStay DEF ImplsAreListed
  <2>2. PICK n \in 0..next_id :
              /\ haxmeta.items \subseteq 0..(n - 1)
              /\ \A i \in 0..(n - 1) : IsImpl(table[i].value) => HasInfos(table[i].value)
    BY <1>3 DEF ImplsAreListed
  <2>3. n \in 0..next_id'
    <3>1. next_id <= next_id'
      <4>1. CASE next_id = 0
        BY <4>1, <1>2
      <4>2. CASE next_id # 0
        <5>1. next_id - 1 \in Ids
          BY <4>2, <1>2 DEF Ids
        <5>2. next_id - 1 \in Ids'
          BY <5>1, <1>2
        <5>3. next_id - 1 \in 0..(next_id' - 1) /\ next_id \in Nat /\ next_id' \in Nat
          BY <5>2, <1>2 DEF Ids
        <5> QED BY <5>3, LessByOne
      <4> QED BY <4>1, <4>2
    <3> QED BY <3>1, <1>2
  <2>4. ASSUME NEW i \in 0..(n - 1), IsImpl(table'[i].value)
        PROVE  HasInfos(table[i].value)'
    <3>1. i \in Ids /\ table'[i] = table[i]
      BY <1>2 DEF Ids
    <3>2. IsImpl(table[i].value) /\ table[i].value \in Defs
      BY <2>4, <3>1 DEF IsImpl
    <3>3. HasInfos(table[i].value)
      BY <3>2, <2>2
    <3> QED BY <3>1, <3>2, <3>3, <2>1 DEF HasInfos
  <2>5. haxmeta'.items \subseteq 0..(n - 1)
    BY <2>1, <2>2
  <2>6. \A i \in 0..(n - 1) : IsImpl(table'[i].value) => HasInfos(table[i].value)'
    BY <2>4
  <2> QED BY <1>1, <2>1, <2>3, <2>5, <2>6 DEF ImplsAreListed
<1>4. CASE pc \notin {"impls"} \cup Reading /\ ItemsDone
  <2>1. /\ pc' = "impls" /\ UNCHANGED <<next_id, table, haxmeta>>
    BY <1>4 DEF ItemsDone, tableVars, exportVars
  <2>2. \A d \in touched : DefKind[d] = "Impl" => d \in Range(todo_items')
    BY <1>4, ImplListType DEF ExportTypes
  <2>3. \A i \in 0..(next_id - 1) : IsImpl(table[i].value) =>
            table[i].value \in Range(todo_items')
    BY <2>2 DEF ImplsAreListed, IsImpl, Ids
  <2>4. haxmeta.items \subseteq 0..(next_id - 1)
    BY DEF IdsExist, Ids
  <2>5. \A i \in 0..(next_id' - 1) : IsImpl(table'[i].value) => HasInfos(table[i].value)'
    BY <2>1, <2>3 DEF HasInfos
  <2>6. next_id \in 0..next_id /\ next_id' = next_id
    BY <1>2, <2>1
  <2> QED BY <1>1, <2>1, <2>4, <2>5, <2>6 DEF ImplsAreListed, Reading
<1>5. CASE pc \notin {"impls"} \cup Reading /\ ~ItemsDone
  <2>1. pc' \notin {"impls"} \cup Reading
    BY <1>5 DEF Next, vars, PrecomputeBody, BodiesDone, StartItem, EnterItem, GetBody,
                CallSInto, ReturnSInto, FinishItem, StartImplInfos, FinishImplInfos,
                Export, ReadPair, ReadValue, Reading
  <2> QED BY <1>1, <2>1 DEF ImplsAreListed
<1> QED BY <1>3, <1>4, <1>5

\* The definitions reached from ids below n belong to nodes below n.
LEMMA ReachedFacts ==
    ASSUME next_id \in Nat, NEW n \in 0..next_id, NEW ids, ids \subseteq 0..(n - 1),
           \A i \in Ids : table[i].refs \subseteq 0..(i - 1)
    PROVE  \A d \in Reached(ids) : d \in Defs /\ \E i \in 0..(n - 1) : table[i].value = d
<1> DEFINE N == next_id
           D == SUBSET (0..(n - 1))
           With(before) == before \cup UNION {table[r].refs : r \in before}
           step == [p \in D \X (1..N) |-> With(p[1])]
<1>1. N \in Nat /\ ids \in D
  OBVIOUS
<1>2. \A before \in D : With(before) \in D
  <2>1. \A r \in 0..(n - 1) : r \in Ids /\ 0..(r - 1) \subseteq 0..(n - 1)
    BY DEF Ids
  <2>2. \A r \in 0..(n - 1) : table[r].refs \subseteq 0..(n - 1)
    BY <2>1
  <2> QED BY <2>2
<1> HIDE DEF N, With
<1>3. step \in [D \X (1..N) -> D] /\ \A b \in D, m \in 1..N : step[<<b, m>>] = With(b)
  BY <1>2
<1> HIDE DEF D, step
<1>4. PICK f : IsRecursion(f, D, ids, N, step)
  BY <1>1, <1>3, RecursionExists
<1>5. \A m \in 0..N : m # 0 => m \in 1..N /\ m - 1 \in 0..N /\ f[m - 1] \in D
  BY <1>1, <1>4 DEF IsRecursion
<1>6. f = [m \in 0..N |-> IF m = 0 THEN ids ELSE With(f[m - 1])]
  BY <1>3, <1>4, <1>5 DEF IsRecursion
<1> DEFINE to == CHOOSE g : g = [m \in 0..N |-> IF m = 0 THEN ids ELSE With(g[m - 1])]
<1>7. to = [m \in 0..N |-> IF m = 0 THEN ids ELSE With(to[m - 1])]
  BY <1>6
<1>8. Reached(ids) = {table[r].value : r \in to[N]} \cap Defs
  BY DEF Reached, With, N
<1> HIDE DEF to
<1> DEFINE T == {m \in 0..N : to[m] \in D}
<1>9. 0 \in T
  BY <1>1, <1>7
<1>10. ASSUME NEW m \in 0..(N - 1), m \in T PROVE m + 1 \in T
  <2>1. m + 1 \in 0..N /\ m + 1 # 0 /\ (m + 1) - 1 = m
    BY <1>1
  <2>2. to[m + 1] = With(to[m])
    BY <2>1, <1>7
  <2> QED BY <1>2, <1>10, <2>1, <2>2
<1>11. 0..N \subseteq T
  <2> HIDE DEF T
  <2> QED BY <1>1, <1>9, <1>10, IntervalInduction
<1>12. N \in 0..N
  BY <1>1
<1>13. to[N] \in D
  BY <1>11, <1>12
<1> QED BY <1>8, <1>13 DEF D

-----------------------------------------------------------------------------
(* The theorems *)

\* The inductive invariant.
IInv == /\ ExportTypes /\ StackShape /\ TasksAreKnown
        /\ BodiesInOrder
        /\ IdsExist /\ CacheIsTable /\ PartsAreKnown /\ OneNodePerDef
        /\ FileIsTable /\ ImplsAreListed

\* Functions that agree everywhere are equal.
LEMMA SameFunctions ==
    ASSUME NEW A, NEW B, NEW f \in [A -> B], NEW g \in [A -> B], \A i \in A : f[i] = g[i]
    PROVE  f = g
OBVIOUS

\* The table has the ids below next_id.
LEMMA TableDomain == ASSUME ExportTypes PROVE DOMAIN table = Ids
BY DEF ExportTypes

\* It holds at the start.
LEMMA IInvInit == Init => IInv
<1> SUFFICES ASSUME Init PROVE IInv
  OBVIOUS
<1>1. ExportTypes /\ TasksAreKnown /\ BodiesInOrder /\ IdsExist /\ CacheIsTable
      /\ PartsAreKnown /\ FileIsTable /\ ImplsAreListed
  BY TypesInit, TasksInit, OrderInit, IdsInit, CacheInit, PartsInit, FileInit, ImplsInit
<1>2. StackShape
  <2>1. \A n : n \notin 2..Len(stack)
    BY NoFrames DEF Init
  <2>2. stack = <<>>
    BY DEF Init
  <2> QED BY <2>1, <2>2 DEF StackShape
<1>3. OneNodePerDef
  <2>1. DOMAIN table = {}
    BY <1>1, TableDomain DEF Init, Ids
  <2> QED BY <2>1 DEF OneNodePerDef
<1> QED BY <1>1, <1>2, <1>3 DEF IInv

\* Every step keeps it.
LEMMA IInvStep == IInv /\ [Next]_vars => IInv'
<1> SUFFICES ASSUME IInv, [Next]_vars PROVE IInv'
  OBVIOUS
<1>1. /\ ExportTypes /\ StackShape /\ TasksAreKnown /\ BodiesInOrder /\ IdsExist
      /\ CacheIsTable /\ PartsAreKnown /\ OneNodePerDef /\ FileIsTable /\ ImplsAreListed
  BY DEF IInv
<1>2. ExportTypes' /\ StackShape' /\ TasksAreKnown'
  BY <1>1, TypesStep, ShapeStep, TasksStep
<1>3. BodiesInOrder' /\ IdsExist' /\ CacheIsTable' /\ PartsAreKnown'
  BY <1>1, OrderStep, IdsStep, CacheStep, PartsStep
<1>4. FileIsTable' /\ ImplsAreListed'
  BY <1>1, FileStep, ImplsStep
<1>5. OneNodePerDef'
  <2>1. \A i, j \in Ids : table[i].value = table[j].value /\ table[i].value \in Defs => i = j
    BY <1>1, TableDomain DEF OneNodePerDef
  <2>2. \A i, j \in Ids' :
            table'[i].value = table'[j].value /\ table'[i].value \in Defs => i = j
    BY <1>1, <2>1, OneNodeStep
  <2>3. DOMAIN table' = Ids'
    BY <1>2 DEF ExportTypes
  <2> QED BY <2>2, <2>3 DEF OneNodePerDef
<1> QED BY <1>2, <1>3, <1>4, <1>5 DEF IInv

\* It holds in every reachable state.
LEMMA IInvHolds == Spec => []IInv
BY IInvInit, IInvStep, PTL DEF Spec

\* Types: the ids of the table are the numbers below Session.next_id, and the calls
\* of sinto that have not returned, the caches and the file keep their form.
THEOREM TypesHold == Spec => []ExportTypes
<1>1. IInv => ExportTypes
  BY DEF IInv
<1> QED BY <1>1, IInvHolds, PTL

\* The calls of sinto are nested by what values are made of: of the calls under way
\* none is of a value that another one is translating, so that a cache is not filled
\* by an inner call for an outer one (sinto, between the lookup and the store).
THEOREM CallsAreNested == Spec => []StackShape
<1>1. IInv => StackShape
  BY DEF IInv
<1> QED BY <1>1, IInvHolds, PTL

\* Bodies are asked for in the order in which rustc evaluates them: a body is lost
\* to one that comes at least as early, with an error, and no body that is asked for
\* later is missing (precompute_local_thir_bodies, get_thir).
THEOREM BodiesAreLostInOrder == Spec => []BodiesLostInOrder
<1>1. IInv => BodiesLostInOrder
  BY DEF IInv, BodiesInOrder, BodiesLostInOrder
<1> QED BY <1>1, IInvHolds, PTL

\* The table of nodes has each definition once, and a node's references are older
\* and hold its parts (Node::new, fresh_id, the caches of sinto).
THEOREM TheTableIsSound == Spec => []TableIsSound
<1>1. ASSUME IInv PROVE TableIsSound
  <2>1. ExportTypes /\ IdsExist /\ PartsAreKnown /\ OneNodePerDef
    BY <1>1 DEF IInv
  <2>2. DOMAIN table = Ids /\ next_id \in Nat
    BY <2>1, TableDomain DEF ExportTypes
  <2>3. \A i \in Ids : \A r \in table[i].refs : r < i
    BY <2>1, <2>2 DEF IdsExist, Ids
  <2>4. ASSUME NEW i \in Ids
        PROVE  Range(Parts(table[i].value)) \ TraitRefs \subseteq
                  {table[r].value : r \in table[i].refs}
    BY <2>1 DEF PartsAreKnown, HasNode
  <2> QED BY <2>1, <2>2, <2>3, <2>4 DEF TableIsSound, PartsComeFirst
<1> QED BY <1>1, IInvHolds, PTL

\* The file can be decoded in one pass and gives the table it was made of
\* (WithTable::serialize, WithTable::deserialize).
THEOREM TheFileIsReadBack == Spec => []FileIsReadBack
<1>1. ASSUME IInv PROVE FileIsReadBack
  <2>1. /\ table \in [Ids -> Node] /\ pc # "not_found_in_cache"
        /\ pc = "done" => read = next_id
        /\ state \in [0..(read - 1) -> Node]
        /\ \A i \in 0..(read - 1) : state[i] = table[i]
    BY <1>1 DEF IInv, ExportTypes, FileIsTable
  <2>2. ASSUME pc = "done" PROVE state = table
    <3>1. state \in [Ids -> Node] /\ \A i \in Ids : state[i] = table[i]
      BY <2>1, <2>2 DEF Ids
    <3>2. table \in [Ids -> Node]
      BY <2>1
    <3> QED BY <3>1, <3>2, SameFunctions
  <2> QED BY <2>1, <2>2 DEF FileIsReadBack
<1> QED BY <1>1, IInvHolds, PTL

\* Every implementation that the ids of the items lead to has its ImplInfos, although
\* definitions are still translated after the implementations were listed
\* (impl_def_ids_to_impled_types_and_bounds).
THEOREM TheImplsHaveInfos == Spec => []ImplsHaveInfos
<1>1. ASSUME IInv PROVE ImplsHaveInfos
  <2>1. ExportTypes /\ StackShape /\ IdsExist /\ ImplsAreListed
    BY <1>1 DEF IInv
  <2>2. next_id \in Nat /\ \A i \in Ids : table[i].refs \subseteq 0..(i - 1)
    BY <2>1 DEF ExportTypes, IdsExist
  <2>3. ASSUME pc \in {"table", "done"}, NEW d \in Reached(haxmeta.items), DefKind[d] = "Impl"
        PROVE  d \in haxmeta.impls
    <3>1. todo_items = <<>> /\ stack = <<>>
      BY <2>1, <2>3 DEF ImplsAreListed, StackShape, Reading
    <3>2. PICK n \in 0..next_id :
              /\ haxmeta.items \subseteq 0..(n - 1)
              /\ \A i \in 0..(n - 1) : IsImpl(table[i].value) => HasInfos(table[i].value)
      BY <2>1, <2>3 DEF ImplsAreListed, Reading
    <3> DEFINE ids == haxmeta.items
    <3>3. ids \subseteq 0..(n - 1) /\ d \in Reached(ids)
      BY <2>3, <3>2
    <3> HIDE DEF ids
    <3>4. d \in Defs /\ \E i \in 0..(n - 1) : table[i].value = d
      BY <2>2, <3>3, ReachedFacts
    <3>5. HasInfos(d)
      BY <2>3, <3>2, <3>4 DEF IsImpl
    <3> QED BY <3>1, <3>5, RangeEmpty DEF HasInfos
  <2> QED BY <2>3 DEF ImplsHaveInfos
<1> QED BY <1>1, IInvHolds, PTL
=============================================================================
