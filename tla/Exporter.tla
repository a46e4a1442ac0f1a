------------------------------ MODULE Exporter ------------------------------
(***************************************************************************)
(* The export of one crate by the driver, from its bodies to the haxmeta   *)
(* file, and the reading of that file.                                     *)
(*                                                                         *)
(* convert_thir (cli/driver/src/exporter.rs) first asks rustc for the THIR *)
(* of every body.  Then it translates the items: `sinto` turns definitions,*)
(* types and trait references into values that are kept in caches          *)
(* (frontend/exporter/src/state.rs), and every definition or type becomes  *)
(* a node with a fresh id of the id table (id_table.rs).  The file holds   *)
(* the table and values in which nodes are ids only.                       *)
(*                                                                         *)
(* `sinto` is recursive: a cache is looked up, the parts are translated,   *)
(* the cache is filled.  The stack of the calls is explicit here, so that  *)
(* what happens between the lookup and the store can be seen.              *)
(*                                                                         *)
(* rustc is external.  Of it the model keeps: the THIR of a body that is   *)
(* evaluated as a constant is stolen, and so is its built MIR; to compute  *)
(* the THIR of a body may evaluate constants.                              *)
(***************************************************************************)
EXTENDS RustData, SequencesExt, FiniteSets, Functions

CONSTANTS Defs,       \* the definitions (rustc's DefId)
          None,       \* no definition
          Parent,     \* Parent[d]: the enclosing definition, or None
          Children,   \* Children[d]: those it encloses, in definition order
          DefKind,    \* DefKind[d]: what rustc says it is
          ConstFns,   \* the functions declared `const`
          Tys,        \* the types
          TyShape,    \* TyShape[t]: its constructor and what it is made of
          TraitRefs,  \* the trait references to solve
          Resolution, \* Resolution[p]: how p is implemented (TraitResolution)
          Rank,       \* what a value is made of has a lower rank
          Krates      \* the crates to export

Values == Defs \cup Tys \cup TraitRefs

ConstKinds == {"Const", "ConstParam", "AssocConst", "AnonConst", "InlineConst"}
FnKinds == {"Fn", "AssocFn", "Ctor", "Closure"}

ItemKinds == {"Mod", "Const", "Static", "Fn", "Enum", "Struct", "Trait", "Impl"}

ASSUME DefsAssumption ==
    /\ None \notin Defs
    /\ Parent \in [Defs -> Defs \cup {None}]
    /\ Children \in [Defs -> Seq(Defs)]
    /\ DefKind \in [Defs -> STRING]
    /\ ConstFns \subseteq Defs
    /\ IsFiniteSet(Defs)
    /\ Defs \cap Tys = {} /\ Defs \cap TraitRefs = {} /\ Tys \cap TraitRefs = {}

ASSUME KratesAssumption ==
    \A k \in Krates :
        /\ k.body_owners \in Seq(Defs)              \* the bodies rustc lists
        /\ k.ill_typed \in SUBSET Defs              \* those that have a type error
        /\ k.evaluates \in [Defs -> SUBSET Defs]    \* what typing a body evaluates
        /\ k.items \in Seq(Defs)                    \* the items, nested ones included
        /\ k.consts \in [Defs -> Seq(Defs)]         \* discriminants and defaults
        /\ k.mentions \in [Defs -> Seq(Values)]     \* what a definition or body names
        /\ k.body_types \in SUBSET {"Thir", "MirBuilt"}
        \* rustc refuses a constant whose type needs its own value
        /\ \A b \in Defs : b \notin k.evaluates[b]
        \* a function has neither discriminants nor defaults of constant parameters
        /\ \A d \in Defs : \A i \in DOMAIN k.consts[d] :
               DefKind[k.consts[d][i]] = "AnonConst" => Parent[k.consts[d][i]] \in
                   {p \in Defs : DefKind[p] \notin FnKinds}
        \* an anonymous constant is no item
        /\ \A i \in DOMAIN k.items : DefKind[k.items[i]] # "AnonConst"
        \* the closures of a body that rustc lists are listed too
        /\ \A b \in Range(k.body_owners) : \A i \in DOMAIN Children[b] :
               DefKind[Children[b][i]] = "Closure" => Children[b][i] \in Range(k.body_owners)

VARIABLES
    krate,       \* the crate that is exported
    pc,          \* the step of convert_thir, or how it ended
    bodies,      \* the bodies whose THIR is still to be asked for
    thir,        \* ItemCache.thir: "none", "body" or "dummy"
    thief,       \* who made rustc steal the THIR of a body first
    errors,      \* the definitions an error was reported on
    todo_items,  \* the items, then the impls, still to translate
    stack,       \* the calls of sinto that have not returned
    cache,       \* ItemCache.def_id, .tys and .impl_exprs
    touched,     \* GlobalCache.per_item has an entry
    next_id,     \* Session.next_id
    table,       \* Session.table, from ids to nodes
    haxmeta,     \* what is written: the ids of each part, and the table
    read,        \* the number of pairs of the table read back
    state        \* DESERIALIZATION_STATE, from ids to nodes

exportVars == <<krate, haxmeta, read, state>>
bodyVars == <<bodies, thir, thief, errors>>
tableVars == <<cache, touched, next_id, table>>
vars == <<krate, pc, bodies, thir, thief, errors, todo_items, stack, cache,
          touched, next_id, table, haxmeta, read, state>>

-----------------------------------------------------------------------------
(* precompute_local_thir_bodies *)

\* A body that runs when constants are evaluated comes before one that does not.
ConstLevel(b) == CASE DefKind[b] \in ConstKinds -> 0
                   [] DefKind[b] \notin ConstKinds /\ b \in ConstFns -> 1
                   [] OTHER -> 2

\* Inline and anonymous constants of functions are left out: rustc checks them
\* with the function.
IsFn(d) == d # None /\ DefKind[d] \in FnKinds
IsKept(b) == DefKind[b] \in {"InlineConst", "AnonConst"} => ~IsFn(Parent[b])

\* Faulty variant of ByLevel: as rustc lists them.
AsListed(s) == s

\* sorted_by_key is stable.
ByLevel(s) == LET Level(n) == Among(s, {b \in Defs : ConstLevel(b) = n})
              IN  Level(0) \o Level(1) \o Level(2)

LocalBodies(k) == ByLevel(Among(k.body_owners, {b \in Defs : IsKept(b)}))

PrecomputeBody ==
    /\ pc = "bodies" /\ bodies # <<>>
    /\ LET b == Head(bodies)
           lost == b \in krate.ill_typed \/ thief[b] # None
       IN  /\ thief' = [d \in Defs |-> IF thief[d] = None /\ d \in krate.evaluates[b]
                                       THEN b ELSE thief[d]]
           /\ thir' = [thir EXCEPT ![b] = IF lost THEN "dummy" ELSE "body"]
           /\ errors' = IF lost THEN errors \cup {b} ELSE errors
           /\ touched' = touched \cup {b}
    /\ bodies' = Tail(bodies)
    /\ UNCHANGED <<pc, todo_items, stack, cache, next_id, table, exportVars>>

-----------------------------------------------------------------------------
(* What the translation of a value, a body or an item asks for *)

Value(o, v) == [task |-> "value", owner |-> o, arg |-> v]
BodyOf(o, b) == [task |-> "body", owner |-> o, arg |-> b]
ItemTask(d) == [task |-> "item", owner |-> d, arg |-> d]

Task == [task : {"value"}, owner : Defs, arg : Values]
        \cup [task : {"body", "item"}, owner : Defs, arg : Defs]

ValuesOf(o, s) == [i \in DOMAIN s |-> Value(o, s[i])]

\* ClosureArgs::sfrom: the generics of the enclosing item, what it requires, the
\* signatures and the captures, all in args.
ClosureParts(sh) == <<sh.def>> \o sh.args

\* Alias::from: a projection resolves its trait, an opaque type is replaced by
\* what it hides.
AliasParts(sh) == IF sh.kind = "Projection"
                  THEN <<sh.assoc>> \o sh.bounds \o sh.args \o <<sh.assoc>>
                  ELSE <<sh.hidden>> \o sh.args \o <<sh.def>>

\* TyKind: the order is that of the evaluation.
TyParts(t) ==
    LET sh == TyShape[t]
    IN  CASE sh.kind = "Adt" -> <<sh.def>> \o sh.args \o sh.bounds
          [] sh.kind = "Closure" -> ClosureParts(sh)
          [] sh.kind \in {"Projection", "Opaque"} -> AliasParts(sh)
          [] sh.kind = "Structural" -> sh.args
          [] OTHER -> <<>>

\* ImplExpr: the trait reference, then what implements it.
ImplParts(p) ==
    LET r == Resolution[p]
    IN  <<r.trait>> \o r.args \o
        CASE r.kind = "Concrete" -> <<r.impl>> \o r.generics \o r.nested
          [] r.kind = "LocalBound" -> r.bound
          [] r.kind = "Builtin" -> r.nested \o r.generics
          [] OTHER -> <<>>

\* DefIdContents refers to its parent only.
DefParts(d) == IF Parent[d] = None THEN <<>> ELSE <<Parent[d]>>

Parts(v) == IF v \in Defs THEN DefParts(v)
            ELSE IF v \in Tys THEN TyParts(v) ELSE ImplParts(v)

ASSUME PartsAssumption ==
    \A v \in Values : /\ Parts(v) \in Seq(Values) /\ Rank[v] \in Nat
                      /\ \A i \in DOMAIN Parts(v) : Rank[Parts(v)[i]] < Rank[v]

\* The closures of a body are translated with it (ExprKind::Closure).
ClosuresOf(o, b) ==
    LET cs == Among(Children[b], {c \in Defs : DefKind[c] = "Closure"})
    IN  [i \in DOMAIN cs |-> BodyOf(o, cs[i])]

\* A function has its THIR asked for whatever bodies are exported (make_fn_def).
FnAsks(d) == DefKind[d] \in {"Fn", "AssocFn"}

\* A constant, when bodies are.
ConstAsks(d) == /\ DefKind[d] \in {"Const", "AssocConst", "Static", "AnonConst"}
                /\ krate.body_types # {}

\* A required function or constant of a trait has no body.
Asks(d) == d \in Range(krate.body_owners) /\ (FnAsks(d) \/ ConstAsks(d))

\* The definitions that are translated as a part of d.
Enclosed(d, kinds) == Among(Children[d], {c \in Defs : DefKind[c] \in kinds})
AssocItems(d) == Enclosed(d, {"AssocFn", "AssocConst", "AssocTy"})
Variants(d) == Enclosed(d, {"Variant"})
ModItems(d) == Enclosed(d, ItemKinds)
Below(d) ==
    krate.consts[d] \o
    CASE DefKind[d] \in {"Trait", "Impl"} -> AssocItems(d)
      [] DefKind[d] = "Enum" -> Variants(d)
      [] DefKind[d] = "Mod" -> ModItems(d)
      [] OTHER -> <<>>

ItemTasks(d) ==
    LET below == Below(d)
    IN  <<Value(d, d)>> \o ValuesOf(d, krate.mentions[d])
        \o (IF Asks(d) THEN <<BodyOf(d, d)>> ELSE <<>>)
        \o [i \in DOMAIN below |-> ItemTask(below[i])]

-----------------------------------------------------------------------------
(* sinto, one call after the other *)

\* Faulty variant of CacheKey: definitions are cached per owner too.
OwnerKey(o, v) == <<o, v>>

\* A definition is cached once, a type or a trait reference once per owner.
CacheKey(o, v) == IF v \in Defs THEN <<v, v>> ELSE <<o, v>>

Top == stack[Len(stack)]
Callers == SubSeq(stack, 1, Len(stack) - 1)

SetTop(f) == [stack EXCEPT ![Len(stack)] = f]

\* A call made by the topmost one.  It is answered from the cache, or begins by
\* translating the parts of the value.
CallSInto ==
    /\ pc \in {"items", "impls"} /\ stack # <<>> /\ Top.todo # <<>>
    /\ Head(Top.todo).task = "value"
    /\ LET call == Head(Top.todo)
           known == cache[CacheKey(call.owner, call.arg)]
           caller == [Top EXCEPT !.todo = Tail(@), !.refs = @ \cup known]
       IN  /\ stack' = IF known # {} THEN SetTop(caller)
                       ELSE Append(SetTop(caller),
                                   [owner |-> call.owner, value |-> call.arg,
                                    todo |-> ValuesOf(call.owner, Parts(call.arg)),
                                    refs |-> {}])
           /\ touched' = touched \cup {CacheKey(call.owner, call.arg)[1]}
    /\ UNCHANGED <<pc, bodyVars, todo_items, cache, next_id, table, exportVars>>

\* Faulty variant of FreshId: the counter stays.
StaleId == next_id

\* fresh_id: what the counter becomes.
FreshId == next_id + 1

\* The parts are translated: Node::new for a definition or a type, and the
\* cache is filled.  A trait reference has no node of its own.
ReturnSInto ==
    /\ pc \in {"items", "impls"} /\ stack # <<>> /\ Top.todo = <<>> /\ Top.value # None
    /\ LET is_node == Top.value \notin TraitRefs
           refs == IF is_node THEN {next_id} ELSE Top.refs
           caller == stack[Len(stack) - 1]
       IN  /\ table' = IF is_node
                       THEN Put(table, next_id, [value |-> Top.value, refs |-> Top.refs])
                       ELSE table
           /\ next_id' = IF is_node THEN FreshId ELSE next_id
           /\ cache' = [cache EXCEPT ![CacheKey(Top.owner, Top.value)] = refs]
           /\ stack' = [Callers EXCEPT ![Len(Callers)] =
                            [caller EXCEPT !.refs = @ \cup refs]]
    /\ UNCHANGED <<pc, bodyVars, todo_items, touched, exportVars>>

\* An item or associated item, under its own owner.
EnterItem ==
    /\ pc = "items" /\ stack # <<>> /\ Top.todo # <<>> /\ Head(Top.todo).task = "item"
    /\ stack' = SetTop([Top EXCEPT !.todo = ItemTasks(Head(@).arg) \o Tail(@)])
    /\ UNCHANGED <<pc, bodyVars, todo_items, tableVars, exportVars>>

\* get_thir, then Body::body: the built MIR of a body that was evaluated is gone,
\* and the closures are a part of the THIR only.
GetBody ==
    /\ pc = "items" /\ stack # <<>> /\ Top.todo # <<>> /\ Head(Top.todo).task = "body"
    /\ LET call == Head(Top.todo)
           b == call.arg
           gone == "MirBuilt" \in krate.body_types /\ thief[b] # None
           closures == IF "Thir" \in krate.body_types THEN ClosuresOf(call.owner, b) ELSE <<>>
       IN  /\ pc' = IF thir[b] = "none" THEN "thir_not_found"
                    ELSE IF gone THEN "mir_stolen" ELSE pc
           /\ stack' = SetTop([Top EXCEPT !.todo =
                closures \o ValuesOf(call.owner, krate.mentions[b]) \o Tail(@)])
           /\ touched' = touched \cup {b}
    /\ UNCHANGED <<bodyVars, todo_items, cache, next_id, table, exportVars>>

-----------------------------------------------------------------------------
(* convert_thir *)

Root(d, tasks) == <<[owner |-> d, value |-> None, todo |-> tasks, refs |-> {}]>>

BodiesDone ==
    /\ pc = "bodies" /\ bodies = <<>>
    /\ pc' = "items"
    /\ UNCHANGED <<bodyVars, todo_items, stack, tableVars, exportVars>>

StartItem ==
    /\ pc = "items" /\ stack = <<>> /\ todo_items # <<>>
    /\ stack' = Root(Head(todo_items), <<ItemTask(Head(todo_items))>>)
    /\ todo_items' = Tail(todo_items)
    /\ UNCHANGED <<pc, bodyVars, tableVars, exportVars>>

FinishItem ==
    /\ pc = "items" /\ Len(stack) = 1 /\ Top.todo = <<>> /\ Top.value = None
    /\ haxmeta' = [haxmeta EXCEPT !.items = @ \cup Top.refs]
    /\ stack' = <<>>
    /\ UNCHANGED <<krate, pc, bodyVars, todo_items, tableVars, read, state>>

\* Faulty variant of WithParents: the items of the crate only.
OwnItems(ds) == ds \cap Range(krate.items)

\* Definitions, and those that enclose them.
WithParents(ds) ==
    LET up[n \in 0..Cardinality(Defs)] ==
            IF n = 0 THEN ds
            ELSE LET below == up[n - 1] IN below \cup ({Parent[d] : d \in below} \ {None})
    IN  up[Cardinality(Defs)]

\* impl_def_ids_to_impled_types_and_bounds works on the keys that are there when
\* it starts; a HashMap gives them in any order.
ItemsDone ==
    /\ pc = "items" /\ stack = <<>> /\ todo_items = <<>>
    /\ pc' = "impls"
    /\ todo_items' \in SetToSeqs({d \in WithParents(touched) : DefKind[d] = "Impl"})
    /\ UNCHANGED <<bodyVars, stack, tableVars, exportVars>>

\* ImplInfos::from
StartImplInfos ==
    /\ pc = "impls" /\ stack = <<>> /\ todo_items # <<>>
    /\ LET d == Head(todo_items)
       IN  stack' = Root(d, <<Value(d, d)>> \o ValuesOf(d, krate.mentions[d]))
    /\ todo_items' = Tail(todo_items)
    /\ UNCHANGED <<pc, bodyVars, tableVars, exportVars>>

FinishImplInfos ==
    /\ pc = "impls" /\ Len(stack) = 1 /\ Top.todo = <<>> /\ Top.value = None
    /\ haxmeta' = [haxmeta EXCEPT !.impl_infos = @ \cup Top.refs, !.impls = @ \cup {Top.owner}]
    /\ stack' = <<>>
    /\ UNCHANGED <<krate, pc, bodyVars, todo_items, tableVars, read, state>>

-----------------------------------------------------------------------------
(* The file: WithTable::serialize and WithTable::deserialize *)

Pair(id) == [id |-> id, value |-> table[id].value, refs |-> table[id].refs]

\* Faulty variant of IdValuePairs: in an order a HashMap may give.
UnsortedPairs == [i \in 1..next_id |-> Pair(next_id - i)]

\* SortedIdValuePairs: the pairs of the table, sorted by id.
IdValuePairs == [i \in 1..next_id |-> Pair(i - 1)]

\* The definitions that were translated, and the table, are taken last.
Export ==
    /\ pc = "impls" /\ stack = <<>> /\ todo_items = <<>>
    /\ haxmeta' = [haxmeta EXCEPT !.def_ids = UNION {cache[<<d, d>>] : d \in touched},
                                  !.table = IdValuePairs]
    /\ pc' = "table"
    /\ UNCHANGED <<krate, bodyVars, todo_items, stack, tableVars, read, state>>

\* A pair of the table is decoded with the pairs before it, and added to them.
ReadPair ==
    /\ pc = "table" /\ read < Len(haxmeta.table)
    /\ LET pair == haxmeta.table[read + 1]
       IN  IF pair.refs \subseteq DOMAIN state
           THEN /\ state' = Put(state, pair.id, [value |-> pair.value, refs |-> pair.refs])
                /\ read' = read + 1
                /\ UNCHANGED pc
           ELSE pc' = "not_found_in_cache" /\ UNCHANGED <<read, state>>
    /\ UNCHANGED <<krate, haxmeta, bodyVars, todo_items, stack, tableVars>>

\* The value is decoded with the whole table.
ReadValue ==
    /\ pc = "table" /\ read = Len(haxmeta.table)
    /\ pc' = IF haxmeta.items \cup haxmeta.impl_infos \cup haxmeta.def_ids \subseteq DOMAIN state
             THEN "done" ELSE "not_found_in_cache"
    /\ UNCHANGED <<bodyVars, todo_items, stack, tableVars, exportVars>>

-----------------------------------------------------------------------------
Init ==
    /\ krate \in Krates
    /\ pc = "bodies"
    /\ bodies = LocalBodies(krate)
    /\ thir = [d \in Defs |-> "none"]
    /\ thief = [d \in Defs |-> None]
    /\ errors = {}
    /\ todo_items = krate.items
    /\ stack = <<>>
    /\ cache = [k \in Defs \X Values |-> {}]
    /\ touched = {}
    /\ next_id = 0
    /\ table = <<>>
    /\ haxmeta = [items |-> {}, impl_infos |-> {}, impls |-> {}, def_ids |-> {}, table |-> <<>>]
    /\ read = 0
    /\ state = <<>>

Next == \/ PrecomputeBody \/ BodiesDone
        \/ StartItem \/ EnterItem \/ GetBody \/ CallSInto \/ ReturnSInto \/ FinishItem
        \/ ItemsDone \/ StartImplInfos \/ FinishImplInfos \/ Export
        \/ ReadPair \/ ReadValue

Spec == Init /\ [][Next]_vars

-----------------------------------------------------------------------------
(* Properties *)

\* A body whose typing succeeded is replaced by a dummy only when one that is
\* evaluated at least as early, and was asked for before it, evaluates it: a
\* function never takes the body of a constant, and a function that is not
\* `const` loses its body to no constant and to no `const` function
\* (precompute_local_thir_bodies).  Every dummy comes with an error, and whatever
\* definition is translated, the THIR it asks for was precomputed (get_thir).
BodiesLostInOrder ==
    /\ pc # "thir_not_found"
    /\ \A b \in Defs : thir[b] = "dummy" =>
          /\ b \in errors
          /\ b \in krate.ill_typed \/ ConstLevel(thief[b]) <= ConstLevel(b)

\* A definition has one node, however many calls of sinto were made for it and
\* whatever was translated between the lookup in its cache and the store: two
\* ids are never equal as DefIds, which are compared by id.
OneNodePerDef ==
    \A i, j \in DOMAIN table :
        table[i].value = table[j].value /\ table[i].value \in Defs => i = j

\* The nodes a node refers to exist, are older than it, and are those of its
\* parts, so that a table sorted by id can be decoded in one pass.
PartsComeFirst ==
    \A i \in DOMAIN table :
        /\ \A r \in table[i].refs : r < i
        /\ Range(Parts(table[i].value)) \ TraitRefs \subseteq
              {table[r].value : r \in table[i].refs}

\* The table of shared nodes: each definition once, and no reference to a node
\* that comes later, although nodes are made in the middle of making others.
TableIsSound == OneNodePerDef /\ PartsComeFirst

\* The file that is written can be read, and gives the table it was made of.
FileIsReadBack == /\ pc # "not_found_in_cache"
                  /\ pc = "done" => state = table

\* Every implementation an item refers to, or has a part of, has its ImplInfos: the
\* definitions reachable from the ids of the items are in the caches when their
\* implementations are listed (impl_def_ids_to_impled_types_and_bounds).
Reached(ids) ==
    LET to[n \in 0..next_id] ==
            IF n = 0 THEN ids
            ELSE LET before == to[n - 1] IN before \cup UNION {table[r].refs : r \in before}
    IN  {table[r].value : r \in to[next_id]} \cap Defs
ImplsHaveInfos ==
    pc \in {"table", "done"} =>
        {d \in Reached(haxmeta.items) : DefKind[d] = "Impl"} \subseteq haxmeta.impls

\* "Returns a map from every implementation (`Impl`) `DefId`s to the type they
\* implement, plus the bounds" (state.rs): every implementation that is exported.
EveryImplHasInfos ==
    pc \in {"table", "done"} =>
        {table[i].value : i \in haxmeta.def_ids} \cap {d \in Defs : DefKind[d] = "Impl"}
            \subseteq haxmeta.impls
=============================================================================
