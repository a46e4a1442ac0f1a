---------------------------- MODULE EngineItems ----------------------------
(***************************************************************************)
(* The items of the engine and what it computes from lists of them: the    *)
(* graph of dependencies, the inclusion clauses of `-i`, statuses, quotes, *)
(* and the formulas that attributes associate with an item.                *)
(***************************************************************************)
EXTENDS Attributes

-----------------------------------------------------------------------------
(* Inclusion clauses: a modifier, and what its pattern matches: everything,   *)
(* the companions included, or some items of the source.                      *)

Everything == {"**"}
Clause(kind, names) == [kind |-> kind, names |-> names]
MatchesNamespace(c, i) == c.names = Everything \/ i \in c.names

\* The clauses that match an item; the last one is the most precise.
MostPrecise(cs, d) == Among(cs, {c \in ToSet(cs) : MatchesNamespace(c, d)})


-----------------------------------------------------------------------------
(* Items *)

Dropped == Expr("dropped", {}, {}, {})
WithErased(by_hax, attrs) ==
    IF by_hax /\ ~ Has(attrs, "Erased") THEN <<<<"Erased">>>> \o attrs ELSE attrs

EngineItem(kind, attrs, uses, body, subs) ==
    [kind |-> kind, attrs |-> attrs, uses |-> uses, body |-> body, subs |-> subs]
\* Instead of a body, a struct has how its fields are written.
IsRecord(item) == item.body = Record

-----------------------------------------------------------------------------
(* Dependencies: the graph of the items, and the clauses. *)

HasUid(its, i, u) == \E k \in DOMAIN its[i].attrs : its[i].attrs[k] = <<"Uid", u>>
\* try_item_of_uid, for all the items attributes associate.
UidAssociatedItems(its, attrs) ==
    {i \in DOMAIN its : \E a \in AssociatedUids(attrs) : HasUid(its, i, a[2])}

\* Faulty variant of Associated: the attributes of the parts do not count.
TopAttrsOnly(its, i) == UidAssociatedItems(its, its[i].attrs)
\* The associated items of an item and of its parts.
Associated(its, i) ==
    UidAssociatedItems(its, its[i].attrs)
    \cup UNION {UidAssociatedItems(its, its[i].subs[e].attrs) : e \in DOMAIN its[i].subs}

\* The identifiers an item mentions: those of a body that is dropped do not count.
Mentions(its, i) ==
    its[i].uses \cup (IF its[i].kind = "fn" THEN its[i].body.calls ELSE {})
    \cup UNION {its[i].subs[e].uses \cup its[i].subs[e].calls : e \in DOMAIN its[i].subs}

DropBodies(its, drop) ==
    [i \in DOMAIN its |-> IF i \in drop /\ its[i].kind = "fn"
                          THEN [its[i] EXCEPT !.body = Dropped] ELSE its[i]]

\* ItemGraph.of_items: an edge may lead to what is no item of the list.
ItemGraph(its, original) ==
    [i \in DOMAIN its |-> Mentions(its, i) \cup Associated(original, i)]
Successors(graph, S) == UNION {graph[i] : i \in S \cap DOMAIN graph}
TransitiveDependencies(graph, S) ==
    LET reached[n \in 0 .. Cardinality(DOMAIN graph)] ==
            IF n = 0 THEN S
            ELSE LET before == reached[n - 1] IN before \cup Successors(graph, before)
    IN  reached[Cardinality(DOMAIN graph)]

\* Faulty variant of BodiesToDrop: those of the matched items are dropped too.
MatchedToo(state, matched, matched0) == state.drop \cup matched
\* The items whose bodies `+~` and `+:` drop: all they add but what they match.
BodiesToDrop(state, matched, matched0) == (state.drop \cup matched) \ matched0

\* apply_clause, on what is selected and the items whose bodies are to be dropped.
ApplyClause(graph, all, state, c) ==
    LET matched0 == {i \in all : MatchesNamespace(c, i)}
        matched == IF c.kind \in {"+", "+~"} THEN TransitiveDependencies(graph, matched0)
                   ELSE matched0
        drop == IF c.kind \in {"+~", "+:"} THEN BodiesToDrop(state, matched, matched0) ELSE state.drop
    IN  [selection |-> IF c.kind = "-" THEN state.selection \ matched
                       ELSE state.selection \cup matched,
         drop |-> drop]

\* filter_by_inclusion_clauses': all the items are selected at first.
FilterBy(cs, its, original) ==
    LET after[n \in 0 .. Len(cs)] ==
            IF n = 0 THEN [selection |-> DOMAIN its, drop |-> {}]
            ELSE ApplyClause(ItemGraph(its, original), DOMAIN its, after[n - 1], cs[n])
    IN  after[Len(cs)]

\* Faulty variant of FilterByInclusionClauses: bodies are not dropped, so that
\* there is no second pass.
OnePass(cs, its) == FilterBy(cs, its, its).selection \cap DOMAIN its

Keep(its, S) == [i \in DOMAIN its \cap S |-> its[i]]

\* filter_by_inclusion_clauses: once more, on what is selected without the
\* bodies of the dependencies of `+~`.
FilterByInclusionClauses(cs, its) ==
    LET first == FilterBy(cs, its, its)
        kept == DropBodies(Keep(its, first.selection), first.drop)
    IN  FilterBy(cs, kept, its).selection \cap DOMAIN kept

-----------------------------------------------------------------------------
(* Statuses, quotes and formulas *)

Statuses(attrs) == {k \in DOMAIN attrs : attrs[k][1] = "ItemStatus"}
\* Faulty variant of Status: what encloses an item has the last word.
LastStatus(attrs) ==
    IF Statuses(attrs) = {} THEN "included"
    ELSE attrs[CHOOSE k \in Statuses(attrs) : \A l \in Statuses(attrs) : l <= k][2]
\* The first status counts: an item's own, or that of what is nearest.
Status(attrs) ==
    IF Statuses(attrs) = {} THEN "included"
    ELSE attrs[CHOOSE k \in Statuses(attrs) : \A l \in Statuses(attrs) : k <= l][2]
IsLateSkip(attrs) == Status(attrs) = "late_skip"

\* The items the selected ones are associated with come with them; those of
\* their parts do not.
WithAssociated(its, S) == S \cup UNION {UidAssociatedItems(its, its[i].attrs) : i \in S}

\* The items whose attributes associate an item as a quote.
QuoteParents(its, i) ==
    {p \in DOMAIN its : \E a \in AssociatedUids(its[p].attrs) : a[1] = "quote" /\ HasUid(its, i, a[2])}
PositionOf(attrs) == Among(attrs, {a \in ToSet(attrs) : a[1] = "ItemQuote"})[1][2]

\* Faulty variant of AsQuote: a quote is late skipped like its const.
StillLateSkip(its, i) ==
    LET p == CHOOSE p \in QuoteParents(its, i) : TRUE
    IN  EngineItem("quote", its[i].attrs, its[i].uses, its[i].body, <<p, PositionOf(its[i].attrs)>>)
\* A quote takes the place of its item if that is skipped, or goes before or after.
AsQuote(its, i) ==
    LET p == CHOOSE p \in QuoteParents(its, i) : TRUE
    IN  EngineItem("quote", Among(its[i].attrs, ToSet(its[i].attrs) \ {LateSkip}),
                   its[i].uses, its[i].body,
                   <<p, IF IsLateSkip(its[p].attrs) THEN "Replace" ELSE PositionOf(its[i].attrs)>>)

\* What an expectation that fails says, which is no formula.
Errors == {"could not find item", "more than one"}

\* The formulas of a role: all that the attributes associate must be there,
\* whatever its role.
Found(its, attrs, role) ==
    IF \E a \in AssociatedUids(attrs) : ~ \E i \in DOMAIN its : HasUid(its, i, a[2])
    THEN {"could not find item"}
    ELSE {its[CHOOSE i \in DOMAIN its : HasUid(its, i, a[2])].body.says :
            a \in {a \in AssociatedUids(attrs) : a[1] = role}}
AssociatedExpr(its, attrs, role) ==
    IF Cardinality(Found(its, attrs, role)) > 1 THEN {"more than one"} ELSE Found(its, attrs, role)

\* Of the method of a trait, the other roles are filtered out and the first
\* formula is taken.
FirstOf(its, attrs, role) ==
    LET of_role == Among(attrs, {a \in ToSet(attrs) : a[1] = "AssociatedItem" /\ a[2] = role})
    IN  IF Found(its, of_role, role) = {"could not find item"} \/ of_role = <<>>
        THEN Found(its, of_role, role)
        ELSE Found(its, <<Head(of_role)>>, role)

=============================================================================
