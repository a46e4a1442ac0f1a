----------------------- MODULE TraitResolution_proofs ------------------------
(***************************************************************************)
(* Proofs about TraitResolution: the candidates and the answers are        *)
(* proofs, and what rustc proves with the clauses in scope is found, for   *)
(* any program, any references in any order, and whatever rustc selects    *)
(* and normalises types to.                                                *)
(***************************************************************************)
EXTENDS TraitResolution, DataLemmas, FiniteSetTheorems

-----------------------------------------------------------------------------
(* Clauses *)

OwnClauses(g, d) == TraitClauses(RequiredPredicates(g, d))
ImpliedClauses(g, d) == TraitClauses(ImpliedPredicates(g, d))

\* A list of trait clauses.
IsTraitList(s) == IsSeq(s) /\ \A i \in 1..Len(s) : s[i].trait \in Items

LEMMA TraitClausesFacts ==
    ASSUME NEW s, IsClauseList(s)
    PROVE  IsTraitList(TraitClauses(s))
<1> DEFINE S == Range(s)
           K == {c \in Range(s) : c.kind = "trait"}
<1>1. s \in Seq(S)
  BY DEF IsClauseList
<1> HIDE DEF S, K
<1>2. Among(s, K) \in Seq(S) /\ Range(Among(s, K)) = Range(s) \cap K
  BY <1>1, AmongRange
<1>3. IsSeq(Among(s, K))
  BY <1>2, SeqIsSeq
<1>4. \A i \in 1..Len(Among(s, K)) : Among(s, K)[i] \in Range(s) \cap K
  BY <1>2, <1>3, SeqElements
<1>5. \A c \in Range(s) \cap K : c.trait \in Items
  BY DEF IsClauseList, K
<1>6. TraitClauses(s) = Among(s, K)
  BY DEF TraitClauses, K
<1> QED BY <1>3, <1>4, <1>5, <1>6 DEF IsTraitList

LEMMA EmptyIsClauseList == IsClauseList(<<>>)
BY RangeEmpty DEF IsClauseList

\* What an item requires and implies are lists of clauses.
LEMMA PredicatesAreClauses ==
    ASSUME NEW g \in Programs, NEW d \in Items
    PROVE  IsClauseList(RequiredPredicates(g, d)) /\ IsClauseList(ImpliedPredicates(g, d))
<1>1. /\ \A e \in Items : IsClauseList(g.explicit[e]) /\ IsClauseList(g.bounds[e])
      /\ IsClauseList(<<>>)
  BY ProgramsAssumption, EmptyIsClauseList
<1>2. IsClauseList(ImpliedPredicates(g, d))
  BY <1>1 DEF ImpliedPredicates
<1>3. IsClauseList(RequiredPredicates(g, d))
  <2> DEFINE variant == IF Kind[d] = "Ctor" THEN Parent[d] ELSE d
             e == IF Kind[variant] = "Variant" THEN Parent[variant] ELSE variant
  <2>1. variant \in Items
    BY ItemsAssumption DEF Inherits
  <2> HIDE DEF variant
  <2>2. e \in Items
    BY <2>1, ItemsAssumption DEF Inherits
  <2> HIDE DEF e
  <2> QED BY <1>1, <2>2 DEF RequiredPredicates, variant, e
<1> QED BY <1>2, <1>3

LEMMA ClausesFacts ==
    ASSUME NEW g \in Programs, NEW d \in Items
    PROVE  IsTraitList(OwnClauses(g, d)) /\ IsTraitList(ImpliedClauses(g, d))
BY PredicatesAreClauses, TraitClausesFacts DEF OwnClauses, ImpliedClauses

-----------------------------------------------------------------------------
(* The numbers of the clauses in scope *)

LEMMA ItemsAreUpward == IsUpward(Items, Depth, {d \in Items : Inherits(d)}, Parent)
BY ItemsAssumption DEF IsUpward

\* The clauses and predicates of a program.
Clauses(g) == {SelfPredicate(g, d) : d \in Items} \cup UNION {Range(OwnClauses(g, d)) : d \in Items}
AccTypes(g) == [predicates : Seq([origin : Int, clause : Clauses(g)]), pred_id : Nat]

\* The entries for the clauses of an item, numbered from k.
Numbered(own, k) == [i \in DOMAIN own |-> [origin |-> k + i - 1, clause |-> own[i]]]

LEMMA NumberedFacts ==
    ASSUME NEW own, IsSeq(own), NEW k \in Nat
    PROVE  /\ IsSeq(Numbered(own, k)) /\ Len(Numbered(own, k)) = Len(own)
           /\ \A i \in 1..Len(own) : Numbered(own, k)[i] = [origin |-> k + i - 1, clause |-> own[i]]
<1>1. DOMAIN own = 1..Len(own) /\ Len(own) \in Nat
  BY SeqElements
<1>2. \A i \in 1..Len(own) : Numbered(own, k)[i] = [origin |-> k + i - 1, clause |-> own[i]]
  BY <1>1 DEF Numbered
<1>3. Numbered(own, k) = [i \in 1..Len(own) |-> Numbered(own, k)[i]]
  BY <1>1 DEF Numbered
<1>4. IsSeq(Numbered(own, k)) /\ Len(Numbered(own, k)) = Len(own)
  BY <1>1, <1>3, FunctionIsSeq
<1> QED BY <1>2, <1>4

LEMMA WithOwnDef ==
    ASSUME NEW g, NEW outer, NEW d
    PROVE  WithOwn(g, outer, d) =
              [predicates |-> outer.predicates \o Numbered(OwnClauses(g, d), outer.pred_id),
               pred_id |-> outer.pred_id + Len(OwnClauses(g, d))]
BY DEF WithOwn, Numbered, OwnClauses

LEMMA AccTypeOK ==
    ASSUME NEW g \in Programs, NEW d \in Items
    PROVE  /\ NoPredicates(g, d) \in AccTypes(g)
           /\ \A outer \in AccTypes(g) : WithOwn(g, outer, d) \in AccTypes(g)
<1> DEFINE P == [origin : Int, clause : Clauses(g)]
<1>1. NoPredicates(g, d) \in AccTypes(g)
  <2> DEFINE e == [origin |-> SelfPred, clause |-> SelfPredicate(g, d)]
  <2>1. e \in P
    BY DEF Clauses, SelfPred
  <2> HIDE DEF e, P
  <2>2. <<e>> \in Seq(P) /\ <<>> \in Seq(P)
    BY <2>1
  <2>3. (IF Kind[d] = "Trait" THEN <<e>> ELSE <<>>) \in Seq(P)
    BY <2>2
  <2> QED BY <2>3 DEF NoPredicates, AccTypes, e, P
<1>2. ASSUME NEW outer \in AccTypes(g) PROVE WithOwn(g, outer, d) \in AccTypes(g)
  <2> DEFINE own == OwnClauses(g, d)
             more == Numbered(own, outer.pred_id)
  <2>1. outer.pred_id \in Nat /\ outer.predicates \in Seq(P)
    BY DEF AccTypes
  <2>2. IsSeq(own)
    BY ClausesFacts DEF IsTraitList
  <2>3. Len(own) \in Nat /\ \A i \in 1..Len(own) : own[i] \in Range(own)
    BY <2>2, SeqElements
  <2>4. \A i \in 1..Len(own) : own[i] \in Clauses(g)
    BY <2>3 DEF Clauses
  <2> HIDE DEF own
  <2>5. /\ IsSeq(more) /\ Len(more) = Len(own)
        /\ \A i \in 1..Len(own) : more[i] = [origin |-> outer.pred_id + i - 1, clause |-> own[i]]
    BY <2>1, <2>2, NumberedFacts
  <2>6. ASSUME NEW i \in 1..Len(own) PROVE more[i] \in P
    <3>1. outer.pred_id + i - 1 \in Int /\ own[i] \in Clauses(g)
      BY <2>1, <2>3, <2>4
    <3>2. more[i] = [origin |-> outer.pred_id + i - 1, clause |-> own[i]]
      BY <2>5
    <3> QED BY <3>1, <3>2
  <2>7. DOMAIN more = 1..Len(own) /\ more \in Seq(Range(more))
    BY <2>5, SeqElements DEF IsSeq
  <2> HIDE DEF more, P
  <2>8. more \in Seq(P)
    BY <2>6, <2>7, <2>5
  <2>9. outer.predicates \o more \in Seq(P)
    BY <2>1, <2>8
  <2>10. outer.pred_id + Len(own) \in Nat
    BY <2>1, <2>3
  <2>11. WithOwn(g, outer, d) =
            [predicates |-> outer.predicates \o more, pred_id |-> outer.pred_id + Len(own)]
    BY WithOwnDef DEF own, more
  <2> QED BY <2>9, <2>10, <2>11 DEF AccTypes, P
<1> QED BY <1>1, <1>2

\* f is defined at an item by what it is at the one that encloses it.
IsFromOutermost(f, S, start, step) ==
    /\ f \in [Items -> S]
    /\ \A d \in Items : f[d] = IF Inherits(d) THEN step[<<f[Parent[d]], d>>] ELSE start[d]

LEMMA ItemsRecursion ==
    ASSUME NEW S, NEW start \in [Items -> S], NEW step \in [S \X Items -> S]
    PROVE  \E f : IsFromOutermost(f, S, start, step)
<1> DEFINE R == {d \in Items : Inherits(d)}
<1>1. IsUpward(Items, Depth, R, Parent)
  BY ItemsAreUpward
<1>2. \A d \in Items : d \in R <=> Inherits(d)
  OBVIOUS
<1> HIDE DEF R
<1>3. PICK f : IsFromAbove(f, S, Items, R, Parent, start, step)
  BY <1>1, UpwardRecursion
<1>4. f \in [Items -> S] /\ \A d \in Items : f[d] = FromAbove(f, R, Parent, start, step, d)
  BY <1>3 DEF IsFromAbove
<1>5. ASSUME NEW d \in Items
      PROVE  f[d] = IF Inherits(d) THEN step[<<f[Parent[d]], d>>] ELSE start[d]
  BY <1>2, <1>4 DEF FromAbove
<1>6. IsFromOutermost(f, S, start, step)
  BY <1>4, <1>5 DEF IsFromOutermost
<1> QED BY <1>6

\* acc_predicates, from the item above.
LEMMA AccDef ==
    ASSUME NEW g \in Programs
    PROVE  \A d \in Items : AccPredicates(g)[d] =
              WithOwn(g, IF Inherits(d) THEN AccPredicates(g)[Parent[d]] ELSE NoPredicates(g, d), d)
<1> DEFINE S == AccTypes(g)
           Above(h, d) == WithOwn(g, IF Inherits(d) THEN h[Parent[d]] ELSE NoPredicates(g, d), d)
           Is(h) == h = [d \in Items |-> Above(h, d)]
           start == [d \in Items |-> WithOwn(g, NoPredicates(g, d), d)]
           step == [x \in S \X Items |-> WithOwn(g, x[1], x[2])]
<1>1. start \in [Items -> S] /\ step \in [S \X Items -> S]
  BY AccTypeOK
<1>2. \A d \in Items : start[d] = WithOwn(g, NoPredicates(g, d), d)
  OBVIOUS
<1>3. \A e \in S, d \in Items : step[<<e, d>>] = WithOwn(g, e, d)
  OBVIOUS
<1>5. \A d \in Items : Inherits(d) => Parent[d] \in Items
  BY ItemsAssumption
<1> HIDE DEF start, step, S
<1>4. PICK f : IsFromOutermost(f, S, start, step)
  BY <1>1, ItemsRecursion
<1>6. /\ f \in [Items -> S]
      /\ \A d \in Items : f[d] = IF Inherits(d) THEN step[<<f[Parent[d]], d>>] ELSE start[d]
  BY <1>4 DEF IsFromOutermost
<1>7. ASSUME NEW d \in Items PROVE f[d] = Above(f, d)
  <2>1. Inherits(d) => f[Parent[d]] \in S
    BY <1>5, <1>6
  <2>2. f[d] = IF Inherits(d) THEN step[<<f[Parent[d]], d>>] ELSE start[d]
    BY <1>6
  <2> QED BY <2>1, <2>2, <1>2, <1>3
<1>8. Is(f)
  <2> HIDE DEF Above
  <2> QED BY <1>6, <1>7
<1>9. AccPredicates(g) = CHOOSE h : Is(h)
  BY DEF AccPredicates
<1> HIDE DEF Is
<1>10. Is(AccPredicates(g))
  BY <1>8, <1>9
<1> HIDE DEF Above
<1>11. AccPredicates(g) = [d \in Items |-> Above(AccPredicates(g), d)]
  BY <1>10 DEF Is
<1>12. \A d \in Items : AccPredicates(g)[d] = Above(AccPredicates(g), d)
  <2> DEFINE a == AccPredicates(g)
  <2>1. a = [d \in Items |-> Above(a, d)]
    BY <1>11
  <2> HIDE DEF a
  <2>2. \A d \in Items : a[d] = Above(a, d)
    BY <2>1
  <2> QED BY <2>2 DEF a
<1> QED BY <1>12 DEF Above

\* The clauses in scope of an item, from those of the one that encloses it.
LEMMA ClausesDef ==
    ASSUME NEW g \in Programs
    PROVE  \A d \in Items : ClausesOf(g)[d] =
              (IF Inherits(d) THEN ClausesOf(g)[Parent[d]] ELSE <<>>) \o OwnClauses(g, d)
<1> DEFINE S == Seq(Clauses(g))
           Above(h, d) == (IF Inherits(d) THEN h[Parent[d]] ELSE <<>>) \o OwnClauses(g, d)
           Is(h) == h = [d \in Items |-> Above(h, d)]
           start == [d \in Items |-> <<>> \o OwnClauses(g, d)]
           step == [x \in S \X Items |-> x[1] \o OwnClauses(g, x[2])]
<1>1. ASSUME NEW d \in Items PROVE OwnClauses(g, d) \in S
  <2> DEFINE own == OwnClauses(g, d)
  <2>1. IsSeq(own)
    BY ClausesFacts DEF IsTraitList
  <2>2. \A i \in 1..Len(own) : own[i] \in Clauses(g)
    BY <2>1, SeqElements DEF Clauses
  <2>3. own \in Seq(Range(own))
    BY <2>1 DEF IsSeq
  <2> HIDE DEF own
  <2>4. own \in Seq(Clauses(g))
    BY <2>2, <2>3
  <2> QED BY <2>4 DEF own
<1>2. \A s, t \in S : s \o t \in S
  OBVIOUS
<1>3. <<>> \in S
  OBVIOUS
<1> HIDE DEF S
<1>4. start \in [Items -> S] /\ step \in [S \X Items -> S]
  BY <1>1, <1>2, <1>3
<1>5. \A d \in Items : start[d] = <<>> \o OwnClauses(g, d)
  OBVIOUS
<1>6. \A e \in S, d \in Items : step[<<e, d>>] = e \o OwnClauses(g, d)
  OBVIOUS
<1>7. \A d \in Items : Inherits(d) => Parent[d] \in Items
  BY ItemsAssumption
<1> HIDE DEF start, step
<1>8. PICK f : IsFromOutermost(f, S, start, step)
  BY <1>4, ItemsRecursion
<1>9. /\ f \in [Items -> S]
      /\ \A d \in Items : f[d] = IF Inherits(d) THEN step[<<f[Parent[d]], d>>] ELSE start[d]
  BY <1>8 DEF IsFromOutermost
<1>10. ASSUME NEW d \in Items PROVE f[d] = Above(f, d)
  <2>1. Inherits(d) => f[Parent[d]] \in S
    BY <1>7, <1>9
  <2>2. f[d] = IF Inherits(d) THEN step[<<f[Parent[d]], d>>] ELSE start[d]
    BY <1>9
  <2> QED BY <2>1, <2>2, <1>5, <1>6
<1>11. Is(f)
  <2> HIDE DEF Above
  <2> QED BY <1>9, <1>10
<1>12. ClausesOf(g) = CHOOSE h : Is(h)
  BY DEF ClausesOf, OwnClauses
<1> HIDE DEF Is
<1>13. Is(ClausesOf(g))
  BY <1>11, <1>12
<1> HIDE DEF Above
<1>14. \A d \in Items : ClausesOf(g)[d] = Above(ClausesOf(g), d)
  <2> DEFINE a == ClausesOf(g)
  <2>1. a = [d \in Items |-> Above(a, d)]
    BY <1>13 DEF Is
  <2> HIDE DEF a
  <2>2. \A d \in Items : a[d] = Above(a, d)
    BY <2>1
  <2> QED BY <2>2 DEF a
<1> QED BY <1>14 DEF Above

\* The number of an entry is the place of its clause in a list.
IsEntry(g, o, clauses) ==
    /\ o.clause.trait \in Items
    /\ IF o.origin = SelfPred
       THEN Kind[o.clause.trait] = "Trait" /\ o.clause = SelfPredicate(g, o.clause.trait)
       ELSE o.origin + 1 \in 1..Len(clauses) /\ clauses[o.origin + 1] = o.clause
IsAcc(g, acc, clauses) ==
    /\ IsSeq(acc.predicates) /\ IsSeq(clauses) /\ acc.pred_id = Len(clauses)
    /\ \A i \in 1..Len(acc.predicates) :
          acc.predicates[i].origin \in Int /\ IsEntry(g, acc.predicates[i], clauses)

LEMMA NoPredicatesIsAcc ==
    ASSUME NEW g, NEW d \in Items
    PROVE  IsAcc(g, NoPredicates(g, d), <<>>)
<1> DEFINE e == [origin |-> SelfPred, clause |-> SelfPredicate(g, d)]
           acc == NoPredicates(g, d)
<1>1. Kind[d] = "Trait" => e.origin \in Int /\ IsEntry(g, e, <<>>)
  BY DEF SelfPred, IsEntry, SelfPredicate, TraitClause
<1>2. acc.pred_id = 0 /\ acc.predicates = IF Kind[d] = "Trait" THEN <<e>> ELSE <<>>
  BY DEF NoPredicates
<1> HIDE DEF e, acc
<1>3. IsSeq(<<e>>) /\ IsSeq(<<>>) /\ Len(<<e>>) = 1 /\ <<e>>[1] = e /\ Len(<<>>) = 0
  <2>1. <<e>> \in Seq({e}) /\ <<>> \in Seq({e})
    OBVIOUS
  <2> QED BY <2>1, SeqIsSeq
<1>4. CASE Kind[d] = "Trait"
  BY <1>1, <1>2, <1>3, <1>4 DEF IsAcc, acc
<1>5. CASE Kind[d] # "Trait"
  BY <1>2, <1>3, <1>5 DEF IsAcc, acc
<1> QED BY <1>4, <1>5

LEMMA WithOwnIsAcc ==
    ASSUME NEW g \in Programs, NEW d \in Items, NEW acc, NEW clauses, IsAcc(g, acc, clauses)
    PROVE  IsAcc(g, WithOwn(g, acc, d), clauses \o OwnClauses(g, d))
<1> DEFINE own == OwnClauses(g, d)
           all == clauses \o own
           more == Numbered(own, acc.pred_id)
           ps == acc.predicates \o more
<1>1. /\ IsSeq(acc.predicates) /\ IsSeq(clauses) /\ acc.pred_id = Len(clauses)
      /\ \A i \in 1..Len(acc.predicates) :
            acc.predicates[i].origin \in Int /\ IsEntry(g, acc.predicates[i], clauses)
  BY DEF IsAcc
<1>2. Len(clauses) \in Nat
  BY <1>1, SeqElements
<1>3. IsSeq(own) /\ \A i \in 1..Len(own) : own[i].trait \in Items
  BY ClausesFacts DEF IsTraitList
<1>4. /\ IsSeq(more) /\ Len(more) = Len(own)
      /\ \A i \in 1..Len(own) :
            more[i] = [origin |-> acc.pred_id + i - 1, clause |-> own[i]]
  <2> DEFINE k == acc.pred_id
  <2>1. k \in Nat /\ IsSeq(own)
    BY <1>1, <1>2, <1>3
  <2> HIDE DEF own, k
  <2>2. /\ IsSeq(Numbered(own, k)) /\ Len(Numbered(own, k)) = Len(own)
        /\ \A i \in 1..Len(own) : Numbered(own, k)[i] = [origin |-> k + i - 1, clause |-> own[i]]
    BY <2>1, NumberedFacts
  <2> QED BY <2>2 DEF k
<1>5. WithOwn(g, acc, d) = [predicates |-> ps, pred_id |-> acc.pred_id + Len(own)]
  BY WithOwnDef
<1>6. Len(own) \in Nat
  BY <1>3, SeqElements
<1> HIDE DEF own, more
<1>7. /\ IsSeq(all) /\ Len(all) = Len(clauses) + Len(own)
      /\ \A i \in 1..Len(clauses) : all[i] = clauses[i]
      /\ \A i \in 1..Len(own) : all[Len(clauses) + i] = own[i]
  BY <1>1, <1>3, ConcatIsSeq
<1>8. /\ IsSeq(ps)
      /\ \A i \in 1..Len(ps) : \/ i \in 1..Len(acc.predicates) /\ ps[i] = acc.predicates[i]
                               \/ /\ i - Len(acc.predicates) \in 1..Len(more)
                                  /\ ps[i] = more[i - Len(acc.predicates)]
  <2> DEFINE s == acc.predicates
  <2>1. IsSeq(s) /\ IsSeq(more)
    BY <1>1, <1>4
  <2> HIDE DEF s
  <2>2. /\ IsSeq(s \o more)
        /\ \A i \in 1..Len(s \o more) :
              \/ i \in 1..Len(s) /\ (s \o more)[i] = s[i]
              \/ i - Len(s) \in 1..Len(more) /\ (s \o more)[i] = more[i - Len(s)]
    BY <2>1, ConcatIsSeq
  <2> QED BY <2>2 DEF s
<1>9. ASSUME NEW o, o.origin \in Int, IsEntry(g, o, clauses) PROVE IsEntry(g, o, all)
  <2> HIDE DEF all
  <2>1. CASE o.origin = SelfPred
    BY <1>9, <2>1 DEF IsEntry
  <2>2. CASE o.origin # SelfPred
    <3>1. o.origin + 1 \in 1..Len(clauses)
      BY <1>9, <2>2 DEF IsEntry
    <3>2. o.origin + 1 \in 1..Len(all)
      BY <3>1, <1>2, <1>6, <1>7
    <3> QED BY <3>1, <3>2, <1>7, <1>9, <2>2 DEF IsEntry
  <2> QED BY <2>1, <2>2
<1>10. ASSUME NEW i \in 1..Len(own)
       PROVE  more[i].origin \in Int /\ IsEntry(g, more[i], all)
  <2> HIDE DEF all
  <2> DEFINE k == Len(clauses) + i - 1
  <2>1. more[i] = [origin |-> k, clause |-> own[i]]
    BY <1>1, <1>4
  <2>2. k \in Int /\ k # -1 /\ k + 1 \in 1..Len(all) /\ k + 1 = Len(clauses) + i
    BY <1>2, <1>6, <1>7
  <2> HIDE DEF k
  <2>3. all[k + 1] = own[i] /\ own[i].trait \in Items
    BY <1>3, <1>7, <2>2
  <2> QED BY <2>1, <2>2, <2>3 DEF IsEntry, SelfPred
<1> HIDE DEF ps, all
<1>11. ASSUME NEW i \in 1..Len(ps) PROVE ps[i].origin \in Int /\ IsEntry(g, ps[i], all)
  <2>1. CASE i \in 1..Len(acc.predicates) /\ ps[i] = acc.predicates[i]
    BY <2>1, <1>1, <1>9
  <2>2. CASE /\ i - Len(acc.predicates) \in 1..Len(more)
             /\ ps[i] = more[i - Len(acc.predicates)]
    BY <2>2, <1>4, <1>10
  <2> QED BY <2>1, <2>2, <1>8
<1>12. IsAcc(g, WithOwn(g, acc, d), all)
  BY <1>1, <1>5, <1>7, <1>8, <1>11 DEF IsAcc
<1> QED BY <1>12 DEF all, own

\* The predicates of an item are numbered by their clauses.
LEMMA AccIsNumbered ==
    ASSUME NEW g \in Programs
    PROVE  \A d \in Items : IsAcc(g, AccPredicates(g)[d], ClausesOf(g)[d])
<1> DEFINE a == AccPredicates(g)
           c == ClausesOf(g)
           T == {d \in Items : IsAcc(g, a[d], c[d])}
           R == {d \in Items : Inherits(d)}
<1>1. ASSUME NEW d \in Items, d \in R => Parent[d] \in T PROVE d \in T
  <2>1. a[d] = WithOwn(g, IF Inherits(d) THEN a[Parent[d]] ELSE NoPredicates(g, d), d)
    BY AccDef
  <2>2. c[d] = (IF Inherits(d) THEN c[Parent[d]] ELSE <<>>) \o OwnClauses(g, d)
    BY ClausesDef
  <2>3. IsAcc(g, IF Inherits(d) THEN a[Parent[d]] ELSE NoPredicates(g, d),
                 IF Inherits(d) THEN c[Parent[d]] ELSE <<>>)
    BY <1>1, NoPredicatesIsAcc
  <2>4. IsAcc(g, a[d], c[d])
    BY <2>1, <2>2, <2>3, WithOwnIsAcc
  <2> QED BY <2>4
<1>2. IsUpward(Items, Depth, R, Parent)
  BY ItemsAreUpward
<1> HIDE DEF T, R
<1>3. Items \subseteq T
  BY <1>1, <1>2, UpwardInduction
<1> QED BY <1>3 DEF T

\* The clauses that the search starts with have the right numbers.
LEMMA InitialIsNumbered ==
    ASSUME NEW g \in Programs
    PROVE  /\ IsSeq(InitialSearchPredicates(g))
           /\ \A i \in 1..Len(InitialSearchPredicates(g)) :
                 /\ InitialSearchPredicates(g)[i].clause.trait \in Items
                 /\ IsNumbered(g, InitialSearchPredicates(g)[i])
<1> DEFINE d == g.owner
           c == ClausesInScope(g)
           s == InitialSearchPredicates(g)
<1>1. d \in Items
  BY ProgramsAssumption
<1>2. IsAcc(g, AccPredicates(g)[d], c)
  BY <1>1, AccIsNumbered DEF ClausesInScope
<1>3. /\ IsSeq(s) /\ IsSeq(c)
      /\ \A i \in 1..Len(s) : IsEntry(g, s[i], c)
  BY <1>2 DEF IsAcc, InitialSearchPredicates
<1>4. DOMAIN c = 1..Len(c)
  BY <1>3, SeqElements
<1> HIDE DEF s
<1>5. \A i \in 1..Len(s) : s[i].clause.trait \in Items /\ IsNumbered(g, s[i])
  BY <1>3, <1>4 DEF IsEntry, IsNumbered
<1> QED BY <1>3, <1>5 DEF s

-----------------------------------------------------------------------------
(* Candidates *)

\* It starts at a clause in scope, and each chunk of its path follows from the one
\* before it.
IsCandidate(g, c) ==
    /\ c = Candidate(c.path, c.pred, c.origin)
    /\ c.pred.trait \in Items
    /\ IsNumbered(g, c.origin)
    /\ IsSeq(c.path)
    /\ \A n \in 1..Len(c.path) : Follows(g, After(g, c.origin.clause, c.path, n - 1), c.path[n])
Goal(g, c) == After(g, c.origin.clause, c.path, Len(c.path))

\* A candidate that is to be inserted is not normalised yet.
IsPending(g, c) == IsCandidate(g, c) /\ EraseAndNorm(g, c.pred) = Goal(g, c)
\* A candidate that was inserted for p.
IsHeld(g, c, p) == IsCandidate(g, c) /\ c.pred = p /\ Goal(g, c) = p

LEMMA IndexedFacts ==
    ASSUME NEW s, IsTraitList(TraitClauses(s))
    PROVE  /\ IsSeq(Indexed(s)) /\ Len(Indexed(s)) = Len(TraitClauses(s))
           /\ DOMAIN Indexed(s) = 1..Len(TraitClauses(s)) /\ Len(TraitClauses(s)) \in Nat
           /\ \A i \in 1..Len(TraitClauses(s)) :
                 Indexed(s)[i] = [index |-> i - 1, clause |-> TraitClauses(s)[i]]
<1> DEFINE t == TraitClauses(s)
<1>1. DOMAIN t = 1..Len(t) /\ Len(t) \in Nat
  BY SeqElements DEF IsTraitList
<1>2. Indexed(s) = [i \in 1..Len(t) |-> [index |-> i - 1, clause |-> t[i]]]
  BY <1>1 DEF Indexed
<1> HIDE DEF t
<1>3. Indexed(s) = [i \in 1..Len(t) |-> Indexed(s)[i]]
  BY <1>2
<1>4. IsSeq(Indexed(s)) /\ Len(Indexed(s)) = Len(t)
  BY <1>1, <1>3, FunctionIsSeq
<1> QED BY <1>1, <1>2, <1>4 DEF t

LEMMA InstantiateTrait == \A c, p : Instantiate(c, p).trait = c.trait
BY DEF Instantiate, TraitClause

LEMMA InstantiateAllFacts ==
    ASSUME NEW s, IsTraitList(s), NEW p
    PROVE  /\ IsTraitList(InstantiateAll(s, p)) /\ Len(InstantiateAll(s, p)) = Len(s)
           /\ DOMAIN InstantiateAll(s, p) = 1..Len(s) /\ Len(s) \in Nat
           /\ \A i \in 1..Len(s) : InstantiateAll(s, p)[i] = Instantiate(s[i], p)
<1>1. DOMAIN s = 1..Len(s) /\ Len(s) \in Nat
  BY SeqElements DEF IsTraitList
<1>2. InstantiateAll(s, p) = [i \in 1..Len(s) |-> Instantiate(s[i], p)]
  BY <1>1 DEF InstantiateAll
<1>3. InstantiateAll(s, p) = [i \in 1..Len(s) |-> InstantiateAll(s, p)[i]]
  BY <1>2
<1>4. IsSeq(InstantiateAll(s, p)) /\ Len(InstantiateAll(s, p)) = Len(s)
  BY <1>1, <1>3, FunctionIsSeq
<1>5. \A i \in 1..Len(s) : InstantiateAll(s, p)[i].trait \in Items
  BY <1>2, InstantiateTrait DEF IsTraitList
<1>6. IsTraitList(InstantiateAll(s, p))
  BY <1>4, <1>5 DEF IsTraitList
<1> QED BY <1>1, <1>2, <1>4, <1>6

\* A substitution depends on what the predicate is about.
LEMMA SameSubstitution ==
    ASSUME NEW p, NEW q, p.self = q.self, p.arg = q.arg
    PROVE  /\ \A c : Instantiate(c, p) = Instantiate(c, q)
           /\ \A s : InstantiateAll(s, p) = InstantiateAll(s, q)
<1>1. \A ty : SubstTy(ty, p) = SubstTy(ty, q)
  BY DEF SubstTy
<1>2. \A c : Instantiate(c, p) = Instantiate(c, q)
  BY <1>1 DEF Instantiate
<1> QED BY <1>2 DEF InstantiateAll

\* The clauses in scope are candidates.
LEMMA InitialPending ==
    ASSUME NEW g \in Programs
    PROVE  /\ IsSeq(InitialCandidates(g))
           /\ \A i \in 1..Len(InitialCandidates(g)) : IsPending(g, InitialCandidates(g)[i])
<1> DEFINE s == InitialSearchPredicates(g)
           cs == InitialCandidates(g)
<1>1. /\ IsSeq(s)
      /\ \A i \in 1..Len(s) : s[i].clause.trait \in Items /\ IsNumbered(g, s[i])
  BY InitialIsNumbered
<1>2. DOMAIN s = 1..Len(s) /\ Len(s) \in Nat
  BY <1>1, SeqElements
<1>3. cs = [i \in 1..Len(s) |-> Candidate(<<>>, s[i].clause, s[i])]
  BY <1>2 DEF InitialCandidates
<1> HIDE DEF s, cs
<1>4. cs = [i \in 1..Len(s) |-> cs[i]]
  BY <1>3
<1>5. IsSeq(cs) /\ Len(cs) = Len(s)
  BY <1>2, <1>4, FunctionIsSeq
<1>6. ASSUME NEW i \in 1..Len(s) PROVE IsPending(g, cs[i])
  <2> DEFINE c == cs[i]
  <2>1. /\ c = Candidate(<<>>, s[i].clause, s[i])
        /\ s[i].clause.trait \in Items /\ IsNumbered(g, s[i])
    BY <1>1, <1>3
  <2> HIDE DEF c
  <2>2. c.path = <<>> /\ c.pred = s[i].clause /\ c.origin = s[i]
    BY <2>1 DEF Candidate
  <2>3. IsSeq(<<>>) /\ Len(<<>>) = 0
    BY EmptyIsSeq
  <2>4. Goal(g, c) = EraseAndNorm(g, s[i].clause)
    BY <2>2, <2>3 DEF Goal, After
  <2>5. IsCandidate(g, c)
    BY <2>1, <2>2, <2>3 DEF IsCandidate
  <2>6. IsPending(g, c)
    BY <2>2, <2>4, <2>5 DEF IsPending
  <2> QED BY <2>6 DEF c
<1> QED BY <1>5, <1>6 DEF cs

\* Normalised, it is a candidate for its predicate.
LEMMA NormalisedIsHeld ==
    ASSUME NEW g, NEW c, IsPending(g, c)
    PROVE  IsHeld(g, Normalised(g, c), Normalised(g, c).pred)
<1> DEFINE n == Normalised(g, c)
<1>1. /\ c = Candidate(c.path, c.pred, c.origin)
      /\ n = Candidate(c.path, EraseAndNorm(g, c.pred), c.origin)
  BY DEF Normalised, Candidate, IsPending, IsCandidate
<1> HIDE DEF n
<1>2. n.path = c.path /\ n.pred = EraseAndNorm(g, c.pred) /\ n.origin = c.origin
  BY <1>1 DEF Candidate
<1>3. n.pred.trait = c.pred.trait
  BY <1>2 DEF EraseAndNorm, TraitClause
<1>4. IsCandidate(g, n)
  BY <1>1, <1>2, <1>3 DEF IsCandidate, IsPending
<1>5. Goal(g, n) = n.pred
  BY <1>2 DEF IsPending, Goal
<1>6. IsHeld(g, n, n.pred)
  BY <1>4, <1>5 DEF IsHeld
<1> QED BY <1>6 DEF n

\* A chunk that follows makes another candidate.
LEMMA OneFurther ==
    ASSUME NEW g, NEW c, NEW p, IsHeld(g, c, p),
           NEW chunk, Follows(g, p, chunk), chunk.predicate.trait \in Items
    PROVE  IsPending(g, Candidate(Append(c.path, chunk), chunk.predicate, c.origin))
<1> DEFINE path == Append(c.path, chunk)
           new == Candidate(path, chunk.predicate, c.origin)
           from == c.origin.clause
<1>1. /\ IsSeq(c.path) /\ IsNumbered(g, c.origin)
      /\ \A n \in 1..Len(c.path) : Follows(g, After(g, from, c.path, n - 1), c.path[n])
      /\ After(g, from, c.path, Len(c.path)) = p
  BY DEF IsHeld, IsCandidate, Goal
<1>2. /\ IsSeq(path) /\ Len(path) = Len(c.path) + 1 /\ Len(c.path) \in Nat
      /\ \A n \in 1..Len(c.path) : path[n] = c.path[n]
      /\ path[Len(c.path) + 1] = chunk
  <2> DEFINE old == c.path
             S == Range(old) \cup {chunk}
  <2>1. old \in Seq(Range(old))
    BY <1>1 DEF IsSeq
  <2> HIDE DEF old
  <2>2. old \in Seq(S) /\ chunk \in S
    <3>1. Seq(Range(old)) \subseteq Seq(S)
      OBVIOUS
    <3> QED BY <2>1, <3>1
  <2> HIDE DEF S
  <2>3. Append(old, chunk) \in Seq(S)
    BY <2>2
  <2>4. /\ Len(Append(old, chunk)) = Len(old) + 1 /\ Len(old) \in Nat
        /\ \A n \in 1..Len(old) : Append(old, chunk)[n] = old[n]
        /\ Append(old, chunk)[Len(old) + 1] = chunk
    BY <2>2
  <2>5. IsSeq(Append(old, chunk))
    BY <2>3, SeqIsSeq
  <2> QED BY <2>4, <2>5 DEF old
<1>3. new.path = path /\ new.pred = chunk.predicate /\ new.origin = c.origin
  BY DEF Candidate
<1> HIDE DEF path, from
<1>4. \A n \in 0..Len(c.path) : After(g, from, path, n) = After(g, from, c.path, n)
  BY <1>2 DEF After
<1>5. ASSUME NEW n \in 1..Len(path)
      PROVE  Follows(g, After(g, from, path, n - 1), path[n])
  <2>1. n - 1 \in 0..Len(c.path)
    BY <1>2
  <2>2. After(g, from, path, n - 1) = After(g, from, c.path, n - 1)
    BY <2>1, <1>4
  <2>3. CASE n \in 1..Len(c.path)
    BY <2>2, <2>3, <1>1, <1>2
  <2>4. CASE n = Len(c.path) + 1
    <3>1. n - 1 = Len(c.path)
      BY <2>4, <1>2
    <3>2. After(g, from, path, n - 1) = p
      BY <3>1, <2>2, <1>1
    <3>3. path[n] = chunk
      BY <2>4, <1>2
    <3> QED BY <3>2, <3>3
  <2> QED BY <2>3, <2>4, <1>2
<1>6. After(g, from, path, Len(path)) = EraseAndNorm(g, chunk.predicate)
  <2>1. Len(path) # 0 /\ path[Len(path)] = chunk
    BY <1>2
  <2> QED BY <2>1 DEF After
<1>7. new = Candidate(new.path, new.pred, new.origin)
  BY <1>3
<1> HIDE DEF new
<1>8. IsCandidate(g, new)
  BY <1>1, <1>2, <1>3, <1>5, <1>7 DEF IsCandidate, from
<1>9. Goal(g, new) = EraseAndNorm(g, new.pred)
  BY <1>3, <1>6 DEF Goal, from
<1>10. IsPending(g, new)
  BY <1>8, <1>9 DEF IsPending
<1> QED BY <1>10 DEF new, path

\* extend_parents: what a candidate implies.
LEMMA ParentsPending ==
    ASSUME NEW g \in Programs, NEW c, NEW p, IsHeld(g, c, p)
    PROVE  /\ IsSeq(ParentsOf(g, c))
           /\ \A i \in 1..Len(ParentsOf(g, c)) : IsPending(g, ParentsOf(g, c)[i])
<1> DEFINE implied == ImpliedClauses(g, p.trait)
           indexed == Indexed(ImpliedPredicates(g, p.trait))
           Pred(i) == Instantiate(implied[i], p)
           Chunk(i) == ParentChunk(Pred(i), i - 1)
           ps == ParentsOf(g, c)
<1>1. c.pred = p /\ p.trait \in Items
  BY DEF IsHeld, IsCandidate
<1>2. IsTraitList(implied)
  BY <1>1, ClausesFacts
<1>3. /\ DOMAIN indexed = 1..Len(implied) /\ Len(implied) \in Nat
      /\ \A i \in 1..Len(implied) : indexed[i] = [index |-> i - 1, clause |-> implied[i]]
  BY <1>2, IndexedFacts DEF ImpliedClauses
<1>4. ps = [i \in DOMAIN indexed |->
               Candidate(Append(c.path, ParentChunk(Instantiate(indexed[i].clause, p), indexed[i].index)),
                         Instantiate(indexed[i].clause, p), c.origin)]
  BY <1>1 DEF ParentsOf
<1> HIDE DEF implied, indexed, ps
<1>5. ps = [i \in 1..Len(implied) |-> Candidate(Append(c.path, Chunk(i)), Pred(i), c.origin)]
  BY <1>3, <1>4
<1> HIDE DEF Chunk, Pred
<1>6. ps = [i \in 1..Len(implied) |-> ps[i]]
  BY <1>5
<1>7. IsSeq(ps) /\ Len(ps) = Len(implied)
  BY <1>3, <1>6, FunctionIsSeq
<1>8. ASSUME NEW i \in 1..Len(implied) PROVE IsPending(g, ps[i])
  <2> DEFINE chunk == Chunk(i)
  <2>1. /\ chunk.kind = "Parent" /\ chunk.index = i - 1 /\ chunk.predicate = Pred(i)
    BY DEF ParentChunk, Chunk
  <2>2. Pred(i).trait \in Items
    BY <1>2, InstantiateTrait DEF Pred, IsTraitList
  <2>3. (i - 1) + 1 = i /\ i \in DOMAIN implied
    BY <1>2, <1>3, SeqElements DEF IsTraitList
  <2> HIDE DEF chunk
  <2>4. chunk.index + 1 = i
    BY <2>1, <2>3
  <2>5. Follows(g, p, chunk)
    BY <2>1, <2>3, <2>4 DEF Follows, Pred, implied, ImpliedClauses
  <2>6. IsPending(g, Candidate(Append(c.path, chunk), chunk.predicate, c.origin))
    BY <2>1, <2>2, <2>5, OneFurther
  <2>7. ps[i] = Candidate(Append(c.path, chunk), chunk.predicate, c.origin)
    BY <1>5, <2>1 DEF chunk
  <2> QED BY <2>6, <2>7
<1> QED BY <1>7, <1>8 DEF ps

\* What a type requires, and the answers to it.
LEMMA RequiredByTypeFacts ==
    ASSUME NEW g \in Programs, NEW ty, IsProjection(ty)
    PROVE  /\ Last(ty) \in Items /\ TraitOf(ty).trait = Parent[Last(ty)]
           /\ TraitOf(ty).trait \in Items
           /\ RequiredByType(g, ty) = InstantiateAll(OwnClauses(g, Last(ty)), TraitOf(ty))
           /\ IsTraitList(RequiredByType(g, ty))
           /\ DOMAIN RequiredByType(g, ty) = 1..Len(RequiredByType(g, ty))
<1>1. Last(ty) \in Items /\ Inherits(Last(ty))
  BY DEF IsProjection, AssocTys, Inherits
<1>2. TraitOf(ty).trait = Parent[Last(ty)] /\ Parent[Last(ty)] \in Items
  BY <1>1, ItemsAssumption DEF TraitOf, TraitClause
<1>3. TraitOf(ty).self = AliasArgs(ty).self /\ TraitOf(ty).arg = AliasArgs(ty).arg
  BY DEF TraitOf, TraitClause, AliasArgs
<1> DEFINE own == OwnClauses(g, Last(ty))
           p == TraitOf(ty)
           q == AliasArgs(ty)
<1>4. IsTraitList(own)
  BY <1>1, ClausesFacts
<1>5. RequiredByType(g, ty) = InstantiateAll(own, q)
  BY DEF RequiredByType, OwnClauses
<1> HIDE DEF own, p, q
<1>6. InstantiateAll(own, q) = InstantiateAll(own, p)
  BY <1>3, SameSubstitution DEF p, q
<1>7. /\ IsTraitList(InstantiateAll(own, p)) /\ Len(InstantiateAll(own, p)) = Len(own)
      /\ DOMAIN InstantiateAll(own, p) = 1..Len(own)
  BY <1>4, InstantiateAllFacts
<1> QED BY <1>1, <1>2, <1>5, <1>6, <1>7 DEF own, p

\* exprs answers preds in order, as far as it goes.
AreAnswered(g, exprs, preds) ==
    /\ IsTraitList(preds) /\ IsSeq(exprs) /\ Len(exprs) <= Len(preds)
    /\ \A i \in 1..Len(exprs) : Proves(g, exprs[i], preds[i])

\* add_associated_type_refs: the bounds of a type, from the candidate for its trait.
LEMMA BoundsPending ==
    ASSUME NEW g \in Programs, NEW ty, IsProjection(ty),
           NEW holder, IsHeld(g, holder, TraitOf(ty)),
           NEW exprs, AreAnswered(g, exprs, RequiredByType(g, ty)),
           Len(exprs) = Len(RequiredByType(g, ty))
    PROVE  /\ IsSeq(BoundCandidates(g, ty, holder, exprs))
           /\ \A i \in 1..Len(BoundCandidates(g, ty, holder, exprs)) :
                 IsPending(g, BoundCandidates(g, ty, holder, exprs)[i])
<1> DEFINE d == Last(ty)
           p == TraitOf(ty)
           implied == ImpliedClauses(g, d)
           indexed == Indexed(ImpliedPredicates(g, d))
           required == RequiredByType(g, ty)
           Pred(i) == Instantiate(implied[i], p)
           Chunk(i) == AssocChunk(d, exprs, Pred(i), i - 1)
           ps == BoundCandidates(g, ty, holder, exprs)
<1>1. /\ d \in Items /\ p.trait = Parent[d]
      /\ required = InstantiateAll(OwnClauses(g, d), p)
      /\ DOMAIN required = 1..Len(required)
  BY RequiredByTypeFacts
<1>2. IsTraitList(implied)
  BY <1>1, ClausesFacts
<1>3. /\ DOMAIN indexed = 1..Len(implied) /\ Len(implied) \in Nat
      /\ \A i \in 1..Len(implied) : indexed[i] = [index |-> i - 1, clause |-> implied[i]]
  BY <1>2, IndexedFacts DEF ImpliedClauses
<1>4. \A c : Instantiate(c, AliasArgs(ty)) = Instantiate(c, p)
  <2> DEFINE q == AliasArgs(ty)
  <2>1. p.self = q.self /\ p.arg = q.arg
    BY DEF TraitOf, TraitClause, AliasArgs
  <2> HIDE DEF p, q
  <2>2. \A c : Instantiate(c, q) = Instantiate(c, p)
    BY <2>1, SameSubstitution
  <2> QED BY <2>2 DEF q
<1>5. ps = [i \in DOMAIN indexed |->
               Candidate(Append(holder.path, AssocChunk(d, exprs,
                             Instantiate(indexed[i].clause, p), indexed[i].index)),
                         Instantiate(indexed[i].clause, p), holder.origin)]
  BY <1>4 DEF BoundCandidates
<1>6. /\ Len(exprs) = Len(required)
      /\ \A i \in 1..Len(required) : exprs[i].trait = required[i]
  BY DEF AreAnswered, Proves
<1> HIDE DEF implied, indexed, ps, p, required, d
<1>7. ps = [i \in 1..Len(implied) |->
               Candidate(Append(holder.path, Chunk(i)), Pred(i), holder.origin)]
  BY <1>3, <1>5
<1> HIDE DEF Chunk, Pred
<1>8. ps = [i \in 1..Len(implied) |-> ps[i]]
  BY <1>7
<1>9. IsSeq(ps) /\ Len(ps) = Len(implied)
  BY <1>3, <1>8, FunctionIsSeq
<1>10. ASSUME NEW i \in 1..Len(implied) PROVE IsPending(g, ps[i])
  <2> DEFINE chunk == Chunk(i)
  <2>1. /\ chunk.kind = "AssocItem" /\ chunk.index = i - 1 /\ chunk.predicate = Pred(i)
        /\ chunk.item = d /\ chunk.impl_exprs = exprs
    BY DEF AssocChunk, Chunk
  <2>2. Pred(i).trait \in Items
    BY <1>2, InstantiateTrait DEF Pred, IsTraitList
  <2>3. (i - 1) + 1 = i /\ i \in DOMAIN implied
    BY <1>2, <1>3, SeqElements DEF IsTraitList
  <2> HIDE DEF chunk
  <2>4. chunk.index + 1 = i
    BY <2>1, <2>3
  <2>5. implied = TraitClauses(ImpliedPredicates(g, d))
        /\ required = InstantiateAll(TraitClauses(RequiredPredicates(g, d)), p)
    BY <1>1 DEF implied, ImpliedClauses, OwnClauses
  <2>6. Follows(g, p, chunk)
    BY <2>1, <2>3, <2>4, <2>5, <1>1, <1>6 DEF Follows, Pred
  <2>7. IsHeld(g, holder, p)
    BY DEF p
  <2>8. IsPending(g, Candidate(Append(holder.path, chunk), chunk.predicate, holder.origin))
    BY <2>1, <2>2, <2>6, <2>7, OneFurther
  <2>9. ps[i] = Candidate(Append(holder.path, chunk), chunk.predicate, holder.origin)
    BY <1>7, <2>1 DEF chunk
  <2> QED BY <2>8, <2>9
<1> QED BY <1>9, <1>10 DEF ps

\* What the source of an implementation requires.
LEMMA RequiredFacts ==
    ASSUME NEW g \in Programs, NEW source, NEW p, p.trait \in Items
    PROVE  IsTraitList(Required(g, source, p))
<1> DEFINE implied == ImpliedClauses(g, p.trait)
<1>1. IsTraitList(implied)
  BY ClausesFacts
<1>2. IsTraitList(InstantiateAll(implied, p))
  <2> HIDE DEF implied
  <2> QED BY <1>1, InstantiateAllFacts
<1>3. ASSUME source.id \in Impls
      PROVE  IsTraitList(InstantiateAll(OwnClauses(g, source.id), source.generics))
  <2> DEFINE own == OwnClauses(g, source.id)
             generics == source.generics
  <2>1. IsTraitList(own)
    BY <1>3, ClausesFacts DEF Impls
  <2> HIDE DEF own, generics
  <2>2. IsTraitList(InstantiateAll(own, generics))
    BY <2>1, InstantiateAllFacts
  <2> QED BY <2>2 DEF own, generics
<1>4. IsTraitList(<<>>)
  BY EmptyIsSeq DEF IsTraitList
<1> QED BY <1>2, <1>3, <1>4 DEF Required, OwnClauses, ImpliedClauses

-----------------------------------------------------------------------------
(* The calls under way *)

\* What a call looks for with resolve_local.
Wanted(g, f) == IF f.fn = "resolve" THEN EraseAndNorm(g, f.target) ELSE TraitOf(f.target.self)
\* What else it has to resolve.
Needed(g, f) == IF f.fn = "resolve"
                THEN Required(g, Source(g, f.target), EraseAndNorm(g, f.target))
                ELSE RequiredByType(g, f.target.self)

\* A call at each of its steps.
IsCall(g, f) ==
    /\ f = [fn |-> f.fn, target |-> f.target, step |-> f.step,
            found |-> f.found, preds |-> f.preds, exprs |-> f.exprs]
    /\ f.fn \in {"resolve", "resolve_local"}
    /\ f.step \in {"start", "local", "found", "nested", "extended"}
    /\ f.target.trait \in Items
    /\ AreAnswered(g, f.exprs, f.preds)
    /\ f.step \in {"start", "local", "found"} => f.exprs = <<>>
    /\ f.step = "start" => f.found = <<>>
    /\ f.fn = "resolve_local" /\ f.step \in {"local", "found", "nested"} =>
          IsProjection(f.target.self)
    /\ f.step = "nested" => f.preds = Needed(g, f)
    /\ f.step = "nested" /\ f.fn = "resolve_local" => f.found # <<>>
    /\ f.step \in {"found", "nested"} /\ f.found # <<>> => IsHeld(g, f.found[1], Wanted(g, f))

\* A call that goes on to another step.
Frame(f, step, found, preds, exprs) ==
    [fn |-> f.fn, target |-> f.target, step |-> step, found |-> found, preds |-> preds,
     exprs |-> exprs]

LEMMA FrameFacts ==
    ASSUME NEW g, NEW f, IsCall(g, f), NEW step, NEW x
    PROVE  /\ [f EXCEPT !.step = step] = Frame(f, step, f.found, f.preds, f.exprs)
           /\ Waiting(f) = Frame(f, "local", f.found, f.preds, f.exprs)
           /\ WithFound(f, x) = Frame(f, "found", x, f.preds, f.exprs)
           /\ WithPreds(f, x) = Frame(f, "nested", f.found, x, f.exprs)
           /\ [f EXCEPT !.exprs = x] = Frame(f, f.step, f.found, f.preds, x)
<1> DEFINE a == f.fn
           b == f.target
           c == f.step
           d == f.found
           e == f.preds
           h == f.exprs
<1>1. f = [fn |-> a, target |-> b, step |-> c, found |-> d, preds |-> e, exprs |-> h]
  BY DEF IsCall
<1> HIDE DEF a, b, c, d, e, h
<1>2. /\ [f EXCEPT !.step = step] =
            [fn |-> a, target |-> b, step |-> step, found |-> d, preds |-> e, exprs |-> h]
      /\ [f EXCEPT !.exprs = x] =
            [fn |-> a, target |-> b, step |-> c, found |-> d, preds |-> e, exprs |-> x]
  BY <1>1
<1>3. WithFound(f, x) =
            [fn |-> a, target |-> b, step |-> "found", found |-> x, preds |-> e, exprs |-> h]
  <2> DEFINE k == [f EXCEPT !.found = x]
  <2>1. k = [fn |-> a, target |-> b, step |-> c, found |-> x, preds |-> e, exprs |-> h]
    BY <1>1
  <2>2. WithFound(f, x) = [k EXCEPT !.step = "found"]
    BY DEF WithFound
  <2> HIDE DEF k
  <2>3. [k EXCEPT !.step = "found"] =
            [fn |-> a, target |-> b, step |-> "found", found |-> x, preds |-> e, exprs |-> h]
    BY <2>1
  <2> QED BY <2>2, <2>3
<1>4. WithPreds(f, x) =
            [fn |-> a, target |-> b, step |-> "nested", found |-> d, preds |-> x, exprs |-> h]
  <2> DEFINE k == [f EXCEPT !.step = "nested"]
  <2>1. k = [fn |-> a, target |-> b, step |-> "nested", found |-> d, preds |-> e, exprs |-> h]
    BY <1>1
  <2>2. WithPreds(f, x) = [k EXCEPT !.preds = x]
    BY DEF WithPreds
  <2> HIDE DEF k
  <2>3. [k EXCEPT !.preds = x] =
            [fn |-> a, target |-> b, step |-> "nested", found |-> d, preds |-> x, exprs |-> h]
    BY <2>1
  <2> QED BY <2>2, <2>3
<1>5. Waiting(f) =
            [fn |-> a, target |-> b, step |-> "local", found |-> d, preds |-> e, exprs |-> h]
  BY <1>1 DEF Waiting
<1> QED BY <1>2, <1>3, <1>4, <1>5 DEF Frame, a, b, c, d, e, h

\* The call h was made by f.
IsCallee(g, f, h) ==
    \/ f.step = "local" /\ h.fn = "resolve_local" /\ h.target = Wanted(g, f)
    \/ /\ f.step = "nested" /\ h.fn = "resolve" /\ Len(f.exprs) < Len(f.preds)
       /\ h.target = f.preds[Len(f.exprs) + 1]

AreCalls(g, st) ==
    /\ IsSeq(st)
    /\ \A n \in 1..Len(st) : IsCall(g, st[n])
    /\ \A n \in 1..(Len(st) - 1) : IsCallee(g, st[n], st[n + 1])
    /\ st # <<>> => st[1].fn = "resolve"

LEMMA TopFacts ==
    ASSUME NEW g, NEW st, AreCalls(g, st), st # <<>>
    PROVE  /\ Len(st) \in Nat /\ Len(st) >= 1 /\ DOMAIN st = 1..Len(st)
           /\ Last(st) = st[Len(st)] /\ IsCall(g, Last(st))
           /\ Len(st) = 1 => Last(st).fn = "resolve"
           /\ Len(st) # 1 => /\ Len(st) - 1 \in 1..Len(st) /\ Len(st) - 1 >= 1
                             /\ IsCall(g, st[Len(st) - 1])
                             /\ IsCallee(g, st[Len(st) - 1], Last(st))
<1>1. Len(st) \in Nat /\ Len(st) >= 1 /\ DOMAIN st = 1..Len(st)
  BY SeqElements DEF AreCalls
<1>2. Last(st) = st[Len(st)]
  BY DEF Last
<1>3. Len(st) # 1 => IsCallee(g, st[Len(st) - 1], st[Len(st)])
  <2>1. SUFFICES ASSUME Len(st) # 1 PROVE IsCallee(g, st[Len(st) - 1], st[Len(st)])
    OBVIOUS
  <2> DEFINE n == Len(st) - 1
  <2>2. n \in 1..(Len(st) - 1) /\ n + 1 = Len(st)
    BY <1>1, <2>1
  <2> HIDE DEF n
  <2>3. IsCallee(g, st[n], st[Len(st)])
    BY <2>2 DEF AreCalls
  <2> QED BY <2>3 DEF n
<1> QED BY <1>1, <1>2, <1>3 DEF AreCalls

\* The call on top goes on.
LEMMA Replaced ==
    ASSUME NEW g, NEW st, AreCalls(g, st), st # <<>>,
           NEW f, IsCall(g, f), f.fn = Last(st).fn, f.target = Last(st).target
    PROVE  /\ AreCalls(g, [st EXCEPT ![Len(st)] = f])
           /\ Last([st EXCEPT ![Len(st)] = f]) = f
           /\ Len([st EXCEPT ![Len(st)] = f]) = Len(st)
           /\ [st EXCEPT ![Len(st)] = f] # <<>>
<1> DEFINE L == Len(st)
           new == [st EXCEPT ![L] = f]
<1>1. /\ L \in Nat /\ L >= 1 /\ DOMAIN st = 1..L /\ Last(st) = st[L]
      /\ \A n \in 1..L : IsCall(g, st[n])
      /\ \A n \in 1..(L - 1) : IsCallee(g, st[n], st[n + 1])
      /\ st[1].fn = "resolve"
  BY TopFacts DEF AreCalls
<1>2. new = [n \in 1..L |-> IF n = L THEN f ELSE st[n]]
  BY <1>1
<1> HIDE DEF new, L
<1>3. new = [n \in 1..L |-> new[n]]
  BY <1>2
<1>4. IsSeq(new) /\ Len(new) = L
  BY <1>1, <1>3, FunctionIsSeq
<1>5. new[L] = f /\ \A n \in 1..L : n # L => new[n] = st[n]
  BY <1>1, <1>2
<1>6. \A n \in 1..L : IsCall(g, new[n])
  BY <1>1, <1>5
<1>7. ASSUME NEW n \in 1..(L - 1) PROVE IsCallee(g, new[n], new[n + 1])
  <2>1. n \in 1..L /\ n # L /\ n + 1 \in 1..L
    BY <1>1
  <2>2. new[n] = st[n] /\ IsCallee(g, st[n], st[n + 1])
    BY <1>1, <1>5, <2>1
  <2>3. new[n + 1].fn = st[n + 1].fn /\ new[n + 1].target = st[n + 1].target
    BY <1>1, <1>5, <2>1
  <2> QED BY <2>2, <2>3 DEF IsCallee
<1>8. new[1].fn = "resolve"
  BY <1>1, <1>5
<1>9. new # <<>>
  BY <1>1, <1>4, EmptyIsSeq
<1>10. Last(new) = f
  BY <1>4, <1>5 DEF Last
<1>11. AreCalls(g, new)
  BY <1>4, <1>6, <1>7, <1>8 DEF AreCalls
<1> QED BY <1>4, <1>9, <1>10, <1>11 DEF new, L

\* It makes another call.
LEMMA Pushed ==
    ASSUME NEW g, NEW st, AreCalls(g, st), st # <<>>,
           NEW h, IsCall(g, h), IsCallee(g, Last(st), h)
    PROVE  AreCalls(g, Append(st, h))
<1> DEFINE L == Len(st)
           new == Append(st, h)
           S == Range(st) \cup {h}
<1>1. /\ L \in Nat /\ L >= 1 /\ Last(st) = st[L]
      /\ \A n \in 1..L : IsCall(g, st[n])
      /\ \A n \in 1..(L - 1) : IsCallee(g, st[n], st[n + 1])
      /\ st[1].fn = "resolve" /\ IsSeq(st)
  BY TopFacts DEF AreCalls
<1>2. st \in Seq(S)
  <2>1. Seq(Range(st)) \subseteq Seq(S)
    OBVIOUS
  <2> QED BY <1>1, <2>1 DEF IsSeq
<1> HIDE DEF S
<1>3. /\ new \in Seq(S) /\ Len(new) = L + 1 /\ new[L + 1] = h
      /\ \A n \in 1..L : new[n] = st[n]
  <2>1. h \in S
    BY DEF S
  <2> QED BY <1>2, <2>1
<1> HIDE DEF new, L
<1>4. IsSeq(new)
  BY <1>3, SeqIsSeq
<1>5. \A n \in 1..Len(new) : IsCall(g, new[n])
  BY <1>1, <1>3
<1>6. ASSUME NEW n \in 1..(Len(new) - 1) PROVE IsCallee(g, new[n], new[n + 1])
  <2>1. CASE n = L
    BY <2>1, <1>1, <1>3
  <2>2. CASE n # L
    <3>1. n \in 1..(L - 1) /\ n \in 1..L /\ n + 1 \in 1..L
      BY <2>2, <1>1, <1>3
    <3> QED BY <3>1, <1>1, <1>3
  <2> QED BY <2>1, <2>2
<1>7. new[1].fn = "resolve"
  BY <1>1, <1>3
<1>8. AreCalls(g, new)
  BY <1>4, <1>5, <1>6, <1>7 DEF AreCalls
<1> QED BY <1>8 DEF new

\* It returns.
LEMMA Popped ==
    ASSUME NEW g, NEW st, AreCalls(g, st), st # <<>>, Len(st) # 1
    PROVE  /\ AreCalls(g, Front(st)) /\ Front(st) # <<>>
           /\ Len(Front(st)) = Len(st) - 1
           /\ Last(Front(st)) = st[Len(st) - 1]
<1> DEFINE L == Len(st)
           new == Front(st)
<1>1. /\ L \in Nat /\ L >= 1
      /\ \A n \in 1..L : IsCall(g, st[n])
      /\ \A n \in 1..(L - 1) : IsCallee(g, st[n], st[n + 1])
      /\ st[1].fn = "resolve" /\ IsSeq(st)
  BY TopFacts DEF AreCalls
<1>2. L - 1 \in Nat /\ L - 1 >= 1
  <2>1. L \in Nat /\ L >= 1 /\ L # 1
    BY <1>1
  <2> HIDE DEF L
  <2> QED BY <2>1
<1>3. new = [n \in 1..(L - 1) |-> st[n]]
  <2> DEFINE S == Range(st)
  <2>1. st \in Seq(S)
    BY <1>1 DEF IsSeq
  <2> HIDE DEF S
  <2>2. new = SubSeq(st, 1, L - 1)
    BY DEF Front
  <2>3. SubSeq(st, 1, L - 1) = [n \in 1..(L - 1) |-> st[n]]
    BY <2>1, <1>1
  <2> QED BY <2>2, <2>3
<1> HIDE DEF new, L
<1>4. new = [n \in 1..(L - 1) |-> new[n]] /\ \A n \in 1..(L - 1) : new[n] = st[n]
  BY <1>3
<1>5. IsSeq(new) /\ Len(new) = L - 1
  BY <1>2, <1>4, FunctionIsSeq
<1>6. \A n \in 1..(L - 1) : IsCall(g, new[n])
  BY <1>1, <1>4
<1>7. ASSUME NEW n \in 1..(L - 2) PROVE IsCallee(g, new[n], new[n + 1])
  <2>1. n \in 1..(L - 1) /\ n + 1 \in 1..(L - 1)
    BY <1>1
  <2> QED BY <2>1, <1>1, <1>4
<1>8. new[1].fn = "resolve" /\ Last(new) = st[L - 1]
  BY <1>1, <1>2, <1>4, <1>5 DEF Last
<1>9. new # <<>>
  BY <1>2, <1>5, EmptyIsSeq
<1>10. Len(new) - 1 = L - 2
  BY <1>1, <1>5
<1>11. AreCalls(g, new)
  BY <1>5, <1>6, <1>7, <1>8, <1>10 DEF AreCalls
<1> QED BY <1>5, <1>8, <1>9, <1>11 DEF new, L

-----------------------------------------------------------------------------
(* The inductive invariant *)

ArePending(g, s) == IsSeq(s) /\ \A n \in 1..Len(s) : IsPending(g, s[n])
AreHeld(g, map) == \A p \in DOMAIN map : IsHeld(g, map[p], p)
AreAnswers(g, map) == \A q \in DOMAIN map : Proves(g, map[q], q)

IInv == /\ program \in Programs
        /\ ArePending(program, extending)
        /\ AreHeld(program, candidates)
        /\ AreCalls(program, stack)
        /\ AreAnswers(program, impl_exprs)

\* What an answer shows when it is about a candidate or about a source.
LEMMA LocalAnswerProves ==
    ASSUME NEW g, NEW tref, NEW found,
           found # <<>> => IsHeld(g, found[1], EraseAndNorm(g, tref))
    PROVE  Proves(g, LocalAnswer(tref, found), tref)
<1> DEFINE expr == LocalAnswer(tref, found)
           c == found[1]
           p == EraseAndNorm(g, tref)
<1>1. CASE found = <<>>
  BY <1>1 DEF LocalAnswer, ImplExpr, Proves
<1>2. CASE found # <<>>
  <2>1. /\ IsNumbered(g, c.origin) /\ IsSeq(c.path)
        /\ \A n \in 1..Len(c.path) : Follows(g, After(g, c.origin.clause, c.path, n - 1), c.path[n])
        /\ After(g, c.origin.clause, c.path, Len(c.path)) = p
    BY <1>2 DEF IsHeld, IsCandidate, Goal
  <2>2. /\ expr.trait = tref /\ expr.kind \in {"SelfImpl", "LocalBound"}
        /\ expr.origin = c.origin /\ expr.path = c.path
    BY <1>2 DEF LocalAnswer, ImplExpr
  <2>3. DOMAIN c.path = 1..Len(c.path)
    BY <2>1, SeqElements
  <2> HIDE DEF expr, c, p
  <2>4. LeadsTo(g, c.origin.clause, c.path, p)
    BY <2>1, <2>3 DEF LeadsTo
  <2>5. Proves(g, expr, tref)
    BY <2>1, <2>2, <2>4 DEF Proves, p
  <2> QED BY <2>5 DEF expr
<1> QED BY <1>1, <1>2

LEMMA SourceAnswerProves ==
    ASSUME NEW g, NEW tref, NEW exprs,
           AreAnswered(g, exprs, Required(g, Source(g, tref), EraseAndNorm(g, tref))),
           Len(exprs) = Len(Required(g, Source(g, tref), EraseAndNorm(g, tref)))
    PROVE  Proves(g, SourceAnswer(tref, Source(g, tref), exprs), tref)
<1> DEFINE expr == SourceAnswer(tref, Source(g, tref), exprs)
           required == Required(g, Source(g, tref), EraseAndNorm(g, tref))
<1>1. /\ expr.trait = tref /\ expr.impl_exprs = exprs
      /\ expr.kind \in {"Concrete", "Builtin", "Dyn", "Error"}
  BY DEF SourceAnswer, ImplExpr
<1>2. DOMAIN required = 1..Len(required)
  <2>1. IsSeq(required)
    BY DEF AreAnswered, IsTraitList
  <2> HIDE DEF required
  <2> QED BY <2>1, SeqElements
<1>3. \A i \in 1..Len(required) : exprs[i].trait = required[i]
  BY DEF AreAnswered, Proves
<1> HIDE DEF expr
<1>4. Proves(g, expr, tref)
  BY <1>1, <1>2, <1>3 DEF Proves
<1> QED BY <1>4 DEF expr

\* A call that starts, and one that waits for another.
LEMMA CallIsCall ==
    ASSUME NEW g, NEW fn \in {"resolve", "resolve_local"}, NEW target, target.trait \in Items
    PROVE  IsCall(g, Call(fn, target)) /\ Call(fn, target).fn = fn /\ Call(fn, target).target = target
<1>1. AreAnswered(g, <<>>, <<>>)
  BY EmptyIsSeq DEF AreAnswered, IsTraitList
<1> QED BY <1>1 DEF Call, IsCall

\* What is found is held.
LEMMA LookupIsHeld ==
    ASSUME NEW g, AreHeld(g, candidates), NEW p
    PROVE  Lookup(p) # <<>> => IsHeld(g, Lookup(p)[1], p)
BY DEF Lookup, AreHeld

\* Init
LEMMA InitOK == ASSUME Init PROVE IInv
<1>1. AreCalls(program, <<>>) /\ ArePending(program, <<>>)
  BY EmptyIsSeq DEF AreCalls, ArePending
<1>2. AreHeld(program, <<>>) /\ AreAnswers(program, <<>>)
  BY DEF AreHeld, AreAnswers
<1> QED BY <1>1, <1>2 DEF Init, IInv

\* SolveTrait: the first call, and the clauses in scope at the first use.
LEMMA SolveTraitOK ==
    ASSUME IInv, NEW tref \in Queries, SolveTrait(tref)
    PROVE  IInv'
<1>1. /\ program' = program /\ candidates' = candidates /\ impl_exprs' = impl_exprs
      /\ stack' = <<Call("resolve", tref)>>
      /\ extending' = IF predicate_searcher = "none" THEN InitialCandidates(program) ELSE <<>>
  BY DEF SolveTrait
<1>2. ArePending(program, extending')
  BY <1>1, InitialPending, EmptyIsSeq DEF ArePending, IInv
<1>3. AreCalls(program, stack')
  <2> DEFINE f == Call("resolve", tref)
             st == <<f>>
  <2>1. IsCall(program, f) /\ f.fn = "resolve"
    BY CallIsCall, QueriesAssumption
  <2> HIDE DEF f
  <2>2. st \in Seq({f}) /\ Len(st) = 1 /\ st[1] = f
    OBVIOUS
  <2> HIDE DEF st
  <2>3. IsSeq(st)
    BY <2>2, SeqIsSeq
  <2>4. AreCalls(program, st)
    BY <2>1, <2>2, <2>3 DEF AreCalls
  <2> QED BY <1>1, <2>4 DEF st, f
<1> QED BY <1>1, <1>2, <1>3 DEF IInv

LEMMA HeadTailPending ==
    ASSUME NEW g, NEW s, ArePending(g, s), s # <<>>
    PROVE  IsPending(g, Head(s)) /\ ArePending(g, Tail(s))
<1> DEFINE S == Range(s)
<1>1. s \in Seq(S) /\ Len(s) \in Nat /\ \A n \in 1..Len(s) : IsPending(g, s[n])
  BY SeqElements DEF ArePending, IsSeq
<1> HIDE DEF S
<1>2. /\ Len(s) >= 1 /\ Tail(s) \in Seq(S) /\ Len(Tail(s)) = Len(s) - 1
      /\ Head(s) = s[1] /\ \A n \in 1..(Len(s) - 1) : Tail(s)[n] = s[n + 1]
  BY <1>1, HeadTail
<1>3. IsSeq(Tail(s))
  BY <1>2, SeqIsSeq
<1>4. ASSUME NEW n \in 1..Len(Tail(s)) PROVE IsPending(g, Tail(s)[n])
  <2>1. n \in 1..(Len(s) - 1) /\ n + 1 \in 1..Len(s)
    BY <1>1, <1>2
  <2> QED BY <2>1, <1>1, <1>2
<1> QED BY <1>1, <1>2, <1>3, <1>4 DEF ArePending

LEMMA ConcatPending ==
    ASSUME NEW g, NEW s, NEW t, ArePending(g, s), ArePending(g, t)
    PROVE  ArePending(g, s \o t)
<1>1. /\ IsSeq(s \o t)
      /\ \A i \in 1..Len(s \o t) : \/ i \in 1..Len(s) /\ (s \o t)[i] = s[i]
                                   \/ i - Len(s) \in 1..Len(t) /\ (s \o t)[i] = t[i - Len(s)]
  BY ConcatIsSeq DEF ArePending
<1> DEFINE u == s \o t
<1> HIDE DEF u
<1>2. ASSUME NEW i \in 1..Len(u) PROVE IsPending(g, u[i])
  BY <1>1, <1>2 DEF ArePending, u
<1> QED BY <1>1, <1>2 DEF ArePending, u

\* Extend: the candidate is dropped, or held and followed by what it implies.
LEMMA ExtendOK == ASSUME IInv, Extend PROVE IInv'
<1> DEFINE c == Normalised(program, Head(extending))
<1>1. /\ program' = program /\ stack' = stack /\ impl_exprs' = impl_exprs
      /\ extending # <<>> /\ program \in Programs
  BY DEF Extend, IInv
<1>2. IsPending(program, Head(extending)) /\ ArePending(program, Tail(extending))
  BY <1>1, HeadTailPending DEF IInv
<1>3. IsHeld(program, c, c.pred)
  BY <1>2, NormalisedIsHeld
<1>4. \/ extending' = Tail(extending) /\ candidates' = candidates
      \/ /\ extending' = Tail(extending) \o ParentsOf(program, c)
         /\ candidates' = Put(candidates, c.pred, c)
  BY DEF Extend
<1> HIDE DEF c
<1>5. CASE extending' = Tail(extending) /\ candidates' = candidates
  BY <1>1, <1>2, <1>5 DEF IInv
<1>6. CASE /\ extending' = Tail(extending) \o ParentsOf(program, c)
           /\ candidates' = Put(candidates, c.pred, c)
  <2>1. ArePending(program, ParentsOf(program, c))
    BY <1>1, <1>3, ParentsPending DEF ArePending
  <2>2. ArePending(program, extending')
    BY <1>2, <1>6, <2>1, ConcatPending
  <2>3. AreHeld(program, candidates')
    <3>1. AreHeld(program, candidates)
      BY DEF IInv
    <3> QED BY <1>3, <1>6, <3>1 DEF AreHeld, Put
  <2> QED BY <1>1, <2>2, <2>3 DEF IInv
<1> QED BY <1>4, <1>5, <1>6

\* What a step that only changes the stack has to show.
LEMMA OnlyStack ==
    ASSUME IInv, program' = program, extending' = extending, candidates' = candidates,
           impl_exprs' = impl_exprs, AreCalls(program, stack')
    PROVE  IInv'
BY DEF IInv

\* resolve_local returns what it found to a call of either function.
LEMMA ReturningFoundOK ==
    ASSUME IInv, stack # <<>>, Top.fn = "resolve_local",
           NEW found, found # <<>> => IsHeld(program, found[1], Top.target)
    PROVE  AreCalls(program, ReturningFound(found))
<1> DEFINE g == program
           f == stack[Len(stack) - 1]
           new == WithFound(f, found)
           rest == Front(stack)
<1>1. AreCalls(g, stack)
  BY DEF IInv
<1>2. Top = Last(stack) /\ Caller = f
  BY DEF Top, Caller
<1>3. Len(stack) # 1
  BY <1>1, <1>2, TopFacts
<1>4. IsCall(g, f) /\ IsCallee(g, f, Top)
  BY <1>1, <1>2, <1>3, TopFacts
<1>5. /\ AreCalls(g, rest) /\ rest # <<>> /\ Len(rest) = Len(stack) - 1 /\ Last(rest) = f
  BY <1>1, <1>3, Popped
<1>6. ReturningFound(found) = [rest EXCEPT ![Len(rest)] = new]
  BY <1>2, <1>5 DEF ReturningFound, Returning
<1> HIDE DEF f, rest, g
<1>7. f.step = "local" /\ Top.target = Wanted(g, f)
  BY <1>4 DEF IsCallee
<1>8. new = [fn |-> f.fn, target |-> f.target, step |-> "found", found |-> found,
             preds |-> f.preds, exprs |-> f.exprs]
  BY <1>4, FrameFacts DEF Frame
<1> HIDE DEF new
<1>9. /\ new.fn = f.fn /\ new.target = f.target /\ new.step = "found" /\ new.found = found
      /\ new.preds = f.preds /\ new.exprs = f.exprs
  BY <1>8
<1>10. Wanted(g, new) = Wanted(g, f)
  BY <1>9 DEF Wanted
<1>11. found # <<>> => IsHeld(g, found[1], Wanted(g, f))
  BY <1>7 DEF g
<1>12. /\ f.fn \in {"resolve", "resolve_local"} /\ f.target.trait \in Items
       /\ AreAnswered(g, f.exprs, f.preds) /\ f.exprs = <<>>
       /\ f.fn = "resolve_local" => IsProjection(f.target.self)
  BY <1>4, <1>7 DEF IsCall
<1>13. IsCall(g, new)
  BY <1>8, <1>9, <1>10, <1>11, <1>12 DEF IsCall
<1>14. AreCalls(g, [rest EXCEPT ![Len(rest)] = new])
  BY <1>5, <1>9, <1>13, Replaced
<1> QED BY <1>6, <1>14 DEF g

\* ResolveLocal
LEMMA ResolveLocalOK == ASSUME IInv, ResolveLocal PROVE IInv'
<1> DEFINE g == program
           f == Top
           new == Waiting(f)
           h == Call("resolve_local", TraitOf(f.target.self))
           st == [stack EXCEPT ![Len(stack)] = new]
<1>1. /\ program' = program /\ extending' = extending /\ candidates' = candidates
      /\ impl_exprs' = impl_exprs /\ stack # <<>> /\ f.step = "start" /\ f.fn = "resolve_local"
  BY DEF ResolveLocal, Running
<1>2. AreCalls(g, stack) /\ AreHeld(g, candidates) /\ g \in Programs
  BY DEF IInv
<1>3. Top = Last(stack) /\ IsCall(g, Top)
  BY <1>1, <1>2, TopFacts DEF Top
<1>4. CASE IsMissing(f.target)
  <2>1. stack' = Append(st, h)
    BY <1>4 DEF ResolveLocal, Calling, Going
  <2>2. IsProjection(f.target.self)
    BY <1>4 DEF IsMissing
  <2>3. TraitOf(f.target.self).trait \in Items
    BY <1>2, <2>2, RequiredByTypeFacts
  <2>4. IsCall(g, h) /\ h.fn = "resolve_local" /\ h.target = TraitOf(f.target.self)
    BY <2>3, CallIsCall
  <2>5. new = [fn |-> f.fn, target |-> f.target, step |-> "local", found |-> f.found,
               preds |-> f.preds, exprs |-> f.exprs]
    BY <1>3, FrameFacts DEF Frame
  <2> HIDE DEF new, h, f, g
  <2>6. /\ new.fn = f.fn /\ new.target = f.target /\ new.step = "local" /\ new.found = f.found
        /\ new.preds = f.preds /\ new.exprs = f.exprs
    BY <2>5
  <2>7. /\ f.fn \in {"resolve", "resolve_local"} /\ f.target.trait \in Items
        /\ AreAnswered(g, f.exprs, f.preds) /\ f.exprs = <<>>
    BY <1>1, <1>3 DEF IsCall, f, g
  <2>8. IsCall(g, new)
    BY <2>2, <2>5, <2>6, <2>7 DEF IsCall
  <2>9. AreCalls(g, st) /\ Last(st) = new /\ st # <<>>
    BY <1>1, <1>2, <1>3, <2>6, <2>8, Replaced DEF f
  <2>10. IsCallee(g, new, h)
    BY <1>1, <2>4, <2>6 DEF IsCallee, Wanted
  <2> HIDE DEF st
  <2>11. AreCalls(g, Append(st, h))
    BY <2>4, <2>9, <2>10, Pushed
  <2> QED BY <1>1, <2>1, <2>11, OnlyStack DEF g
<1>5. CASE ~IsMissing(f.target)
  <2>1. stack' = ReturningFound(Lookup(f.target))
    BY <1>5 DEF ResolveLocal
  <2>2. Lookup(f.target) # <<>> => IsHeld(g, Lookup(f.target)[1], f.target)
    BY <1>2, LookupIsHeld
  <2>3. AreCalls(g, ReturningFound(Lookup(f.target)))
    BY <1>1, <2>2, ReturningFoundOK
  <2> QED BY <1>1, <2>1, <2>3, OnlyStack
<1> QED BY <1>4, <1>5

\* TraitFound: what the type requires is resolved, or there is nothing to add.
LEMMA TraitFoundOK == ASSUME IInv, TraitFound PROVE IInv'
<1> DEFINE g == program
           f == Top
           preds == RequiredByType(g, f.target.self)
           new == WithPreds(f, preds)
<1>1. /\ program' = program /\ extending' = extending /\ candidates' = candidates
      /\ impl_exprs' = impl_exprs /\ stack # <<>> /\ f.step = "found" /\ f.fn = "resolve_local"
  BY DEF TraitFound, Running
<1>2. AreCalls(g, stack) /\ AreHeld(g, candidates) /\ g \in Programs
  BY DEF IInv
<1>3. Top = Last(stack) /\ IsCall(g, Top)
  BY <1>1, <1>2, TopFacts DEF Top
<1>4. CASE f.found = <<>>
  <2>1. stack' = ReturningFound(Lookup(f.target))
    BY <1>4 DEF TraitFound
  <2>2. Lookup(f.target) # <<>> => IsHeld(g, Lookup(f.target)[1], f.target)
    BY <1>2, LookupIsHeld
  <2>3. AreCalls(g, ReturningFound(Lookup(f.target)))
    BY <1>1, <2>2, ReturningFoundOK
  <2> QED BY <1>1, <2>1, <2>3, OnlyStack
<1>5. CASE f.found # <<>>
  <2>1. stack' = [stack EXCEPT ![Len(stack)] = new]
    BY <1>5 DEF TraitFound, Going
  <2>2. IsProjection(f.target.self)
    BY <1>1, <1>3 DEF IsCall
  <2>3. IsTraitList(preds)
    BY <1>2, <2>2, RequiredByTypeFacts
  <2>4. new = [fn |-> f.fn, target |-> f.target, step |-> "nested", found |-> f.found,
               preds |-> preds, exprs |-> f.exprs]
    BY <1>3, FrameFacts DEF Frame
  <2>5. /\ f.target.trait \in Items /\ f.exprs = <<>>
        /\ IsHeld(g, f.found[1], TraitOf(f.target.self))
    BY <1>1, <1>3, <1>5 DEF IsCall, Wanted
  <2>6. AreAnswered(g, <<>>, preds)
    <3>1. Len(preds) \in Nat
      BY <2>3, SeqElements DEF IsTraitList
    <3> HIDE DEF preds
    <3> QED BY <2>3, <3>1, EmptyIsSeq DEF AreAnswered
  <2>7. preds = RequiredByType(g, f.target.self)
    OBVIOUS
  <2> HIDE DEF new, f, g, preds
  <2>8. /\ new.fn = f.fn /\ new.target = f.target /\ new.step = "nested" /\ new.found = f.found
        /\ new.preds = preds /\ new.exprs = f.exprs
    BY <2>4
  <2>9. Needed(g, new) = preds /\ Wanted(g, new) = TraitOf(f.target.self)
    BY <1>1, <2>7, <2>8 DEF Needed, Wanted
  <2>10. IsCall(g, new)
    BY <1>1, <1>5, <2>2, <2>4, <2>5, <2>6, <2>8, <2>9 DEF IsCall
  <2>11. AreCalls(g, [stack EXCEPT ![Len(stack)] = new])
    BY <1>1, <1>2, <1>3, <2>8, <2>10, Replaced DEF f
  <2> QED BY <1>1, <2>1, <2>11, OnlyStack DEF g
<1> QED BY <1>4, <1>5

\* AddBounds
LEMMA AddBoundsOK == ASSUME IInv, AddBounds PROVE IInv'
<1> DEFINE g == program
           f == Top
           ty == f.target.self
           new == [f EXCEPT !.step = "extended"]
           bounds == BoundCandidates(g, ty, f.found[1], f.exprs)
<1>1. /\ program' = program /\ extending' = bounds /\ candidates' = candidates
      /\ impl_exprs' = impl_exprs /\ stack # <<>> /\ f.step = "nested" /\ f.fn = "resolve_local"
      /\ stack' = [stack EXCEPT ![Len(stack)] = new] /\ Len(f.exprs) = Len(f.preds)
  BY DEF AddBounds, Running, Going
<1>2. AreCalls(g, stack) /\ g \in Programs
  BY DEF IInv
<1>3. Top = Last(stack) /\ IsCall(g, Top)
  BY <1>1, <1>2, TopFacts DEF Top
<1>4. /\ IsProjection(ty) /\ f.found # <<>> /\ f.preds = RequiredByType(g, ty)
      /\ IsHeld(g, f.found[1], TraitOf(ty)) /\ AreAnswered(g, f.exprs, f.preds)
      /\ f.target.trait \in Items
  BY <1>1, <1>3 DEF IsCall, Needed, Wanted
<1>5. ArePending(g, bounds)
  <2> DEFINE holder == f.found[1]
             exprs == f.exprs
  <2>1. /\ IsProjection(ty) /\ IsHeld(g, holder, TraitOf(ty))
        /\ AreAnswered(g, exprs, RequiredByType(g, ty)) /\ Len(exprs) = Len(RequiredByType(g, ty))
    BY <1>1, <1>4
  <2> HIDE DEF holder, exprs, ty, g
  <2>2. ArePending(g, BoundCandidates(g, ty, holder, exprs))
    BY <1>2, <2>1, BoundsPending DEF ArePending
  <2> QED BY <2>2 DEF holder, exprs
<1>6. new = [fn |-> f.fn, target |-> f.target, step |-> "extended", found |-> f.found,
             preds |-> f.preds, exprs |-> f.exprs]
  BY <1>3, FrameFacts DEF Frame
<1> HIDE DEF new, f, g, ty, bounds
<1>7. /\ new.fn = f.fn /\ new.target = f.target /\ new.step = "extended" /\ new.found = f.found
      /\ new.preds = f.preds /\ new.exprs = f.exprs
  BY <1>6
<1>8. IsCall(g, new)
  BY <1>1, <1>4, <1>6, <1>7 DEF IsCall
<1>9. AreCalls(g, [stack EXCEPT ![Len(stack)] = new])
  BY <1>1, <1>2, <1>3, <1>7, <1>8, Replaced DEF f
<1> QED BY <1>1, <1>5, <1>9 DEF IInv, g

\* LookUpAgain
LEMMA LookUpAgainOK == ASSUME IInv, LookUpAgain PROVE IInv'
<1>1. /\ program' = program /\ extending' = extending /\ candidates' = candidates
      /\ impl_exprs' = impl_exprs /\ stack # <<>> /\ Top.fn = "resolve_local"
      /\ stack' = ReturningFound(Lookup(Top.target))
  BY DEF LookUpAgain, Running
<1>2. Lookup(Top.target) # <<>> => IsHeld(program, Lookup(Top.target)[1], Top.target)
  BY LookupIsHeld DEF IInv
<1>3. AreCalls(program, ReturningFound(Lookup(Top.target)))
  BY <1>1, <1>2, ReturningFoundOK
<1> QED BY <1>1, <1>3, OnlyStack

\* Resolve: rustc chooses a clause in scope, or another source.
LEMMA ResolveOK == ASSUME IInv, Resolve PROVE IInv'
<1> DEFINE g == program
           f == Top
           p == EraseAndNorm(g, f.target)
           source == Source(g, f.target)
           preds == Required(g, source, p)
           waiting == Waiting(f)
           nested == WithPreds(f, preds)
           h == Call("resolve_local", p)
           st == [stack EXCEPT ![Len(stack)] = waiting]
<1>1. /\ program' = program /\ extending' = extending /\ candidates' = candidates
      /\ impl_exprs' = impl_exprs /\ stack # <<>> /\ f.step = "start" /\ f.fn = "resolve"
      /\ \/ source.kind = "Param" /\ stack' = Append(st, h)
         \/ stack' = [stack EXCEPT ![Len(stack)] = nested]
  BY DEF Resolve, Running, Calling, Going
<1>2. AreCalls(g, stack) /\ g \in Programs
  BY DEF IInv
<1>3. Top = Last(stack) /\ IsCall(g, Top)
  BY <1>1, <1>2, TopFacts DEF Top
<1>4. /\ f.target.trait \in Items /\ f.exprs = <<>> /\ AreAnswered(g, f.exprs, f.preds)
      /\ p.trait = f.target.trait
  BY <1>1, <1>3 DEF IsCall, EraseAndNorm, TraitClause
<1>5. CASE source.kind = "Param" /\ stack' = Append(st, h)
  <2>1. IsCall(g, h) /\ h.fn = "resolve_local" /\ h.target = p
    BY <1>4, CallIsCall
  <2>2. waiting = [fn |-> f.fn, target |-> f.target, step |-> "local", found |-> f.found,
                   preds |-> f.preds, exprs |-> f.exprs]
    BY <1>3, FrameFacts DEF Frame
  <2>3. p = EraseAndNorm(g, f.target)
    OBVIOUS
  <2> HIDE DEF waiting, h, f, g, p, source, preds, nested
  <2>4. /\ waiting.fn = f.fn /\ waiting.target = f.target /\ waiting.step = "local"
        /\ waiting.found = f.found /\ waiting.preds = f.preds /\ waiting.exprs = f.exprs
    BY <2>2
  <2>5. IsCall(g, waiting)
    BY <1>1, <1>4, <2>2, <2>4 DEF IsCall
  <2>6. AreCalls(g, st) /\ Last(st) = waiting /\ st # <<>>
    BY <1>1, <1>2, <1>3, <2>4, <2>5, Replaced DEF f
  <2>7. IsCallee(g, waiting, h)
    BY <1>1, <2>1, <2>3, <2>4 DEF IsCallee, Wanted
  <2> HIDE DEF st
  <2>8. AreCalls(g, Append(st, h))
    BY <2>1, <2>6, <2>7, Pushed
  <2> QED BY <1>1, <1>5, <2>8, OnlyStack DEF g
<1>6. CASE stack' = [stack EXCEPT ![Len(stack)] = nested]
  <2>1. IsTraitList(preds)
    BY <1>2, <1>4, RequiredFacts
  <2>2. nested = [fn |-> f.fn, target |-> f.target, step |-> "nested", found |-> f.found,
                  preds |-> preds, exprs |-> f.exprs]
    BY <1>3, FrameFacts DEF Frame
  <2>3. preds = Required(g, Source(g, f.target), EraseAndNorm(g, f.target))
    OBVIOUS
  <2>4. f.found = <<>>
    BY <1>1, <1>3 DEF IsCall
  <2> HIDE DEF waiting, h, f, g, p, source, preds, nested, st
  <2>5. /\ nested.fn = f.fn /\ nested.target = f.target /\ nested.step = "nested"
        /\ nested.found = f.found /\ nested.preds = preds /\ nested.exprs = f.exprs
    BY <2>2
  <2>6. Needed(g, nested) = preds
    BY <1>1, <2>3, <2>5 DEF Needed
  <2>7. AreAnswered(g, <<>>, preds)
    <3>1. Len(preds) \in Nat
      BY <2>1, SeqElements DEF IsTraitList
    <3> QED BY <2>1, <3>1, EmptyIsSeq DEF AreAnswered
  <2>8. IsCall(g, nested)
    BY <1>1, <1>4, <2>2, <2>4, <2>5, <2>6, <2>7 DEF IsCall
  <2>9. AreCalls(g, [stack EXCEPT ![Len(stack)] = nested])
    BY <1>1, <1>2, <1>3, <2>5, <2>8, Replaced DEF f
  <2> QED BY <1>1, <1>6, <2>9, OnlyStack DEF g
<1> QED BY <1>1, <1>5, <1>6

\* ResolveNext
LEMMA ResolveNextOK == ASSUME IInv, ResolveNext PROVE IInv'
<1> DEFINE g == program
           f == Top
           target == f.preds[Len(f.exprs) + 1]
           h == Call("resolve", target)
<1>1. /\ program' = program /\ extending' = extending /\ candidates' = candidates
      /\ impl_exprs' = impl_exprs /\ stack # <<>> /\ f.step = "nested"
      /\ Len(f.exprs) < Len(f.preds) /\ stack' = Append(stack, h)
  BY DEF ResolveNext, Running
<1>2. AreCalls(g, stack)
  BY DEF IInv
<1>3. Top = Last(stack) /\ IsCall(g, Top)
  BY <1>1, <1>2, TopFacts DEF Top
<1>4. target.trait \in Items
  <2> DEFINE preds == f.preds
             exprs == f.exprs
  <2>1. IsTraitList(preds) /\ IsSeq(exprs)
    BY <1>3 DEF IsCall, AreAnswered
  <2>2. Len(exprs) < Len(preds)
    BY <1>1
  <2> HIDE DEF preds, exprs
  <2>3. Len(preds) \in Nat /\ Len(exprs) \in Nat
    BY <2>1, SeqElements DEF IsTraitList
  <2>4. Len(exprs) + 1 \in 1..Len(preds)
    BY <2>2, <2>3
  <2>5. preds[Len(exprs) + 1].trait \in Items
    BY <2>1, <2>4 DEF IsTraitList
  <2> QED BY <2>5 DEF preds, exprs
<1> HIDE DEF target
<1>5. IsCall(g, h) /\ h.fn = "resolve" /\ h.target = target
  BY <1>4, CallIsCall
<1> HIDE DEF h, f, g
<1>6. IsCallee(g, f, h)
  BY <1>1, <1>5 DEF IsCallee, target
<1>7. AreCalls(g, Append(stack, h))
  BY <1>1, <1>2, <1>3, <1>5, <1>6, Pushed DEF f
<1> QED BY <1>1, <1>7, OnlyStack DEF g

\* Append keeps what is answered.
LEMMA OneMoreAnswer ==
    ASSUME NEW g, NEW exprs, NEW preds, AreAnswered(g, exprs, preds), Len(exprs) < Len(preds),
           NEW expr, Proves(g, expr, preds[Len(exprs) + 1])
    PROVE  AreAnswered(g, Append(exprs, expr), preds)
<1> DEFINE L == Len(exprs)
           S == Range(exprs) \cup {expr}
           new == Append(exprs, expr)
<1>1. /\ IsTraitList(preds) /\ IsSeq(exprs) /\ L \in Nat /\ Len(preds) \in Nat
      /\ \A i \in 1..L : Proves(g, exprs[i], preds[i])
  BY SeqElements DEF AreAnswered, IsTraitList
<1>2. exprs \in Seq(S) /\ expr \in S
  <2>1. Seq(Range(exprs)) \subseteq Seq(S)
    OBVIOUS
  <2> QED BY <1>1, <2>1 DEF IsSeq
<1> HIDE DEF S
<1>3. /\ new \in Seq(S) /\ Len(new) = L + 1 /\ new[L + 1] = expr
      /\ \A i \in 1..L : new[i] = exprs[i]
  BY <1>2
<1>4. L + 1 <= Len(preds)
  <2>1. L \in Nat /\ Len(preds) \in Nat /\ L < Len(preds)
    BY <1>1
  <2> HIDE DEF L
  <2> QED BY <2>1
<1> HIDE DEF new
<1>5. ASSUME NEW i \in 1..Len(new) PROVE Proves(g, new[i], preds[i])
  <2>1. CASE i \in 1..L
    BY <2>1, <1>1, <1>3
  <2>2. CASE i = L + 1
    BY <2>2, <1>3 DEF L
  <2> QED BY <2>1, <2>2, <1>1, <1>3
<1>6. IsSeq(new)
  BY <1>3, SeqIsSeq
<1>7. AreAnswered(g, new, preds)
  BY <1>1, <1>3, <1>4, <1>5, <1>6 DEF AreAnswered
<1> QED BY <1>7 DEF new

\* An answer goes to the caller, or to the cache.
LEMMA AnswersOK ==
    ASSUME IInv, stack # <<>>, Top.fn = "resolve",
           NEW expr, Proves(program, expr, Top.target), Answers(expr)
    PROVE  IInv'
<1> DEFINE g == program
           f == stack[Len(stack) - 1]
           new == [f EXCEPT !.exprs = Append(@, expr)]
           rest == Front(stack)
<1>1. /\ program' = program /\ extending' = extending /\ candidates' = candidates
  BY DEF Answers
<1>2. AreCalls(g, stack) /\ Top = Last(stack) /\ AreAnswers(g, impl_exprs)
  BY DEF IInv, Top
<1>3. CASE Len(stack) = 1
  <2>1. stack' = <<>> /\ impl_exprs' = Put(impl_exprs, Top.target, expr)
    BY <1>3 DEF Answers
  <2>2. AreAnswers(g, impl_exprs')
    BY <1>2, <2>1 DEF AreAnswers, Put
  <2>3. AreCalls(g, stack')
    BY <2>1, EmptyIsSeq DEF AreCalls
  <2> QED BY <1>1, <2>2, <2>3 DEF IInv
<1>4. CASE Len(stack) # 1
  <2>1. stack' = Returning([Caller EXCEPT !.exprs = Append(@, expr)]) /\ impl_exprs' = impl_exprs
    BY <1>4 DEF Answers
  <2>2. IsCall(g, f) /\ IsCallee(g, f, Top)
    BY <1>2, <1>4, TopFacts
  <2>3. /\ AreCalls(g, rest) /\ rest # <<>> /\ Len(rest) = Len(stack) - 1 /\ Last(rest) = f
    BY <1>2, <1>4, Popped
  <2>4. stack' = [rest EXCEPT ![Len(rest)] = new]
    BY <2>1, <2>3 DEF Returning, Caller
  <2> HIDE DEF f, rest, g
  <2>5. /\ f.step = "nested" /\ Len(f.exprs) < Len(f.preds)
        /\ Top.target = f.preds[Len(f.exprs) + 1]
    BY <2>2 DEF IsCallee
  <2> DEFINE exprs == Append(f.exprs, expr)
  <2>6. new = [f EXCEPT !.exprs = exprs]
    OBVIOUS
  <2>7. AreAnswered(g, exprs, f.preds)
    <3>1. AreAnswered(g, f.exprs, f.preds) /\ Proves(g, expr, f.preds[Len(f.exprs) + 1])
      BY <2>2, <2>5 DEF IsCall, g
    <3> DEFINE a == f.exprs
               b == f.preds
    <3>2. AreAnswered(g, a, b) /\ Proves(g, expr, b[Len(a) + 1]) /\ Len(a) < Len(b)
      BY <3>1, <2>5
    <3> HIDE DEF a, b
    <3>3. AreAnswered(g, Append(a, expr), b)
      BY <3>2, OneMoreAnswer
    <3> QED BY <3>3 DEF a, b
  <2> HIDE DEF new, exprs
  <2>8. new = [fn |-> f.fn, target |-> f.target, step |-> f.step, found |-> f.found,
               preds |-> f.preds, exprs |-> exprs]
    BY <2>2, <2>6, FrameFacts DEF Frame
  <2>9. /\ new.fn = f.fn /\ new.target = f.target /\ new.step = f.step /\ new.found = f.found
        /\ new.preds = f.preds /\ new.exprs = exprs
    BY <2>8
  <2>10. Wanted(g, new) = Wanted(g, f) /\ Needed(g, new) = Needed(g, f)
    BY <2>9 DEF Wanted, Needed
  <2>11. IsCall(g, new)
    BY <2>2, <2>5, <2>7, <2>8, <2>9, <2>10 DEF IsCall
  <2>12. AreCalls(g, [rest EXCEPT ![Len(rest)] = new])
    BY <2>3, <2>9, <2>11, Replaced
  <2> QED BY <1>1, <2>1, <2>4, <2>12, OnlyStack DEF g
<1> QED BY <1>3, <1>4

LEMMA AnswerLocalOK == ASSUME IInv, AnswerLocal PROVE IInv'
<1> DEFINE f == Top
<1>1. /\ stack # <<>> /\ f.step = "found" /\ f.fn = "resolve"
      /\ Answers(LocalAnswer(f.target, f.found))
  BY DEF AnswerLocal, Running
<1>2. AreCalls(program, stack)
  BY DEF IInv
<1>3. IsCall(program, f)
  BY <1>1, <1>2, TopFacts DEF Top
<1>4. f.found # <<>> => IsHeld(program, f.found[1], EraseAndNorm(program, f.target))
  BY <1>1, <1>3 DEF IsCall, Wanted
<1> HIDE DEF f
<1>5. Proves(program, LocalAnswer(f.target, f.found), f.target)
  BY <1>4, LocalAnswerProves
<1> QED BY <1>1, <1>5, AnswersOK DEF f

LEMMA AnswerSourceOK == ASSUME IInv, AnswerSource PROVE IInv'
<1> DEFINE f == Top
           tref == f.target
           exprs == f.exprs
<1>1. /\ stack # <<>> /\ f.step = "nested" /\ f.fn = "resolve" /\ Len(exprs) = Len(f.preds)
      /\ Answers(SourceAnswer(tref, Source(program, tref), exprs))
  BY DEF AnswerSource, Running
<1>2. AreCalls(program, stack)
  BY DEF IInv
<1>3. IsCall(program, f)
  BY <1>1, <1>2, TopFacts DEF Top
<1>4. /\ f.preds = Required(program, Source(program, tref), EraseAndNorm(program, tref))
      /\ AreAnswered(program, exprs, f.preds)
  BY <1>1, <1>3 DEF IsCall, Needed
<1>5. /\ AreAnswered(program, exprs,
                     Required(program, Source(program, tref), EraseAndNorm(program, tref)))
      /\ Len(exprs) = Len(Required(program, Source(program, tref), EraseAndNorm(program, tref)))
  BY <1>1, <1>4
<1> HIDE DEF tref, exprs
<1>6. Proves(program, SourceAnswer(tref, Source(program, tref), exprs), tref)
  BY <1>5, SourceAnswerProves
<1> QED BY <1>1, <1>6, AnswersOK DEF tref, f

\* What does not change keeps the invariant.
LEMMA Unchanged == ASSUME IInv, UNCHANGED vars PROVE IInv'
BY DEF IInv, vars

LEMMA NextOK == ASSUME IInv, [Next]_vars PROVE IInv'
<1>1. CASE \E tref \in Queries : SolveTrait(tref)
  BY <1>1, SolveTraitOK
<1>2. CASE \E tref \in Queries : SolvedTrait(tref)
  BY <1>2, Unchanged DEF SolvedTrait
<1>3. CASE Extend
  BY <1>3, ExtendOK
<1>4. CASE Resolve
  BY <1>4, ResolveOK
<1>5. CASE ResolveNext
  BY <1>5, ResolveNextOK
<1>6. CASE AnswerLocal
  BY <1>6, AnswerLocalOK
<1>7. CASE AnswerSource
  BY <1>7, AnswerSourceOK
<1>8. CASE ResolveLocal
  BY <1>8, ResolveLocalOK
<1>9. CASE TraitFound
  BY <1>9, TraitFoundOK
<1>10. CASE AddBounds
  BY <1>10, AddBoundsOK
<1>11. CASE LookUpAgain
  BY <1>11, LookUpAgainOK
<1>12. CASE UNCHANGED vars
  BY <1>12, Unchanged
<1> QED BY <1>1, <1>2, <1>3, <1>4, <1>5, <1>6, <1>7, <1>8, <1>9, <1>10, <1>11, <1>12 DEF Next

LEMMA Invariance == Spec => []IInv
<1>1. Init => IInv
  BY InitOK
<1>2. IInv /\ [Next]_vars => IInv'
  BY NextOK
<1> QED BY <1>1, <1>2, PTL DEF Spec

-----------------------------------------------------------------------------
(* Theorems *)

\* Each call of resolve or resolve_local is at one of its steps and was made by the
\* one below it for what that one waits for; what it has collected answers the
\* first of the references it has to resolve, in order, although the calls above it
\* add candidates (resolution.rs, 306-341 and 357-512).
CallsAreOrdered == AreCalls(program, stack)
THEOREM TheCallsAreOrdered == Spec => []CallsAreOrdered
<1>1. IInv => CallsAreOrdered
  BY DEF IInv, CallsAreOrdered
<1> QED BY <1>1, Invariance, PTL

\* Every candidate and every answer is a proof, for any program, any references in
\* any order, and whatever rustc selects and normalises types to: the index names
\* the clause that the path starts at, and the path leads from there to the
\* predicate (resolution.rs, 118-290 and 357-512).
THEOREM TheAnswersAreProofs == Spec => []AnswersAreProofs
<1>1. ASSUME IInv PROVE AnswersAreProofs
  <2> DEFINE g == program
  <2>1. AreHeld(g, candidates) /\ AreCalls(g, stack) /\ AreAnswers(g, impl_exprs)
    BY <1>1 DEF IInv
  <2>2. ASSUME NEW p \in DOMAIN candidates
        PROVE  /\ IsNumbered(g, candidates[p].origin)
               /\ LeadsTo(g, candidates[p].origin.clause, candidates[p].path, p)
    <3> DEFINE c == candidates[p]
    <3>1. /\ IsNumbered(g, c.origin) /\ IsSeq(c.path)
          /\ \A n \in 1..Len(c.path) :
                Follows(g, After(g, c.origin.clause, c.path, n - 1), c.path[n])
          /\ After(g, c.origin.clause, c.path, Len(c.path)) = p
      BY <2>1 DEF AreHeld, IsHeld, IsCandidate, Goal
    <3>2. DOMAIN c.path = 1..Len(c.path)
      BY <3>1, SeqElements
    <3> HIDE DEF c, g
    <3>3. LeadsTo(g, c.origin.clause, c.path, p)
      BY <3>1, <3>2 DEF LeadsTo
    <3> QED BY <3>1, <3>3 DEF c
  <2>3. ASSUME NEW n \in DOMAIN stack, NEW i \in DOMAIN stack[n].exprs
        PROVE  Proves(g, stack[n].exprs[i], stack[n].preds[i])
    <3>1. n \in 1..Len(stack)
      BY <2>1, SeqElements DEF AreCalls
    <3> DEFINE f == stack[n]
    <3>2. IsSeq(f.exprs) /\ \A k \in 1..Len(f.exprs) : Proves(g, f.exprs[k], f.preds[k])
      BY <2>1, <3>1 DEF AreCalls, IsCall, AreAnswered
    <3>3. i \in 1..Len(f.exprs)
      BY <3>2, SeqElements
    <3> QED BY <3>2, <3>3
  <2>4. PathsAreProofs /\ IndexNamesClause
    BY <2>2 DEF PathsAreProofs, IndexNamesClause
  <2>5. AnswersProve
    BY <2>1, <2>3 DEF AnswersProve, AreAnswers
  <2> QED BY <2>4, <2>5 DEF AnswersAreProofs
<1>2. IInv => AnswersAreProofs
  BY <1>1
<1> QED BY <1>2, Invariance, PTL

-----------------------------------------------------------------------------
(* What rustc proves is found *)

\* The predicates that are candidates, or will be when extend has ended.
Coming(g, map, ext) == DOMAIN map \cup {EraseAndNorm(g, ext[i].pred) : i \in 1..Len(ext)}

\* What is implied by candidates is coming too.
IsComplete(g, map, ext) == \A q \in DOMAIN map : Implied(g, {q}) \subseteq Coming(g, map, ext)

Given(g, p) == IsSeq(p.self) /\ GivenByClauses(g, p)

\* A call has found what the clauses give, and knows the bounds of its type
\* when it looks again.
IsThorough(g, map, ext, f) ==
    /\ f.step = "found" /\ Given(g, Wanted(g, f)) => f.found # <<>>
    /\ f.fn = "resolve" /\ f.step = "nested" => Source(g, f.target).kind # "Param"
    /\ f.fn = "resolve_local" /\ f.step = "extended" => Bounds(g, f.target.self) \subseteq Coming(g, map, ext)
AreThorough(g, map, ext, st) ==
    /\ \A n \in 1..Len(st) : IsThorough(g, map, ext, st[n])
    /\ st # <<>> => st[1].target \in Queries

Named == {"LocalBound", "SelfImpl"}
\* The clauses in scope and what candidates imply are coming; a call that ended
\* without a candidate had none to find.
PInv == /\ IInv
        /\ predicate_searcher # "none" => Environment(program) \subseteq Coming(program, candidates, extending)
        /\ stack # <<>> => predicate_searcher # "none"
        /\ stack = <<>> => extending = <<>>
        /\ IsComplete(program, candidates, extending)
        /\ AreThorough(program, candidates, extending, stack)
        /\ \A q \in DOMAIN impl_exprs :
              impl_exprs[q].kind \notin Named => Source(program, q).kind # "Param"

LEMMA ImpliedInside ==
    ASSUME NEW g, NEW S, NEW T, \A q \in S : Implied(g, {q}) \subseteq T
    PROVE  Implied(g, S) \subseteq T
<1>1. Implied(g, S) = UNION {Implied(g, {q}) : q \in S}
  BY DEF Implied
<1> QED BY <1>1

\* What is closed holds what is elaborated from a part of it.
LEMMA ElaboratedFacts ==
    ASSUME NEW g, NEW S, NEW T, S \subseteq T, \A q \in T : Implied(g, {q}) \subseteq T
    PROVE  Elaborated(g, S) \subseteq T
<1> DEFINE N == Cardinality(Items)
           next == [before \in SUBSET T |-> before \cup Implied(g, before)]
           L(f) == [n \in 0..N |-> IF n = 0 THEN S ELSE f[n - 1] \cup Implied(g, f[n - 1])]
           chosen == CHOOSE f : f = L(f)
<1>1. N \in Nat
  BY ParamAssumption, FS_CardinalityType
<1> HIDE DEF N
<1>2. next \in [SUBSET T -> SUBSET T]
  <2> SUFFICES ASSUME NEW before \in SUBSET T PROVE Implied(g, before) \subseteq T
    OBVIOUS
  <2>1. \A q \in before : Implied(g, {q}) \subseteq T
    OBVIOUS
  <2> QED BY <2>1, ImpliedInside
<1> DEFINE P == SUBSET T
<1>3. PICK f : IsIteration(f, P, S, N, next)
  <2>1. S \in P /\ next \in [P -> P]
    BY <1>2
  <2> HIDE DEF next, L, chosen, P
  <2> QED BY <1>1, <2>1, IterationExists
<1> f \in [0..N -> P] /\ f[0] = S /\ \A n \in 1..N : f[n] = next[f[n - 1]]
  BY <1>3 DEF IsIteration
<1>4. f = L(f)
  <2>1. ASSUME NEW n \in 0..N PROVE f[n] = L(f)[n]
    <3>1. CASE n = 0
      BY <1>3, <3>1
    <3>2. CASE n # 0
      <4>1. n \in 1..N /\ n - 1 \in 0..N /\ f[n - 1] \in SUBSET T
        BY <1>1, <3>2
      <4> QED BY <1>3, <3>2, <4>1
    <3> QED BY <3>1, <3>2
  <2> QED BY <2>1
<1>5. chosen = L(chosen)
  <2> HIDE DEF L
  <2> QED BY <1>4
<1> HIDE DEF chosen
<1> DEFINE Inside == {n \in 0..N : chosen[n] \subseteq T}
<1>6. 0..N \subseteq Inside
  <2>1. 0 \in Inside
    BY <1>1, <1>5
  <2>2. ASSUME NEW n \in 0..(N - 1), n \in Inside PROVE n + 1 \in Inside
    <3>1. n + 1 \in 0..N /\ n + 1 # 0 /\ (n + 1) - 1 = n
      BY <1>1
    <3>2. chosen[n + 1] = chosen[n] \cup Implied(g, chosen[n])
      BY <1>5, <3>1
    <3>3. Implied(g, chosen[n]) \subseteq T
      <4>1. \A q \in chosen[n] : Implied(g, {q}) \subseteq T
        BY <2>2
      <4> QED BY <4>1, ImpliedInside
    <3> QED BY <2>2, <3>1, <3>2, <3>3
  <2> HIDE DEF Inside
  <2> QED BY <1>1, <2>1, <2>2, IntervalInduction
<1>7. Elaborated(g, S) = chosen[N]
  BY DEF Elaborated, chosen, N
<1>8. N \in 0..N
  BY <1>1
<1> QED BY <1>6, <1>7, <1>8

\* Given by the clauses: implied by them, or by the bounds of an associated type
\* whose trait is given.
LEMMA GivenFacts ==
    ASSUME NEW g, NEW p, Given(g, p)
    PROVE  \/ p \in Elaborated(g, Environment(g))
           \/ /\ IsProjection(p.self) /\ Given(g, TraitOf(p.self))
              /\ p \in Elaborated(g, Bounds(g, p.self))
<1> DEFINE s == p.self
           L == Len(s)
           q == TraitOf(s)
<1>1. /\ L \in Nat /\ s \in Seq(Range(s))
  BY SeqElements DEF Given, IsSeq
<1>2. PICK k \in 1..L :
        /\ Holder(p, k) \in Elaborated(g, Environment(g))
        /\ \A n \in (k + 1)..L : /\ IsProjection(SubSeq(s, 1, n))
                                 /\ Holder(p, n) \in Elaborated(g, Bounds(g, SubSeq(s, 1, n)))
  BY DEF Given, GivenByClauses
<1>3. Holder(p, L) = p /\ SubSeq(s, 1, L) = s
  <2>1. SubSeq(s, 1, L) = [i \in 1..L |-> s[i]]
    BY <1>1
  <2>2. s = [i \in 1..L |-> s[i]]
    BY <1>1
  <2> QED BY <2>1, <2>2 DEF Holder
<1>4. CASE k = L
  BY <1>2, <1>3, <1>4
<1>5. CASE k # L
  <2>1. k + 1 \in (k + 1)..L /\ L \in (k + 1)..L /\ L - 1 \in Nat /\ k \in 1..(L - 1)
    BY <1>1, <1>5
  <2>2. IsProjection(s) /\ p \in Elaborated(g, Bounds(g, s))
    BY <1>2, <1>3, <2>1
  <2>3. q.self = SubSeq(s, 1, L - 1)
    BY DEF TraitOf, TraitClause, Front
  <2> DEFINE t == q.self
  <2>4. /\ t \in Seq(Range(s)) /\ Len(t) = L - 1 /\ \A i \in 1..(L - 1) : t[i] = s[i]
    BY <1>1, <2>1, <2>3
  <2>5. IsSeq(t)
    BY <2>4, SeqIsSeq
  <2>6. ASSUME NEW n \in 1..(L - 1) PROVE SubSeq(t, 1, n) = SubSeq(s, 1, n)
    <3>1. SubSeq(t, 1, n) = [i \in 1..n |-> t[i]]
      BY <2>4
    <3>2. SubSeq(s, 1, n) = [i \in 1..n |-> s[i]]
      BY <1>1
    <3> HIDE DEF t, s, L, q
    <3>3. \A i \in 1..n : i \in 1..(L - 1)
      BY <1>1
    <3> QED BY <3>1, <3>2, <3>3, <2>4
  <2>7. ASSUME NEW n \in 1..(L - 1) PROVE Holder(q, n) = Holder(p, n)
    <3>1. n # L
      BY <1>1
    <3>2. CASE n = L - 1
      <4>1. Holder(q, n) = q
        BY <2>4, <3>2 DEF Holder
      <4>2. Holder(p, n) = TraitOf(SubSeq(s, 1, L))
        BY <1>1, <3>1, <3>2 DEF Holder
      <4> QED BY <1>3, <4>1, <4>2
    <3>3. CASE n # L - 1
      <4>1. Holder(q, n) = TraitOf(SubSeq(t, 1, n + 1))
        BY <2>4, <3>3 DEF Holder
      <4>2. Holder(p, n) = TraitOf(SubSeq(s, 1, n + 1))
        BY <3>1 DEF Holder
      <4>3. n + 1 \in 1..(L - 1)
        BY <1>1, <3>3
      <4> HIDE DEF t, s, L, q
      <4> QED BY <4>1, <4>2, <4>3, <2>6
    <3> QED BY <3>2, <3>3
  <2> HIDE DEF t
  <2>8. Holder(q, k) \in Elaborated(g, Environment(g))
    BY <1>2, <2>1, <2>7
  <2>9. ASSUME NEW n \in (k + 1)..(L - 1)
        PROVE  /\ IsProjection(SubSeq(t, 1, n)) /\ Holder(q, n) \in Elaborated(g, Bounds(g, SubSeq(t, 1, n)))
    <3>1. n \in (k + 1)..L /\ n \in 1..(L - 1)
      BY <1>1, <2>1
    <3> HIDE DEF t, s, L, q
    <3> QED BY <1>2, <2>6, <2>7, <3>1
  <2>10. GivenByClauses(g, q)
    <3>1. \E i \in 1..Len(t) : /\ Holder(q, i) \in Elaborated(g, Environment(g))
                               /\ \A n \in (i + 1)..Len(t) :
                                     /\ IsProjection(SubSeq(t, 1, n))
                                     /\ Holder(q, n) \in Elaborated(g, Bounds(g, SubSeq(t, 1, n)))
      <4> HIDE DEF s, L, q
      <4> QED BY <2>1, <2>4, <2>8, <2>9
    <3> QED BY <3>1 DEF GivenByClauses, t
  <2>11. Given(g, q)
    BY <2>5, <2>10 DEF Given, t
  <2> QED BY <2>2, <2>11
<1> QED BY <1>4, <1>5

\* When extend has ended, what the clauses give is a candidate, if the bounds of
\* the type it is about are.
LEMMA GivenIsFound ==
    ASSUME NEW g, NEW map, NEW p, IsComplete(g, map, <<>>), Environment(g) \subseteq Coming(g, map, <<>>),
           Given(g, p)
    PROVE  \/ p \in DOMAIN map
           \/ /\ IsProjection(p.self) /\ Given(g, TraitOf(p.self))
              /\ Bounds(g, p.self) \subseteq Coming(g, map, <<>>) => p \in DOMAIN map
<1>1. Coming(g, map, <<>>) = DOMAIN map
  <2>1. Len(<<>>) = 0
    BY EmptyIsSeq
  <2> QED BY <2>1 DEF Coming
<1>2. \A q \in DOMAIN map : Implied(g, {q}) \subseteq DOMAIN map
  BY <1>1 DEF IsComplete
<1> DEFINE T == DOMAIN map
<1> HIDE DEF T
<1>3. \A S : S \subseteq T => Elaborated(g, S) \subseteq T
  BY <1>2, ElaboratedFacts DEF T
<1> QED BY <1>1, <1>3, GivenFacts DEF T

\* Nothing that is coming is lost.
LEMMA ThoroughKept ==
    ASSUME NEW g, NEW map, NEW ext, NEW map2, NEW ext2, NEW f, IsThorough(g, map, ext, f),
           Coming(g, map, ext) \subseteq Coming(g, map2, ext2)
    PROVE  IsThorough(g, map2, ext2, f)
BY DEF IsThorough

LEMMA AreThoroughKept ==
    ASSUME NEW g, NEW map, NEW ext, NEW map2, NEW ext2, NEW st, AreThorough(g, map, ext, st),
           Coming(g, map, ext) \subseteq Coming(g, map2, ext2)
    PROVE  AreThorough(g, map2, ext2, st)
BY ThoroughKept DEF AreThorough

\* The call on top goes on, calls another one, or is gone.
LEMMA ThoroughReplaced ==
    ASSUME NEW g, NEW map, NEW ext, NEW st, AreCalls(g, st), st # <<>>, AreThorough(g, map, ext, st),
           NEW f, IsThorough(g, map, ext, f), f.target = Last(st).target
    PROVE  AreThorough(g, map, ext, [st EXCEPT ![Len(st)] = f])
<1> DEFINE L == Len(st)
           new == [st EXCEPT ![L] = f]
<1>1. /\ L \in Nat /\ L >= 1 /\ DOMAIN st = 1..L /\ Last(st) = st[L]
      /\ \A n \in 1..L : IsThorough(g, map, ext, st[n])
      /\ st[1].target \in Queries
  BY TopFacts DEF AreThorough
<1>2. new = [n \in 1..L |-> IF n = L THEN f ELSE st[n]]
  BY <1>1
<1> HIDE DEF new, L
<1>3. Len(new) = L
  BY <1>1, <1>2, FunctionIsSeq
<1>4. new[L] = f /\ \A n \in 1..L : n # L => new[n] = st[n]
  BY <1>1, <1>2
<1>5. \A n \in 1..L : IsThorough(g, map, ext, new[n])
  BY <1>1, <1>4
<1>6. new[1].target \in Queries
  BY <1>1, <1>4
<1> QED BY <1>3, <1>5, <1>6 DEF AreThorough, new, L

LEMMA ThoroughPushed ==
    ASSUME NEW g, NEW map, NEW ext, NEW st, AreCalls(g, st), st # <<>>, AreThorough(g, map, ext, st),
           NEW h, IsThorough(g, map, ext, h)
    PROVE  AreThorough(g, map, ext, Append(st, h))
<1> DEFINE L == Len(st)
           new == Append(st, h)
           S == Range(st) \cup {h}
<1>1. /\ L \in Nat /\ L >= 1 /\ IsSeq(st) /\ st[1].target \in Queries
      /\ \A n \in 1..L : IsThorough(g, map, ext, st[n])
  BY TopFacts DEF AreCalls, AreThorough
<1>2. st \in Seq(S)
  <2>1. Seq(Range(st)) \subseteq Seq(S)
    OBVIOUS
  <2> QED BY <1>1, <2>1 DEF IsSeq
<1> HIDE DEF S
<1>3. /\ Len(new) = L + 1 /\ new[L + 1] = h /\ \A n \in 1..L : new[n] = st[n]
  <2>1. h \in S
    BY DEF S
  <2> QED BY <1>2, <2>1
<1> HIDE DEF new, L
<1>4. \A n \in 1..Len(new) : IsThorough(g, map, ext, new[n])
  BY <1>1, <1>3
<1>5. new[1].target \in Queries
  BY <1>1, <1>3
<1> QED BY <1>4, <1>5 DEF AreThorough, new

LEMMA ThoroughPopped ==
    ASSUME NEW g, NEW map, NEW ext, NEW st, AreCalls(g, st), st # <<>>, Len(st) # 1,
           AreThorough(g, map, ext, st)
    PROVE  /\ AreThorough(g, map, ext, Front(st)) /\ IsThorough(g, map, ext, st[Len(st) - 1])
           /\ IsThorough(g, map, ext, Last(st))
<1> DEFINE L == Len(st)
           new == Front(st)
<1>1. /\ L \in Nat /\ L >= 1 /\ L # 1 /\ IsSeq(st) /\ st[1].target \in Queries /\ Last(st) = st[L]
      /\ \A n \in 1..L : IsThorough(g, map, ext, st[n])
  BY TopFacts DEF AreCalls, AreThorough
<1>2. new = [n \in 1..(L - 1) |-> st[n]]
  <2> DEFINE S == Range(st)
  <2>1. st \in Seq(S)
    BY <1>1 DEF IsSeq
  <2> HIDE DEF S
  <2>2. new = SubSeq(st, 1, L - 1)
    BY DEF Front
  <2>3. SubSeq(st, 1, L - 1) = [n \in 1..(L - 1) |-> st[n]]
    BY <2>1, <1>1
  <2> QED BY <2>2, <2>3
<1>3. Len(new) = L - 1
  BY Popped
<1> HIDE DEF new, L
<1>4. L - 1 \in 1..L /\ L \in 1..L /\ 1 \in 1..(L - 1)
  BY <1>1
<1>5. \A n \in 1..(L - 1) : new[n] = st[n] /\ n \in 1..L
  BY <1>1, <1>2
<1>6. \A n \in 1..Len(new) : IsThorough(g, map, ext, new[n])
  BY <1>1, <1>3, <1>5
<1>7. new[1].target \in Queries
  BY <1>1, <1>4, <1>5
<1> QED BY <1>1, <1>4, <1>6, <1>7 DEF AreThorough, new, L

\* What a step that only changes the stack has to show.
LEMMA OnlyStackThorough ==
    ASSUME PInv, IInv', stack # <<>>, extending = <<>>, extending' = extending, program' = program,
           candidates' = candidates, predicate_searcher' = predicate_searcher, impl_exprs' = impl_exprs,
           AreThorough(program, candidates, extending, stack')
    PROVE  PInv'
BY DEF PInv

LEMMA TopThorough ==
    ASSUME PInv, stack # <<>>
    PROVE  /\ AreCalls(program, stack) /\ Top = Last(stack) /\ IsCall(program, Top)
           /\ IsThorough(program, candidates, extending, Top)
           /\ predicate_searcher # "none" /\ IsComplete(program, candidates, extending)
           /\ Environment(program) \subseteq Coming(program, candidates, extending)
<1>1. AreCalls(program, stack) /\ Top = Last(stack) /\ AreThorough(program, candidates, extending, stack)
  BY DEF PInv, IInv, Top
<1>2. /\ Len(stack) \in Nat /\ Len(stack) >= 1 /\ Last(stack) = stack[Len(stack)] /\ IsCall(program, Last(stack))
  BY <1>1, TopFacts
<1>3. IsThorough(program, candidates, extending, Top)
  BY <1>1, <1>2 DEF AreThorough
<1> QED BY <1>1, <1>2, <1>3 DEF PInv

\* What is a candidate is looked up.
LEMMA LookupFacts == \A p : Lookup(p) = <<>> <=> p \notin DOMAIN candidates
<1>1. \A x : <<x>> # <<>>
  BY OneIsSeq, LenNotEmpty
<1> QED BY <1>1 DEF Lookup

LEMMA ReturningFoundThorough ==
    ASSUME PInv, stack # <<>>, Top.fn = "resolve_local",
           NEW found, Given(program, Top.target) => found # <<>>
    PROVE  AreThorough(program, candidates, extending, ReturningFound(found))
<1> DEFINE g == program
           f == stack[Len(stack) - 1]
           new == WithFound(f, found)
           rest == Front(stack)
<1>1. AreCalls(g, stack) /\ AreThorough(g, candidates, extending, stack)
  BY DEF PInv, IInv
<1>2. Top = Last(stack) /\ Caller = f
  BY DEF Top, Caller
<1>3. Len(stack) # 1
  BY <1>1, <1>2, TopFacts
<1>4. IsCall(g, f) /\ IsCallee(g, f, Top)
  BY <1>1, <1>2, <1>3, TopFacts
<1>5. /\ AreCalls(g, rest) /\ rest # <<>> /\ Len(rest) = Len(stack) - 1 /\ Last(rest) = f
  BY <1>1, <1>3, Popped
<1>6. AreThorough(g, candidates, extending, rest)
  BY <1>1, <1>3, ThoroughPopped
<1>7. ReturningFound(found) = [rest EXCEPT ![Len(rest)] = new]
  BY <1>2, <1>5 DEF ReturningFound, Returning
<1> HIDE DEF f, rest, g
<1>8. Top.target = Wanted(g, f)
  BY <1>4 DEF IsCallee
<1>9. new = Frame(f, "found", found, f.preds, f.exprs)
  BY <1>4, FrameFacts
<1> HIDE DEF new
<1>10. new.fn = f.fn /\ new.target = f.target /\ new.step = "found" /\ new.found = found
  BY <1>9 DEF Frame
<1>11. Wanted(g, new) = Top.target
  BY <1>8, <1>10 DEF Wanted
<1>12. IsThorough(g, candidates, extending, new)
  BY <1>10, <1>11 DEF IsThorough, g
<1>13. AreThorough(g, candidates, extending, [rest EXCEPT ![Len(rest)] = new])
  BY <1>5, <1>6, <1>10, <1>12, ThoroughReplaced
<1> QED BY <1>7, <1>13 DEF g

LEMMA CallFacts ==
    ASSUME NEW fn, NEW target
    PROVE  /\ Call(fn, target).step = "start" /\ Call(fn, target).fn = fn /\ Call(fn, target).target = target
           /\ \A g, map, ext : IsThorough(g, map, ext, Call(fn, target))
BY DEF Call, IsThorough

\* The call on top goes on, or waits for another.
LEMMA GoingThorough ==
    ASSUME PInv, stack # <<>>, NEW f, IsThorough(program, candidates, extending, f), f.target = Top.target
    PROVE  AreThorough(program, candidates, extending, Going(f))
BY TopThorough, ThoroughReplaced DEF Going, PInv

LEMMA CallingThorough ==
    ASSUME PInv, stack # <<>>, NEW f, IsCall(program, f), f.fn = Top.fn, f.target = Top.target,
           IsThorough(program, candidates, extending, f),
           NEW fn, NEW target
    PROVE  AreThorough(program, candidates, extending, Calling(f, Call(fn, target)))
<1> DEFINE st == [stack EXCEPT ![Len(stack)] = f]
           h == Call(fn, target)
<1>1. AreCalls(program, st) /\ st # <<>>
  BY TopThorough, Replaced
<1>2. AreThorough(program, candidates, extending, st)
  BY GoingThorough DEF Going
<1>3. IsThorough(program, candidates, extending, h)
  BY CallFacts
<1> HIDE DEF st, h
<1>4. AreThorough(program, candidates, extending, Append(st, h))
  BY <1>1, <1>2, <1>3, ThoroughPushed
<1> QED BY <1>4 DEF Calling, Going, st, h

LEMMA ResolveLocalThorough == ASSUME PInv, IInv', ResolveLocal PROVE PInv'
<1> DEFINE f == Top
           t == f.target
<1>1. /\ program' = program /\ extending' = extending /\ candidates' = candidates
      /\ impl_exprs' = impl_exprs /\ predicate_searcher' = predicate_searcher
      /\ extending = <<>> /\ stack # <<>> /\ f.step = "start" /\ f.fn = "resolve_local"
  BY DEF ResolveLocal, Running
<1>2. /\ IsCall(program, f) /\ IsComplete(program, candidates, extending)
      /\ Environment(program) \subseteq Coming(program, candidates, extending)
  BY <1>1, TopThorough
<1>3. AreThorough(program, candidates, extending, stack')
  <2>1. CASE IsMissing(t)
    <3> DEFINE new == Waiting(f)
               target == TraitOf(t.self)
    <3>1. stack' = Calling(new, Call("resolve_local", target))
      BY <2>1 DEF ResolveLocal
    <3>2. IsProjection(t.self)
      BY <2>1 DEF IsMissing
    <3>3. new = Frame(f, "local", f.found, f.preds, f.exprs)
      BY <1>2, FrameFacts
    <3> HIDE DEF new, target, f
    <3>4. /\ new.fn = f.fn /\ new.target = f.target /\ new.step = "local" /\ new.found = f.found
          /\ new.preds = f.preds /\ new.exprs = f.exprs
      BY <3>3 DEF Frame
    <3>5. IsCall(program, new)
      <4>1. /\ f.fn \in {"resolve", "resolve_local"} /\ f.target.trait \in Items
            /\ AreAnswered(program, f.exprs, f.preds) /\ f.exprs = <<>>
        BY <1>1, <1>2 DEF IsCall
      <4> QED BY <3>2, <3>3, <3>4, <4>1 DEF IsCall, Frame
    <3>6. IsThorough(program, candidates, extending, new)
      BY <3>4 DEF IsThorough
    <3>7. AreThorough(program, candidates, extending, Calling(new, Call("resolve_local", target)))
      BY <1>1, <3>4, <3>5, <3>6, CallingThorough DEF f
    <3> QED BY <3>1, <3>7
  <2>2. CASE ~IsMissing(t)
    <3>1. stack' = ReturningFound(Lookup(t))
      BY <2>2 DEF ResolveLocal
    <3>2. Given(program, t) => Lookup(t) # <<>>
      <4> HIDE DEF f, t
      <4>1. Lookup(t) = <<>> => ~ IsProjection(t.self)
        BY <2>2 DEF IsMissing
      <4>2. Given(program, t) /\ ~ IsProjection(t.self) => t \in DOMAIN candidates
        BY <1>1, <1>2, GivenIsFound
      <4> QED BY <4>1, <4>2, LookupFacts
    <3> HIDE DEF t
    <3>3. AreThorough(program, candidates, extending, ReturningFound(Lookup(t)))
      BY <1>1, <3>2, ReturningFoundThorough DEF t
    <3> QED BY <3>1, <3>3
  <2> QED BY <2>1, <2>2
<1> QED BY <1>1, <1>3, OnlyStackThorough

LEMMA TraitFoundThorough == ASSUME PInv, IInv', TraitFound PROVE PInv'
<1> DEFINE f == Top
           t == f.target
<1>1. /\ program' = program /\ extending' = extending /\ candidates' = candidates
      /\ impl_exprs' = impl_exprs /\ predicate_searcher' = predicate_searcher
      /\ extending = <<>> /\ stack # <<>> /\ f.step = "found" /\ f.fn = "resolve_local"
  BY DEF TraitFound, Running
<1>2. /\ IsCall(program, f) /\ IsComplete(program, candidates, extending)
      /\ Environment(program) \subseteq Coming(program, candidates, extending)
      /\ IsThorough(program, candidates, extending, f)
  BY <1>1, TopThorough
<1>3. AreThorough(program, candidates, extending, stack')
  <2>1. CASE f.found = <<>>
    <3>1. stack' = ReturningFound(Lookup(t))
      BY <2>1 DEF TraitFound
    <3>2. ~ Given(program, TraitOf(t.self))
      BY <1>1, <1>2, <2>1 DEF IsThorough, Wanted
    <3>3. Given(program, t) => Lookup(t) # <<>>
      <4> HIDE DEF f, t
      <4>1. Given(program, t) => t \in DOMAIN candidates
        BY <1>1, <1>2, <3>2, GivenIsFound
      <4> QED BY <4>1, LookupFacts
    <3> HIDE DEF t
    <3>4. AreThorough(program, candidates, extending, ReturningFound(Lookup(t)))
      BY <1>1, <3>3, ReturningFoundThorough DEF t
    <3> QED BY <3>1, <3>4
  <2>2. CASE f.found # <<>>
    <3> DEFINE preds == RequiredByType(program, t.self)
               new == WithPreds(f, preds)
    <3>1. stack' = Going(new)
      BY <2>2 DEF TraitFound
    <3>2. new = Frame(f, "nested", f.found, preds, f.exprs)
      BY <1>2, FrameFacts
    <3> HIDE DEF new, preds, f
    <3>3. new.fn = f.fn /\ new.target = f.target /\ new.step = "nested"
      BY <3>2 DEF Frame
    <3>4. IsThorough(program, candidates, extending, new)
      BY <1>1, <3>3 DEF IsThorough
    <3> QED BY <1>1, <3>1, <3>3, <3>4, GoingThorough DEF f
  <2> QED BY <2>1, <2>2
<1> QED BY <1>1, <1>3, OnlyStackThorough

LEMMA LookUpAgainThorough == ASSUME PInv, IInv', LookUpAgain PROVE PInv'
<1> DEFINE f == Top
           t == f.target
<1>1. /\ program' = program /\ extending' = extending /\ candidates' = candidates
      /\ impl_exprs' = impl_exprs /\ predicate_searcher' = predicate_searcher
      /\ extending = <<>> /\ stack # <<>> /\ f.step = "extended" /\ f.fn = "resolve_local"
      /\ stack' = ReturningFound(Lookup(t))
  BY DEF LookUpAgain, Running
<1>2. /\ IsComplete(program, candidates, extending)
      /\ Environment(program) \subseteq Coming(program, candidates, extending)
      /\ IsThorough(program, candidates, extending, f)
  BY <1>1, TopThorough
<1>3. Given(program, t) => Lookup(t) # <<>>
  <2>1. Bounds(program, t.self) \subseteq Coming(program, candidates, extending)
    BY <1>1, <1>2 DEF IsThorough
  <2> HIDE DEF f, t
  <2>2. Given(program, t) => t \in DOMAIN candidates
    BY <1>1, <1>2, <2>1, GivenIsFound
  <2> QED BY <2>2, LookupFacts
<1> HIDE DEF t
<1>4. AreThorough(program, candidates, extending, ReturningFound(Lookup(t)))
  BY <1>1, <1>3, ReturningFoundThorough DEF t
<1> QED BY <1>1, <1>4, OnlyStackThorough

LEMMA ResolveThorough == ASSUME PInv, IInv', Resolve PROVE PInv'
<1> DEFINE f == Top
           p == EraseAndNorm(program, f.target)
           source == Source(program, f.target)
           preds == Required(program, source, p)
           waiting == Waiting(f)
           nested == WithPreds(f, preds)
<1>1. /\ program' = program /\ extending' = extending /\ candidates' = candidates
      /\ impl_exprs' = impl_exprs /\ predicate_searcher' = predicate_searcher
      /\ extending = <<>> /\ stack # <<>> /\ f.step = "start" /\ f.fn = "resolve"
      /\ stack' = IF source.kind = "Param" THEN Calling(waiting, Call("resolve_local", p)) ELSE Going(nested)
  BY DEF Resolve, Running
<1>2. IsCall(program, f)
  BY <1>1, TopThorough
<1>3. AreThorough(program, candidates, extending, stack')
  <2>1. CASE source.kind = "Param"
    <3>1. waiting = Frame(f, "local", f.found, f.preds, f.exprs)
      BY <1>2, FrameFacts
    <3>2. stack' = Calling(waiting, Call("resolve_local", p))
      BY <1>1, <2>1
    <3> HIDE DEF waiting, f, p
    <3>3. /\ waiting.fn = f.fn /\ waiting.target = f.target /\ waiting.step = "local" /\ waiting.found = f.found
          /\ waiting.preds = f.preds /\ waiting.exprs = f.exprs
      BY <3>1 DEF Frame
    <3>4. IsCall(program, waiting)
      <4>1. /\ f.target.trait \in Items /\ AreAnswered(program, f.exprs, f.preds) /\ f.exprs = <<>>
        BY <1>1, <1>2 DEF IsCall
      <4> QED BY <1>1, <3>1, <3>3, <4>1 DEF IsCall, Frame
    <3>5. IsThorough(program, candidates, extending, waiting)
      BY <3>3 DEF IsThorough
    <3> QED BY <1>1, <3>2, <3>3, <3>4, <3>5, CallingThorough DEF f
  <2>2. CASE source.kind # "Param"
    <3>1. nested = Frame(f, "nested", f.found, preds, f.exprs)
      BY <1>2, FrameFacts
    <3>2. stack' = Going(nested)
      BY <1>1, <2>2
    <3> HIDE DEF nested, f, preds
    <3>3. nested.fn = f.fn /\ nested.target = f.target /\ nested.step = "nested"
      BY <3>1 DEF Frame
    <3>4. IsThorough(program, candidates, extending, nested)
      BY <1>1, <2>2, <3>3 DEF IsThorough
    <3> QED BY <1>1, <3>2, <3>3, <3>4, GoingThorough DEF f
  <2> QED BY <2>1, <2>2
<1> QED BY <1>1, <1>3, OnlyStackThorough

LEMMA ResolveNextThorough == ASSUME PInv, IInv', ResolveNext PROVE PInv'
<1> DEFINE h == Call("resolve", Top.preds[Len(Top.exprs) + 1])
<1>1. /\ program' = program /\ extending' = extending /\ candidates' = candidates
      /\ impl_exprs' = impl_exprs /\ predicate_searcher' = predicate_searcher
      /\ extending = <<>> /\ stack # <<>> /\ stack' = Append(stack, h)
  BY DEF ResolveNext, Running
<1>2. IsThorough(program, candidates, extending, h)
  BY CallFacts
<1> HIDE DEF h
<1>3. AreThorough(program, candidates, extending, stack')
  BY <1>1, <1>2, TopThorough, ThoroughPushed DEF PInv
<1> QED BY <1>1, <1>3, OnlyStackThorough

\* The answer to a reference rustc finds in the clauses names one of them.
LEMMA AnswersThorough ==
    ASSUME PInv, IInv', stack # <<>>, extending = <<>>, NEW expr, Answers(expr),
           Top.target \in Queries /\ expr.kind \notin Named => Source(program, Top.target).kind # "Param"
    PROVE  PInv'
<1> DEFINE g == program
           f == stack[Len(stack) - 1]
           new == [f EXCEPT !.exprs = Append(@, expr)]
           rest == Front(stack)
<1>1. /\ program' = program /\ extending' = extending /\ candidates' = candidates
      /\ predicate_searcher' = predicate_searcher
  BY DEF Answers
<1>2. AreCalls(g, stack) /\ Top = Last(stack) /\ AreThorough(g, candidates, extending, stack)
  BY DEF PInv, IInv, Top
<1>3. CASE Len(stack) = 1
  <2>1. stack' = <<>> /\ impl_exprs' = Put(impl_exprs, Top.target, expr)
    BY <1>3 DEF Answers
  <2>2. Top.target \in Queries
    <3>1. Last(stack) = stack[Len(stack)]
      BY <1>2, TopFacts
    <3> QED BY <1>2, <1>3, <3>1 DEF AreThorough
  <2>3. \A q \in DOMAIN impl_exprs' :
           impl_exprs'[q].kind \notin Named => Source(g, q).kind # "Param"
    BY <2>1, <2>2 DEF PInv, Put
  <2>4. AreThorough(g, candidates, extending, stack')
    BY <2>1, EmptyIsSeq DEF AreThorough
  <2> QED BY <1>1, <2>1, <2>3, <2>4 DEF PInv
<1>4. CASE Len(stack) # 1
  <2>1. stack' = Returning([Caller EXCEPT !.exprs = Append(@, expr)]) /\ impl_exprs' = impl_exprs
    BY <1>4 DEF Answers
  <2>2. IsCall(g, f)
    BY <1>2, <1>4, TopFacts
  <2>3. /\ AreCalls(g, rest) /\ rest # <<>> /\ Len(rest) = Len(stack) - 1 /\ Last(rest) = f
    BY <1>2, <1>4, Popped
  <2>4. AreThorough(g, candidates, extending, rest) /\ IsThorough(g, candidates, extending, f)
    BY <1>2, <1>4, ThoroughPopped
  <2>5. stack' = [rest EXCEPT ![Len(rest)] = new]
    BY <2>1, <2>3 DEF Returning, Caller
  <2> DEFINE exprs == Append(f.exprs, expr)
  <2>6. new = [f EXCEPT !.exprs = exprs]
    OBVIOUS
  <2> HIDE DEF f, rest, new, exprs
  <2>7. new = [fn |-> f.fn, target |-> f.target, step |-> f.step, found |-> f.found,
               preds |-> f.preds, exprs |-> exprs]
    BY <2>2, <2>6, FrameFacts DEF Frame
  <2>8. /\ new.fn = f.fn /\ new.target = f.target /\ new.step = f.step /\ new.found = f.found
    BY <2>7
  <2>9. IsThorough(g, candidates, extending, new)
    BY <2>4, <2>8 DEF IsThorough, Wanted
  <2>10. AreThorough(g, candidates, extending, [rest EXCEPT ![Len(rest)] = new])
    BY <2>3, <2>4, <2>8, <2>9, ThoroughReplaced
  <2> QED BY <1>1, <2>1, <2>5, <2>10, OnlyStackThorough
<1> QED BY <1>3, <1>4

LEMMA AnswerLocalThorough == ASSUME PInv, IInv', AnswerLocal PROVE PInv'
<1> DEFINE f == Top
           expr == LocalAnswer(f.target, f.found)
<1>1. /\ extending = <<>> /\ stack # <<>> /\ f.step = "found" /\ f.fn = "resolve" /\ Answers(expr)
  BY DEF AnswerLocal, Running
<1>2. IsThorough(program, candidates, extending, f)
  BY <1>1, TopThorough
<1>3. expr.kind \notin Named => f.found = <<>>
  BY DEF LocalAnswer, ImplExpr, Named
<1>4. f.found = <<>> => ~ Given(program, EraseAndNorm(program, f.target))
  BY <1>1, <1>2 DEF IsThorough, Wanted
<1>5. f.target \in Queries /\ Source(program, f.target).kind = "Param" =>
         Given(program, EraseAndNorm(program, f.target))
  <2>1. program \in Programs
    BY DEF PInv, IInv
  <2> HIDE DEF f
  <2> QED BY <2>1, ParamAssumption DEF Given, IsSeq
<1> HIDE DEF expr
<1> QED BY <1>1, <1>3, <1>4, <1>5, AnswersThorough

LEMMA AnswerSourceThorough == ASSUME PInv, IInv', AnswerSource PROVE PInv'
<1> DEFINE expr == SourceAnswer(Top.target, Source(program, Top.target), Top.exprs)
<1>1. /\ extending = <<>> /\ stack # <<>> /\ Top.step = "nested" /\ Top.fn = "resolve" /\ Answers(expr)
  BY DEF AnswerSource, Running
<1>2. Source(program, Top.target).kind # "Param"
  BY <1>1, TopThorough DEF IsThorough
<1> HIDE DEF expr
<1> QED BY <1>1, <1>2, AnswersThorough

\* The bounds of a type are coming.
LEMMA AddBoundsThorough == ASSUME PInv, IInv', AddBounds PROVE PInv'
<1> DEFINE g == program
           f == Top
           ty == f.target.self
           new == [f EXCEPT !.step = "extended"]
           ext == BoundCandidates(g, ty, f.found[1], f.exprs)
<1>1. /\ program' = program /\ extending' = ext /\ candidates' = candidates
      /\ impl_exprs' = impl_exprs /\ predicate_searcher' = predicate_searcher
      /\ extending = <<>> /\ stack # <<>> /\ f.step = "nested" /\ f.fn = "resolve_local"
      /\ stack' = Going(new)
  BY DEF AddBounds, Running
<1>2. IsCall(g, f)
  BY <1>1, TopThorough
<1>3. IsProjection(ty) /\ g \in Programs
  BY <1>1, <1>2 DEF IsCall, PInv, IInv
<1>4. new = Frame(f, "extended", f.found, f.preds, f.exprs)
  BY <1>2, FrameFacts
<1>5. Bounds(g, ty) \subseteq Coming(g, candidates, ext)
  <2> DEFINE d == Last(ty)
             implied == ImpliedClauses(g, d)
             indexed == Indexed(ImpliedPredicates(g, d))
             holder == f.found[1]
             exprs == f.exprs
             p == AliasArgs(ty)
  <2>1. d \in Items /\ IsTraitList(implied)
    BY <1>3, ClausesFacts DEF IsProjection, AssocTys
  <2>2. /\ DOMAIN indexed = 1..Len(implied) /\ Len(implied) \in Nat
        /\ \A i \in 1..Len(implied) : indexed[i] = [index |-> i - 1, clause |-> implied[i]]
    BY <2>1, IndexedFacts DEF ImpliedClauses
  <2>3. /\ DOMAIN ItemBounds(g, ty) = 1..Len(implied)
        /\ \A i \in 1..Len(implied) : ItemBounds(g, ty)[i] = Instantiate(implied[i], p)
    BY <2>1, InstantiateAllFacts DEF ItemBounds, ImpliedClauses
  <2>4. ext = [i \in DOMAIN indexed |->
                  Candidate(Append(holder.path, AssocChunk(d, exprs, Instantiate(indexed[i].clause, p), indexed[i].index)),
                            Instantiate(indexed[i].clause, p), holder.origin)]
    BY DEF BoundCandidates
  <2> HIDE DEF implied, indexed, holder, exprs, p, d, ext, ty, f, g
  <2>5. \A i \in 1..Len(implied) : ext[i].pred = Instantiate(implied[i], p)
    BY <2>2, <2>4 DEF Candidate
  <2>6. Len(ext) = Len(implied)
    <3>1. ext = [i \in 1..Len(implied) |-> ext[i]]
      BY <2>2, <2>4
    <3> QED BY <2>2, <3>1, FunctionIsSeq
  <2> QED BY <2>3, <2>5, <2>6 DEF Bounds, Coming
<1>6. Coming(g, candidates, extending) \subseteq Coming(g, candidates, ext)
  <2>1. Len(<<>>) = 0
    BY EmptyIsSeq
  <2> HIDE DEF ext
  <2> QED BY <1>1, <2>1 DEF Coming
<1>7. AreThorough(g, candidates, ext, stack)
  BY <1>6, AreThoroughKept DEF PInv
<1> HIDE DEF new, ext
<1>8. new.fn = f.fn /\ new.target = f.target /\ new.step = "extended"
  BY <1>4 DEF Frame
<1>9. IsThorough(g, candidates, ext, new)
  BY <1>5, <1>8 DEF IsThorough
<1>10. AreCalls(g, stack) /\ Top = Last(stack)
  BY <1>1, TopThorough
<1>11. AreThorough(g, candidates, ext, [stack EXCEPT ![Len(stack)] = new])
  BY <1>1, <1>7, <1>8, <1>9, <1>10, ThoroughReplaced
<1>12. AreThorough(g, candidates, ext, stack')
  BY <1>1, <1>11 DEF Going
<1>13. stack' # <<>>
  <2>1. IsCall(g, new)
    <3>1. /\ f.target.trait \in Items /\ AreAnswered(g, f.exprs, f.preds)
      BY <1>2 DEF IsCall
    <3> HIDE DEF f
    <3> QED BY <1>1, <1>4, <3>1 DEF IsCall, Frame
  <2> QED BY <1>1, <1>8, <1>10, <2>1, Replaced DEF Going
<1>14. IsComplete(g, candidates, ext)
  BY <1>6 DEF IsComplete, PInv
<1>15. Environment(g) \subseteq Coming(g, candidates, ext) /\ predicate_searcher # "none"
  BY <1>1, <1>6, TopThorough
<1> QED BY <1>1, <1>12, <1>13, <1>14, <1>15 DEF PInv

\* What a candidate is dropped for is there; what it is held for, it implies.
LEMMA ExtendThorough == ASSUME PInv, IInv', Extend PROVE PInv'
<1> DEFINE g == program
           c == Normalised(g, Head(extending))
           rest == Tail(extending)
           parents == ParentsOf(g, c)
<1>1. /\ program' = program /\ stack' = stack /\ impl_exprs' = impl_exprs
      /\ predicate_searcher' = predicate_searcher /\ extending # <<>> /\ program \in Programs
      /\ ArePending(g, extending)
  BY DEF Extend, PInv, IInv
<1>2. \/ c.pred \in DOMAIN candidates /\ extending' = rest /\ candidates' = candidates
      \/ extending' = rest \o parents /\ candidates' = Put(candidates, c.pred, c)
  BY DEF Extend
<1>3. IsPending(g, Head(extending)) /\ ArePending(g, rest) /\ IsHeld(g, c, c.pred)
  BY <1>1, HeadTailPending, NormalisedIsHeld
<1>4. c.pred = EraseAndNorm(g, extending[1].pred)
  <2>1. extending \in Seq(Range(extending))
    BY <1>1 DEF ArePending, IsSeq
  <2>2. Head(extending) = extending[1]
    BY <1>1, <2>1, HeadTail
  <2>3. Head(extending) = Candidate(Head(extending).path, Head(extending).pred, Head(extending).origin)
    BY <1>3 DEF IsPending, IsCandidate
  <2> QED BY <2>2, <2>3 DEF Normalised, Candidate
<1>5. \A i \in 1..Len(extending) : \/ extending[i] = extending[1]
                                   \/ \E k \in 1..Len(rest) : rest[k] = extending[i]
  <2> DEFINE e == extending
             S == Range(e)
  <2>1. e \in Seq(S) /\ e # <<>>
    BY <1>1 DEF ArePending, IsSeq
  <2> HIDE DEF e, S
  <2>2. /\ Len(e) \in Nat /\ Len(Tail(e)) = Len(e) - 1
        /\ \A n \in 1..(Len(e) - 1) : Tail(e)[n] = e[n + 1]
    BY <2>1, HeadTail
  <2>3. ASSUME NEW i \in 1..Len(e), i # 1 PROVE \E k \in 1..Len(Tail(e)) : Tail(e)[k] = e[i]
    <3>1. i - 1 \in 1..(Len(e) - 1) /\ (i - 1) + 1 = i
      BY <2>2, <2>3
    <3> QED BY <2>2, <3>1
  <2> QED BY <2>3 DEF e
<1>6. \A S : \A i \in 1..Len(rest) :
         /\ EraseAndNorm(g, rest[i].pred) \in Coming(g, S, rest)
         /\ EraseAndNorm(g, rest[i].pred) \in Coming(g, S, rest \o parents)
  <2>1. IsSeq(rest) /\ IsSeq(parents)
    BY <1>1, <1>3, ParentsPending DEF ArePending
  <2> HIDE DEF rest, parents, g
  <2>2. ASSUME NEW i \in 1..Len(rest) PROVE i \in 1..Len(rest \o parents) /\ (rest \o parents)[i] = rest[i]
    <3>1. Len(rest \o parents) = Len(rest) + Len(parents) /\ (rest \o parents)[i] = rest[i]
          /\ Len(rest) \in Nat /\ Len(parents) \in Nat
      BY <2>1, ConcatIsSeq, SeqElements
    <3> QED BY <3>1
  <2> QED BY <2>2 DEF Coming
<1>7. Implied(g, {c.pred}) \subseteq Coming(g, candidates', rest \o parents)
  <2> DEFINE p == c.pred
             implied == ImpliedClauses(g, p.trait)
             indexed == Indexed(ImpliedPredicates(g, p.trait))
  <2>1. p.trait \in Items
    BY <1>3 DEF IsHeld, IsCandidate
  <2>2. IsTraitList(implied)
    BY <1>1, <2>1, ClausesFacts
  <2>3. /\ DOMAIN indexed = 1..Len(implied) /\ Len(implied) \in Nat
        /\ \A i \in 1..Len(implied) : indexed[i] = [index |-> i - 1, clause |-> implied[i]]
    BY <2>2, IndexedFacts DEF ImpliedClauses
  <2>4. parents = [i \in DOMAIN indexed |->
               Candidate(Append(c.path, ParentChunk(Instantiate(indexed[i].clause, p), indexed[i].index)),
                         Instantiate(indexed[i].clause, p), c.origin)]
    BY DEF ParentsOf
  <2>5. IsSeq(rest) /\ IsSeq(parents)
    BY <1>1, <1>3, ParentsPending DEF ArePending
  <2>6. Implied(g, {p}) = {EraseAndNorm(g, Instantiate(implied[i], p)) : i \in DOMAIN implied}
    <3> HIDE DEF p, g
    <3> QED BY DEF Implied, ImpliedClauses, implied
  <2>7. DOMAIN implied = 1..Len(implied)
    BY <2>2, SeqElements DEF IsTraitList
  <2> HIDE DEF implied, indexed, p, c, rest, parents, g
  <2>8. \A i \in 1..Len(implied) : parents[i].pred = Instantiate(implied[i], p)
    BY <2>3, <2>4 DEF Candidate
  <2>9. Len(parents) = Len(implied)
    <3>1. parents = [i \in 1..Len(implied) |-> parents[i]]
      BY <2>3, <2>4
    <3> QED BY <2>3, <3>1, FunctionIsSeq
  <2>10. ASSUME NEW i \in 1..Len(implied)
         PROVE  EraseAndNorm(g, Instantiate(implied[i], p)) \in Coming(g, candidates', rest \o parents)
    <3> i \in 1..Len(parents)
      BY <2>9
    <3>0. Len(rest) \in Nat /\ Len(parents) \in Nat
      BY <2>5, SeqElements
    <3>1. Len(rest \o parents) = Len(rest) + Len(parents) /\ (rest \o parents)[Len(rest) + i] = parents[i]
      BY <2>5, ConcatIsSeq
    <3>2. Len(rest) + i \in 1..Len(rest \o parents)
      BY <3>0, <3>1
    <3> QED BY <2>8, <3>1, <3>2 DEF Coming
  <2> QED BY <2>6, <2>7, <2>10 DEF p
<1> HIDE DEF c, rest, parents
<1>8. Coming(g, candidates, extending) \subseteq Coming(g, candidates', extending')
  <2> SUFFICES ASSUME NEW q \in Coming(g, candidates, extending)
               PROVE  q \in Coming(g, candidates', extending')
    OBVIOUS
  <2>1. DOMAIN candidates \subseteq DOMAIN candidates' /\ c.pred \in DOMAIN candidates'
    BY <1>2 DEF Put
  <2>2. CASE q \in DOMAIN candidates
    BY <2>1, <2>2 DEF Coming
  <2>3. ASSUME NEW i \in 1..Len(extending), q = EraseAndNorm(g, extending[i].pred)
        PROVE  q \in Coming(g, candidates', extending')
    <3>1. CASE extending[i] = extending[1]
      BY <1>4, <2>1, <2>3, <3>1 DEF Coming
    <3>2. CASE \E k \in 1..Len(rest) : rest[k] = extending[i]
      BY <1>2, <1>6, <2>3, <3>2
    <3> QED BY <1>5, <3>1, <3>2
  <2> QED BY <2>2, <2>3 DEF Coming
<1>9. IsComplete(g, candidates', extending')
  <2>1. IsComplete(g, candidates, extending)
    BY DEF PInv
  <2>2. \/ DOMAIN candidates' = DOMAIN candidates
        \/ DOMAIN candidates' = DOMAIN candidates \cup {c.pred} /\ extending' = rest \o parents
    BY <1>2 DEF Put
  <2> QED BY <1>7, <1>8, <2>1, <2>2 DEF IsComplete
<1>10. AreThorough(g, candidates', extending', stack)
  BY <1>8, AreThoroughKept DEF PInv
<1>11. stack # <<>>
  BY <1>1 DEF PInv
<1> QED BY <1>1, <1>8, <1>9, <1>10, <1>11 DEF PInv

\* The first reference makes the clauses in scope candidates.
LEMMA SolveTraitThorough ==
    ASSUME PInv, IInv', NEW tref \in Queries, SolveTrait(tref)
    PROVE  PInv'
<1> DEFINE g == program
           f == Call("resolve", tref)
           initial == InitialSearchPredicates(g)
           ext == InitialCandidates(g)
<1>1. /\ program' = program /\ candidates' = candidates /\ impl_exprs' = impl_exprs
      /\ stack' = <<f>> /\ stack = <<>> /\ extending = <<>> /\ predicate_searcher' = "made"
      /\ extending' = IF predicate_searcher = "none" THEN ext ELSE <<>>
  BY DEF SolveTrait, PInv
<1>2. Environment(g) = {EraseAndNorm(g, ext[i].pred) : i \in 1..Len(ext)}
  <2>1. IsSeq(initial) /\ IsSeq(ext)
    BY InitialIsNumbered, InitialPending DEF PInv, IInv
  <2>2. DOMAIN initial = 1..Len(initial) /\ DOMAIN ext = 1..Len(ext)
    BY <2>1, SeqElements
  <2>3. ext = [i \in DOMAIN initial |-> Candidate(<<>>, initial[i].clause, initial[i])]
    BY DEF InitialCandidates
  <2>4. Environment(g) = {EraseAndNorm(g, initial[i].clause) : i \in DOMAIN initial}
    BY DEF Environment
  <2> HIDE DEF initial, ext, g
  <2>5. DOMAIN ext = DOMAIN initial /\ \A i \in DOMAIN initial : ext[i].pred = initial[i].clause
    BY <2>3 DEF Candidate
  <2> QED BY <2>2, <2>4, <2>5
<1> HIDE DEF ext
<1>3. Coming(g, candidates, extending) \subseteq Coming(g, candidates, extending')
  <2>1. Len(<<>>) = 0 /\ 1..0 = {}
    BY EmptyIsSeq
  <2> QED BY <1>1, <2>1 DEF Coming
<1>4. Environment(g) \subseteq Coming(g, candidates, extending')
  <2>1. CASE predicate_searcher = "none"
    BY <1>1, <1>2, <2>1 DEF Coming
  <2>2. CASE predicate_searcher # "none"
    BY <1>3, <2>2 DEF PInv
  <2> QED BY <2>1, <2>2
<1>5. IsComplete(g, candidates, extending')
  BY <1>3 DEF IsComplete, PInv
<1>6. AreThorough(g, candidates, extending', stack')
  <2>1. IsThorough(g, candidates, extending', f) /\ f.target = tref
    BY CallFacts
  <2> HIDE DEF f
  <2> DEFINE st == <<f>>
  <2>2. Len(st) = 1 /\ st[1] = f
    OBVIOUS
  <2> HIDE DEF st
  <2>3. AreThorough(g, candidates, extending', st)
    BY <2>1, <2>2 DEF AreThorough
  <2> QED BY <1>1, <2>3 DEF st
<1>7. stack' # <<>>
  BY <1>1
<1> QED BY <1>1, <1>4, <1>5, <1>6, <1>7 DEF PInv

LEMMA InitThorough == ASSUME Init PROVE PInv
<1>1. IInv /\ candidates = <<>> /\ extending = <<>> /\ stack = <<>> /\ impl_exprs = <<>>
      /\ predicate_searcher = "none"
  BY InitOK DEF Init
<1>2. DOMAIN candidates = {} /\ DOMAIN impl_exprs = {}
  BY <1>1
<1>3. AreThorough(program, candidates, extending, stack)
  BY <1>1, EmptyIsSeq DEF AreThorough
<1> QED BY <1>1, <1>2, <1>3 DEF PInv, IsComplete

LEMMA UnchangedThorough == ASSUME PInv, IInv', UNCHANGED vars PROVE PInv'
BY DEF PInv, vars

LEMMA NextThorough == ASSUME PInv, [Next]_vars PROVE PInv'
<1> IInv'
  BY NextOK DEF PInv
<1>1. CASE \E tref \in Queries : SolveTrait(tref)
  BY <1>1, SolveTraitThorough
<1>2. CASE \E tref \in Queries : SolvedTrait(tref)
  BY <1>2, UnchangedThorough DEF SolvedTrait
<1>3. CASE Extend
  BY <1>3, ExtendThorough
<1>4. CASE Resolve
  BY <1>4, ResolveThorough
<1>5. CASE ResolveNext
  BY <1>5, ResolveNextThorough
<1>6. CASE AnswerLocal
  BY <1>6, AnswerLocalThorough
<1>7. CASE AnswerSource
  BY <1>7, AnswerSourceThorough
<1>8. CASE ResolveLocal
  BY <1>8, ResolveLocalThorough
<1>9. CASE TraitFound
  BY <1>9, TraitFoundThorough
<1>10. CASE AddBounds
  BY <1>10, AddBoundsThorough
<1>11. CASE LookUpAgain
  BY <1>11, LookUpAgainThorough
<1>12. CASE UNCHANGED vars
  BY <1>12, UnchangedThorough
<1> QED BY <1>1, <1>2, <1>3, <1>4, <1>5, <1>6, <1>7, <1>8, <1>9, <1>10, <1>11, <1>12 DEF Next

\* What rustc proves with the clauses in scope is found, for any program, any
\* references and any order of them: a reference is answered with an error or with an
\* implementation only when rustc's source is not a parameter (resolution.rs, 118-290,
\* 306-341 and 357-512).
THEOREM ParamIsAlwaysFound == Spec => []ParamIsFound
<1>1. Init => PInv
  BY InitThorough
<1>2. PInv /\ [Next]_vars => PInv'
  BY NextThorough
<1>3. PInv => ParamIsFound
  BY DEF PInv, ParamIsFound, Named
<1> QED BY <1>1, <1>2, <1>3, PTL DEF Spec
=============================================================================
