------------------------ MODULE ItemSelection_proofs -------------------------
(***************************************************************************)
(* Proofs about Annotations and ItemSelection: for any programs, any       *)
(* builds and any clauses, companions are never seen where they should not *)
(* be, each formula has one companion and fits where it stands, the items  *)
(* selected are those the inclusion clauses ask for, and quotes and        *)
(* formulas are translated with the items they were written on.            *)
(***************************************************************************)
EXTENDS ItemSelection, DataLemmas

-----------------------------------------------------------------------------
(* The items *)

\* What else the user writes on an item, and what is left once no macro is.
Plain == {"refine", "doc"}

NoneLeft(its) == \A d \in DOMAIN its : \A k \in DOMAIN its[d].attrs :
                    its[d].attrs[k][1] \notin MacroTags \cup {"refine"}

\* What is so in any build: items are items, and some macros are those the user
\* wrote.
Shape(p, its) ==
    /\ its = [d \in DOMAIN its |-> its[d]] /\ IsFiniteSet(DOMAIN its)
    /\ \A d \in DOMAIN its :
          /\ IsItem(its[d]) /\ IsSeq(its[d].attrs)
          /\ \A k \in 1..Len(its[d].attrs) : its[d].attrs[k][1] \in UserOnly =>
                d \in DOMAIN p /\ its[d].attrs[k] \in Range(p[d].attrs)

PanicFree(item) ==
    \E k \in 1..Len(item.attrs) : item.attrs[k][1] = "verification_status" /\ item.attrs[k][2] = "panic_free"

\* Where nothing is translated.
NoTrace(p, its) ==
    /\ \A c \in DOMAIN its \ DOMAIN p : c[2] \in {"mod", "Refinement", "Deref", "RefineAs"}
    /\ \A d \in DOMAIN its : \A k \in 1..Len(its[d].attrs) : its[d].attrs[k][1] \in MacroTags \cup Plain
    /\ \A d \in DOMAIN p \cap DOMAIN its :
          \/ its[d].body = p[d].body /\ its[d].inputs = p[d].inputs
          \/ PanicFree(p[d])

\* Where the package is translated for a backend.
Companions(p, its, n) ==
    /\ DOMAIN p \subseteq DOMAIN its
    /\ \A d \in DOMAIN its : its[d].parent \in DOMAIN its \cup {NoItem}
    /\ \A c \in DOMAIN its \ DOMAIN p :
          c \in (1..n) \X CompanionKinds /\ IsCompanion(its, c)

-----------------------------------------------------------------------------
(* The engine *)

\* What is on the list.
Hidden(p, its, skipped) ==
    \A c \in DOMAIN its \ DOMAIN p : c[2] = "mod" \/ Status(its[c].attrs) \in skipped

\* The items of a build.
Sound(how, p, its, n) ==
    /\ p \in Programs /\ n \in Nat /\ Shape(p, its)
    /\ how # "translated" => NoTrace(p, its)
    /\ how = "translated" => Companions(p, its, n) /\ Attached(p, its, n)

IInv ==
    /\ Sound(build.how, program, items, uids)
    /\ stage # "expand" => NoneLeft(items)
    /\ stage \notin {"expand", "expanded"} => Translated
    /\ stage = "imported" => Hidden(program, list, {"late_skip", "excluded"})
    /\ stage = "selected" => Hidden(program, list, {"late_skip"})
    /\ stage = "phases" =>
          \A c \in DOMAIN list \ DOMAIN program :
             c[2] = "mod" \/ IsLateSkip(list[c].attrs) \/ (list[c].kind = "quote" /\ build.backend = "fstar")
    /\ stage = "translated" => CompanionsStayHidden

-----------------------------------------------------------------------------
(* Sequences and items *)

LEMMA ChangedFacts ==
    ASSUME NEW d \in DOMAIN items, NEW item
    PROVE  /\ DOMAIN Changed(d, item) = DOMAIN items /\ Changed(d, item)[d] = item
           /\ \A e \in DOMAIN items : e # d => Changed(d, item)[e] = items[e]
BY DEF Changed

-----------------------------------------------------------------------------
(* The items that macros make *)

\* What they enclose them in.
MadeUnder(its, made) == \A c \in DOMAIN made : made[c].parent \in DOMAIN its \cup DOMAIN made \cup {NoItem}

\* What is made although nothing is translated.
MadeOrdinary(made) ==
    \A c \in DOMAIN made :
       /\ c[2] \in {"mod", "Refinement", "Deref", "RefineAs"}
       /\ \A k \in 1..Len(made[c].attrs) : made[c].attrs[k][1] \in MacroTags \cup Plain

LEMMA NoItemsMade == \A S : Made(S, NoItems) /\ DOMAIN NoItems = {} /\ MadeOrdinary(NoItems)
<1>1. DOMAIN NoItems = {} /\ NoItems = [c \in DOMAIN NoItems |-> NoItems[c]]
  BY DEF NoItems
<1> QED BY <1>1, FS_EmptySet DEF Made, MadeOrdinary

LEMMA DecorationMade ==
    ASSUME NEW u, NEW parent, NEW role, NEW fn, NEW phi
    PROVE  /\ Made({u}, Decoration(u, parent, role, fn, phi))
           /\ Translated =>
                /\ <<u, "fn">> \in DOMAIN Decoration(u, parent, role, fn, phi)
                /\ Decoration(u, parent, role, fn, phi)[<<u, "fn">>].body.says = phi.says
           /\ ~ Translated => Decoration(u, parent, role, fn, phi) = NoItems
           /\ \A c \in DOMAIN Decoration(u, parent, role, fn, phi) :
                 Decoration(u, parent, role, fn, phi)[c].parent
                    \in {parent} \cup DOMAIN Decoration(u, parent, role, fn, phi)
<1>1. CASE ~ Translated
  <2>1. Decoration(u, parent, role, fn, phi) = NoItems
    BY <1>1 DEF Decoration, DecorationBuilt
  <2> QED BY <1>1, <2>1, NoItemsMade
<1>2. CASE Translated
  <2> DEFINE more == [c \in IF role = "ensures" THEN {<<u, "future">>} ELSE {} |-> FutureHelper(u)]
             x == DecorationFn(u, role, fn, RewriteSelf(fn, phi))
             w == Wrapped(u, parent, x)
             dec == Decoration(u, parent, role, fn, phi)
  <2>1. dec = Joined(w, more)
    BY <1>2 DEF Decoration, DecorationBuilt
  <2>2. /\ Made({u}, more) /\ DOMAIN more \subseteq {<<u, "future">>}
        /\ \A c \in DOMAIN more : more[c].parent = <<u, "const">>
    BY FutureMade
  <2>3. FnCompanion(u, x) /\ x.body.says = phi.says
    BY DecorationFnIsCompanion
  <2> HIDE DEF more, x, dec
  <2>4. /\ Made({u}, w) /\ DOMAIN w = {<<u, "const">>, <<u, "fn">>}
        /\ w[<<u, "fn">>] = x /\ w[<<u, "const">>].parent = parent
    <3>1. FnCompanion(u, x)
      BY <2>3
    <3> HIDE DEF x
    <3>2. /\ Made({u}, Wrapped(u, parent, x))
          /\ DOMAIN Wrapped(u, parent, x) = {<<u, "const">>, <<u, "fn">>}
          /\ Wrapped(u, parent, x)[<<u, "fn">>] = x
          /\ Wrapped(u, parent, x)[<<u, "const">>].parent = parent
      BY ONLY <3>1, WrappedMade
    <3> QED BY <3>2
  <2> HIDE DEF w
  <2>5. Made({u}, dec)
    BY <2>1, <2>2, <2>4, JoinedMade
  <2>6. /\ DOMAIN dec = DOMAIN w \cup DOMAIN more
        /\ \A c \in DOMAIN w : dec[c] = w[c]
        /\ \A c \in DOMAIN more \ DOMAIN w : dec[c] = more[c]
    BY <2>1 DEF Joined
  <2>7. <<u, "fn">> \in DOMAIN dec /\ dec[<<u, "fn">>].body.says = phi.says
    BY <2>3, <2>4, <2>6
  <2>8. ASSUME NEW c \in DOMAIN dec PROVE dec[c].parent \in {parent} \cup DOMAIN dec
    <3>1. CASE c = <<u, "const">>
      BY <3>1, <2>4, <2>6
    <3>2. CASE c = <<u, "fn">>
      BY <3>2, <2>3, <2>4, <2>6 DEF FnCompanion
    <3>3. CASE c \in DOMAIN more \ DOMAIN w
      BY <3>3, <2>2, <2>4, <2>6
    <3> QED BY <3>1, <3>2, <3>3, <2>4, <2>6
  <2> QED BY <1>2, <2>5, <2>7, <2>8 DEF dec
<1> QED BY <1>1, <1>2

LEMMA QuoteItemMade ==
    ASSUME NEW u, NEW parent, NEW backend, NEW position, NEW contents
    PROVE  /\ Made({u}, QuoteItem(u, parent, backend, position, contents))
           /\ ~ Translated => QuoteItem(u, parent, backend, position, contents) = NoItems
           /\ \A c \in DOMAIN QuoteItem(u, parent, backend, position, contents) :
                 QuoteItem(u, parent, backend, position, contents)[c].parent
                    \in {parent} \cup DOMAIN QuoteItem(u, parent, backend, position, contents)
<1> DEFINE x == Item("fn", <<u, "const">>,
                     <<<<"NeverErased">>, <<"Uid", u>>, <<"ItemQuote", position>>>>, <<>>, Unit, contents)
           q == QuoteItem(u, parent, backend, position, contents)
           w == Wrapped(u, parent, x)
<1>1. (q = NoItems \/ q = w) /\ (~ Translated => q = NoItems)
  BY DEF QuoteItem, QuoteBuilt
<1>2. FnCompanion(u, x)
  <2>1. /\ x.kind = "fn" /\ x.parent = <<u, "const">> /\ IsItem(x)
        /\ x.attrs = <<<<"NeverErased">>, <<"Uid", u>>, <<"ItemQuote", position>>>>
    BY DEF Item, IsItem
  <2> HIDE DEF x
  <2> QED BY <2>1, ThreeIsSeq DEF FnCompanion
<1> HIDE DEF x
<1> HIDE DEF q
<1>3. /\ Made({u}, w) /\ DOMAIN w = {<<u, "const">>, <<u, "fn">>}
      /\ w[<<u, "fn">>] = x /\ w[<<u, "const">>].parent = parent
  <2>1. /\ Made({u}, Wrapped(u, parent, x))
        /\ DOMAIN Wrapped(u, parent, x) = {<<u, "const">>, <<u, "fn">>}
        /\ Wrapped(u, parent, x)[<<u, "fn">>] = x
        /\ Wrapped(u, parent, x)[<<u, "const">>].parent = parent
    BY ONLY <1>2, WrappedMade
  <2> QED BY <2>1
<1> HIDE DEF w
<1>4. \A c \in DOMAIN w : w[c].parent \in {parent} \cup DOMAIN w
  BY <1>2, <1>3 DEF FnCompanion
<1> QED BY <1>1, <1>3, <1>4, NoItemsMade DEF q

LEMMA RefinementItemsMade ==
    ASSUME NEW u, NEW d
    PROVE  /\ Made({u}, RefinementItems(u, d)) /\ MadeOrdinary(RefinementItems(u, d))
           /\ <<u, "mod">> \in DOMAIN RefinementItems(u, d) /\ <<u, "fn">> \notin DOMAIN RefinementItems(u, d)
           /\ \A c \in DOMAIN RefinementItems(u, d) :
                 RefinementItems(u, d)[c].parent \in {items[d].parent, <<u, "mod">>}
<1> DEFINE K == {"mod", "Refinement", "Deref", "RefineAs"}
           m == Item("mod", items[d].parent, <<>>, <<>>, Unit, NoCode)
           x == ExcludedImpl(u, d)
           R == RefinementItems(u, d)
<1>1. /\ DOMAIN R = {u} \X K /\ R = [c \in DOMAIN R |-> R[c]]
      /\ \A c \in {u} \X K : R[c] = IF c[2] = "mod" THEN m ELSE x
  BY DEF RefinementItems
<1>2. IsFiniteSet({u} \X K)
  <2>1. IsFiniteSet({u}) /\ IsFiniteSet({"mod", "Refinement"}) /\ IsFiniteSet({"Deref", "RefineAs"})
    <3>1. {"mod", "Refinement"} = {"mod"} \cup {"Refinement"} /\ {"Deref", "RefineAs"} = {"Deref"} \cup {"RefineAs"}
      OBVIOUS
    <3>2. IsFiniteSet({"mod"}) /\ IsFiniteSet({"Refinement"}) /\ IsFiniteSet({"Deref"}) /\ IsFiniteSet({"RefineAs"})
      BY FS_Singleton
    <3>3. IsFiniteSet({"mod"} \cup {"Refinement"}) /\ IsFiniteSet({"Deref"} \cup {"RefineAs"})
      BY ONLY <3>2, FS_Union
    <3>4. IsFiniteSet({u})
      BY FS_Singleton
    <3> QED BY <3>1, <3>3, <3>4
  <2>2. K = {"mod", "Refinement"} \cup {"Deref", "RefineAs"}
    OBVIOUS
  <2>3. IsFiniteSet(K)
    <3>1. IsFiniteSet({"mod", "Refinement"} \cup {"Deref", "RefineAs"})
      BY ONLY <2>1, FS_Union
    <3> QED BY <2>2, <3>1
  <2> HIDE DEF K
  <2> QED BY ONLY <2>1, <2>3, FS_Product
<1>3. IsItem(m) /\ m.kind = "mod" /\ m.attrs = <<>> /\ m.parent = items[d].parent
  BY DEF Item, IsItem
<1>4. IsItem(x) /\ x.kind = "impl" /\ x.attrs = <<<<"exclude">>>> /\ x.parent = <<u, "mod">>
  BY DEF ExcludedImpl, Item, IsItem
<1>5. /\ IsSeq(<<>>) /\ Len(<<>>) = 0
      /\ IsSeq(<<<<"exclude">>>>) /\ Len(<<<<"exclude">>>>) = 1 /\ <<<<"exclude">>>>[1] = <<"exclude">>
  BY EmptyIsSeq, OneIsSeq
<1>6. "exclude" \in MacroTags
  BY DEF MacroTags, Markers
<1> HIDE DEF m, x, R
<1>7. ASSUME NEW c \in DOMAIN R
      PROVE  /\ c \in {u} \X CompanionKinds /\ IsItem(R[c]) /\ IsSeq(R[c].attrs) /\ IsCompanion(R, c)
             /\ c[2] \in K
             /\ R[c].parent \in {items[d].parent, <<u, "mod">>}
             /\ \A k \in 1..Len(R[c].attrs) : R[c].attrs[k][1] = "exclude"
  <2>1. c \in {u} \X CompanionKinds /\ c[2] \in K
    BY <1>1 DEF CompanionKinds
  <2>2. CASE c[2] = "mod"
    <3>1. R[c] = m
      BY <2>2, <1>1
    <3>2. \A k \in 1..Len(R[c].attrs) : R[c].attrs[k][1] = "exclude"
      BY <3>1, <1>3, <1>5
    <3> QED BY <2>1, <2>2, <3>1, <3>2, <1>3, <1>5 DEF IsCompanion
  <2>3. CASE c[2] # "mod"
    <3>1. R[c] = x
      BY <2>3, <1>1
    <3>2. \A k \in 1..Len(R[c].attrs) : R[c].attrs[k][1] = "exclude"
      BY <3>1, <1>4, <1>5
    <3> QED BY <2>1, <2>3, <3>1, <3>2, <1>4, <1>5 DEF IsCompanion
  <2> QED BY <2>2, <2>3
<1>8. Made({u}, R)
  BY <1>1, <1>2, <1>7 DEF Made, UserOnly
<1>9. MadeOrdinary(R)
  BY <1>6, <1>7 DEF MadeOrdinary
<1>10. <<u, "mod">> \in DOMAIN R /\ <<u, "fn">> \notin DOMAIN R
  BY <1>1
<1> QED BY <1>7, <1>8, <1>9, <1>10 DEF R

LEMMA RefinementMade ==
    ASSUME NEW u, NEW f, NEW phi
    PROVE  /\ Made({u}, Refinement(u, f, phi))
           /\ Translated =>
                /\ <<u, "fn">> \in DOMAIN Refinement(u, f, phi)
                /\ Refinement(u, f, phi)[<<u, "fn">>].body = phi
           /\ ~ Translated => Refinement(u, f, phi) = NoItems
           /\ \A c \in DOMAIN Refinement(u, f, phi) :
                 Refinement(u, f, phi)[c].parent
                    \in {items[items[f].parent].parent} \cup DOMAIN Refinement(u, f, phi)
<1> DEFINE x == Item("fn", <<u, "const">>, <<<<"Uid", u>>, LateSkip>>, FieldsUpTo(f), ValueType, phi)
           parent == items[items[f].parent].parent
           w == Wrapped(u, parent, x)
<1>1. Refinement(u, f, phi) = IF Translated THEN w ELSE NoItems
  BY DEF Refinement
<1>2. FnCompanion(u, x) /\ x.body = phi
  <2>1. /\ x.kind = "fn" /\ x.parent = <<u, "const">> /\ IsItem(x) /\ x.body = phi
        /\ x.attrs = <<<<"Uid", u>>, LateSkip>>
    BY DEF Item, IsItem
  <2> HIDE DEF x
  <2> QED BY <2>1, TwoIsSeq DEF FnCompanion
<1> HIDE DEF x, parent
<1>3. /\ Made({u}, w) /\ DOMAIN w = {<<u, "const">>, <<u, "fn">>}
      /\ w[<<u, "fn">>] = x /\ w[<<u, "const">>].parent = parent
  BY <1>2, WrappedMade
<1> HIDE DEF w
<1>4. \A c \in DOMAIN w : w[c].parent \in {parent} \cup DOMAIN w
  BY <1>2, <1>3 DEF FnCompanion
<1>5. CASE Translated
  BY <1>1, <1>2, <1>3, <1>4, <1>5 DEF parent
<1>6. CASE ~ Translated
  BY <1>1, <1>6, NoItemsMade
<1> QED BY <1>5, <1>6

-----------------------------------------------------------------------------
(* A macro that changes its item and makes others *)

LEMMA MacroFacts ==
    ASSUME NEW d \in DOMAIN items, IsSeq(items[d].attrs), MacrosOf(d) # {}
    PROVE  /\ NextMacro(d) \in 1..Len(items[d].attrs)
           /\ Macro(d) = items[d].attrs[NextMacro(d)] /\ Macro(d)[1] \in MacroTags
<1> DEFINE M == MacrosOf(d)
<1>1. DOMAIN items[d].attrs = 1..Len(items[d].attrs) /\ Len(items[d].attrs) \in Nat
  BY SeqElements
<1>2. M \subseteq 1..Len(items[d].attrs) /\ \A k \in M : items[d].attrs[k][1] \in MacroTags
  BY <1>1 DEF MacrosOf
<1>3. M \subseteq Nat /\ M # {}
  BY <1>2
<1> HIDE DEF M
<1>4. \E k \in M : \A l \in M : k <= l
  BY <1>3, LeastNatural
<1>5. NextMacro(d) \in M
  BY <1>4 DEF NextMacro, M
<1> QED BY <1>2, <1>5 DEF Macro

\* The items after a step that makes new of d and some more.
OneItem(how, p, its, n, its2, n2, d, k, P, new, made) ==
    /\ Sound(how, p, its, n) /\ n2 \in Nat /\ n <= n2
    /\ d \in DOMAIN its /\ k \in 1..Len(its[d].attrs)
    /\ IsItem(new) /\ IsSeq(P) /\ new.attrs = P \o RemoveAt(its[d].attrs, k)
    /\ \A i \in 1..Len(P) : P[i][1] \notin UserOnly
    /\ Made((n + 1)..n2, made)
    /\ its2 = Joined([its EXCEPT ![d] = new], made)

\* What they are.
StepOf(p, its, n, its2, n2, d, P, new, made) ==
    /\ DOMAIN its2 = DOMAIN its \cup DOMAIN made /\ its2 = [c \in DOMAIN its2 |-> its2[c]]
    /\ its2[d] = new /\ \A e \in DOMAIN its : e # d => its2[e] = its[e]
    /\ \A c \in DOMAIN made \ DOMAIN its : its2[c] = made[c]
    /\ DOMAIN made \cap DOMAIN p = {}
    /\ \A c \in DOMAIN made : c \in ((n + 1)..n2) \X CompanionKinds
    /\ IsSeq(new.attrs)
    /\ \A i \in 1..Len(new.attrs) :
          \/ \E j \in 1..Len(P) : new.attrs[i] = P[j]
          \/ \E j \in 1..Len(its[d].attrs) : new.attrs[i] = its[d].attrs[j]
    /\ Shape(p, its2)

LEMMA OneItemFacts ==
    ASSUME NEW how, NEW p, NEW its, NEW n, NEW its2, NEW n2, NEW d, NEW k, NEW P, NEW new, NEW made,
           OneItem(how, p, its, n, its2, n2, d, k, P, new, made)
    PROVE  StepOf(p, its, n, its2, n2, d, P, new, made)
<1>0. /\ Sound(how, p, its, n) /\ n2 \in Nat /\ n <= n2
      /\ d \in DOMAIN its /\ k \in 1..Len(its[d].attrs)
      /\ IsItem(new) /\ IsSeq(P) /\ new.attrs = P \o RemoveAt(its[d].attrs, k)
      /\ \A i \in 1..Len(P) : P[i][1] \notin UserOnly
      /\ Made((n + 1)..n2, made)
      /\ its2 = Joined([its EXCEPT ![d] = new], made)
  BY DEF OneItem
<1>1. p \in Programs /\ n \in Nat /\ Shape(p, its)
  BY <1>0 DEF Sound
<1>2. /\ DOMAIN its2 = DOMAIN its \cup DOMAIN made /\ its2 = [c \in DOMAIN its2 |-> its2[c]]
      /\ its2[d] = new /\ \A e \in DOMAIN its : e # d => its2[e] = its[e]
      /\ \A c \in DOMAIN made \ DOMAIN its : its2[c] = made[c]
  BY <1>0 DEF Joined
<1>3. \A c \in DOMAIN made : c \in ((n + 1)..n2) \X CompanionKinds
  BY <1>0 DEF Made
<1>4. DOMAIN made \cap DOMAIN p = {}
  <2>1. \A e \in DOMAIN p : e \notin Nat \X CompanionKinds
    BY <1>1, ProgramsAssumption
  <2>2. \A i \in (n + 1)..n2 : i \in Nat
    BY <1>0, <1>1
  <2>3. \A c \in DOMAIN made : c \in Nat \X CompanionKinds
    <3> TAKE c \in DOMAIN made
    <3>1. PICK i \in (n + 1)..n2, kind \in CompanionKinds : c = <<i, kind>>
      BY <1>3
    <3> QED BY <3>1, <2>2
  <2> QED BY <2>1, <2>3
<1> DEFINE a == its[d].attrs
           q == RemoveAt(a, k)
<1>5. IsSeq(a) /\ k \in 1..Len(a)
  BY <1>0, <1>1 DEF Shape
<1>6. IsSeq(q) /\ \A i \in 1..Len(q) : \E j \in 1..Len(a) : q[i] = a[j]
  <2>1. /\ IsSeq(q) /\ Len(q) = Len(a) - 1
        /\ \A i \in 1..(Len(a) - 1) : q[i] = a[Skip(k, i)]
    BY <1>5, RemoveAtFacts DEF Skip
  <2>2. Len(a) \in Nat
    BY <1>5, SeqElements
  <2>3. \A i \in 1..(Len(a) - 1) : Skip(k, i) \in 1..Len(a)
    BY <1>5, <2>2, SkipFacts
  <2> QED BY <2>1, <2>3
<1>7. new.attrs = P \o q
  BY <1>0
<1> HIDE DEF q
<1>8. /\ IsSeq(new.attrs)
      /\ \A i \in 1..Len(new.attrs) : \/ \E j \in 1..Len(P) : new.attrs[i] = P[j]
                                      \/ \E j \in 1..Len(a) : new.attrs[i] = a[j]
  <2>1. IsSeq(P) /\ IsSeq(q)
    BY <1>0, <1>6
  <2>2. /\ IsSeq(P \o q)
        /\ \A i \in 1..Len(P \o q) : \/ i \in 1..Len(P) /\ (P \o q)[i] = P[i]
                                     \/ i - Len(P) \in 1..Len(q) /\ (P \o q)[i] = q[i - Len(P)]
    BY ONLY <2>1, ConcatIsSeq
  <2>3. \A i \in 1..Len(q) : \E j \in 1..Len(a) : q[i] = a[j]
    BY <1>6
  <2> DEFINE r == P \o q
  <2> HIDE DEF a, r
  <2>4. ASSUME NEW i \in 1..Len(r)
        PROVE  (\E j \in 1..Len(P) : r[i] = P[j]) \/ (\E j \in 1..Len(a) : r[i] = a[j])
    <3>1. \/ i \in 1..Len(P) /\ r[i] = P[i]
          \/ i - Len(P) \in 1..Len(q) /\ r[i] = q[i - Len(P)]
      BY <2>2 DEF r
    <3> QED BY ONLY <3>1, <2>3
  <2> QED BY <2>2, <2>4, <1>7 DEF r
<1>9. IsFiniteSet(DOMAIN its2)
  <2>1. IsFiniteSet(DOMAIN its) /\ IsFiniteSet(DOMAIN made)
    BY <1>0, <1>1 DEF Shape, Made
  <2> QED BY ONLY <2>1, <1>2, FS_Union
<1>10. ASSUME NEW e \in DOMAIN its2
       PROVE  /\ IsItem(its2[e]) /\ IsSeq(its2[e].attrs)
              /\ \A i \in 1..Len(its2[e].attrs) : its2[e].attrs[i][1] \in UserOnly =>
                    e \in DOMAIN p /\ its2[e].attrs[i] \in Range(p[e].attrs)
  <2>1. CASE e = d
    <3>1. \A j \in 1..Len(a) : a[j][1] \in UserOnly => d \in DOMAIN p /\ a[j] \in Range(p[d].attrs)
      BY <1>0, <1>1 DEF Shape
    <3>2. its2[e] = new /\ IsItem(new) /\ IsSeq(new.attrs)
      BY <2>1, <1>0, <1>2, <1>8
    <3> HIDE DEF a
    <3>3. \A i \in 1..Len(new.attrs) : new.attrs[i][1] \in UserOnly =>
             d \in DOMAIN p /\ new.attrs[i] \in Range(p[d].attrs)
      BY <3>1, <1>0, <1>8
    <3> QED BY <2>1, <3>2, <3>3
  <2>2. CASE e \in DOMAIN its /\ e # d
    BY <2>2, <1>1, <1>2 DEF Shape
  <2>3. CASE e \in DOMAIN made \ DOMAIN its
    BY <2>3, <1>0, <1>2 DEF Made
  <2> QED BY <2>1, <2>2, <2>3, <1>2
<1>11. Shape(p, its2)
  BY <1>2, <1>9, <1>10 DEF Shape
<1> QED BY <1>2, <1>3, <1>4, <1>8, <1>11 DEF StepOf

\* Where nothing is translated.
LEMMA OneItemNoTrace ==
    ASSUME NEW how, NEW p, NEW its, NEW n, NEW its2, NEW n2, NEW d, NEW k, NEW P, NEW new, NEW made,
           how # "translated", OneItem(how, p, its, n, its2, n2, d, k, P, new, made),
           \A i \in 1..Len(P) : P[i][1] \in MacroTags \cup Plain,
           \/ new.body = its[d].body /\ new.inputs = its[d].inputs
           \/ d \in DOMAIN p /\ PanicFree(p[d]),
           MadeOrdinary(made)
    PROVE  Sound(how, p, its2, n2)
<1>0. Sound(how, p, its, n) /\ n2 \in Nat /\ d \in DOMAIN its
  BY DEF OneItem
<1>1. /\ DOMAIN its2 = DOMAIN its \cup DOMAIN made
      /\ its2[d] = new /\ \A e \in DOMAIN its : e # d => its2[e] = its[e]
      /\ \A c \in DOMAIN made \ DOMAIN its : its2[c] = made[c]
      /\ DOMAIN made \cap DOMAIN p = {}
      /\ \A i \in 1..Len(new.attrs) :
            \/ \E j \in 1..Len(P) : new.attrs[i] = P[j]
            \/ \E j \in 1..Len(its[d].attrs) : new.attrs[i] = its[d].attrs[j]
      /\ Shape(p, its2)
  <2>1. StepOf(p, its, n, its2, n2, d, P, new, made)
    BY OneItemFacts
  <2> QED BY <2>1 DEF StepOf
<1>2. p \in Programs /\ NoTrace(p, its)
  BY <1>0 DEF Sound
<1>3. \A c \in DOMAIN its2 \ DOMAIN p : c[2] \in {"mod", "Refinement", "Deref", "RefineAs"}
  BY <1>1, <1>2 DEF NoTrace, MadeOrdinary
<1>4. ASSUME NEW e \in DOMAIN its2, NEW i \in 1..Len(its2[e].attrs)
      PROVE  its2[e].attrs[i][1] \in MacroTags \cup Plain
  <2>1. CASE e = d
    <3>1. \A j \in 1..Len(its[d].attrs) : its[d].attrs[j][1] \in MacroTags \cup Plain
      BY <1>0, <1>2 DEF NoTrace
    <3>2. /\ \A j \in 1..Len(P) : P[j][1] \in MacroTags \cup Plain
          /\ \/ \E j \in 1..Len(P) : its2[e].attrs[i] = P[j]
             \/ \E j \in 1..Len(its[d].attrs) : its2[e].attrs[i] = its[d].attrs[j]
      BY <2>1, <1>1, <1>0, <1>4
    <3> QED BY ONLY <3>1, <3>2
  <2>2. CASE e \in DOMAIN its /\ e # d
    BY <2>2, <1>1, <1>2, <1>4 DEF NoTrace
  <2>3. CASE e \in DOMAIN made \ DOMAIN its
    BY <2>3, <1>1, <1>4 DEF MadeOrdinary
  <2> QED BY <2>1, <2>2, <2>3, <1>1
<1>5. ASSUME NEW e \in DOMAIN p \cap DOMAIN its2
      PROVE  \/ its2[e].body = p[e].body /\ its2[e].inputs = p[e].inputs
             \/ PanicFree(p[e])
  <2>1. e \in DOMAIN its
    BY <1>1
  <2>2. \/ its[e].body = p[e].body /\ its[e].inputs = p[e].inputs
        \/ PanicFree(p[e])
    BY <2>1, <1>2 DEF NoTrace
  <2> QED BY <2>1, <2>2, <1>1
<1>6. NoTrace(p, its2)
  BY <1>3, <1>4, <1>5 DEF NoTrace
<1> QED BY <1>0, <1>1, <1>2, <1>6 DEF Sound

\* Where the package is translated, new items are companions of their own uids.
LEMMA OneItemCompanions ==
    ASSUME NEW how, NEW p, NEW its, NEW n, NEW its2, NEW n2, NEW d, NEW k, NEW P, NEW new, NEW made,
           how = "translated", OneItem(how, p, its, n, its2, n2, d, k, P, new, made),
           d \notin DOMAIN p => IsCompanion(its2, d),
           new.parent \in DOMAIN its2 \cup {NoItem}, MadeUnder(its, made)
    PROVE  Companions(p, its2, n2)
<1>0. /\ Sound(how, p, its, n) /\ n2 \in Nat /\ n <= n2 /\ d \in DOMAIN its
      /\ Made((n + 1)..n2, made)
  BY DEF OneItem
<1>1. StepOf(p, its, n, its2, n2, d, P, new, made)
  BY OneItemFacts
<1>2. /\ DOMAIN its2 = DOMAIN its \cup DOMAIN made
      /\ its2[d] = new /\ \A e \in DOMAIN its : e # d => its2[e] = its[e]
      /\ \A c \in DOMAIN made \ DOMAIN its : its2[c] = made[c]
      /\ DOMAIN made \cap DOMAIN p = {}
      /\ \A c \in DOMAIN made : c \in ((n + 1)..n2) \X CompanionKinds
  BY <1>1 DEF StepOf
<1>3. /\ n \in Nat /\ DOMAIN p \subseteq DOMAIN its
      /\ \A e \in DOMAIN its : its[e].parent \in DOMAIN its \cup {NoItem}
      /\ \A c \in DOMAIN its \ DOMAIN p : c \in (1..n) \X CompanionKinds /\ IsCompanion(its, c)
  BY <1>0 DEF Sound, Companions
<1>4. \A i \in 1..n : i \in 1..n2 /\ i \notin (n + 1)..n2
  BY <1>0, <1>3
<1>5. \A i \in (n + 1)..n2 : i \in 1..n2
  BY <1>0, <1>3
<1>6. ASSUME NEW c \in DOMAIN its \ DOMAIN p
      PROVE  c \in (1..n2) \X CompanionKinds /\ IsCompanion(its2, c)
  <2>1. PICK i \in 1..n, kind \in CompanionKinds : c = <<i, kind>>
    BY <1>3, <1>6
  <2>2. c \in (1..n2) \X CompanionKinds
    BY <2>1, <1>4
  <2>3. CASE c = d
    BY <2>2, <2>3, <1>6
  <2>4. CASE c # d
    <3>1. IsCompanion(its, c) /\ its2[c] = its[c] /\ DOMAIN its \subseteq DOMAIN its2
      BY <2>4, <1>2, <1>3, <1>6
    <3> QED BY <2>2, <3>1, CompanionKept
  <2> QED BY <2>3, <2>4
<1>7. ASSUME NEW c \in DOMAIN made
      PROVE  /\ c \notin DOMAIN its
             /\ c \in (1..n2) \X CompanionKinds /\ IsCompanion(its2, c)
  <2>1. PICK i \in (n + 1)..n2, kind \in CompanionKinds : c = <<i, kind>>
    BY <1>2, <1>7
  <2>2. c \in (1..n2) \X CompanionKinds
    BY <2>1, <1>5
  <2>3. c \notin DOMAIN its
    <3>1. SUFFICES ASSUME c \in DOMAIN its PROVE FALSE
      OBVIOUS
    <3>2. c \in (1..n) \X CompanionKinds
      BY <3>1, <1>2, <1>3, <1>7
    <3>3. i \in 1..n
      BY <3>2, <2>1
    <3> QED BY <3>3, <1>4
  <2>4. IsCompanion(made, c) /\ its2[c] = made[c] /\ DOMAIN made \subseteq DOMAIN its2
    BY <2>3, <1>0, <1>2, <1>7 DEF Made
  <2> QED BY <2>2, <2>3, <2>4, CompanionKept
<1>8. ASSUME NEW e \in DOMAIN its2 PROVE its2[e].parent \in DOMAIN its2 \cup {NoItem}
  <2>1. CASE e = d
    BY <2>1, <1>2
  <2>2. CASE e \in DOMAIN its /\ e # d
    BY <2>2, <1>2, <1>3
  <2>3. CASE e \in DOMAIN made
    <3>1. e \notin DOMAIN its
      BY <2>3, <1>7
    <3> QED BY <2>3, <3>1, <1>2 DEF MadeUnder
  <2> QED BY <2>1, <2>2, <2>3, <1>2
<1> QED BY <1>2, <1>3, <1>6, <1>7, <1>8 DEF Companions

\* The companions there are keep their bodies, if d is of the source.
LEMMA OneItemBodies ==
    ASSUME NEW how, NEW p, NEW its, NEW n, NEW its2, NEW n2, NEW d, NEW k, NEW P, NEW new, NEW made,
           OneItem(how, p, its, n, its2, n2, d, k, P, new, made),
           d \in DOMAIN p \/ new.body = its[d].body
    PROVE  BodiesKept(its, its2, n)
<1>0. Sound(how, p, its, n) /\ d \in DOMAIN its
  BY DEF OneItem
<1>1. StepOf(p, its, n, its2, n2, d, P, new, made)
  BY OneItemFacts
<1>2. its2[d] = new /\ \A e \in DOMAIN its : e # d => its2[e] = its[e]
  BY <1>1 DEF StepOf
<1>3. p \in Programs /\ n \in Nat
  BY <1>0 DEF Sound
<1>4. \A e \in DOMAIN p : e \notin Nat \X CompanionKinds
  BY <1>3, ProgramsAssumption
<1>5. ASSUME NEW u \in 1..n, <<u, "fn">> \in DOMAIN its
      PROVE  its2[<<u, "fn">>].body = its[<<u, "fn">>].body
  <2>1. <<u, "fn">> \in Nat \X CompanionKinds
    BY <1>3 DEF CompanionKinds
  <2>2. <<u, "fn">> \notin DOMAIN p
    BY <2>1, <1>4
  <2> QED BY <2>2, <1>2, <1>5
<1> QED BY <1>5 DEF BodiesKept

\* A step on an item of the source, whose formula goes to the companion u.
OwnItem(p, its, its2, n, n2, d, k, P, new, made, r, u, src, j) ==
    /\ d \in DOMAIN p /\ Taken(p, its, its2, n, d, k, P, r, u, src, j)
    /\ its[d].attrs[k][1] # "lemma" \/ new.output[1] # "proof"
    /\ r \in Roles => u \in 1..n2 /\ <<u, "fn">> \in DOMAIN its2
    /\ new.parent \in DOMAIN its2 \cup {NoItem} /\ MadeUnder(its, made)

LEMMA OneItemOwn ==
    ASSUME NEW how, NEW p, NEW its, NEW n, NEW its2, NEW n2, NEW d, NEW k, NEW P, NEW new, NEW made,
           how = "translated", OneItem(how, p, its, n, its2, n2, d, k, P, new, made),
           NEW r, NEW u, NEW src, NEW j, OwnItem(p, its, its2, n, n2, d, k, P, new, made, r, u, src, j)
    PROVE  Sound(how, p, its2, n2)
<1>0. /\ Sound(how, p, its, n) /\ n2 \in Nat /\ n <= n2 /\ d \in DOMAIN its /\ k \in 1..Len(its[d].attrs)
      /\ IsSeq(P) /\ new.attrs = P \o RemoveAt(its[d].attrs, k)
  BY DEF OneItem
<1>00. /\ d \in DOMAIN p /\ Taken(p, its, its2, n, d, k, P, r, u, src, j)
       /\ its[d].attrs[k][1] # "lemma" \/ new.output[1] # "proof"
       /\ r \in Roles => u \in 1..n2 /\ <<u, "fn">> \in DOMAIN its2
       /\ new.parent \in DOMAIN its2 \cup {NoItem} /\ MadeUnder(its, made)
  BY DEF OwnItem
<1>1. StepOf(p, its, n, its2, n2, d, P, new, made)
  BY OneItemFacts
<1>2. /\ DOMAIN its2 = DOMAIN its \cup DOMAIN made /\ Shape(p, its2)
      /\ its2[d] = new /\ \A e \in DOMAIN its : e # d => its2[e] = its[e]
  BY <1>1 DEF StepOf
<1>3. /\ p \in Programs /\ n \in Nat /\ Attached(p, its, n) /\ DOMAIN p \subseteq DOMAIN its
      /\ \A e \in DOMAIN its : IsSeq(its[e].attrs)
  BY <1>0 DEF Sound, Companions, Shape
<1>4. Companions(p, its2, n2)
  BY <1>00, OneItemCompanions
<1>5. BodiesKept(its, its2, n)
  BY <1>00, OneItemBodies
<1>6. InItsPlace(p, its, its2, n, d, k, P, r, u, src, j)
  BY <1>0, <1>00, <1>2, <1>3, <1>5 DEF InItsPlace
<1>7. OwnStep(p, its, its2, n, n2, d, k, P, r, u, src, j)
  BY <1>0, <1>00, <1>2, <1>3, <1>6 DEF OwnStep
<1>8. Attached(p, its2, n2)
  BY <1>7, OwnStepAttached
<1> QED BY <1>0, <1>2, <1>3, <1>4, <1>8 DEF Sound

-----------------------------------------------------------------------------
(* What a macro is expanded on, and what it leaves *)

\* Where d is the item of a macro.
AtMacro(d) == IInv /\ d \in DOMAIN items /\ MacrosOf(d) # {} /\ stage = "expand"

LEMMA AtMacroFacts ==
    ASSUME NEW d, AtMacro(d)
    PROVE  /\ Sound(build.how, program, items, uids) /\ uids \in Nat
           /\ d \in DOMAIN items /\ NextMacro(d) \in 1..Len(items[d].attrs)
           /\ Macro(d) = items[d].attrs[NextMacro(d)] /\ Macro(d)[1] \in MacroTags
           /\ Rest(d) = RemoveAt(items[d].attrs, NextMacro(d)) /\ IsSeq(Rest(d))
           /\ IsItem(items[d]) /\ IsSeq(items[d].attrs)
           /\ Macro(d)[1] \in UserOnly => d \in DOMAIN program /\ Macro(d) \in Range(program[d].attrs)
<1>1. Sound(build.how, program, items, uids) /\ d \in DOMAIN items /\ MacrosOf(d) # {}
  BY DEF AtMacro, IInv
<1>2. uids \in Nat /\ Shape(program, items)
  BY <1>1 DEF Sound
<1>3. /\ IsItem(items[d]) /\ IsSeq(items[d].attrs)
      /\ \A k \in 1..Len(items[d].attrs) : items[d].attrs[k][1] \in UserOnly =>
            d \in DOMAIN program /\ items[d].attrs[k] \in Range(program[d].attrs)
  BY <1>1, <1>2 DEF Shape
<1>4. /\ NextMacro(d) \in 1..Len(items[d].attrs)
      /\ Macro(d) = items[d].attrs[NextMacro(d)] /\ Macro(d)[1] \in MacroTags
  BY <1>1, <1>3, MacroFacts
<1>5. Rest(d) = RemoveAt(items[d].attrs, NextMacro(d)) /\ IsSeq(Rest(d))
  BY <1>3, <1>4, RemoveAtFacts DEF Rest
<1> QED BY <1>1, <1>2, <1>3, <1>4, <1>5

\* The only companions with a macro are the implementations of a refinement type.
LEMMA CompanionMacro ==
    ASSUME NEW d, AtMacro(d), Translated, d \notin DOMAIN program
    PROVE  /\ Macro(d) = <<"exclude">> /\ NextMacro(d) = 1 /\ items[d].attrs = <<<<"exclude">>>>
           /\ d[2] \in {"Refinement", "Deref", "RefineAs"} /\ items[d].kind = "impl"
<1> DEFINE item == items[d]
           u == d[1]
           k == NextMacro(d)
<1>1. IsCompanion(items, d)
  <2>1. Companions(program, items, uids) /\ d \in DOMAIN items
    BY AtMacroFacts DEF Sound, Translated
  <2> QED BY <2>1 DEF Companions
<1>2. k \in 1..Len(item.attrs) /\ Macro(d) = item.attrs[k] /\ Macro(d)[1] \in MacroTags
  BY AtMacroFacts
<1>3. \/ item.attrs = <<>>
      \/ item.attrs = <<LateSkip>>
      \/ item.attrs = <<LateSkip, <<"Language">>>>
      \/ item.attrs = <<<<"Uid", u>>, LateSkip>>
      \/ item.attrs = DecorationAttrs(u)
      \/ /\ Len(item.attrs) = 3 /\ item.attrs[1] = <<"NeverErased">>
         /\ item.attrs[2] = <<"Uid", u>> /\ item.attrs[3][1] = "ItemQuote"
      \/ /\ item.attrs = <<<<"exclude">>>> \/ item.attrs = <<<<"ItemStatus", "excluded">>>>
         /\ d[2] \in {"Refinement", "Deref", "RefineAs"} /\ item.kind = "impl"
  BY <1>1 DEF IsCompanion, DecorationAttrs
<1>4. {"Uid", "ItemStatus", "Language", "NeverErased", "ItemQuote"} \cap MacroTags = {}
  BY DEF MacroTags, Markers, DecorationKinds
<1> HIDE DEF item, k
<1>5. CASE item.attrs = <<>>
  BY <1>2, <1>5, EmptyIsSeq
<1>6. CASE item.attrs = <<LateSkip>>
  <2>1. k = 1
    BY <1>2, <1>6, OneIsSeq
  <2> QED BY <2>1, <1>2, <1>4, <1>6, OneIsSeq DEF LateSkip
<1>7. CASE item.attrs = <<LateSkip, <<"Language">>>>
  <2>0. Len(item.attrs) = 2
    BY <1>7, TwoIsSeq
  <2>1. k = 1 \/ k = 2
    BY <1>2, <2>0
  <2> QED BY <2>1, <1>2, <1>4, <1>7, TwoIsSeq DEF LateSkip
<1>8. CASE item.attrs = <<<<"Uid", u>>, LateSkip>>
  <2>0. Len(item.attrs) = 2
    BY <1>8, TwoIsSeq
  <2>1. k = 1 \/ k = 2
    BY <1>2, <2>0
  <2> QED BY <2>1, <1>2, <1>4, <1>8, TwoIsSeq DEF LateSkip
<1>9. CASE item.attrs = DecorationAttrs(u)
  <2>0. Len(item.attrs) = 3
    BY <1>9, DecorationAttrsFacts
  <2>1. k = 1 \/ k = 2 \/ k = 3
    BY <1>2, <2>0
  <2>2. item.attrs[1] = <<"Uid", u>> /\ item.attrs[2] = LateSkip /\ item.attrs[3] = <<"NeverErased">>
    BY <1>9, DecorationAttrsFacts
  <2> QED BY <2>1, <2>2, <1>2, <1>4 DEF LateSkip
<1>10. CASE /\ Len(item.attrs) = 3 /\ item.attrs[1] = <<"NeverErased">>
            /\ item.attrs[2] = <<"Uid", u>> /\ item.attrs[3][1] = "ItemQuote"
  <2>1. k = 1 \/ k = 2 \/ k = 3
    BY <1>2, <1>10
  <2> QED BY <2>1, <1>2, <1>4, <1>10
<1>11. CASE item.attrs = <<<<"ItemStatus", "excluded">>>>
  <2>1. k = 1
    BY <1>2, <1>11, OneIsSeq
  <2> QED BY <2>1, <1>2, <1>4, <1>11, OneIsSeq
<1>12. CASE /\ item.attrs = <<<<"exclude">>>>
            /\ d[2] \in {"Refinement", "Deref", "RefineAs"} /\ item.kind = "impl"
  <2>1. k = 1
    BY <1>2, <1>12, OneIsSeq
  <2> QED BY <2>1, <1>2, <1>12, OneIsSeq DEF item, k
<1> QED BY <1>3, <1>5, <1>6, <1>7, <1>8, <1>9, <1>10, <1>11, <1>12

\* A step that leaves the stage and the build.
LEMMA SoundStep ==
    ASSUME Sound(build.how, program, items', uids'), build' = build, program' = program, stage' = "expand"
    PROVE  IInv'
<1>1. Sound(build.how, program, items, uids)'
  OBVIOUS
<1> QED BY <1>1 DEF IInv

LEMMA FailsStep == ASSUME NEW why, IInv, stage = "expand", Fails(why) PROVE IInv'
<1>1. /\ items' = items /\ uids' = uids /\ build' = build /\ program' = program /\ stage' = "expand"
  BY DEF Fails
<1>2. Sound(build.how, program, items', uids')
  BY <1>1 DEF IInv
<1> QED BY <1>1, <1>2, SoundStep

\* The step that the expansion of the macro of d is.
LEMMA Expansions ==
    ASSUME NEW d, AtMacro(d), NEW its2, NEW n2 \in Nat, uids <= n2, NEW P, NEW new, NEW made,
           IsItem(new), IsSeq(P), new.attrs = P \o Rest(d),
           \A i \in 1..Len(P) : P[i][1] \notin UserOnly,
           Made((uids + 1)..n2, made), its2 = Joined(Changed(d, new), made)
    PROVE  OneItem(build.how, program, items, uids, its2, n2, d, NextMacro(d), P, new, made)
<1>1. Changed(d, new) = [items EXCEPT ![d] = new]
  BY DEF Changed
<1> QED BY <1>1, AtMacroFacts DEF OneItem

-----------------------------------------------------------------------------
(* The macros, one by one *)

LEMMA PayloadFacts ==
    ASSUME NEW x
    PROVE  /\ Translated => Payload(x) = <<x>>
           /\ ~ Translated => Payload(x) = <<>>
           /\ IsSeq(Payload(x)) /\ \A i \in 1..Len(Payload(x)) : Translated /\ Payload(x)[i] = x
<1>1. CASE Translated
  <2>1. Payload(x) = <<x>>
    BY <1>1 DEF Payload
  <2>2. IsSeq(<<x>>) /\ Len(<<x>>) = 1 /\ <<x>>[1] = x
    BY OneIsSeq
  <2>3. \A i \in 1..1 : i = 1
    OBVIOUS
  <2> QED BY <1>1, <2>1, <2>2, <2>3
<1>2. CASE ~ Translated
  <2>1. Payload(x) = <<>>
    BY <1>2 DEF Payload
  <2> QED BY <1>2, <2>1, EmptyIsSeq
<1> QED BY <1>1, <1>2

\* A macro that is of no formula, on an item of the source: P takes its place.
Alone(d, P, new, made, its2, n2) ==
    /\ AtMacro(d) /\ IsItem(new) /\ IsSeq(P) /\ new.attrs = P \o Rest(d)
    /\ \A i \in 1..Len(P) : P[i][1] \notin UserOnly
    /\ \A i \in 1..Len(P), role \in Roles : ~ Carries(P[i], role)
    /\ ~ Translated => MadeOrdinary(made) /\ \A i \in 1..Len(P) : P[i][1] \in MacroTags \cup Plain
    /\ \A role \in Roles : ~ Carries(Macro(d), role)
    /\ Macro(d)[1] # "lemma" \/ new.output[1] # "proof"
    /\ new.output = items[d].output /\ new.parent = items[d].parent
    /\ \/ new.body = items[d].body /\ new.inputs = items[d].inputs
       \/ d \in DOMAIN program /\ PanicFree(program[d])
    /\ Translated => d \in DOMAIN program
    /\ its2 = Joined(Changed(d, new), made)
    /\ n2 \in Nat /\ uids <= n2 /\ Made((uids + 1)..n2, made) /\ MadeUnder(items, made)

LEMMA AloneStep ==
    ASSUME NEW d, NEW P, NEW new, NEW made, NEW its2, NEW n2, Alone(d, P, new, made, its2, n2)
    PROVE  Sound(build.how, program, its2, n2)
<1> DEFINE k == NextMacro(d)
           n == uids
           p == program
<1>00. /\ AtMacro(d) /\ IsItem(new) /\ IsSeq(P) /\ new.attrs = P \o Rest(d)
       /\ \A i \in 1..Len(P) : P[i][1] \notin UserOnly
       /\ \A i \in 1..Len(P), role \in Roles : ~ Carries(P[i], role)
       /\ ~ Translated => MadeOrdinary(made) /\ \A i \in 1..Len(P) : P[i][1] \in MacroTags \cup Plain
       /\ \A role \in Roles : ~ Carries(Macro(d), role)
       /\ Macro(d)[1] # "lemma" \/ new.output[1] # "proof"
       /\ new.output = items[d].output /\ new.parent = items[d].parent
       /\ \/ new.body = items[d].body /\ new.inputs = items[d].inputs
          \/ d \in DOMAIN program /\ PanicFree(program[d])
       /\ Translated => d \in DOMAIN program
       /\ its2 = Joined(Changed(d, new), made)
       /\ n2 \in Nat /\ uids <= n2 /\ Made((uids + 1)..n2, made) /\ MadeUnder(items, made)
  BY DEF Alone
<1>0. /\ Sound(build.how, p, items, n) /\ n \in Nat /\ d \in DOMAIN items
      /\ k \in 1..Len(items[d].attrs) /\ Macro(d) = items[d].attrs[k]
  BY <1>00, AtMacroFacts
<1>1. OneItem(build.how, p, items, n, its2, n2, d, k, P, new, made)
  BY <1>00, Expansions
<1>2. StepOf(p, items, n, its2, n2, d, P, new, made)
  BY <1>1, OneItemFacts
<1>3. DOMAIN its2 = DOMAIN items \cup DOMAIN made /\ its2[d] = new
  BY <1>2 DEF StepOf
<1> HIDE DEF k, n, p
<1>4. CASE ~ Translated
  <2>1. build.how # "translated"
    BY <1>4 DEF Translated
  <2>2. \/ new.body = items[d].body /\ new.inputs = items[d].inputs
        \/ d \in DOMAIN p /\ PanicFree(p[d])
    BY <1>00 DEF p
  <2>3. MadeOrdinary(made) /\ \A i \in 1..Len(P) : P[i][1] \in MacroTags \cup Plain
    BY <1>00, <1>4
  <2>4. Sound(build.how, p, its2, n2)
    BY ONLY <1>1, <2>1, <2>2, <2>3, OneItemNoTrace
  <2> QED BY <2>4 DEF p
<1>5. CASE Translated
  <2>1. build.how = "translated"
    BY <1>5 DEF Translated
  <2>2. d \in DOMAIN p
    BY <1>00, <1>5 DEF p
  <2>3. Taken(p, items, its2, n, d, k, P, "none", 0, 0, 0)
    <3>1. \A role \in Roles : ~ Carries(items[d].attrs[k], role)
      BY <1>00, <1>0
    <3>2. its2[d].output = items[d].output
      BY <1>00, <1>3
    <3> QED BY <1>00, <3>1, <3>2, TakenNone
  <2>4. items[d].parent \in DOMAIN items \cup {NoItem}
    BY <1>0, <2>1 DEF Sound, Companions
  <2>5. "none" \notin Roles
    BY DEF Roles
  <2>6. OwnItem(p, items, its2, n, n2, d, k, P, new, made, "none", 0, 0, 0)
    BY <1>00, <1>0, <1>3, <2>2, <2>3, <2>4, <2>5 DEF OwnItem
  <2>7. Sound(build.how, p, its2, n2)
    BY ONLY <1>1, <2>1, <2>6, OneItemOwn
  <2> QED BY <2>7 DEF p
<1> QED BY <1>4, <1>5

LEMMA MarkStep == ASSUME NEW d \in DOMAIN items, IInv, Mark(d), d \in DOMAIN program \/ ~ Translated PROVE IInv'
<1> DEFINE m == Macro(d)[1]
           P == Payload(Markers[m])
           new == WithAttrs(items[d], P \o Rest(d))
<1>1. /\ stage = "expand" /\ MacrosOf(d) # {} /\ m \in DOMAIN Markers
      /\ items' = Joined(Changed(d, new), NoItems)
      /\ uids' = uids /\ build' = build /\ program' = program /\ stage' = "expand"
  BY DEF Mark, Expanding, Ready, Expands
<1>2. AtMacro(d)
  BY <1>1 DEF AtMacro
<1>3. IsSeq(P) /\ \A i \in 1..Len(P) : Translated /\ P[i] = Markers[m]
  BY PayloadFacts
<1>4. /\ Markers[m][1] \in {"ItemStatus", "Erased", "NeverErased", "ProcessRead", "PVHandwritten"}
      /\ m \in {"include", "exclude", "opaque", "transparent", "process_read", "pv_handwritten"}
  BY <1>1 DEF Markers
<1>5. \A role \in Roles : ~ Carries(Macro(d), role) /\ ~ Carries(Markers[m], role)
  BY <1>4, CarriesTags
<1>6. m \notin UserOnly /\ Markers[m][1] \notin UserOnly
  BY <1>4 DEF UserOnly
<1> HIDE DEF P
<1>7. /\ IsItem(new) /\ new.attrs = P \o Rest(d)
      /\ new.parent = items[d].parent /\ new.inputs = items[d].inputs
      /\ new.output = items[d].output /\ new.body = items[d].body
  <2> DEFINE a == P \o Rest(d)
             x == items[d]
  <2>1. IsItem(x)
    BY <1>2, AtMacroFacts
  <2> HIDE DEF a, x
  <2>2. /\ IsItem(WithAttrs(x, a)) /\ WithAttrs(x, a).attrs = a
        /\ WithAttrs(x, a).parent = x.parent /\ WithAttrs(x, a).inputs = x.inputs
        /\ WithAttrs(x, a).output = x.output /\ WithAttrs(x, a).body = x.body
    BY ONLY <2>1, WithAttrsIsItem
  <2> QED BY ONLY <2>2 DEF a, x
<1> HIDE DEF new
<1>8. Made((uids + 1)..uids, NoItems) /\ MadeUnder(items, NoItems) /\ MadeOrdinary(NoItems)
  BY NoItemsMade DEF MadeUnder
<1>9. uids \in Nat /\ uids <= uids
  BY <1>2, AtMacroFacts
<1>10. Alone(d, P, new, NoItems, items', uids)
  BY <1>1, <1>2, <1>3, <1>5, <1>6, <1>7, <1>8, <1>9 DEF Alone, UserOnly
<1>11. Sound(build.how, program, items', uids')
  BY <1>1, <1>10, AloneStep
<1> QED BY <1>1, <1>11, SoundStep

\* The implementations of a refinement type are marked.
LEMMA MarkOnCompanionStep ==
    ASSUME NEW d \in DOMAIN items, IInv, Mark(d), Translated, d \notin DOMAIN program PROVE IInv'
<1> DEFINE P == <<<<"ItemStatus", "excluded">>>>
           new == WithAttrs(items[d], P \o Rest(d))
           k == NextMacro(d)
<1>0. /\ stage = "expand" /\ MacrosOf(d) # {}
      /\ items' = Joined(Changed(d, WithAttrs(items[d], Payload(Markers[Macro(d)[1]]) \o Rest(d))), NoItems)
      /\ uids' = uids /\ build' = build /\ program' = program /\ stage' = "expand"
  BY DEF Mark, Expanding, Ready, Expands
<1>1. AtMacro(d)
  BY <1>0 DEF AtMacro
<1>2. /\ Macro(d) = <<"exclude">> /\ k = 1 /\ items[d].attrs = <<<<"exclude">>>>
      /\ d[2] \in {"Refinement", "Deref", "RefineAs"} /\ items[d].kind = "impl"
  BY <1>1, CompanionMacro
<1>3. Payload(Markers[Macro(d)[1]]) = P
  BY <1>2 DEF Payload, Markers
<1>4. IsSeq(P) /\ Len(P) = 1 /\ P[1] = <<"ItemStatus", "excluded">>
  BY OneIsSeq
<1>5. IsSeq(Rest(d)) /\ Len(Rest(d)) = 0
  <2>1. Rest(d) = RemoveAt(items[d].attrs, 1) /\ IsSeq(Rest(d))
    BY <1>1, <1>2, AtMacroFacts
  <2>2. IsSeq(items[d].attrs) /\ Len(items[d].attrs) = 1
    BY <1>2, OneIsSeq
  <2>3. 1 \in 1..Len(items[d].attrs)
    BY <2>2
  <2>4. Len(RemoveAt(items[d].attrs, 1)) = Len(items[d].attrs) - 1
    BY ONLY <2>2, <2>3, RemoveAtFacts
  <2> QED BY <2>1, <2>2, <2>4
<1> HIDE DEF P
<1>6. P \o Rest(d) = P
  <2> DEFINE q == Rest(d)
  <2>1. IsSeq(P) /\ IsSeq(q)
    BY <1>4, <1>5
  <2> HIDE DEF q
  <2>2. /\ IsSeq(P \o q) /\ Len(P \o q) = Len(P) + Len(q)
        /\ \A i \in 1..Len(P) : (P \o q)[i] = P[i]
    BY ONLY <2>1, ConcatIsSeq
  <2>3. Len(P \o q) = Len(P)
    BY <2>2, <1>4, <1>5 DEF q
  <2>4. P \o q = P
    BY <2>1, <2>2, <2>3, SameSeq
  <2> QED BY <2>4 DEF q
<1>7. /\ IsItem(new) /\ new.attrs = P \o Rest(d) /\ new.attrs = P /\ new.kind = "impl"
      /\ new.parent = items[d].parent /\ new.body = items[d].body
  BY <1>1, <1>2, <1>6, AtMacroFacts, WithAttrsIsItem
<1>8. items' = Joined(Changed(d, new), NoItems)
  BY <1>0, <1>3
<1> HIDE DEF new
<1>9. Made((uids + 1)..uids, NoItems) /\ MadeUnder(items, NoItems)
  BY NoItemsMade DEF MadeUnder
<1>10. uids \in Nat /\ uids <= uids /\ Sound(build.how, program, items, uids)
  BY <1>1, AtMacroFacts
<1>11. \A i \in 1..Len(P) : P[i][1] \notin UserOnly
  BY <1>4 DEF UserOnly
<1>12. OneItem(build.how, program, items, uids, items', uids, d, k, P, new, NoItems)
  BY <1>1, <1>4, <1>7, <1>8, <1>9, <1>10, <1>11, Expansions
<1> HIDE DEF k
<1>13. StepOf(program, items, uids, items', uids, d, P, new, NoItems)
  BY <1>12, OneItemFacts
<1>14. /\ DOMAIN items' = DOMAIN items /\ items'[d] = new /\ Shape(program, items')
       /\ \A e \in DOMAIN items : e # d => items'[e] = items[e]
  BY <1>13, NoItemsMade DEF StepOf
<1>15. IsCompanion(items', d)
  BY <1>2, <1>7, <1>14 DEF IsCompanion, P
<1>16. /\ program \in Programs /\ Attached(program, items, uids) /\ DOMAIN program \subseteq DOMAIN items
       /\ items[d].parent \in DOMAIN items \cup {NoItem}
       /\ \A e \in DOMAIN items : IsSeq(items[e].attrs)
  BY <1>10 DEF Sound, Companions, Shape, Translated
<1>17. Companions(program, items', uids)
  <2>1. new.parent \in DOMAIN items' \cup {NoItem} /\ build.how = "translated"
    BY <1>7, <1>14, <1>16 DEF Translated
  <2> QED BY <2>1, <1>9, <1>12, <1>15, OneItemCompanions
<1>18. BodiesKept(items, items', uids)
  BY <1>7, <1>12, OneItemBodies
<1>19. Attached(program, items', uids)
  <2>1. \A e \in DOMAIN program : items'[e] = items[e] /\ IsSeq(items[e].attrs)
    BY <1>14, <1>16
  <2> QED BY <2>1, <1>10, <1>14, <1>16, <1>18, OthersAttached
<1>20. Sound(build.how, program, items', uids')
  BY <1>0, <1>10, <1>14, <1>16, <1>17, <1>19 DEF Sound, Translated
<1> QED BY <1>0, <1>20, SoundStep

\* A macro with the formula phi of a role, on an item of the source.
OfFormula(d, role, phi) ==
    /\ Translated => d \in DOMAIN program
    /\ Carries(Macro(d), role) /\ \A other \in Roles : Carries(Macro(d), other) => other = role
    /\ Said(items, Macro(d)) = phi.says /\ Macro(d)[1] \notin UserOnly

LEMMA AssocAttrFacts ==
    ASSUME NEW r, NEW u
    PROVE  /\ AssocAttr(r, u) = Payload(<<"AssociatedItem", r, u>>)
           /\ IsSeq(AssocAttr(r, u))
           /\ ~ Translated => AssocAttr(r, u) = <<>>
           /\ Translated => Len(AssocAttr(r, u)) = 1 /\ AssocAttr(r, u)[1] = <<"AssociatedItem", r, u>>
           /\ \A i \in 1..Len(AssocAttr(r, u)) : Translated /\ AssocAttr(r, u)[i] = <<"AssociatedItem", r, u>>
<1> DEFINE x == <<"AssociatedItem", r, u>>
<1>1. AssocAttr(r, u) = Payload(x)
  BY DEF AssocAttr
<1> HIDE DEF x
<1>2. /\ Translated => Payload(x) = <<x>>
      /\ ~ Translated => Payload(x) = <<>>
      /\ IsSeq(Payload(x)) /\ \A i \in 1..Len(Payload(x)) : Translated /\ Payload(x)[i] = x
  BY PayloadFacts
<1>3. Len(<<x>>) = 1 /\ <<x>>[1] = x
  BY OneIsSeq
<1> QED BY <1>1, <1>2, <1>3 DEF x

\* A macro whose formula goes from the place src to the companion of a new uid,
\* which P[j] names.
WithFormula(d, P, new, made, r, src, j) ==
    /\ ~ Translated => /\ MadeOrdinary(made) /\ P = <<>>
                       /\ new.body = items[d].body /\ new.inputs = items[d].inputs
    /\ Translated =>
          /\ d \in DOMAIN program
          /\ <<uids + 1, "fn">> \in DOMAIN made /\ made[<<uids + 1, "fn">>].body.says = SaidAt(items, d, src)
          /\ j \in 1..Len(P) /\ P[j] = <<"AssociatedItem", r, uids + 1>>
          /\ \A i \in 1..Len(P), role \in Roles : Carries(P[i], role) => r \in Roles /\ i = j
          /\ src \in {0, NextMacro(d)} /\ (r \in Roles => src \in Places(program, items, d, r))
          /\ \A role \in Roles : Carries(Macro(d), role) => role = r /\ src = NextMacro(d)
          /\ \/ new.output = items[d].output /\ src = NextMacro(d)
             \/ new.output[1] # "proof" /\ (items[d].output[1] = "proof" => r = "ensures" /\ src = 0)
          /\ Macro(d)[1] # "lemma" \/ new.output[1] # "proof"
          /\ new.parent \in DOMAIN items \cup DOMAIN made \cup {NoItem} /\ MadeUnder(items, made)

LEMMA FormulaStep ==
    ASSUME NEW d, AtMacro(d), NEW P, NEW new, NEW made, NEW r, NEW src, NEW j,
           WithFormula(d, P, new, made, r, src, j),
           OneItem(build.how, program, items, uids, items', uids + 1, d, NextMacro(d), P, new, made),
           uids' = uids + 1, build' = build, program' = program, stage' = "expand"
    PROVE  IInv'
<1> DEFINE u == uids + 1
           k == NextMacro(d)
           n == uids
           p == program
<1>1. /\ Sound(build.how, p, items, n) /\ n \in Nat /\ d \in DOMAIN items
      /\ Macro(d) = items[d].attrs[k]
  BY AtMacroFacts
<1>2. OneItem(build.how, p, items, n, items', u, d, k, P, new, made)
  OBVIOUS
<1>3. u \in Nat /\ n <= u /\ u > n /\ u \in 1..u /\ u \notin 1..n
  BY <1>1
<1>4. CASE ~ Translated
  <2>1. build.how # "translated" /\ MadeOrdinary(made) /\ P = <<>>
    BY <1>4 DEF Translated, WithFormula
  <2>2. \A i \in 1..Len(P) : P[i][1] \in MacroTags \cup Plain
    BY <2>1, EmptyIsSeq
  <2>3. \/ new.body = items[d].body /\ new.inputs = items[d].inputs
        \/ d \in DOMAIN p /\ PanicFree(p[d])
    BY <1>4 DEF WithFormula
  <2> HIDE DEF u, k, n, p
  <2>4. Sound(build.how, p, items', u)
    BY ONLY <1>2, <2>1, <2>2, <2>3, OneItemNoTrace
  <2> QED BY <2>4, SoundStep DEF u, p
<1>5. CASE Translated
  <2>1. /\ build.how = "translated" /\ d \in DOMAIN p
        /\ <<u, "fn">> \in DOMAIN made /\ made[<<u, "fn">>].body.says = SaidAt(items, d, src)
        /\ j \in 1..Len(P) /\ P[j] = <<"AssociatedItem", r, u>>
        /\ \A i \in 1..Len(P), role \in Roles : Carries(P[i], role) => r \in Roles /\ i = j
        /\ src \in {0, k} /\ (r \in Roles => src \in Places(p, items, d, r))
        /\ \A role \in Roles : Carries(Macro(d), role) => role = r /\ src = k
        /\ \/ new.output = items[d].output /\ src = k
           \/ new.output[1] # "proof" /\ (items[d].output[1] = "proof" => r = "ensures" /\ src = 0)
        /\ Macro(d)[1] # "lemma" \/ new.output[1] # "proof"
        /\ new.parent \in DOMAIN items \cup DOMAIN made \cup {NoItem} /\ MadeUnder(items, made)
    BY <1>5 DEF Translated, WithFormula
  <2> HIDE DEF u, k, n, p
  <2>2. StepOf(p, items, n, items', u, d, P, new, made)
    BY <1>2, OneItemFacts
  <2>3. /\ DOMAIN items' = DOMAIN items \cup DOMAIN made /\ items'[d] = new
        /\ \A c \in DOMAIN made \ DOMAIN items : items'[c] = made[c]
    BY <2>2 DEF StepOf
  <2>4. <<u, "fn">> \notin DOMAIN items
    <3>1. SUFFICES ASSUME <<u, "fn">> \in DOMAIN items PROVE FALSE
      OBVIOUS
    <3>2. p \in Programs /\ \A c \in DOMAIN items \ DOMAIN p : c \in (1..n) \X CompanionKinds
      BY <1>1, <2>1 DEF Sound, Companions
    <3>3. <<u, "fn">> \notin DOMAIN p
      <4>1. <<u, "fn">> \in Nat \X CompanionKinds
        BY <1>3 DEF CompanionKinds
      <4> QED BY <3>2, <4>1, ProgramsAssumption
    <3>4. u \in 1..n
      BY <3>1, <3>2, <3>3
    <3> QED BY <3>4, <1>3
  <2>5. <<u, "fn">> \in DOMAIN items' /\ items'[<<u, "fn">>].body.says = SaidAt(items, d, src)
    BY <2>1, <2>3, <2>4
  <2>6. Taken(p, items, items', n, d, k, P, r, u, src, j)
    BY <1>1, <1>3, <2>1, <2>3, <2>5 DEF Taken
  <2>7. OwnItem(p, items, items', n, u, d, k, P, new, made, r, u, src, j)
    BY <1>1, <1>3, <2>1, <2>3, <2>5, <2>6 DEF OwnItem
  <2>8. Sound(build.how, p, items', u)
    BY ONLY <1>2, <2>1, <2>7, OneItemOwn
  <2> QED BY <2>8, SoundStep DEF u, p
<1> QED BY <1>4, <1>5

LEMMA DecorateWithStep ==
    ASSUME NEW d, AtMacro(d), NEW parent, NEW role, NEW phi, NEW self, OfFormula(d, role, phi),
           DecorateWith(d, parent, role, phi, Rest(d), items[d], self),
           Translated => parent \in DOMAIN items \cup {NoItem}
    PROVE  IInv'
<1> DEFINE u == uids + 1
           P == AssocAttr(role, u)
           new == WithAttrs(items[d], P \o Rest(d))
           made == Decoration(u, parent, role, items[d], phi)
           k == NextMacro(d)
           n == uids
           p == program
<1>0. stage = "expand" /\ IInv
  BY DEF AtMacro
<1>1. CASE WhyNot(parent, role, items[d], phi, self) # ""
  <2>1. Fails(WhyNot(parent, role, items[d], phi, self))
    BY <1>1 DEF DecorateWith
  <2> QED BY <2>1, <1>0, FailsStep
<1>2. CASE WhyNot(parent, role, items[d], phi, self) = ""
  <2>1. /\ items' = Joined(Changed(d, new), made)
        /\ uids' = u /\ build' = build /\ program' = program /\ stage' = "expand"
    BY <1>0, <1>2 DEF DecorateWith, Expands
  <2>2. /\ Sound(build.how, p, items, n) /\ n \in Nat /\ d \in DOMAIN items
        /\ k \in 1..Len(items[d].attrs) /\ Macro(d) = items[d].attrs[k]
        /\ IsItem(items[d]) /\ IsSeq(items[d].attrs)
    BY AtMacroFacts
  <2>3. /\ IsSeq(P) /\ (~ Translated => P = <<>>)
        /\ Translated => Len(P) = 1 /\ P[1] = <<"AssociatedItem", role, u>>
        /\ \A i \in 1..Len(P) : Translated /\ P[i] = <<"AssociatedItem", role, u>>
    BY AssocAttrFacts
  <2> DEFINE attrs == P \o Rest(d)
  <2> HIDE DEF attrs
  <2>40. new = WithAttrs(items[d], attrs)
    BY DEF attrs
  <2> HIDE DEF new
  <2>4. /\ IsItem(new) /\ new.attrs = P \o Rest(d)
        /\ new.parent = items[d].parent /\ new.inputs = items[d].inputs
        /\ new.output = items[d].output /\ new.body = items[d].body
    <3>1. /\ IsItem(new) /\ new.attrs = attrs
          /\ new.parent = items[d].parent /\ new.inputs = items[d].inputs
          /\ new.output = items[d].output /\ new.body = items[d].body
      BY <2>2, <2>40, WithAttrsIsItem
    <3> QED BY <3>1 DEF attrs
  <2>5. /\ Made({u}, made)
        /\ Translated => <<u, "fn">> \in DOMAIN made /\ made[<<u, "fn">>].body.says = phi.says
        /\ ~ Translated => made = NoItems
        /\ \A c \in DOMAIN made : made[c].parent \in {parent} \cup DOMAIN made
    BY DecorationMade
  <2> HIDE DEF P, made
  <2>6. u \in Nat /\ n <= u /\ u > n /\ u \in 1..u /\ (n + 1)..u = {u}
    BY <2>2
  <2> HIDE DEF u, n
  <2>7. \A i \in 1..Len(P) : P[i][1] \notin UserOnly
    BY <2>3 DEF UserOnly
  <2>8. Made((n + 1)..u, made)
    BY <2>5, <2>6
  <2>9. OneItem(build.how, p, items, n, items', u, d, k, P, new, made)
    BY <2>1, <2>3, <2>4, <2>6, <2>7, <2>8, Expansions DEF n
  <2>10. ASSUME Translated
         PROVE  /\ d \in DOMAIN p /\ parent \in DOMAIN items \cup {NoItem}
                /\ <<u, "fn">> \in DOMAIN made /\ made[<<u, "fn">>].body.says = SaidAt(items, d, k)
                /\ 1 \in 1..Len(P) /\ P[1] = <<"AssociatedItem", role, u>>
                /\ \A i \in 1..Len(P), other \in Roles : Carries(P[i], other) => role \in Roles /\ i = 1
                /\ k \in Places(p, items, d, role)
                /\ \A other \in Roles : Carries(Macro(d), other) => other = role
                /\ Macro(d)[1] # "lemma"
                /\ items[d].parent \in DOMAIN items \cup {NoItem} /\ MadeUnder(items, made)
    <3>1. build.how = "translated" /\ d \in DOMAIN p /\ parent \in DOMAIN items \cup {NoItem}
      BY <2>10 DEF Translated, OfFormula
    <3>2. Len(P) = 1 /\ P[1] = <<"AssociatedItem", role, u>> /\ 1 \in 1..Len(P)
      BY <2>3, <2>10
    <3>3. \A i \in 1..Len(P), other \in Roles : Carries(P[i], other) => role \in Roles /\ i = 1
      BY <3>2 DEF Carries, WrittenAs, Roles
    <3>4. k # 0 /\ k \in Places(p, items, d, role) /\ SaidAt(items, d, k) = phi.says
      <4>1. Len(items[d].attrs) \in Nat
        BY <2>2, SeqElements
      <4>2. k # 0
        BY <2>2, <4>1
      <4>3. Carries(items[d].attrs[k], role) /\ Said(items, items[d].attrs[k]) = phi.says
        BY <2>2 DEF OfFormula
      <4> HIDE DEF k
      <4> QED BY <4>2, <4>3, <2>2 DEF Places, SaidAt
    <3>5. items[d].parent \in DOMAIN items \cup {NoItem}
      BY <2>2, <3>1 DEF Sound, Companions
    <3>6. MadeUnder(items, made)
      BY <2>5, <3>1 DEF MadeUnder
    <3> QED BY <2>5, <2>10, <3>1, <3>2, <3>3, <3>4, <3>5, <3>6 DEF OfFormula, UserOnly
  <2>11. WithFormula(d, P, new, made, role, k, 1)
    BY <2>3, <2>4, <2>5, <2>10, NoItemsMade DEF WithFormula, u
  <2> QED BY <2>1, <2>9, <2>11, FormulaStep DEF u, n
<1> QED BY <1>1, <1>2

\* Macros other than exclude are on items of the source.
LEMMA OnSource ==
    ASSUME NEW d, AtMacro(d), Translated, Macro(d)[1] # "exclude" PROVE d \in DOMAIN program
<1>1. <<"exclude">>[1] = "exclude"
  OBVIOUS
<1> QED BY <1>1, CompanionMacro

LEMMA ExpandingFacts ==
    ASSUME NEW d \in DOMAIN items, NEW tags, IInv, Expanding(d, tags)
    PROVE  AtMacro(d) /\ Macro(d)[1] \in tags /\ stage = "expand"
BY DEF Expanding, Ready, AtMacro

LEMMA DecorateStep == ASSUME NEW d \in DOMAIN items, IInv, Decorate(d) PROVE IInv'
<1>1. AtMacro(d) /\ Macro(d)[1] \in DecorationKinds /\ stage = "expand"
  BY ExpandingFacts DEF Decorate
<1>2. CASE items[d].kind = "trait_fn"
  BY <1>1, <1>2, FailsStep DEF Decorate
<1>3. CASE items[d].kind # "trait_fn"
  <2> DEFINE a == Macro(d)
  <2>1. DecorateWith(d, items[d].parent, a[1], a[2], Rest(d), items[d], FALSE)
    BY <1>3 DEF Decorate
  <2>2. Translated => items[d].parent \in DOMAIN items \cup {NoItem}
    BY <1>1, AtMacroFacts DEF Sound, Companions, Translated
  <2>3. a[1] \in {"requires", "ensures"}
    BY <1>1 DEF DecorationKinds
  <2>4. Translated => d \in DOMAIN program
    BY <1>1, <2>3, OnSource
  <2>5. /\ Carries(a, a[1]) /\ \A other \in Roles : Carries(a, other) => other = a[1]
        /\ Said(items, a) = a[2].says /\ a[1] \notin UserOnly
    BY <2>3 DEF Carries, WrittenAs, Said, UserOnly, Roles
  <2>6. OfFormula(d, a[1], a[2])
    BY <2>4, <2>5 DEF OfFormula
  <2> HIDE DEF a
  <2> QED BY <1>1, <2>1, <2>2, <2>6, DecorateWithStep
<1> QED BY <1>2, <1>3

LEMMA ImplFnDecorationStep == ASSUME NEW d \in DOMAIN items, IInv, ImplFnDecoration(d) PROVE IInv'
<1>1. AtMacro(d) /\ Macro(d)[1] \in {"impl_fn_decoration"} /\ stage = "expand"
  BY ExpandingFacts DEF ImplFnDecoration
<1> DEFINE a == Macro(d)
<1>2. DecorateWith(d, d, a[2], a[3], Rest(d), items[d], TRUE)
  BY DEF ImplFnDecoration
<1>3. a[1] = "impl_fn_decoration"
  BY <1>1
<1>4. Translated => d \in DOMAIN program
  BY <1>1, <1>3, OnSource
<1>5. /\ Carries(a, a[2]) /\ \A other \in Roles : Carries(a, other) => other = a[2]
      /\ Said(items, a) = a[3].says /\ a[1] \notin UserOnly
  BY <1>3 DEF Carries, WrittenAs, Said, UserOnly, Roles
<1>6. OfFormula(d, a[2], a[3])
  BY <1>4, <1>5 DEF OfFormula
<1> HIDE DEF a
<1> QED BY <1>1, <1>2, <1>6, DecorateWithStep

\* The payload of a formula, and another after it.
LEMMA AssocThenPayload ==
    ASSUME NEW r, NEW u, NEW x, x[1] \notin UserOnly, \A role \in Roles : ~ Carries(x, role)
    PROVE  LET P == AssocAttr(r, u) \o Payload(x)
           IN  /\ IsSeq(P) /\ (~ Translated => P = <<>>)
               /\ \A i \in 1..Len(P) : P[i][1] \notin UserOnly
               /\ Translated => 1 \in 1..Len(P) /\ P[1] = <<"AssociatedItem", r, u>>
               /\ \A i \in 1..Len(P), role \in Roles : Carries(P[i], role) => role = r /\ i = 1
<1> DEFINE a == AssocAttr(r, u)
           b == Payload(x)
           P == a \o b
<1>1. /\ IsSeq(a) /\ (~ Translated => a = <<>>) /\ (Translated => Len(a) = 1)
      /\ \A i \in 1..Len(a) : Translated /\ a[i] = <<"AssociatedItem", r, u>>
  BY AssocAttrFacts
<1>2. IsSeq(b) /\ (~ Translated => b = <<>>) /\ \A i \in 1..Len(b) : Translated /\ b[i] = x
  BY PayloadFacts
<1> HIDE DEF a, b
<1>3. /\ IsSeq(a \o b) /\ Len(a \o b) = Len(a) + Len(b)
      /\ \A i \in 1..Len(a) : (a \o b)[i] = a[i]
      /\ \A i \in 1..Len(a \o b) : \/ i \in 1..Len(a) /\ (a \o b)[i] = a[i]
                                   \/ i - Len(a) \in 1..Len(b) /\ (a \o b)[i] = b[i - Len(a)]
  <2>1. IsSeq(a) /\ IsSeq(b)
    BY <1>1, <1>2
  <2> QED BY ONLY <2>1, ConcatIsSeq
<1>4. P = a \o b /\ Len(a) \in Nat /\ Len(b) \in Nat
  BY <1>1, <1>2, SeqElements
<1> HIDE DEF P
<1>5. ~ Translated => P = <<>>
  <2> HAVE ~ Translated
  <2>1. Len(P) = 0 /\ IsSeq(P)
    BY <1>1, <1>2, <1>3, <1>4, EmptyIsSeq
  <2> QED BY <2>1, EmptyIsSeq, SameSeq
<1>6. Translated => 1 \in 1..Len(P) /\ P[1] = <<"AssociatedItem", r, u>>
  <2> HAVE Translated
  <2>1. 1 \in 1..Len(a) /\ 1 \in 1..Len(P)
    BY <1>1, <1>3, <1>4
  <2> QED BY <2>1, <1>1, <1>3, <1>4
<1>7. ASSUME NEW i \in 1..Len(P)
      PROVE  P[i] = x \/ (P[i] = <<"AssociatedItem", r, u>> /\ i = 1)
  <2>1. CASE i \in 1..Len(a) /\ P[i] = a[i]
    <3>1. Translated /\ Len(a) = 1
      BY <2>1, <1>1
    <3>2. i = 1
      BY <2>1, <3>1
    <3> QED BY <2>1, <3>2, <1>1
  <2>2. CASE i - Len(a) \in 1..Len(b) /\ P[i] = b[i - Len(a)]
    BY <2>2, <1>2
  <2> QED BY <2>1, <2>2, <1>3, <1>4, <1>7
<1>8. \A i \in 1..Len(P) : P[i][1] \notin UserOnly
  BY <1>7 DEF UserOnly
<1>9. \A i \in 1..Len(P), role \in Roles : Carries(P[i], role) => role = r /\ i = 1
  <2> TAKE i \in 1..Len(P), role \in Roles
  <2> HAVE Carries(P[i], role)
  <2>1. P[i] = <<"AssociatedItem", r, u>> /\ i = 1
    BY <1>7
  <2> QED BY <2>1 DEF Carries, WrittenAs, Roles
<1> QED BY <1>3, <1>4, <1>5, <1>6, <1>8, <1>9 DEF P, a, b

\* Two payloads that are of no formula.
LEMMA PayloadsFacts ==
    ASSUME NEW x, NEW y, x[1] \notin UserOnly, y[1] \notin UserOnly,
           \A role \in Roles : ~ Carries(x, role) /\ ~ Carries(y, role)
    PROVE  LET P == Payload(x) \o Payload(y)
           IN  /\ IsSeq(P) /\ (~ Translated => P = <<>>)
               /\ \A i \in 1..Len(P) : P[i][1] \notin UserOnly
               /\ \A i \in 1..Len(P), role \in Roles : ~ Carries(P[i], role)
<1> DEFINE a == Payload(x)
           b == Payload(y)
           P == a \o b
<1>1. IsSeq(a) /\ (~ Translated => a = <<>>) /\ \A i \in 1..Len(a) : Translated /\ a[i] = x
  BY PayloadFacts
<1>2. IsSeq(b) /\ (~ Translated => b = <<>>) /\ \A i \in 1..Len(b) : Translated /\ b[i] = y
  BY PayloadFacts
<1> HIDE DEF a, b
<1>3. /\ IsSeq(P) /\ Len(P) = Len(a) + Len(b)
      /\ \A i \in 1..Len(P) : \/ \E j \in 1..Len(a) : P[i] = a[j]
                              \/ \E j \in 1..Len(b) : P[i] = b[j]
  <2>1. IsSeq(a) /\ IsSeq(b)
    BY <1>1, <1>2
  <2> QED BY ONLY <2>1, ConcatShort
<1> HIDE DEF P
<1>4. ~ Translated => P = <<>>
  <2> HAVE ~ Translated
  <2>1. Len(P) = 0 /\ IsSeq(P)
    BY <1>1, <1>2, <1>3, EmptyIsSeq
  <2> QED BY <2>1, EmptyIsSeq, SameSeq
<1>5. \A i \in 1..Len(P) : P[i] = x \/ P[i] = y
  BY <1>1, <1>2, <1>3
<1> QED BY <1>3, <1>4, <1>5 DEF P, a, b

\* The proof that a lemma returns becomes its postcondition.
LEMMA ProofStep ==
    ASSUME NEW d \in DOMAIN items, IInv, Lemma(d), items[d].output[1] = "proof" PROVE IInv'
<1>1. AtMacro(d) /\ Macro(d)[1] \in {"lemma"} /\ stage = "expand"
  BY ExpandingFacts DEF Lemma
<1> DEFINE fn == [items[d] EXCEPT !.output = Unit]
           phi == items[d].output[2]
           parent == items[d].parent
           u == uids + 1
           P == AssocAttr("ensures", u) \o Payload(<<"Lemma">>)
           new == WithAttrs(fn, P \o Rest(d))
           made == Decoration(u, parent, "ensures", fn, phi)
           why == WhyNot(parent, "ensures", fn, phi, FALSE)
<1>0. ProofLemma(d, fn, phi, parent)
  <2>1. items[d].output # Unit
    BY DEF Unit
  <2> QED BY <2>1 DEF Lemma
<1>2. CASE why # ""
  <2>1. Fails(why)
    BY <1>0, <1>2 DEF ProofLemma
  <2> QED BY <2>1, <1>1, FailsStep
<1>3. CASE why = ""
  <2>1. /\ items' = Joined(Changed(d, new), made)
        /\ uids' = u /\ build' = build /\ program' = program /\ stage' = "expand"
    BY <1>0, <1>1, <1>3 DEF ProofLemma
  <2>2. /\ Sound(build.how, program, items, uids) /\ uids \in Nat
        /\ NextMacro(d) \in 1..Len(items[d].attrs) /\ Macro(d) = items[d].attrs[NextMacro(d)]
        /\ IsItem(items[d]) /\ IsSeq(items[d].attrs)
        /\ d \in DOMAIN program /\ Macro(d) \in Range(program[d].attrs)
    BY <1>1, AtMacroFacts DEF UserOnly
  <2>3. /\ IsSeq(P) /\ (~ Translated => P = <<>>)
        /\ \A i \in 1..Len(P) : P[i][1] \notin UserOnly
        /\ Translated => 1 \in 1..Len(P) /\ P[1] = <<"AssociatedItem", "ensures", u>>
        /\ \A i \in 1..Len(P), role \in Roles : Carries(P[i], role) => role = "ensures" /\ i = 1
    <3>1. <<"Lemma">>[1] \notin UserOnly /\ \A role \in Roles : ~ Carries(<<"Lemma">>, role)
      BY DEF UserOnly, Carries, WrittenAs, Roles
    <3> QED BY <3>1, AssocThenPayload
  <2> DEFINE attrs == P \o Rest(d)
  <2> HIDE DEF attrs
  <2>4. new = WithAttrs(fn, attrs)
    BY DEF attrs
  <2> HIDE DEF new
  <2>5. /\ IsItem(fn) /\ fn.output = Unit /\ fn.parent = items[d].parent
        /\ fn.inputs = items[d].inputs /\ fn.body = items[d].body
    BY <2>2 DEF IsItem
  <2>6. /\ Made({u}, made)
        /\ Translated => <<u, "fn">> \in DOMAIN made /\ made[<<u, "fn">>].body.says = phi.says
        /\ ~ Translated => made = NoItems
        /\ \A c \in DOMAIN made : made[c].parent \in {parent} \cup DOMAIN made
    BY DecorationMade
  <2> HIDE DEF P, made, fn
  <2>7. /\ IsItem(new) /\ new.attrs = attrs /\ new.parent = items[d].parent
        /\ new.inputs = items[d].inputs /\ new.output = Unit /\ new.body = items[d].body
    BY <2>4, <2>5, WithAttrsIsItem
  <2>8. (uids + 1)..u = {u} /\ u \in Nat /\ uids <= u
    BY <2>2
  <2>9. Made((uids + 1)..u, made)
    BY <2>6, <2>8
  <2>10. OneItem(build.how, program, items, uids, items', u, d, NextMacro(d), P, new, made)
    BY <1>1, <2>1, <2>3, <2>7, <2>8, <2>9, Expansions DEF attrs
  <2> HIDE DEF u
  <2>11. 0 \in Places(program, items, d, "ensures") /\ SaidAt(items, d, 0) = phi.says
    <3>1. PICK l \in DOMAIN program[d].attrs : program[d].attrs[l] = Macro(d)
      BY <2>2 DEF Range
    <3>2. Has(program[d].attrs, "lemma")
      BY <1>1, <3>1 DEF Has
    <3> QED BY <3>2 DEF Places, SaidAt
  <2>12. \A role \in Roles : ~ Carries(Macro(d), role)
    BY <1>1, CarriesTags
  <2>13. Unit[1] # "proof"
    BY DEF Unit
  <2>14. ASSUME Translated PROVE items[d].parent \in DOMAIN items \cup {NoItem}
    BY <2>2, <2>14 DEF Sound, Companions, Translated
  <2>15. ASSUME Translated PROVE MadeUnder(items, made)
    BY <2>6, <2>14, <2>15 DEF MadeUnder
  <2>16. "ensures" \in Roles
    BY DEF Roles
  <2>17. WithFormula(d, P, new, made, "ensures", 0, 1)
    BY <2>2, <2>3, <2>6, <2>7, <2>11, <2>12, <2>13, <2>14, <2>15, <2>16, NoItemsMade DEF WithFormula, u
  <2> QED BY <1>1, <2>1, <2>10, <2>17, FormulaStep DEF u
<1> QED BY <1>2, <1>3

\* Nothing is made and no uid is drawn.
LEMMA ExpandsNothing ==
    ASSUME NEW d, AtMacro(d), NEW P, NEW attrs, Expands(d, attrs, NoItems), attrs = P \o Rest(d), uids' = uids,
           IsSeq(P), \A i \in 1..Len(P) : P[i][1] \notin UserOnly,
           \A i \in 1..Len(P), role \in Roles : ~ Carries(P[i], role),
           ~ Translated => \A i \in 1..Len(P) : P[i][1] \in MacroTags \cup Plain,
           \A role \in Roles : ~ Carries(Macro(d), role),
           Macro(d)[1] # "lemma" \/ items[d].output[1] # "proof",
           Translated => d \in DOMAIN program
    PROVE  IInv'
<1> DEFINE item == items[d]
           new == WithAttrs(item, attrs)
<1>1. /\ items' = Joined(Changed(d, new), NoItems)
      /\ uids' = uids /\ build' = build /\ program' = program /\ stage' = "expand"
  BY DEF Expands, AtMacro
<1>2. /\ uids \in Nat /\ uids <= uids /\ IsItem(items[d])
  BY AtMacroFacts
<1>3. /\ IsItem(new) /\ new.attrs = P \o Rest(d)
      /\ new.parent = items[d].parent /\ new.inputs = items[d].inputs
      /\ new.output = items[d].output /\ new.body = items[d].body
  <2>1. IsItem(item)
    BY <1>2
  <2> HIDE DEF item
  <2>2. /\ IsItem(new) /\ new.attrs = attrs
        /\ new.parent = item.parent /\ new.inputs = item.inputs
        /\ new.output = item.output /\ new.body = item.body
    BY ONLY <2>1, WithAttrsIsItem DEF new
  <2> QED BY <2>2 DEF item
<1> HIDE DEF new
<1>4. Made((uids + 1)..uids, NoItems) /\ MadeUnder(items, NoItems) /\ MadeOrdinary(NoItems)
  BY NoItemsMade DEF MadeUnder
<1>5. Alone(d, P, new, NoItems, items', uids)
  BY <1>1, <1>2, <1>3, <1>4 DEF Alone
<1>6. Sound(build.how, program, items', uids')
  BY <1>1, <1>5, AloneStep
<1> QED BY <1>1, <1>6, SoundStep

LEMMA LemmaStep == ASSUME NEW d \in DOMAIN items, IInv, Lemma(d) PROVE IInv'
<1>1. AtMacro(d) /\ Macro(d)[1] \in {"lemma"} /\ stage = "expand"
  BY ExpandingFacts DEF Lemma
<1>2. CASE items[d].output[1] = "proof"
  BY <1>2, ProofStep
<1>3. CASE items[d].output[1] # "proof" /\ items[d].output = Unit
  <2> DEFINE P == Payload(<<"Lemma">>) \o Payload(<<"NeverErased">>)
  <2>1. Expands(d, P \o Rest(d), NoItems) /\ uids' = uids
    BY <1>3 DEF Lemma
  <2>2. /\ IsSeq(P) /\ (~ Translated => P = <<>>)
        /\ \A i \in 1..Len(P) : P[i][1] \notin UserOnly
        /\ \A i \in 1..Len(P), role \in Roles : ~ Carries(P[i], role)
    <3>1. /\ <<"Lemma">>[1] \notin UserOnly /\ <<"NeverErased">>[1] \notin UserOnly
          /\ \A role \in Roles : ~ Carries(<<"Lemma">>, role) /\ ~ Carries(<<"NeverErased">>, role)
      BY DEF UserOnly, Carries, WrittenAs, Roles
    <3> QED BY <3>1, PayloadsFacts
  <2> HIDE DEF P
  <2>3. ~ Translated => \A i \in 1..Len(P) : P[i][1] \in MacroTags \cup Plain
    BY <2>2, EmptyIsSeq
  <2>4. \A role \in Roles : ~ Carries(Macro(d), role)
    BY <1>1, CarriesTags
  <2>5. Translated => d \in DOMAIN program
    BY <1>1, OnSource
  <2> DEFINE attrs == P \o Rest(d)
  <2>6. Expands(d, attrs, NoItems) /\ attrs = P \o Rest(d)
    BY <2>1
  <2> HIDE DEF attrs
  <2> QED BY <1>1, <1>3, <2>1, <2>2, <2>3, <2>4, <2>5, <2>6, ExpandsNothing
<1>4. CASE items[d].output[1] # "proof" /\ items[d].output # Unit
  <2>1. Fails("expected a proof")
    BY <1>4 DEF Lemma
  <2> QED BY <2>1, <1>1, FailsStep
<1> QED BY <1>2, <1>3, <1>4

\* A quote, on an item of the source: P are the attributes it leaves.
LEMMA QuoteWithStep ==
    ASSUME NEW d, AtMacro(d), NEW q, NEW attrs, QuoteWith(d, q, attrs),
           NEW P, AssocAttr("quote", uids + 1) \o attrs = P \o Rest(d),
           IsSeq(P), \A i \in 1..Len(P) : P[i][1] \notin UserOnly,
           \A i \in 1..Len(P), role \in Roles : ~ Carries(P[i], role), ~ Translated => P = <<>>,
           \A role \in Roles : ~ Carries(Macro(d), role), Macro(d)[1] # "lemma",
           Translated => d \in DOMAIN program
    PROVE  IInv'
<1> DEFINE u == uids + 1
           parent == items[d].parent
           new == WithAttrs(items[d], AssocAttr("quote", u) \o attrs)
           made == QuoteItem(u, parent, q[2], q[3], q[4])
<1>0. stage = "expand" /\ IInv
  BY DEF AtMacro
<1>1. CASE QuoteBuilt(q[2]) /\ items[d].kind \in {"impl_fn", "trait_fn"}
  <2>1. Fails("unnamed const")
    BY <1>1 DEF QuoteWith
  <2> QED BY <2>1, <1>0, FailsStep
<1>2. CASE ~ (QuoteBuilt(q[2]) /\ items[d].kind \in {"impl_fn", "trait_fn"})
  <2>1. /\ items' = Joined(Changed(d, new), made)
        /\ uids' = u /\ build' = build /\ program' = program /\ stage' = "expand"
    BY <1>0, <1>2 DEF QuoteWith, Expands
  <2>2. Sound(build.how, program, items, uids) /\ uids \in Nat /\ IsItem(items[d]) /\ d \in DOMAIN items
    BY AtMacroFacts
  <2>3. /\ IsItem(new) /\ new.attrs = P \o Rest(d)
        /\ new.parent = items[d].parent /\ new.inputs = items[d].inputs
        /\ new.output = items[d].output /\ new.body = items[d].body
    <3> DEFINE item == items[d]
               a == AssocAttr("quote", u) \o attrs
    <3>1. IsItem(item) /\ new = WithAttrs(item, a) /\ a = P \o Rest(d)
      BY <2>2
    <3>3. IsItem(item)
      BY <2>2
    <3> HIDE DEF item, a
    <3>2. /\ IsItem(WithAttrs(item, a)) /\ WithAttrs(item, a).attrs = a
          /\ WithAttrs(item, a).parent = item.parent /\ WithAttrs(item, a).inputs = item.inputs
          /\ WithAttrs(item, a).output = item.output /\ WithAttrs(item, a).body = item.body
      BY ONLY <3>3, WithAttrsIsItem
    <3> HIDE DEF new
    <3> QED BY <3>1, <3>2 DEF item
  <2>4. /\ Made({u}, made) /\ (~ Translated => made = NoItems)
        /\ \A c \in DOMAIN made : made[c].parent \in {parent} \cup DOMAIN made
    BY QuoteItemMade
  <2> HIDE DEF new, made
  <2>5. (uids + 1)..u = {u} /\ u \in Nat /\ uids <= u
    BY <2>2
  <2>6. Made((uids + 1)..u, made)
    BY <2>4, <2>5
  <2>7. ASSUME Translated PROVE MadeUnder(items, made)
    <3>1. parent \in DOMAIN items \cup {NoItem}
      BY <2>2, <2>7 DEF Sound, Companions, Translated
    <3> QED BY <3>1, <2>4 DEF MadeUnder
  <2>8. ASSUME ~ Translated
        PROVE  /\ MadeUnder(items, made) /\ MadeOrdinary(made)
               /\ \A i \in 1..Len(P) : P[i][1] \in MacroTags \cup Plain
    BY <2>4, <2>8, NoItemsMade, EmptyIsSeq DEF MadeUnder
  <2> HIDE DEF u
  <2>9. Alone(d, P, new, made, items', u)
    BY <2>1, <2>3, <2>5, <2>6, <2>7, <2>8 DEF Alone
  <2>10. Sound(build.how, program, items', u)
    BY <2>9, AloneStep
  <2> QED BY <2>1, <2>10, SoundStep
<1> QED BY <1>1, <1>2

LEMMA QuoteStep == ASSUME NEW d \in DOMAIN items, IInv, Quote(d) PROVE IInv'
<1>1. AtMacro(d) /\ Macro(d)[1] \in {"quote"} /\ QuoteWith(d, Macro(d), Rest(d))
  BY ExpandingFacts DEF Quote
<1> DEFINE P == AssocAttr("quote", uids + 1)
<1>2. /\ IsSeq(P) /\ (~ Translated => P = <<>>)
      /\ \A i \in 1..Len(P) : P[i][1] = "AssociatedItem" /\ P[i][2] = "quote"
  <2>1. /\ IsSeq(P) /\ (~ Translated => P = <<>>)
        /\ \A i \in 1..Len(P) : Translated /\ P[i] = <<"AssociatedItem", "quote", uids + 1>>
    BY AssocAttrFacts
  <2> QED BY <2>1
<1> HIDE DEF P
<1>3. /\ \A i \in 1..Len(P) : P[i][1] \notin UserOnly
      /\ \A i \in 1..Len(P), role \in Roles : ~ Carries(P[i], role)
  BY <1>2 DEF UserOnly, Carries, WrittenAs, Roles
<1>4. \A role \in Roles : ~ Carries(Macro(d), role)
  BY <1>1, CarriesTags
<1>5. (Translated => d \in DOMAIN program) /\ Macro(d)[1] # "lemma"
  BY <1>1, OnSource
<1>6. AssocAttr("quote", uids + 1) \o Rest(d) = P \o Rest(d)
  BY DEF P
<1> QED BY <1>1, <1>2, <1>3, <1>4, <1>5, <1>6, QuoteWithStep

LEMMA ReplaceStep == ASSUME NEW d \in DOMAIN items, IInv, Replace(d) PROVE IInv'
<1> DEFINE q == <<"quote", Macro(d)[2], "Before", Macro(d)[3]>>
           a == AssocAttr("quote", uids + 1)
           b == Payload(LateSkip)
           P == a \o b
<1>1. AtMacro(d) /\ Macro(d)[1] \in {"replace"} /\ QuoteWith(d, q, b \o Rest(d))
  BY ExpandingFacts DEF Replace
<1>2. /\ IsSeq(P) /\ (~ Translated => P = <<>>)
      /\ \A i \in 1..Len(P) : P[i][1] \notin UserOnly
      /\ \A i \in 1..Len(P), role \in Roles : Carries(P[i], role) => role = "quote" /\ i = 1
  <2>1. LateSkip[1] \notin UserOnly /\ \A role \in Roles : ~ Carries(LateSkip, role)
    BY DEF LateSkip, UserOnly, Carries, WrittenAs, Roles
  <2> QED BY <2>1, AssocThenPayload
<1>3. IsSeq(a) /\ IsSeq(b) /\ IsSeq(Rest(d))
  BY <1>1, AssocAttrFacts, PayloadFacts, AtMacroFacts
<1> DEFINE c == Rest(d)
           ab == a \o b
<1> HIDE DEF a, b, c, q
<1>4. ab \o c = a \o (b \o c)
  BY <1>3, ConcatRegroups DEF c
<1> DEFINE attrs == b \o Rest(d)
<1>5. AssocAttr("quote", uids + 1) \o attrs = P \o Rest(d)
  BY <1>4 DEF a, c
<1>6. \A role \in Roles : role # "quote" /\ ~ Carries(Macro(d), role)
  <2>1. "quote" \notin Roles
    BY DEF Roles
  <2> QED BY <1>1, <2>1, CarriesTags
<1>7. (Translated => d \in DOMAIN program) /\ Macro(d)[1] # "lemma"
  BY <1>1, OnSource
<1>8. \A i \in 1..Len(P), role \in Roles : ~ Carries(P[i], role)
  BY <1>2, <1>6
<1>9. QuoteWith(d, q, attrs)
  BY <1>1
<1> HIDE DEF P, attrs, ab
<1> QED BY <1>1, <1>2, <1>5, <1>6, <1>7, <1>8, <1>9, QuoteWithStep

LEMMA OptionsStep == ASSUME NEW d \in DOMAIN items, IInv, Options(d) PROVE IInv'
<1> DEFINE x == <<"quote", "fstar", "Before", Push>>
           y == <<"quote", "fstar", "After", Pop>>
           P == <<x, y>>
           attrs == P \o Rest(d)
<1>1. AtMacro(d) /\ Macro(d)[1] \in {"options"} /\ Expands(d, attrs, NoItems) /\ uids' = uids
  BY ExpandingFacts DEF Options
<1>2. attrs = P \o Rest(d)
  OBVIOUS
<1>3. IsSeq(P) /\ \A i \in 1..Len(P) : P[i][1] = "quote"
  <2>1. IsSeq(P) /\ Len(P) = 2 /\ P[1] = x /\ P[2] = y
    BY TwoIsSeq
  <2>2. \A i \in 1..2 : i = 1 \/ i = 2
    OBVIOUS
  <2> QED BY <2>1, <2>2
<1> HIDE DEF P, attrs
<1>4. /\ \A i \in 1..Len(P) : P[i][1] \notin UserOnly /\ P[i][1] \in MacroTags \cup Plain
      /\ \A i \in 1..Len(P), role \in Roles : ~ Carries(P[i], role)
  BY <1>3 DEF UserOnly, Carries, WrittenAs, Roles, MacroTags
<1>5. \A role \in Roles : ~ Carries(Macro(d), role)
  BY <1>1, CarriesTags
<1>6. (Translated => d \in DOMAIN program) /\ Macro(d)[1] # "lemma"
  BY <1>1, OnSource
<1> QED BY <1>1, <1>2, <1>3, <1>4, <1>5, <1>6, ExpandsNothing

LEMMA JoinedNothing ==
    ASSUME NEW its, its = [c \in DOMAIN its |-> its[c]]
    PROVE  Joined(its, NoItems) = its
<1>1. DOMAIN its \cup DOMAIN NoItems = DOMAIN its
  BY DEF NoItems
<1>2. Joined(its, NoItems) = [c \in DOMAIN its |-> its[c]]
  BY <1>1 DEF Joined
<1> QED BY <1>2

LEMMA VerificationStatusStep ==
    ASSUME NEW d \in DOMAIN items, IInv, VerificationStatus(d) PROVE IInv'
<1>1. AtMacro(d) /\ Macro(d)[1] \in {"verification_status"} /\ stage = "expand"
  BY ExpandingFacts DEF VerificationStatus
<1>2. \A role \in Roles : ~ Carries(Macro(d), role)
  BY <1>1, CarriesTags
<1>3. (Translated => d \in DOMAIN program) /\ Macro(d)[1] # "lemma"
  BY <1>1, OnSource
<1>4. CASE Macro(d)[2] = "lax"
  <2> DEFINE x == <<"options">>
             P == <<x>>
             attrs == P \o Rest(d)
  <2>1. Expands(d, attrs, NoItems) /\ uids' = uids
    BY <1>4 DEF VerificationStatus
  <2>2. attrs = P \o Rest(d)
    OBVIOUS
  <2>3. IsSeq(P) /\ \A i \in 1..Len(P) : P[i][1] = "options"
    <3>1. IsSeq(P) /\ Len(P) = 1 /\ P[1] = x
      BY OneIsSeq
    <3>2. \A i \in 1..1 : i = 1
      OBVIOUS
    <3> QED BY <3>1, <3>2
  <2> HIDE DEF P, attrs
  <2>4. /\ \A i \in 1..Len(P) : P[i][1] \notin UserOnly /\ P[i][1] \in MacroTags \cup Plain
        /\ \A i \in 1..Len(P), role \in Roles : ~ Carries(P[i], role)
    BY <2>3 DEF UserOnly, Carries, WrittenAs, Roles, MacroTags
  <2> QED BY <1>1, <1>2, <1>3, <2>1, <2>2, <2>3, <2>4, ExpandsNothing
<1>5. CASE Macro(d)[2] = "panic_free" /\ items[d].kind \in {"fn", "impl_fn"}
  <2> DEFINE item == items[d]
             rest == Rest(d)
             x == WithAttrs(item, rest)
             new == Admitted(x)
  <2>1. /\ items' = Changed(d, new)
        /\ uids' = uids /\ build' = build /\ program' = program /\ stage' = "expand"
    BY <1>1, <1>5 DEF VerificationStatus
  <2>2. /\ uids \in Nat /\ uids <= uids /\ IsItem(item) /\ IsSeq(rest)
        /\ NextMacro(d) \in 1..Len(item.attrs) /\ Sound(build.how, program, items, uids)
        /\ d \in DOMAIN program /\ Macro(d) \in Range(program[d].attrs)
    BY <1>1, AtMacroFacts DEF UserOnly
  <2>3. Changed(d, new) = Joined(Changed(d, new), NoItems)
    <3>1. items = [c \in DOMAIN items |-> items[c]]
      BY <2>2 DEF Sound, Shape
    <3> HIDE DEF new
    <3>2. Changed(d, new) = [c \in DOMAIN Changed(d, new) |-> Changed(d, new)[c]]
      BY <3>1 DEF Changed
    <3> QED BY <3>2, JoinedNothing
  <2>4. <<>> \o rest = rest
    BY <2>2, ConcatEmpty
  <2>5. PanicFree(program[d])
    <3>1. PICK l \in DOMAIN program[d].attrs : program[d].attrs[l] = Macro(d)
      BY <2>2 DEF Range
    <3>2. IsSeq(program[d].attrs)
      BY <2>2, ProgramsAssumption, SeqIsSeq DEF Sound
    <3>3. l \in 1..Len(program[d].attrs)
      BY <3>1, <3>2, SeqElements
    <3> QED BY <1>1, <1>5, <3>1, <3>3 DEF PanicFree
  <2> HIDE DEF item, rest
  <2>6. /\ IsItem(x) /\ x.attrs = rest /\ x.parent = item.parent
        /\ x.inputs = item.inputs /\ x.output = item.output
    BY <2>2, WithAttrsIsItem
  <2> HIDE DEF x
  <2>7. /\ IsItem(new) /\ new.attrs = rest /\ new.parent = item.parent
        /\ new.inputs = item.inputs /\ new.output = item.output
    BY <2>6 DEF Admitted, IsItem
  <2> HIDE DEF new
  <2>8. Made((uids + 1)..uids, NoItems) /\ MadeUnder(items, NoItems) /\ MadeOrdinary(NoItems)
    BY NoItemsMade DEF MadeUnder
  <2>9. Alone(d, <<>>, new, NoItems, items', uids)
    BY <1>1, <1>2, <1>3, <2>1, <2>2, <2>3, <2>4, <2>5, <2>7, <2>8, EmptyIsSeq DEF Alone, item, rest
  <2>10. Sound(build.how, program, items', uids')
    BY <2>1, <2>9, AloneStep
  <2> QED BY <2>1, <2>10, SoundStep
<1>6. CASE Macro(d)[2] # "lax" /\ ~ (Macro(d)[2] = "panic_free" /\ items[d].kind \in {"fn", "impl_fn"})
  <2>1. \E why : Fails(why)
    BY <1>6 DEF VerificationStatus
  <2> QED BY <2>1, <1>1, FailsStep
<1> QED BY <1>4, <1>5, <1>6

\* A payload, and that of a formula after it.
LEMMA PayloadThenAssoc ==
    ASSUME NEW r, NEW u, NEW x, x[1] \notin UserOnly, \A role \in Roles : ~ Carries(x, role)
    PROVE  LET P == Payload(x) \o AssocAttr(r, u)
           IN  /\ IsSeq(P) /\ (~ Translated => P = <<>>)
               /\ \A i \in 1..Len(P) : P[i][1] \notin UserOnly
               /\ Translated => 2 \in 1..Len(P) /\ P[2] = <<"AssociatedItem", r, u>>
               /\ \A i \in 1..Len(P), role \in Roles : Carries(P[i], role) => role = r /\ i = 2
<1> DEFINE a == Payload(x)
           b == AssocAttr(r, u)
           P == a \o b
<1>1. /\ IsSeq(a) /\ (~ Translated => a = <<>>) /\ (Translated => a = <<x>>)
      /\ \A i \in 1..Len(a) : Translated /\ a[i] = x
  BY PayloadFacts
<1>2. /\ IsSeq(b) /\ (~ Translated => b = <<>>) /\ (Translated => Len(b) = 1)
      /\ \A i \in 1..Len(b) : Translated /\ b[i] = <<"AssociatedItem", r, u>>
  BY AssocAttrFacts
<1>20. Translated => Len(a) = 1
  BY <1>1, OneIsSeq
<1> HIDE DEF a, b
<1>3. /\ IsSeq(a \o b) /\ Len(a \o b) = Len(a) + Len(b)
      /\ \A i \in 1..Len(b) : (a \o b)[Len(a) + i] = b[i]
      /\ \A i \in 1..Len(a \o b) : \/ i \in 1..Len(a) /\ (a \o b)[i] = a[i]
                                   \/ i - Len(a) \in 1..Len(b) /\ (a \o b)[i] = b[i - Len(a)]
  <2>1. IsSeq(a) /\ IsSeq(b)
    BY <1>1, <1>2
  <2> QED BY ONLY <2>1, ConcatIsSeq
<1>4. P = a \o b /\ Len(a) \in Nat /\ Len(b) \in Nat
  BY <1>1, <1>2, SeqElements
<1> HIDE DEF P
<1>5. ~ Translated => P = <<>>
  <2> HAVE ~ Translated
  <2>1. Len(P) = 0 /\ IsSeq(P)
    BY <1>1, <1>2, <1>3, <1>4, EmptyIsSeq
  <2> QED BY <2>1, EmptyIsSeq, SameSeq
<1>6. Translated => 2 \in 1..Len(P) /\ P[2] = <<"AssociatedItem", r, u>>
  <2> HAVE Translated
  <2>1. Len(a) + 1 = 2 /\ 1 \in 1..Len(b) /\ 2 \in 1..Len(P)
    <3>1. Len(a) = 1 /\ Len(b) = 1
      BY <1>2, <1>20
    <3>2. Len(P) = 2
      BY <3>1, <1>3, <1>4
    <3> QED BY <3>1, <3>2
  <2> QED BY <2>1, <1>2, <1>3, <1>4
<1>7. ASSUME NEW i \in 1..Len(P)
      PROVE  P[i] = x \/ (P[i] = <<"AssociatedItem", r, u>> /\ i = 2)
  <2>1. CASE i \in 1..Len(a) /\ P[i] = a[i]
    BY <2>1, <1>1
  <2>2. CASE i - Len(a) \in 1..Len(b) /\ P[i] = b[i - Len(a)]
    <3>1. Translated /\ P[i] = <<"AssociatedItem", r, u>>
      BY <2>2, <1>2
    <3>2. i = 2
      <4>1. Len(a) = 1 /\ Len(b) = 1
        BY <3>1, <1>2, <1>20
      <4>2. i - 1 \in 1..1 /\ i \in Int
        BY <2>2, <4>1, <1>4, <1>7
      <4> QED BY <4>2
    <3> QED BY <3>1, <3>2
  <2> QED BY <2>1, <2>2, <1>3, <1>4, <1>7
<1>8. \A i \in 1..Len(P) : P[i][1] \notin UserOnly
  BY <1>7 DEF UserOnly
<1>9. \A i \in 1..Len(P), role \in Roles : Carries(P[i], role) => role = r /\ i = 2
  <2> TAKE i \in 1..Len(P), role \in Roles
  <2> HAVE Carries(P[i], role)
  <2>1. P[i] = <<"AssociatedItem", r, u>> /\ i = 2
    BY <1>7
  <2> QED BY <2>1 DEF Carries, WrittenAs, Roles
<1> QED BY <1>3, <1>4, <1>5, <1>6, <1>8, <1>9 DEF P, a, b

\* What refinement_type makes of the uid u.
NewtypeMade(u, d, fn, phi) ==
    Joined(RefinementItems(u, d), Decoration(u, <<u, "mod">>, "ensures", fn, phi))

LEMMA NewtypeMadeFacts ==
    ASSUME NEW u, NEW d, NEW fn, NEW phi
    PROVE  LET made == NewtypeMade(u, d, fn, phi)
           IN  /\ Made({u}, made) /\ <<u, "mod">> \in DOMAIN made
               /\ Translated => <<u, "fn">> \in DOMAIN made /\ made[<<u, "fn">>].body.says = phi.says
               /\ ~ Translated => MadeOrdinary(made)
               /\ \A c \in DOMAIN made : made[c].parent \in {items[d].parent} \cup DOMAIN made
<1> DEFINE a == RefinementItems(u, d)
           b == Decoration(u, <<u, "mod">>, "ensures", fn, phi)
           made == NewtypeMade(u, d, fn, phi)
<1>1. /\ Made({u}, a) /\ MadeOrdinary(a)
      /\ <<u, "mod">> \in DOMAIN a /\ <<u, "fn">> \notin DOMAIN a
      /\ \A c \in DOMAIN a : a[c].parent \in {items[d].parent, <<u, "mod">>}
  BY RefinementItemsMade
<1>2. /\ Made({u}, b)
      /\ Translated => <<u, "fn">> \in DOMAIN b /\ b[<<u, "fn">>].body.says = phi.says
      /\ ~ Translated => b = NoItems
      /\ \A c \in DOMAIN b : b[c].parent \in {<<u, "mod">>} \cup DOMAIN b
  BY DecorationMade
<1>3. made = Joined(a, b)
  BY DEF NewtypeMade
<1> HIDE DEF a, b, made
<1>4. Made({u}, made)
  BY <1>1, <1>2, <1>3, JoinedMade
<1>5. /\ DOMAIN made = DOMAIN a \cup DOMAIN b
      /\ \A c \in DOMAIN a : made[c] = a[c]
      /\ \A c \in DOMAIN b \ DOMAIN a : made[c] = b[c]
  <2>1. /\ DOMAIN Joined(a, b) = DOMAIN a \cup DOMAIN b
        /\ \A c \in DOMAIN a : Joined(a, b)[c] = a[c]
        /\ \A c \in DOMAIN b \ DOMAIN a : Joined(a, b)[c] = b[c]
    BY DEF Joined
  <2> QED BY <1>3, <2>1
<1>6. ~ Translated => MadeOrdinary(made)
  BY <1>1, <1>2, <1>5 DEF MadeOrdinary, NoItems
<1>7. ASSUME NEW c \in DOMAIN made
      PROVE  made[c].parent \in {items[d].parent} \cup DOMAIN made
  BY <1>1, <1>2, <1>5, <1>7
<1> QED BY <1>1, <1>2, <1>4, <1>5, <1>6, <1>7 DEF made

\* The newtype goes to its module.
LEMMA RefinementTypeStep == ASSUME NEW d \in DOMAIN items, IInv, RefinementType(d) PROVE IInv'
<1>1. AtMacro(d) /\ Macro(d)[1] \in {"refinement_type"} /\ stage = "expand"
  BY ExpandingFacts DEF RefinementType
<1> DEFINE u == uids + 1
           moved == [items[d] EXCEPT !.parent = <<u, "mod">>]
           sig == [[items[d] EXCEPT !.inputs = <<>>] EXCEPT !.output = ValueType]
           P == Payload(<<"NewtypeAsRefinement">>) \o AssocAttr("ensures", u)
           rest == Rest(d)
           attrs == Payload(<<"NewtypeAsRefinement">>) \o AssocAttr("ensures", u) \o rest
           new == WithAttrs(moved, attrs)
           made == NewtypeMade(u, d, sig, Macro(d)[2])
           k == NextMacro(d)
<1>2. CASE items[d].output # Positional \/ Len(items[d].inputs) # 1
  <2>1. Fails("expected a newtype")
    BY <1>2 DEF RefinementType
  <2> QED BY <2>1, <1>1, FailsStep
<1>3. CASE ~ (items[d].output # Positional \/ Len(items[d].inputs) # 1)
  <2>1. /\ items' = Joined(Changed(d, new), made)
        /\ uids' = u /\ build' = build /\ program' = program /\ stage' = "expand"
    BY <1>1, <1>3 DEF RefinementType, NewtypeMade
  <2>2. /\ Sound(build.how, program, items, uids) /\ uids \in Nat
        /\ k \in 1..Len(items[d].attrs) /\ Macro(d) = items[d].attrs[k]
        /\ IsItem(items[d]) /\ IsSeq(items[d].attrs) /\ IsSeq(rest)
    BY <1>1, AtMacroFacts
  <2>3. /\ IsSeq(P) /\ (~ Translated => P = <<>>)
        /\ \A i \in 1..Len(P) : P[i][1] \notin UserOnly
        /\ Translated => 2 \in 1..Len(P) /\ P[2] = <<"AssociatedItem", "ensures", u>>
        /\ \A i \in 1..Len(P), role \in Roles : Carries(P[i], role) => role = "ensures" /\ i = 2
    <3>1. <<"NewtypeAsRefinement">>[1] \notin UserOnly /\ \A role \in Roles : ~ Carries(<<"NewtypeAsRefinement">>, role)
      BY DEF UserOnly, Carries, WrittenAs, Roles
    <3> QED BY <3>1, PayloadThenAssoc
  <2>4. attrs = P \o rest
    OBVIOUS
  <2>5. /\ IsItem(moved) /\ moved.parent = <<u, "mod">> /\ moved.output = items[d].output
        /\ moved.inputs = items[d].inputs /\ moved.body = items[d].body
    BY <2>2 DEF IsItem
  <2> HIDE DEF P, attrs, rest, moved, sig
  <2>6. /\ IsItem(new) /\ new.attrs = P \o rest /\ new.parent = <<u, "mod">>
        /\ new.output = items[d].output
        /\ new.inputs = items[d].inputs /\ new.body = items[d].body
    <3>1. IsItem(moved)
      BY <2>5
    <3>2. /\ IsItem(WithAttrs(moved, attrs)) /\ WithAttrs(moved, attrs).attrs = attrs
          /\ WithAttrs(moved, attrs).parent = moved.parent /\ WithAttrs(moved, attrs).inputs = moved.inputs
          /\ WithAttrs(moved, attrs).output = moved.output /\ WithAttrs(moved, attrs).body = moved.body
      BY ONLY <3>1, WithAttrsIsItem
    <3>3. new = WithAttrs(moved, attrs)
      OBVIOUS
    <3> HIDE DEF new
    <3> QED BY <2>4, <2>5, <3>2, <3>3
  <2> HIDE DEF new
  <2>7. /\ Made({u}, made) /\ <<u, "mod">> \in DOMAIN made
        /\ Translated => <<u, "fn">> \in DOMAIN made /\ made[<<u, "fn">>].body.says = Macro(d)[2].says
        /\ ~ Translated => MadeOrdinary(made)
        /\ \A c \in DOMAIN made : made[c].parent \in {items[d].parent} \cup DOMAIN made
    BY NewtypeMadeFacts
  <2> HIDE DEF made
  <2>8. u \in Nat /\ uids <= u /\ (uids + 1)..u = {u}
    BY <2>2
  <2>9. OneItem(build.how, program, items, uids, items', u, d, k, P, new, made)
    <3>1. IsItem(new) /\ IsSeq(P) /\ new.attrs = P \o Rest(d)
      BY <2>3, <2>6 DEF rest
    <3>2. Made((uids + 1)..u, made)
      BY <2>7, <2>8
    <3> QED BY <1>1, <2>1, <2>3, <2>8, <3>1, <3>2, Expansions
  <2> HIDE DEF u, k
  <2>10. ASSUME Translated
         PROVE  /\ d \in DOMAIN program
                /\ Macro(d)[2].says = SaidAt(items, d, k)
                /\ k \in Places(program, items, d, "ensures")
                /\ \A other \in Roles : Carries(Macro(d), other) => other = "ensures"
                /\ Macro(d)[1] # "lemma" /\ MadeUnder(items, made)
    <3>1. d \in DOMAIN program
      BY <1>1, <2>10, CompanionMacro
    <3>2. k # 0 /\ k \in Places(program, items, d, "ensures") /\ SaidAt(items, d, k) = Macro(d)[2].says
      <4>1. Len(items[d].attrs) \in Nat
        BY <2>2, SeqElements
      <4>2. k # 0
        BY <2>2, <4>1
      <4>3. Carries(items[d].attrs[k], "ensures") /\ Said(items, items[d].attrs[k]) = Macro(d)[2].says
        BY <1>1, <2>2 DEF Carries, WrittenAs, Said
      <4> QED BY <4>2, <4>3, <2>2 DEF Places, SaidAt
    <3>3. \A other \in Roles : Carries(Macro(d), other) => other = "ensures"
      BY <1>1 DEF Carries, WrittenAs, Roles
    <3>4. items[d].parent \in DOMAIN items \cup {NoItem}
      BY <2>2, <2>10, <1>1 DEF Sound, Companions, Translated
    <3>5. MadeUnder(items, made)
      BY <2>7, <3>4 DEF MadeUnder
    <3> QED BY <1>1, <3>1, <3>2, <3>3, <3>5
  <2>11. "ensures" \in Roles
    BY DEF Roles
  <2>12. WithFormula(d, P, new, made, "ensures", k, 2)
    BY <2>3, <2>6, <2>7, <2>10, <2>11 DEF WithFormula, u, k
  <2> QED BY <1>1, <2>1, <2>9, <2>12, FormulaStep DEF u, k
<1> QED BY <1>2, <1>3

-----------------------------------------------------------------------------
(* dummy.rs *)

\* Fewer items, with fewer attributes.
Lessened(its, its2) ==
    /\ its2 = [e \in DOMAIN its2 |-> its2[e]] /\ DOMAIN its2 \subseteq DOMAIN its
    /\ \A e \in DOMAIN its2 :
          /\ IsItem(its2[e]) /\ IsSeq(its2[e].attrs)
          /\ \A i \in 1..Len(its2[e].attrs) : its2[e].attrs[i] \in Range(its[e].attrs)
          /\ its2[e].body = its[e].body /\ its2[e].inputs = its[e].inputs

LEMMA LessenedSound ==
    ASSUME NEW how, NEW p, NEW its, NEW n, NEW its2, how # "translated", Sound(how, p, its, n),
           Lessened(its, its2)
    PROVE  Sound(how, p, its2, n)
<1>1. p \in Programs /\ n \in Nat /\ Shape(p, its) /\ NoTrace(p, its)
  BY DEF Sound
<1>2. /\ its2 = [e \in DOMAIN its2 |-> its2[e]] /\ DOMAIN its2 \subseteq DOMAIN its
      /\ \A e \in DOMAIN its2 :
            /\ IsItem(its2[e]) /\ IsSeq(its2[e].attrs)
            /\ \A i \in 1..Len(its2[e].attrs) : its2[e].attrs[i] \in Range(its[e].attrs)
            /\ its2[e].body = its[e].body /\ its2[e].inputs = its[e].inputs
  BY DEF Lessened
<1>3. IsFiniteSet(DOMAIN its2)
  <2>1. IsFiniteSet(DOMAIN its) /\ DOMAIN its2 \subseteq DOMAIN its
    BY <1>1, <1>2 DEF Shape
  <2> QED BY ONLY <2>1, FS_Subset
<1>4. ASSUME NEW e \in DOMAIN its2, NEW i \in 1..Len(its2[e].attrs)
      PROVE  \E j \in 1..Len(its[e].attrs) : its2[e].attrs[i] = its[e].attrs[j]
  <2>1. IsSeq(its[e].attrs)
    BY <1>1, <1>2 DEF Shape
  <2>2. its2[e].attrs[i] \in Range(its[e].attrs)
    BY <1>2, <1>4
  <2> QED BY <2>1, <2>2, SeqElements
<1>5. ASSUME NEW e \in DOMAIN its2, NEW i \in 1..Len(its2[e].attrs)
      PROVE  /\ its2[e].attrs[i][1] \in MacroTags \cup Plain
             /\ its2[e].attrs[i][1] \in UserOnly => e \in DOMAIN p /\ its2[e].attrs[i] \in Range(p[e].attrs)
  <2>1. PICK j \in 1..Len(its[e].attrs) : its2[e].attrs[i] = its[e].attrs[j]
    BY <1>4, <1>5
  <2>2. its[e].attrs[j][1] \in MacroTags \cup Plain
    BY <1>1, <1>2 DEF NoTrace
  <2>3. its[e].attrs[j][1] \in UserOnly => e \in DOMAIN p /\ its[e].attrs[j] \in Range(p[e].attrs)
    BY <1>1, <1>2 DEF Shape
  <2> QED BY <2>1, <2>2, <2>3
<1>6. Shape(p, its2)
  BY <1>2, <1>3, <1>5 DEF Shape
<1>7. NoTrace(p, its2)
  <2>1. \A c \in DOMAIN its2 \ DOMAIN p : c[2] \in {"mod", "Refinement", "Deref", "RefineAs"}
    BY <1>1, <1>2 DEF NoTrace
  <2>2. \A e \in DOMAIN p \cap DOMAIN its2 :
           \/ its2[e].body = p[e].body /\ its2[e].inputs = p[e].inputs
           \/ PanicFree(p[e])
    BY <1>1, <1>2 DEF NoTrace
  <2> QED BY <1>5, <2>1, <2>2 DEF NoTrace
<1> QED BY <1>1, <1>6, <1>7 DEF Sound

\* The attributes a macro leaves are those of its item.
LEMMA RestFacts ==
    ASSUME NEW d, AtMacro(d)
    PROVE  IsSeq(Rest(d)) /\ \A i \in 1..Len(Rest(d)) : Rest(d)[i] \in Range(items[d].attrs)
<1> DEFINE a == items[d].attrs
           k == NextMacro(d)
           N == Len(a) - 1
<1>1. IsSeq(a) /\ k \in 1..Len(a) /\ Rest(d) = RemoveAt(a, k)
  BY AtMacroFacts
<1> HIDE DEF a, k
<1>2. /\ IsSeq(RemoveAt(a, k)) /\ Len(RemoveAt(a, k)) = N
      /\ \A i \in 1..N : RemoveAt(a, k)[i] = a[Skip(k, i)]
  BY <1>1, RemoveAtFacts DEF Skip
<1>3. Len(a) \in Nat /\ \A i \in 1..Len(a) : a[i] \in Range(a)
  BY <1>1, SeqElements
<1>4. \A i \in 1..N : Skip(k, i) \in 1..Len(a)
  BY <1>1, <1>3, SkipFacts
<1> QED BY <1>1, <1>2, <1>3, <1>4 DEF a

LEMMA DummyStep == ASSUME NEW d \in DOMAIN items, IInv, Dummy(d) PROVE IInv'
<1>1. /\ stage = "expand" /\ build.how = "ordinary" /\ MacrosOf(d) # {}
      /\ uids' = uids /\ build' = build /\ program' = program /\ stage' = "expand"
  BY DEF Dummy, Ready
<1>2. AtMacro(d)
  BY <1>1 DEF AtMacro
<1>3. /\ Sound(build.how, program, items, uids) /\ IsItem(items[d])
      /\ items = [e \in DOMAIN items |-> items[e]]
      /\ \A e \in DOMAIN items : IsItem(items[e]) /\ IsSeq(items[e].attrs)
  BY <1>2, AtMacroFacts DEF Sound, Shape
<1>4. \A e \in DOMAIN items : \A i \in 1..Len(items[e].attrs) : items[e].attrs[i] \in Range(items[e].attrs)
  BY <1>3, SeqElements
<1>5. ASSUME NEW e \in DOMAIN items, NEW a, IsSeq(a), \A i \in 1..Len(a) : a[i] \in Range(items[e].attrs),
             NEW x, x = WithAttrs(items[e], a)
      PROVE  /\ IsItem(x) /\ IsSeq(x.attrs)
             /\ \A i \in 1..Len(x.attrs) : x.attrs[i] \in Range(items[e].attrs)
             /\ x.body = items[e].body /\ x.inputs = items[e].inputs
  <2>1. IsItem(items[e])
    BY <1>3
  <2>2. /\ IsItem(WithAttrs(items[e], a)) /\ WithAttrs(items[e], a).attrs = a
        /\ WithAttrs(items[e], a).inputs = items[e].inputs /\ WithAttrs(items[e], a).body = items[e].body
    BY <2>1, WithAttrsIsItem
  <2> QED BY <1>5, <2>2
<1>6. IsSeq(Rest(d)) /\ \A i \in 1..Len(Rest(d)) : Rest(d)[i] \in Range(items[d].attrs)
  BY <1>2, RestFacts
<1>7. Lessened(items, items')
  <2>1. CASE Macro(d)[1] = "lemma"
    <3>1. items' = [e \in DOMAIN items \ Within(d) |-> items[e]]
      BY <2>1 DEF Dummy
    <3> QED BY <3>1, <1>3, <1>4 DEF Lessened
  <2>2. CASE Macro(d)[1] = "attributes"
    <3>1. items' = [e \in DOMAIN items |->
                      IF e = d THEN WithAttrs(items[e], Rest(d))
                      ELSE IF e \in Within(d) THEN WithAttrs(items[e], Stripped(d, e))
                      ELSE items[e]]
      BY <2>2 DEF Dummy
    <3>2. ASSUME NEW e \in DOMAIN items
          PROVE  IsSeq(Stripped(d, e)) /\ \A i \in 1..Len(Stripped(d, e)) : Stripped(d, e)[i] \in Range(items[e].attrs)
      <4>1. IsSeq(items[e].attrs)
        BY <1>3
      <4> QED BY <4>1, AmongIsSeq DEF Stripped
    <3> QED BY <3>1, <3>2, <1>3, <1>4, <1>5, <1>6 DEF Lessened
  <2>3. CASE Macro(d)[1] \notin {"lemma", "attributes"}
    <3>1. items' = Changed(d, WithAttrs(items[d], Rest(d)))
      BY <2>3 DEF Dummy
    <3> DEFINE x == WithAttrs(items[d], Rest(d))
    <3> HIDE DEF x
    <3>2. /\ IsItem(x) /\ IsSeq(x.attrs)
          /\ \A i \in 1..Len(x.attrs) : x.attrs[i] \in Range(items[d].attrs)
          /\ x.body = items[d].body /\ x.inputs = items[d].inputs
      BY <1>5, <1>6 DEF x
    <3>3. items' = [items EXCEPT ![d] = x]
      BY <3>1 DEF x, Changed
    <3> QED BY <3>2, <3>3, <1>3, <1>4 DEF Lessened
  <2> QED BY <2>1, <2>2, <2>3
<1>8. Sound(build.how, program, items', uids)
  BY <1>1, <1>3, <1>7, LessenedSound
<1> QED BY <1>1, <1>8, SoundStep

LEMMA ResolveStep == ASSUME IInv, Resolve PROVE IInv'
<1>1. stage = "expand" /\ \A d \in DOMAIN items : MacrosOf(d) = {}
  BY DEF Resolve
<1>2. CASE \E d \in DOMAIN items : \E k \in DOMAIN items[d].attrs : items[d].attrs[k][1] = "refine"
  <2>1. Fails("unknown attribute")
    BY <1>2 DEF Resolve
  <2> QED BY <2>1, <1>1, FailsStep
<1>3. CASE ~ \E d \in DOMAIN items : \E k \in DOMAIN items[d].attrs : items[d].attrs[k][1] = "refine"
  <2>1. stage' = "expanded" /\ program' = program /\ build' = build /\ items' = items /\ uids' = uids
    BY <1>3 DEF Resolve, expansion
  <2>2. Sound(build.how, program, items, uids)'
    BY <2>1 DEF IInv
  <2>3. NoneLeft(items)
    BY <1>1, <1>3 DEF NoneLeft, MacrosOf
  <2> QED BY <2>1, <2>2, <2>3 DEF IInv
<1> QED BY <1>2, <1>3

-----------------------------------------------------------------------------
(* attributes: the places that draw a uid *)

LEMMA SitesFinite ==
    ASSUME NEW d \in DOMAIN items, Shape(program, items)
    PROVE  /\ IsFiniteSet(Sites(d)) /\ Within(d) \subseteq DOMAIN items /\ d \in Within(d)
           /\ \A s \in Sites(d) : /\ s = <<s[1], s[2]>> /\ s[1] \in Within(d)
                                  /\ s[2] \in 1..Len(items[s[1]].attrs)
<1> DEFINE W == Within(d)
           f == [m \in W |-> {<<m, k>> : k \in DOMAIN items[m].attrs}]
<1>1. W \subseteq DOMAIN items /\ d \in W
  BY DEF Within
<1>2. \A m \in W : DOMAIN items[m].attrs = 1..Len(items[m].attrs) /\ Len(items[m].attrs) \in Nat
  <2> TAKE m \in W
  <2>1. IsSeq(items[m].attrs)
    BY <1>1 DEF Shape
  <2> QED BY <2>1, SeqElements
<1>3. IsFiniteSet(W)
  <2>1. IsFiniteSet(DOMAIN items)
    BY DEF Shape
  <2> HIDE DEF W
  <2> QED BY ONLY <2>1, <1>1, FS_Subset
<1>4. ASSUME NEW m \in W PROVE IsFiniteSet(f[m])
  <2> DEFINE K == DOMAIN items[m].attrs
             g == [k \in K |-> <<m, k>>]
  <2>1. IsFiniteSet(K)
    <3>1. K = 1..Len(items[m].attrs) /\ Len(items[m].attrs) \in Int /\ 1 \in Int
      BY <1>2
    <3> HIDE DEF K
    <3> QED BY <3>1, FS_Interval
  <2>2. f[m] = {g[k] : k \in K}
    OBVIOUS
  <2> HIDE DEF g, K, f
  <2>3. IsFiniteSet({g[k] : k \in K})
    BY <2>1, ImageFinite
  <2> QED BY <2>2, <2>3
<1>5. Sites(d) = UNION {f[m] : m \in W}
  BY DEF Sites
<1>6. IsFiniteSet(UNION {f[m] : m \in W})
  <2> HIDE DEF f, W
  <2> QED BY <1>3, <1>4, UnionFinite
<1>7. \A s \in Sites(d) : s = <<s[1], s[2]>> /\ s[1] \in W /\ s[2] \in 1..Len(items[s[1]].attrs)
  BY <1>2 DEF Sites
<1> QED BY <1>1, <1>5, <1>6, <1>7

\* Each place that draws a uid draws one of its own, and a new one.
LEMMA DrawnFacts ==
    ASSUME NEW d, AtMacro(d), NEW n2, n2 = uids + Cardinality(Drawn(d))
    PROVE  /\ IsFiniteSet(Drawn(d)) /\ n2 \in Nat /\ uids \in Nat /\ uids <= n2
           /\ \A s \in Drawn(d) : /\ UidAt(d, s) \in (uids + 1)..n2
                                  /\ UidAt(d, s) \in 1..n2 /\ UidAt(d, s) > uids
           /\ \A s, r \in Drawn(d) : UidAt(d, s) = UidAt(d, r) => s = r
<1> DEFINE D == Drawn(d)
           C == Cardinality(D)
           o == Order(D)
<1>1. uids \in Nat /\ d \in DOMAIN items /\ Shape(program, items)
  BY AtMacroFacts DEF Sound
<1>2. IsFiniteSet(D)
  <2>1. D \subseteq Sites(d)
    BY DEF Drawn, TraitSpecs, Refinements
  <2>2. IsFiniteSet(Sites(d))
    BY <1>1, SitesFinite
  <2> HIDE DEF D
  <2> QED BY ONLY <2>1, <2>2, FS_Subset
<1>3. /\ C \in Nat /\ \A s \in D : o[s] \in 1..C
      /\ \A s, r \in D : o[s] = o[r] => s = r
  BY <1>2, OrderFacts
<1>4. \A s : UidAt(d, s) = uids + o[s]
  BY DEF UidAt
<1> HIDE DEF o
<1>5. n2 = uids + C
  OBVIOUS
<1> HIDE DEF C
<1>6. ASSUME NEW s \in D
      PROVE UidAt(d, s) \in (uids + 1)..n2 /\ UidAt(d, s) \in 1..n2 /\ UidAt(d, s) > uids
  <2>1. o[s] \in 1..C /\ UidAt(d, s) = uids + o[s]
    BY <1>3, <1>4, <1>6
  <2> QED BY <2>1, <1>1, <1>3, <1>5
<1>7. \A s, r \in D : UidAt(d, s) = UidAt(d, r) => s = r
  <2> TAKE s, r \in D
  <2>1. o[s] \in 1..C /\ o[r] \in 1..C /\ UidAt(d, s) = uids + o[s] /\ UidAt(d, r) = uids + o[r]
    BY <1>3, <1>4
  <2>2. UidAt(d, s) = UidAt(d, r) => o[s] = o[r]
    BY <2>1, <1>1, <1>3
  <2> QED BY <2>2, <1>3
<1> QED BY <1>1, <1>2, <1>3, <1>5, <1>6, <1>7

\* What is made for a place.
LEMMA MadeAtFacts ==
    ASSUME NEW d, AtMacro(d), NEW s \in Drawn(d)
    PROVE  /\ Made({UidAt(d, s)}, MadeAt(d, s))
           /\ Translated =>
                /\ <<UidAt(d, s), "fn">> \in DOMAIN MadeAt(d, s)
                /\ MadeAt(d, s)[<<UidAt(d, s), "fn">>].body.says = items[s[1]].attrs[s[2]][2].says
                /\ MadeUnder(items, MadeAt(d, s))
           /\ ~ Translated => MadeAt(d, s) = NoItems
<1> DEFINE a == items[s[1]].attrs[s[2]]
           u == UidAt(d, s)
           m == MadeAt(d, s)
<1>1. /\ d \in DOMAIN items /\ Shape(program, items)
      /\ Translated => Companions(program, items, uids)
  BY AtMacroFacts DEF Sound, Translated
<1>2. Within(d) \subseteq DOMAIN items
  BY <1>1, SitesFinite
<1>3. CASE a[1] = "refine"
  <2> DEFINE parent == items[items[s[1]].parent].parent
             r == Refinement(u, s[1], a[2])
  <2>1. m = r
    BY <1>3 DEF MadeAt
  <2>2. /\ Made({u}, r)
        /\ Translated => <<u, "fn">> \in DOMAIN r /\ r[<<u, "fn">>].body = a[2]
        /\ ~ Translated => r = NoItems
        /\ \A c \in DOMAIN r : r[c].parent \in {parent} \cup DOMAIN r
    BY RefinementMade
  <2>3. items[s[1]].parent \in DOMAIN items
    <3>1. s \in Refinements(d)
      BY <1>3 DEF Drawn, TraitSpecs, DecorationKinds
    <3> QED BY <3>1, <1>2 DEF Refinements
  <2> HIDE DEF r, u
  <2>4. Translated => MadeUnder(items, r)
    <3>1. Translated => parent \in DOMAIN items \cup {NoItem}
      BY <1>1, <2>3 DEF Companions
    <3> HIDE DEF parent
    <3> QED BY <2>2, <3>1 DEF MadeUnder
  <2> HIDE DEF m, a
  <2>5. /\ Made({u}, m)
        /\ Translated => <<u, "fn">> \in DOMAIN m /\ m[<<u, "fn">>].body.says = a[2].says /\ MadeUnder(items, m)
        /\ ~ Translated => m = NoItems
    BY <2>1, <2>2, <2>4
  <2> QED BY <2>5 DEF m, a, u
<1>4. CASE a[1] # "refine"
  <2> DEFINE parent == items[d].parent
             r == Decoration(u, parent, a[1], items[s[1]], a[2])
  <2>1. m = r
    BY <1>4 DEF MadeAt
  <2>2. /\ Made({u}, r)
        /\ Translated => <<u, "fn">> \in DOMAIN r /\ r[<<u, "fn">>].body.says = a[2].says
        /\ ~ Translated => r = NoItems
        /\ \A c \in DOMAIN r : r[c].parent \in {parent} \cup DOMAIN r
    BY DecorationMade
  <2> HIDE DEF r, u
  <2>4. Translated => MadeUnder(items, r)
    <3>1. Translated => parent \in DOMAIN items \cup {NoItem}
      BY <1>1 DEF Companions
    <3> HIDE DEF parent
    <3> QED BY <2>2, <3>1 DEF MadeUnder
  <2> HIDE DEF m, a
  <2>5. /\ Made({u}, m)
        /\ Translated => <<u, "fn">> \in DOMAIN m /\ m[<<u, "fn">>].body.says = a[2].says /\ MadeUnder(items, m)
        /\ ~ Translated => m = NoItems
    BY <2>1, <2>2, <2>4
  <2> QED BY <2>5 DEF m, a, u
<1> QED BY <1>3, <1>4

\* What is made for all of them.
LEMMA MadeByFacts ==
    ASSUME NEW d, AtMacro(d), NEW n2, n2 = uids + Cardinality(Drawn(d))
    PROVE  /\ Made((uids + 1)..n2, MadeBy(d))
           /\ \A s \in Drawn(d) : \A c \in DOMAIN MadeAt(d, s) :
                 c \in DOMAIN MadeBy(d) /\ MadeBy(d)[c] = MadeAt(d, s)[c]
           /\ Translated => MadeUnder(items, MadeBy(d))
           /\ ~ Translated => MadeBy(d) = NoItems
<1> DEFINE D == Drawn(d)
           f == [s \in D |-> DOMAIN MadeAt(d, s)]
           M == MadeBy(d)
<1>1. /\ IsFiniteSet(D)
      /\ \A s \in D : UidAt(d, s) \in (uids + 1)..n2
      /\ \A s, r \in D : UidAt(d, s) = UidAt(d, r) => s = r
  BY DrawnFacts
<1>2. /\ DOMAIN M = UNION {f[s] : s \in D} /\ M = [c \in DOMAIN M |-> M[c]]
      /\ \A c \in DOMAIN M : M[c] = MadeAt(d, CHOOSE s \in D : c \in DOMAIN MadeAt(d, s))[c]
  BY DEF MadeBy
<1>3. \A s \in D : /\ Made({UidAt(d, s)}, MadeAt(d, s))
                   /\ Translated => MadeUnder(items, MadeAt(d, s))
                   /\ ~ Translated => MadeAt(d, s) = NoItems
  BY MadeAtFacts
<1>4. \A s \in D : \A c \in DOMAIN MadeAt(d, s) : c \in {UidAt(d, s)} \X CompanionKinds
  BY <1>3 DEF Made
<1>5. \A s \in D : f[s] = DOMAIN MadeAt(d, s)
  OBVIOUS
<1> HIDE DEF D, M, f
<1>6. IsFiniteSet(DOMAIN M)
  <2>1. \A s \in D : IsFiniteSet(f[s])
    BY <1>3, <1>5 DEF Made
  <2> QED BY <2>1, <1>1, <1>2, UnionFinite
<1>7. ASSUME NEW s \in D, NEW c \in DOMAIN MadeAt(d, s)
      PROVE  c \in DOMAIN M /\ M[c] = MadeAt(d, s)[c]
  <2>1. c \in DOMAIN M
    BY <1>2, <1>5, <1>7
  <2> DEFINE r == CHOOSE r \in D : c \in DOMAIN MadeAt(d, r)
  <2>2. r \in D /\ c \in DOMAIN MadeAt(d, r)
    BY <1>7
  <2>3. M[c] = MadeAt(d, r)[c]
    BY <2>1, <1>2
  <2> HIDE DEF r
  <2>4. c[1] = UidAt(d, s) /\ c[1] = UidAt(d, r)
    BY <2>2, <1>4, <1>7
  <2>5. r = s
    BY <2>2, <2>4, <1>1
  <2> QED BY <2>1, <2>3, <2>5
<1>8. \A c \in DOMAIN M : \E s \in D : c \in DOMAIN MadeAt(d, s) /\ M[c] = MadeAt(d, s)[c]
  BY <1>2, <1>5, <1>7
<1>9. ASSUME NEW c \in DOMAIN M
      PROVE  /\ c \in ((uids + 1)..n2) \X CompanionKinds /\ IsItem(M[c]) /\ IsSeq(M[c].attrs)
             /\ IsCompanion(M, c)
             /\ \A k \in 1..Len(M[c].attrs) : M[c].attrs[k][1] \notin UserOnly
             /\ Translated => M[c].parent \in DOMAIN items \cup DOMAIN M \cup {NoItem}
  <2>1. PICK s \in D : c \in DOMAIN MadeAt(d, s) /\ M[c] = MadeAt(d, s)[c]
    BY <1>8, <1>9
  <2>2. DOMAIN MadeAt(d, s) \subseteq DOMAIN M
    BY <1>7
  <2>3. /\ c \in {UidAt(d, s)} \X CompanionKinds
        /\ IsItem(MadeAt(d, s)[c]) /\ IsSeq(MadeAt(d, s)[c].attrs) /\ IsCompanion(MadeAt(d, s), c)
        /\ \A k \in 1..Len(MadeAt(d, s)[c].attrs) : MadeAt(d, s)[c].attrs[k][1] \notin UserOnly
    BY <2>1, <1>3 DEF Made
  <2>4. IsCompanion(M, c)
    BY <2>1, <2>2, <2>3, CompanionKept
  <2>5. c \in ((uids + 1)..n2) \X CompanionKinds
    BY <2>3, <1>1
  <2>6. Translated => M[c].parent \in DOMAIN items \cup DOMAIN M \cup {NoItem}
    BY <2>1, <2>2, <1>3 DEF MadeUnder
  <2> QED BY <2>1, <2>3, <2>4, <2>5, <2>6
<1>10. Made((uids + 1)..n2, M)
  BY <1>2, <1>6, <1>9 DEF Made
<1>11. Translated => MadeUnder(items, M)
  BY <1>9 DEF MadeUnder
<1>12. ~ Translated => M = NoItems
  <2> HAVE ~ Translated
  <2>1. DOMAIN M = {}
    BY <1>3, <1>8 DEF NoItems
  <2> QED BY <2>1, <1>2 DEF NoItems
<1> QED BY <1>7, <1>10, <1>11, <1>12 DEF M, D

-----------------------------------------------------------------------------
(* attributes: what it visits *)

\* What an attribute becomes: the payload of a formula, an internal macro, or
\* what it was.
LEMMA VisitedAttrFacts ==
    ASSUME NEW d, AtMacro(d), NEW e \in Within(d), NEW k \in 1..Len(items[e].attrs)
    PROVE  LET a == items[e].attrs[k]
               v == VisitedAttr(d, e, k)
           IN  /\ IsSeq(v) /\ (Translated => Len(v) = 1)
               /\ \/ /\ <<e, k>> \in Drawn(d) /\ a[1] \in Roles
                     /\ items[e].kind \in {"trait_fn", "field"}
                     /\ \A j \in 1..Len(v) : Translated /\ v[j] = <<"AssociatedItem", a[1], UidAt(d, <<e, k>>)>>
                  \/ /\ <<e, k>> \notin Drawn(d) /\ a[1] \in DecorationKinds /\ items[e].kind = "impl_fn"
                     /\ \A j \in 1..Len(v) : v[j] = <<"impl_fn_decoration", a[1], a[2]>>
                  \/ /\ <<e, k>> \notin Drawn(d) /\ Len(v) = 1
                     /\ \A j \in 1..Len(v) : v[j] = a
<1> DEFINE a == items[e].attrs[k]
           v == VisitedAttr(d, e, k)
           s == <<e, k>>
           u == UidAt(d, s)
           w == <<"impl_fn_decoration", a[1], a[2]>>
<1>1. s[1] = e /\ s[2] = k
  OBVIOUS
<1>2. CASE s \in Drawn(d)
  <2>1. /\ a[1] \in Roles /\ items[e].kind \in {"trait_fn", "field"}
        /\ v = AssocAttr(a[1], u)
    <3>1. CASE s \in TraitSpecs(d)
      <4>1. a[1] \in DecorationKinds /\ items[e].kind = "trait_fn"
        BY <3>1, <1>1 DEF TraitSpecs
      <4>2. s \notin Refinements(d)
        BY <4>1, <1>1 DEF Refinements
      <4>3. v = AssocAttr(a[1], u)
        BY <3>1, <4>1, <4>2 DEF VisitedAttr
      <4> QED BY <4>1, <4>3 DEF DecorationKinds, Roles
    <3>2. CASE s \in Refinements(d)
      <4>1. a[1] = "refine" /\ items[e].kind = "field"
        BY <3>2, <1>1 DEF Refinements
      <4>2. s \notin TraitSpecs(d)
        BY <4>1, <1>1 DEF TraitSpecs
      <4>3. v = AssocAttr("refine", u)
        BY <3>2, <4>1, <4>2 DEF VisitedAttr
      <4> QED BY <4>1, <4>3 DEF Roles
    <3> QED BY <1>2, <3>1, <3>2 DEF Drawn
  <2> HIDE DEF a, u, v
  <2>2. /\ IsSeq(AssocAttr(a[1], u))
        /\ Translated => Len(AssocAttr(a[1], u)) = 1
        /\ \A j \in 1..Len(AssocAttr(a[1], u)) : Translated /\ AssocAttr(a[1], u)[j] = <<"AssociatedItem", a[1], u>>
    BY AssocAttrFacts
  <2> QED BY <1>2, <2>1, <2>2 DEF a, u, v
<1>3. CASE s \notin Drawn(d) /\ items[e].kind = "impl_fn" /\ a[1] \in DecorationKinds
  <2>1. s \notin TraitSpecs(d) /\ s \notin Refinements(d)
    BY <1>3 DEF Drawn
  <2>2. v = <<w>>
    BY <1>3, <2>1 DEF VisitedAttr
  <2> HIDE DEF w, v, a
  <2>3. IsSeq(v) /\ Len(v) = 1 /\ v[1] = w
    BY <2>2, OneIsSeq
  <2>4. \A j \in 1..Len(v) : v[j] = w
    BY <2>3
  <2> QED BY <1>3, <2>3, <2>4 DEF w, v, a
<1>4. CASE s \notin Drawn(d) /\ ~ (items[e].kind = "impl_fn" /\ a[1] \in DecorationKinds)
  <2>1. s \notin TraitSpecs(d) /\ s \notin Refinements(d)
    BY <1>4 DEF Drawn
  <2>2. v = <<a>>
    BY <1>4, <2>1 DEF VisitedAttr
  <2> HIDE DEF v, a
  <2>3. IsSeq(v) /\ Len(v) = 1 /\ v[1] = a
    BY <2>2, OneIsSeq
  <2>4. \A j \in 1..Len(v) : v[j] = a
    BY <2>3
  <2> QED BY <1>4, <2>3, <2>4 DEF v, a
<1> QED BY <1>2, <1>3, <1>4

\* The place that goes.
Gone(d, e) == IF e = d THEN NextMacro(d) ELSE Len(items[e].attrs) + 1

LEMMA VisitedAttrsFacts ==
    ASSUME NEW d, AtMacro(d), NEW e \in Within(d)
    PROVE  LET old == items[e].attrs
               new == VisitedAttrs(d, e)
               k0 == Gone(d, e)
           IN  /\ IsSeq(new)
               /\ \A i \in 1..Len(new) : \E k \in 1..Len(old) :
                     \E j \in 1..Len(VisitedAttr(d, e, k)) : new[i] = VisitedAttr(d, e, k)[j]
               /\ Translated =>
                    /\ k0 \in 1..(Len(old) + 1)
                    /\ Len(new) = IF k0 <= Len(old) THEN Len(old) - 1 ELSE Len(old)
                    /\ \A i \in 1..Len(new) : new[i] = VisitedAttr(d, e, Skip(k0, i))[1]
<1> DEFINE old == items[e].attrs
           new == VisitedAttrs(d, e)
           N == Len(old)
           k0 == Gone(d, e)
           ss == [k \in DOMAIN old |-> IF e = d /\ k = NextMacro(d) THEN <<>> ELSE VisitedAttr(d, e, k)]
<1>1. /\ IsSeq(old) /\ DOMAIN old = 1..N /\ N \in Nat
      /\ e = d => NextMacro(d) \in 1..N
  <2>1. d \in DOMAIN items /\ Shape(program, items) /\ NextMacro(d) \in 1..Len(items[d].attrs)
    BY AtMacroFacts DEF Sound
  <2>2. IsSeq(old)
    BY <2>1, SitesFinite DEF Shape
  <2> QED BY <2>1, <2>2, SeqElements
<1>2. new = Flat(ss)
  BY DEF VisitedAttrs
<1>3. \A k \in 1..N : IsSeq(VisitedAttr(d, e, k)) /\ (Translated => Len(VisitedAttr(d, e, k)) = 1)
  BY VisitedAttrFacts
<1>4. IsSeq(ss) /\ Len(ss) = N
  <2>1. ss = [k \in 1..N |-> ss[k]]
    BY <1>1
  <2> HIDE DEF ss
  <2> QED BY <2>1, <1>1, FunctionIsSeq
<1>5. k0 \in 1..(N + 1) /\ (k0 <= N => e = d /\ k0 = NextMacro(d)) /\ (e = d => k0 = NextMacro(d))
  BY <1>1 DEF Gone
<1>6. \A k \in 1..N : ss[k] = IF e = d /\ k = NextMacro(d) THEN <<>> ELSE VisitedAttr(d, e, k)
  BY <1>1
<1> HIDE DEF ss, k0, N, old, new
<1>7. AreSeqs(ss)
  BY <1>3, <1>4, <1>6, EmptyIsSeq DEF AreSeqs
<1>8. IsSeq(new) /\ \A i \in 1..Len(new) : new[i] \in Elements(ss)
  BY <1>2, <1>7, FlatIsSeq
<1>9. ASSUME NEW i \in 1..Len(new)
      PROVE  \E k \in 1..N : \E j \in 1..Len(VisitedAttr(d, e, k)) : new[i] = VisitedAttr(d, e, k)[j]
  <2>1. PICK k \in 1..N : new[i] \in Range(ss[k])
    BY <1>4, <1>8, <1>9 DEF Elements
  <2>2. IsSeq(ss[k])
    BY <1>4, <1>7 DEF AreSeqs
  <2>3. PICK j \in 1..Len(ss[k]) : new[i] = ss[k][j]
    BY <2>1, <2>2, SeqElements
  <2>4. ss[k] # <<>>
    <3>1. Len(<<>>) = 0
      BY EmptyIsSeq
    <3> QED BY <2>3, <3>1
  <2>5. ss[k] = VisitedAttr(d, e, k)
    BY <2>4, <1>6
  <2> QED BY <2>3, <2>5
<1>10. ASSUME Translated
       PROVE  /\ Len(new) = IF k0 <= N THEN N - 1 ELSE N
              /\ \A i \in 1..Len(new) : new[i] = VisitedAttr(d, e, Skip(k0, i))[1]
  <2>1. k0 \in 1..(Len(ss) + 1) /\ (k0 <= Len(ss) => ss[k0] = <<>>)
    BY <1>4, <1>5, <1>6
  <2>2. \A i \in 1..Len(ss) : i # k0 => Len(ss[i]) = 1
    BY <1>3, <1>4, <1>5, <1>6, <1>10
  <2>3. /\ Len(Flat(ss)) = IF k0 <= Len(ss) THEN Len(ss) - 1 ELSE Len(ss)
        /\ \A i \in 1..Len(Flat(ss)) : Flat(ss)[i] = ss[IF i < k0 THEN i ELSE i + 1][1]
    BY <1>7, <2>1, <2>2, FlatSingles
  <2>4. Len(new) = IF k0 <= N THEN N - 1 ELSE N
    BY <2>3, <1>2, <1>4
  <2>5. \A i \in 1..Len(new) : Skip(k0, i) \in 1..N /\ Skip(k0, i) # k0
    <3> DEFINE M == Len(new)
    <3>1. N \in Nat /\ k0 \in 1..(N + 1) /\ M = IF k0 <= N THEN N - 1 ELSE N
      BY <2>4, <1>1, <1>5
    <3> HIDE DEF M
    <3>2. ASSUME NEW i \in 1..M PROVE Skip(k0, i) \in 1..N /\ Skip(k0, i) # k0
      <4>1. CASE i < k0
        BY <3>1, <3>2, <4>1 DEF Skip
      <4>2. CASE ~ i < k0
        BY <3>1, <3>2, <4>2 DEF Skip
      <4> QED BY <4>1, <4>2
    <3> QED BY <3>2 DEF M
  <2>6. \A i \in 1..Len(new) : new[i] = ss[Skip(k0, i)][1]
    BY <2>3, <1>2 DEF Skip
  <2>7. \A k \in 1..N : k # k0 => ss[k] = VisitedAttr(d, e, k)
    BY <1>5, <1>6
  <2> QED BY <2>4, <2>5, <2>6, <2>7
<1> QED BY <1>5, <1>8, <1>9, <1>10 DEF k0, N, old, new

-----------------------------------------------------------------------------
(* attributes: the step *)

VisitStep(d, its2, n2) ==
    /\ AtMacro(d) /\ Macro(d)[1] = "attributes" /\ (Translated => d \in DOMAIN program)
    /\ its2 = Joined(Visited(d), MadeBy(d)) /\ n2 = uids + Cardinality(Drawn(d))

\* The items afterwards.
VisitedItems(d, its2) ==
    /\ DOMAIN its2 = DOMAIN items \cup DOMAIN MadeBy(d) /\ its2 = [c \in DOMAIN its2 |-> its2[c]]
    /\ \A c \in DOMAIN MadeBy(d) \ DOMAIN items : its2[c] = MadeBy(d)[c]
    /\ \A e \in DOMAIN items :
          /\ IsItem(its2[e]) /\ IsSeq(its2[e].attrs)
          /\ its2[e].kind = items[e].kind /\ its2[e].parent = items[e].parent
          /\ its2[e].inputs = items[e].inputs /\ its2[e].output = items[e].output
          /\ its2[e].body = items[e].body
    /\ \A e \in DOMAIN items \ Within(d) : its2[e] = items[e]
    /\ \A e \in Within(d) : its2[e] = WithAttrs(items[e], VisitedAttrs(d, e)) /\ its2[e].attrs = VisitedAttrs(d, e)

LEMMA VisitedItemsFacts ==
    ASSUME NEW d, NEW its2, NEW n2, VisitStep(d, its2, n2)
    PROVE  VisitedItems(d, its2)
<1>1. /\ AtMacro(d) /\ its2 = Joined(Visited(d), MadeBy(d))
  BY DEF VisitStep
<1>2. d \in DOMAIN items /\ Shape(program, items)
  BY <1>1, AtMacroFacts DEF Sound
<1>3. Within(d) \subseteq DOMAIN items
  BY <1>2, SitesFinite
<1> DEFINE V == Visited(d)
           M == MadeBy(d)
<1>4. /\ DOMAIN V = DOMAIN items
      /\ \A e \in DOMAIN items : V[e] = IF e \in Within(d) THEN WithAttrs(items[e], VisitedAttrs(d, e)) ELSE items[e]
  BY DEF Visited
<1> HIDE DEF V, M
<1>5. /\ DOMAIN its2 = DOMAIN V \cup DOMAIN M /\ its2 = [c \in DOMAIN its2 |-> its2[c]]
      /\ \A c \in DOMAIN V : its2[c] = V[c]
      /\ \A c \in DOMAIN M \ DOMAIN V : its2[c] = M[c]
  <2>1. its2 = Joined(V, M)
    BY <1>1 DEF V, M
  <2> QED BY <2>1 DEF Joined
<1>6. ASSUME NEW e \in Within(d)
      PROVE  /\ its2[e] = WithAttrs(items[e], VisitedAttrs(d, e)) /\ its2[e].attrs = VisitedAttrs(d, e)
             /\ IsItem(its2[e]) /\ IsSeq(its2[e].attrs)
             /\ its2[e].kind = items[e].kind /\ its2[e].parent = items[e].parent
             /\ its2[e].inputs = items[e].inputs /\ its2[e].output = items[e].output
             /\ its2[e].body = items[e].body
  <2> DEFINE item == items[e]
             attrs == VisitedAttrs(d, e)
             x == WithAttrs(item, attrs)
  <2>1. its2[e] = x
    BY <1>3, <1>4, <1>5, <1>6
  <2>2. IsItem(item)
    BY <1>2, <1>3, <1>6 DEF Shape
  <2>3. IsSeq(attrs)
    BY <1>1, <1>6, VisitedAttrsFacts
  <2> HIDE DEF item, attrs
  <2>4. /\ IsItem(x) /\ x.attrs = attrs /\ x.kind = item.kind /\ x.parent = item.parent
        /\ x.inputs = item.inputs /\ x.output = item.output /\ x.body = item.body
    BY <2>2, WithAttrsIsItem
  <2> HIDE DEF x
  <2>5. /\ its2[e].attrs = attrs
        /\ IsItem(its2[e]) /\ IsSeq(its2[e].attrs)
        /\ its2[e].kind = item.kind /\ its2[e].parent = item.parent
        /\ its2[e].inputs = item.inputs /\ its2[e].output = item.output
        /\ its2[e].body = item.body
    BY <2>1, <2>3, <2>4
  <2> QED BY <2>1, <2>5 DEF x, item, attrs
<1>7. \A e \in DOMAIN items \ Within(d) : its2[e] = items[e] /\ IsItem(items[e]) /\ IsSeq(items[e].attrs)
  BY <1>2, <1>4, <1>5 DEF Shape
<1>8. \A e \in DOMAIN items :
         /\ IsItem(its2[e]) /\ IsSeq(its2[e].attrs)
         /\ its2[e].kind = items[e].kind /\ its2[e].parent = items[e].parent
         /\ its2[e].inputs = items[e].inputs /\ its2[e].output = items[e].output
         /\ its2[e].body = items[e].body
  BY <1>6, <1>7
<1> QED BY <1>4, <1>5, <1>6, <1>7, <1>8 DEF VisitedItems, V, M

\* Where its attributes come from.
LEMMA VisitedFrom ==
    ASSUME NEW d, NEW its2, NEW n2, VisitStep(d, its2, n2), NEW e \in DOMAIN items,
           NEW i \in 1..Len(its2[e].attrs)
    PROVE  \/ \E k \in 1..Len(items[e].attrs) : its2[e].attrs[i] = items[e].attrs[k]
           \/ its2[e].attrs[i][1] = "impl_fn_decoration"
           \/ Translated /\ its2[e].attrs[i][1] = "AssociatedItem"
<1>1. VisitedItems(d, its2) /\ AtMacro(d)
  BY VisitedItemsFacts DEF VisitStep
<1>2. CASE e \in DOMAIN items \ Within(d)
  BY <1>1, <1>2 DEF VisitedItems
<1>3. CASE e \in Within(d)
  <2>1. its2[e].attrs = VisitedAttrs(d, e)
    BY <1>1, <1>3 DEF VisitedItems
  <2>2. PICK k \in 1..Len(items[e].attrs) :
           \E j \in 1..Len(VisitedAttr(d, e, k)) : its2[e].attrs[i] = VisitedAttr(d, e, k)[j]
    BY <2>1, <1>1, <1>3, VisitedAttrsFacts
  <2>3. PICK j \in 1..Len(VisitedAttr(d, e, k)) : its2[e].attrs[i] = VisitedAttr(d, e, k)[j]
    BY <2>2
  <2> DEFINE a == items[e].attrs[k]
             b == VisitedAttr(d, e, k)[j]
  <2>4. \/ Translated /\ b = <<"AssociatedItem", a[1], UidAt(d, <<e, k>>)>>
        \/ b = <<"impl_fn_decoration", a[1], a[2]>>
        \/ b = a
    BY <2>3, <1>1, <1>3, VisitedAttrFacts
  <2>5. its2[e].attrs[i] = b
    BY <2>3
  <2> HIDE DEF a, b
  <2>6. \/ Translated /\ b[1] = "AssociatedItem"
        \/ b[1] = "impl_fn_decoration"
        \/ b = a
    BY <2>4
  <2> QED BY <2>5, <2>6 DEF a
<1> QED BY <1>2, <1>3

LEMMA VisitShape ==
    ASSUME NEW d, NEW its2, NEW n2, VisitStep(d, its2, n2)
    PROVE  /\ Shape(program, its2) /\ n2 \in Nat /\ uids \in Nat /\ uids <= n2
           /\ DOMAIN MadeBy(d) \cap DOMAIN program = {}
           /\ Made((uids + 1)..n2, MadeBy(d))
<1>1. AtMacro(d) /\ n2 = uids + Cardinality(Drawn(d)) /\ VisitedItems(d, its2)
  BY VisitedItemsFacts DEF VisitStep
<1>2. d \in DOMAIN items /\ Shape(program, items) /\ program \in Programs
  BY <1>1, AtMacroFacts DEF Sound
<1>3. n2 \in Nat /\ uids \in Nat /\ uids <= n2
  BY <1>1, DrawnFacts
<1>4. Made((uids + 1)..n2, MadeBy(d))
  BY <1>1, MadeByFacts
<1>5. DOMAIN MadeBy(d) \cap DOMAIN program = {}
  <2>1. \A e \in DOMAIN program : e \notin Nat \X CompanionKinds
    BY <1>2, ProgramsAssumption
  <2>2. \A i \in (uids + 1)..n2 : i \in Nat
    BY <1>3
  <2>3. \A c \in DOMAIN MadeBy(d) : c \in ((uids + 1)..n2) \X CompanionKinds
    BY <1>4 DEF Made
  <2>4. \A c \in DOMAIN MadeBy(d) : c \in Nat \X CompanionKinds
    BY <2>2, <2>3
  <2> QED BY <2>1, <2>4
<1>6. IsFiniteSet(DOMAIN its2)
  <2>1. IsFiniteSet(DOMAIN items) /\ IsFiniteSet(DOMAIN MadeBy(d))
    BY <1>2, <1>4 DEF Shape, Made
  <2>2. DOMAIN its2 = DOMAIN items \cup DOMAIN MadeBy(d)
    BY <1>1 DEF VisitedItems
  <2> QED BY ONLY <2>1, <2>2, FS_Union
<1>7. ASSUME NEW e \in DOMAIN its2
      PROVE  /\ IsItem(its2[e]) /\ IsSeq(its2[e].attrs)
             /\ \A i \in 1..Len(its2[e].attrs) : its2[e].attrs[i][1] \in UserOnly =>
                   e \in DOMAIN program /\ its2[e].attrs[i] \in Range(program[e].attrs)
  <2>1. CASE e \in DOMAIN items
    <3>1. IsItem(its2[e]) /\ IsSeq(its2[e].attrs)
      BY <2>1, <1>1 DEF VisitedItems
    <3>2. ASSUME NEW i \in 1..Len(its2[e].attrs), its2[e].attrs[i][1] \in UserOnly
          PROVE  e \in DOMAIN program /\ its2[e].attrs[i] \in Range(program[e].attrs)
      <4>1. PICK k \in 1..Len(items[e].attrs) : its2[e].attrs[i] = items[e].attrs[k]
        BY <2>1, <3>2, VisitedFrom DEF UserOnly
      <4> QED BY <2>1, <3>2, <4>1, <1>2 DEF Shape
    <3> QED BY <3>1, <3>2
  <2>2. CASE e \notin DOMAIN items
    <3>1. e \in DOMAIN MadeBy(d) /\ its2[e] = MadeBy(d)[e]
      BY <2>2, <1>1, <1>7 DEF VisitedItems
    <3> QED BY <3>1, <1>4 DEF Made
  <2> QED BY <2>1, <2>2
<1>8. its2 = [c \in DOMAIN its2 |-> its2[c]]
  BY <1>1 DEF VisitedItems
<1>9. Shape(program, its2)
  BY <1>6, <1>7, <1>8 DEF Shape
<1> QED BY <1>3, <1>4, <1>5, <1>9

LEMMA VisitNoTrace ==
    ASSUME NEW d, NEW its2, NEW n2, VisitStep(d, its2, n2), ~ Translated
    PROVE  Sound(build.how, program, its2, n2)
<1>1. AtMacro(d) /\ VisitedItems(d, its2) /\ n2 = uids + Cardinality(Drawn(d))
  BY VisitedItemsFacts DEF VisitStep
<1>2. build.how # "translated" /\ program \in Programs /\ NoTrace(program, items)
  BY <1>1, AtMacroFacts DEF Sound, Translated
<1>3. MadeBy(d) = NoItems
  BY <1>1, MadeByFacts
<1>4. DOMAIN its2 = DOMAIN items
  BY <1>1, <1>3 DEF VisitedItems, NoItems
<1>5. ASSUME NEW e \in DOMAIN its2, NEW i \in 1..Len(its2[e].attrs)
      PROVE  its2[e].attrs[i][1] \in MacroTags \cup Plain
  <2>1. \/ \E k \in 1..Len(items[e].attrs) : its2[e].attrs[i] = items[e].attrs[k]
        \/ its2[e].attrs[i][1] = "impl_fn_decoration"
    BY <1>4, <1>5, VisitedFrom
  <2> QED BY <2>1, <1>2, <1>4 DEF NoTrace, MacroTags
<1>6. NoTrace(program, its2)
  BY <1>1, <1>2, <1>4, <1>5 DEF NoTrace, VisitedItems
<1>7. Shape(program, its2) /\ n2 \in Nat
  BY VisitShape
<1> QED BY <1>2, <1>6, <1>7 DEF Sound

\* Where the package is translated.
Visiting(d, its2, n2) ==
    /\ VisitStep(d, its2, n2) /\ AtMacro(d) /\ build.how = "translated" /\ Translated
    /\ d \in DOMAIN program /\ d \in DOMAIN items /\ VisitedItems(d, its2)
    /\ program \in Programs /\ Shape(program, items) /\ Within(d) \subseteq DOMAIN items
    /\ Companions(program, items, uids) /\ Attached(program, items, uids)
    /\ uids \in Nat /\ n2 \in Nat /\ uids <= n2

LEMMA VisitingFacts ==
    ASSUME NEW d, NEW its2, NEW n2, VisitStep(d, its2, n2), Translated
    PROVE  Visiting(d, its2, n2)
<1>1. /\ AtMacro(d) /\ VisitedItems(d, its2) /\ n2 = uids + Cardinality(Drawn(d)) /\ d \in DOMAIN program
  BY VisitedItemsFacts DEF VisitStep
<1>2. build.how = "translated"
  BY DEF Translated
<1>3. /\ program \in Programs /\ Shape(program, items) /\ d \in DOMAIN items
      /\ Companions(program, items, uids) /\ Attached(program, items, uids)
  BY <1>1, <1>2, AtMacroFacts DEF Sound
<1>4. Within(d) \subseteq DOMAIN items
  BY <1>3, SitesFinite
<1>5. n2 \in Nat /\ uids \in Nat /\ uids <= n2
  BY VisitShape
<1> QED BY <1>1, <1>2, <1>3, <1>4, <1>5 DEF Visiting

\* A companion keeps its attributes.
LEMMA VisitedCompanion ==
    ASSUME NEW d, NEW its2, NEW n2, Visiting(d, its2, n2), NEW c \in DOMAIN items \ DOMAIN program
    PROVE  its2[c] = items[c]
<1>1. CASE c \notin Within(d)
  BY <1>1 DEF Visiting, VisitedItems
<1>2. CASE c \in Within(d)
  <2> DEFINE old == items[c].attrs
             new == VisitedAttrs(d, c)
             N == Len(old)
  <2>1. c # d /\ AtMacro(d) /\ Translated /\ IsItem(items[c]) /\ IsSeq(old)
    BY DEF Visiting, Shape
  <2>2. items[c].kind \notin {"trait_fn", "field", "impl_fn"}
    <3>1. IsCompanion(items, c)
      BY DEF Visiting, Companions
    <3> QED BY <3>1 DEF IsCompanion
  <2>3. N \in Nat
    BY <2>1, SeqElements
  <2>4. \A k \in 1..N : VisitedAttr(d, c, k)[1] = old[k]
    <3> TAKE k \in 1..N
    <3> DEFINE v == VisitedAttr(d, c, k)
    <3>0. Translated => Len(v) = 1
      BY <1>2, <2>1, VisitedAttrFacts
    <3> DEFINE s == <<c, k>>
    <3>1. s[1] = c
      OBVIOUS
    <3>2. s \notin TraitSpecs(d) /\ s \notin Refinements(d)
      BY <2>2, <3>1 DEF TraitSpecs, Refinements
    <3>3. v = <<old[k]>>
      BY ONLY <2>2, <3>2 DEF VisitedAttr
    <3> QED BY <3>3
  <2>5. Gone(d, c) = N + 1
    BY <2>1 DEF Gone
  <2>6. /\ IsSeq(new) /\ Len(new) = IF Gone(d, c) <= N THEN N - 1 ELSE N
        /\ \A i \in 1..Len(new) : new[i] = VisitedAttr(d, c, Skip(Gone(d, c), i))[1]
    <3>1. AtMacro(d) /\ c \in Within(d) /\ Translated
      BY <1>2, <2>1
    <3>2. IsSeq(new)
      BY ONLY <3>1, VisitedAttrsFacts
    <3>3. Len(new) = IF Gone(d, c) <= N THEN N - 1 ELSE N
      BY ONLY <3>1, VisitedAttrsFacts
    <3>4. \A i \in 1..Len(new) : new[i] = VisitedAttr(d, c, Skip(Gone(d, c), i))[1]
      BY ONLY <3>1, VisitedAttrsFacts
    <3> QED BY <3>2, <3>3, <3>4
  <2>7. its2[c] = WithAttrs(items[c], new)
    BY <1>2 DEF Visiting, VisitedItems
  <2> HIDE DEF old, new, N
  <2>8. Len(new) = N /\ \A i \in 1..N : Skip(N + 1, i) = i
    BY <2>3, <2>5, <2>6 DEF Skip
  <2>9. \A i \in 1..Len(new) : new[i] = old[i]
    BY <2>4, <2>5, <2>6, <2>8
  <2>10. new = old
    BY <2>1, <2>6, <2>8, <2>9, SameSeq DEF N
  <2>11. its2[c] = WithAttrs(items[c], items[c].attrs)
    BY <2>7, <2>10 DEF old
  <2> QED BY <2>1, <2>11, SameAttrs
<1> QED BY <1>1, <1>2

LEMMA VisitCompanions ==
    ASSUME NEW d, NEW its2, NEW n2, Visiting(d, its2, n2)
    PROVE  /\ Companions(program, its2, n2) /\ DOMAIN MadeBy(d) \cap DOMAIN items = {}
           /\ \A c \in DOMAIN MadeBy(d) : its2[c] = MadeBy(d)[c]
<1> DEFINE M == MadeBy(d)
           n == uids
<1>1. /\ VisitedItems(d, its2) /\ AtMacro(d) /\ Translated /\ Companions(program, items, n)
      /\ n \in Nat /\ n2 \in Nat /\ n <= n2 /\ VisitStep(d, its2, n2)
      /\ n2 = n + Cardinality(Drawn(d))
  BY DEF Visiting, VisitStep
<1>2. /\ Made((n + 1)..n2, M) /\ DOMAIN M \cap DOMAIN program = {}
  BY <1>1, VisitShape
<1>3. MadeUnder(items, M)
  BY <1>1, MadeByFacts
<1>4. /\ DOMAIN program \subseteq DOMAIN items
      /\ \A e \in DOMAIN items : items[e].parent \in DOMAIN items \cup {NoItem}
      /\ \A c \in DOMAIN items \ DOMAIN program : c \in (1..n) \X CompanionKinds /\ IsCompanion(items, c)
  BY <1>1 DEF Companions
<1>5. \A i \in 1..n : i \in 1..n2 /\ i \notin (n + 1)..n2
  BY <1>1
<1>6. \A i \in (n + 1)..n2 : i \in 1..n2
  BY <1>1
<1>7. /\ DOMAIN its2 = DOMAIN items \cup DOMAIN M
      /\ \A c \in DOMAIN M \ DOMAIN items : its2[c] = M[c]
      /\ \A e \in DOMAIN items : its2[e].parent = items[e].parent
  BY <1>1 DEF VisitedItems
<1> HIDE DEF M, n
<1>8. \A c \in DOMAIN M : c \in ((n + 1)..n2) \X CompanionKinds /\ IsCompanion(M, c)
  BY <1>2 DEF Made
<1>9. DOMAIN M \cap DOMAIN items = {}
  <2> SUFFICES ASSUME NEW c \in DOMAIN M, c \in DOMAIN items PROVE FALSE
    OBVIOUS
  <2>1. c \in (1..n) \X CompanionKinds /\ c \in ((n + 1)..n2) \X CompanionKinds
    BY <1>2, <1>4, <1>8
  <2> QED BY <2>1, <1>5
<1>10. ASSUME NEW c \in DOMAIN items \ DOMAIN program
       PROVE  c \in (1..n2) \X CompanionKinds /\ IsCompanion(its2, c)
  <2>1. its2[c] = items[c] /\ DOMAIN items \subseteq DOMAIN its2 /\ IsCompanion(items, c)
    BY <1>4, <1>7, <1>10, VisitedCompanion
  <2>2. c \in (1..n2) \X CompanionKinds
    BY <1>4, <1>5, <1>10
  <2> QED BY <2>1, <2>2, CompanionKept
<1>11. ASSUME NEW c \in DOMAIN M
       PROVE  c \in (1..n2) \X CompanionKinds /\ IsCompanion(its2, c)
  <2>1. its2[c] = M[c] /\ DOMAIN M \subseteq DOMAIN its2 /\ IsCompanion(M, c)
    BY <1>7, <1>8, <1>9, <1>11
  <2>2. c \in (1..n2) \X CompanionKinds
    BY <1>6, <1>8, <1>11
  <2> QED BY <2>1, <2>2, CompanionKept
<1>12. \A e \in DOMAIN its2 : its2[e].parent \in DOMAIN its2 \cup {NoItem}
  BY <1>3, <1>4, <1>7, <1>9 DEF MadeUnder
<1>13. Companions(program, its2, n2)
  BY <1>4, <1>7, <1>10, <1>11, <1>12 DEF Companions
<1> QED BY <1>7, <1>9, <1>13 DEF M

\* What stands for a formula stands for it afterwards.
LEMMA VisitTurned ==
    ASSUME NEW d, NEW its2, NEW n2, Visiting(d, its2, n2), NEW e \in DOMAIN program \cap Within(d),
           NEW k \in 1..Len(items[e].attrs)
    PROVE  /\ Turned(items, its2, uids, items[e].attrs[k], VisitedAttr(d, e, k)[1])
           /\ VisitedAttr(d, e, k)[1][1] = "AssociatedItem" /\ VisitedAttr(d, e, k)[1][2] \in Roles =>
                \/ VisitedAttr(d, e, k)[1] = items[e].attrs[k]
                \/ /\ <<e, k>> \in Drawn(d) /\ VisitedAttr(d, e, k)[1][3] = UidAt(d, <<e, k>>)
                   /\ <<UidAt(d, <<e, k>>), "fn">> \in DOMAIN its2
<1> DEFINE a == items[e].attrs[k]
           v == VisitedAttr(d, e, k)
           b == v[1]
           s == <<e, k>>
           u == UidAt(d, s)
           n == uids
<1>1. /\ AtMacro(d) /\ Translated /\ n \in Nat /\ Attached(program, items, n)
      /\ e \in Within(d) /\ e \in DOMAIN program /\ VisitedItems(d, its2) /\ Companions(program, items, n)
  BY DEF Visiting
<1>2. Len(v) = 1 /\ 1 \in 1..Len(v)
  <2>1. Len(v) = 1
    BY <1>1, VisitedAttrFacts
  <2> QED BY <2>1
<1>3. \/ /\ s \in Drawn(d) /\ a[1] \in Roles
         /\ b = <<"AssociatedItem", a[1], u>>
      \/ /\ s \notin Drawn(d) /\ a[1] \in DecorationKinds
         /\ b = <<"impl_fn_decoration", a[1], a[2]>>
      \/ s \notin Drawn(d) /\ b = a
  BY <1>1, <1>2, VisitedAttrFacts
<1>4. CASE s \in Drawn(d)
  <2>1. a[1] \in Roles /\ b = <<"AssociatedItem", a[1], u>>
    BY <1>3, <1>4
  <2>2. u > n /\ DOMAIN MadeBy(d) \subseteq DOMAIN its2
    <3>1. \A r \in Drawn(d) : UidAt(d, r) > uids
      BY <1>1, DrawnFacts
    <3> QED BY <3>1, <1>1, <1>4 DEF VisitedItems
  <2>3. /\ <<u, "fn">> \in DOMAIN MadeAt(d, s)
        /\ MadeAt(d, s)[<<u, "fn">>].body.says = a[2].says
    <3>1. /\ <<UidAt(d, s), "fn">> \in DOMAIN MadeAt(d, s)
          /\ MadeAt(d, s)[<<UidAt(d, s), "fn">>].body.says = items[s[1]].attrs[s[2]][2].says
      BY <1>1, <1>4, MadeAtFacts
    <3> QED BY <3>1
  <2>4. <<u, "fn">> \in DOMAIN MadeBy(d) /\ MadeBy(d)[<<u, "fn">>] = MadeAt(d, s)[<<u, "fn">>]
    <3>1. \A c \in DOMAIN MadeAt(d, s) : c \in DOMAIN MadeBy(d) /\ MadeBy(d)[c] = MadeAt(d, s)[c]
      BY <1>1, <1>4, MadeByFacts
    <3> QED BY <2>3, <3>1
  <2>5. its2[<<u, "fn">>].body.says = a[2].says /\ <<u, "fn">> \in DOMAIN its2
    <3>1. \A c \in DOMAIN MadeBy(d) : its2[c] = MadeBy(d)[c]
      BY VisitCompanions
    <3> QED BY <2>2, <2>3, <2>4, <3>1
  <2> HIDE DEF a, b, u, n, s, v
  <2>6. b[1] = "AssociatedItem" /\ b[2] = a[1] /\ b[3] = u
    BY <2>1
  <2>7. Said(its2, b) = its2[<<u, "fn">>].body.says
    BY <2>6 DEF Said
  <2>8. Said(items, a) = a[2].says /\ a[1] # "lemma"
    BY <2>1 DEF Said, Roles
  <2>9. \A role \in Roles : Carries(b, role) <=> Carries(a, role)
    BY <2>1, <2>6 DEF Carries, WrittenAs, Roles
  <2>10. Turned(items, its2, n, a, b)
    BY <2>2, <2>5, <2>6, <2>7, <2>8, <2>9 DEF Turned
  <2> QED BY <1>4, <2>5, <2>6, <2>10 DEF a, b, u, n, s, v
<1>5. CASE s \notin Drawn(d) /\ a[1] \in DecorationKinds /\ b = <<"impl_fn_decoration", a[1], a[2]>>
  <2> HIDE DEF a, b, u, n, s, v
  <2>1. b[1] = "impl_fn_decoration" /\ b[2] = a[1] /\ b[3] = a[2]
    BY <1>5
  <2>2. Said(its2, b) = a[2].says
    BY <2>1 DEF Said
  <2>3. Said(items, a) = a[2].says /\ a[1] # "lemma" /\ a[1] \in Roles
    BY <1>5 DEF Said, DecorationKinds, Roles
  <2>4. \A role \in Roles : Carries(b, role) <=> Carries(a, role)
    BY <1>5, <2>1 DEF Carries, WrittenAs, Roles, DecorationKinds
  <2>5. Turned(items, its2, n, a, b)
    BY <2>1, <2>2, <2>3, <2>4 DEF Turned
  <2> QED BY <2>1, <2>5 DEF a, b, u, n, s, v
<1>6. CASE b = a
  <2>1. BodiesKept(items, its2, n)
    <3>1. \A c \in DOMAIN items : its2[c].body = items[c].body
      BY <1>1 DEF VisitedItems
    <3> QED BY <3>1 DEF BodiesKept
  <2>2. \A role \in Roles : Carries(a, role) => Said(its2, a) = Said(items, a)
    BY <1>1, <2>1, SaidKept
  <2> HIDE DEF a, b, u, n, s, v
  <2>3. Turned(items, its2, n, a, b)
    BY <1>6, <2>2 DEF Turned
  <2> QED BY <1>6, <2>3 DEF a, b, u, n, s, v
<1> QED BY <1>3, <1>4, <1>5, <1>6

\* An item of the source keeps its formulas.
LEMMA VisitCarried ==
    ASSUME NEW d, NEW its2, NEW n2, Visiting(d, its2, n2), NEW e \in DOMAIN program
    PROVE  /\ \E g : Carried(program, items, its2, uids, e, g)
           /\ Has(items[e].attrs, "lemma") => Has(its2[e].attrs, "lemma")
<1> DEFINE old == items[e].attrs
           new == its2[e].attrs
           n == uids
           k0 == Gone(d, e)
<1>1. /\ AtMacro(d) /\ Translated /\ n \in Nat /\ Attached(program, items, n)
      /\ VisitedItems(d, its2) /\ e \in DOMAIN items /\ IsSeq(old) /\ VisitStep(d, its2, n2)
      /\ its2[e].output = items[e].output
  BY DEF Visiting, Companions, Shape, VisitedItems
<1>2. CASE e \notin Within(d)
  <2>1. its2[e] = items[e]
    BY <1>1, <1>2 DEF VisitedItems
  <2>2. BodiesKept(items, its2, n)
    <3>1. \A c \in DOMAIN items : its2[c].body = items[c].body
      BY <1>1 DEF VisitedItems
    <3> QED BY <3>1 DEF BodiesKept
  <2>3. \E g : Carried(program, items, its2, n, e, g)
    BY <1>1, <2>1, <2>2, SameCarried
  <2> QED BY <2>1, <2>3
<1>3. CASE e \in Within(d)
  <2>1. new = VisitedAttrs(d, e)
    BY <1>1, <1>3 DEF VisitedItems
  <2>2. /\ IsSeq(new) /\ k0 \in 1..(Len(old) + 1)
        /\ Len(new) = IF k0 <= Len(old) THEN Len(old) - 1 ELSE Len(old)
        /\ \A i \in 1..Len(new) : new[i] = VisitedAttr(d, e, Skip(k0, i))[1]
    BY <1>1, <1>3, <2>1, VisitedAttrsFacts
  <2>3. k0 <= Len(old) => old[k0][1] = "attributes"
    <3>1. Len(old) \in Nat
      BY <1>1, SeqElements
    <3>2. k0 <= Len(old) => e = d /\ k0 = NextMacro(d)
      BY <3>1 DEF Gone
    <3>3. Macro(d) = items[d].attrs[NextMacro(d)] /\ Macro(d)[1] = "attributes"
      BY <1>1, AtMacroFacts DEF VisitStep
    <3> QED BY <3>2, <3>3
  <2>4. k0 <= Len(old) => old[k0][1] # "lemma" /\ \A role \in Roles : ~ Carries(old[k0], role)
    BY <2>3, CarriesTags
  <2>5. \A k \in 1..Len(old) : Turned(items, its2, n, old[k], VisitedAttr(d, e, k)[1])
    BY <1>3, VisitTurned
  <2> HIDE DEF k0, n
  <2>6. \A i \in 1..Len(new) : Skip(k0, i) \in 1..Len(old)
    <3> DEFINE M == Len(new)
               N == Len(old)
    <3>1. N \in Nat
      BY <1>1, SeqElements
    <3> HIDE DEF M, N
    <3>2. k0 \in 1..(N + 1) /\ M = IF k0 <= N THEN N - 1 ELSE N
      BY <2>2 DEF M, N
    <3>3. ASSUME NEW i \in 1..M PROVE Skip(k0, i) \in 1..N
      <4>1. CASE i < k0
        BY <3>1, <3>2, <3>3, <4>1 DEF Skip
      <4>2. CASE ~ i < k0
        BY <3>1, <3>2, <3>3, <4>2 DEF Skip
      <4> QED BY <4>1, <4>2
    <3> QED BY <3>3 DEF M, N
  <2>7. \A i \in 1..Len(new) : Turned(items, its2, n, old[Skip(k0, i)], new[i])
    BY <2>2, <2>5, <2>6
  <2>8. Mapped(program, items, its2, n, e, k0)
    BY <1>1, <2>2, <2>4, <2>7 DEF Mapped
  <2> QED BY <2>8, MappedCarried DEF n
<1> QED BY <1>2, <1>3

\* The attachments that are new are those of the places that draw a uid.
LEMMA VisitFresh ==
    ASSUME NEW d, NEW its2, NEW n2, Visiting(d, its2, n2), NEW e \in DOMAIN program,
           NEW k \in Attachments(its2, e), UidOf(its2, e, k) > uids
    PROVE  /\ <<e, Skip(Gone(d, e), k)>> \in Drawn(d)
           /\ UidOf(its2, e, k) = UidAt(d, <<e, Skip(Gone(d, e), k)>>)
           /\ UidOf(its2, e, k) \in 1..n2 /\ <<UidOf(its2, e, k), "fn">> \in DOMAIN its2
           /\ k \in Nat
<1> DEFINE old == items[e].attrs
           new == its2[e].attrs
           n == uids
           k0 == Gone(d, e)
           l == Skip(k0, k)
           b == new[k]
           s == <<e, l>>
<1>1. /\ AtMacro(d) /\ Translated /\ n \in Nat /\ Attached(program, items, n)
      /\ VisitedItems(d, its2) /\ e \in DOMAIN items /\ IsSeq(old) /\ IsSeq(new)
      /\ n2 = n + Cardinality(Drawn(d))
  BY DEF Visiting, Companions, Shape, VisitedItems, VisitStep
<1>2. k \in 1..Len(new) /\ b[1] = "AssociatedItem" /\ b[2] \in Roles /\ UidOf(its2, e, k) = b[3] /\ b[3] > n
  BY DEF Attachments, UidOf
<1>3. ASSUME NEW m \in 1..Len(old), b = old[m] PROVE FALSE
  <2>1. m \in Attachments(items, e) /\ UidOf(items, e, m) = b[3]
    BY <1>2, <1>3 DEF Attachments, UidOf
  <2>2. \A i \in Attachments(items, e) : UidOf(items, e, i) \in 1..n
    BY <1>1 DEF Attached
  <2>3. b[3] \in 1..n
    BY <2>1, <2>2
  <2> QED BY <2>3, <1>1, <1>2
<1>4. e \in Within(d)
  <2> SUFFICES ASSUME e \notin Within(d) PROVE FALSE
    OBVIOUS
  <2>1. its2[e] = items[e]
    BY <1>1 DEF VisitedItems
  <2> QED BY <2>1, <1>2, <1>3
<1>5. new = VisitedAttrs(d, e)
  BY <1>1, <1>4 DEF VisitedItems
<1>6. /\ k0 \in 1..(Len(old) + 1)
      /\ Len(new) = IF k0 <= Len(old) THEN Len(old) - 1 ELSE Len(old)
      /\ \A i \in 1..Len(new) : new[i] = VisitedAttr(d, e, Skip(k0, i))[1]
  BY <1>1, <1>4, <1>5, VisitedAttrsFacts
<1>7. l \in 1..Len(old)
  <2> DEFINE M == Len(new)
             N == Len(old)
  <2>1. N \in Nat /\ k \in 1..M
    BY <1>1, <1>2, SeqElements
  <2> HIDE DEF M, N, k0
  <2>2. k0 \in 1..(N + 1) /\ M = IF k0 <= N THEN N - 1 ELSE N
    BY <1>6 DEF M, N
  <2>3. l \in 1..N
    <3>1. CASE k < k0
      BY <2>1, <2>2, <3>1 DEF Skip
    <3>2. CASE ~ k < k0
      BY <2>1, <2>2, <3>2 DEF Skip
    <3> QED BY <3>1, <3>2
  <2> QED BY <2>3 DEF N
<1>8. b = VisitedAttr(d, e, l)[1]
  BY <1>2, <1>6
<1> HIDE DEF l
<1>9. b = old[l] \/ (s \in Drawn(d) /\ b[3] = UidAt(d, s) /\ <<UidAt(d, s), "fn">> \in DOMAIN its2)
  <2>1. VisitedAttr(d, e, l)[1][1] = "AssociatedItem" /\ VisitedAttr(d, e, l)[1][2] \in Roles
    BY <1>2, <1>8
  <2>2. \/ VisitedAttr(d, e, l)[1] = items[e].attrs[l]
        \/ /\ <<e, l>> \in Drawn(d) /\ VisitedAttr(d, e, l)[1][3] = UidAt(d, <<e, l>>)
           /\ <<UidAt(d, <<e, l>>), "fn">> \in DOMAIN its2
    BY <1>4, <1>7, <2>1, VisitTurned
  <2> QED BY <1>8, <2>2
<1>10. s \in Drawn(d) /\ b[3] = UidAt(d, s) /\ <<UidAt(d, s), "fn">> \in DOMAIN its2
  BY <1>3, <1>7, <1>9
<1>11. UidAt(d, s) \in 1..n2
  <2>1. \A r \in Drawn(d) : UidAt(d, r) \in 1..n2
    BY <1>1, DrawnFacts
  <2> QED BY <2>1, <1>10
<1>12. k \in Nat
  <2>1. Len(new) \in Nat
    BY <1>1, SeqElements
  <2> QED BY <2>1, <1>2
<1> QED BY <1>2, <1>10, <1>11, <1>12 DEF l

\* A visit leaves the marks of refinement types.
LEMMA VisitNewtyped ==
    ASSUME NEW d, NEW its2, NEW n2, Visiting(d, its2, n2), NEW e \in DOMAIN items, Newtyped(items[e].attrs)
    PROVE  Newtyped(its2[e].attrs)
<1> DEFINE old == items[e].attrs
           new == VisitedAttrs(d, e)
           N == Len(old)
           k0 == Gone(d, e)
<1>1. AtMacro(d) /\ VisitedItems(d, its2) /\ IsSeq(old) /\ Translated /\ Macro(d)[1] = "attributes"
  BY DEF Visiting, Shape, VisitStep
<1>2. CASE e \notin Within(d)
  BY <1>1, <1>2 DEF VisitedItems
<1>3. CASE e \in Within(d)
  <2>1. its2[e].attrs = new
    BY <1>1, <1>3 DEF VisitedItems
  <2>2. /\ IsSeq(new) /\ k0 \in 1..(N + 1) /\ Len(new) = IF k0 <= N THEN N - 1 ELSE N
        /\ \A i \in 1..Len(new) : new[i] = VisitedAttr(d, e, Skip(k0, i))[1]
    BY <1>1, <1>3, VisitedAttrsFacts
  <2>3. N \in Nat /\ DOMAIN old = 1..N /\ DOMAIN new = 1..Len(new)
    BY <1>1, <2>2, SeqElements
  <2>4. PICK k \in 1..N : old[k][1] \in {"refinement_type", "NewtypeAsRefinement"}
    BY <2>3 DEF Newtyped, Has
  <2>5. k # k0
    <3>1. Macro(d) = items[d].attrs[NextMacro(d)]
      BY <1>1, AtMacroFacts
    <3> QED BY <1>1, <2>3, <2>4, <3>1 DEF Gone
  <2>6. VisitedAttr(d, e, k)[1] = old[k]
    <3>1. old[k][1] \notin Roles /\ old[k][1] \notin DecorationKinds
      BY <2>4 DEF Roles, DecorationKinds
    <3> DEFINE v == VisitedAttr(d, e, k)
    <3>2. \/ <<e, k>> \in Drawn(d) /\ old[k][1] \in Roles
          \/ <<e, k>> \notin Drawn(d) /\ old[k][1] \in DecorationKinds
          \/ Len(v) = 1 /\ \A j \in 1..Len(v) : v[j] = old[k]
      BY <1>1, <1>3, VisitedAttrFacts
    <3> HIDE DEF v
    <3> QED BY <3>1, <3>2 DEF v
  <2> HIDE DEF k0, N, new, old
  <2>7. \E i \in 1..Len(new) : Skip(k0, i) = k
    <3>1. CASE k0 <= N
      BY <2>2, <2>3, <2>5, <3>1, SkipFacts
    <3>2. CASE ~ k0 <= N
      <4>1. Skip(k0, k) = k /\ k \in 1..Len(new)
        BY <2>2, <2>3, <3>2 DEF Skip
      <4> QED BY <4>1
    <3> QED BY <3>1, <3>2
  <2> QED BY <2>1, <2>2, <2>3, <2>4, <2>6, <2>7 DEF Newtyped, Has
<1> QED BY <1>2, <1>3

LEMMA VisitTranslated ==
    ASSUME NEW d, NEW its2, NEW n2, Visiting(d, its2, n2)
    PROVE  Sound(build.how, program, its2, n2)
<1> DEFINE n == uids
           p == program
<1>1. /\ AtMacro(d) /\ n \in Nat /\ n2 \in Nat /\ n <= n2 /\ Attached(p, items, n)
      /\ VisitedItems(d, its2) /\ VisitStep(d, its2, n2) /\ build.how = "translated"
      /\ p \in Programs /\ n2 = n + Cardinality(Drawn(d)) /\ DOMAIN p \subseteq DOMAIN items
  BY DEF Visiting, VisitStep, Companions
<1>2. Companions(p, its2, n2)
  BY VisitCompanions
<1>3. Shape(p, its2)
  BY <1>1, VisitShape
<1>4. \A e \in DOMAIN p : \E g : Carried(p, items, its2, n, e, g)
  BY VisitCarried
<1>5. \A e \in DOMAIN p : \A k \in Attachments(its2, e) :
         UidOf(its2, e, k) > n => UidOf(its2, e, k) \in 1..n2 /\ <<UidOf(its2, e, k), "fn">> \in DOMAIN its2
  BY VisitFresh
<1>6. ASSUME NEW e \in DOMAIN p, NEW f \in DOMAIN p,
             NEW k \in Attachments(its2, e), NEW l \in Attachments(its2, f),
             UidOf(its2, e, k) > n, UidOf(its2, e, k) = UidOf(its2, f, l)
      PROVE  e = f /\ k = l
  <2> DEFINE s == <<e, Skip(Gone(d, e), k)>>
             r == <<f, Skip(Gone(d, f), l)>>
  <2>1. s \in Drawn(d) /\ UidOf(its2, e, k) = UidAt(d, s) /\ k \in Nat
    BY <1>6, VisitFresh
  <2>2. r \in Drawn(d) /\ UidOf(its2, f, l) = UidAt(d, r) /\ l \in Nat
    BY <1>6, VisitFresh
  <2>3. s = r
    <3>1. \A x, y \in Drawn(d) : UidAt(d, x) = UidAt(d, y) => x = y
      BY <1>1, DrawnFacts
    <3> HIDE DEF s, r
    <3> QED BY <2>1, <2>2, <3>1, <1>6
  <2>4. e = f /\ Skip(Gone(d, e), k) = Skip(Gone(d, e), l)
    BY <2>3
  <2>5. Gone(d, e) \in Nat
    <3>1. IsSeq(items[e].attrs) /\ Gone(d, e) \in {NextMacro(d), Len(items[e].attrs) + 1}
      BY <1>1 DEF Gone, Visiting, Shape
    <3>2. NextMacro(d) \in 1..Len(items[d].attrs) /\ IsSeq(items[d].attrs)
      BY <1>1, AtMacroFacts
    <3>3. Len(items[d].attrs) \in Nat /\ Len(items[e].attrs) \in Nat
      BY <3>1, <3>2, SeqElements
    <3> QED BY <3>1, <3>2, <3>3
  <2>6. k = l
    <3> DEFINE k0 == Gone(d, e)
    <3>1. k0 \in Nat /\ k \in Nat /\ l \in Nat /\ Skip(k0, k) = Skip(k0, l)
      BY <2>1, <2>2, <2>4, <2>5
    <3> HIDE DEF k0
    <3>2. CASE k < k0 /\ l < k0
      BY <3>1, <3>2 DEF Skip
    <3>3. CASE k < k0 /\ ~ l < k0
      BY <3>1, <3>3 DEF Skip
    <3>4. CASE ~ k < k0 /\ l < k0
      BY <3>1, <3>4 DEF Skip
    <3>5. CASE ~ k < k0 /\ ~ l < k0
      BY <3>1, <3>5 DEF Skip
    <3> QED BY <3>2, <3>3, <3>4, <3>5
  <2> QED BY <2>4, <2>6
<1>7. \A c \in DOMAIN items : c \in DOMAIN its2
  BY <1>1 DEF VisitedItems
<1>8. \A e \in DOMAIN p : its2[e].output[1] = "proof" /\ Has(p[e].attrs, "lemma") => Has(its2[e].attrs, "lemma")
  <2> TAKE e \in DOMAIN p
  <2>1. its2[e].output = items[e].output
    BY <1>1 DEF VisitedItems
  <2>2. items[e].output[1] = "proof" /\ Has(p[e].attrs, "lemma") => Has(items[e].attrs, "lemma")
    BY <1>1 DEF Attached
  <2> QED BY <2>1, <2>2, VisitCarried
<1> HIDE DEF n, p
<1>9. Attached(p, its2, n2)
  <2>1. n \in Nat /\ n2 \in Nat /\ n <= n2 /\ Attached(p, items, n)
    BY <1>1
  <2> QED BY ONLY <2>1, <1>4, <1>5, <1>6, <1>7, <1>8, AttachedCarried
<1>10. Sound(build.how, p, its2, n2)
  BY <1>1, <1>2, <1>3, <1>9 DEF Sound
<1> QED BY <1>10 DEF p

LEMMA AttributesStep == ASSUME NEW d \in DOMAIN items, IInv, Attributes(d) PROVE IInv'
<1>1. AtMacro(d) /\ Macro(d)[1] \in {"attributes"} /\ stage = "expand"
  BY ExpandingFacts DEF Attributes
<1>2. CASE \E s \in TraitSpecs(d) : WhyNotAt(d, s) # ""
  <2>1. Fails("no such future")
    BY <1>2 DEF Attributes
  <2> QED BY <2>1, <1>1, FailsStep
<1>3. CASE ~ \E s \in TraitSpecs(d) : WhyNotAt(d, s) # ""
  <2>1. /\ items' = Joined(Visited(d), MadeBy(d)) /\ uids' = uids + Cardinality(Drawn(d))
        /\ build' = build /\ program' = program /\ stage' = "expand"
    BY <1>1, <1>3 DEF Attributes
  <2>2. Translated => d \in DOMAIN program
    BY <1>1, CompanionMacro
  <2>3. VisitStep(d, items', uids')
    BY <1>1, <2>1, <2>2 DEF VisitStep
  <2>4. Sound(build.how, program, items', uids')
    <3>1. CASE ~ Translated
      BY <2>3, <3>1, VisitNoTrace
    <3>2. CASE Translated
      <4>1. Visiting(d, items', uids')
        BY <2>3, <3>2, VisitingFacts
      <4> QED BY <4>1, VisitTranslated
    <3> QED BY <3>1, <3>2
  <2> QED BY <2>1, <2>4, SoundStep
<1> QED BY <1>2, <1>3

-----------------------------------------------------------------------------
(* The expansion *)

LEMMA ExpandStep == ASSUME NEW d \in DOMAIN items, IInv, Expand(d) PROVE IInv'
<1>1. CASE Mark(d)
  <2>1. CASE d \in DOMAIN program \/ ~ Translated
    BY <1>1, <2>1, MarkStep
  <2>2. CASE Translated /\ d \notin DOMAIN program
    BY <1>1, <2>2, MarkOnCompanionStep
  <2> QED BY <2>1, <2>2
<1>2. CASE Decorate(d)
  BY <1>2, DecorateStep
<1>3. CASE ImplFnDecoration(d)
  BY <1>3, ImplFnDecorationStep
<1>4. CASE Lemma(d)
  BY <1>4, LemmaStep
<1>5. CASE Quote(d)
  BY <1>5, QuoteStep
<1>6. CASE Replace(d)
  BY <1>6, ReplaceStep
<1>7. CASE Options(d)
  BY <1>7, OptionsStep
<1>8. CASE VerificationStatus(d)
  BY <1>8, VerificationStatusStep
<1>9. CASE Attributes(d)
  BY <1>9, AttributesStep
<1>10. CASE RefinementType(d)
  BY <1>10, RefinementTypeStep
<1>11. CASE Dummy(d)
  BY <1>11, DummyStep
<1> QED BY <1>1, <1>2, <1>3, <1>4, <1>5, <1>6, <1>7, <1>8, <1>9, <1>10, <1>11 DEF Expand

\* The attributes of the source: a formula is carried by the attribute it is
\* written in.
LEMMA SourceAttrs ==
    ASSUME NEW p \in Programs, NEW d \in DOMAIN p
    PROVE  /\ IsSeq(p[d].attrs) /\ DOMAIN p[d].attrs = 1..Len(p[d].attrs)
           /\ \A k \in 1..Len(p[d].attrs) :
                LET a == p[d].attrs[k]
                IN  /\ a[1] \in MacroTags \cup Plain /\ a[1] # "AssociatedItem"
                    /\ \A role \in Roles : Carries(a, role) <=> WrittenAs(a, role)
                    /\ Said(p, a) = a[2].says
<1>1. /\ p[d].attrs \in Seq(ToSet(p[d].attrs))
      /\ \A a \in ToSet(p[d].attrs) : a[1] \in (MacroTags \ {"impl_fn_decoration"}) \cup {"refine", "doc"}
  BY ProgramsAssumption
<1>2. IsSeq(p[d].attrs)
  BY <1>1, SeqIsSeq
<1>3. /\ DOMAIN p[d].attrs = 1..Len(p[d].attrs)
      /\ \A k \in 1..Len(p[d].attrs) : p[d].attrs[k] \in Range(p[d].attrs)
  BY <1>2, SeqElements
<1>4. ASSUME NEW k \in 1..Len(p[d].attrs)
      PROVE  LET a == p[d].attrs[k]
             IN  /\ a[1] \in MacroTags \cup Plain /\ a[1] # "AssociatedItem"
                 /\ \A role \in Roles : Carries(a, role) <=> WrittenAs(a, role)
                 /\ Said(p, a) = a[2].says
  <2> DEFINE a == p[d].attrs[k]
  <2>1. a \in ToSet(p[d].attrs)
    BY <1>3, <1>4, RangeIsToSet
  <2>2. a[1] \in (MacroTags \ {"impl_fn_decoration"}) \cup Plain
    BY <1>1, <2>1 DEF Plain
  <2>3. "AssociatedItem" \notin MacroTags \cup Plain
    BY DEF MacroTags, Markers, DecorationKinds, Plain
  <2> HIDE DEF a
  <2>4. a[1] \notin {"impl_fn_decoration", "AssociatedItem"}
    BY <2>2, <2>3 DEF Plain
  <2>5. Said(p, a) = a[2].says
    BY <2>4 DEF Said
  <2>6. \A role \in Roles : Carries(a, role) <=> WrittenAs(a, role)
    BY <2>4 DEF Carries
  <2> QED BY <2>2, <2>4, <2>5, <2>6 DEF a
<1> QED BY <1>2, <1>3, <1>4

LEMMA SourceSaid ==
    ASSUME NEW p \in Programs, NEW d \in DOMAIN p, NEW role \in Roles
    PROVE  AllSaid(p, p, d, role)
<1> DEFINE attrs == p[d].attrs
           item == p[d]
           formulas == {k \in 1..Len(attrs) : WrittenAs(attrs[k], role)}
           proof == role = "ensures" /\ IsProof(item)
           P == Places(p, p, d, role)
<1>1. /\ DOMAIN attrs = 1..Len(attrs) /\ Len(attrs) \in Nat /\ 0 \notin 1..Len(attrs)
      /\ \A k \in 1..Len(attrs) : /\ Carries(attrs[k], role) <=> WrittenAs(attrs[k], role)
                                  /\ Said(p, attrs[k]) = attrs[k][2].says
  <2>1. IsSeq(attrs)
    BY SourceAttrs
  <2>2. Len(attrs) \in Nat
    BY <2>1, SeqElements
  <2> QED BY <2>2, SourceAttrs
<1>2. SaysApart(item)
  BY ProgramsAssumption
<1>3. \A k : k \in P <=> k \in formulas \/ (k = 0 /\ proof)
  BY <1>1 DEF Places, IsProof
<1>4. /\ \A k \in formulas : SaidAt(p, d, k) = attrs[k][2].says
      /\ SaidAt(p, d, 0) = item.output[2].says
  BY <1>1 DEF SaidAt
<1>5. /\ \A k \in formulas, l \in formulas : attrs[k][2].says = attrs[l][2].says => k = l
      /\ proof => \A k \in formulas : attrs[k][2].says # item.output[2].says
  BY <1>1, <1>2 DEF SaysApart
<1>6. WrittenOn(item, role) = {attrs[k][2].says : k \in formulas} \cup IF proof THEN {item.output[2].says} ELSE {}
  BY <1>1 DEF WrittenOn
<1> HIDE DEF P, formulas, proof
<1>7. \A k \in P : SaidAt(p, d, k) \in WrittenOn(item, role)
  BY <1>3, <1>4, <1>6
<1>8. \A says \in WrittenOn(item, role) : \E k \in P : SaidAt(p, d, k) = says
  BY <1>3, <1>4, <1>6
<1>9. \A k, l \in P : SaidAt(p, d, k) = SaidAt(p, d, l) => k = l
  BY <1>3, <1>4, <1>5
<1> QED BY <1>7, <1>8, <1>9 DEF AllSaid, P

\* What is written is sound as it stands.
LEMMA InitSound == ASSUME Init PROVE IInv
<1> DEFINE p == program
<1>1. p \in Programs /\ items = p /\ uids = 0 /\ stage = "expand"
  BY DEF Init
<1>2. Shape(p, p)
  <2>1. p = [d \in DOMAIN p |-> p[d]] /\ IsFiniteSet(DOMAIN p) /\ \A d \in DOMAIN p : IsItem(p[d])
    BY <1>1, ProgramsAssumption
  <2>2. \A d \in DOMAIN p : IsSeq(p[d].attrs)
    BY <1>1, SourceAttrs
  <2>3. \A d \in DOMAIN p : \A k \in 1..Len(p[d].attrs) : p[d].attrs[k] \in Range(p[d].attrs)
    BY <2>2, SeqElements
  <2> QED BY <2>1, <2>2, <2>3 DEF Shape
<1>3. NoTrace(p, p)
  <2>1. \A d \in DOMAIN p : \A k \in 1..Len(p[d].attrs) : p[d].attrs[k][1] \in MacroTags \cup Plain
    BY <1>1, SourceAttrs
  <2> QED BY <2>1 DEF NoTrace
<1>4. Companions(p, p, 0)
  BY <1>1, ProgramsAssumption DEF Companions
<1>5. \A d \in DOMAIN p : Attachments(p, d) = {}
  BY <1>1, SourceAttrs DEF Attachments
<1>6. Attached(p, p, 0)
  <2>1. \A d \in DOMAIN p, role \in Roles : AllSaid(p, p, d, role)
    BY <1>1, SourceSaid
  <2>2. \A d \in DOMAIN p : p[d].output[1] = "proof" /\ Has(p[d].attrs, "lemma") => Has(p[d].attrs, "lemma")
    OBVIOUS
  <2> QED BY <1>5, <2>1, <2>2 DEF Attached
<1>7. Sound(build.how, program, items, uids)
  BY <1>1, <1>2, <1>3, <1>4, <1>6 DEF Sound
<1> QED BY <1>1, <1>7 DEF IInv

-----------------------------------------------------------------------------
(* What encloses an item *)

\* The steps of Enclosing, and what encloses each item.
Climbs(up) ==
    /\ \A n \in 0..Cardinality(DOMAIN items) : \A e \in DOMAIN items :
          /\ up[n][e] \in Seq({i \in DOMAIN items : i # NoItem})
          /\ up[n][e] = IF n = 0 \/ items[e].parent = NoItem THEN <<>>
                       ELSE <<items[e].parent>> \o up[n - 1][items[e].parent]
    /\ \A d \in DOMAIN items : Enclosing(d) = up[Cardinality(DOMAIN items)][d]

LEMMA EnclosingClimbs ==
    ASSUME IsFiniteSet(DOMAIN items), \A e \in DOMAIN items : items[e].parent \in DOMAIN items \cup {NoItem}
    PROVE  \E up : Climbs(up)
<1> DEFINE I == DOMAIN items
           J == {e \in I : e # NoItem}
           C == Cardinality(I)
           S == [I -> Seq(J)]
           base == [e \in I |-> <<>>]
           Up(g, e) == IF items[e].parent = NoItem THEN <<>> ELSE <<items[e].parent>> \o g[items[e].parent]
           step == [q \in S \X (1..C) |-> [e \in I |-> Up(q[1], e)]]
<1>1. C \in Nat
  BY FS_CardinalityType
<1>2. base \in S
  <2>1. <<>> \in Seq(J)
    BY EmptySeq
  <2> QED BY <2>1
<1>3. ASSUME NEW g \in S, NEW e \in I PROVE Up(g, e) \in Seq(J)
  <2>1. CASE items[e].parent = NoItem
    BY <2>1, EmptySeq
  <2>2. CASE items[e].parent # NoItem
    <3>1. items[e].parent \in J
      BY <2>2, <1>3
    <3>2. g[items[e].parent] \in Seq(J) /\ <<items[e].parent>> \in Seq(J)
      BY <1>3, <3>1
    <3> QED BY <2>2, <3>2, ConcatProperties
  <2> QED BY <2>1, <2>2
<1>4. step \in [S \X (1..C) -> S]
  <2> SUFFICES ASSUME NEW q \in S \X (1..C) PROVE [e \in I |-> Up(q[1], e)] \in S
    OBVIOUS
  <2>1. q[1] \in S
    OBVIOUS
  <2>2. \A e \in I : Up(q[1], e) \in Seq(J)
    BY <1>3, <2>1
  <2> QED BY <2>2
<1> DEFINE UpDef(f) == f = [n \in 0..C |->
                              [e \in I |-> IF n = 0 \/ items[e].parent = NoItem THEN <<>>
                                           ELSE <<items[e].parent>> \o f[n - 1][items[e].parent]]]
           up == CHOOSE f : UpDef(f)
<1>5. \E f : UpDef(f)
  <2>1. PICK f : IsRecursion(f, S, base, C, step)
    <3> HIDE DEF S, base, step, C
    <3> QED BY <1>1, <1>2, <1>4, RecursionExists
  <2>2. f = [n \in 0..C |-> f[n]] /\ \A n \in 0..C : f[n] = IF n = 0 THEN base ELSE step[<<f[n - 1], n>>]
    <3> HIDE DEF S, base, step, C
    <3> QED BY <2>1 DEF IsRecursion
  <2>3. \A n \in 0..C : f[n] \in S
    <3> HIDE DEF S, base, step, C
    <3> QED BY <2>1 DEF IsRecursion
  <2> DEFINE L(n) == [e \in I |-> IF n = 0 \/ items[e].parent = NoItem THEN <<>>
                                  ELSE <<items[e].parent>> \o f[n - 1][items[e].parent]]
  <2>4. ASSUME NEW n \in 0..C PROVE f[n] = L(n)
    <3>1. CASE n = 0
      BY <2>2, <3>1
    <3>2. CASE n # 0
      <4>1. n \in 1..C /\ n - 1 \in 0..C
        BY <1>1, <3>2
      <4>2. <<f[n - 1], n>> \in S \X (1..C)
        BY <2>3, <4>1
      <4>3. step[<<f[n - 1], n>>] = [e \in I |-> Up(f[n - 1], e)]
        BY <4>2
      <4> QED BY <2>2, <3>2, <4>3
    <3> QED BY <3>1, <3>2
  <2>5. f = [n \in 0..C |-> L(n)]
    <3> HIDE DEF L, C
    <3> QED BY <2>2, <2>4
  <2> QED BY <2>5
<1>6. /\ \A n \in 0..C : up[n] = [e \in I |-> up[n][e]]
      /\ \A n \in 0..C : \A e \in I :
            up[n][e] = IF n = 0 \/ items[e].parent = NoItem THEN <<>>
                       ELSE <<items[e].parent>> \o up[n - 1][items[e].parent]
  <2>1. UpDef(up)
    BY <1>5
  <2> HIDE DEF up, C
  <2> DEFINE L(n) == [e \in I |-> IF n = 0 \/ items[e].parent = NoItem THEN <<>>
                                  ELSE <<items[e].parent>> \o up[n - 1][items[e].parent]]
  <2>2. up = [n \in 0..C |-> L(n)]
    BY <2>1
  <2>3. \A n \in 0..C : /\ L(n) = [e \in I |-> L(n)[e]]
                         /\ \A e \in I : L(n)[e] = IF n = 0 \/ items[e].parent = NoItem THEN <<>>
                                                    ELSE <<items[e].parent>> \o up[n - 1][items[e].parent]
    OBVIOUS
  <2> HIDE DEF L
  <2>4. \A n \in 0..C : up[n] = L(n)
    BY <2>2
  <2> QED BY <2>3, <2>4
<1>7. \A d \in I : Enclosing(d) = up[C][d]
  BY DEF Enclosing
<1>8. \A n \in 0..C : up[n] \in S
  <2> DEFINE T == {n \in 0..C : up[n] \in S}
  <2> HIDE DEF up
  <2>1. 0 \in T
    <3>1. 0 \in 0..C
      BY <1>1
    <3>2. \A e \in I : up[0][e] \in Seq(J)
      <4>1. <<>> \in Seq(J)
        BY EmptySeq
      <4> QED BY <1>6, <3>1, <4>1
    <3>3. up[0] \in S
      BY <1>6, <3>1, <3>2
    <3> QED BY <3>1, <3>3
  <2>2. ASSUME NEW n \in 0..(C - 1), n \in T PROVE n + 1 \in T
    <3>1. n + 1 \in 0..C /\ n + 1 # 0 /\ (n + 1) - 1 = n
      BY <1>1
    <3>2. \A e \in I : up[n + 1][e] = Up(up[n], e)
      BY <1>6, <3>1
    <3>3. \A e \in I : Up(up[n], e) \in Seq(J)
      BY <1>3, <2>2
    <3>4. up[n + 1] \in S
      <4>1. up[n + 1] = [e \in I |-> up[n + 1][e]]
        BY <1>6, <3>1
      <4>2. \A e \in I : up[n + 1][e] \in Seq(J)
        BY <3>2, <3>3
      <4> QED BY ONLY <4>1, <4>2
    <3> QED BY <3>1, <3>4
  <2> HIDE DEF T, S
  <2>3. 0..C \subseteq T
    BY <1>1, <2>1, <2>2, IntervalInduction
  <2> QED BY <2>3 DEF T
<1>9. \A n \in 0..C : \A e \in I : up[n][e] \in Seq(J)
  BY <1>8
<1> HIDE DEF up
<1> QED BY <1>6, <1>7, <1>9 DEF Climbs

LEMMA EnclosingFacts ==
    ASSUME IsFiniteSet(DOMAIN items), \A e \in DOMAIN items : items[e].parent \in DOMAIN items \cup {NoItem},
           NEW d \in DOMAIN items
    PROVE  /\ Enclosing(d) \in Seq(DOMAIN items \cup {NoItem})
           /\ \A k \in 1..Len(Enclosing(d)) : Enclosing(d)[k] \in DOMAIN items
           /\ items[d].parent # NoItem => Len(Enclosing(d)) >= 1 /\ Enclosing(d)[1] = items[d].parent
<1> DEFINE I == DOMAIN items
           J == {i \in I : i # NoItem}
           C == Cardinality(I)
<1>1. C \in Nat /\ C >= 1
  <2>1. C \in Nat /\ (C = 0 <=> I = {})
    BY FS_CardinalityType, FS_EmptySet
  <2> QED BY <2>1
<1>2. PICK up : Climbs(up)
  BY EnclosingClimbs
<1>3. /\ \A n \in 0..C : \A e \in I : up[n][e] \in Seq(J)
      /\ \A n \in 0..C : \A e \in I :
            up[n][e] = IF n = 0 \/ items[e].parent = NoItem THEN <<>>
                       ELSE <<items[e].parent>> \o up[n - 1][items[e].parent]
      /\ Enclosing(d) = up[C][d]
  BY <1>2 DEF Climbs
<1> HIDE DEF C
<1>9. C \in 0..C /\ C - 1 \in 0..C /\ C # 0
  BY <1>1
<1>10. up[C][d] \in Seq(J)
  BY <1>3, <1>9
<1>11. items[d].parent # NoItem => up[C][d] = <<items[d].parent>> \o up[C - 1][items[d].parent]
  BY <1>3, <1>9
<1>12. ASSUME items[d].parent # NoItem
       PROVE  Len(up[C][d]) >= 1 /\ up[C][d][1] = items[d].parent
  <2> DEFINE x == items[d].parent
             rest == up[C - 1][x]
  <2>1. x \in J
    BY <1>12
  <2>2. rest \in Seq(J)
    BY <1>3, <1>9, <2>1
  <2>3. up[C][d] = <<x>> \o rest
    BY <1>11, <1>12
  <2> HIDE DEF rest, x
  <2>4. IsSeq(rest) /\ IsSeq(<<x>>) /\ Len(<<x>>) = 1 /\ <<x>>[1] = x
    BY <2>2, SeqIsSeq, OneIsSeq
  <2>5. /\ Len(<<x>> \o rest) = Len(<<x>>) + Len(rest)
        /\ \A i \in 1..Len(<<x>>) : (<<x>> \o rest)[i] = <<x>>[i]
    BY ONLY <2>4, ConcatIsSeq
  <2>6. Len(rest) \in Nat
    BY <2>4, SeqElements
  <2>7. up[C][d] = <<x>> \o rest
    BY <2>3
  <2>8. 1 \in 1..Len(<<x>>)
    BY <2>4
  <2>9. Len(<<x>> \o rest) >= 1 /\ (<<x>> \o rest)[1] = x
    BY <2>4, <2>5, <2>6, <2>8
  <2> QED BY <2>7, <2>9 DEF x
<1>13. Enclosing(d) \in Seq(J)
  BY <1>3, <1>10
<1> QED BY <1>3, <1>12, <1>13, SeqFacts

-----------------------------------------------------------------------------
(* The engine *)

\* The attributes of an import: an item's own, then what it inherits.
Inherited(d) ==
    LET enclosing == Flat([k \in DOMAIN Enclosing(d) |-> Own(Enclosing(d)[k])])
    IN  Among(enclosing, {a \in ToSet(enclosing) : a[1] \notin {"Uid", "AssociatedItem"}})

LEMMA InheritedFacts ==
    ASSUME Shape(program, items), Companions(program, items, uids), NEW d \in DOMAIN items
    PROVE  /\ ItemAttrs(d) = Own(d) \o Inherited(d) /\ IsSeq(Own(d)) /\ IsSeq(Inherited(d))
           /\ items[d].parent # NoItem /\ Own(items[d].parent) = <<LateSkip>> =>
                 FirstAt(Inherited(d), 1, "late_skip")
<1> DEFINE up == Enclosing(d)
           ss == [k \in DOMAIN up |-> Own(up[k])]
           enclosing == Flat(ss)
           K == {a \in ToSet(enclosing) : a[1] \notin {"Uid", "AssociatedItem"}}
           parent == items[d].parent
<1>1. ItemAttrs(d) = Own(d) \o Inherited(d)
  BY DEF ItemAttrs, Inherited
<1>2. \A e \in DOMAIN items : IsSeq(Own(e))
  BY DEF Shape, Own
<1>3. /\ up \in Seq(DOMAIN items \cup {NoItem})
      /\ \A k \in 1..Len(up) : up[k] \in DOMAIN items
      /\ parent # NoItem => Len(up) >= 1 /\ up[1] = parent
  BY EnclosingFacts DEF Shape, Companions
<1>4. IsSeq(up) /\ DOMAIN up = 1..Len(up) /\ Len(up) \in Nat
  BY <1>3, SeqFacts, SeqIsSeq
<1>5. IsSeq(ss) /\ Len(ss) = Len(up) /\ \A k \in 1..Len(up) : ss[k] = Own(up[k])
  <2>1. ss = [k \in 1..Len(up) |-> ss[k]] /\ \A k \in 1..Len(up) : ss[k] = Own(up[k])
    BY <1>4
  <2> HIDE DEF ss
  <2> QED BY <2>1, <1>4, FunctionIsSeq
<1>6. Inherited(d) = Among(enclosing, K)
  BY DEF Inherited
<1> HIDE DEF up, ss, enclosing, K
<1>7. AreSeqs(ss)
  BY <1>2, <1>3, <1>5 DEF AreSeqs
<1>8. IsSeq(enclosing)
  BY <1>7, FlatIsSeq DEF enclosing
<1>9. IsSeq(Inherited(d))
  BY <1>6, <1>8, AmongIsSeq
<1>10. ASSUME parent # NoItem, Own(parent) = <<LateSkip>> PROVE FirstAt(Inherited(d), 1, "late_skip")
  <2>1. Len(ss) >= 1 /\ 1 \in 1..Len(up) /\ ss[1] = <<LateSkip>>
    BY <1>3, <1>4, <1>5, <1>10
  <2>2. ss # <<>>
    <3>1. Len(<<>>) = 0
      BY EmptyIsSeq
    <3> QED BY <2>1, <3>1
  <2>3. ss[1] # <<>> /\ ss[1][1] = LateSkip
    BY <2>1
  <2>4. enclosing # <<>> /\ enclosing[1] = LateSkip
    BY <1>7, <2>2, <2>3, FlatFirst DEF enclosing
  <2>5. enclosing[1] \in K
    <3>1. Len(enclosing) \in Nat /\ Len(enclosing) >= 1
      BY <1>8, <2>4, SeqElements
    <3>2. enclosing[1] \in ToSet(enclosing)
      BY <1>8, <3>1, SeqElements, RangeIsToSet
    <3>3. LateSkip[1] = "ItemStatus"
      BY DEF LateSkip
    <3> QED BY <2>4, <3>2, <3>3 DEF K
  <2>6. Len(Inherited(d)) >= 1 /\ Inherited(d)[1] = LateSkip
    BY <1>6, <1>8, <2>4, <2>5, AmongFirst
  <2>7. Len(Inherited(d)) \in Nat
    BY <1>9, SeqElements
  <2> QED BY <1>9, <2>6, <2>7 DEF FirstAt, LateSkip
<1> QED BY <1>1, <1>2, <1>9, <1>10 DEF parent

\* A companion is imported with the status of its own, or of the constant it is in.
LEMMA CompanionStatus ==
    ASSUME Sound(build.how, program, items, uids), build.how = "translated", NoneLeft(items),
           NEW c \in DOMAIN items \ DOMAIN program, c[2] # "mod"
    PROVE  /\ items[c].kind \in {"fn", "const", "impl"}
           /\ \E k : \/ FirstAt(ItemAttrs(c), k, "late_skip")
                     \/ c[2] # "fn" /\ FirstAt(ItemAttrs(c), k, "excluded")
<1> DEFINE item == items[c]
           u == c[1]
           own == Own(c)
           more == Inherited(c)
<1>1. /\ program \in Programs /\ Shape(program, items) /\ Companions(program, items, uids)
      /\ uids \in Nat
  BY DEF Sound
<1>2. IsCompanion(items, c)
  BY <1>1 DEF Companions
<1>3. ItemAttrs(c) = own \o more /\ IsSeq(own) /\ IsSeq(more) /\ own = item.attrs
  BY <1>1, InheritedFacts DEF Own
<1>4. ASSUME NEW status \in {"late_skip", "excluded"}, NEW k, FirstAt(own, k, status),
             status = "excluded" => c[2] # "fn"
      PROVE  \E j : \/ FirstAt(ItemAttrs(c), j, "late_skip")
                    \/ c[2] # "fn" /\ FirstAt(ItemAttrs(c), j, "excluded")
  <2> HIDE DEF own, more
  <2>1. FirstAt(own \o more, k, status)
    BY <1>3, <1>4, FirstBefore
  <2> QED BY <2>1, <1>3, <1>4
<1>5. CASE item.kind \in {"fn", "const"} /\ own = <<LateSkip>>
  <2>1. IsSeq(own) /\ Len(own) = 1 /\ own[1] = LateSkip
    BY <1>5, OneIsSeq
  <2>2. FirstAt(own, 1, "late_skip")
    <3> HIDE DEF own
    <3> QED BY <2>1 DEF FirstAt, LateSkip
  <2> QED BY <2>2, <1>4, <1>5
<1>6. CASE item.kind = "fn" /\ own = <<LateSkip, <<"Language">>>>
  <2>1. IsSeq(own) /\ Len(own) = 2 /\ own[1] = LateSkip
    BY <1>6, TwoIsSeq
  <2>2. FirstAt(own, 1, "late_skip")
    <3> HIDE DEF own
    <3> QED BY <2>1 DEF FirstAt, LateSkip
  <2> QED BY <2>2, <1>4, <1>6
<1>7. CASE item.kind = "fn" /\ own = <<<<"Uid", u>>, LateSkip>>
  <2> DEFINE x == <<"Uid", u>>
  <2>1. IsSeq(own) /\ Len(own) = 2 /\ own[1] = x /\ own[2] = LateSkip
    BY <1>7, TwoIsSeq
  <2>2. FirstAt(own, 2, "late_skip")
    <3> HIDE DEF own
    <3> QED BY <2>1 DEF FirstAt, LateSkip
  <2> QED BY <2>2, <1>4, <1>7
<1>8. CASE item.kind = "fn" /\ own = <<<<"Uid", u>>, LateSkip>> \o NeverErased
  <2> DEFINE x == <<"Uid", u>>
  <2>1. own = DecorationAttrs(u)
    BY <1>8 DEF DecorationAttrs
  <2>2. IsSeq(own) /\ Len(own) = 3 /\ own[1] = x /\ own[2] = LateSkip
    BY <2>1, DecorationAttrsFacts
  <2>3. FirstAt(own, 2, "late_skip")
    <3> HIDE DEF own
    <3> QED BY <2>2 DEF FirstAt, LateSkip
  <2> QED BY <2>3, <1>4, <1>8
<1>9. CASE /\ item.kind = "fn" /\ item.parent = <<u, "const">> /\ <<u, "const">> \in DOMAIN items
           /\ Len(own) = 3 /\ own[1] = <<"NeverErased">>
           /\ own[2] = <<"Uid", u>> /\ own[3][1] = "ItemQuote"
  <2> DEFINE w == <<u, "const">>
  <2>1. u \in Nat /\ w \in Nat \X CompanionKinds
    BY <1>1 DEF Companions, CompanionKinds
  <2>2. w \notin DOMAIN program /\ w # NoItem
    BY <1>1, <2>1, ProgramsAssumption
  <2>3. w[2] = "const"
    OBVIOUS
  <2>4. IsCompanion(items, w)
    BY <1>1, <1>9, <2>2 DEF Companions
  <2>5. Own(w) = <<LateSkip>>
    BY <2>3, <2>4 DEF IsCompanion, Own
  <2>6. FirstAt(more, 1, "late_skip")
    BY <1>1, <1>9, <2>2, <2>5, InheritedFacts
  <2>7. \A l \in 1..Len(own) : own[l][1] # "ItemStatus"
    <3>1. \A l \in 1..3 : l = 1 \/ l = 2 \/ l = 3
      OBVIOUS
    <3> HIDE DEF own
    <3> QED BY <3>1, <1>9
  <2> HIDE DEF own, more
  <2>8. FirstAt(own \o more, Len(own) + 1, "late_skip")
    BY <1>3, <2>6, <2>7, FirstBehind
  <2> QED BY <2>8, <1>3, <1>9
<1>10. CASE /\ item.kind = "impl" /\ c[2] # "fn"
            /\ (own = <<<<"exclude">>>> \/ own = <<<<"ItemStatus", "excluded">>>>)
  <2> DEFINE x == <<"exclude">>
             y == <<"ItemStatus", "excluded">>
  <2>1. own # <<x>>
    <3> SUFFICES ASSUME own = <<x>> PROVE FALSE
      OBVIOUS
    <3>1. 1 \in DOMAIN own /\ own[1][1] = "exclude"
      OBVIOUS
    <3>2. "exclude" \in MacroTags
      BY DEF MacroTags, Markers
    <3> HIDE DEF own
    <3> QED BY <1>3, <3>1, <3>2 DEF NoneLeft
  <2>2. own = <<y>>
    BY <1>10, <2>1
  <2>3. IsSeq(own) /\ Len(own) = 1 /\ own[1] = y
    BY <2>2, OneIsSeq
  <2>4. FirstAt(own, 1, "excluded")
    <3> HIDE DEF own
    <3> QED BY <2>3 DEF FirstAt
  <2> QED BY <2>4, <1>4, <1>10
<1>11. \/ item.kind \in {"fn", "const"} /\ own = <<LateSkip>>
       \/ item.kind = "fn" /\ own = <<LateSkip, <<"Language">>>>
       \/ item.kind = "fn" /\ own = <<<<"Uid", u>>, LateSkip>>
       \/ item.kind = "fn" /\ own = <<<<"Uid", u>>, LateSkip>> \o NeverErased
       \/ /\ item.kind = "fn" /\ item.parent = <<u, "const">> /\ <<u, "const">> \in DOMAIN items
          /\ Len(own) = 3 /\ own[1] = <<"NeverErased">>
          /\ own[2] = <<"Uid", u>> /\ own[3][1] = "ItemQuote"
       \/ /\ item.kind = "impl" /\ c[2] # "fn"
          /\ (own = <<<<"exclude">>>> \/ own = <<<<"ItemStatus", "excluded">>>>)
  BY <1>2, <1>3 DEF IsCompanion
<1> QED BY <1>5, <1>6, <1>7, <1>8, <1>9, <1>10, <1>11

\* The import of a companion keeps that status.
LEMMA ImportedStatus ==
    ASSUME Sound(build.how, program, items, uids), build.how = "translated", NoneLeft(items), NEW cs
    PROVE  Hidden(program, Imported(cs), {"late_skip", "excluded"})
<1> DEFINE its == Imported(cs)
           tops == [i \in TopLevel |-> ImportItem(cs, i)]
           methods == [i \in Methods |-> ImportMethod(cs, i)]
<1>1. /\ DOMAIN its \subseteq DOMAIN items
      /\ \A c \in TopLevel : its[c] = ImportItem(cs, c)
      /\ \A c \in DOMAIN its : c \in TopLevel \/ items[c].kind = "impl_fn"
  <2>1. its = Joined(tops, methods) /\ DOMAIN tops = TopLevel /\ DOMAIN methods = Methods
    BY DEF Imported
  <2>2. \A c \in TopLevel : tops[c] = ImportItem(cs, c)
    OBVIOUS
  <2>3. TopLevel \subseteq DOMAIN items /\ Methods \subseteq DOMAIN items /\ \A c \in Methods : items[c].kind = "impl_fn"
    BY DEF TopLevel, Methods
  <2> HIDE DEF its, tops, methods
  <2>4. DOMAIN its = TopLevel \cup Methods /\ \A c \in TopLevel : its[c] = tops[c]
    BY <2>1 DEF Joined
  <2> QED BY <2>2, <2>3, <2>4
<1>2. ASSUME NEW c \in DOMAIN its \ DOMAIN program, c[2] # "mod"
      PROVE  Status(its[c].attrs) \in {"late_skip", "excluded"}
  <2>1. c \in DOMAIN items \ DOMAIN program
    BY <1>1, <1>2
  <2> HIDE DEF its
  <2>2. /\ items[c].kind \in {"fn", "const", "impl"}
        /\ \E k : \/ FirstAt(ItemAttrs(c), k, "late_skip")
                  \/ FirstAt(ItemAttrs(c), k, "excluded")
    BY <2>1, <1>2, CompanionStatus
  <2>3. its[c] = ImportItem(cs, c)
    BY <1>1, <1>2, <2>2
  <2> DEFINE by_hax == TypeOnly(cs, c) /\ items[c].kind \in {"fn", "impl"}
  <2>4. ImportItem(cs, c).attrs = WithErased(by_hax, ItemAttrs(c))
    <3>1. CASE items[c].kind \in {"fn", "const"}
      <4>1. items[c].kind \notin {"struct", "trait", "impl", "mod"}
        BY <3>1
      <4> QED BY <3>1, <4>1 DEF ImportItem, EngineItem
    <3>2. CASE items[c].kind = "impl"
      <4>1. items[c].kind \notin {"struct", "trait", "fn", "const", "mod"}
        BY <3>2
      <4> QED BY <3>2, <4>1 DEF ImportItem, EngineItem
    <3> QED BY <2>2, <3>1, <3>2
  <2> DEFINE attrs == WithErased(by_hax, ItemAttrs(c))
  <2> HIDE DEF by_hax
  <2>5. \A k, status : FirstAt(ItemAttrs(c), k, status) => Status(attrs) = status
    BY FirstErased
  <2>6. Status(attrs) \in {"late_skip", "excluded"}
    BY <2>2, <2>5
  <2> QED BY <2>3, <2>4, <2>6
<1>3. Hidden(program, its, {"late_skip", "excluded"})
  BY <1>2 DEF Hidden
<1> QED BY <1>3

\* The items stay as they are.
LEMMA SameExpansion ==
    ASSUME IInv, UNCHANGED expansion, stage \notin {"expand", "expanded"} \/ Translated
    PROVE  /\ Sound(build.how, program, items, uids)' /\ Translated'
           /\ stage # "expand" => NoneLeft(items)'
           /\ program' = program /\ build' = build
<1>1. program' = program /\ build' = build /\ items' = items /\ uids' = uids
  BY DEF expansion
<1>2. Translated
  BY DEF IInv
<1>3. Translated'
  BY <1>1, <1>2 DEF Translated
<1> QED BY <1>1, <1>3 DEF IInv

LEMMA StartStep == ASSUME NEW cs, IInv, Translated, Start(cs) PROVE IInv'
<1>1. /\ stage = "expanded" /\ list' = Imported(cs) /\ stage' = "imported" /\ UNCHANGED expansion
  BY DEF Start
<1>2. /\ Sound(build.how, program, items, uids)' /\ Translated' /\ NoneLeft(items)'
      /\ program' = program
  BY <1>1, SameExpansion
<1>3. Sound(build.how, program, items, uids) /\ NoneLeft(items) /\ build.how = "translated"
  BY <1>1 DEF IInv, Translated
<1>4. Hidden(program, Imported(cs), {"late_skip", "excluded"})
  BY <1>3, ImportedStatus
<1>5. Hidden(program', list', {"late_skip", "excluded"})
  BY <1>1, <1>2, <1>4
<1> QED BY <1>1, <1>2, <1>5 DEF IInv

LEMMA ImportThirItemsStep == ASSUME IInv, ImportThirItems PROVE IInv'
<1> DEFINE S == WithAssociated(list, FilterByInclusionClauses(clauses, list))
           K == {i \in S : Status(list[i].attrs) # "excluded"}
<1>1. stage = "imported" /\ list' = Keep(list, K) /\ stage' = "selected" /\ UNCHANGED expansion
  BY DEF ImportThirItems
<1>2. /\ Sound(build.how, program, items, uids)' /\ Translated' /\ NoneLeft(items)'
      /\ program' = program
  BY <1>1, SameExpansion
<1>3. \A i \in K : Status(list[i].attrs) # "excluded"
  OBVIOUS
<1> HIDE DEF K
<1>4. DOMAIN list' = DOMAIN list \cap K /\ \A i \in DOMAIN list' : list'[i] = list[i]
  BY <1>1 DEF Keep
<1>5. Hidden(program, list, {"late_skip", "excluded"})
  BY <1>1 DEF IInv
<1>6. Hidden(program', list', {"late_skip"})
  BY <1>2, <1>3, <1>4, <1>5 DEF Hidden
<1> QED BY <1>1, <1>2, <1>6 DEF IInv

LEMMA ApplyPhasesStep == ASSUME IInv, ApplyPhases PROVE IInv'
<1>1. stage = "selected" /\ stage' = "phases" /\ UNCHANGED expansion
  BY DEF ApplyPhases
<1>2. /\ Sound(build.how, program, items, uids)' /\ Translated' /\ NoneLeft(items)'
      /\ program' = program /\ build' = build
  BY <1>1, SameExpansion
<1>3. /\ DOMAIN list' = DOMAIN list
      /\ \A i \in DOMAIN list : \/ list'[i] = list[i]
                                \/ list'[i].kind = "quote" /\ build.backend = "fstar"
  <2>1. CASE build.backend # "fstar"
    BY <2>1 DEF ApplyPhases
  <2>2. CASE build.backend = "fstar"
    <3>1. list' = [i \in DOMAIN list |-> IF list[i].kind = "fn" /\ QuoteParents(list, i) # {}
                                         THEN AsQuote(list, i) ELSE list[i]]
      BY <2>2 DEF ApplyPhases
    <3>2. \A i : AsQuote(list, i).kind = "quote"
      BY DEF AsQuote, EngineItem
    <3> QED BY <2>2, <3>1, <3>2
  <2> QED BY <2>1, <2>2
<1>4. \A c \in DOMAIN list \ DOMAIN program : c[2] = "mod" \/ IsLateSkip(list[c].attrs)
  BY <1>1 DEF IInv, Hidden, IsLateSkip
<1>5. \A c \in DOMAIN list' \ DOMAIN program' :
         c[2] = "mod" \/ IsLateSkip(list'[c].attrs) \/ (list'[c].kind = "quote" /\ build'.backend = "fstar")
  BY <1>2, <1>3, <1>4
<1>6. stage' = "phases" =>
         \A c \in DOMAIN list' \ DOMAIN program' :
            c[2] = "mod" \/ IsLateSkip(list[c].attrs)' \/ (list'[c].kind = "quote" /\ build'.backend = "fstar")
  BY <1>5 DEF IsLateSkip, Status, Statuses
<1> QED BY <1>1, <1>2, <1>6 DEF IInv

LEMMA TranslateStep == ASSUME IInv, Translate PROVE IInv'
<1> DEFINE seen == {i \in DOMAIN list : ~ IsLateSkip(list[i].attrs)}
<1>1. /\ stage = "phases" /\ stage' = "translated" /\ UNCHANGED expansion /\ list' = list
      /\ translated' = [i \in seen |-> Formulas(list, i)]
  BY DEF Translate
<1>2. /\ Sound(build.how, program, items, uids)' /\ Translated' /\ NoneLeft(items)'
      /\ program' = program /\ build' = build
  BY <1>1, SameExpansion
<1>3. \A c \in DOMAIN list \ DOMAIN program :
         c[2] = "mod" \/ IsLateSkip(list[c].attrs) \/ (list[c].kind = "quote" /\ build.backend = "fstar")
  BY <1>1 DEF IInv
<1>4. \A i \in seen : i \in DOMAIN list /\ ~ IsLateSkip(list[i].attrs)
  OBVIOUS
<1>5. DOMAIN translated' = seen
  BY <1>1
<1> HIDE DEF seen
<1>6. CompanionsStayHidden'
  BY <1>1, <1>2, <1>3, <1>4, <1>5 DEF CompanionsStayHidden
<1> QED BY <1>1, <1>2, <1>6 DEF IInv

-----------------------------------------------------------------------------
(* The theorems *)

LEMMA NextStep == IInv /\ [Next]_vars => IInv'
<1> SUFFICES ASSUME IInv, [Next]_vars PROVE IInv'
  OBVIOUS
<1>1. CASE UNCHANGED vars
  <2>1. /\ program' = program /\ build' = build /\ items' = items /\ uids' = uids /\ stage' = stage
        /\ list' = list /\ translated' = translated
    BY <1>1 DEF vars, expansion, engine
  <2>2. Sound(build.how, program, items, uids)'
    BY <2>1 DEF IInv
  <2>3. (stage # "expand" => NoneLeft(items))'
    BY <2>1 DEF IInv
  <2>4. (stage \notin {"expand", "expanded"} => Translated)'
    BY <2>1 DEF IInv, Translated
  <2>5. /\ (stage = "imported" => Hidden(program, list, {"late_skip", "excluded"}))'
        /\ (stage = "selected" => Hidden(program, list, {"late_skip"}))'
    BY <2>1 DEF IInv
  <2>6. (stage = "phases" =>
          \A c \in DOMAIN list \ DOMAIN program :
             c[2] = "mod" \/ IsLateSkip(list[c].attrs) \/ (list[c].kind = "quote" /\ build.backend = "fstar"))'
    <3>1. stage = "phases" =>
             \A c \in DOMAIN list \ DOMAIN program :
                c[2] = "mod" \/ IsLateSkip(list[c].attrs) \/ (list[c].kind = "quote" /\ build.backend = "fstar")
      BY DEF IInv
    <3> QED BY <2>1, <3>1
  <2>7. (stage = "translated" => CompanionsStayHidden)'
    BY <2>1 DEF IInv, CompanionsStayHidden
  <2> QED BY <2>2, <2>3, <2>4, <2>5, <2>6, <2>7 DEF IInv
<1>2. ASSUME NEW d \in DOMAIN items, Expand(d) PROVE IInv'
  BY <1>2, ExpandStep
<1>3. CASE Resolve
  BY <1>3, ResolveStep
<1>4. ASSUME NEW cs \in ClauseLists, Translated, Start(cs) PROVE IInv'
  BY <1>4, StartStep
<1>5. CASE ImportThirItems
  BY <1>5, ImportThirItemsStep
<1>6. CASE ApplyPhases
  BY <1>6, ApplyPhasesStep
<1>7. CASE Translate
  BY <1>7, TranslateStep
<1> QED BY <1>1, <1>2, <1>3, <1>4, <1>5, <1>6, <1>7 DEF Next, Expansion

\* Whatever macros run in whatever order, the items, the companions made of them
\* and the uids that join them agree: each formula of the source has its place,
\* and each companion its owner.
THEOREM ItemsAreSound == Spec => []IInv
<1>1. SelectionInit => IInv
  BY InitSound DEF SelectionInit
<1> QED BY <1>1, NextStep, PTL DEF Spec

\* Annotations leave no trace in a build that hax does not make, and no companion
\* but a quote is translated: for any programs, builds and clauses.
THEOREM CompanionsAreApart == Spec => []CompanionsStayApart
<1>1. IInv => CompanionsStayApart
  <2> SUFFICES ASSUME IInv PROVE CompanionsStayOut /\ CompanionsStayHidden
    BY DEF CompanionsStayApart
  <2>1. CompanionsStayHidden
    BY DEF IInv, CompanionsStayHidden
  <2>2. ASSUME Expanded, ~ Translated
        PROVE  /\ \A c \in DOMAIN items \ DOMAIN program : c[2] \in {"mod", "Refinement", "Deref", "RefineAs"}
               /\ \A c \in DOMAIN items : \A k \in DOMAIN items[c].attrs : items[c].attrs[k][1] = "doc"
               /\ \A d \in DOMAIN program \cap DOMAIN items :
                     \/ items[d].body = program[d].body /\ items[d].inputs = program[d].inputs
                     \/ \E a \in ToSet(program[d].attrs) : a[1] = "verification_status" /\ a[2] = "panic_free"
    <3>1. /\ Shape(program, items) /\ NoTrace(program, items) /\ NoneLeft(items) /\ program \in Programs
      BY <2>2 DEF IInv, Sound, Translated, Expanded
    <3>2. \A c \in DOMAIN items : DOMAIN items[c].attrs = 1..Len(items[c].attrs)
      BY <3>1, SeqElements DEF Shape
    <3>3. \A c \in DOMAIN items : \A k \in DOMAIN items[c].attrs : items[c].attrs[k][1] = "doc"
      BY <3>1, <3>2 DEF NoTrace, NoneLeft, Plain
    <3>4. ASSUME NEW d \in DOMAIN program, PanicFree(program[d])
          PROVE  \E a \in ToSet(program[d].attrs) : a[1] = "verification_status" /\ a[2] = "panic_free"
      <4>1. IsSeq(program[d].attrs)
        BY <3>1, SourceAttrs
      <4>2. \A k \in 1..Len(program[d].attrs) : program[d].attrs[k] \in ToSet(program[d].attrs)
        BY <4>1, SeqElements, RangeIsToSet
      <4> QED BY <4>2, <3>4 DEF PanicFree
    <3> QED BY <3>1, <3>3, <3>4 DEF NoTrace
  <2> QED BY <2>1, <2>2 DEF CompanionsStayOut
<1> QED BY <1>1, ItemsAreSound, PTL

RoleOf(its, d, k) == its[d].attrs[k][2]

\* Once no macro is left, the places of the formulas are companions.
LEMMA PlacesAreUids ==
    ASSUME IInv, Expanded, Translated, NEW d \in DOMAIN program, NEW role \in Roles
    PROVE  LET P == Places(program, items, d, role)
           IN  /\ P \subseteq Attachments(items, d) /\ IsFiniteSet(P)
               /\ UidsOf(d, role) = {UidOf(items, d, k) : k \in P}
               /\ \A k \in P : SaidAt(items, d, k) = items[<<UidOf(items, d, k), "fn">>].body.says
               /\ \A k \in P : RoleOf(items, d, k) = role
<1> DEFINE attrs == items[d].attrs
           P == Places(program, items, d, role)
           Q == {k \in 1..Len(attrs) : attrs[k][1] = "AssociatedItem" /\ attrs[k][2] = role}
<1>1. /\ NoneLeft(items) /\ Shape(program, items) /\ d \in DOMAIN items
      /\ Attached(program, items, uids)
  BY DEF IInv, Expanded, Translated, Sound, Companions
<1>2. IsSeq(attrs)
  BY <1>1 DEF Shape
<1>3. DOMAIN attrs = 1..Len(attrs) /\ Len(attrs) \in Nat /\ 0 \notin 1..Len(attrs)
  <2>1. DOMAIN attrs = 1..Len(attrs) /\ Len(attrs) \in Nat
    BY <1>2, SeqElements
  <2> QED BY <2>1
<1>4. \A k \in 1..Len(attrs) : attrs[k][1] \notin MacroTags \cup {"refine"}
  BY <1>1, <1>3 DEF NoneLeft
<1>5. {"requires", "ensures", "refinement_type", "impl_fn_decoration", "lemma"} \subseteq MacroTags
  BY DEF MacroTags, DecorationKinds
<1>6. ~ Has(attrs, "lemma")
  BY <1>3, <1>4, <1>5 DEF Has
<1>7. \A k \in 1..Len(attrs) : Carries(attrs[k], role) <=> attrs[k][1] = "AssociatedItem" /\ attrs[k][2] = role
  BY <1>4, <1>5 DEF Carries, WrittenAs, Roles
<1>8. ~ (items[d].output[1] = "proof" /\ Has(program[d].attrs, "lemma"))
  BY <1>1, <1>6 DEF Attached
<1>9. P = Q
  BY <1>7, <1>8 DEF Places
<1>10. IsFiniteSet(P)
  <2>1. IsFiniteSet(1..Len(attrs)) /\ Q \subseteq 1..Len(attrs)
    BY <1>3, FS_Interval
  <2> HIDE DEF Q
  <2> QED BY <2>1, <1>9, FS_Subset
<1>11. P \subseteq Attachments(items, d)
  BY <1>9 DEF Attachments
<1>12. UidsOf(d, role) = {UidOf(items, d, k) : k \in P}
  <2>1. \A a : a \in AssociatedUids(attrs) <=>
                 \E k \in 1..Len(attrs) : attrs[k][1] = "AssociatedItem" /\ a = <<attrs[k][2], attrs[k][3]>>
    BY <1>3 DEF AssociatedUids
  <2>2. \A u : u \in UidsOf(d, role) <=> \E a \in AssociatedUids(attrs) : a[1] = role /\ u = a[2]
    BY DEF UidsOf
  <2> HIDE DEF attrs
  <2>3. \A u : u \in UidsOf(d, role) <=> \E k \in Q : u = attrs[k][3]
    <3> TAKE u
    <3>1. ASSUME u \in UidsOf(d, role) PROVE \E k \in Q : u = attrs[k][3]
      <4>1. PICK a \in AssociatedUids(attrs) : a[1] = role /\ u = a[2]
        BY <2>2, <3>1
      <4>2. PICK k \in 1..Len(attrs) : attrs[k][1] = "AssociatedItem" /\ a = <<attrs[k][2], attrs[k][3]>>
        BY <2>1, <4>1
      <4>3. attrs[k][2] = role /\ attrs[k][3] = u
        BY <4>1, <4>2
      <4> QED BY <4>2, <4>3
    <3>2. ASSUME NEW k \in Q, u = attrs[k][3] PROVE u \in UidsOf(d, role)
      <4> DEFINE a == <<attrs[k][2], attrs[k][3]>>
      <4>1. a \in AssociatedUids(attrs)
        BY <2>1, <3>2
      <4>2. a[1] = role /\ u = a[2]
        BY <3>2
      <4> QED BY <2>2, <4>1, <4>2
    <3> QED BY <3>1, <3>2
  <2> QED BY <2>3, <1>9 DEF UidOf, attrs
<1>13. \A k \in P : /\ RoleOf(items, d, k) = role
                    /\ SaidAt(items, d, k) = items[<<UidOf(items, d, k), "fn">>].body.says
  BY <1>3, <1>9 DEF SaidAt, Said, UidOf, RoleOf
<1> HIDE DEF P
<1> QED BY <1>10, <1>11, <1>12, <1>13 DEF P

LEMMA ContractsSettled == IInv => ContractsAttached
<1> SUFFICES ASSUME IInv, Expanded, Translated, NEW d \in DOMAIN program, NEW role \in Roles
             PROVE  /\ {items[<<u, "fn">>].body.says : u \in UidsOf(d, role)} = Written(d, role)
                    /\ Cardinality(UidsOf(d, role)) = Cardinality(Written(d, role))
                    /\ \A e \in DOMAIN program, other \in Roles :
                          UidsOf(d, role) \cap UidsOf(e, other) # {} => d = e /\ role = other
  BY DEF ContractsAttached
<1> DEFINE P == Places(program, items, d, role)
           uid == [k \in P |-> UidOf(items, d, k)]
           says == [k \in P |-> SaidAt(items, d, k)]
<1>1. Attached(program, items, uids)
  BY DEF IInv, Sound, Translated
<1>2. /\ P \subseteq Attachments(items, d) /\ IsFiniteSet(P)
      /\ UidsOf(d, role) = {UidOf(items, d, k) : k \in P}
      /\ \A k \in P : SaidAt(items, d, k) = items[<<UidOf(items, d, k), "fn">>].body.says
  BY PlacesAreUids
<1>3. AllSaid(program, items, d, role)
  BY <1>1 DEF Attached
<1>4. /\ \A k \in P : says[k] \in Written(d, role)
      /\ \A x \in Written(d, role) : \E k \in P : says[k] = x
      /\ \A k, l \in P : says[k] = says[l] => k = l
  BY <1>3 DEF AllSaid, Written
<1>5. \A k, l \in P : uid[k] = uid[l] => k = l
  <2>1. \A k, l \in Attachments(items, d) : UidOf(items, d, k) = UidOf(items, d, l) => k = l
    BY <1>1 DEF Attached
  <2> QED BY <2>1, <1>2
<1>6. /\ UidsOf(d, role) = {uid[k] : k \in P}
      /\ \A k \in P : items[<<uid[k], "fn">>].body.says = says[k]
  BY <1>2
<1> HIDE DEF P, uid, says
<1>7. Written(d, role) = {says[k] : k \in P}
  BY <1>4
<1>8. {items[<<u, "fn">>].body.says : u \in UidsOf(d, role)} = Written(d, role)
  <2> DEFINE U == UidsOf(d, role)
             B(u) == items[<<u, "fn">>].body.says
  <2>1. \A k \in P : B(uid[k]) = says[k]
    BY <1>6
  <2> HIDE DEF B
  <2>2. {B(u) : u \in U} = Written(d, role)
    BY <1>6, <1>7, <2>1
  <2> QED BY <2>2 DEF B
<1>9. Cardinality({uid[k] : k \in P}) = Cardinality(P)
  BY <1>2, <1>5, SameSize
<1>10. Cardinality({says[k] : k \in P}) = Cardinality(P)
  BY <1>2, <1>4, SameSize
<1>11. Cardinality(UidsOf(d, role)) = Cardinality(Written(d, role))
  BY <1>6, <1>7, <1>9, <1>10
<1>12. ASSUME NEW e \in DOMAIN program, NEW other \in Roles,
              UidsOf(d, role) \cap UidsOf(e, other) # {}
       PROVE  d = e /\ role = other
  <2> DEFINE Q == Places(program, items, e, other)
  <2>1. /\ P \subseteq Attachments(items, d) /\ UidsOf(d, role) = {UidOf(items, d, k) : k \in P}
        /\ \A k \in P : RoleOf(items, d, k) = role
    <3>1. \A k \in Places(program, items, d, role) : RoleOf(items, d, k) = role
      BY PlacesAreUids
    <3> QED BY <1>2, <3>1 DEF P
  <2>2. /\ Q \subseteq Attachments(items, e) /\ UidsOf(e, other) = {UidOf(items, e, k) : k \in Q}
        /\ \A k \in Q : RoleOf(items, e, k) = other
    <3>1. \A k \in Q : RoleOf(items, e, k) = other
      BY PlacesAreUids
    <3>2. Q \subseteq Attachments(items, e) /\ UidsOf(e, other) = {UidOf(items, e, k) : k \in Q}
      BY PlacesAreUids
    <3> HIDE DEF Q
    <3> QED BY <3>1, <3>2
  <2> HIDE DEF Q
  <2>3. PICK k \in P, l \in Q : UidOf(items, d, k) = UidOf(items, e, l)
    BY <2>1, <2>2, <1>12
  <2>4. d = e /\ k = l
    <3>1. k \in Attachments(items, d) /\ l \in Attachments(items, e)
      BY <2>1, <2>2
    <3> QED BY <3>1, <2>3, <1>1 DEF Attached
  <2> QED BY <2>1, <2>2, <2>4
<1> QED BY <1>8, <1>11, <1>12

\* Each formula written on an item is that of exactly one companion, and no
\* companion is shared: for any programs, builds and clauses.
THEOREM ContractsAreAttached == Spec => []ContractsAttached
<1> QED BY ContractsSettled, ItemsAreSound, PTL

-----------------------------------------------------------------------------
(* What the clauses select, and what the documentation says *)

Included(included) ==
    /\ included[0] = DOMAIN list
    /\ \A n \in 1..Len(clauses) : included[n] = DocumentedBy(included[n - 1], clauses[n])
    /\ Documented = included[Len(clauses)]

LEMMA IncludedExists ==
    ASSUME IsFiniteSet(DOMAIN Source), DOMAIN list = DOMAIN Source, Len(clauses) \in Nat,
           \A n \in 1..Len(clauses) : clauses[n].kind \in ClauseKinds
    PROVE  \E included : Included(included)
<1> DEFINE N == Len(clauses)
           graph == SourceGraph
           U == DOMAIN graph \cup UNION {graph[i] : i \in DOMAIN graph}
           P == SUBSET U
           step == [q \in P \X (1..N) |-> DocumentedBy(q[1], clauses[q[2]])]
           L(f) == [n \in 0..N |-> IF n = 0 THEN DOMAIN list ELSE DocumentedBy(f[n - 1], clauses[n])]
           chosen == CHOOSE f : f = L(f)
<1>1. Documented = chosen[N]
  BY DEF Documented
<1>2. DOMAIN graph = DOMAIN list
  BY GraphOfItems DEF SourceGraph
<1>3. \A S \in P, n \in 1..N : DocumentedBy(S, clauses[n]) \in P
  <2> SUFFICES ASSUME NEW S \in P, NEW n \in 1..N PROVE DocumentedBy(S, clauses[n]) \in P
    OBVIOUS
  <2> DEFINE c == clauses[n]
             matched == {d \in DOMAIN list : MatchesNamespace(c, d)}
  <2>1. matched \in SUBSET DOMAIN graph
    BY <1>2
  <2>2. TransitiveDependencies(graph, matched) \subseteq U
    <3> HIDE DEF graph, matched
    <3> QED BY <1>2, <2>1, ReachedAmong
  <2>3. Successors(graph, matched) \subseteq U
    BY DEF Successors
  <2>4. c.kind \in ClauseKinds
    OBVIOUS
  <2>5. DocumentedBy(S, c) =
           CASE c.kind = "+" -> S \cup TransitiveDependencies(graph, matched)
             [] c.kind = "+~" -> S \cup matched \cup Successors(graph, matched)
             [] c.kind \in {"+!", "+:"} -> S \cup matched
             [] c.kind = "-" -> S \ matched
    BY DEF DocumentedBy
  <2> HIDE DEF c, matched, graph
  <2> QED BY <2>1, <2>2, <2>3, <2>4, <2>5 DEF ClauseKinds, c
<1>4. DOMAIN list \in P
  BY <1>2
<1> HIDE DEF P, graph, N
<1>5. step \in [P \X (1..N) -> P]
  <2>1. \A q \in P \X (1..N) : q[1] \in P /\ q[2] \in 1..N
    OBVIOUS
  <2> QED BY <1>3, <2>1
<1>6. PICK f : IsRecursion(f, P, DOMAIN list, N, step)
  <2>1. N \in Nat
    BY DEF N
  <2> HIDE DEF step
  <2> QED BY <2>1, <1>4, <1>5, RecursionExists
<1>7. f \in [0..N -> P] /\ f[0] = DOMAIN list /\ \A n \in 1..N : f[n] = step[<<f[n - 1], n>>]
  BY <1>6 DEF IsRecursion
<1>8. f = L(f)
  <2>1. ASSUME NEW n \in 0..N PROVE f[n] = L(f)[n]
    <3>1. CASE n = 0
      BY <1>7, <3>1
    <3>2. CASE n # 0
      <4>1. n \in 1..N /\ n - 1 \in 0..N
        BY <3>2 DEF N
      <4>2. <<f[n - 1], n>> \in P \X (1..N)
        BY <1>7, <4>1
      <4>3. f[n] = DocumentedBy(f[n - 1], clauses[n])
        BY <1>7, <4>1, <4>2
      <4> QED BY <3>2, <4>3
    <3> QED BY <3>1, <3>2
  <2> QED BY <1>7, <2>1
<1>9. chosen = L(chosen)
  <2> HIDE DEF L
  <2> QED BY <1>8
<1> HIDE DEF chosen
<1>10. chosen[0] = DOMAIN list /\ \A n \in 1..N : chosen[n] = DocumentedBy(chosen[n - 1], clauses[n])
  <2>1. ASSUME NEW n \in 1..N PROVE chosen[n] = DocumentedBy(chosen[n - 1], clauses[n])
    <3>1. n \in 0..N /\ n # 0
      BY DEF N
    <3> QED BY <1>9, <3>1
  <2>2. 0 \in 0..N
    BY DEF N
  <2> QED BY <1>9, <2>1, <2>2
<1> QED BY <1>1, <1>10 DEF Included, N

-----------------------------------------------------------------------------
(* What an inclusion clause reduces *)

\* `+:` alone reduces what is imported.
LEMMA TypeOnlyFacts ==
    ASSUME NEW cs, IsSeq(cs), NEW d, TypeOnly(cs, d)
    PROVE  \E k \in 1..Len(cs) : cs[k].kind = "+:" /\ MatchesNamespace(cs[k], d)
<1> DEFINE precise == MostPrecise(cs, d)
           K == {c \in ToSet(cs) : MatchesNamespace(c, d)}
<1>1. IsSeq(precise) /\ precise # <<>> /\ Last(precise).kind = "+:"
  BY AmongIsSeq DEF TypeOnly, MostPrecise
<1>2. \A k \in 1..Len(precise) : precise[k] \in Range(cs) /\ MatchesNamespace(precise[k], d)
  <2>1. \A k \in 1..Len(Among(cs, K)) : Among(cs, K)[k] \in Range(cs) \cap K
    <3> HIDE DEF K
    <3> QED BY AmongIsSeq
  <2> QED BY <2>1 DEF MostPrecise
<1> HIDE DEF precise
<1>3. Last(precise) = precise[Len(precise)] /\ Len(precise) \in Nat /\ Len(precise) >= 1
  BY <1>1, SeqElements DEF Last
<1>4. Last(precise) \in Range(cs) /\ MatchesNamespace(Last(precise), d)
  <2>1. Len(precise) \in 1..Len(precise)
    BY <1>3
  <2> QED BY <1>2, <1>3, <2>1
<1> QED BY <1>1, <1>4, SeqElements

LEMMA ImportItemReduced ==
    ASSUME NEW cs, NEW d \in TopLevel, IsSeq(ItemAttrs(d))
    PROVE  /\ Reduced(ImportItem(cs, d), ImportItem(<<>>, d))
           /\ ~ TypeOnly(cs, d) => ImportItem(cs, d) = ImportItem(<<>>, d)
<1> DEFINE kind == items[d].kind
           A == ItemAttrs(d)
           hax(c) == TypeOnly(c, d) /\ kind \in {"fn", "impl"}
           a(c) == WithErased(hax(c), A)
           erased(c) == Has(a(c), "Erased")
           body(c) == IF erased(c) /\ ~ Has(a(c), "NeverErased") THEN Dropped ELSE items[d].body
<1>1. ~ TypeOnly(<<>>, d)
  BY TypeOnlyFacts, EmptyIsSeq
<1>2. a(<<>>) = A
  BY <1>1 DEF WithErased
<1>3. ~ TypeOnly(cs, d) => ImportItem(cs, d) = ImportItem(<<>>, d)
  BY <1>1 DEF ImportItem
<1>4. SameLinks(a(cs), A)
  BY ErasedLinks
<1>5. kind \in {"fn", "const", "struct", "trait", "impl", "mod"}
  BY DEF TopLevel
<1>6. Has(A, "Erased") => a(cs) = A
  BY DEF WithErased
<1>7. body(cs) \in {body(<<>>), Dropped}
  <2>1. CASE a(cs) = A
    BY <1>2, <2>1
  <2>2. CASE ~ Has(A, "Erased")
    BY <1>2, <2>2
  <2> QED BY <1>6, <2>1, <2>2
<1>8. kind = "struct" => erased(cs) <=> erased(<<>>)
  BY <1>2 DEF WithErased
<1>9. erased(<<>>) => erased(cs)
  BY <1>2, <1>6
<1>10. SameLinks(a(cs), a(<<>>))
  BY <1>2, <1>4
<1>11. \A c : /\ kind \in {"fn", "const"} => ImportItem(c, d) = EngineItem("fn", a(c), items[d].uses, body(c), <<>>)
              /\ kind = "struct" => ImportItem(c, d) = EngineItem("struct", a(c), items[d].uses, items[d].output,
                                                          IF erased(c) THEN <<>> ELSE PartsOf(d))
              /\ kind = "trait" => ImportItem(c, d) = EngineItem("trait", a(c), items[d].uses, Unit, PartsOf(d))
              /\ kind = "impl" => ImportItem(c, d) = EngineItem("impl", a(c), items[d].uses, Unit,
                                                          IF erased(c) THEN <<>> ELSE PartsOf(d))
              /\ kind = "mod" => ImportItem(c, d) = EngineItem("nothing", a(c), {}, Unit, <<>>)
  BY DEF ImportItem
<1> HIDE DEF kind, a, erased, body
<1>12. DOMAIN <<>> = {}
  OBVIOUS
<1> DEFINE sub(c) == IF erased(c) THEN <<>> ELSE PartsOf(d)
<1>13. DOMAIN sub(cs) \subseteq DOMAIN sub(<<>>) /\ \A e \in DOMAIN sub(cs) : sub(cs)[e] = sub(<<>>)[e]
  BY <1>9, <1>12
<1> HIDE DEF sub
<1>14. CASE kind \in {"fn", "const"}
  <2>1. \A c : ImportItem(c, d) = EngineItem("fn", a(c), items[d].uses, body(c), <<>>)
    BY <1>11, <1>14
  <2>2. Reduced(EngineItem("fn", a(cs), items[d].uses, body(cs), <<>>),
                EngineItem("fn", a(<<>>), items[d].uses, body(<<>>), <<>>))
    BY <1>7, <1>10, <1>12, EngineItemsReduced
  <2> QED BY <1>3, <2>1, <2>2
<1>15. CASE kind = "struct"
  <2>1. \A c : ImportItem(c, d) = EngineItem("struct", a(c), items[d].uses, items[d].output, sub(c))
    BY <1>11, <1>15 DEF sub
  <2>2. Reduced(EngineItem("struct", a(cs), items[d].uses, items[d].output, sub(cs)),
                EngineItem("struct", a(<<>>), items[d].uses, items[d].output, sub(<<>>)))
    BY <1>10, <1>13, EngineItemsReduced
  <2> QED BY <1>3, <2>1, <2>2
<1>16. CASE kind = "trait"
  <2>1. \A c : ImportItem(c, d) = EngineItem("trait", a(c), items[d].uses, Unit, PartsOf(d))
    BY <1>11, <1>16
  <2>2. Reduced(EngineItem("trait", a(cs), items[d].uses, Unit, PartsOf(d)),
                EngineItem("trait", a(<<>>), items[d].uses, Unit, PartsOf(d)))
    BY <1>10, EngineItemsReduced
  <2> QED BY <1>3, <2>1, <2>2
<1>17. CASE kind = "impl"
  <2>1. \A c : ImportItem(c, d) = EngineItem("impl", a(c), items[d].uses, Unit, sub(c))
    BY <1>11, <1>17 DEF sub
  <2>2. Reduced(EngineItem("impl", a(cs), items[d].uses, Unit, sub(cs)),
                EngineItem("impl", a(<<>>), items[d].uses, Unit, sub(<<>>)))
    BY <1>10, <1>13, EngineItemsReduced
  <2> QED BY <1>3, <2>1, <2>2
<1>18. CASE kind = "mod"
  <2>1. \A c : ImportItem(c, d) = EngineItem("nothing", a(c), {}, Unit, <<>>)
    BY <1>11, <1>18
  <2>2. Reduced(EngineItem("nothing", a(cs), {}, Unit, <<>>), EngineItem("nothing", a(<<>>), {}, Unit, <<>>))
    BY <1>10, EngineItemsReduced
  <2> QED BY <1>3, <2>1, <2>2
<1> QED BY <1>3, <1>5, <1>14, <1>15, <1>16, <1>17, <1>18

LEMMA ImportMethodReduced ==
    ASSUME NEW cs, NEW m, IsSeq(ItemAttrs(m))
    PROVE  /\ Reduced(ImportMethod(cs, m), ImportMethod(<<>>, m))
           /\ ~ TypeOnly(cs, items[m].parent) => ImportMethod(cs, m) = ImportMethod(<<>>, m)
<1> DEFINE A == ItemAttrs(m)
           a(c) == WithErased(TypeOnly(c, items[m].parent), A)
           body(c) == IF Has(a(c), "Erased") THEN Dropped ELSE items[m].body
<1>1. ~ TypeOnly(<<>>, items[m].parent)
  BY TypeOnlyFacts, EmptyIsSeq
<1>2. a(<<>>) = A
  BY <1>1 DEF WithErased
<1>3. ~ TypeOnly(cs, items[m].parent) => a(cs) = A
  BY DEF WithErased
<1>4. SameLinks(a(cs), a(<<>>))
  BY <1>2, ErasedLinks
<1>5. Has(A, "Erased") => a(cs) = A
  BY DEF WithErased
<1>6. body(cs) \in {body(<<>>), Dropped}
  BY <1>2, <1>5
<1>7. \A c : ImportMethod(c, m) = EngineItem("fn", a(c), items[m].uses, body(c), <<>>)
  BY DEF ImportMethod
<1>8. ~ TypeOnly(cs, items[m].parent) => body(cs) = body(<<>>)
  BY <1>2, <1>3
<1> HIDE DEF a, body
<1>9. Reduced(EngineItem("fn", a(cs), items[m].uses, body(cs), <<>>),
              EngineItem("fn", a(<<>>), items[m].uses, body(<<>>), <<>>))
  BY <1>4, <1>6, EngineItemsReduced
<1> QED BY <1>2, <1>3, <1>7, <1>8, <1>9

\* The items of an import, and those of the source.
LEMMA ImportedFacts ==
    ASSUME NEW cs
    PROVE  /\ DOMAIN Imported(cs) = TopLevel \cup Methods /\ TopLevel \cap Methods = {}
           /\ TopLevel \subseteq DOMAIN items /\ Methods \subseteq DOMAIN items
           /\ \A i \in TopLevel : Imported(cs)[i] = ImportItem(cs, i)
           /\ \A i \in Methods : Imported(cs)[i] = ImportMethod(cs, i)
<1> DEFINE tops == [i \in TopLevel |-> ImportItem(cs, i)]
           methods == [i \in Methods |-> ImportMethod(cs, i)]
<1>1. Imported(cs) = Joined(tops, methods) /\ DOMAIN tops = TopLevel /\ DOMAIN methods = Methods
  BY DEF Imported
<1>2. /\ \A i \in TopLevel : tops[i] = ImportItem(cs, i)
      /\ \A i \in Methods : methods[i] = ImportMethod(cs, i)
  OBVIOUS
<1>3. /\ TopLevel \subseteq DOMAIN items /\ Methods \subseteq DOMAIN items /\ TopLevel \cap Methods = {}
  BY DEF TopLevel, Methods
<1> HIDE DEF tops, methods
<1>4. /\ DOMAIN Joined(tops, methods) = DOMAIN tops \cup DOMAIN methods
      /\ \A i \in DOMAIN tops : Joined(tops, methods)[i] = tops[i]
      /\ \A i \in DOMAIN methods \ DOMAIN tops : Joined(tops, methods)[i] = methods[i]
  BY DEF Joined
<1>5. \A i \in Methods : Imported(cs)[i] = methods[i]
  BY <1>1, <1>3, <1>4
<1> QED BY <1>1, <1>2, <1>3, <1>4, <1>5

LEMMA ImportReduced ==
    ASSUME Shape(program, items), Companions(program, items, uids), NEW cs, IsSeq(cs)
    PROVE  /\ IsFiniteSet(DOMAIN Source) /\ DOMAIN Imported(cs) = DOMAIN Source
           /\ \A i \in DOMAIN Source : Reduced(Imported(cs)[i], Source[i])
           /\ (\A k \in 1..Len(cs) : cs[k].kind # "+:") =>
                 \A i \in DOMAIN Source : Imported(cs)[i] = Source[i]
<1>1. ASSUME NEW i \in DOMAIN items PROVE IsSeq(ItemAttrs(i))
  BY InheritedFacts, ConcatShort
<1>2. IsFiniteSet(DOMAIN Source)
  <2>1. DOMAIN Source \subseteq DOMAIN items
    BY ImportedFacts DEF Source
  <2> QED BY <2>1, FS_Subset DEF Shape
<1>3. (\A k \in 1..Len(cs) : cs[k].kind # "+:") => \A d : ~ TypeOnly(cs, d)
  BY TypeOnlyFacts
<1>4. ASSUME NEW i \in TopLevel
      PROVE  /\ Reduced(Imported(cs)[i], Source[i])
             /\ ~ TypeOnly(cs, i) => Imported(cs)[i] = Source[i]
  BY <1>1, ImportedFacts, ImportItemReduced DEF Source
<1>5. ASSUME NEW i \in Methods
      PROVE  /\ Reduced(Imported(cs)[i], Source[i])
             /\ ~ TypeOnly(cs, items[i].parent) => Imported(cs)[i] = Source[i]
  BY <1>1, ImportedFacts, ImportMethodReduced DEF Source
<1>6. DOMAIN Imported(cs) = TopLevel \cup Methods /\ DOMAIN Source = TopLevel \cup Methods
  BY ImportedFacts DEF Source
<1> QED BY <1>2, <1>3, <1>4, <1>5, <1>6

-----------------------------------------------------------------------------
(* The graphs of the two passes and of the documentation *)

First == FilterBy(clauses, list, list)

Kept == DropBodies(Keep(list, First.selection), First.drop)

\* What is so of the graphs when the items have been imported.
Graphs ==
    LET L == DOMAIN list
        G1 == ItemGraph(list, list)
        G2 == ItemGraph(Kept, list)
    IN  /\ IsFiniteSet(L) /\ DOMAIN Source = L /\ DOMAIN SourceGraph = L /\ DOMAIN SignatureGraph = L
        /\ DOMAIN G1 = L /\ DOMAIN G2 = DOMAIN Kept
        /\ DOMAIN Kept = L \cap First.selection /\ IsFiniteSet(DOMAIN Kept)
        /\ \A i \in L : G1[i] \subseteq SourceGraph[i]
        /\ \A i \in DOMAIN Kept : /\ G2[i] \subseteq G1[i]
                                  /\ i \in First.drop => G2[i] \subseteq SignatureGraph[i]
        /\ (\A k \in 1..Len(clauses) : clauses[k].kind # "+:") =>
              /\ \A i \in L : G1[i] = SourceGraph[i]
              /\ \A i \in DOMAIN Kept : i \notin First.drop => G2[i] = SourceGraph[i]

LEMMA GraphsHold ==
    ASSUME Shape(program, items), Companions(program, items, uids), IsSeq(clauses), list = Imported(clauses)
    PROVE  Graphs
<1> DEFINE L == DOMAIN list
           G1 == ItemGraph(list, list)
           G2 == ItemGraph(Kept, list)
           some == Keep(list, First.selection)
           bare == DropBodies(Source, DOMAIN Source)
           Whole == \A k \in 1..Len(clauses) : clauses[k].kind # "+:"
<1>1. /\ IsFiniteSet(L) /\ DOMAIN Source = L
      /\ \A i \in L : Reduced(list[i], Source[i])
      /\ Whole => \A i \in L : list[i] = Source[i]
  BY ImportReduced
<1>2. DOMAIN some = L \cap First.selection /\ \A i \in DOMAIN some : some[i] = list[i]
  BY DEF Keep
<1>3. DOMAIN Kept = DOMAIN some
  BY DEF Kept, DropBodies
<1>4. IsFiniteSet(DOMAIN Kept)
  BY <1>1, <1>2, <1>3, FS_Subset
<1>5. DOMAIN bare = DOMAIN Source
  BY DEF DropBodies
<1>6. /\ DOMAIN SourceGraph = L /\ DOMAIN SignatureGraph = L /\ DOMAIN G1 = L /\ DOMAIN G2 = DOMAIN Kept
      /\ \A i \in L : /\ SourceGraph[i] = Mentions(Source, i) \cup Associated(Source, i)
                      /\ SignatureGraph[i] = Mentions(bare, i) \cup Associated(Source, i)
                      /\ G1[i] = Mentions(list, i) \cup Associated(list, i)
      /\ \A i \in DOMAIN Kept : G2[i] = Mentions(Kept, i) \cup Associated(list, i)
  BY <1>1, <1>5, GraphOfItems DEF SourceGraph, SignatureGraph
<1> HIDE DEF G1, G2, bare, some, Whole
<1>7. ASSUME NEW i \in L
      PROVE  /\ Associated(list, i) \subseteq Associated(Source, i)
             /\ Signature(list, i) \subseteq Signature(Source, i)
             /\ Mentions(list, i) \subseteq Mentions(Source, i)
  BY <1>1, ReducedAssociated, ReducedMentions
<1>8. ASSUME NEW i \in L PROVE Signature(Source, i) \subseteq Mentions(bare, i)
  <2>1. Reduced(Source[i], Source[i])
    BY <1>1, EmptyIsSeq, ImportReduced DEF Source
  <2>2. Signature(bare, i) = Signature(Source, i)
    BY <1>1, <2>1, DropBodiesFacts DEF bare
  <2> QED BY <2>2, MentionsFacts
<1>9. ASSUME NEW i \in DOMAIN Kept
      PROVE  /\ i \in L /\ Mentions(Kept, i) \subseteq Mentions(list, i)
             /\ i \in First.drop => Mentions(Kept, i) = Signature(list, i)
             /\ i \notin First.drop => Mentions(Kept, i) = Mentions(list, i)
  <2>1. i \in DOMAIN some /\ i \in L /\ some[i] = list[i]
    BY <1>2, <1>3
  <2>2. Reduced(some[i], Source[i])
    BY <1>1, <2>1
  <2>3. Mentions(some, i) = Mentions(list, i) /\ Signature(some, i) = Signature(list, i)
    BY <2>1 DEF Mentions, Signature
  <2>4. Kept = DropBodies(some, First.drop)
    BY DEF Kept, some
  <2>5. /\ Mentions(Kept, i) \subseteq Mentions(some, i)
        /\ i \in First.drop => Mentions(Kept, i) = Signature(some, i)
        /\ i \notin First.drop => Kept[i] = some[i]
    BY <2>1, <2>2, <2>4, DropBodiesFacts
  <2>6. Kept[i] = some[i] => Mentions(Kept, i) = Mentions(some, i)
    BY DEF Mentions
  <2> QED BY <2>1, <2>3, <2>5, <2>6
<1>10. ASSUME Whole, NEW i \in L
       PROVE  Mentions(list, i) = Mentions(Source, i) /\ Associated(list, i) = Associated(Source, i)
  <2>1. /\ \A j \in L : list[j] = Source[j]
    BY <1>1, <1>10
  <2>2. Mentions(list, i) = Mentions(Source, i)
    BY <2>1 DEF Mentions
  <2>3. \A j \in L : \A u : HasUid(list, j, u) <=> HasUid(Source, j, u)
    BY <2>1 DEF HasUid
  <2>4. \A attrs : UidAssociatedItems(list, attrs) = UidAssociatedItems(Source, attrs)
    BY <1>1, <2>3 DEF UidAssociatedItems
  <2>5. Associated(list, i) = Associated(Source, i)
    BY <2>1, <2>4 DEF Associated
  <2> QED BY <2>2, <2>5
<1>11. \A i \in L : G1[i] \subseteq SourceGraph[i]
  BY <1>6, <1>7
<1>12. \A i \in DOMAIN Kept : G2[i] \subseteq G1[i]
  BY <1>6, <1>9
<1>13. \A i \in DOMAIN Kept : i \in First.drop => G2[i] \subseteq SignatureGraph[i]
  BY <1>6, <1>7, <1>8, <1>9
<1>14. ASSUME Whole, NEW i \in L PROVE G1[i] = SourceGraph[i]
  BY <1>6, <1>10, <1>14
<1>15. Whole => \A i \in DOMAIN Kept : i \notin First.drop => G2[i] = SourceGraph[i]
  BY <1>6, <1>9, <1>10
<1> QED BY <1>1, <1>2, <1>3, <1>4, <1>6, <1>11, <1>12, <1>13, <1>14, <1>15 DEF Graphs, G1, G2, Whole

-----------------------------------------------------------------------------
(* The two passes, side by side with the documentation *)

LEMMA IncludedStep ==
    ASSUME NEW included, Included(included), NEW n \in 1..Len(clauses)
    PROVE  LET c == clauses[n]
               matched == Matched(list, c)
           IN  /\ c.kind = "+" =>
                     included[n] = included[n - 1] \cup TransitiveDependencies(SourceGraph, matched)
               /\ c.kind = "+~" => included[n] = included[n - 1] \cup matched \cup Successors(SourceGraph, matched)
               /\ c.kind \in {"+!", "+:"} => included[n] = included[n - 1] \cup matched
               /\ c.kind = "-" => included[n] = included[n - 1] \ matched
<1> DEFINE c == clauses[n]
           matched == Matched(list, c)
           S == included[n - 1]
           graph == SourceGraph
<1>1. included[n] = DocumentedBy(S, c)
  BY DEF Included
<1>2. DocumentedBy(S, c) = CASE c.kind = "+" -> S \cup TransitiveDependencies(graph, matched)
                             [] c.kind = "+~" -> S \cup matched \cup Successors(graph, matched)
                             [] c.kind \in {"+!", "+:"} -> S \cup matched
                             [] c.kind = "-" -> S \ matched
  BY DEF DocumentedBy, Matched
<1> HIDE DEF c, matched, S, graph
<1>3. /\ c.kind = "+" => included[n] = S \cup TransitiveDependencies(graph, matched)
      /\ c.kind = "+~" => included[n] = S \cup matched \cup Successors(graph, matched)
      /\ c.kind \in {"+!", "+:"} => included[n] = S \cup matched
      /\ c.kind = "-" => included[n] = S \ matched
  BY <1>1, <1>2
<1> QED BY <1>3 DEF c, matched, S, graph

\* One after the other, the clauses; the first pass, the second one, and what is
\* documented.
Passes(first, second, included) ==
    /\ Graphs /\ Len(clauses) \in Nat
    /\ \A n \in 1..Len(clauses) : clauses[n].kind \in ClauseKinds
    /\ Filtered(clauses, list, list, first) /\ Filtered(clauses, Kept, list, second)
    /\ Included(included)
    /\ Deps = {k \in 1..Len(clauses) : clauses[k].kind \in {"+", "+~"}}
    /\ DOMAIN clauses = 1..Len(clauses)

LEMMA PassesExist ==
    ASSUME Shape(program, items), Companions(program, items, uids), IsSeq(clauses), list = Imported(clauses),
           \A n \in 1..Len(clauses) : clauses[n].kind \in ClauseKinds
    PROVE  \E first, second, included : Passes(first, second, included)
<1>1. DOMAIN clauses = 1..Len(clauses) /\ Len(clauses) \in Nat
  BY SeqElements
<1>2. Graphs
  BY GraphsHold
<1>3. IsFiniteSet(DOMAIN list) /\ DOMAIN Source = DOMAIN list /\ IsFiniteSet(DOMAIN Kept)
  BY <1>2 DEF Graphs
<1>4. PICK first : Filtered(clauses, list, list, first)
  BY <1>1, <1>3, FilteredExists
<1>5. PICK second : Filtered(clauses, Kept, list, second)
  BY <1>1, <1>3, FilteredExists
<1>6. PICK included : Included(included)
  BY <1>1, <1>3, IncludedExists
<1>7. Deps = {k \in 1..Len(clauses) : clauses[k].kind \in {"+", "+~"}}
  BY <1>1 DEF Deps
<1> QED BY <1>1, <1>2, <1>4, <1>5, <1>6, <1>7 DEF Passes

LEMMA PassesFacts ==
    ASSUME NEW first, NEW second, NEW included, Passes(first, second, included)
    PROVE  LET N == Len(clauses)
           IN  /\ first[0] = [selection |-> DOMAIN list, drop |-> {}] /\ First = first[N]
               /\ second[0].selection = DOMAIN Kept /\ Selected = second[N].selection \cap DOMAIN Kept
               /\ included[0] = DOMAIN list /\ Documented = included[N]
<1>1. first[0] = [selection |-> DOMAIN list, drop |-> {}] /\ First = first[Len(clauses)]
  BY DEF Passes, Filtered, First
<1>2. second[0] = [selection |-> DOMAIN Kept, drop |-> {}] /\ FilterBy(clauses, Kept, list) = second[Len(clauses)]
  BY DEF Passes, Filtered
<1>3. Selected = FilterBy(clauses, Kept, list).selection \cap DOMAIN Kept
  BY DEF Selected, FilterByInclusionClauses, Kept, First
<1>4. second[0].selection = DOMAIN Kept
  BY <1>2
<1> QED BY <1>1, <1>2, <1>3, <1>4 DEF Passes, Included

\* An item matches in the second pass when it does in the first and is kept.
LEMMA MatchedFacts ==
    ASSUME Graphs, NEW c
    PROVE  /\ Matched(Kept, c) = Matched(list, c) \cap DOMAIN Kept /\ Matched(list, c) \subseteq DOMAIN list
           /\ DOMAIN Kept \subseteq DOMAIN list
BY DEF Graphs, Matched

\* What a clause reaches in a pass, it reaches in the documentation.
LEMMA LessIsReached ==
    ASSUME Graphs, NEW S
    PROVE  /\ TransitiveDependencies(ItemGraph(Kept, list), S \cap DOMAIN Kept)
                \subseteq TransitiveDependencies(ItemGraph(list, list), S)
           /\ TransitiveDependencies(ItemGraph(list, list), S) \subseteq TransitiveDependencies(SourceGraph, S)
<1> DEFINE G0 == SourceGraph
           G1 == ItemGraph(list, list)
           G2 == ItemGraph(Kept, list)
<1>1. /\ IsFiniteSet(DOMAIN G0) /\ IsFiniteSet(DOMAIN G1) /\ IsFiniteSet(DOMAIN G2)
      /\ DOMAIN G2 \subseteq DOMAIN G1 /\ DOMAIN G1 \subseteq DOMAIN G0
      /\ \A i \in DOMAIN G2 : G2[i] \subseteq G1[i]
      /\ \A i \in DOMAIN G1 : G1[i] \subseteq G0[i]
  BY DEF Graphs
<1> HIDE DEF G0, G1, G2
<1>2. TransitiveDependencies(G2, S \cap DOMAIN Kept) \subseteq TransitiveDependencies(G1, S)
  <2>1. S \cap DOMAIN Kept \subseteq S
    OBVIOUS
  <2> QED BY <1>1, <2>1, ReachesMore
<1>3. TransitiveDependencies(G1, S) \subseteq TransitiveDependencies(G0, S)
  BY <1>1, ReachesMore
<1> QED BY <1>2, <1>3 DEF G0, G1, G2

\* A clause in both passes and in the documentation.
SideBySide(first, second, included, n) ==
    LET c == clauses[n]
        K == DOMAIN Kept
        matched == Matched(list, c)
        R0 == TransitiveDependencies(SourceGraph, matched)
        R1 == TransitiveDependencies(ItemGraph(list, list), matched)
        R2 == TransitiveDependencies(ItemGraph(Kept, list), matched \cap K)
    IN  /\ c.kind \in ClauseKinds
        /\ c.kind = "+" => /\ first[n].selection = first[n - 1].selection \cup R1
                           /\ second[n].selection = second[n - 1].selection \cup R2
                           /\ included[n] = included[n - 1] \cup R0
        /\ c.kind = "+~" => /\ first[n].selection = first[n - 1].selection \cup R1
                            /\ second[n].selection = second[n - 1].selection \cup R2
                            /\ included[n] = included[n - 1] \cup matched \cup Successors(SourceGraph, matched)
                            /\ first[n].drop = (first[n - 1].drop \cup R1) \ matched
        /\ c.kind \in {"+!", "+:"} => /\ first[n].selection = first[n - 1].selection \cup matched
                                      /\ second[n].selection = second[n - 1].selection \cup (matched \cap K)
                                      /\ included[n] = included[n - 1] \cup matched
        /\ c.kind = "-" => /\ first[n].selection = first[n - 1].selection \ matched
                           /\ second[n].selection = second[n - 1].selection \ (matched \cap K)
                           /\ included[n] = included[n - 1] \ matched
        /\ c.kind \notin {"+~", "+:"} => first[n].drop = first[n - 1].drop
        /\ matched \subseteq DOMAIN list /\ K \subseteq DOMAIN list
        /\ matched \subseteq R0 /\ matched \subseteq R1 /\ matched \cap K \subseteq R2
        /\ R2 \subseteq R1 /\ R1 \subseteq R0

LEMMA SideBySideHolds ==
    ASSUME NEW first, NEW second, NEW included, Passes(first, second, included), NEW n \in 1..Len(clauses)
    PROVE  SideBySide(first, second, included, n)
<1> DEFINE c == clauses[n]
           K == DOMAIN Kept
           matched == Matched(list, c)
           G0 == SourceGraph
           G1 == ItemGraph(list, list)
           G2 == ItemGraph(Kept, list)
           R0 == TransitiveDependencies(G0, matched)
           R1 == TransitiveDependencies(G1, matched)
           R2 == TransitiveDependencies(G2, matched \cap K)
<1>1. Graphs /\ c.kind \in ClauseKinds
  BY DEF Passes
<1>2. /\ Matched(Kept, c) = matched \cap K /\ matched \subseteq DOMAIN list /\ K \subseteq DOMAIN list
  BY <1>1, MatchedFacts
<1>3. IsFiniteSet(DOMAIN G0) /\ IsFiniteSet(DOMAIN G1) /\ IsFiniteSet(DOMAIN G2)
  BY <1>1 DEF Graphs
<1>4. matched \subseteq R0 /\ matched \subseteq R1 /\ matched \cap K \subseteq R2
  <2> HIDE DEF G0, G1, G2, matched
  <2> QED BY <1>3, ReachedIsClosed
<1>5. R2 \subseteq R1 /\ R1 \subseteq R0
  BY <1>1, LessIsReached
<1>6. /\ c.kind \in {"+", "+~"} => first[n].selection = first[n - 1].selection \cup R1
      /\ c.kind \in {"+!", "+:"} => first[n].selection = first[n - 1].selection \cup matched
      /\ c.kind = "-" => first[n].selection = first[n - 1].selection \ matched
      /\ c.kind = "+~" => first[n].drop = (first[n - 1].drop \cup R1) \ matched
      /\ c.kind \notin {"+~", "+:"} => first[n].drop = first[n - 1].drop
  BY FilteredStep DEF Passes
<1>7. /\ c.kind \in {"+", "+~"} => second[n].selection = second[n - 1].selection \cup R2
      /\ c.kind \in {"+!", "+:"} => second[n].selection = second[n - 1].selection \cup (matched \cap K)
      /\ c.kind = "-" => second[n].selection = second[n - 1].selection \ (matched \cap K)
  <2>1. LET M == Matched(Kept, c)
            reached == TransitiveDependencies(G2, M)
        IN  /\ c.kind \in {"+", "+~"} => second[n].selection = second[n - 1].selection \cup reached
            /\ c.kind \in {"+!", "+:"} => second[n].selection = second[n - 1].selection \cup M
            /\ c.kind = "-" => second[n].selection = second[n - 1].selection \ M
    BY FilteredStep DEF Passes
  <2> HIDE DEF c, K, matched, G2
  <2> QED BY <1>2, <2>1
<1>8. /\ c.kind = "+" => included[n] = included[n - 1] \cup R0
      /\ c.kind = "+~" => included[n] = included[n - 1] \cup matched \cup Successors(G0, matched)
      /\ c.kind \in {"+!", "+:"} => included[n] = included[n - 1] \cup matched
      /\ c.kind = "-" => included[n] = included[n - 1] \ matched
  BY IncludedStep DEF Passes
<1> HIDE DEF c, K, matched, R0, R1, R2, G0
<1>9. /\ c.kind = "+" => /\ first[n].selection = first[n - 1].selection \cup R1
                         /\ second[n].selection = second[n - 1].selection \cup R2
                         /\ included[n] = included[n - 1] \cup R0
      /\ c.kind = "+~" => /\ first[n].selection = first[n - 1].selection \cup R1
                          /\ second[n].selection = second[n - 1].selection \cup R2
                          /\ included[n] = included[n - 1] \cup matched \cup Successors(G0, matched)
                          /\ first[n].drop = (first[n - 1].drop \cup R1) \ matched
      /\ c.kind \in {"+!", "+:"} => /\ first[n].selection = first[n - 1].selection \cup matched
                                    /\ second[n].selection = second[n - 1].selection \cup (matched \cap K)
                                    /\ included[n] = included[n - 1] \cup matched
      /\ c.kind = "-" => /\ first[n].selection = first[n - 1].selection \ matched
                         /\ second[n].selection = second[n - 1].selection \ (matched \cap K)
                         /\ included[n] = included[n - 1] \ matched
  BY <1>6, <1>7, <1>8
<1> QED BY <1>1, <1>2, <1>4, <1>5, <1>6, <1>9 DEF SideBySide, c, K, matched, R0, R1, R2, G0, G1, G2

\* What is documented once a `+~` took dependencies stays, if nothing is excluded after it.
LEMMA StaysDocumented ==
    ASSUME NEW first, NEW second, NEW included, Passes(first, second, included),
           NEW k \in 1..Len(clauses), clauses[k].kind # "-",
           \A l \in 1..Len(clauses) : k < l => clauses[l].kind # "-",
           NEW l \in (k - 1)..Len(clauses)
    PROVE  included[l] \subseteq Documented
<1> DEFINE N == Len(clauses)
           Stays == {n \in 0..N : l <= n => included[l] \subseteq included[n]}
<1>1. N \in Nat
  BY DEF Passes
<1>2. \A n \in 1..N : SideBySide(first, second, included, n)
  BY SideBySideHolds
<1>3. 0 \in Stays
  BY <1>1
<1>4. ASSUME NEW n \in 0..(N - 1), n \in Stays PROVE n + 1 \in Stays
  <2>1. n + 1 \in 1..N /\ n + 1 \in 0..N /\ (n + 1) - 1 = n
    BY <1>1
  <2>2. CASE l <= n
    <3>1. clauses[n + 1].kind # "-"
      BY <2>1, <2>2
    <3>2. included[n] \subseteq included[n + 1]
      <4>1. clauses[n + 1].kind \in ClauseKinds
        BY <2>1 DEF Passes
      <4> QED BY <1>2, <2>1, <3>1, <4>1 DEF SideBySide, ClauseKinds
    <3> QED BY <1>4, <2>1, <2>2, <3>2
  <2>3. CASE ~ (l <= n)
    BY <1>1, <2>1, <2>3
  <2> QED BY <2>2, <2>3
<1>5. 0..N \subseteq Stays
  <2> HIDE DEF Stays, N
  <2> QED BY <1>1, <1>3, <1>4, IntervalInduction
<1>6. N \in Stays
  BY <1>1, <1>5
<1>7. Documented = included[N]
  BY PassesFacts
<1> QED BY <1>1, <1>6, <1>7

\* The body of what a `+~` reaches is dropped for good, unless a `+~` matches it.
LEMMA StaysDropped ==
    ASSUME NEW first, NEW second, NEW included, Passes(first, second, included),
           NEW k \in 1..Len(clauses), clauses[k].kind = "+~",
           \A l \in 1..Len(clauses) : k < l => clauses[l].kind # "+:",
           NEW i \in TransitiveDependencies(ItemGraph(list, list), Matched(list, clauses[k]))
    PROVE  \/ i \in First.drop
           \/ \E l \in k..Len(clauses) : clauses[l].kind = "+~" /\ i \in Matched(list, clauses[l])
<1> DEFINE N == Len(clauses)
           Again(n) == \E l \in k..n : clauses[l].kind = "+~" /\ i \in Matched(list, clauses[l])
           Stays == {n \in 0..N : k <= n => i \in first[n].drop \/ Again(n)}
<1>1. N \in Nat
  BY DEF Passes
<1>2. \A n \in 1..N : SideBySide(first, second, included, n)
  BY SideBySideHolds
<1>3. 0 \in Stays
  BY <1>1
<1>4. ASSUME NEW n \in 0..(N - 1), n \in Stays PROVE n + 1 \in Stays
  <2> DEFINE q == n + 1
             matched == Matched(list, clauses[q])
  <2>1. q \in 1..N /\ q \in 0..N /\ q - 1 = n
    BY <1>1
  <2>2. CASE k = q
    <3>1. first[q].drop = (first[q - 1].drop
                              \cup TransitiveDependencies(ItemGraph(list, list), matched)) \ matched
      BY <1>2, <2>1, <2>2 DEF SideBySide
    <3>2. k \in k..q
      BY <2>2
    <3>3. i \in first[q].drop \/ Again(q)
      BY <2>2, <3>1, <3>2
    <3> QED BY <2>1, <3>3
  <2>3. CASE k <= n
    <3>1. i \in first[n].drop \/ Again(n)
      BY <1>4, <2>3
    <3>2. clauses[q].kind # "+:"
      BY <2>1, <2>3
    <3>3. Again(n) => Again(q)
      BY <2>1
    <3>4. CASE clauses[q].kind = "+~"
      <4>1. first[q].drop = (first[q - 1].drop
                                \cup TransitiveDependencies(ItemGraph(list, list), matched)) \ matched
        BY <1>2, <2>1, <3>4 DEF SideBySide
      <4>2. q \in k..q
        BY <2>1, <2>3
      <4>3. i \in first[n].drop => i \in first[q].drop \/ Again(q)
        BY <2>1, <3>4, <4>1, <4>2
      <4>4. i \in first[q].drop \/ Again(q)
        BY <3>1, <3>3, <4>3
      <4> QED BY <2>1, <4>4
    <3>5. CASE clauses[q].kind # "+~"
      <4>1. first[q].drop = first[q - 1].drop
        BY <1>2, <2>1, <3>2, <3>5 DEF SideBySide
      <4>2. i \in first[q].drop \/ Again(q)
        BY <2>1, <3>1, <3>3, <4>1
      <4> QED BY <2>1, <4>2
    <3> QED BY <3>4, <3>5
  <2>4. CASE k > q
    BY <1>1, <2>1, <2>4
  <2> QED BY <1>1, <2>1, <2>2, <2>3, <2>4
<1>5. 0..N \subseteq Stays
  <2> HIDE DEF Stays, N
  <2> QED BY <1>1, <1>3, <1>4, IntervalInduction
<1>6. N \in Stays
  BY <1>1, <1>5
<1>7. First = first[N]
  BY PassesFacts
<1> QED BY <1>1, <1>6, <1>7

\* What the second pass reaches from a `+~` is documented, or reached from what is
\* without going through a body.
LEMMA ShallowReaches ==
    ASSUME NEW first, NEW second, NEW included, Passes(first, second, included),
           NEW k \in 1..Len(clauses), clauses[k].kind = "+~",
           \A l \in 1..Len(clauses) : k < l => clauses[l].kind \notin {"-", "+:"}
    PROVE  TransitiveDependencies(ItemGraph(Kept, list), Matched(list, clauses[k]) \cap DOMAIN Kept)
             \subseteq TransitiveDependencies(SignatureGraph, Documented)
<1> DEFINE N == Len(clauses)
           K == DOMAIN Kept
           matched == Matched(list, clauses[k])
           G1 == ItemGraph(list, list)
           G2 == ItemGraph(Kept, list)
           R1 == TransitiveDependencies(G1, matched)
           R == TransitiveDependencies(G2, matched \cap K)
           T == TransitiveDependencies(SignatureGraph, Documented)
           X == R \cap T
<1>1. N \in Nat /\ Graphs
  BY DEF Passes
<1>2. /\ DOMAIN SignatureGraph = DOMAIN list /\ IsFiniteSet(DOMAIN SignatureGraph)
      /\ DOMAIN G2 = K /\ IsFiniteSet(DOMAIN G2) /\ K \subseteq DOMAIN list
      /\ \A i \in K : G2[i] \subseteq G1[i] /\ G1[i] \subseteq SourceGraph[i]
      /\ \A i \in K : i \in First.drop => G2[i] \subseteq SignatureGraph[i]
      /\ DOMAIN SourceGraph = DOMAIN list
  BY <1>1 DEF Graphs
<1>3. Documented \subseteq T /\ \A i \in T \cap DOMAIN SignatureGraph : SignatureGraph[i] \subseteq T
  BY <1>2, ReachedIsClosed
<1>4. matched \cap K \subseteq R /\ \A i \in R \cap DOMAIN G2 : G2[i] \subseteq R
  <2> HIDE DEF G2, matched, K
  <2> QED BY <1>2, ReachedIsClosed
<1>5. R \subseteq R1 /\ matched \subseteq DOMAIN list
  <2>1. SideBySide(first, second, included, k)
    BY SideBySideHolds
  <2> QED BY <2>1 DEF SideBySide
<1>6. ASSUME NEW l \in k..N, clauses[l].kind = "+~"
      PROVE  /\ Matched(list, clauses[l]) \subseteq Documented
             /\ \A i \in Matched(list, clauses[l]) : SourceGraph[i] \subseteq Documented
  <2>1. l \in 1..N /\ l \in (l - 1)..N
    BY <1>1
  <2>2. SideBySide(first, second, included, l)
    BY <2>1, SideBySideHolds
  <2>3. included[l] \subseteq Documented
    <3>1. clauses[l].kind # "-" /\ \A q \in 1..N : l < q => clauses[q].kind # "-"
      BY <1>1, <1>6
    <3> QED BY <2>1, <3>1, StaysDocumented
  <2>4. /\ Matched(list, clauses[l]) \subseteq included[l] /\ Matched(list, clauses[l]) \subseteq DOMAIN list
        /\ Successors(SourceGraph, Matched(list, clauses[l])) \subseteq included[l]
    BY <1>6, <2>2 DEF SideBySide
  <2>5. \A i \in Matched(list, clauses[l]) : SourceGraph[i] \subseteq Successors(SourceGraph, Matched(list, clauses[l]))
    BY <1>2, <2>4 DEF Successors
  <2> QED BY <2>3, <2>4, <2>5
<1>7. matched \subseteq T
  <2>1. k \in k..N
    BY <1>1
  <2> QED BY <1>3, <1>6, <2>1
<1>8. matched \cap K \subseteq X
  BY <1>4, <1>7
<1>9. ASSUME NEW i \in X \cap DOMAIN G2 PROVE G2[i] \subseteq X
  <2>1. i \in K /\ G2[i] \subseteq R /\ i \in R1
    BY <1>2, <1>4, <1>5, <1>9
  <2>2. CASE i \in First.drop
    BY <1>2, <1>3, <1>9, <2>1, <2>2
  <2>3. CASE \E l \in k..N : clauses[l].kind = "+~" /\ i \in Matched(list, clauses[l])
    <3>1. SourceGraph[i] \subseteq Documented
      BY <1>6, <2>3
    <3> QED BY <1>2, <1>3, <2>1, <3>1
  <2>4. i \in First.drop \/ \E l \in k..N : clauses[l].kind = "+~" /\ i \in Matched(list, clauses[l])
    <3>1. \A l \in 1..N : k < l => clauses[l].kind # "+:"
      OBVIOUS
    <3> QED BY <2>1, <3>1, StaysDropped
  <2> QED BY <2>2, <2>3, <2>4
<1>10. R \subseteq X
  <2> HIDE DEF G2, X, matched, K
  <2> QED BY <1>2, <1>8, <1>9, ReachedInside
<1> QED BY <1>10

LEMMA NothingExtraHolds ==
    ASSUME NEW first, NEW second, NEW included, Passes(first, second, included), FinalShallow
    PROVE  Selected \subseteq TransitiveDependencies(SignatureGraph, Documented)
<1> DEFINE N == Len(clauses)
           K == DOMAIN Kept
           T == TransitiveDependencies(SignatureGraph, Documented)
           Shallow(n) == \E k \in 1..n : clauses[k].kind = "+~"
           Explained == {n \in 0..N : second[n].selection \cap K \subseteq IF Shallow(n) THEN T ELSE included[n]}
<1>1. N \in Nat /\ Graphs /\ DOMAIN clauses = 1..N
  BY DEF Passes
<1>2. \A n \in 1..N : SideBySide(first, second, included, n)
  BY SideBySideHolds
<1>3. Documented \subseteq T
  <2>1. IsFiniteSet(DOMAIN SignatureGraph)
    BY <1>1 DEF Graphs
  <2> QED BY <2>1, ReachedIsClosed
<1>4. \A k, l \in 1..N : clauses[k].kind = "+~" /\ k < l => clauses[l].kind \notin {"-", "+:"}
  BY <1>1 DEF FinalShallow
<1>5. ASSUME NEW n \in 1..N, Shallow(n), NEW l \in 0..N, l = n \/ (l = n - 1 /\ clauses[n].kind # "-")
      PROVE  clauses[n].kind # "-" /\ included[l] \subseteq T
  <2>1. PICK k \in 1..n : clauses[k].kind = "+~"
    BY <1>5
  <2>2. clauses[n].kind # "-" /\ \A q \in 1..N : n < q => clauses[q].kind # "-"
    <3>1. k \in 1..N /\ k \in Nat /\ n \in Nat /\ k <= n
      BY <1>1, <2>1
    <3>2. k = n \/ k < n
      BY <3>1
    <3> QED BY <1>1, <1>4, <2>1, <3>1, <3>2
  <2>3. l \in (n - 1)..N
    BY <1>1, <1>5
  <2>4. included[l] \subseteq Documented
    BY <2>2, <2>3, StaysDocumented
  <2> QED BY <1>3, <2>2, <2>4
<1>6. 0 \in Explained
  <2>1. second[0].selection = K /\ included[0] = DOMAIN list /\ K \subseteq DOMAIN list /\ 0 \in 0..N
    BY <1>1, PassesFacts, MatchedFacts
  <2>2. ~ Shallow(0)
    OBVIOUS
  <2> HIDE DEF Shallow, T, K
  <2> QED BY <2>1, <2>2
<1>7. ASSUME NEW n \in 0..(N - 1), n \in Explained PROVE n + 1 \in Explained
  <2> DEFINE q == n + 1
             c == clauses[q]
             matched == Matched(list, c)
             R0 == TransitiveDependencies(SourceGraph, matched)
             R2 == TransitiveDependencies(ItemGraph(Kept, list), matched \cap K)
             S == second[n].selection
             S1 == second[q].selection
             D == included[n]
             D1 == included[q]
  <2>1. q \in 1..N /\ q \in 0..N /\ q - 1 = n /\ n \in 0..N
    BY <1>1
  <2>2. SideBySide(first, second, included, q)
    BY <1>2, <2>1
  <2>3. /\ c.kind \in ClauseKinds
        /\ c.kind = "+" => S1 = S \cup R2 /\ D1 = D \cup R0
        /\ c.kind = "+~" => S1 = S \cup R2
        /\ c.kind \in {"+!", "+:"} => S1 = S \cup (matched \cap K) /\ D1 = D \cup matched
        /\ c.kind = "-" => S1 = S \ (matched \cap K) /\ D1 = D \ matched
        /\ R2 \subseteq R0
    BY <2>1, <2>2 DEF SideBySide
  <2>4. Shallow(q) <=> Shallow(n) \/ c.kind = "+~"
    <3>1. \A k : k \in 1..q <=> k \in 1..n \/ k = q
      BY <1>1, <2>1
    <3> QED BY <3>1
  <2>5. S \cap K \subseteq IF Shallow(n) THEN T ELSE D
    BY <1>7
  <2>6. CASE ~ Shallow(q)
    <3>1. c.kind # "+~" /\ S \cap K \subseteq D
      BY <2>4, <2>5, <2>6
    <3> HIDE DEF K, S, S1, D, D1, matched, R0, R2, c, Shallow
    <3>2. S1 \cap K \subseteq D1
      BY <2>3, <3>1 DEF ClauseKinds
    <3> HIDE DEF q
    <3> QED BY <2>1, <2>6, <3>2 DEF S1, D1
  <2>7. CASE Shallow(q)
    <3>1. c.kind # "-" /\ D1 \subseteq T
      BY <1>5, <2>1, <2>7
    <3>2. D \subseteq T
      BY <1>5, <2>1, <2>7, <3>1
    <3>3. S \cap K \subseteq T
      <4> HIDE DEF S, K, T, D, Shallow
      <4> QED BY <2>5, <3>2
    <3>4. c.kind = "+~" => R2 \subseteq T
      <4>1. c.kind = "+~" => \A l \in 1..N : q < l => clauses[l].kind \notin {"-", "+:"}
        BY <1>4, <2>1
      <4> QED BY <2>1, <4>1, ShallowReaches
    <3> HIDE DEF K, S, S1, D, D1, matched, R0, R2, c, Shallow, T
    <3>5. S1 \cap K \subseteq T
      BY <2>3, <3>1, <3>3, <3>4 DEF ClauseKinds
    <3> HIDE DEF q
    <3> QED BY <2>1, <2>7, <3>5 DEF S1
  <2> QED BY <2>6, <2>7
<1>8. 0..N \subseteq Explained
  <2> HIDE DEF Explained, N
  <2> QED BY <1>1, <1>6, <1>7, IntervalInduction
<1>9. N \in Explained
  BY <1>1, <1>8
<1>10. Selected = second[N].selection \cap K /\ Documented = included[N]
  BY PassesFacts
<1> QED BY <1>3, <1>9, <1>10

-----------------------------------------------------------------------------
(* Nothing is missing *)

\* What is documented is selected by the first pass, and kept for the second.
LEMMA IncludedIsKept ==
    ASSUME NEW first, NEW second, NEW included, Passes(first, second, included), Independent
    PROVE  Documented \cap DOMAIN list \subseteq DOMAIN Kept
<1> DEFINE N == Len(clauses)
           L == DOMAIN list
           Caught == {n \in 0..N : included[n] \cap L \subseteq first[n].selection}
<1>1. N \in Nat /\ Graphs
  BY DEF Passes
<1>2. \A n \in 1..N : SideBySide(first, second, included, n)
  BY SideBySideHolds
<1>3. 0 \in Caught
  BY <1>1, PassesFacts
<1>4. ASSUME NEW n \in 0..(N - 1), n \in Caught PROVE n + 1 \in Caught
  <2> DEFINE q == n + 1
             c == clauses[q]
             matched == Matched(list, c)
             G0 == SourceGraph
             G1 == ItemGraph(list, list)
             R0 == TransitiveDependencies(G0, matched)
             R1 == TransitiveDependencies(G1, matched)
             S == first[n].selection
             S1 == first[q].selection
             D == included[n]
             D1 == included[q]
  <2>1. q \in 1..N /\ q \in 0..N /\ q - 1 = n
    BY <1>1
  <2>2. /\ c.kind \in ClauseKinds
        /\ c.kind = "+" => S1 = S \cup R1 /\ D1 = D \cup R0
        /\ c.kind = "+~" => S1 = S \cup R1 /\ D1 = D \cup matched \cup Successors(G0, matched)
        /\ c.kind \in {"+!", "+:"} => S1 = S \cup matched /\ D1 = D \cup matched
        /\ c.kind = "-" => S1 = S \ matched /\ D1 = D \ matched
        /\ matched \subseteq R0
    BY <1>2, <2>1 DEF SideBySide
  <2>3. D \cap L \subseteq S
    BY <1>4
  <2>4. ASSUME c.kind \in {"+", "+~"} PROVE R0 \subseteq R1 /\ Successors(G0, matched) \subseteq R1
    <3>1. \A k \in 1..N : clauses[k].kind # "+:"
      <4>1. q \in Deps /\ DOMAIN clauses = 1..N
        BY <2>1, <2>4 DEF Passes
      <4> QED BY <4>1 DEF Independent
    <3>2. /\ DOMAIN G0 = L /\ DOMAIN G1 = L /\ IsFiniteSet(DOMAIN G0) /\ IsFiniteSet(DOMAIN G1)
          /\ \A i \in L : G0[i] \subseteq G1[i]
      BY <1>1, <3>1 DEF Graphs
    <3> HIDE DEF G0, G1, matched
    <3>3. R0 \subseteq R1
      BY <3>2, ReachesMore
    <3>4. Successors(G0, matched) \subseteq R0
      BY <3>2, ReachedIsClosed DEF Successors
    <3> QED BY <3>3, <3>4
  <2> HIDE DEF S, S1, D, D1, matched, R0, R1, c, G0, L
  <2>5. D1 \cap L \subseteq S1
    BY <2>2, <2>3, <2>4 DEF ClauseKinds
  <2> HIDE DEF q
  <2> QED BY <2>1, <2>5 DEF S1, D1
<1>5. 0..N \subseteq Caught
  <2> HIDE DEF Caught, N
  <2> QED BY <1>1, <1>3, <1>4, IntervalInduction
<1>6. N \in Caught
  BY <1>1, <1>5
<1>7. First = first[N] /\ Documented = included[N] /\ DOMAIN Kept = L \cap First.selection
  BY <1>1, PassesFacts DEF Graphs
<1> QED BY <1>6, <1>7

\* A `+` keeps every body, and a `+~` those of what it matches.
LEMMA NotDropped ==
    ASSUME NEW first, NEW second, NEW included, Passes(first, second, included), Independent, NEW k \in Deps
    PROVE  /\ clauses[k].kind = "+" => First.drop = {}
           /\ clauses[k].kind = "+~" => First.drop \cap Matched(list, clauses[k]) = {}
<1> DEFINE N == Len(clauses)
           matched == Matched(list, clauses[k])
           Whole(n) == /\ clauses[k].kind = "+" => first[n].drop = {}
                       /\ clauses[k].kind = "+~" => first[n].drop \cap matched = {}
           Good == {n \in 0..N : Whole(n)}
<1>1. N \in Nat /\ Graphs /\ DOMAIN clauses = 1..N /\ k \in 1..N /\ clauses[k].kind \in {"+", "+~"}
      /\ \A l \in 1..N : clauses[l].kind = "+~" => l \in Deps
  BY DEF Passes
<1>2. /\ \A l \in 1..N : clauses[l].kind # "+:"
      /\ \A l \in 1..N : clauses[l].kind = "+~" => l = k
  <2>1. \A l \in Deps : clauses[l].kind = "+~" => Deps = {l}
    BY DEF Independent
  <2> QED BY <1>1, <2>1 DEF Independent
<1>3. 0 \in Good
  <2>1. first[0] = [selection |-> DOMAIN list, drop |-> {}]
    BY PassesFacts
  <2> QED BY <1>1, <2>1
<1>4. ASSUME NEW n \in 0..(N - 1), n \in Good PROVE n + 1 \in Good
  <2> DEFINE q == n + 1
  <2>1. q \in 1..N /\ q \in 0..N /\ q - 1 = n
    BY <1>1
  <2>2. SideBySide(first, second, included, q)
    BY <2>1, SideBySideHolds
  <2>3. CASE clauses[q].kind # "+~"
    <3>1. first[q].drop = first[n].drop
      BY <1>2, <2>1, <2>2, <2>3 DEF SideBySide
    <3> QED BY <1>4, <2>1, <3>1
  <2>4. CASE clauses[q].kind = "+~"
    <3>1. q = k
      BY <1>2, <2>1, <2>4
    <3>2. first[q].drop \cap matched = {}
      BY <2>2, <2>4, <3>1 DEF SideBySide
    <3> QED BY <2>1, <2>4, <3>1, <3>2
  <2> QED BY <2>3, <2>4
<1>5. 0..N \subseteq Good
  <2> HIDE DEF Good, N
  <2> QED BY <1>1, <1>3, <1>4, IntervalInduction
<1>6. N \in Good
  BY <1>1, <1>5
<1>7. First = first[N]
  BY PassesFacts
<1> QED BY <1>6, <1>7

\* What a clause takes the dependencies of is reached in the second pass too.
LEMMA DependenciesAreReached ==
    ASSUME NEW first, NEW second, NEW included, Passes(first, second, included), Independent, NEW k \in Deps
    PROVE  LET matched == Matched(list, clauses[k])
               R2 == TransitiveDependencies(ItemGraph(Kept, list), matched \cap DOMAIN Kept)
           IN  /\ matched \subseteq R2
               /\ clauses[k].kind = "+" => TransitiveDependencies(SourceGraph, matched) \subseteq R2
               /\ clauses[k].kind = "+~" => Successors(SourceGraph, matched) \subseteq R2
<1> DEFINE N == Len(clauses)
           L == DOMAIN list
           K == DOMAIN Kept
           matched == Matched(list, clauses[k])
           G0 == SourceGraph
           G2 == ItemGraph(Kept, list)
           R0 == TransitiveDependencies(G0, matched)
           R2 == TransitiveDependencies(G2, matched \cap K)
           X == R0 \cap R2
<1>1. N \in Nat /\ Graphs /\ DOMAIN clauses = 1..N /\ k \in 1..N /\ clauses[k].kind \in {"+", "+~"}
  BY DEF Passes
<1>2. (\A l \in 1..N : clauses[l].kind # "+:") /\ \A l \in 1..N : k < l => clauses[l].kind # "-"
  BY <1>1 DEF Independent
<1>3. /\ DOMAIN G0 = L /\ IsFiniteSet(DOMAIN G0) /\ DOMAIN G2 = K /\ IsFiniteSet(DOMAIN G2)
      /\ \A i \in K : i \notin First.drop => G2[i] = G0[i]
  BY <1>1, <1>2 DEF Graphs
<1>4. SideBySide(first, second, included, k)
  BY <1>1, SideBySideHolds
<1>5. matched \subseteq included[k] /\ matched \subseteq L /\ matched \subseteq R0
  BY <1>1, <1>4 DEF SideBySide
<1>6. included[k] \cap L \subseteq K
  <2>1. k \in (k - 1)..N
    BY <1>1
  <2>2. included[k] \subseteq Documented
    BY <1>1, <1>2, <2>1, StaysDocumented
  <2> QED BY <2>2, IncludedIsKept
<1>7. matched \subseteq K /\ matched \cap K = matched
  BY <1>5, <1>6
<1>8. matched \subseteq R2 /\ \A i \in R2 \cap K : G2[i] \subseteq R2
  <2>1. matched \cap K \subseteq R2 /\ \A i \in R2 \cap DOMAIN G2 : G2[i] \subseteq R2
    <3> HIDE DEF matched, G2, K
    <3> QED BY <1>3, ReachedIsClosed
  <2> QED BY <1>3, <1>7, <2>1
<1>9. CASE clauses[k].kind = "+"
  <2>1. First.drop = {}
    BY <1>9, NotDropped
  <2>2. R0 \cap L \subseteq K
    <3>1. R0 \subseteq included[k]
      BY <1>4, <1>9 DEF SideBySide
    <3> QED BY <1>6, <3>1
  <2>3. matched \subseteq X
    BY <1>5, <1>8
  <2>4. \A i \in R0 \cap DOMAIN G0 : G0[i] \subseteq R0
    <3> HIDE DEF G0, matched
    <3> QED BY <1>3, ReachedIsClosed
  <2>5. \A i \in X \cap DOMAIN G0 : G0[i] \subseteq X
    BY <1>3, <1>8, <2>1, <2>2, <2>4
  <2>6. R0 \subseteq X
    <3> HIDE DEF G0, matched, X
    <3> QED BY <1>3, <2>3, <2>5, ReachedInside
  <2> QED BY <1>8, <1>9, <2>6
<1>10. CASE clauses[k].kind = "+~"
  <2>1. \A i \in matched : i \notin First.drop
    BY <1>10, NotDropped
  <2>2. \A i \in matched : G0[i] \subseteq R2
    BY <1>3, <1>7, <1>8, <2>1
  <2>3. Successors(G0, matched) \subseteq R2
    BY <2>2 DEF Successors
  <2> QED BY <1>8, <1>10, <2>3
<1> QED BY <1>1, <1>9, <1>10

LEMMA NothingMissingHolds ==
    ASSUME NEW first, NEW second, NEW included, Passes(first, second, included), Independent
    PROVE  Documented \cap DOMAIN list \subseteq Selected
<1> DEFINE N == Len(clauses)
           K == DOMAIN Kept
           Caught == {n \in 0..N : included[n] \cap K \subseteq second[n].selection}
<1>1. N \in Nat /\ Graphs /\ Deps = {k \in 1..N : clauses[k].kind \in {"+", "+~"}}
  BY DEF Passes
<1>2. 0 \in Caught
  BY <1>1, PassesFacts
<1>3. ASSUME NEW n \in 0..(N - 1), n \in Caught PROVE n + 1 \in Caught
  <2> DEFINE q == n + 1
             c == clauses[q]
             matched == Matched(list, c)
             R0 == TransitiveDependencies(SourceGraph, matched)
             R2 == TransitiveDependencies(ItemGraph(Kept, list), matched \cap K)
             near == Successors(SourceGraph, matched)
             S == second[n].selection
             S1 == second[q].selection
             D == included[n]
             D1 == included[q]
  <2>1. q \in 1..N /\ q \in 0..N /\ q - 1 = n
    BY <1>1
  <2>2. SideBySide(first, second, included, q)
    BY <2>1, SideBySideHolds
  <2>3. /\ c.kind \in ClauseKinds
        /\ c.kind = "+" => S1 = S \cup R2 /\ D1 = D \cup R0
        /\ c.kind = "+~" => S1 = S \cup R2 /\ D1 = D \cup matched \cup near
        /\ c.kind \in {"+!", "+:"} => S1 = S \cup (matched \cap K) /\ D1 = D \cup matched
        /\ c.kind = "-" => S1 = S \ (matched \cap K) /\ D1 = D \ matched
    BY <2>1, <2>2 DEF SideBySide
  <2>4. D \cap K \subseteq S
    BY <1>3
  <2>5. c.kind \in {"+", "+~"} => /\ matched \subseteq R2
                                  /\ c.kind = "+" => R0 \subseteq R2
                                  /\ c.kind = "+~" => near \subseteq R2
    <3>1. c.kind \in {"+", "+~"} => q \in Deps
      BY <1>1, <2>1
    <3> QED BY <3>1, DependenciesAreReached
  <2> HIDE DEF S, S1, D, D1, matched, R0, R2, near, c, K
  <2>6. D1 \cap K \subseteq S1
    BY <2>3, <2>4, <2>5 DEF ClauseKinds
  <2> HIDE DEF q
  <2> QED BY <2>1, <2>6 DEF S1, D1
<1>4. 0..N \subseteq Caught
  <2> HIDE DEF Caught, N
  <2> QED BY <1>1, <1>2, <1>3, IntervalInduction
<1>5. N \in Caught
  BY <1>1, <1>4
<1>6. Selected = second[N].selection \cap K /\ Documented = included[N]
  BY PassesFacts
<1>7. Documented \cap DOMAIN list \subseteq K
  BY IncludedIsKept
<1> QED BY <1>5, <1>6, <1>7

-----------------------------------------------------------------------------
(* Formulas and where they stand *)

\* What is for another backend, and an item with something such.
Abroad(a) == \/ a[1] \in {"quote", "replace"} /\ a[2] # build.backend
             \/ a[1] \in {"options", "verification_status"} /\ build.backend # "fstar"

Foreign(item) == \E a \in Range(item.attrs) : Abroad(a)

\* What an attribute says, the user wrote on the item.
Formulaic == {"requires", "ensures", "refinement_type", "refine"}

Sourced(item, a) ==
    /\ a[1] # "Uid" /\ (a[1] = "AssociatedItem" => a[2] \in Roles \cup {"quote"})
    /\ a[1] = "ItemStatus" /\ a[2] = "late_skip" => a = LateSkip
    /\ Abroad(a) => Foreign(item)
    /\ a[1] \in Formulaic => a \in Range(item.attrs)
    /\ a[1] = "impl_fn_decoration" => /\ a[2] \in DecorationKinds
                                      /\ \E b \in Range(item.attrs) : b[1] = a[2] /\ b[2] = a[3]

\* What macros leave of an item of the source.
Framed(p, its, d) ==
    /\ its[d].inputs = p[d].inputs /\ its[d].kind = p[d].kind
    /\ its[d].output = p[d].output \/ (IsProof(p[d]) /\ its[d].output = Unit)
    /\ p[d].kind = "field" => its[d].parent = p[d].parent /\ its[d].body = p[d].body
    /\ Newtyped(p[d].attrs) => Newtyped(its[d].attrs)

\* The attributes that name a contract or a quote, and what the contract is.
IsContract(a) == a[1] = "AssociatedItem" /\ a[2] \in DecorationKinds

IsQuoting(a) == a[1] = "AssociatedItem" /\ a[2] = "quote"

IsRefining(a) == a[1] = "AssociatedItem" /\ a[2] = "refine"

IsFormulaFn(c, x) == c[2] = "fn" /\ ~ Has(x.attrs, "ItemQuote")

\* An item and what encloses it.
Above(its, d) ==
    {e \in DOMAIN its :
        \A C \in SUBSET DOMAIN its :
            d \in C /\ (\A i \in C : its[i].parent \in C \cup {NoItem}) => e \in C}

\* A refinement is next to the struct d of its field, or was.
Beside(its, u, d) ==
    /\ its[<<u, "fn">>].parent = <<u, "const">> /\ <<u, "const">> \in DOMAIN its
    /\ its[<<u, "const">>].parent \in Above(its, d) \cup {NoItem}

\* What an attribute of an item names is there, but for the quotes of other backends.
Refers(p, its, n, d, a) ==
    /\ IsContract(a) => SpeaksFor(p[d], a[2], its[<<a[3], "fn">>])
    /\ IsRefining(a) => p[d].kind = "field" /\ Beside(its, a[3], p[d].parent)
    /\ IsQuoting(a) => a[3] \in 1..n /\ (<<a[3], "fn">> \in DOMAIN its \/ Foreign(p[d]))

Fitting(p, its, n) ==
    /\ \A d \in DOMAIN p : /\ Framed(p, its, d)
                           /\ \A k \in 1..Len(its[d].attrs) : Sourced(p[d], its[d].attrs[k])
    /\ \A c \in DOMAIN its \ DOMAIN p : IsFormulaFn(c, its[c]) => Closed(its[c])
    /\ \A d \in DOMAIN p : \A k \in 1..Len(its[d].attrs) : Refers(p, its, n, d, its[d].attrs[k])
    /\ \A d, e \in DOMAIN p : \A k \in 1..Len(its[d].attrs), l \in 1..Len(its[e].attrs) :
          IsQuoting(its[d].attrs[k]) /\ IsQuoting(its[e].attrs[l])
             /\ its[d].attrs[k][3] = its[e].attrs[l][3] => d = e

\* Where an attribute of an item may come from.
Justified(p, its, its2, n, n2, d, a) ==
    \/ a \in Range(its[d].attrs)
    \/ Sourced(p[d], a) /\ Refers(p, its2, n2, d, a) /\ (IsQuoting(a) => a[3] > n)

\* An item is where it was, or a new item is between it and what enclosed it.
Placed(its, its2, d) ==
    \/ its2[d].parent = its[d].parent
    \/ /\ its2[d].parent \in DOMAIN its2 \ (DOMAIN its \cup {NoItem})
       /\ its2[its2[d].parent].parent = its[d].parent

LEMMA StaysAbove ==
    ASSUME NEW its, NEW its2, DOMAIN its \subseteq DOMAIN its2,
           \A d \in DOMAIN its : its[d].parent \in DOMAIN its \cup {NoItem} /\ Placed(its, its2, d),
           NEW d \in DOMAIN its, NEW e \in Above(its, d)
    PROVE  e \in Above(its2, d)
<1> SUFFICES ASSUME NEW C \in SUBSET DOMAIN its2, d \in C, \A i \in C : its2[i].parent \in C \cup {NoItem}
             PROVE  e \in C
  BY DEF Above
<1>1. ASSUME NEW i \in C \cap DOMAIN its
      PROVE  its[i].parent \in (C \cap DOMAIN its) \cup {NoItem}
  BY <1>1 DEF Placed
<1>2. C \cap DOMAIN its \in SUBSET DOMAIN its /\ d \in C \cap DOMAIN its
  OBVIOUS
<1> QED BY <1>1, <1>2 DEF Above

LEMMA FittingStep ==
    ASSUME NEW p, NEW its, NEW its2, NEW n, NEW n2 \in Nat, n <= n2,
           Sound("translated", p, its, n), Fitting(p, its, n), DOMAIN its \subseteq DOMAIN its2,
           \A d \in DOMAIN p :
              /\ Framed(p, its2, d)
              /\ \A k \in 1..Len(its2[d].attrs) : Justified(p, its, its2, n, n2, d, its2[d].attrs[k]),
           NEW q,
           \A d \in DOMAIN p : d # q =>
              \A k \in 1..Len(its2[d].attrs) :
                 IsQuoting(its2[d].attrs[k]) => its2[d].attrs[k] \in Range(its[d].attrs),
           \A d \in DOMAIN its : Placed(its, its2, d),
           \A c \in DOMAIN its \ DOMAIN p : c[2] \in {"fn", "const"} => its2[c] = its[c],
           \A c \in DOMAIN its2 \ (DOMAIN p \cup DOMAIN its) : IsFormulaFn(c, its2[c]) => Closed(its2[c])
    PROVE  Fitting(p, its2, n2)
<1>0. n \in Nat /\ p \in Programs
  BY DEF Sound
<1>a. ASSUME NEW u \in 1..n, NEW kind \in {"fn", "const"}, <<u, kind>> \in DOMAIN its
      PROVE  its2[<<u, kind>>] = its[<<u, kind>>]
  <2>1. <<u, kind>> \in Nat \X CompanionKinds
    BY <1>0 DEF CompanionKinds
  <2>2. <<u, kind>> \notin DOMAIN p
    BY <1>0, <2>1, ProgramsAssumption
  <2>3. <<u, kind>>[2] = kind
    OBVIOUS
  <2> QED BY <1>a, <2>2, <2>3
<1>1. ASSUME NEW d \in DOMAIN p, NEW a \in Range(its[d].attrs)
      PROVE  Sourced(p[d], a) /\ Refers(p, its2, n2, d, a) /\ Refers(p, its, n, d, a)
  <2>1. IsSeq(its[d].attrs)
    BY DEF Sound, Shape, Companions
  <2>2. PICK k \in 1..Len(its[d].attrs) : its[d].attrs[k] = a
    BY <2>1, SeqElements DEF Range
  <2>3. Sourced(p[d], a) /\ Refers(p, its, n, d, a)
    BY <2>2 DEF Fitting
  <2>4. ASSUME IsContract(a) \/ IsRefining(a) PROVE its2[<<a[3], "fn">>] = its[<<a[3], "fn">>]
    <3>1. k \in Attachments(its, d) /\ UidOf(its, d, k) = a[3]
      BY <2>2, <2>4 DEF Attachments, UidOf, IsContract, IsRefining, Roles, DecorationKinds
    <3>2. a[3] \in 1..n /\ <<a[3], "fn">> \in DOMAIN its
      BY <3>1 DEF Sound, Attached
    <3> QED BY <1>a, <3>2
  <2>5. ASSUME IsQuoting(a) PROVE a[3] \in 1..n2 /\ (<<a[3], "fn">> \in DOMAIN its2 \/ Foreign(p[d]))
    BY <1>0, <2>3, <2>5 DEF Refers
  <2>6. ASSUME IsRefining(a) PROVE p[d].kind = "field" /\ Beside(its2, a[3], p[d].parent)
    <3>1. p[d].kind = "field" /\ Beside(its, a[3], p[d].parent)
      BY <2>3, <2>6 DEF Refers
    <3>2. k \in Attachments(its, d) /\ UidOf(its, d, k) = a[3]
      BY <2>2, <2>6 DEF Attachments, UidOf, IsRefining, Roles
    <3>3. a[3] \in 1..n /\ <<a[3], "fn">> \in DOMAIN its
      BY <3>2 DEF Sound, Attached
    <3>4. its2[<<a[3], "const">>] = its[<<a[3], "const">>]
      BY <1>a, <3>1, <3>3 DEF Beside
    <3>5. p[d].parent \in DOMAIN its /\ \A i \in DOMAIN its : its[i].parent \in DOMAIN its \cup {NoItem}
      BY <1>0, <3>1, ProgramsAssumption DEF Sound, Companions
    <3>6. its[<<a[3], "const">>].parent \in Above(its2, p[d].parent) \cup {NoItem}
      BY <3>1, <3>5, StaysAbove DEF Beside
    <3> QED BY <2>4, <2>6, <3>1, <3>4, <3>6 DEF Beside
  <2> QED BY <2>3, <2>4, <2>5, <2>6 DEF Refers
<1>2. ASSUME NEW d \in DOMAIN p, NEW k \in 1..Len(its2[d].attrs)
      PROVE  /\ Sourced(p[d], its2[d].attrs[k]) /\ Refers(p, its2, n2, d, its2[d].attrs[k])
             /\ IsQuoting(its2[d].attrs[k]) =>
                   its2[d].attrs[k] \in Range(its[d].attrs) \/ (d = q /\ its2[d].attrs[k][3] > n)
  <2>1. Justified(p, its, its2, n, n2, d, its2[d].attrs[k])
    OBVIOUS
  <2>2. IsQuoting(its2[d].attrs[k]) => its2[d].attrs[k] \in Range(its[d].attrs) \/ d = q
    OBVIOUS
  <2>3. CASE its2[d].attrs[k] \in Range(its[d].attrs)
    BY <1>1, <2>3
  <2>4. CASE its2[d].attrs[k] \notin Range(its[d].attrs)
    BY <2>1, <2>2, <2>4 DEF Justified
  <2> QED BY <2>3, <2>4
<1>3. ASSUME NEW c \in DOMAIN its2 \ DOMAIN p, IsFormulaFn(c, its2[c]) PROVE Closed(its2[c])
  <2>1. CASE c \in DOMAIN its
    <3>1. its2[c] = its[c]
      BY <1>3, <2>1 DEF IsFormulaFn
    <3> QED BY <1>3, <2>1, <3>1 DEF Fitting
  <2>2. CASE c \notin DOMAIN its
    BY <1>3, <2>2
  <2> QED BY <2>1, <2>2
<1>4. ASSUME NEW d \in DOMAIN p, NEW e \in DOMAIN p,
             NEW k \in 1..Len(its2[d].attrs), NEW l \in 1..Len(its2[e].attrs),
             IsQuoting(its2[d].attrs[k]), IsQuoting(its2[e].attrs[l]),
             its2[d].attrs[k][3] = its2[e].attrs[l][3], d # e
      PROVE  FALSE
  <2> DEFINE a == its2[d].attrs[k]
             b == its2[e].attrs[l]
  <2>1. /\ a \in Range(its[d].attrs) \/ (d = q /\ a[3] > n)
        /\ b \in Range(its[e].attrs) \/ (e = q /\ b[3] > n)
    BY <1>2, <1>4
  <2>2. /\ a \in Range(its[d].attrs) => a[3] \in 1..n
        /\ b \in Range(its[e].attrs) => b[3] \in 1..n
    BY <1>1, <1>4 DEF Refers
  <2>3. a \in Range(its[d].attrs) /\ b \in Range(its[e].attrs)
    BY <1>0, <1>4, <2>1, <2>2
  <2>4. IsSeq(its[d].attrs) /\ IsSeq(its[e].attrs)
    BY DEF Sound, Shape, Companions
  <2> HIDE DEF a, b
  <2>5. PICK i \in 1..Len(its[d].attrs) : its[d].attrs[i] = a
    BY <2>3, <2>4, SeqElements
  <2>6. PICK j \in 1..Len(its[e].attrs) : its[e].attrs[j] = b
    BY <2>3, <2>4, SeqElements
  <2>7. \A x, y \in DOMAIN p : \A v \in 1..Len(its[x].attrs), w \in 1..Len(its[y].attrs) :
           IsQuoting(its[x].attrs[v]) /\ IsQuoting(its[y].attrs[w])
              /\ its[x].attrs[v][3] = its[y].attrs[w][3] => x = y
    BY DEF Fitting
  <2>8. IsQuoting(its[d].attrs[i]) /\ IsQuoting(its[e].attrs[j]) /\ its[d].attrs[i][3] = its[e].attrs[j][3]
    BY <1>4, <2>5, <2>6 DEF a, b
  <2> QED BY <1>4, <2>7, <2>8
<1> QED BY <1>2, <1>3, <1>4 DEF Fitting

Grows == uids' \in Nat /\ uids <= uids'

\* An attribute that is new names what is made with it.
Newly(d, made, a) ==
    /\ ~ IsRefining(a)
    /\ IsContract(a) => <<a[3], "fn">> \in DOMAIN made /\ SpeaksFor(program[d], a[2], made[<<a[3], "fn">>])
    /\ IsQuoting(a) => /\ a[3] = uids + 1 /\ uids' = uids + 1
                       /\ <<a[3], "fn">> \in DOMAIN made \/ Foreign(program[d])

\* One item is changed and others are made.
LEMMA OneItemFits ==
    ASSUME NEW d, AtMacro(d), Translated, d \in DOMAIN program, Fitting(program, items, uids), Grows,
           NEW P, IsSeq(P), NEW new, NEW made, items' = Joined(Changed(d, new), made),
           new.attrs = P \o Rest(d), new.inputs = items[d].inputs, new.kind = items[d].kind,
           new.output = items[d].output \/ (IsProof(program[d]) /\ new.output = Unit),
           Macro(d)[1] = "refinement_type" => Has(P, "NewtypeAsRefinement"),
           program[d].kind = "field" => new.parent = items[d].parent /\ new.body = items[d].body,
           \/ new.parent = items[d].parent
           \/ new.parent \in DOMAIN made /\ made[new.parent].parent = items[d].parent,
           \A c \in DOMAIN made : /\ c \in {uids + 1} \X CompanionKinds
                                  /\ IsFormulaFn(c, made[c]) => Closed(made[c]),
           \A i \in 1..Len(P) :
              /\ Sourced(program[d], P[i])
              /\ Newly(d, made, P[i])
    PROVE  Fitting(program, items', uids')
<1> DEFINE p == program
           its2 == items'
           n2 == uids'
<1>1. /\ Sound("translated", p, items, uids) /\ uids \in Nat /\ p \in Programs
      /\ d \in DOMAIN items /\ IsSeq(Rest(d)) /\ DOMAIN p \subseteq DOMAIN items
      /\ \A i \in 1..Len(Rest(d)) : Rest(d)[i] \in Range(items[d].attrs)
      /\ \A c \in DOMAIN items : IsSeq(items[c].attrs)
  BY AtMacroFacts, RestFacts DEF Sound, Translated, Companions, Shape
<1>2. DOMAIN made \cap DOMAIN items = {}
  <2>1. SUFFICES ASSUME NEW c \in DOMAIN made, c \in DOMAIN items PROVE FALSE
    OBVIOUS
  <2>2. c \in {uids + 1} \X CompanionKinds
    OBVIOUS
  <2>3. c \in Nat \X CompanionKinds
    BY <1>1, <2>2
  <2>4. c \notin DOMAIN p
    BY <1>1, <2>3, ProgramsAssumption
  <2>5. c \in (1..uids) \X CompanionKinds
    BY <1>1, <2>1, <2>4 DEF Sound, Companions
  <2> QED BY <1>1, <2>2, <2>5
<1>3. /\ DOMAIN its2 = DOMAIN items \cup DOMAIN made
      /\ \A c \in DOMAIN made : its2[c] = made[c]
      /\ its2[d] = new /\ \A e \in DOMAIN items : e # d => its2[e] = items[e]
  <2> DEFINE changed == Changed(d, new)
  <2>1. /\ DOMAIN changed = DOMAIN items /\ changed[d] = new
        /\ \A e \in DOMAIN items : e # d => changed[e] = items[e]
    BY <1>1, ChangedFacts
  <2>2. its2 = Joined(changed, made)
    OBVIOUS
  <2> HIDE DEF changed, its2
  <2> DEFINE joined == Joined(changed, made)
  <2>3. /\ DOMAIN joined = DOMAIN changed \cup DOMAIN made
        /\ \A c \in DOMAIN changed : joined[c] = changed[c]
        /\ \A c \in DOMAIN made \ DOMAIN changed : joined[c] = made[c]
    BY ONLY DEF joined, Joined
  <2>4. its2 = joined
    BY <2>2
  <2> HIDE DEF joined
  <2> QED BY <1>1, <1>2, <2>1, <2>3, <2>4
<1>0. n2 \in Nat /\ uids <= n2 /\ n2 = uids'
  BY DEF Grows
<1> HIDE DEF its2, n2
<1>4. ASSUME NEW e \in DOMAIN p PROVE Framed(p, its2, e)
  <2>1. Framed(p, items, e)
    BY DEF Fitting
  <2>2. CASE e = d
    <3>1. Newtyped(items[d].attrs) => Newtyped(new.attrs)
      BY AtMacroFacts, NewtypedKept
    <3> QED BY <1>3, <2>1, <2>2, <3>1 DEF Framed
  <2>3. CASE e # d
    BY <1>1, <1>3, <2>1, <2>3 DEF Framed
  <2> QED BY <2>2, <2>3
<1>5. ASSUME NEW e \in DOMAIN p, NEW k \in 1..Len(its2[e].attrs)
      PROVE  /\ Justified(p, items, its2, uids, n2, e, its2[e].attrs[k])
             /\ e # d => its2[e].attrs[k] \in Range(items[e].attrs)
  <2>1. CASE e = d
    <3>1. \/ \E j \in 1..Len(P) : its2[d].attrs[k] = P[j]
          \/ \E j \in 1..Len(Rest(d)) : its2[d].attrs[k] = Rest(d)[j]
      <4> DEFINE r == Rest(d)
      <4>1. k \in 1..Len(P \o r) /\ its2[d].attrs = P \o r /\ IsSeq(r)
        BY <1>1, <1>3, <1>5, <2>1
      <4>2. \/ \E j \in 1..Len(P) : (P \o r)[k] = P[j]
            \/ \E j \in 1..Len(r) : (P \o r)[k] = r[j]
        <5> HIDE DEF r
        <5> QED BY <4>1, ConcatShort
      <4> HIDE DEF its2
      <4> QED BY <4>1, <4>2
    <3>2. CASE \E j \in 1..Len(P) : its2[d].attrs[k] = P[j]
      <4>1. PICK j \in 1..Len(P) : its2[d].attrs[k] = P[j]
        BY <3>2
      <4>2. Sourced(p[d], P[j]) /\ Newly(d, made, P[j])
        OBVIOUS
      <4>3. IsContract(P[j]) => SpeaksFor(p[d], P[j][2], its2[<<P[j][3], "fn">>])
        BY <1>3, <4>2 DEF Newly
      <4>4. IsQuoting(P[j]) => /\ P[j][3] \in 1..n2 /\ P[j][3] > uids
                               /\ <<P[j][3], "fn">> \in DOMAIN its2 \/ Foreign(p[d])
        BY <1>0, <1>1, <1>3, <4>2 DEF Newly
      <4>5. Refers(p, its2, n2, d, P[j])
        BY <4>2, <4>3, <4>4 DEF Refers, Newly
      <4> QED BY <2>1, <4>1, <4>2, <4>4, <4>5 DEF Justified
    <3>3. CASE \E j \in 1..Len(Rest(d)) : its2[d].attrs[k] = Rest(d)[j]
      BY <1>1, <2>1, <3>3 DEF Justified
    <3> QED BY <3>1, <3>2, <3>3
  <2>2. CASE e # d
    <3>1. its2[e] = items[e] /\ IsSeq(items[e].attrs)
      BY <1>1, <1>3, <2>2
    <3>2. its2[e].attrs[k] \in Range(items[e].attrs)
      BY <1>5, <3>1, SeqElements DEF Range
    <3> QED BY <3>2 DEF Justified
  <2> QED BY <2>1, <2>2
<1>6. \A c \in DOMAIN items \ DOMAIN p : its2[c] = items[c]
  BY <1>3
<1>7. \A c \in DOMAIN its2 \ (DOMAIN p \cup DOMAIN items) : IsFormulaFn(c, its2[c]) => Closed(its2[c])
  BY <1>3
<1>8. DOMAIN items \subseteq DOMAIN its2
  BY <1>3
<1>9. ASSUME NEW e \in DOMAIN items PROVE Placed(items, its2, e)
  <2>1. CASE e # d
    BY <1>3, <2>1 DEF Placed
  <2>2. CASE e = d /\ new.parent = items[d].parent
    BY <1>3, <2>2 DEF Placed
  <2>3. CASE e = d /\ new.parent \in DOMAIN made /\ made[new.parent].parent = items[d].parent
    <3>1. new.parent \in Nat \X CompanionKinds
      BY <1>1, <2>3
    <3>2. new.parent # NoItem
      BY <3>1, ProgramsAssumption
    <3> QED BY <1>2, <1>3, <2>3, <3>2 DEF Placed
  <2> QED BY <2>1, <2>2, <2>3
<1>10. /\ \A e \in DOMAIN p : /\ Framed(p, its2, e)
                              /\ \A k \in 1..Len(its2[e].attrs) : Justified(p, items, its2, uids, n2, e, its2[e].attrs[k])
       /\ \A e \in DOMAIN p : d # e => \A k \in 1..Len(its2[e].attrs) :
             IsQuoting(its2[e].attrs[k]) => its2[e].attrs[k] \in Range(items[e].attrs)
  BY <1>4, <1>5
<1>11. Fitting(p, its2, n2)
  BY <1>0, <1>1, <1>6, <1>7, <1>8, <1>9, <1>10, FittingStep
<1> QED BY <1>11 DEF its2, n2

LEMMA SourceInputs ==
    ASSUME NEW p \in Programs, NEW d \in DOMAIN p
    PROVE  AreInputs(p[d].inputs)
<1>1. /\ p[d].inputs \in Seq(ToSet(p[d].inputs))
      /\ \A x \in ToSet(p[d].inputs) : x = [name |-> x.name, by |-> x.by]
  BY NamesAssumption
<1>2. IsSeq(p[d].inputs)
  BY <1>1, SeqIsSeq
<1>3. \A k \in 1..Len(p[d].inputs) : p[d].inputs[k] \in ToSet(p[d].inputs)
  BY <1>2, SeqElements, RangeIsToSet
<1> QED BY <1>1, <1>2, <1>3 DEF AreInputs

\* The formula of a macro is one that was written.
LEMMA MacroSourced ==
    ASSUME NEW d, AtMacro(d), d \in DOMAIN program, Fitting(program, items, uids)
    PROVE  /\ Sourced(program[d], Macro(d)) /\ Framed(program, items, d)
           /\ program \in Programs /\ AreInputs(items[d].inputs)
<1>1. /\ NextMacro(d) \in 1..Len(items[d].attrs) /\ Macro(d) = items[d].attrs[NextMacro(d)]
      /\ program \in Programs
  BY AtMacroFacts DEF Sound
<1>2. Sourced(program[d], Macro(d)) /\ Framed(program, items, d)
  BY <1>1 DEF Fitting
<1>3. items[d].inputs = program[d].inputs
  BY <1>2 DEF Framed
<1> QED BY <1>1, <1>2, <1>3, SourceInputs

\* A decoration names the inputs of its function, and what that returns.
LEMMA NamedBy ==
    ASSUME NEW p \in Programs, NEW d \in DOMAIN p, NEW b \in Range(p[d].attrs), b[1] \in DecorationKinds,
           NEW fn, fn.inputs = p[d].inputs, fn.output = p[d].output \/ (IsProof(p[d]) /\ fn.output = Unit)
    PROVE  /\ InScope(b[1], fn, b[2])
           /\ b[1] = "ensures" => \/ fn.output = IF IsProof(p[d]) THEN Unit ELSE p[d].output
                                  \/ IsProof(p[d]) /\ Has(p[d].attrs, "ensures")
<1>1. b \in ToSet(p[d].attrs)
  BY RangeIsToSet
<1>2. /\ b[1] = "requires" => b[2].names \subseteq InputNames(p[d].inputs) /\ b[2].futures = {}
      /\ b[1] = "ensures" => b[2].names \subseteq InputNames(p[d].inputs) \cup ResultNames(p[d])
  BY <1>1, NamesAssumption
<1>3. AreInputs(fn.inputs)
  BY SourceInputs
<1>4. \A x \in ResultNames(p[d]) : x = "result" /\ (fn.output # Unit \/ MutInputs(fn.inputs) = <<>>)
  BY DEF ResultNames
<1>5. InScope(b[1], fn, b[2])
  BY <1>2, <1>3, <1>4 DEF InScope, DecorationKinds
<1>6. ASSUME b[1] = "ensures", IsProof(p[d]) PROVE Has(p[d].attrs, "ensures")
  BY <1>6 DEF Has, Range
<1> QED BY <1>5, <1>6

\* What a decoration adds.
LEMMA DecorationParts ==
    ASSUME NEW u, NEW parent, NEW role, NEW fn, NEW phi, Translated
    PROVE  LET made == Decoration(u, parent, role, fn, phi)
           IN  /\ <<u, "fn">> \in DOMAIN made
               /\ \A c \in DOMAIN made : /\ c \in {u} \X CompanionKinds
                                         /\ c[2] = "fn" => c = <<u, "fn">>
               /\ made[<<u, "fn">>] = DecorationFn(u, role, fn, RewriteSelf(fn, phi))
<1> DEFINE made == Decoration(u, parent, role, fn, phi)
           it == DecorationFn(u, role, fn, RewriteSelf(fn, phi))
           a == Wrapped(u, parent, it)
           more == [c \in IF role = "ensures" THEN {<<u, "future">>} ELSE {} |-> FutureHelper(u)]
<1>1. /\ Made({u}, made) /\ <<u, "fn">> \in DOMAIN made
  BY DecorationMade
<1>2. made = Joined(a, more)
  BY DEF Decoration, DecorationBuilt
<1>3. <<u, "fn">> \in DOMAIN a /\ a[<<u, "fn">>] = it
  <2> HIDE DEF it
  <2> QED BY DEF Wrapped
<1> HIDE DEF made, a, more, it
<1>4. made[<<u, "fn">>] = it
  BY <1>2, <1>3 DEF Joined
<1>5. \A c \in DOMAIN made : c \in {u} \X CompanionKinds
  BY <1>1 DEF Made
<1>6. \A c \in {u} \X CompanionKinds : c[2] = "fn" => c = <<u, "fn">>
  OBVIOUS
<1> QED BY <1>1, <1>4, <1>5, <1>6 DEF made, it

LEMMA AssocIsSourced ==
    ASSUME NEW item, NEW r \in Roles \cup {"quote"}, NEW u
    PROVE  Sourced(item, <<"AssociatedItem", r, u>>)
BY DEF Sourced, Formulaic, Abroad

LEMMA ContractIsNew ==
    ASSUME NEW d, NEW role \in DecorationKinds, NEW u, NEW made, <<u, "fn">> \in DOMAIN made,
           SpeaksFor(program[d], role, made[<<u, "fn">>])
    PROVE  LET a == <<"AssociatedItem", role, u>> IN Sourced(program[d], a) /\ Newly(d, made, a)
<1> DEFINE a == <<"AssociatedItem", role, u>>
<1>1. Sourced(program[d], a)
  BY AssocIsSourced DEF Roles, DecorationKinds
<1>2. a[2] = role /\ a[3] = u /\ ~ IsQuoting(a) /\ ~ IsRefining(a)
  BY DEF IsQuoting, IsRefining, DecorationKinds
<1> HIDE DEF a
<1>3. Newly(d, made, a)
  BY <1>2 DEF Newly
<1> QED BY <1>1, <1>3 DEF a

\* A decoration, on the function as it is.
LEMMA DecorateWithFits ==
    ASSUME NEW d, AtMacro(d), Translated, d \in DOMAIN program, Fitting(program, items, uids), Grows,
           NEW parent, NEW b \in Range(program[d].attrs), b[1] \in DecorationKinds, NEW self,
           DecorateWith(d, parent, b[1], b[2], Rest(d), items[d], self),
           Macro(d)[1] # "refinement_type"
    PROVE  Fitting(program, items', uids')
<1> DEFINE u == uids + 1
           item == items[d]
           role == b[1]
           phi == b[2]
           P == AssocAttr(role, u)
           attrs == P \o Rest(d)
           new == WithAttrs(item, attrs)
           made == Decoration(u, parent, role, item, phi)
           why == WhyNot(parent, role, item, phi, self)
<1>1. CASE why # ""
  <2>1. items' = items /\ uids' = uids
    BY <1>1 DEF DecorateWith, Fails
  <2> QED BY <2>1
<1>2. CASE why = ""
  <2>1. items' = Joined(Changed(d, new), made)
    BY <1>2 DEF DecorateWith, Expands
  <2>2. ~ BadFuture(role, RewriteSelf(item, phi))
    <3>1. DecorationBuilt
      BY DEF DecorationBuilt
    <3> QED BY <1>2, <3>1 DEF WhyNot
  <2>3. IsItem(item) /\ Framed(program, items, d) /\ program \in Programs /\ AreInputs(item.inputs)
    BY AtMacroFacts, MacroSourced
  <2>4. /\ IsSeq(P) /\ \A i \in 1..Len(P) : P[i] = <<"AssociatedItem", role, u>>
    BY AssocAttrFacts
  <2>5. /\ <<u, "fn">> \in DOMAIN made
        /\ \A c \in DOMAIN made : /\ c \in {u} \X CompanionKinds
                                  /\ c[2] = "fn" => c = <<u, "fn">>
        /\ made[<<u, "fn">>] = DecorationFn(u, role, item, RewriteSelf(item, phi))
    BY DecorationParts
  <2>6. /\ item.inputs = program[d].inputs
        /\ item.output = program[d].output \/ (IsProof(program[d]) /\ item.output = Unit)
    BY <2>3 DEF Framed
  <2>7. /\ InScope(role, item, phi)
        /\ role = "ensures" => \/ item.output = IF IsProof(program[d]) THEN Unit ELSE program[d].output
                               \/ IsProof(program[d]) /\ Has(program[d].attrs, "ensures")
    <3> HIDE DEF item
    <3> QED BY <2>3, <2>6, NamedBy
  <2> HIDE DEF made, P, u, item
  <2>8. Closed(made[<<u, "fn">>])
    BY <2>2, <2>5, <2>7, DecorationIsClosed
  <2>9. SpeaksFor(program[d], role, made[<<u, "fn">>])
    BY <2>3, <2>5, <2>6, <2>7, DecorationAnswers
  <2> HIDE DEF attrs
  <2>10. /\ new.attrs = attrs /\ new.inputs = item.inputs /\ new.kind = item.kind
         /\ new.output = item.output /\ new.parent = item.parent /\ new.body = item.body
    BY <2>3, WithAttrsIsItem
  <2> HIDE DEF new
  <2>11. ASSUME NEW i \in 1..Len(P)
         PROVE  Sourced(program[d], P[i]) /\ Newly(d, made, P[i])
    BY <2>4, <2>5, <2>9, ContractIsNew
  <2>12. \A c \in DOMAIN made : /\ c \in {uids + 1} \X CompanionKinds
                                /\ IsFormulaFn(c, made[c]) => Closed(made[c])
    BY <2>5, <2>8 DEF u, IsFormulaFn
  <2> QED BY <2>1, <2>4, <2>10, <2>11, <2>12, OneItemFits DEF attrs, item
<1> QED BY <1>1, <1>2

LEMMA DecorateFits ==
    ASSUME NEW d \in DOMAIN items, IInv, Translated, Fitting(program, items, uids), Grows, Decorate(d)
    PROVE  Fitting(program, items', uids')
<1>1. AtMacro(d) /\ Macro(d)[1] \in DecorationKinds
  BY ExpandingFacts DEF Decorate
<1>2. d \in DOMAIN program
  BY <1>1, OnSource DEF DecorationKinds
<1>3. CASE items[d].kind = "trait_fn"
  BY <1>3 DEF Decorate, Fails
<1>4. CASE items[d].kind # "trait_fn"
  <2> DEFINE a == Macro(d)
  <2>1. DecorateWith(d, items[d].parent, a[1], a[2], Rest(d), items[d], FALSE)
    BY <1>4 DEF Decorate
  <2>2. a \in Range(program[d].attrs)
    BY <1>1, <1>2, MacroSourced DEF Sourced, Formulaic, DecorationKinds
  <2>3. a[1] \in DecorationKinds /\ Macro(d)[1] # "refinement_type"
    BY <1>1 DEF DecorationKinds
  <2> HIDE DEF a
  <2> QED BY <1>1, <1>2, <2>1, <2>2, <2>3, DecorateWithFits
<1> QED BY <1>3, <1>4

LEMMA ImplFnDecorationFits ==
    ASSUME NEW d \in DOMAIN items, IInv, Translated, Fitting(program, items, uids), Grows,
           ImplFnDecoration(d)
    PROVE  Fitting(program, items', uids')
<1>1. AtMacro(d) /\ Macro(d)[1] \in {"impl_fn_decoration"}
  BY ExpandingFacts DEF ImplFnDecoration
<1>2. d \in DOMAIN program
  BY <1>1, OnSource
<1>3. DecorateWith(d, d, Macro(d)[2], Macro(d)[3], Rest(d), items[d], TRUE)
  BY DEF ImplFnDecoration
<1>4. PICK b \in Range(program[d].attrs) : b[1] = Macro(d)[2] /\ b[2] = Macro(d)[3]
  BY <1>1, <1>2, MacroSourced DEF Sourced
<1>5. b[1] \in DecorationKinds
  BY <1>1, <1>2, <1>4, MacroSourced DEF Sourced
<1>6. DecorateWith(d, d, b[1], b[2], Rest(d), items[d], TRUE)
  BY <1>3, <1>4
<1> QED BY <1>1, <1>2, <1>5, <1>6, DecorateWithFits

\* Attributes that stand for no formula and no quote.
Idle(d, a) == /\ a[1] \notin Formulaic \cup {"impl_fn_decoration", "Uid", "AssociatedItem"}
              /\ a[1] = "ItemStatus" /\ a[2] = "late_skip" => a = LateSkip
              /\ Abroad(a) => Foreign(program[d])

Harmless(d, P) == IsSeq(P) /\ \A i \in 1..Len(P) : Idle(d, P[i])

LEMMA IdleIsSourced ==
    ASSUME NEW d, NEW a, Idle(d, a), NEW made
    PROVE  Sourced(program[d], a) /\ Newly(d, made, a)
BY DEF Idle, Sourced, Newly, IsContract, IsQuoting, IsRefining

LEMMA QuotedFits ==
    ASSUME NEW d, AtMacro(d), Translated, d \in DOMAIN program, Fitting(program, items, uids), Grows,
           NEW P, IsSeq(P), NEW attrs, attrs = P \o Rest(d), NEW made,
           items' = Joined(Changed(d, WithAttrs(items[d], attrs)), made),
           \A c \in DOMAIN made : /\ c \in {uids + 1} \X CompanionKinds
                                  /\ c[2] = "fn" => Has(made[c].attrs, "ItemQuote"),
           \A i \in 1..Len(P) : Sourced(program[d], P[i]) /\ Newly(d, made, P[i]),
           Macro(d)[1] # "refinement_type"
    PROVE  Fitting(program, items', uids')
<1> DEFINE item == items[d]
           new == WithAttrs(item, attrs)
<1>1. IsItem(item)
  BY AtMacroFacts
<1>2. items' = Joined(Changed(d, new), made)
  OBVIOUS
<1> HIDE DEF item
<1>3. /\ new.attrs = attrs /\ new.inputs = item.inputs /\ new.kind = item.kind
      /\ new.output = item.output /\ new.parent = item.parent /\ new.body = item.body
  BY ONLY <1>1, WithAttrsIsItem DEF new
<1> HIDE DEF new
<1>4. \A c \in DOMAIN made : ~ IsFormulaFn(c, made[c])
  BY DEF IsFormulaFn
<1> QED BY <1>2, <1>3, <1>4, OneItemFits DEF item

LEMMA NothingFits ==
    ASSUME NEW d, AtMacro(d), Translated, d \in DOMAIN program, Fitting(program, items, uids), Grows,
           NEW P, Harmless(d, P), NEW attrs, attrs = P \o Rest(d), Expands(d, attrs, NoItems),
           Macro(d)[1] # "refinement_type"
    PROVE  Fitting(program, items', uids')
<1>1. items' = Joined(Changed(d, WithAttrs(items[d], attrs)), NoItems)
  BY DEF Expands
<1>2. DOMAIN NoItems = {}
  BY DEF NoItems
<1>3. IsSeq(P) /\ \A i \in 1..Len(P) : Sourced(program[d], P[i]) /\ Newly(d, NoItems, P[i])
  BY IdleIsSourced DEF Harmless
<1> QED BY <1>1, <1>2, <1>3, QuotedFits

LEMMA PayloadHarmless == ASSUME NEW d, NEW x, Idle(d, x) PROVE Harmless(d, Payload(x))
<1>1. IsSeq(Payload(x)) /\ \A i \in 1..Len(Payload(x)) : Payload(x)[i] = x
  BY PayloadFacts
<1> QED BY <1>1 DEF Harmless

LEMMA BothHarmless ==
    ASSUME NEW d, NEW P, NEW Q, Harmless(d, P), Harmless(d, Q)
    PROVE  Harmless(d, P \o Q)
<1> DEFINE PQ == P \o Q
<1>1. /\ IsSeq(PQ)
      /\ \A i \in 1..Len(PQ) : (\E j \in 1..Len(P) : PQ[i] = P[j]) \/ (\E j \in 1..Len(Q) : PQ[i] = Q[j])
  BY ConcatShort DEF Harmless
<1> HIDE DEF PQ
<1>2. Harmless(d, PQ)
  BY <1>1 DEF Harmless
<1> QED BY <1>2 DEF PQ

\* Markers, also those on the implementations of a refinement type.
LEMMA MarkFits ==
    ASSUME NEW d \in DOMAIN items, IInv, Translated, Fitting(program, items, uids), Grows, Mark(d)
    PROVE  Fitting(program, items', uids')
<1> DEFINE m == Macro(d)[1]
           P == Payload(Markers[m])
           attrs == P \o Rest(d)
<1>1. AtMacro(d) /\ m \in DOMAIN Markers /\ Expands(d, attrs, NoItems)
  BY ExpandingFacts DEF Mark
<1>2. Harmless(d, P)
  <2>1. Markers[m][1] \in {"ItemStatus", "Erased", "NeverErased", "ProcessRead", "PVHandwritten"}
    BY <1>1 DEF Markers
  <2>0. Markers[m][2] # "late_skip" \/ Markers[m][1] # "ItemStatus"
    BY <1>1 DEF Markers
  <2> DEFINE x == Markers[m]
  <2> HIDE DEF x
  <2>2. Idle(d, x)
    BY <2>0, <2>1 DEF x, Formulaic, Idle, Abroad
  <2>3. Harmless(d, Payload(x))
    BY <2>2, PayloadHarmless
  <2> QED BY <2>3 DEF x
<1>3. CASE d \in DOMAIN program
  <2>1. attrs = P \o Rest(d) /\ m # "refinement_type"
    BY <1>1 DEF Markers
  <2> HIDE DEF P, attrs
  <2> QED BY <1>1, <1>2, <1>3, <2>1, NothingFits
<1>4. CASE d \notin DOMAIN program
  <2> DEFINE new == WithAttrs(items[d], attrs)
  <2>1. d[2] \in {"Refinement", "Deref", "RefineAs"}
    BY <1>1, <1>4, CompanionMacro
  <2>2. items' = Joined(Changed(d, new), NoItems)
    BY <1>1 DEF Expands
  <2>3. /\ Sound("translated", program, items, uids) /\ DOMAIN program \subseteq DOMAIN items
        /\ \A c \in DOMAIN items : IsSeq(items[c].attrs)
    BY <1>1, AtMacroFacts DEF Sound, Translated, Companions, Shape
  <2> HIDE DEF new
  <2>4. DOMAIN items' = DOMAIN items /\ \A e \in DOMAIN items : e # d => items'[e] = items[e]
    <3> DEFINE changed == Changed(d, new)
    <3>1. /\ DOMAIN changed = DOMAIN items
          /\ \A e \in DOMAIN items : e # d => changed[e] = items[e]
      BY ChangedFacts
    <3> HIDE DEF changed
    <3>2. /\ DOMAIN Joined(changed, NoItems) = DOMAIN changed
          /\ \A c \in DOMAIN changed : Joined(changed, NoItems)[c] = changed[c]
      BY DEF Joined, NoItems
    <3>3. items' = Joined(changed, NoItems)
      BY <2>2 DEF changed
    <3> QED BY <3>1, <3>2, <3>3
  <2> DEFINE its2 == items'
  <2>a. uids \in Nat /\ uids' = uids /\ IsItem(items[d])
    BY <1>1, AtMacroFacts DEF Mark
  <2>b. its2[d].parent = items[d].parent
    <3>1. its2[d] = new
      <4> DEFINE changed == Changed(d, new)
      <4>1. d \in DOMAIN changed /\ changed[d] = new
        BY ChangedFacts
      <4> HIDE DEF changed
      <4> QED BY <2>2, <4>1 DEF Joined, changed
    <3> QED BY <2>a, <3>1, WithAttrsIsItem DEF new
  <2> HIDE DEF its2
  <2>5. ASSUME NEW e \in DOMAIN program
        PROVE  /\ Framed(program, its2, e)
               /\ \A k \in 1..Len(its2[e].attrs) : /\ Justified(program, items, its2, uids, uids, e, its2[e].attrs[k])
                                                   /\ its2[e].attrs[k] \in Range(items[e].attrs)
    <3>1. its2[e] = items[e] /\ IsSeq(items[e].attrs) /\ Framed(program, items, e)
      BY <1>4, <2>3, <2>4 DEF Fitting, its2
    <3>2. \A k \in 1..Len(items[e].attrs) : items[e].attrs[k] \in Range(items[e].attrs)
      BY <3>1, SeqElements
    <3> QED BY <3>1, <3>2 DEF Framed, Justified
  <2>6. \A c \in DOMAIN items \ DOMAIN program : c[2] \in {"fn", "const"} => its2[c] = items[c]
    BY <2>1, <2>4 DEF its2
  <2>7. DOMAIN its2 = DOMAIN items /\ \A c \in DOMAIN items : Placed(items, its2, c)
    BY <2>4, <2>b DEF its2, Placed
  <2>8. Fitting(program, its2, uids)
    BY <2>3, <2>5, <2>6, <2>7, <2>a, FittingStep
  <2> QED BY <2>8, <2>a DEF its2
<1> QED BY <1>3, <1>4

\* A quote, the item first.
LEMMA QuoteWithFits ==
    ASSUME NEW d, AtMacro(d), Translated, d \in DOMAIN program, Fitting(program, items, uids), Grows,
           NEW q, NEW attrs, QuoteWith(d, q, attrs),
           q[2] # build.backend => Foreign(program[d]),
           NEW Q, Harmless(d, Q), attrs = Q \o Rest(d),
           Macro(d)[1] # "refinement_type"
    PROVE  Fitting(program, items', uids')
<1> DEFINE u == uids + 1
           parent == items[d].parent
           made == QuoteItem(u, parent, q[2], q[3], q[4])
           a == AssocAttr("quote", u)
           P == a \o Q
           all == a \o attrs
<1>1. CASE QuoteBuilt(q[2]) /\ items[d].kind \in {"impl_fn", "trait_fn"}
  BY <1>1 DEF QuoteWith, Fails
<1>2. CASE ~ (QuoteBuilt(q[2]) /\ items[d].kind \in {"impl_fn", "trait_fn"})
  <2>1. items' = Joined(Changed(d, WithAttrs(items[d], all)), made) /\ uids' = u
    BY <1>2 DEF QuoteWith, Expands
  <2>2. \A c \in DOMAIN made : c \in {u} \X CompanionKinds
    BY QuoteItemMade DEF Made
  <2>3. ASSUME NEW c \in DOMAIN made, c[2] = "fn" PROVE Has(made[c].attrs, "ItemQuote")
    <3> DEFINE attrs0 == <<<<"NeverErased">>, <<"Uid", u>>, <<"ItemQuote", q[3]>>>>
               it == Item("fn", <<u, "const">>, attrs0, <<>>, Unit, q[4])
    <3>1. Has(attrs0, "ItemQuote")
      <4>1. 3 \in DOMAIN attrs0 /\ attrs0[3] = <<"ItemQuote", q[3]>>
        OBVIOUS
      <4> QED BY <4>1 DEF Has
    <3> HIDE DEF attrs0
    <3>2. it.attrs = attrs0
      BY DEF Item
    <3> HIDE DEF it
    <3>3. made = IF ~ QuoteBuilt(q[2]) THEN NoItems ELSE Wrapped(u, parent, it)
      BY DEF QuoteItem, it, attrs0
    <3>4. c = <<u, "fn">> /\ made[c] = it
      <4>1. c \in {u} \X CompanionKinds
        BY <2>2
      <4>2. c = <<u, "fn">>
        BY <2>3, <4>1
      <4>3. made = Wrapped(u, parent, it)
        BY <3>3 DEF NoItems
      <4> HIDE DEF made
      <4> QED BY <4>2, <4>3 DEF Wrapped
    <3> QED BY <3>1, <3>2, <3>4
  <2>4. <<u, "fn">> \in DOMAIN made \/ Foreign(program[d])
    <3>1. CASE QuoteBuilt(q[2])
      <4>1. made = Wrapped(u, parent, Item("fn", <<u, "const">>,
                     <<<<"NeverErased">>, <<"Uid", u>>, <<"ItemQuote", q[3]>>>>, <<>>, Unit, q[4]))
        BY <3>1 DEF QuoteItem
      <4> QED BY <4>1 DEF Wrapped
    <3>2. CASE ~ QuoteBuilt(q[2])
      BY <3>2 DEF QuoteBuilt
    <3> QED BY <3>1, <3>2
  <2>5. IsSeq(a) /\ IsSeq(Q) /\ IsSeq(Rest(d)) /\ \A i \in 1..Len(a) : a[i] = <<"AssociatedItem", "quote", u>>
    BY AssocAttrFacts, AtMacroFacts DEF Harmless
  <2> HIDE DEF a, made
  <2>6. all = P \o Rest(d)
    <3>1. (a \o Q) \o Rest(d) = a \o (Q \o Rest(d))
      BY <2>5, ConcatRegroups
    <3> QED BY <3>1
  <2>7. /\ IsSeq(P)
        /\ \A i \in 1..Len(P) : (\E j \in 1..Len(a) : P[i] = a[j]) \/ (\E j \in 1..Len(Q) : P[i] = Q[j])
    BY <2>5, ConcatShort
  <2> DEFINE x == <<"AssociatedItem", "quote", u>>
  <2>8. Sourced(program[d], x) /\ Newly(d, made, x)
    <3>1. IsQuoting(x) /\ ~ IsContract(x) /\ ~ IsRefining(x) /\ x[3] = u
      BY DEF IsQuoting, IsContract, IsRefining, DecorationKinds
    <3>2. Sourced(program[d], x)
      BY AssocIsSourced
    <3> HIDE DEF x
    <3> QED BY <2>1, <2>4, <3>1, <3>2 DEF Newly
  <2> HIDE DEF all, P, x
  <2>9. \A i \in 1..Len(P) : P[i] = x \/ \E j \in 1..Len(Q) : P[i] = Q[j]
    BY <2>5, <2>7 DEF x
  <2>10. \A i \in 1..Len(P) : Sourced(program[d], P[i]) /\ Newly(d, made, P[i])
    BY <2>8, <2>9, IdleIsSourced DEF Harmless
  <2> QED BY <2>1, <2>2, <2>3, <2>6, <2>7, <2>10, QuotedFits
<1> QED BY <1>1, <1>2

LEMMA QuoteFits ==
    ASSUME NEW d \in DOMAIN items, IInv, Translated, Fitting(program, items, uids), Grows, Quote(d)
    PROVE  Fitting(program, items', uids')
<1> DEFINE q == Macro(d)
           attrs == Rest(d)
<1>1. AtMacro(d) /\ q[1] \in {"quote"} /\ QuoteWith(d, q, attrs)
  BY ExpandingFacts DEF Quote
<1>2. d \in DOMAIN program
  BY <1>1, OnSource
<1>3. (q[2] # build.backend => Foreign(program[d])) /\ Macro(d)[1] # "refinement_type"
  BY <1>1, <1>2, MacroSourced DEF Sourced, Abroad
<1>4. Harmless(d, <<>>) /\ attrs = <<>> \o Rest(d)
  BY <1>1, AtMacroFacts, EmptyIsSeq, ConcatEmpty DEF Harmless
<1> HIDE DEF q, attrs
<1> QED BY <1>1, <1>2, <1>3, <1>4, QuoteWithFits

LEMMA ReplaceFits ==
    ASSUME NEW d \in DOMAIN items, IInv, Translated, Fitting(program, items, uids), Grows, Replace(d)
    PROVE  Fitting(program, items', uids')
<1> DEFINE q == <<"quote", Macro(d)[2], "Before", Macro(d)[3]>>
           b == Payload(LateSkip)
           attrs == b \o Rest(d)
<1>1. AtMacro(d) /\ Macro(d)[1] \in {"replace"} /\ QuoteWith(d, q, attrs)
  BY ExpandingFacts DEF Replace
<1>2. d \in DOMAIN program
  BY <1>1, OnSource
<1>3. q[2] # build.backend => Foreign(program[d])
  BY <1>1, <1>2, MacroSourced DEF Sourced, Abroad
<1>4. Idle(d, LateSkip)
  BY DEF Idle, LateSkip, Formulaic, Abroad
<1>5. Harmless(d, b)
  BY <1>4, PayloadHarmless
<1>6. attrs = b \o Rest(d)
  OBVIOUS
<1> HIDE DEF q, b, attrs
<1> QED BY <1>1, <1>2, <1>3, <1>5, <1>6, QuoteWithFits

LEMMA OptionsFits ==
    ASSUME NEW d \in DOMAIN items, IInv, Translated, Fitting(program, items, uids), Grows, Options(d)
    PROVE  Fitting(program, items', uids')
<1> DEFINE x == <<"quote", "fstar", "Before", Push>>
           y == <<"quote", "fstar", "After", Pop>>
           P == <<x, y>>
           attrs == P \o Rest(d)
<1>1. AtMacro(d) /\ Macro(d)[1] \in {"options"} /\ Expands(d, attrs, NoItems)
  BY ExpandingFacts DEF Options
<1>2. d \in DOMAIN program
  BY <1>1, OnSource
<1>3. Harmless(d, P)
  <2>1. IsSeq(P) /\ Len(P) = 2 /\ P[1] = x /\ P[2] = y
    BY TwoIsSeq
  <2>2. \A i \in 1..2 : i = 1 \/ i = 2
    OBVIOUS
  <2>3. build.backend # "fstar" => Foreign(program[d])
    BY <1>1, <1>2, MacroSourced DEF Sourced, Abroad
  <2>4. Idle(d, x) /\ Idle(d, y)
    BY <2>3 DEF Idle, Formulaic, Abroad
  <2> HIDE DEF x, y
  <2> QED BY <2>1, <2>2, <2>4 DEF Harmless
<1>4. attrs = P \o Rest(d)
  OBVIOUS
<1> HIDE DEF P, attrs
<1> QED BY <1>1, <1>2, <1>3, <1>4, NothingFits

LEMMA VerificationStatusFits ==
    ASSUME NEW d \in DOMAIN items, IInv, Translated, Fitting(program, items, uids), Grows, VerificationStatus(d)
    PROVE  Fitting(program, items', uids')
<1>1. AtMacro(d) /\ Macro(d)[1] \in {"verification_status"}
  BY ExpandingFacts DEF VerificationStatus
<1>2. d \in DOMAIN program
  BY <1>1, OnSource
<1>3. CASE Macro(d)[2] = "lax"
  <2> DEFINE x == <<"options">>
             P == <<x>>
             attrs == P \o Rest(d)
  <2>1. Expands(d, attrs, NoItems)
    BY <1>3 DEF VerificationStatus
  <2>2. Harmless(d, P)
    <3>1. IsSeq(P) /\ Len(P) = 1 /\ P[1] = x
      BY OneIsSeq
    <3>2. \A i \in 1..1 : i = 1
      OBVIOUS
    <3>3. build.backend # "fstar" => Foreign(program[d])
      BY <1>1, <1>2, MacroSourced DEF Sourced, Abroad
    <3>4. Idle(d, x)
      BY <3>3 DEF Idle, Formulaic, Abroad
    <3> HIDE DEF x
    <3> QED BY <3>1, <3>2, <3>4 DEF Harmless
  <2>3. attrs = P \o Rest(d)
    OBVIOUS
  <2> HIDE DEF P, attrs
  <2> QED BY <1>1, <1>2, <2>1, <2>2, <2>3, NothingFits
<1>4. CASE Macro(d)[2] = "panic_free" /\ items[d].kind \in {"fn", "impl_fn"}
  <2> DEFINE item == items[d]
             rest == Rest(d)
             x == WithAttrs(item, rest)
             new == Admitted(x)
  <2>1. items' = Changed(d, new)
    BY <1>4 DEF VerificationStatus
  <2>2. /\ IsItem(item) /\ IsSeq(rest) /\ Sound(build.how, program, items, uids)
        /\ Framed(program, items, d)
    BY <1>1, <1>2, AtMacroFacts, MacroSourced
  <2>3. Changed(d, new) = Joined(Changed(d, new), NoItems)
    <3>1. items = [c \in DOMAIN items |-> items[c]]
      BY <2>2 DEF Sound, Shape
    <3> HIDE DEF new
    <3>2. Changed(d, new) = [c \in DOMAIN Changed(d, new) |-> Changed(d, new)[c]]
      BY <3>1 DEF Changed
    <3> QED BY <3>2, JoinedNothing
  <2>4. <<>> \o rest = rest
    BY <2>2, ConcatEmpty
  <2>5. program[d].kind # "field"
    BY <1>4, <2>2 DEF Framed
  <2> HIDE DEF item, rest
  <2>6. /\ IsItem(x) /\ x.attrs = rest /\ x.kind = item.kind
        /\ x.inputs = item.inputs /\ x.output = item.output /\ x.parent = item.parent
    BY <2>2, WithAttrsIsItem
  <2> HIDE DEF x
  <2>7. /\ new.attrs = rest /\ new.kind = item.kind
        /\ new.inputs = item.inputs /\ new.output = item.output /\ new.parent = item.parent
    BY <2>6 DEF Admitted, IsItem
  <2> HIDE DEF new
  <2>8. items' = Joined(Changed(d, new), NoItems) /\ DOMAIN NoItems = {}
    BY <2>1, <2>3 DEF NoItems
  <2>9. IsSeq(<<>>) /\ Len(<<>>) = 0
    BY EmptyIsSeq
  <2> DEFINE P == <<>>
  <2>10. /\ IsSeq(P) /\ Len(P) = 0 /\ new.attrs = P \o Rest(d)
    BY <2>4, <2>7, <2>9 DEF rest
  <2>11. \A i \in 1..Len(P) : FALSE
    BY <2>10
  <2> HIDE DEF P
  <2> QED BY <1>1, <1>2, <2>5, <2>7, <2>8, <2>10, <2>11, OneItemFits DEF item
<1>5. CASE Macro(d)[2] # "lax" /\ ~ (Macro(d)[2] = "panic_free" /\ items[d].kind \in {"fn", "impl_fn"})
  <2>1. \E why : Fails(why)
    BY <1>5 DEF VerificationStatus
  <2> QED BY <2>1 DEF Fails
<1> QED BY <1>3, <1>4, <1>5

\* What a formula may name where it is written.
LEMMA SourceNames ==
    ASSUME NEW p \in Programs, NEW d \in DOMAIN p
    PROVE  /\ \A a \in Range(p[d].attrs) :
                 /\ a[1] = "refinement_type" => a[2].names \subseteq {"result"} /\ a[2].futures = {}
                 /\ a[1] = "refine" /\ p[d].kind = "field" =>
                       a[2].names \subseteq InputNames(FieldsIn(p, d)) /\ a[2].futures = {}
           /\ IsProof(p[d]) => p[d].output[2].names \subseteq InputNames(p[d].inputs) \cup ResultNames(p[d])
<1>1. /\ \A a \in ToSet(p[d].attrs) :
            /\ a[1] = "refinement_type" => a[2].names \subseteq {"result"} /\ a[2].futures = {}
            /\ a[1] = "refine" /\ p[d].kind = "field" =>
                  a[2].names \subseteq InputNames(FieldsIn(p, d)) /\ a[2].futures = {}
      /\ IsProof(p[d]) => p[d].output[2].names \subseteq InputNames(p[d].inputs) \cup ResultNames(p[d])
  BY NamesAssumption
<1> QED BY <1>1, RangeIsToSet

LEMMA ProofFits ==
    ASSUME NEW d \in DOMAIN items, IInv, Translated, Fitting(program, items, uids), Grows, Lemma(d),
           items[d].output[1] = "proof"
    PROVE  Fitting(program, items', uids')
<1> DEFINE fn == [items[d] EXCEPT !.output = Unit]
           phi == items[d].output[2]
           parent == items[d].parent
           u == uids + 1
           a == AssocAttr("ensures", u)
           b == Payload(<<"Lemma">>)
           P == a \o b
           attrs == P \o Rest(d)
           new == WithAttrs(fn, attrs)
           made == Decoration(u, parent, "ensures", fn, phi)
           why == WhyNot(parent, "ensures", fn, phi, FALSE)
<1>1. AtMacro(d) /\ Macro(d)[1] \in {"lemma"}
  BY ExpandingFacts DEF Lemma
<1>0. ProofLemma(d, fn, phi, parent)
  <2>1. items[d].output # Unit
    BY DEF Unit
  <2> QED BY <2>1 DEF Lemma
<1>2. CASE why # ""
  <2>1. items' = items /\ uids' = uids
    BY <1>0, <1>2 DEF ProofLemma, Fails
  <2> QED BY <2>1
<1>3. CASE why = ""
  <2>1. items' = Joined(Changed(d, new), made)
    BY <1>0, <1>3 DEF ProofLemma
  <2>2. ~ BadFuture("ensures", RewriteSelf(fn, phi))
    <3>1. DecorationBuilt
      BY DEF DecorationBuilt
    <3> HIDE DEF fn, phi, parent
    <3> QED BY <1>3, <3>1 DEF WhyNot
  <2>3. /\ IsItem(items[d]) /\ d \in DOMAIN program /\ Macro(d) \in Range(program[d].attrs)
    BY <1>1, AtMacroFacts DEF UserOnly
  <2>4. Framed(program, items, d) /\ program \in Programs /\ AreInputs(items[d].inputs)
    BY <1>1, <2>3, MacroSourced
  <2>5. Unit[1] # "proof"
    BY DEF Unit
  <2>6. IsProof(program[d]) /\ items[d].output = program[d].output
    <3>1. items[d].output = program[d].output
      BY <2>4, <2>5 DEF Framed
    <3>2. PICK l \in DOMAIN program[d].attrs : program[d].attrs[l] = Macro(d)
      BY <2>3 DEF Range
    <3>3. Has(program[d].attrs, "lemma")
      BY <1>1, <3>2 DEF Has
    <3> QED BY <3>1, <3>3 DEF IsProof
  <2>7. /\ IsItem(fn) /\ fn.output = Unit /\ fn.parent = items[d].parent /\ fn.kind = items[d].kind
        /\ fn.inputs = items[d].inputs /\ fn.body = items[d].body
    BY <2>3 DEF IsItem
  <2>8. InScope("ensures", fn, phi)
    <3>1. phi.names \subseteq InputNames(program[d].inputs) \cup ResultNames(program[d])
      BY <2>3, <2>4, <2>6, SourceNames
    <3>2. fn.inputs = program[d].inputs
      BY <2>4, <2>7 DEF Framed
    <3>3. \A x \in ResultNames(program[d]) : x = "result" /\ MutInputs(program[d].inputs) = <<>>
      BY <2>6 DEF ResultNames
    <3> HIDE DEF fn, phi
    <3> QED BY <2>4, <2>7, <3>1, <3>2, <3>3 DEF InScope, DecorationKinds
  <2>9. /\ IsSeq(a) /\ \A i \in 1..Len(a) : a[i] = <<"AssociatedItem", "ensures", u>>
        /\ Harmless(d, b) /\ IsSeq(b)
    <3>1. IsSeq(a) /\ \A i \in 1..Len(a) : a[i] = <<"AssociatedItem", "ensures", u>>
      BY AssocAttrFacts
    <3>2. Idle(d, <<"Lemma">>)
      BY DEF Idle, Formulaic, Abroad
    <3>3. Harmless(d, b)
      BY <3>2, PayloadHarmless
    <3> QED BY <3>1, <3>3 DEF Harmless
  <2>10. /\ <<u, "fn">> \in DOMAIN made
         /\ \A c \in DOMAIN made : /\ c \in {u} \X CompanionKinds
                                   /\ c[2] = "fn" => c = <<u, "fn">>
         /\ made[<<u, "fn">>] = DecorationFn(u, "ensures", fn, RewriteSelf(fn, phi))
    <3> HIDE DEF fn, phi, parent, u
    <3> QED BY DecorationParts
  <2> HIDE DEF made, fn, a, b, u, phi
  <2>11. Closed(made[<<u, "fn">>])
    BY <2>2, <2>8, <2>10, DecorationIsClosed
  <2>12. SpeaksFor(program[d], "ensures", made[<<u, "fn">>])
    <3>1. program[d].inputs = fn.inputs /\ AreInputs(fn.inputs)
      BY <2>4, <2>7 DEF Framed
    <3>2. fn.output = IF IsProof(program[d]) THEN Unit ELSE program[d].output
      BY <2>6, <2>7
    <3> QED BY <2>10, <3>1, <3>2, DecorationAnswers
  <2> HIDE DEF attrs
  <2>13. /\ new.attrs = attrs /\ new.inputs = items[d].inputs /\ new.kind = items[d].kind
         /\ new.output = Unit /\ new.parent = items[d].parent /\ new.body = items[d].body
    BY <2>7, WithAttrsIsItem
  <2> HIDE DEF new
  <2>14. /\ IsSeq(P)
         /\ \A i \in 1..Len(P) : \/ \E j \in 1..Len(a) : P[i] = a[j]
                                 \/ \E j \in 1..Len(b) : P[i] = b[j]
    BY <2>9, ConcatShort
  <2> HIDE DEF P
  <2>15. ASSUME NEW i \in 1..Len(P) PROVE Sourced(program[d], P[i]) /\ Newly(d, made, P[i])
    <3>1. CASE \E j \in 1..Len(a) : P[i] = a[j]
      <4>1. P[i] = <<"AssociatedItem", "ensures", u>>
        BY <2>9, <3>1
      <4> QED BY <2>10, <2>12, <4>1, ContractIsNew DEF DecorationKinds
    <3>2. CASE \E j \in 1..Len(b) : P[i] = b[j]
      BY <2>9, <3>2, IdleIsSourced DEF Harmless
    <3> QED BY <2>14, <3>1, <3>2
  <2>16. \A c \in DOMAIN made : /\ c \in {uids + 1} \X CompanionKinds
                                /\ IsFormulaFn(c, made[c]) => Closed(made[c])
    BY <2>10, <2>11 DEF u, IsFormulaFn
  <2>17. new.attrs = P \o Rest(d)
    BY <2>13 DEF attrs
  <2> QED BY <1>1, <2>1, <2>3, <2>6, <2>13, <2>14, <2>15, <2>16, <2>17, OneItemFits
<1> QED BY <1>2, <1>3

LEMMA LemmaFits ==
    ASSUME NEW d \in DOMAIN items, IInv, Translated, Fitting(program, items, uids), Grows, Lemma(d)
    PROVE  Fitting(program, items', uids')
<1>1. AtMacro(d) /\ Macro(d)[1] \in {"lemma"}
  BY ExpandingFacts DEF Lemma
<1>2. d \in DOMAIN program
  BY <1>1, OnSource
<1>3. CASE items[d].output[1] = "proof"
  BY <1>3, ProofFits
<1>4. CASE items[d].output[1] # "proof" /\ items[d].output = Unit
  <2> DEFINE x == <<"Lemma">>
             y == <<"NeverErased">>
             P == Payload(x) \o Payload(y)
             attrs == P \o Rest(d)
  <2>1. Expands(d, attrs, NoItems)
    BY <1>4 DEF Lemma
  <2>2. Harmless(d, P)
    <3>1. Idle(d, x) /\ Idle(d, y)
      BY DEF Idle, Formulaic, Abroad
    <3> HIDE DEF x, y
    <3> QED BY <3>1, PayloadHarmless, BothHarmless
  <2>3. attrs = P \o Rest(d)
    OBVIOUS
  <2> HIDE DEF P, attrs
  <2> QED BY <1>1, <1>2, <2>1, <2>2, <2>3, NothingFits
<1>5. CASE items[d].output[1] # "proof" /\ items[d].output # Unit
  BY <1>5 DEF Lemma, Fails
<1> QED BY <1>3, <1>4, <1>5

\* The newtype goes to its module, and its formula is about the result only.
LEMMA RefinementTypeFits ==
    ASSUME NEW d \in DOMAIN items, IInv, Translated, Fitting(program, items, uids), Grows, RefinementType(d)
    PROVE  Fitting(program, items', uids')
<1>1. AtMacro(d) /\ Macro(d)[1] \in {"refinement_type"}
  BY ExpandingFacts DEF RefinementType
<1> DEFINE u == uids + 1
           moved == [items[d] EXCEPT !.parent = <<u, "mod">>]
           sig == [[items[d] EXCEPT !.inputs = <<>>] EXCEPT !.output = ValueType]
           a == Payload(<<"NewtypeAsRefinement">>)
           b == AssocAttr("ensures", u)
           P == a \o b
           attrs == P \o Rest(d)
           new == WithAttrs(moved, attrs)
           phi == Macro(d)[2]
           more == Decoration(u, <<u, "mod">>, "ensures", sig, phi)
           made == Joined(RefinementItems(u, d), more)
<1>2. d \in DOMAIN program
  BY <1>1, OnSource
<1>3. CASE items[d].output # Positional \/ Len(items[d].inputs) # 1
  BY <1>3 DEF RefinementType, Fails
<1>4. CASE ~ (items[d].output # Positional \/ Len(items[d].inputs) # 1)
  <2>1. items' = Joined(Changed(d, new), made)
    BY <1>4 DEF RefinementType
  <2>2. IsItem(items[d]) /\ Sourced(program[d], Macro(d)) /\ Framed(program, items, d) /\ program \in Programs
    BY <1>1, <1>2, AtMacroFacts, MacroSourced
  <2>3. phi.names \subseteq {"result"} /\ phi.futures = {}
    <3>1. Macro(d) \in Range(program[d].attrs)
      BY <1>1, <2>2 DEF Sourced, Formulaic
    <3> DEFINE m == Macro(d)
    <3>2. m \in Range(program[d].attrs) /\ m[1] = "refinement_type"
      BY <1>1, <3>1
    <3> HIDE DEF m
    <3>3. m[2].names \subseteq {"result"} /\ m[2].futures = {}
      BY <1>2, <2>2, <3>2, SourceNames
    <3> QED BY <3>3 DEF m
  <2>4. /\ IsItem(moved) /\ moved.inputs = items[d].inputs /\ moved.kind = items[d].kind
        /\ moved.output = items[d].output /\ moved.parent = <<u, "mod">>
    BY <2>2 DEF IsItem
  <2>5. sig.inputs = <<>> /\ sig.output = ValueType
    BY <2>2 DEF IsItem
  <2>6. InScope("ensures", sig, phi)
    <3>1. AreInputs(<<>>)
      BY EmptyIsSeq DEF AreInputs
    <3>2. ValueType # Unit
      BY DEF ValueType, Unit
    <3> HIDE DEF sig, phi
    <3> QED BY <2>3, <2>5, <3>1, <3>2 DEF InScope, DecorationKinds
  <2>7. ~ BadFuture("ensures", RewriteSelf(sig, phi))
    <3>1. RewriteSelf(sig, phi).phi.futures = {SelfName(x) : x \in phi.futures}
      <4> HIDE DEF sig, phi
      <4> QED BY DEF RewriteSelf, Expr
    <3> HIDE DEF sig, phi
    <3> QED BY <2>3, <3>1 DEF BadFuture
  <2>8. /\ <<u, "fn">> \in DOMAIN more
        /\ \A c \in DOMAIN more : /\ c \in {u} \X CompanionKinds
                                  /\ c[2] = "fn" => c = <<u, "fn">>
        /\ more[<<u, "fn">>] = DecorationFn(u, "ensures", sig, RewriteSelf(sig, phi))
    <3> HIDE DEF sig, phi, u
    <3> QED BY DecorationParts
  <2> HIDE DEF sig, phi
  <2>9. Closed(more[<<u, "fn">>])
    BY <2>6, <2>7, <2>8, DecorationIsClosed
  <2>10. \A c \in DOMAIN RefinementItems(u, d) : c \in {u} \X CompanionKinds /\ c[2] # "fn"
    BY DEF RefinementItems, CompanionKinds
  <2> HIDE DEF more
  <2>11. /\ DOMAIN made = DOMAIN RefinementItems(u, d) \cup DOMAIN more
         /\ \A c \in DOMAIN made : c[2] = "fn" => made[c] = more[c]
         /\ <<u, "mod">> \in DOMAIN made /\ made[<<u, "mod">>].parent = items[d].parent
    <3> DEFINE r == RefinementItems(u, d)
    <3>1. \A c \in DOMAIN r : c[2] # "fn"
      BY <2>10
    <3>a. <<u, "mod">> \in DOMAIN r /\ r[<<u, "mod">>].parent = items[d].parent
      BY DEF RefinementItems, Item
    <3> HIDE DEF r
    <3>2. /\ DOMAIN Joined(r, more) = DOMAIN r \cup DOMAIN more
          /\ \A c \in DOMAIN Joined(r, more) : c[2] = "fn" => Joined(r, more)[c] = more[c]
          /\ \A c \in DOMAIN r : Joined(r, more)[c] = r[c]
      BY <3>1 DEF Joined
    <3> QED BY <3>2, <3>a DEF r
  <2> HIDE DEF made
  <2>12. \A c \in DOMAIN made : /\ c \in {uids + 1} \X CompanionKinds
                                /\ IsFormulaFn(c, made[c]) => Closed(made[c])
    BY <2>8, <2>9, <2>10, <2>11 DEF IsFormulaFn
  <2>13. <<u, "fn">> \in DOMAIN made
    BY <2>8, <2>11
  <2>14. program[d].kind = "struct"
    <3>1. Macro(d) \in Range(program[d].attrs)
      BY <1>1, <2>2 DEF Sourced, Formulaic
    <3> QED BY <1>1, <1>2, <2>2, <3>1, RangeIsToSet, ProgramsAssumption
  <2>15. /\ Harmless(d, a) /\ IsSeq(a) /\ IsSeq(b)
         /\ \A i \in 1..Len(b) : b[i] = <<"AssociatedItem", "ensures", u>>
    <3>1. IsSeq(b) /\ \A i \in 1..Len(b) : b[i] = <<"AssociatedItem", "ensures", u>>
      BY AssocAttrFacts
    <3>2. Idle(d, <<"NewtypeAsRefinement">>)
      BY DEF Idle, Formulaic, Abroad
    <3>3. Harmless(d, a)
      BY <3>2, PayloadHarmless
    <3> QED BY <3>1, <3>3 DEF Harmless
  <2>21. a = <<<<"NewtypeAsRefinement">>>>
    BY DEF Payload
  <2>22. 1 \in DOMAIN P /\ P[1][1] = "NewtypeAsRefinement"
    <3>1. IsSeq(a) /\ Len(a) = 1 /\ a[1] = <<"NewtypeAsRefinement">>
      BY <2>21, OneIsSeq
    <3> HIDE DEF a, b
    <3>2. IsSeq(a) /\ IsSeq(b) /\ Len(b) \in Nat
      BY <2>15, <3>1, SeqElements
    <3>3. IsSeq(a \o b) /\ Len(a \o b) = Len(a) + Len(b) /\ \A i \in 1..Len(a) : (a \o b)[i] = a[i]
      BY ONLY <3>2, ConcatIsSeq
    <3>4. DOMAIN (a \o b) = 1..Len(a \o b)
      BY ONLY <3>3, SeqElements
    <3> QED BY <3>1, <3>2, <3>3, <3>4
  <2>23. Has(P, "NewtypeAsRefinement")
    BY <2>22 DEF Has
  <2>a. SpeaksFor(program[d], "ensures", made[<<u, "fn">>])
    <3>1. \A post : PostFits(program[d], post)
      BY <2>14 DEF PostFits
    <3>2. made[<<u, "fn">>] = more[<<u, "fn">>]
      BY <2>11, <2>13
    <3>3. Has(more[<<u, "fn">>].attrs, "NeverErased")
      BY <2>8, NotErased
    <3> QED BY <3>1, <3>2, <3>3 DEF SpeaksFor
  <2> HIDE DEF a, b, u
  <2>16. /\ IsSeq(P)
         /\ \A i \in 1..Len(P) : \/ \E j \in 1..Len(a) : P[i] = a[j]
                                 \/ \E j \in 1..Len(b) : P[i] = b[j]
    BY <2>15, ConcatShort
  <2> HIDE DEF P, attrs, moved
  <2>17. /\ new.attrs = attrs /\ new.inputs = items[d].inputs /\ new.kind = items[d].kind
         /\ new.output = items[d].output /\ new.parent = <<u, "mod">>
    BY <2>4, WithAttrsIsItem
  <2> HIDE DEF new
  <2>18. ASSUME NEW i \in 1..Len(P) PROVE Sourced(program[d], P[i]) /\ Newly(d, made, P[i])
    <3>1. CASE \E j \in 1..Len(a) : P[i] = a[j]
      BY <2>15, <3>1, IdleIsSourced DEF Harmless
    <3>2. CASE \E j \in 1..Len(b) : P[i] = b[j]
      <4>1. P[i] = <<"AssociatedItem", "ensures", u>>
        BY <2>15, <3>2
      <4> QED BY <2>13, <2>a, <4>1, ContractIsNew DEF DecorationKinds
    <3> QED BY <2>16, <3>1, <3>2
  <2>19. new.attrs = P \o Rest(d)
    BY <2>17 DEF attrs
  <2>20. program[d].kind # "field"
    BY <2>14
  <2> QED BY <1>1, <1>2, <2>1, <2>11, <2>12, <2>16, <2>17, <2>18, <2>19, <2>20, <2>23, OneItemFits
<1> QED BY <1>3, <1>4

\* The fields in front of a refinement are those that were written.
LEMMA FieldsWritten ==
    ASSUME NEW d, AtMacro(d), Translated, Fitting(program, items, uids), NEW e \in DOMAIN program,
           program[e].kind = "field", items[e].parent \in Within(d)
    PROVE  FieldsUpTo(e) = FieldsIn(program, e)
<1> DEFINE q == items[e].parent
<1>1. /\ program \in Programs /\ d \in DOMAIN items /\ Shape(program, items)
      /\ Companions(program, items, uids) /\ uids \in Nat
  BY AtMacroFacts DEF Sound, Translated
<1>2. q \in DOMAIN items
  BY <1>1, SitesFinite
<1>3. /\ q = program[e].parent /\ items[e].body = program[e].body
  BY DEF Fitting, Framed
<1>4. q \in DOMAIN program
  <2>1. q \in DOMAIN program \cup {NoItem}
    BY <1>1, <1>3, ProgramsAssumption
  <2>2. ASSUME q = NoItem, q \notin DOMAIN program PROVE FALSE
    <3>1. q \in (1..uids) \X CompanionKinds
      BY <1>1, <1>2, <2>2 DEF Companions
    <3>2. q \in Nat \X CompanionKinds
      BY <1>1, <3>1
    <3> QED BY <2>2, <3>2, ProgramsAssumption
  <2> QED BY <2>1, <2>2
<1>5. items[q].inputs = program[q].inputs
  BY <1>4 DEF Fitting, Framed
<1> QED BY <1>3, <1>5 DEF FieldsUpTo, FieldsIn

\* What a refinement becomes names the fields in front of it.
LEMMA RefinementIsClosed ==
    ASSUME NEW u, NEW f, NEW phi, Translated, phi.names \subseteq InputNames(FieldsUpTo(f)), phi.futures = {}
    PROVE  LET made == Refinement(u, f, phi)
           IN  /\ Closed(made[<<u, "fn">>]) /\ \A c \in DOMAIN made : c[2] = "fn" => c = <<u, "fn">>
               /\ made[<<u, "fn">>].parent = <<u, "const">> /\ <<u, "const">> \in DOMAIN made
               /\ made[<<u, "const">>].parent = items[items[f].parent].parent
<1> DEFINE it == Item("fn", <<u, "const">>, <<<<"Uid", u>>, LateSkip>>, FieldsUpTo(f), ValueType, phi)
           parent == items[items[f].parent].parent
           made == Refinement(u, f, phi)
<1>1. made = Wrapped(u, parent, it)
  BY DEF Refinement
<1>2. it.inputs = FieldsUpTo(f) /\ it.body = phi /\ it.parent = <<u, "const">>
  BY DEF Item
<1> HIDE DEF made, it, parent
<1>3. /\ made[<<u, "fn">>] = it /\ \A c \in DOMAIN made : c[2] = "fn" => c = <<u, "fn">>
      /\ <<u, "const">> \in DOMAIN made /\ made[<<u, "const">>].parent = parent
  BY <1>1 DEF Wrapped, Wrapper, Item
<1>4. Closed(it)
  BY <1>2 DEF Closed
<1> QED BY <1>2, <1>3, <1>4 DEF made, parent

\* Each place that draws a uid is on an item of the source, with a formula that
\* was written there.
LEMMA DrawnSource ==
    ASSUME NEW d, AtMacro(d), Translated, Fitting(program, items, uids), NEW s \in Drawn(d)
    PROVE  LET e == s[1]
               a == items[e].attrs[s[2]]
           IN  /\ e \in DOMAIN program /\ e \in Within(d) /\ s[2] \in 1..Len(items[e].attrs)
               /\ Sourced(program[e], a) /\ Framed(program, items, e) /\ program \in Programs
               /\ \/ s \in TraitSpecs(d) /\ a[1] \in DecorationKinds
                  \/ a[1] = "refine" /\ program[e].kind = "field" /\ items[e].parent \in Within(d)
<1> DEFINE e == s[1]
           k == s[2]
           a == items[e].attrs[k]
<1>1. /\ program \in Programs /\ d \in DOMAIN items /\ Shape(program, items)
      /\ Companions(program, items, uids)
  BY AtMacroFacts DEF Sound, Translated
<1>2. Within(d) \subseteq DOMAIN items
  BY <1>1, SitesFinite
<1>3. s \in Sites(d) /\ items[e].kind \in {"trait_fn", "field"}
  BY DEF Drawn, TraitSpecs, Refinements
<1>4. e \in Within(d) /\ k \in DOMAIN items[e].attrs
  <2>1. \E m \in Within(d) : \E l \in DOMAIN items[m].attrs : s = <<m, l>>
    BY <1>3 DEF Sites
  <2> QED BY <2>1
<1>5. e \in DOMAIN items /\ IsSeq(items[e].attrs) /\ k \in 1..Len(items[e].attrs)
  BY <1>1, <1>2, <1>4, SeqElements DEF Shape
<1>6. e \in DOMAIN program
  <2>1. SUFFICES ASSUME e \notin DOMAIN program PROVE FALSE
    OBVIOUS
  <2>2. IsCompanion(items, e)
    BY <1>1, <1>5, <2>1 DEF Companions
  <2>3. items[e].kind \in {"mod", "const", "fn", "impl"}
    BY <2>2 DEF IsCompanion
  <2> QED BY <1>3, <2>3
<1>7. Sourced(program[e], a) /\ Framed(program, items, e)
  BY <1>5, <1>6 DEF Fitting
<1>8. CASE s \in TraitSpecs(d)
  <2>1. a[1] \in DecorationKinds
    BY <1>8 DEF TraitSpecs
  <2> QED BY <1>1, <1>4, <1>5, <1>6, <1>7, <1>8, <2>1
<1>9. CASE s \in Refinements(d)
  <2>1. a[1] = "refine" /\ items[e].kind = "field" /\ items[e].parent \in Within(d)
    BY <1>9 DEF Refinements
  <2> QED BY <1>1, <1>4, <1>5, <1>6, <1>7, <2>1 DEF Framed
<1> QED BY <1>8, <1>9 DEF Drawn

\* What is made there.
MadeFor(role, e, u, made) ==
    /\ role \in DecorationKinds => SpeaksFor(program[e], role, made[<<u, "fn">>])
    /\ role = "refine" => /\ program[e].kind = "field"
                          /\ made[<<u, "fn">>].parent = <<u, "const">> /\ <<u, "const">> \in DOMAIN made
                          /\ made[<<u, "const">>].parent = items[program[e].parent].parent

LEMMA MadeAtFits ==
    ASSUME NEW d, AtMacro(d), Translated, Fitting(program, items, uids), NEW s \in Drawn(d),
           s \in TraitSpecs(d) => WhyNotAt(d, s) = ""
    PROVE  LET made == MadeAt(d, s)
               c0 == <<UidAt(d, s), "fn">>
           IN  /\ Closed(made[c0]) /\ \A c \in DOMAIN made : c[2] = "fn" => c = c0
               /\ MadeFor(items[s[1]].attrs[s[2]][1], s[1], UidAt(d, s), made)
<1> DEFINE e == s[1]
           a == items[e].attrs[s[2]]
           u == UidAt(d, s)
           made == MadeAt(d, s)
           fn == items[e]
<1>1. /\ e \in DOMAIN program /\ Sourced(program[e], a) /\ Framed(program, items, e) /\ program \in Programs
      /\ \/ s \in TraitSpecs(d) /\ a[1] \in DecorationKinds
         \/ a[1] = "refine" /\ program[e].kind = "field" /\ items[e].parent \in Within(d)
  BY DrawnSource
<1>2. CASE a[1] = "refine" /\ program[e].kind = "field" /\ items[e].parent \in Within(d)
  <2>1. made = Refinement(u, e, a[2])
    BY <1>2 DEF MadeAt
  <2>2. a \in Range(program[e].attrs)
    BY <1>1, <1>2 DEF Sourced, Formulaic
  <2>3. FieldsUpTo(e) = FieldsIn(program, e)
    BY <1>1, <1>2, FieldsWritten
  <2> HIDE DEF a, e, u, made
  <2>4. a[2].names \subseteq InputNames(FieldsUpTo(e)) /\ a[2].futures = {}
    BY <1>1, <1>2, <2>2, <2>3, SourceNames
  <2>5. /\ Closed(made[<<u, "fn">>]) /\ \A c \in DOMAIN made : c[2] = "fn" => c = <<u, "fn">>
        /\ made[<<u, "fn">>].parent = <<u, "const">> /\ <<u, "const">> \in DOMAIN made
        /\ made[<<u, "const">>].parent = items[items[e].parent].parent
    <3> DEFINE r == Refinement(u, e, a[2])
    <3>1. /\ Closed(r[<<u, "fn">>]) /\ \A c \in DOMAIN r : c[2] = "fn" => c = <<u, "fn">>
          /\ r[<<u, "fn">>].parent = <<u, "const">> /\ <<u, "const">> \in DOMAIN r
          /\ r[<<u, "const">>].parent = items[items[e].parent].parent
      BY ONLY Translated, <2>4, RefinementIsClosed
    <3>2. made = r
      BY <2>1
    <3> HIDE DEF r
    <3> QED BY <3>1, <3>2
  <2>6. items[e].parent = program[e].parent
    BY <1>1, <1>2 DEF Framed
  <2>7. MadeFor(a[1], e, u, made)
    BY <1>2, <2>5, <2>6 DEF MadeFor, DecorationKinds
  <2> QED BY <2>5, <2>7 DEF a, e, u, made
<1>3. CASE s \in TraitSpecs(d) /\ a[1] \in DecorationKinds
  <2> DEFINE parent == items[d].parent
             role == a[1]
             phi == a[2]
  <2>1. made = Decoration(u, parent, role, fn, phi)
    BY <1>3 DEF MadeAt, DecorationKinds
  <2>2. a \in Range(program[e].attrs)
    BY <1>1, <1>3 DEF Sourced, Formulaic, DecorationKinds
  <2>3. ~ BadFuture(role, RewriteSelf(fn, phi))
    <3>1. DecorationBuilt /\ role # "refine"
      BY <1>3 DEF DecorationBuilt, DecorationKinds
    <3>2. WhyNot(parent, role, fn, phi, TRUE) = ""
      BY <1>3, <3>1 DEF WhyNotAt
    <3> HIDE DEF parent, role, fn, phi
    <3> QED BY <3>1, <3>2 DEF WhyNot
  <2>4. /\ fn.inputs = program[e].inputs
        /\ fn.output = program[e].output \/ (IsProof(program[e]) /\ fn.output = Unit)
    BY <1>1 DEF Framed
  <2>5. AreInputs(fn.inputs)
    BY <1>1, <2>4, SourceInputs
  <2>6. role \in DecorationKinds
    BY <1>3
  <2> HIDE DEF made, fn, u, e
  <2>7. /\ InScope(role, fn, phi)
        /\ role = "ensures" => \/ fn.output = IF IsProof(program[e]) THEN Unit ELSE program[e].output
                               \/ IsProof(program[e]) /\ Has(program[e].attrs, "ensures")
    <3> HIDE DEF a
    <3> QED BY <1>1, <2>2, <2>4, <2>6, NamedBy DEF role, phi
  <2> HIDE DEF role, phi, parent
  <2>8. /\ made[<<u, "fn">>] = DecorationFn(u, role, fn, RewriteSelf(fn, phi))
        /\ \A c \in DOMAIN made : c[2] = "fn" => c = <<u, "fn">>
    <3> DEFINE dec == Decoration(u, parent, role, fn, phi)
    <3>1. /\ \A c \in DOMAIN dec : c[2] = "fn" => c = <<u, "fn">>
          /\ dec[<<u, "fn">>] = DecorationFn(u, role, fn, RewriteSelf(fn, phi))
      BY ONLY Translated, DecorationParts
    <3>2. made = dec
      BY <2>1
    <3> HIDE DEF dec
    <3> QED BY <3>1, <3>2
  <2>9. Closed(made[<<u, "fn">>])
    BY <2>3, <2>7, <2>8, DecorationIsClosed
  <2>10. SpeaksFor(program[e], role, made[<<u, "fn">>])
    BY <2>4, <2>5, <2>7, <2>8, DecorationAnswers
  <2>11. MadeFor(role, e, u, made)
    BY <2>6, <2>10 DEF MadeFor, DecorationKinds
  <2> QED BY <2>8, <2>9, <2>11 DEF role, made, u, e
<1> QED BY <1>1, <1>2, <1>3

LEMMA AttributesFits ==
    ASSUME NEW d \in DOMAIN items, IInv, Translated, Fitting(program, items, uids), Grows, Attributes(d)
    PROVE  Fitting(program, items', uids')
<1>1. AtMacro(d) /\ Macro(d)[1] \in {"attributes"} /\ stage = "expand"
  BY ExpandingFacts DEF Attributes
<1>2. CASE \E s \in TraitSpecs(d) : WhyNotAt(d, s) # ""
  <2>1. items' = items /\ uids' = uids
    BY <1>2 DEF Attributes, Fails
  <2> QED BY <2>1
<1>3. CASE ~ \E s \in TraitSpecs(d) : WhyNotAt(d, s) # ""
  <2> DEFINE its2 == items'
             n2 == uids'
  <2>1. its2 = Joined(Visited(d), MadeBy(d)) /\ n2 = uids + Cardinality(Drawn(d))
    BY <1>3 DEF Attributes
  <2>2. d \in DOMAIN program
    BY <1>1, CompanionMacro
  <2> HIDE DEF its2, n2
  <2>3. VisitStep(d, its2, n2)
    BY <1>1, <2>1, <2>2 DEF VisitStep
  <2>4. Visiting(d, its2, n2) /\ VisitedItems(d, its2)
    BY <2>3, VisitingFacts, VisitedItemsFacts
  <2>5. /\ Sound("translated", program, items, uids) /\ DOMAIN program \subseteq DOMAIN items
        /\ \A c \in DOMAIN items : IsSeq(items[c].attrs)
    BY <1>1, AtMacroFacts DEF Sound, Translated, Companions, Shape
  <2>6. /\ DOMAIN its2 = DOMAIN items \cup DOMAIN MadeBy(d)
        /\ \A c \in DOMAIN MadeBy(d) : its2[c] = MadeBy(d)[c]
        /\ \A c \in DOMAIN items \ DOMAIN program : its2[c] = items[c]
    BY <2>4, VisitCompanions, VisitedCompanion DEF VisitedItems
  <2>7. ASSUME NEW s \in Drawn(d)
        PROVE  /\ \A c \in DOMAIN MadeAt(d, s) :
                     c \in DOMAIN MadeBy(d) /\ MadeBy(d)[c] = MadeAt(d, s)[c]
               /\ <<UidAt(d, s), "fn">> \in DOMAIN MadeAt(d, s)
               /\ Closed(MadeAt(d, s)[<<UidAt(d, s), "fn">>])
               /\ \A c \in DOMAIN MadeAt(d, s) : c[2] = "fn" => c = <<UidAt(d, s), "fn">>
               /\ MadeFor(items[s[1]].attrs[s[2]][1], s[1], UidAt(d, s), MadeAt(d, s))
    <3>1. s \in TraitSpecs(d) => WhyNotAt(d, s) = ""
      BY <1>3
    <3>2. /\ Closed(MadeAt(d, s)[<<UidAt(d, s), "fn">>])
          /\ \A c \in DOMAIN MadeAt(d, s) : c[2] = "fn" => c = <<UidAt(d, s), "fn">>
          /\ MadeFor(items[s[1]].attrs[s[2]][1], s[1], UidAt(d, s), MadeAt(d, s))
      BY <1>1, <3>1, MadeAtFits
    <3>3. \A c \in DOMAIN MadeAt(d, s) : c \in DOMAIN MadeBy(d) /\ MadeBy(d)[c] = MadeAt(d, s)[c]
      BY <1>1, <2>1, MadeByFacts
    <3>4. <<UidAt(d, s), "fn">> \in DOMAIN MadeAt(d, s)
      BY <1>1, MadeAtFacts
    <3> QED BY <3>2, <3>3, <3>4
  <2>8. ASSUME NEW c \in DOMAIN its2 \ (DOMAIN program \cup DOMAIN items), IsFormulaFn(c, its2[c])
        PROVE  Closed(its2[c])
    <3>1. c \in DOMAIN MadeBy(d) /\ its2[c] = MadeBy(d)[c] /\ c[2] = "fn"
      BY <2>6, <2>8 DEF IsFormulaFn
    <3>2. PICK s \in Drawn(d) : c \in DOMAIN MadeAt(d, s)
      BY <3>1 DEF MadeBy
    <3> QED BY <2>7, <3>1, <3>2
  <2>9. ASSUME NEW e \in DOMAIN program PROVE Framed(program, its2, e)
    <3>1. Framed(program, items, e) /\ e \in DOMAIN items
      BY <2>5 DEF Fitting
    <3>2. /\ its2[e].kind = items[e].kind /\ its2[e].parent = items[e].parent
          /\ its2[e].inputs = items[e].inputs /\ its2[e].output = items[e].output
          /\ its2[e].body = items[e].body
      BY <2>4, <3>1 DEF VisitedItems
    <3>3. Newtyped(items[e].attrs) => Newtyped(its2[e].attrs)
      BY <2>4, <3>1, VisitNewtyped
    <3> QED BY <3>1, <3>2, <3>3 DEF Framed
  <2>10. ASSUME NEW e \in DOMAIN program, NEW i \in 1..Len(its2[e].attrs)
         PROVE  /\ Justified(program, items, its2, uids, n2, e, its2[e].attrs[i])
                /\ IsQuoting(its2[e].attrs[i]) => its2[e].attrs[i] \in Range(items[e].attrs)
    <3>0. e \in DOMAIN items /\ IsSeq(items[e].attrs)
      BY <2>5
    <3>1. CASE e \notin Within(d)
      <4>1. its2[e] = items[e]
        BY <2>4, <3>0, <3>1 DEF VisitedItems
      <4>2. its2[e].attrs[i] \in Range(items[e].attrs)
        BY <2>10, <3>0, <4>1, SeqElements
      <4> QED BY <4>2 DEF Justified
    <3>2. CASE e \in Within(d)
      <4> DEFINE old == items[e].attrs
                 new == VisitedAttrs(d, e)
                 b == its2[e].attrs[i]
      <4>1. its2[e].attrs = new
        BY <2>4, <3>2 DEF VisitedItems
      <4>2. PICK k \in 1..Len(old) : \E j \in 1..Len(VisitedAttr(d, e, k)) : b = VisitedAttr(d, e, k)[j]
        BY <1>1, <2>10, <3>2, <4>1, VisitedAttrsFacts
      <4> DEFINE a == old[k]
                 v == VisitedAttr(d, e, k)
                 s == <<e, k>>
      <4>3. PICK j \in 1..Len(v) : b = v[j]
        BY <4>2
      <4>4. \/ /\ s \in Drawn(d) /\ a[1] \in Roles
               /\ v[j] = <<"AssociatedItem", a[1], UidAt(d, s)>>
            \/ /\ a[1] \in DecorationKinds
               /\ v[j] = <<"impl_fn_decoration", a[1], a[2]>>
            \/ v[j] = a
        BY <1>1, <3>2, VisitedAttrFacts
      <4>5. CASE s \in Drawn(d) /\ a[1] \in Roles /\ v[j] = <<"AssociatedItem", a[1], UidAt(d, s)>>
        <5> DEFINE u == UidAt(d, s)
        <5>1. b[1] = "AssociatedItem" /\ b[2] = a[1] /\ b[3] = u /\ Sourced(program[e], b)
          BY <4>3, <4>5, AssocIsSourced
        <5>2. items[s[1]].attrs[s[2]] = a /\ s[1] = e
          OBVIOUS
        <5>3. /\ <<u, "fn">> \in DOMAIN its2 /\ its2[<<u, "fn">>] = MadeAt(d, s)[<<u, "fn">>]
              /\ <<u, "const">> \in DOMAIN MadeAt(d, s) =>
                    /\ <<u, "const">> \in DOMAIN its2
                    /\ its2[<<u, "const">>] = MadeAt(d, s)[<<u, "const">>]
          <6> HIDE DEF s
          <6> QED BY <2>6, <2>7, <4>5
        <5>4. MadeFor(a[1], e, u, MadeAt(d, s))
          <6> HIDE DEF s, a
          <6> QED BY <2>7, <4>5, <5>2 DEF u
        <5>5. a[1] = "refine" => items[program[e].parent].parent \in Above(its2, program[e].parent) \cup {NoItem}
          <6> HIDE DEF s, a, b, u
          <6>1. SUFFICES ASSUME program[e].kind = "field"
                PROVE  items[program[e].parent].parent \in Above(its2, program[e].parent) \cup {NoItem}
            BY <5>4 DEF MadeFor
          <6>2. program[e].parent \in DOMAIN items
            BY <2>5, <6>1, ProgramsAssumption DEF Sound
          <6>3. items[program[e].parent].parent \in DOMAIN items \cup {NoItem}
            BY <2>5, <6>2 DEF Sound, Companions
          <6>4. its2[program[e].parent].parent = items[program[e].parent].parent
            BY <2>4, <6>2 DEF VisitedItems
          <6> QED BY <2>6, <6>2, <6>3, <6>4 DEF Above
        <5> HIDE DEF a, b, u
        <5>6. Refers(program, its2, n2, e, b) /\ ~ IsQuoting(b)
          <6>1. IsContract(b) => SpeaksFor(program[e], b[2], its2[<<b[3], "fn">>])
            BY <5>1, <5>3, <5>4 DEF MadeFor, IsContract
          <6>2. IsRefining(b) => program[e].kind = "field" /\ Beside(its2, b[3], program[e].parent)
            BY <5>1, <5>3, <5>4, <5>5 DEF MadeFor, IsRefining, Beside
          <6>3. ~ IsQuoting(b)
            BY <4>5, <5>1 DEF IsQuoting, Roles
          <6> QED BY <6>1, <6>2, <6>3 DEF Refers
        <5> QED BY <5>1, <5>6 DEF Justified, b
      <4>6. CASE a[1] \in DecorationKinds /\ v[j] = <<"impl_fn_decoration", a[1], a[2]>>
        <5>1. Sourced(program[e], a)
          BY DEF Fitting
        <5>2. a \in Range(program[e].attrs)
          BY <4>6, <5>1 DEF Sourced, Formulaic, DecorationKinds
        <5>3. b[1] = "impl_fn_decoration" /\ b[2] = a[1] /\ b[3] = a[2]
          BY <4>3, <4>6
        <5> HIDE DEF a, b
        <5>4. Sourced(program[e], b) /\ ~ IsQuoting(b)
          BY <4>6, <5>2, <5>3 DEF Sourced, IsQuoting, Formulaic, Abroad
        <5>5. Refers(program, its2, n2, e, b)
          BY <5>3 DEF Refers, IsContract, IsRefining, IsQuoting
        <5> QED BY <5>4, <5>5 DEF Justified, b
      <4>7. CASE v[j] = a
        <5>1. b \in Range(old)
          BY <3>0, <4>3, <4>7, SeqElements
        <5> QED BY <5>1 DEF Justified
      <4> QED BY <4>4, <4>5, <4>6, <4>7
    <3> QED BY <3>1, <3>2
  <2>11. \A c \in DOMAIN items \ DOMAIN program : its2[c] = items[c]
    BY <2>6
  <2>12. \A c \in DOMAIN items : Placed(items, its2, c)
    BY <2>4 DEF VisitedItems, Placed
  <2>13. n2 \in Nat /\ uids <= n2
    BY <1>1, <2>1, DrawnFacts
  <2>14. Fitting(program, its2, n2)
    BY <2>5, <2>6, <2>8, <2>9, <2>10, <2>11, <2>12, <2>13, FittingStep
  <2> QED BY <2>14 DEF its2, n2
<1> QED BY <1>2, <1>3

\* A lemma returns nothing once its macro has run.
LEMMA OutputSettled ==
    ASSUME IInv, Translated, Expanded, Fitting(program, items, uids), NEW d \in DOMAIN program
    PROVE  items[d].output = IF IsProof(program[d]) THEN Unit ELSE program[d].output
<1>1. /\ items[d].output = program[d].output \/ (IsProof(program[d]) /\ items[d].output = Unit)
      /\ DOMAIN program \subseteq DOMAIN items
  BY DEF Fitting, Framed, IInv, Sound, Companions, Translated
<1>2. ~ Has(items[d].attrs, "lemma")
  BY <1>1 DEF IInv, NoneLeft, Expanded, Has, MacroTags
<1>3. ~ (items[d].output[1] = "proof" /\ Has(program[d].attrs, "lemma"))
  BY <1>2 DEF IInv, Sound, Attached, Translated
<1>4. ASSUME IsProof(program[d]), items[d].output = program[d].output PROVE FALSE
  BY <1>3, <1>4 DEF IsProof
<1> QED BY <1>1, <1>4

\* What the postconditions of an item say is what the engine applies them to.
LEMMA PostconditionHolds ==
    ASSUME IInv, Translated, Expanded, Fitting(program, items, uids),
           NEW d \in DOMAIN program, NEW u \in UidsOf(d, "ensures")
    PROVE  \/ items[d].kind = "struct" \/ items[d].output = <<"alias">>
           \/ IsProof(program[d]) /\ Has(program[d].attrs, "ensures")
           \/ \E k \in DOMAIN items[d].inputs : items[d].inputs[k] = ByMut("self")
           \/ items[<<u, "fn">>].post = EngineOutput(d)
<1> DEFINE item == program[d]
           post == items[<<u, "fn">>].post
           output == IF IsProof(item) THEN Unit ELSE item.output
           muts == MutInputs(item.inputs)
<1>1. /\ program \in Programs /\ d \in DOMAIN items /\ IsSeq(items[d].attrs)
  BY DEF IInv, Sound, Companions, Translated, Shape
<1>2. items[d].kind = item.kind /\ items[d].inputs = item.inputs
  BY DEF Fitting, Framed
<1>3. items[d].output = output
  BY OutputSettled
<1>4. PICK k \in 1..Len(items[d].attrs) :
         /\ items[d].attrs[k][1] = "AssociatedItem" /\ items[d].attrs[k][2] = "ensures"
         /\ items[d].attrs[k][3] = u
  <2>1. \E k \in DOMAIN items[d].attrs :
           /\ items[d].attrs[k][1] = "AssociatedItem"
           /\ items[d].attrs[k][2] = "ensures" /\ items[d].attrs[k][3] = u
    BY DEF UidsOf, AssociatedUids
  <2> QED BY <1>1, <2>1, SeqElements
<1>5. PostFits(item, post)
  <2>1. Refers(program, items, uids, d, items[d].attrs[k])
    BY DEF Fitting
  <2> QED BY <1>4, <2>1 DEF Refers, SpeaksFor, IsContract, DecorationKinds
<1>6. IsSeq(muts)
  BY <1>1, SourceInputs, MutFacts DEF AreInputs
<1>7. LastInput(muts, output) = EngineOutput(d)
  <2> HIDE DEF muts, output
  <2>1. MutInputs(items[d].inputs) = muts
    BY <1>2 DEF muts
  <2> QED BY <1>3, <1>6, <2>1, GivenBack DEF EngineOutput
<1>8. ASSUME item.output = <<"alias">> PROVE output = <<"alias">>
  <2>1. item.output[1] # "proof"
    BY <1>8
  <2> QED BY <1>8, <2>1 DEF IsProof
<1> HIDE DEF output, muts
<1>9. \/ item.kind = "struct" \/ item.output = <<"alias">>
      \/ IsProof(item) /\ Has(item.attrs, "ensures")
      \/ \E j \in DOMAIN item.inputs : item.inputs[j] = ByMut("self")
      \/ post = LastInput(muts, output)
  BY <1>5 DEF PostFits, muts, output
<1> HIDE DEF item, post
<1> QED BY <1>2, <1>3, <1>7, <1>8, <1>9 DEF item, post

\* The formulas fit, where a package is translated, from the first macro on.
Fits == Translated => Fitting(program, items, uids)

LEMMA InitFits == Init => Fits
<1> SUFFICES ASSUME Init PROVE Fitting(program, items, uids)
  BY DEF Fits
<1>1. program \in Programs /\ items = program
  BY DEF Init
<1>2. ASSUME NEW d \in DOMAIN program, NEW k \in 1..Len(program[d].attrs)
      PROVE  Sourced(program[d], program[d].attrs[k]) /\ program[d].attrs[k][1] # "AssociatedItem"
  <2> DEFINE a == program[d].attrs[k]
  <2>1. IsSeq(program[d].attrs) /\ a[1] # "AssociatedItem"
    BY <1>1, SourceAttrs
  <2>2. a \in Range(program[d].attrs)
    BY <2>1, SeqElements
  <2>3. a[1] \in (MacroTags \ {"impl_fn_decoration"}) \cup {"refine", "doc"}
    BY <1>1, <2>2, RangeIsToSet, ProgramsAssumption
  <2>4. a[1] # "impl_fn_decoration"
    BY <2>3
  <2> HIDE DEF a
  <2>5. a[1] \notin {"Uid", "ItemStatus"}
    <3> HIDE DEF a
    <3> QED BY <2>3 DEF MacroTags, DecorationKinds, Markers
  <2>7. Abroad(a) => Foreign(program[d])
    BY <2>2 DEF Foreign
  <2>6. Sourced(program[d], a)
    BY <2>1, <2>2, <2>4, <2>5, <2>7 DEF Sourced
  <2> QED BY <2>1, <2>6 DEF a
<1>3. \A d \in DOMAIN program : Framed(program, items, d)
  BY <1>1 DEF Framed
<1>4. \A d \in DOMAIN program : \A k \in 1..Len(program[d].attrs) :
         ~ IsQuoting(program[d].attrs[k]) /\ Refers(program, items, uids, d, program[d].attrs[k])
  BY <1>2 DEF Refers, IsContract, IsRefining, IsQuoting
<1> QED BY <1>1, <1>2, <1>3, <1>4 DEF Fitting

\* No macro starts the engine, or changes what is written or how it is compiled.
Keeps == stage' = stage /\ program' = program /\ build' = build

Draws(d) == \/ uids' = uids \/ uids' = uids + 1
            \/ Expanding(d, {"attributes"}) /\ uids' = uids + Cardinality(Drawn(d))

LEMMA ExpandKeeps == ASSUME NEW d, Expand(d) PROVE stage = "expand" /\ Keeps /\ Draws(d)
<1>1. ASSUME NEW why, Fails(why) PROVE Keeps /\ Draws(d)
  BY <1>1 DEF Fails, Keeps, Draws
<1>2. ASSUME NEW attrs, NEW made, Expands(d, attrs, made) PROVE Keeps
  BY <1>2 DEF Expands, Keeps
<1>3. ASSUME NEW tags, Expanding(d, tags) PROVE stage = "expand"
  BY <1>3 DEF Expanding
<1>4. ASSUME NEW parent, NEW role, NEW phi, NEW attrs, NEW fn, NEW self_type,
             DecorateWith(d, parent, role, phi, attrs, fn, self_type)
      PROVE  Keeps /\ Draws(d)
  BY <1>1, <1>2, <1>4 DEF DecorateWith, Draws
<1>5. ASSUME NEW q, NEW attrs, QuoteWith(d, q, attrs) PROVE Keeps /\ Draws(d)
  BY <1>1, <1>2, <1>5 DEF QuoteWith, Draws
<1>6. CASE Mark(d)
  BY <1>2, <1>3, <1>6 DEF Mark, Draws
<1>7. CASE Decorate(d)
  BY <1>1, <1>3, <1>4, <1>7 DEF Decorate
<1>8. CASE ImplFnDecoration(d)
  BY <1>3, <1>4, <1>8 DEF ImplFnDecoration
<1>9. CASE Lemma(d)
  <2>1. ASSUME NEW fn, NEW phi, NEW parent, ProofLemma(d, fn, phi, parent) PROVE Keeps /\ Draws(d)
    BY <1>1, <2>1 DEF ProofLemma, Keeps, Draws
  <2> QED BY <1>1, <1>2, <1>3, <1>9, <2>1 DEF Lemma, Draws
<1>10. CASE Quote(d)
  BY <1>3, <1>5, <1>10 DEF Quote
<1>11. CASE Replace(d)
  BY <1>3, <1>5, <1>11 DEF Replace
<1>12. CASE Options(d)
  BY <1>2, <1>3, <1>12 DEF Options, Draws
<1>13. CASE VerificationStatus(d)
  BY <1>1, <1>2, <1>3, <1>13 DEF VerificationStatus, Draws, Keeps
<1>14. CASE Attributes(d)
  BY <1>1, <1>3, <1>14 DEF Attributes, Keeps, Draws
<1>15. CASE RefinementType(d)
  BY <1>1, <1>3, <1>15 DEF RefinementType, Keeps, Draws
<1>16. CASE Dummy(d)
  BY <1>16 DEF Dummy, Keeps, Draws
<1> QED BY <1>6, <1>7, <1>8, <1>9, <1>10, <1>11, <1>12, <1>13, <1>14, <1>15, <1>16 DEF Expand

LEMMA StillFits ==
    build' = build /\ Fitting(program', items', uids') => Fitting(program, items, uids)'
BY DEF Fitting, Framed, Newtyped, Has, Sourced, Abroad, Foreign, Refers

LEMMA FitsStep == IInv /\ Fits /\ [Next]_vars => Fits'
<1> SUFFICES ASSUME IInv, Fits, [Next]_vars, Translated' PROVE Fitting(program, items, uids)'
  BY DEF Fits
<1>1. ASSUME items' = items, program' = program, build' = build, uids' = uids
      PROVE  Fitting(program, items, uids)'
  <2>1. Fitting(program, items, uids)
    BY <1>1 DEF Fits, Translated
  <2>2. Fitting(program', items', uids')
    BY <1>1, <2>1
  <2> QED BY <1>1, <2>2, StillFits
<1>2. ASSUME NEW d \in DOMAIN items, Expand(d) PROVE Fitting(program, items, uids)'
  <2>1. program' = program /\ build' = build /\ Translated /\ Draws(d)
    BY <1>2, ExpandKeeps DEF Translated, Keeps
  <2>2. Fitting(program, items, uids)
    BY <2>1 DEF Fits
  <2>3. ~ Dummy(d)
    BY <2>1 DEF Dummy, Translated
  <2>4. Grows
    <3>1. uids \in Nat /\ uids' \in Nat
      BY NextStep DEF IInv, Sound
    <3>2. Expanding(d, {"attributes"}) /\ uids' = uids + Cardinality(Drawn(d)) => uids <= uids'
      BY ExpandingFacts, DrawnFacts
    <3> QED BY <2>1, <3>1, <3>2 DEF Draws, Grows
  <2>5. Fitting(program, items', uids')
    BY <1>2, <2>1, <2>2, <2>3, <2>4, MarkFits, DecorateFits, ImplFnDecorationFits, LemmaFits, QuoteFits,
       ReplaceFits, OptionsFits, VerificationStatusFits, AttributesFits, RefinementTypeFits DEF Expand
  <2>6. Fitting(program', items', uids')
    BY <2>1, <2>5
  <2> QED BY <2>1, <2>6, StillFits
<1>3. CASE Resolve
  BY <1>1, <1>3 DEF Resolve, Fails, expansion
<1>4. CASE UNCHANGED vars \/ (\E cs \in ClauseLists : Start(cs)) \/ ImportThirItems \/ ApplyPhases \/ Translate
  BY <1>1, <1>4 DEF vars, Start, ImportThirItems, ApplyPhases, Translate, expansion
<1> QED BY <1>2, <1>3, <1>4 DEF Next, Expansion

LEMMA FitsHolds == Spec => []Fits
<1>1. SelectionInit => Fits
  BY InitFits DEF SelectionInit
<1> QED BY <1>1, FitsStep, ItemsAreSound, PTL DEF Spec

\* Every formula is closed where the macro put it, and every postcondition is
\* applied to what the engine applies it to: for any programs and builds.
THEOREM FormulasFit == Spec => []FormulaFits
<1>2. IInv /\ Fits => FormulaFits
  <2> SUFFICES ASSUME IInv, Fits PROVE FormulaIsClosed /\ PostconditionFits
    BY DEF FormulaFits
  <2>1. PostconditionFits
    BY PostconditionHolds DEF PostconditionFits, Fits
  <2>2. ASSUME NEW c \in DOMAIN items, IsFormula(c) PROVE Closed(items[c])
    <3>1. c \in DOMAIN items \ DOMAIN program /\ IsFormulaFn(c, items[c])
      BY <2>2 DEF IsFormula, IsFormulaFn
    <3>2. CASE Translated
      BY <3>1, <3>2 DEF Fits, Fitting
    <3>3. CASE ~ Translated
      BY <3>1, <3>3 DEF IInv, Sound, NoTrace, IsFormulaFn, Translated
    <3> QED BY <3>2, <3>3
  <2>3. FormulaIsClosed
    BY <2>2 DEF FormulaIsClosed, Closed, LastOf, InputNames
  <2> QED BY <2>1, <2>3
<1> QED BY <1>2, FitsHolds, ItemsAreSound, PTL

-----------------------------------------------------------------------------
(* The attributes of what is imported *)

LEMMA AncestorsFacts ==
    ASSUME Shape(program, items), Companions(program, items, uids), NEW d \in DOMAIN items
    PROVE  /\ IsSeq(Enclosing(d)) /\ Ancestors(d) = Range(Enclosing(d)) /\ Ancestors(d) \subseteq DOMAIN items
<1>1. /\ Enclosing(d) \in Seq(DOMAIN items \cup {NoItem})
      /\ \A k \in 1..Len(Enclosing(d)) : Enclosing(d)[k] \in DOMAIN items
  BY EnclosingFacts DEF Shape, Companions
<1>2. IsSeq(Enclosing(d))
  BY <1>1, SeqIsSeq
<1>3. Ancestors(d) = Range(Enclosing(d))
  BY RangeIsToSet DEF Ancestors
<1> QED BY <1>1, <1>2, <1>3, SeqElements

LEMMA ItemAttrsFacts ==
    ASSUME Shape(program, items), Companions(program, items, uids), NEW d \in DOMAIN items
    PROVE  /\ IsSeq(ItemAttrs(d)) /\ IsSeq(Own(d))
           /\ \A a : a \in Range(ItemAttrs(d)) <=>
                 \/ a \in Range(Own(d))
                 \/ /\ a[1] \notin {"Uid", "AssociatedItem"}
                    /\ \E e \in Ancestors(d) : a \in Range(Own(e))
<1> DEFINE up == Enclosing(d)
           ss == [k \in DOMAIN up |-> Own(up[k])]
           enclosing == Flat(ss)
           K == {a \in ToSet(enclosing) : a[1] \notin {"Uid", "AssociatedItem"}}
<1>1. ItemAttrs(d) = Own(d) \o Among(enclosing, K)
  BY DEF ItemAttrs
<1>2. \A e \in DOMAIN items : IsSeq(Own(e))
  BY DEF Shape, Own
<1>3. IsSeq(up) /\ DOMAIN up = 1..Len(up) /\ Len(up) \in Nat /\ Ancestors(d) = Range(up)
      /\ \A k \in 1..Len(up) : up[k] \in DOMAIN items
  BY AncestorsFacts, SeqElements
<1>4. IsSeq(ss) /\ Len(ss) = Len(up) /\ \A k \in 1..Len(up) : ss[k] = Own(up[k])
  <2>1. ss = [k \in 1..Len(up) |-> ss[k]] /\ \A k \in 1..Len(up) : ss[k] = Own(up[k])
    BY <1>3
  <2> HIDE DEF ss
  <2> QED BY <2>1, <1>3, FunctionIsSeq
<1> HIDE DEF up, ss
<1>5. AreSeqs(ss)
  BY <1>2, <1>3, <1>4 DEF AreSeqs
<1>6. IsSeq(enclosing) /\ Range(enclosing) = Elements(ss) /\ ToSet(enclosing) = Range(enclosing)
  BY <1>5, FlatIsSeq, FlatRange, RangeIsToSet
<1>7. \A a : a \in Elements(ss) <=> \E e \in Ancestors(d) : a \in Range(Own(e))
  <2>1. \A e : e \in Ancestors(d) <=> \E k \in 1..Len(up) : up[k] = e
    BY <1>3, SeqElements
  <2>2. \A a : a \in Elements(ss) <=> \E k \in 1..Len(up) : a \in Range(Own(up[k]))
    BY <1>4 DEF Elements
  <2> QED BY <2>1, <2>2
<1>8. IsSeq(Among(enclosing, K)) /\ Range(Among(enclosing, K)) = Range(enclosing) \cap K
  <2> HIDE DEF enclosing, K
  <2> QED BY <1>6, AmongIsRange
<1>9. \A a : a \in K <=> a \in Range(enclosing) /\ a[1] \notin {"Uid", "AssociatedItem"}
  BY <1>6
<1> DEFINE more == Among(enclosing, K)
<1> HIDE DEF enclosing, K
<1>10. IsSeq(Own(d) \o more) /\ Range(Own(d) \o more) = Range(Own(d)) \cup Range(more)
  BY <1>2, <1>8, ConcatShort, ConcatRange
<1> QED BY <1>1, <1>2, <1>6, <1>7, <1>8, <1>9, <1>10

LEMMA ItemLinks ==
    ASSUME Shape(program, items), Companions(program, items, uids), NEW d \in DOMAIN items
    PROVE  SameLinks(ItemAttrs(d), Own(d))
BY ItemAttrsFacts, RangeLinks

\* What an import is made of: its own links, those of its parts, and its attributes
\* with what encloses it.
LEMMA ImportedParts ==
    ASSUME Shape(program, items), Companions(program, items, uids), NEW cs, NEW i \in DOMAIN Imported(cs)
    PROVE  LET x == Imported(cs)[i]
           IN  /\ i \in DOMAIN items
               /\ \E by_hax \in BOOLEAN : x.attrs = WithErased(by_hax, ItemAttrs(i))
               /\ SameLinks(x.attrs, Own(i))
               /\ x.kind = "fn" <=> items[i].kind \in {"fn", "const", "impl_fn"}
               /\ x.kind = "nothing" <=> items[i].kind = "mod"
               /\ x.kind # "quote"
               /\ \A e \in DOMAIN x.subs :
                     /\ e \in Subs(i) /\ x.subs[e] = Part(e) /\ items[i].kind \in {"struct", "trait", "impl"}
                     /\ SameLinks(x.subs[e].attrs, Own(e))
                     /\ items[i].kind = "struct" => ~ Has(ItemAttrs(i), "Erased")
<1> DEFINE x == Imported(cs)[i]
           k == items[i].kind
<1>1. /\ i \in TopLevel \/ i \in Methods
      /\ i \in TopLevel => x = ImportItem(cs, i)
      /\ i \in Methods => x = ImportMethod(cs, i)
  BY ImportedFacts
<1>2. i \in DOMAIN items
  BY <1>1 DEF TopLevel, Methods
<1>3. \A e \in Subs(i) : e \in DOMAIN items /\ SameLinks(Part(e).attrs, Own(e))
  <2>1. \A e \in Subs(i) : e \in DOMAIN items
    BY DEF Subs
  <2>2. \A e : SameLinks(Own(e), Own(e))
    BY DEF SameLinks
  <2>3. \A e : Part(e).attrs = IF items[e].kind = "field" THEN Own(e) ELSE ItemAttrs(e)
    BY DEF Part
  <2> QED BY <2>1, <2>2, <2>3, ItemLinks
<1> DEFINE hax == TypeOnly(cs, i) /\ k \in {"fn", "impl"}
           attrs == WithErased(hax, ItemAttrs(i))
           erased == Has(attrs, "Erased")
           body == IF erased /\ ~ Has(attrs, "NeverErased") THEN Dropped ELSE items[i].body
           parts == IF erased THEN <<>> ELSE PartsOf(i)
<1>4. i \in TopLevel =>
         /\ k \in {"fn", "const", "struct", "trait", "impl", "mod"}
         /\ k \in {"fn", "const"} => x = EngineItem("fn", attrs, items[i].uses, body, <<>>)
         /\ k = "struct" => x = EngineItem("struct", attrs, items[i].uses, items[i].output, parts)
         /\ k = "trait" => x = EngineItem("trait", attrs, items[i].uses, Unit, PartsOf(i))
         /\ k = "impl" => x = EngineItem("impl", attrs, items[i].uses, Unit, parts)
         /\ k = "mod" => x = EngineItem("nothing", attrs, {}, Unit, <<>>)
  BY <1>1 DEF ImportItem, TopLevel
<1>5. i \in Methods =>
         /\ k = "impl_fn"
         /\ \E h \in BOOLEAN : \E b : x = EngineItem("fn", WithErased(h, ItemAttrs(i)), items[i].uses, b, <<>>)
  BY <1>1 DEF ImportMethod, Methods, TypeOnly
<1>6. k = "struct" => attrs = ItemAttrs(i)
  BY DEF WithErased
<1>7. DOMAIN PartsOf(i) = Subs(i) /\ \A e \in Subs(i) : PartsOf(i)[e] = Part(e)
  BY DEF PartsOf
<1>8. DOMAIN <<>> = {}
  OBVIOUS
<1>9. hax \in BOOLEAN
  BY DEF TypeOnly
<1> HIDE DEF hax, attrs, body, x, k
<1>10. \E by_hax \in BOOLEAN : x.attrs = WithErased(by_hax, ItemAttrs(i))
  <2>1. CASE i \in TopLevel
    <3>1. x.attrs = attrs
      BY <1>4, <2>1, EngineItemFacts
    <3> QED BY <1>9, <3>1 DEF attrs
  <2>2. CASE i \in Methods
    BY <1>5, <2>2, EngineItemFacts
  <2> QED BY <1>1, <2>1, <2>2
<1>11. SameLinks(x.attrs, Own(i))
  <2>1. PICK by_hax \in BOOLEAN : x.attrs = WithErased(by_hax, ItemAttrs(i))
    BY <1>10
  <2>2. SameLinks(x.attrs, ItemAttrs(i)) /\ SameLinks(ItemAttrs(i), Own(i))
    BY <1>2, <2>1, ItemAttrsFacts, ItemLinks, ErasedLinks
  <2> QED BY <2>2 DEF SameLinks
<1>12. /\ x.kind = "fn" <=> k \in {"fn", "const", "impl_fn"}
       /\ x.kind = "nothing" <=> k = "mod"
       /\ x.kind # "quote"
  <2>1. CASE i \in TopLevel
    BY <1>4, <2>1, EngineItemFacts
  <2>2. CASE i \in Methods
    BY <1>5, <2>2, EngineItemFacts
  <2> QED BY <1>1, <2>1, <2>2
<1>13. /\ DOMAIN x.subs # {} => k \in {"struct", "trait", "impl"}
       /\ \A e \in DOMAIN x.subs : e \in Subs(i) /\ x.subs[e] = Part(e)
       /\ k = "struct" /\ DOMAIN x.subs # {} => ~ erased
  <2>1. CASE i \in TopLevel
    <3>1. x.subs \in {<<>>, PartsOf(i)} /\ (x.subs # <<>> => k \in {"struct", "trait", "impl"})
          /\ (k = "struct" => x.subs = parts)
      BY <1>4, <2>1, EngineItemFacts
    <3> QED BY <1>7, <1>8, <3>1
  <2>2. CASE i \in Methods
    <3>1. x.subs = <<>>
      BY <1>5, <2>2, EngineItemFacts
    <3> QED BY <1>8, <3>1
  <2> QED BY <1>1, <2>1, <2>2
<1>14. \A e \in DOMAIN x.subs :
          /\ e \in Subs(i) /\ x.subs[e] = Part(e) /\ k \in {"struct", "trait", "impl"}
          /\ SameLinks(x.subs[e].attrs, Own(e))
          /\ k = "struct" => ~ Has(ItemAttrs(i), "Erased")
  BY <1>3, <1>6, <1>13
<1> QED BY <1>2, <1>10, <1>11, <1>12, <1>14 DEF x, k

\* The items of a package that is translated, once no macro is left.
Known == /\ Sound(build.how, program, items, uids) /\ build.how = "translated" /\ NoneLeft(items)
         /\ Fitting(program, items, uids)

LEMMA KnownFacts ==
    ASSUME Known
    PROVE  /\ program \in Programs /\ uids \in Nat
           /\ Shape(program, items) /\ Companions(program, items, uids) /\ Attached(program, items, uids)
           /\ DOMAIN program \subseteq DOMAIN items
           /\ \A d \in DOMAIN items : IsSeq(Own(d)) /\ Own(d) = items[d].attrs
           /\ \A u \in 1..uids, kind \in CompanionKinds : <<u, kind>> \notin DOMAIN program /\ <<u, kind>> # NoItem
<1>1. /\ program \in Programs /\ uids \in Nat
      /\ Shape(program, items) /\ Companions(program, items, uids) /\ Attached(program, items, uids)
  BY DEF Known, Sound
<1>2. \A u \in 1..uids, kind \in CompanionKinds : <<u, kind>> \notin DOMAIN program /\ <<u, kind>> # NoItem
  <2> TAKE u \in 1..uids, kind \in CompanionKinds
  <2>1. <<u, kind>> \in Nat \X CompanionKinds
    BY <1>1
  <2> QED BY <1>1, <2>1, ProgramsAssumption
<1> QED BY <1>1, <1>2 DEF Companions, Shape, Own

\* What the attributes of a companion link, and its status.
LEMMA CompanionOwn ==
    ASSUME Known, NEW c \in DOMAIN items \ DOMAIN program
    PROVE  /\ c \in (1..uids) \X CompanionKinds /\ c = <<c[1], c[2]>>
           /\ \A u : <<"Uid", u>> \in Range(Own(c)) <=> c = <<u, "fn">>
           /\ \A a \in Range(Own(c)) :
                 /\ a[1] # "AssociatedItem"
                 /\ a[1] = "ItemStatus" /\ a[2] = "late_skip" => a = LateSkip
                 /\ a[1] = "Erased" => FALSE
           /\ c[2] = "fn" => items[c].kind = "fn"
           /\ c[2] = "mod" => items[c].kind = "mod"
           /\ items[c].kind \in {"mod", "const", "fn", "impl"}
<1> DEFINE item == items[c]
           u == c[1]
           own == Own(c)
<1>1. /\ IsCompanion(items, c) /\ c \in (1..uids) \X CompanionKinds /\ IsSeq(own) /\ own = item.attrs
      /\ NoneLeft(items)
  BY KnownFacts DEF Companions, Known
<1>2. c = <<u, c[2]>>
  BY <1>1
<1>3. \A v : c = <<v, "fn">> <=> v = u /\ c[2] = "fn"
  BY <1>2
<1> DEFINE uid == <<"Uid", u>>
           Told(a) == \/ a = uid \/ a = LateSkip \/ a = <<"ItemStatus", "excluded">>
                      \/ a[1] \in {"NeverErased", "Language", "ItemQuote", "exclude"}
           Fine == /\ \A a \in Range(own) : Told(a)
                   /\ uid \in Range(own) <=> c[2] = "fn"
                   /\ c[2] = "fn" => item.kind = "fn"
                   /\ c[2] = "mod" => item.kind = "mod"
                   /\ item.kind \in {"mod", "const", "fn", "impl"}
<1>4. ASSUME NEW a, Told(a)
      PROVE  /\ a[1] # "AssociatedItem" /\ a[1] # "Erased"
             /\ a[1] = "ItemStatus" /\ a[2] = "late_skip" => a = LateSkip
             /\ \A v : a = <<"Uid", v>> => v = u
  <2>1. \A v : <<"Uid", v>>[1] = "Uid" /\ <<"Uid", v>>[2] = v
    OBVIOUS
  <2>2. CASE a = uid
    BY <2>1, <2>2
  <2>3. CASE a = LateSkip
    BY <2>1, <2>3 DEF LateSkip
  <2>4. CASE a[1] \in {"NeverErased", "Language", "ItemQuote", "exclude"}
    BY <2>1, <2>4
  <2>5. CASE a = <<"ItemStatus", "excluded">>
    BY <2>1, <2>5
  <2> QED BY <1>4, <2>2, <2>3, <2>4, <2>5
<1>5. /\ Told(uid) /\ Told(LateSkip) /\ Told(<<"NeverErased">>) /\ Told(<<"Language">>) /\ Told(<<"exclude">>)
      /\ Told(<<"ItemStatus", "excluded">>) /\ \A a : a[1] = "ItemQuote" => Told(a) /\ a # uid
      /\ uid \notin {LateSkip, <<"NeverErased">>, <<"Language">>, <<"exclude">>, <<"ItemStatus", "excluded">>}
  BY DEF LateSkip
<1> HIDE DEF own, uid, Told
<1>6. ASSUME c[2] = "mod" /\ item.kind = "mod" /\ own = <<>> PROVE Fine
  <2>1. Range(own) = {}
    BY <1>6, RangeEmpty
  <2> QED BY <1>6, <2>1
<1>7. ASSUME c[2] = "const" /\ item.kind = "const" /\ own = <<LateSkip>> PROVE Fine
  <2>1. Range(own) = {LateSkip}
    BY <1>7, OneIsSeq, FewElements
  <2> QED BY <1>5, <1>7, <2>1
<1>8. ASSUME c[2] = "future" /\ item.kind = "fn" /\ own = <<LateSkip, <<"Language">>>> PROVE Fine
  <2>1. Range(own) = {LateSkip, <<"Language">>}
    BY <1>8, TwoIsSeq, FewElements
  <2> QED BY <1>5, <1>8, <2>1
<1>9. ASSUME c[2] = "fn" /\ item.kind = "fn" /\ own = <<uid, LateSkip>> PROVE Fine
  <2>1. Range(own) = {uid, LateSkip}
    BY <1>9, TwoIsSeq, FewElements
  <2> QED BY <1>5, <1>9, <2>1
<1>10. ASSUME c[2] = "fn" /\ item.kind = "fn" /\ own = DecorationAttrs(u) PROVE Fine
  <2>2. Range(own) = {uid, LateSkip, <<"NeverErased">>}
    BY <1>10, DecorationAttrsFacts, FewElements DEF uid
  <2> QED BY <1>5, <1>10, <2>2
<1>11. ASSUME c[2] = "fn", item.kind = "fn",
              Len(own) = 3, own[1] = <<"NeverErased">>, own[2] = uid, own[3][1] = "ItemQuote"
       PROVE  Fine
  <2>1. Range(own) = {<<"NeverErased">>, uid, own[3]}
    BY <1>1, <1>11, FewElements
  <2> QED BY <1>5, <1>11, <2>1
<1>12. ASSUME c[2] \in {"Refinement", "Deref", "RefineAs"}, item.kind = "impl",
              own = <<<<"exclude">>>> \/ own = <<<<"ItemStatus", "excluded">>>>
       PROVE  Fine
  <2>1. Range(own) = {<<"exclude">>} \/ Range(own) = {<<"ItemStatus", "excluded">>}
    BY <1>12, OneIsSeq, FewElements
  <2> QED BY <1>5, <1>12, <2>1
<1>13. Fine
  BY <1>1, <1>6, <1>7, <1>8, <1>9, <1>10, <1>11, <1>12 DEF IsCompanion, uid, DecorationAttrs
<1>14. \A v : <<"Uid", v>> \in Range(own) <=> v = u /\ c[2] = "fn"
  BY <1>4, <1>13 DEF uid
<1>15. \A a \in Range(own) : /\ a[1] # "AssociatedItem" /\ a[1] # "Erased"
                             /\ a[1] = "ItemStatus" /\ a[2] = "late_skip" => a = LateSkip
  BY <1>4, <1>13
<1>16. \A v : <<"Uid", v>> \in Range(own) <=> c = <<v, "fn">>
  BY <1>3, <1>14
<1> QED BY <1>1, <1>2, <1>13, <1>15, <1>16 DEF own

\* What the attributes of any item say.
LEMMA OwnFacts ==
    ASSUME Known, NEW i \in DOMAIN items
    PROVE  /\ \A u : <<"Uid", u>> \in Range(Own(i)) <=> i \notin DOMAIN program /\ i = <<u, "fn">>
           /\ \A a \in Range(Own(i)) : a[1] = "ItemStatus" /\ a[2] = "late_skip" => a = LateSkip
<1>1. CASE i \notin DOMAIN program
  BY <1>1, CompanionOwn
<1>2. CASE i \in DOMAIN program
  <2>1. ASSUME NEW a \in Range(Own(i)) PROVE Sourced(program[i], a)
    <3>1. IsSeq(Own(i)) /\ Own(i) = items[i].attrs
      BY KnownFacts
    <3>2. PICK k \in 1..Len(items[i].attrs) : items[i].attrs[k] = a
      BY <3>1, SeqElements
    <3> QED BY <1>2, <3>2 DEF Known, Fitting
  <2>2. \A u : <<"Uid", u>>[1] = "Uid"
    OBVIOUS
  <2> QED BY <1>2, <2>1, <2>2 DEF Sourced
<1> QED BY <1>1, <1>2

\* Items with the links of their own.
Alike(its) == DOMAIN its \subseteq DOMAIN items /\ \A i \in DOMAIN its : SameLinks(its[i].attrs, Own(i))

LEMMA UidFacts ==
    ASSUME Known, NEW its, Alike(its)
    PROVE  /\ \A i \in DOMAIN its : \A u : HasUid(its, i, u) <=> i \notin DOMAIN program /\ i = <<u, "fn">>
           /\ \A attrs : \A i : i \in UidAssociatedItems(its, attrs) <=>
                 /\ i \in DOMAIN its \ DOMAIN program
                 /\ \E a \in AssociatedUids(attrs) : i = <<a[2], "fn">>
<1>1. ASSUME NEW i \in DOMAIN its, NEW u
      PROVE  HasUid(its, i, u) <=> i \notin DOMAIN program /\ i = <<u, "fn">>
  <2>1. i \in DOMAIN items /\ SameLinks(its[i].attrs, Own(i)) /\ IsSeq(Own(i))
    BY KnownFacts DEF Alike
  <2>2. HasUid(its, i, u) <=> <<"Uid", u>> \in Range(Own(i))
    BY <2>1, LinksFacts DEF HasUid, SameLinks
  <2> QED BY <2>1, <2>2, OwnFacts
<1>2. \A attrs : \A i : i \in UidAssociatedItems(its, attrs) <=>
                    i \in DOMAIN its /\ \E a \in AssociatedUids(attrs) : HasUid(its, i, a[2])
  BY DEF UidAssociatedItems
<1> QED BY <1>1, <1>2

\* The links of an item of the source, and what they lead to.
LEMMA SourceLinks ==
    ASSUME Known, NEW d \in DOMAIN items, NEW z \in AssociatedUids(Own(d))
    PROVE  /\ d \in DOMAIN program /\ z = <<z[1], z[2]>> /\ z[1] \in Roles \cup {"quote"} /\ z[2] \in 1..uids
           /\ \E k \in 1..Len(items[d].attrs) :
                 /\ items[d].attrs[k][1] = "AssociatedItem" /\ z = <<items[d].attrs[k][2], items[d].attrs[k][3]>>
                 /\ Refers(program, items, uids, d, items[d].attrs[k])
           /\ z[1] \in Roles => <<z[2], "fn">> \in DOMAIN items
           /\ z[1] = "quote" => <<z[2], "fn">> \in DOMAIN items \/ Foreign(program[d])
           /\ z[2] \in UidsOf(d, z[1])
<1> DEFINE attrs == items[d].attrs
<1>1. IsSeq(attrs) /\ Own(d) = attrs
  BY KnownFacts
<1>2. PICK a \in Range(attrs) : a[1] = "AssociatedItem" /\ z = <<a[2], a[3]>>
  BY <1>1, LinksFacts
<1>3. PICK k \in 1..Len(attrs) : attrs[k] = a
  BY <1>1, SeqElements
<1>4. d \in DOMAIN program
  BY <1>1, <1>2, CompanionOwn
<1>5. Sourced(program[d], a) /\ Refers(program, items, uids, d, a)
  BY <1>3, <1>4 DEF Known, Fitting
<1>6. a[2] \in Roles \cup {"quote"}
  BY <1>2, <1>5 DEF Sourced
<1>7. ASSUME a[2] = "quote" PROVE a[3] \in 1..uids /\ (<<a[3], "fn">> \in DOMAIN items \/ Foreign(program[d]))
  BY <1>2, <1>5, <1>7 DEF Refers, IsQuoting
<1>8. ASSUME a[2] \in Roles PROVE a[3] \in 1..uids /\ <<a[3], "fn">> \in DOMAIN items
  <2>1. k \in Attachments(items, d) /\ UidOf(items, d, k) = a[3]
    BY <1>2, <1>3, <1>8 DEF Attachments, UidOf
  <2> QED BY <1>4, <2>1, KnownFacts DEF Attached
<1>9. z[1] = a[2] /\ z[2] = a[3]
  BY <1>2
<1>10. z[2] \in UidsOf(d, z[1])
  BY <1>1 DEF UidsOf
<1> QED BY <1>1, <1>2, <1>3, <1>4, <1>5, <1>6, <1>7, <1>8, <1>9, <1>10

-----------------------------------------------------------------------------
(* What comes with an item of the source *)

Excused(d) == \E k \in DOMAIN clauses : clauses[k].kind \in {"+!", "+:"} /\ MatchesNamespace(clauses[k], d)

\* The companions an item names, and those named by it and by its parts.
Linked(e) == {<<z[2], "fn">> : z \in AssociatedUids(Own(e))} \cap DOMAIN items

LinkedWith(d) == Linked(d) \cup UNION {Linked(e) : e \in DOMAIN Imported(clauses)[d].subs}

Complete(S) ==
    /\ S \subseteq DOMAIN Imported(clauses)
    /\ \A d \in S \cap DOMAIN program : Linked(d) \subseteq S /\ (LinkedWith(d) \subseteq S \/ Excused(d))

LEMMA LinkedFacts ==
    ASSUME Known, NEW e \in DOMAIN items, NEW c \in Linked(e)
    PROVE  /\ e \in DOMAIN program /\ c \in DOMAIN items \ DOMAIN program /\ c[2] = "fn"
           /\ c \in TopLevel /\ c \in Nat \X CompanionKinds
<1>1. PICK z \in AssociatedUids(Own(e)) : c = <<z[2], "fn">> /\ c \in DOMAIN items
  BY DEF Linked
<1>2. e \in DOMAIN program /\ z[2] \in 1..uids
  BY SourceLinks
<1>3. uids \in Nat /\ c \notin DOMAIN program
  BY <1>1, <1>2, KnownFacts DEF CompanionKinds
<1>4. c[2] = "fn"
  BY <1>1
<1>5. items[c].kind = "fn"
  BY <1>1, <1>3, <1>4, CompanionOwn
<1>6. c \in Nat \X CompanionKinds
  BY <1>1, <1>2, <1>3 DEF CompanionKinds
<1> QED BY <1>1, <1>2, <1>3, <1>4, <1>5, <1>6 DEF TopLevel

LEMMA LateStatus ==
    ASSUME Known, NEW c \in DOMAIN items \ DOMAIN program, c[2] = "fn", NEW by_hax
    PROVE  Status(WithErased(by_hax, ItemAttrs(c))) = "late_skip"
<1>1. \E k : FirstAt(ItemAttrs(c), k, "late_skip")
  <2>1. c[2] # "mod"
    OBVIOUS
  <2> QED BY <2>1, CompanionStatus DEF Known
<1> QED BY <1>1, FirstErased

LEMMA ImportedAlike == ASSUME Known, NEW cs PROVE Alike(Imported(cs))
<1>1. \A i \in DOMAIN Imported(cs) : i \in DOMAIN items /\ SameLinks(Imported(cs)[i].attrs, Own(i))
  BY KnownFacts, ImportedParts
<1> QED BY <1>1 DEF Alike

\* What an item names is associated with it when it is imported.
LEMMA LinkedAreAssociated ==
    ASSUME Known, NEW d \in DOMAIN Imported(clauses)
    PROVE  LET L == Imported(clauses)
           IN  /\ Linked(d) \subseteq UidAssociatedItems(L, L[d].attrs)
               /\ LinkedWith(d) \subseteq Associated(L, d) /\ LinkedWith(d) \subseteq DOMAIN L
               /\ \A c \in LinkedWith(d) : c \in Nat \X CompanionKinds
<1> DEFINE L == Imported(clauses)
<1>1. Alike(L) /\ DOMAIN L = TopLevel \cup Methods /\ d \in DOMAIN items
  BY ImportedAlike, ImportedFacts, KnownFacts, ImportedParts
<1>2. /\ SameLinks(L[d].attrs, Own(d))
      /\ \A e \in DOMAIN L[d].subs : e \in DOMAIN items /\ SameLinks(L[d].subs[e].attrs, Own(e))
  BY KnownFacts, ImportedParts DEF Subs
<1> HIDE DEF L
<1>3. ASSUME NEW e \in DOMAIN items, NEW attrs, SameLinks(attrs, Own(e)), NEW c \in Linked(e)
      PROVE  c \in UidAssociatedItems(L, attrs) /\ c \in DOMAIN L /\ c \in Nat \X CompanionKinds
  <2>1. c \in TopLevel /\ c \notin DOMAIN program /\ c \in Nat \X CompanionKinds
    BY <1>3, LinkedFacts
  <2>2. \E a \in AssociatedUids(attrs) : c = <<a[2], "fn">>
    BY <1>3 DEF Linked, SameLinks
  <2>3. c \in UidAssociatedItems(L, attrs)
    BY <1>1, <2>1, <2>2, UidFacts
  <2> QED BY <1>1, <2>1, <2>3
<1>4. \A c \in Linked(d) : c \in UidAssociatedItems(L, L[d].attrs) /\ c \in DOMAIN L /\ c \in Nat \X CompanionKinds
  BY <1>1, <1>2, <1>3
<1>5. \A e \in DOMAIN L[d].subs : \A c \in Linked(e) :
         c \in UidAssociatedItems(L, L[d].subs[e].attrs) /\ c \in DOMAIN L /\ c \in Nat \X CompanionKinds
  BY <1>2, <1>3
<1>6. LinkedWith(d) = Linked(d) \cup UNION {Linked(e) : e \in DOMAIN L[d].subs}
  BY DEF LinkedWith, L
<1>7. LinkedWith(d) \subseteq Associated(L, d) /\ LinkedWith(d) \subseteq DOMAIN L
  BY <1>4, <1>5, <1>6 DEF Associated
<1> QED BY <1>4, <1>5, <1>6, <1>7 DEF L

LEMMA ClauseFacts ==
    ASSUME clauses \in ClauseLists
    PROVE  /\ IsSeq(clauses) /\ Len(clauses) \in Nat /\ DOMAIN clauses = 1..Len(clauses)
           /\ \A n \in 1..Len(clauses) :
                 /\ clauses[n] = Clause(clauses[n].kind, clauses[n].names) /\ clauses[n].kind \in ClauseKinds
                 /\ clauses[n].names = Everything \/ \A i \in clauses[n].names : i \notin Nat \X CompanionKinds
<1>1. /\ clauses \in Seq(ToSet(clauses))
      /\ \A c \in ToSet(clauses) :
            /\ c = Clause(c.kind, c.names) /\ c.kind \in ClauseKinds
            /\ c.names = Everything \/ \A i \in c.names : i \notin Nat \X CompanionKinds
  BY ClausesAssumption DEF ClauseKinds
<1>2. IsSeq(clauses)
  BY <1>1, SeqIsSeq
<1> QED BY <1>1, <1>2, SeqElements, RangeIsToSet

\* What is imported is complete.
LEMMA ImportCompletes ==
    ASSUME Known, clauses \in ClauseLists, list = Imported(clauses)
    PROVE  LET S == WithAssociated(list, Selected)
           IN  Complete(DOMAIN list \cap {i \in S : Status(list[i].attrs) # "excluded"})
<1> DEFINE S == WithAssociated(list, Selected)
           K == DOMAIN list \cap {i \in S : Status(list[i].attrs) # "excluded"}
<1>1. /\ Shape(program, items) /\ Companions(program, items, uids) /\ Alike(list)
  BY KnownFacts, ImportedAlike
<1>2. /\ IsSeq(clauses) /\ Len(clauses) \in Nat /\ DOMAIN clauses = 1..Len(clauses)
      /\ \A n \in 1..Len(clauses) :
            /\ clauses[n].kind \in ClauseKinds
            /\ clauses[n].names = Everything \/ \A i \in clauses[n].names : i \notin Nat \X CompanionKinds
  BY ClauseFacts
<1>3. PICK first, second, included : Passes(first, second, included)
  BY <1>1, <1>2, PassesExist
<1>4. /\ Graphs /\ Filtered(clauses, list, list, first) /\ Filtered(clauses, Kept, list, second)
      /\ First = first[Len(clauses)] /\ Selected = second[Len(clauses)].selection \cap DOMAIN Kept
  BY <1>3, PassesFacts DEF Passes
<1>5. /\ IsFiniteSet(DOMAIN list) /\ IsFiniteSet(DOMAIN Kept) /\ DOMAIN Kept = DOMAIN list \cap First.selection
  BY <1>4 DEF Graphs
<1>6. S = Selected \cup UNION {UidAssociatedItems(list, list[i].attrs) : i \in Selected}
  BY DEF WithAssociated
<1>7. ASSUME NEW d \in K \cap DOMAIN program PROVE d \in Selected /\ d \in DOMAIN list /\ d \in DOMAIN Kept
  <2>1. \A i \in Selected : d \notin UidAssociatedItems(list, list[i].attrs)
    BY <1>1, UidFacts
  <2> QED BY <1>4, <1>6, <2>1
<1>8. ASSUME NEW c \in S \cap DOMAIN list, c \notin DOMAIN program, c[2] = "fn" PROVE c \in K
  <2>1. PICK by_hax \in BOOLEAN : list[c].attrs = WithErased(by_hax, ItemAttrs(c))
    BY <1>1, ImportedParts
  <2>2. c \in DOMAIN items
    BY <1>1 DEF Alike
  <2>3. Status(list[c].attrs) = "late_skip"
    BY <1>8, <2>1, <2>2, LateStatus
  <2> QED BY <1>8, <2>3
<1>9. ASSUME NEW d \in K \cap DOMAIN program, NEW c \in LinkedWith(d), c \in S PROVE c \in K
  <2>1. d \in DOMAIN list /\ c \in DOMAIN list
    BY <1>7, LinkedAreAssociated
  <2>2. d \in DOMAIN items /\ \A e \in DOMAIN list[d].subs : e \in DOMAIN items
    BY <1>1, <2>1, ImportedParts DEF Subs, Alike
  <2>3. c \notin DOMAIN program /\ c[2] = "fn"
    BY <2>2, LinkedFacts DEF LinkedWith
  <2> QED BY <1>8, <1>9, <2>1, <2>3
<1>10. ASSUME NEW d \in K \cap DOMAIN program PROVE Linked(d) \subseteq K
  <2>1. Linked(d) \subseteq UidAssociatedItems(list, list[d].attrs) /\ d \in Selected
    BY <1>7, LinkedAreAssociated
  <2>2. Linked(d) \subseteq S
    BY <1>6, <2>1
  <2> QED BY <1>9, <2>2 DEF LinkedWith
<1>11. ASSUME NEW d \in K \cap DOMAIN program, ~ Excused(d) PROVE LinkedWith(d) \subseteq K
  <2>1. /\ LinkedWith(d) \subseteq Associated(list, d) /\ LinkedWith(d) \subseteq DOMAIN list
        /\ \A c \in LinkedWith(d) : c \in Nat \X CompanionKinds
    BY <1>7, LinkedAreAssociated
  <2>2. d \in Selected /\ d \in DOMAIN list /\ d \in DOMAIN Kept
    BY <1>7
  <2>3. \A n \in 1..Len(clauses) : ~ (clauses[n].kind \in {"+!", "+:"} /\ MatchesNamespace(clauses[n], d))
    BY <1>2, <1>11 DEF Excused
  <2>4. LinkedWith(d) \subseteq First.selection
    BY <1>2, <1>4, <1>5, <2>1, <2>2, <2>3, PassBrings
  <2>5. LinkedWith(d) \subseteq DOMAIN Kept
    BY <1>5, <2>1, <2>4
  <2>6. d \in second[Len(clauses)].selection
    BY <1>4, <2>2
  <2>7. LinkedWith(d) \subseteq second[Len(clauses)].selection
    BY <1>2, <1>4, <1>5, <2>1, <2>2, <2>3, <2>5, <2>6, PassBrings
  <2>8. LinkedWith(d) \subseteq S
    BY <1>4, <1>6, <2>5, <2>7
  <2> QED BY <1>9, <2>8
<1>12. K \subseteq DOMAIN Imported(clauses)
  OBVIOUS
<1> HIDE DEF K
<1>13. Complete(K)
  BY <1>10, <1>11, <1>12 DEF Complete
<1> QED BY <1>13 DEF K

-----------------------------------------------------------------------------
(* The engine, stage by stage *)

\* The chosen items as they were imported, what the phases make of them, and what
\* is translated.
Chosen == Keep(Imported(clauses), DOMAIN list)

Phased(its) ==
    IF build.backend # "fstar" THEN its
    ELSE [i \in DOMAIN its |-> IF its[i].kind = "fn" /\ QuoteParents(its, i) # {} THEN AsQuote(its, i)
                               ELSE its[i]]

Translation(its) == [i \in {i \in DOMAIN its : ~ IsLateSkip(its[i].attrs)} |-> Formulas(its, i)]

Staged ==
    /\ stage \notin {"expand", "expanded"} => clauses \in ClauseLists
    /\ stage = "imported" => list = Imported(clauses)
    /\ stage \notin {"expand", "expanded", "imported"} => Complete(DOMAIN list)
    /\ stage = "selected" => list = Chosen
    /\ stage \in {"phases", "translated"} => list = Phased(Chosen)
    /\ stage = "translated" => translated = Translation(list)

LEMMA NowImported == ASSUME NEW cs, items' = items, clauses' = cs PROVE Imported(clauses)' = Imported(cs)
<1>1. TopLevel' = TopLevel /\ Methods' = Methods
  BY DEF TopLevel, Methods
<1>2. \A d : ItemAttrs(d)' = ItemAttrs(d)
  BY DEF ItemAttrs, Own, Enclosing
<1>3. \A d : PartsOf(d)' = PartsOf(d)
  BY <1>2 DEF PartsOf, Part, Subs, Own
<1>4. \A d : TypeOnly(clauses, d)' = TypeOnly(cs, d)
  BY <1>2 DEF TypeOnly, MostPrecise
<1>5. \A d : ImportItem(clauses, d)' = ImportItem(cs, d)
  BY <1>2, <1>3, <1>4 DEF ImportItem
<1>6. \A d : ImportMethod(clauses, d)' = ImportMethod(cs, d)
  BY <1>2, <1>4 DEF ImportMethod
<1> QED BY <1>1, <1>5, <1>6 DEF Imported

LEMMA StillImported == ASSUME items' = items, clauses' = clauses PROVE Imported(clauses)' = Imported(clauses)
BY NowImported

LEMMA StillChosen ==
    ASSUME items' = items, clauses' = clauses, build' = build, DOMAIN list' = DOMAIN list
    PROVE  Chosen' = Chosen /\ Phased(Chosen)' = Phased(Chosen)
<1>1. Chosen' = Chosen
  BY StillImported DEF Chosen, Keep
<1>2. \A i : AsQuote(Chosen, i)' = AsQuote(Chosen, i) /\ QuoteParents(Chosen, i)' = QuoteParents(Chosen, i)
  BY <1>1 DEF AsQuote, QuoteParents, EngineItem, PositionOf, IsLateSkip, Status, Statuses, HasUid, AssociatedUids
<1> QED BY <1>1, <1>2 DEF Phased

LEMMA StillTranslated ==
    ASSUME list' = list, build' = build
    PROVE  Translation(list)' = Translation(list)
<1>1. \A attrs, role : AssociatedExpr(list, attrs, role)' = AssociatedExpr(list, attrs, role)
  BY DEF AssociatedExpr, Found, HasUid, AssociatedUids
<1>2. \A attrs, role : FirstOf(list, attrs, role)' = FirstOf(list, attrs, role)
  BY DEF FirstOf, Found, HasUid, AssociatedUids
<1>3. \A i : Formulas(list, i)' = Formulas(list, i)
  BY <1>1, <1>2 DEF Formulas, PartsRead, IsRecord, Has
<1> QED BY <1>3 DEF Translation, IsLateSkip, Status, Statuses

LEMMA StillComplete ==
    ASSUME items' = items, clauses' = clauses, program' = program, NEW S, Complete(S), DOMAIN list' = S
    PROVE  Complete(DOMAIN list)'
<1>1. Imported(clauses)' = Imported(clauses)
  BY StillImported
<1>2. \A e : Linked(e)' = Linked(e)
  BY DEF Linked, Own, AssociatedUids
<1>3. \A d : LinkedWith(d)' = LinkedWith(d)
  BY <1>1, <1>2 DEF LinkedWith
<1>4. \A d : Excused(d)' <=> Excused(d)
  BY DEF Excused, MatchesNamespace
<1> QED BY <1>1, <1>2, <1>3, <1>4 DEF Complete

LEMMA StagedStep == IInv /\ Fits /\ Staged /\ [Next]_vars => Staged'
<1> SUFFICES ASSUME IInv, Fits, Staged, [Next]_vars PROVE Staged'
  OBVIOUS
<1>1. CASE UNCHANGED vars
  <2>1. /\ items' = items /\ clauses' = clauses /\ list' = list /\ stage' = stage /\ build' = build
        /\ program' = program /\ translated' = translated
    BY <1>1 DEF vars, expansion, engine
  <2>2. /\ Imported(clauses)' = Imported(clauses) /\ Chosen' = Chosen /\ Phased(Chosen)' = Phased(Chosen)
        /\ Translation(list)' = Translation(list)
    BY <2>1, StillImported, StillChosen, StillTranslated
  <2>3. Complete(DOMAIN list) => Complete(DOMAIN list)'
    BY <2>1, StillComplete
  <2> QED BY <2>1, <2>2, <2>3 DEF Staged
<1>2. ASSUME NEW cs \in ClauseLists, Start(cs) PROVE Staged'
  <2>1. stage' = "imported" /\ clauses' = cs /\ list' = Imported(cs) /\ items' = items
    BY <1>2 DEF Start, expansion
  <2>2. Imported(clauses)' = Imported(cs)
    BY <2>1, NowImported
  <2> QED BY <2>1, <2>2 DEF Staged
<1>3. CASE Expansion
  <2>1. stage' \in {"expand", "expanded"}
    BY <1>3, ExpandKeeps DEF Expansion, Resolve, Fails, Keeps
  <2> QED BY <2>1 DEF Staged
<1>4. CASE ImportThirItems
  <2> DEFINE S == WithAssociated(list, Selected)
             K == {i \in S : Status(list[i].attrs) # "excluded"}
  <2>1. /\ stage = "imported" /\ list' = Keep(list, K) /\ stage' = "selected" /\ clauses' = clauses
        /\ items' = items /\ program' = program /\ build' = build
    BY <1>4 DEF ImportThirItems, expansion, Selected
  <2>2. clauses \in ClauseLists /\ list = Imported(clauses) /\ Known
    BY <2>1 DEF Staged, IInv, Fits, Known, Translated
  <2>3. Complete(DOMAIN list \cap K)
    BY <2>2, ImportCompletes
  <2> HIDE DEF K
  <2>4. DOMAIN list' = DOMAIN list \cap K
    BY <2>1 DEF Keep
  <2>5. Complete(DOMAIN list)'
    BY <2>1, <2>3, <2>4, StillComplete
  <2>6. list' = Chosen'
    <3>1. Imported(clauses)' = list
      BY <2>1, <2>2, StillImported
    <3>2. Keep(list, DOMAIN list') = list'
      BY <2>1 DEF Keep
    <3> QED BY <3>1, <3>2 DEF Chosen, Keep
  <2> QED BY <2>1, <2>2, <2>5, <2>6 DEF Staged
<1>5. CASE ApplyPhases
  <2>1. /\ stage = "selected" /\ stage' = "phases" /\ clauses' = clauses
        /\ items' = items /\ program' = program /\ build' = build
        /\ list' = Phased(list)
    BY <1>5 DEF ApplyPhases, expansion, Phased
  <2>2. clauses \in ClauseLists /\ list = Chosen /\ Complete(DOMAIN list)
    BY <2>1 DEF Staged
  <2>3. DOMAIN list' = DOMAIN list
    BY <2>1 DEF Phased
  <2>4. list' = Phased(Chosen)'
    BY <2>1, <2>2, <2>3, StillChosen
  <2>5. Complete(DOMAIN list)'
    BY <2>1, <2>2, <2>3, StillComplete
  <2> QED BY <2>1, <2>2, <2>4, <2>5 DEF Staged
<1>6. CASE Translate
  <2>1. /\ stage = "phases" /\ stage' = "translated" /\ clauses' = clauses /\ list' = list
        /\ items' = items /\ program' = program /\ build' = build
        /\ translated' = Translation(list)
    BY <1>6 DEF Translate, expansion, Translation
  <2>2. clauses \in ClauseLists /\ list = Phased(Chosen) /\ Complete(DOMAIN list)
    BY <2>1 DEF Staged
  <2>3. Phased(Chosen)' = Phased(Chosen) /\ Translation(list)' = Translation(list) /\ Complete(DOMAIN list)'
    BY <2>1, <2>2, StillChosen, StillTranslated, StillComplete
  <2> QED BY <2>1, <2>2, <2>3 DEF Staged
<1> QED BY <1>1, <1>2, <1>3, <1>4, <1>5, <1>6 DEF Next

LEMMA StagedHolds == Spec => []Staged
<1>1. SelectionInit => Staged
  BY DEF SelectionInit, Init, Staged
<1> QED BY <1>1, FitsHolds, StagedStep, ItemsAreSound, PTL DEF Spec

LEMMA SelectionHolds ==
    ASSUME IInv, Staged
    PROVE  SelectionIsExact
<1> SUFFICES ASSUME stage = "imported"
             PROVE  /\ Independent => Documented \cap DOMAIN list \subseteq Selected
                    /\ FinalShallow => Selected \subseteq TransitiveDependencies(SignatureGraph, Documented)
  BY DEF SelectionIsExact, NothingMissing, NothingExtra
<1>1. Shape(program, items) /\ Companions(program, items, uids)
  BY DEF IInv, Sound, Translated
<1>2. \E first, second, included : Passes(first, second, included)
  BY <1>1, ClauseFacts, PassesExist DEF Staged
<1>3. PICK first, second, included : Passes(first, second, included)
  BY <1>2
<1> QED BY <1>3, NothingMissingHolds, NothingExtraHolds

\* What `-i` asks for is what both passes select, where clauses do not meet; and
\* what is added is reached through signatures and contracts only: for any
\* programs, builds and lists of clauses.
THEOREM SelectionMatchesTheClauses == Spec => []SelectionIsExact
<1> QED BY SelectionHolds, StagedHolds, ItemsAreSound, PTL

\* What is settled when the items are translated.
LEMMA Settled ==
    ASSUME IInv, Fits, Staged, stage = "translated"
    PROVE  /\ Known /\ clauses \in ClauseLists /\ Complete(DOMAIN list)
           /\ DOMAIN list \subseteq DOMAIN Imported(clauses)
           /\ DOMAIN Chosen = DOMAIN list /\ \A i \in DOMAIN list : Chosen[i] = Imported(clauses)[i]
           /\ Alike(Chosen) /\ list = Phased(Chosen)
           /\ DOMAIN translated = {i \in DOMAIN list : ~ IsLateSkip(list[i].attrs)}
           /\ \A i \in DOMAIN translated : translated[i] = Formulas(list, i)
<1>1. /\ Known /\ clauses \in ClauseLists /\ Complete(DOMAIN list) /\ list = Phased(Chosen)
      /\ translated = Translation(list)
  BY DEF IInv, Fits, Known, Translated, Staged
<1>2. DOMAIN list \subseteq DOMAIN Imported(clauses)
  BY <1>1 DEF Complete
<1>3. DOMAIN Chosen = DOMAIN list /\ \A i \in DOMAIN list : Chosen[i] = Imported(clauses)[i]
  BY <1>2 DEF Chosen, Keep
<1>4. Alike(Chosen)
  BY <1>1, <1>2, <1>3, ImportedAlike DEF Alike
<1>5. /\ DOMAIN translated = {i \in DOMAIN list : ~ IsLateSkip(list[i].attrs)}
      /\ \A i \in DOMAIN translated : translated[i] = Formulas(list, i)
  BY <1>1 DEF Translation
<1> QED BY <1>1, <1>2, <1>3, <1>4, <1>5

\* A quote keeps its links, and is no longer skipped.
LEMMA QuoteAttrs ==
    ASSUME Known, NEW i \in DOMAIN items, NEW by_hax, NEW attrs, attrs = WithErased(by_hax, ItemAttrs(i))
    PROVE  LET seen == Among(attrs, ToSet(attrs) \ {LateSkip})
           IN  SameLinks(seen, attrs) /\ ~ IsLateSkip(seen)
<1> DEFINE seen == Among(attrs, ToSet(attrs) \ {LateSkip})
           e == <<<<"Erased">>>>
<1>1. /\ IsSeq(ItemAttrs(i))
      /\ \A a \in Range(ItemAttrs(i)) : a[1] = "ItemStatus" /\ a[2] = "late_skip" => a = LateSkip
  <2>1. Shape(program, items) /\ Companions(program, items, uids)
    BY KnownFacts
  <2>2. /\ IsSeq(ItemAttrs(i))
        /\ \A a \in Range(ItemAttrs(i)) : a \in Range(Own(i)) \/ \E d \in Ancestors(i) : a \in Range(Own(d))
    BY <2>1, ItemAttrsFacts
  <2>3. Ancestors(i) \subseteq DOMAIN items
    BY <2>1, AncestorsFacts
  <2> QED BY <2>2, <2>3, OwnFacts
<1>2. IsSeq(attrs) /\ Range(attrs) \subseteq Range(ItemAttrs(i)) \cup {<<"Erased">>}
  <2>1. IsSeq(e) /\ Range(e) = {<<"Erased">>}
    BY OneIsSeq, FewElements
  <2> HIDE DEF e
  <2>2. /\ IsSeq(e \o ItemAttrs(i))
        /\ Range(e \o ItemAttrs(i)) = Range(e) \cup Range(ItemAttrs(i))
    BY <1>1, <2>1, ConcatIsSeq, ConcatRange
  <2>3. attrs = ItemAttrs(i) \/ attrs = e \o ItemAttrs(i)
    BY DEF WithErased, e
  <2> QED BY <1>1, <2>1, <2>2, <2>3
<1>3. \A a \in Range(attrs) : a[1] = "ItemStatus" /\ a[2] = "late_skip" => a = LateSkip
  BY <1>1, <1>2
<1>4. IsSeq(seen) /\ Range(seen) = Range(attrs) \ {LateSkip}
  BY <1>2, AmongIsRange, RangeIsToSet
<1> HIDE DEF seen
<1>5. SameLinks(seen, attrs)
  <2>1. LateSkip[1] = "ItemStatus"
    BY DEF LateSkip
  <2> QED BY <1>2, <1>4, <2>1, RangeLinks
<1>6. Status(seen) # "late_skip"
  <2>1. CASE Statuses(seen) = {}
    BY <2>1 DEF Status
  <2>2. CASE Statuses(seen) # {}
    <3> DEFINE first == CHOOSE k \in Statuses(seen) : \A l \in Statuses(seen) : k <= l
    <3>1. Statuses(seen) \subseteq Nat /\ \A k \in Statuses(seen) : seen[k] \in Range(seen) /\ seen[k][1] = "ItemStatus"
      BY <1>4, SeqElements DEF Statuses
    <3>2. \E k \in Statuses(seen) : \A l \in Statuses(seen) : k <= l
      BY <2>2, <3>1, LeastNatural
    <3>3. first \in Statuses(seen)
      BY <3>2
    <3>4. Status(seen) = seen[first][2]
      BY <2>2 DEF Status
    <3> HIDE DEF first
    <3>5. seen[first] \in Range(attrs) /\ seen[first] # LateSkip /\ seen[first][1] = "ItemStatus"
      BY <1>4, <3>1, <3>3
    <3> QED BY <1>3, <3>4, <3>5
  <2> QED BY <2>1, <2>2
<1> QED BY <1>5, <1>6 DEF IsLateSkip, seen

\* What the phases leave of an item.
LEMMA PhasedFacts ==
    ASSUME IInv, Fits, Staged, stage = "translated", NEW i \in DOMAIN list
    PROVE  LET x == Imported(clauses)[i]
               quoted == build.backend = "fstar" /\ x.kind = "fn" /\ QuoteParents(Chosen, i) # {}
           IN  /\ ~ quoted => list[i] = x
               /\ quoted => list[i].kind = "quote" /\ ~ IsLateSkip(list[i].attrs)
               /\ list[i].body = x.body /\ SameLinks(list[i].attrs, Own(i))
               /\ i \in DOMAIN program => list[i] = x
<1> DEFINE x == Imported(clauses)[i]
           quoted == build.backend = "fstar" /\ x.kind = "fn" /\ QuoteParents(Chosen, i) # {}
           q == AsQuote(Chosen, i)
<1>1. /\ Known /\ i \in DOMAIN Imported(clauses) /\ Chosen[i] = x /\ i \in DOMAIN Chosen
      /\ Alike(Chosen) /\ list = Phased(Chosen)
  BY Settled
<1>2. i \in DOMAIN items /\ SameLinks(x.attrs, Own(i)) /\ \E by_hax \in BOOLEAN : x.attrs = WithErased(by_hax, ItemAttrs(i))
  BY <1>1, KnownFacts, ImportedParts
<1>3. /\ ~ quoted => list[i] = x
      /\ quoted => list[i] = q
  BY <1>1 DEF Phased
<1>4. q.kind = "quote" /\ q.body = x.body /\ q.attrs = Among(x.attrs, ToSet(x.attrs) \ {LateSkip})
  BY <1>1 DEF AsQuote, EngineItem
<1>5. SameLinks(q.attrs, x.attrs) /\ ~ IsLateSkip(q.attrs)
  BY <1>1, <1>2, <1>4, QuoteAttrs
<1>6. i \in DOMAIN program => ~ quoted
  <2>1. i \in DOMAIN program => QuoteParents(Chosen, i) = {}
    BY <1>1, UidFacts DEF QuoteParents
  <2> QED BY <2>1
<1> HIDE DEF x, q
<1>7. SameLinks(list[i].attrs, Own(i)) /\ list[i].body = x.body
  BY <1>2, <1>3, <1>4, <1>5 DEF SameLinks
<1> QED BY <1>3, <1>4, <1>5, <1>6, <1>7 DEF x

\* The items a quote is one of.
LEMMA QuotedBy ==
    ASSUME IInv, Fits, Staged, stage = "translated", NEW u \in 1..uids, <<u, "fn">> \in DOMAIN list,
           NEW d \in DOMAIN program, u \in UidsOf(d, "quote")
    PROVE  QuoteParents(Chosen, <<u, "fn">>) = {d} \cap DOMAIN list
<1> DEFINE c == <<u, "fn">>
<1>1. Known /\ DOMAIN Chosen = DOMAIN list /\ Alike(Chosen)
  BY Settled
<1>2. c \notin DOMAIN program /\ \A v : c = <<v, "fn">> <=> v = u
  BY <1>1, KnownFacts DEF CompanionKinds
<1>3. \A p : p \in QuoteParents(Chosen, c) <=>
               p \in DOMAIN list /\ \E a \in AssociatedUids(Chosen[p].attrs) : a[1] = "quote" /\ HasUid(Chosen, c, a[2])
  BY <1>1 DEF QuoteParents
<1>4. \A v : HasUid(Chosen, c, v) <=> v = u
  BY <1>1, <1>2, UidFacts
<1>5. \A p \in DOMAIN list : p \in DOMAIN items /\ AssociatedUids(Chosen[p].attrs) = AssociatedUids(Own(p))
  BY <1>1 DEF Alike, SameLinks
<1>6. \A p : p \in QuoteParents(Chosen, c) <=>
               p \in DOMAIN list /\ \E a \in AssociatedUids(Own(p)) : a[1] = "quote" /\ a[2] = u
  BY <1>3, <1>4, <1>5
<1>7. \E a \in AssociatedUids(Own(d)) : a[1] = "quote" /\ a[2] = u
  BY DEF UidsOf, Own
<1>8. ASSUME NEW p \in DOMAIN list, NEW a \in AssociatedUids(Own(p)), a[1] = "quote", a[2] = u PROVE p = d
  <2>1. PICK b \in AssociatedUids(Own(d)) : b[1] = "quote" /\ b[2] = u
    BY <1>7
  <2>2. p \in DOMAIN program /\ \E k \in 1..Len(items[p].attrs) :
           items[p].attrs[k][1] = "AssociatedItem" /\ a = <<items[p].attrs[k][2], items[p].attrs[k][3]>>
    BY <1>1, <1>5, <1>8, SourceLinks
  <2>3. \E l \in 1..Len(items[d].attrs) :
           items[d].attrs[l][1] = "AssociatedItem" /\ b = <<items[d].attrs[l][2], items[d].attrs[l][3]>>
    BY <1>1, <2>1, KnownFacts, SourceLinks
  <2>4. PICK k \in 1..Len(items[p].attrs), l \in 1..Len(items[d].attrs) :
           /\ IsQuoting(items[p].attrs[k]) /\ items[p].attrs[k][3] = u
           /\ IsQuoting(items[d].attrs[l]) /\ items[d].attrs[l][3] = u
    BY <1>8, <2>1, <2>2, <2>3 DEF IsQuoting
  <2> QED BY <1>1, <2>2, <2>4 DEF Known, Fitting
<1> QED BY <1>6, <1>7, <1>8

LEMMA QuotesAreTranslated ==
    ASSUME IInv, Fits, Staged, stage = "translated", build.backend = "fstar",
           NEW d \in DOMAIN program, NEW u \in UidsOf(d, "quote"), <<u, "fn">> \in DOMAIN items
    PROVE  <<u, "fn">> \in DOMAIN translated <=> d \in DOMAIN list
<1> DEFINE c == <<u, "fn">>
<1>1. /\ Known /\ Complete(DOMAIN list) /\ DOMAIN list \subseteq DOMAIN Imported(clauses)
      /\ DOMAIN translated = {i \in DOMAIN list : ~ IsLateSkip(list[i].attrs)}
  BY Settled
<1>2. PICK a \in AssociatedUids(Own(d)) : a[1] = "quote" /\ a[2] = u
  BY DEF UidsOf, Own
<1>3. d \in DOMAIN items /\ u \in 1..uids /\ c \in Linked(d)
  BY <1>1, <1>2, KnownFacts, SourceLinks DEF Linked
<1>4. c \notin DOMAIN program /\ c[2] = "fn"
  BY <1>1, <1>3, LinkedFacts
<1>5. d \in DOMAIN list => c \in DOMAIN list
  BY <1>1, <1>3 DEF Complete
<1>6. ASSUME c \in DOMAIN list PROVE ~ IsLateSkip(list[c].attrs) <=> d \in DOMAIN list
  <2> DEFINE x == Imported(clauses)[c]
             quoted == x.kind = "fn" /\ QuoteParents(Chosen, c) # {}
  <2>1. /\ ~ quoted => list[c] = x
        /\ quoted => ~ IsLateSkip(list[c].attrs)
    BY <1>6, PhasedFacts
  <2>2. QuoteParents(Chosen, c) = {d} \cap DOMAIN list
    BY <1>3, <1>6, QuotedBy
  <2>3. items[c].kind = "fn"
    BY <1>1, <1>4, CompanionOwn
  <2>4. x.kind = "fn" /\ \E by_hax \in BOOLEAN : x.attrs = WithErased(by_hax, ItemAttrs(c))
    BY <1>1, <1>6, <2>3, KnownFacts, ImportedParts
  <2>5. Status(x.attrs) = "late_skip"
    BY <1>1, <1>4, <2>4, LateStatus
  <2> HIDE DEF x
  <2> QED BY <2>1, <2>2, <2>4, <2>5 DEF IsLateSkip
<1> QED BY <1>1, <1>5, <1>6

\* In F*, the quotes of an item are translated exactly when the item was kept: for any
\* programs and any lists of clauses.
THEOREM QuotesGoWithTheirItems == Spec => []QuotesFollow
<1>1. IInv /\ Fits /\ Staged => QuotesFollow
  <2> SUFFICES ASSUME IInv, Fits, Staged, stage = "translated", build.backend = "fstar",
                      NEW d \in DOMAIN program, NEW u \in UidsOf(d, "quote"), <<u, "fn">> \in DOMAIN items
               PROVE  IF d \in TopLevel \cup Methods
                      THEN <<u, "fn">> \in DOMAIN translated <=> d \in DOMAIN list
                      ELSE <<u, "fn">> \notin DOMAIN translated
    BY DEF QuotesFollow
  <2>1. <<u, "fn">> \in DOMAIN translated <=> d \in DOMAIN list
    BY QuotesAreTranslated
  <2>2. DOMAIN list \subseteq TopLevel \cup Methods
    BY Settled, ImportedFacts
  <2> QED BY <2>1, <2>2
<1> QED BY <1>1, FitsHolds, StagedHolds, ItemsAreSound, PTL

\* The formulas that attributes name are all in the list, or there is an error.
LEMMA FoundFacts ==
    ASSUME IInv, Fits, Staged, stage = "translated", NEW e \in DOMAIN program, NEW attrs, NEW role,
           AssociatedUids(attrs) \subseteq AssociatedUids(Own(e))
    PROVE  LET there == \A z \in AssociatedUids(attrs) : <<z[2], "fn">> \in DOMAIN list
           IN  Found(list, attrs, role) =
                 IF there THEN {list[<<z[2], "fn">>].body.says : z \in {z \in AssociatedUids(attrs) : z[1] = role}}
                 ELSE {"could not find item"}
<1> DEFINE A == AssociatedUids(attrs)
           B == {z \in A : z[1] = role}
           c(z) == <<z[2], "fn">>
           at(z) == CHOOSE i \in DOMAIN list : HasUid(list, i, z[2])
<1>1. Known /\ DOMAIN list \subseteq DOMAIN Imported(clauses)
  BY Settled
<1>2. Alike(list)
  <2>1. \A i \in DOMAIN list : i \in DOMAIN items /\ SameLinks(list[i].attrs, Own(i))
    BY <1>1, PhasedFacts, ImportedAlike DEF Alike
  <2> QED BY <2>1 DEF Alike
<1>3. ASSUME NEW z \in A
      PROVE  \A i \in DOMAIN list : HasUid(list, i, z[2]) <=> i = c(z)
  <2>1. e \in DOMAIN items /\ z \in AssociatedUids(Own(e))
    BY <1>1, KnownFacts
  <2>2. z[2] \in 1..uids
    BY <1>1, <2>1, SourceLinks
  <2>3. c(z) \notin DOMAIN program
    BY <1>1, <2>2, KnownFacts DEF CompanionKinds
  <2> QED BY <1>1, <1>2, <2>3, UidFacts
<1> DEFINE there == \A z \in A : c(z) \in DOMAIN list
           lost == \E z \in A : ~ \E i \in DOMAIN list : HasUid(list, i, z[2])
<1>4. lost <=> ~ there
  BY <1>3
<1>5. Found(list, attrs, role) = IF lost THEN {"could not find item"} ELSE {list[at(z)].body.says : z \in B}
  BY DEF Found
<1>6. ASSUME there PROVE {list[at(z)].body.says : z \in B} = {list[c(z)].body.says : z \in B}
  <2>1. \A z \in B : at(z) = c(z)
    BY <1>3, <1>6
  <2> HIDE DEF at, B
  <2> QED BY <2>1
<1> HIDE DEF there, lost, at, c, A, B
<1>7. Found(list, attrs, role) = IF there THEN {list[c(z)].body.says : z \in B} ELSE {"could not find item"}
  BY <1>4, <1>5, <1>6
<1> QED BY <1>7 DEF there, c, A, B

\* A companion comes with its body, unless it is erased.
LEMMA CompanionBody ==
    ASSUME Known, NEW c \in DOMAIN items \ DOMAIN program, c[2] = "fn", NEW cs, c \in DOMAIN Imported(cs)
    PROVE  LET body == Imported(cs)[c].body
           IN  \/ body = items[c].body
               \/ /\ body = Dropped /\ ~ Has(Own(c), "NeverErased")
                  /\ TypeOnly(cs, c) \/ Has(ItemAttrs(c), "Erased")
<1> DEFINE attrs == ItemAttrs(c)
           hax == TypeOnly(cs, c) /\ items[c].kind \in {"fn", "impl"}
           seen == WithErased(hax, attrs)
           e == <<<<"Erased">>>>
<1>1. items[c].kind = "fn"
  BY CompanionOwn
<1>2. c \in TopLevel
  BY <1>1 DEF TopLevel
<1>3. Imported(cs)[c] = ImportItem(cs, c)
  BY <1>2, ImportedFacts
<1>4. Imported(cs)[c].body = IF Has(seen, "Erased") /\ ~ Has(seen, "NeverErased") THEN Dropped ELSE items[c].body
  BY <1>1, <1>3, EngineItemFacts DEF ImportItem
<1>5. Shape(program, items) /\ Companions(program, items, uids)
  BY KnownFacts
<1>6. IsSeq(attrs) /\ IsSeq(Own(c)) /\ Range(Own(c)) \subseteq Range(attrs)
  BY <1>5, ItemAttrsFacts
<1>7. seen = attrs \/ (hax /\ seen = e \o attrs)
  BY DEF WithErased
<1>8. IsSeq(seen) /\ Range(attrs) \subseteq Range(seen)
  <2>1. IsSeq(e)
    BY OneIsSeq
  <2> HIDE DEF e, seen, attrs
  <2>2. IsSeq(e \o attrs) /\ Range(attrs) \subseteq Range(e \o attrs)
    BY <1>6, <2>1, ConcatIsSeq, ConcatRange
  <2> QED BY <1>6, <1>7, <2>2
<1> HIDE DEF seen, attrs
<1>9. Has(Own(c), "NeverErased") => Has(seen, "NeverErased")
  BY <1>6, <1>8, LinksFacts
<1>10. Has(seen, "Erased") => TypeOnly(cs, c) \/ Has(attrs, "Erased")
  BY <1>7
<1> QED BY <1>4, <1>9, <1>10 DEF attrs

\* What a formula's companion says in the list.
LEMMA CompanionSays ==
    ASSUME IInv, Fits, Staged, stage = "translated", NEW e \in DOMAIN program, NEW role \in Roles,
           NEW u \in UidsOf(e, role), <<u, "fn">> \in DOMAIN list
    PROVE  /\ items[<<u, "fn">>].body.says \in Written(e, role)
           /\ list[<<u, "fn">>].body \in {items[<<u, "fn">>].body, Dropped}
           /\ list[<<u, "fn">>].body.says \notin Errors
<1> DEFINE c == <<u, "fn">>
<1>1. Known /\ DOMAIN list \subseteq DOMAIN Imported(clauses)
  BY Settled
<1>2. items[c].body.says \in Written(e, role)
  <2>1. Expanded /\ Translated
    BY <1>1 DEF Known, Expanded, Translated
  <2>2. {items[<<v, "fn">>].body.says : v \in UidsOf(e, role)} = Written(e, role)
    BY <2>1, ContractsSettled DEF ContractsAttached
  <2> QED BY <2>2
<1>3. c \in DOMAIN items \ DOMAIN program /\ c[2] = "fn"
  <2>1. PICK z \in AssociatedUids(Own(e)) : z[1] = role /\ z[2] = u
    BY DEF UidsOf, Own
  <2>2. e \in DOMAIN items
    BY <1>1, KnownFacts
  <2>3. u \in 1..uids /\ c \in DOMAIN items
    BY <1>1, <2>1, <2>2, SourceLinks
  <2> QED BY <1>1, <2>3, KnownFacts DEF CompanionKinds
<1>4. list[c].body = Imported(clauses)[c].body
  BY PhasedFacts
<1>5. list[c].body \in {items[c].body, Dropped}
  BY <1>1, <1>3, <1>4, CompanionBody
<1>6. Dropped.says = "dropped"
  BY DEF Dropped, Expr
<1>7. Written(e, role) \cap Errors = {}
  <2>1. program \in Programs
    BY <1>1, KnownFacts
  <2> QED BY <2>1, FormulasAssumption DEF Written
<1>8. "dropped" \notin Errors
  BY DEF Errors
<1> QED BY <1>2, <1>5, <1>6, <1>7, <1>8

\* Nothing is found only where an item's companion is not in the list.
LEMMA NotFound ==
    ASSUME IInv, Fits, Staged, stage = "translated", NEW e \in DOMAIN program, NEW attrs, NEW role \in Roles,
           AssociatedUids(attrs) \subseteq AssociatedUids(Own(e)), Linked(e) \subseteq DOMAIN list,
           Found(list, attrs, role) = {"could not find item"}
    PROVE  Foreign(program[e])
<1> DEFINE A == AssociatedUids(attrs)
           B == {z \in A : z[1] = role}
<1>1. Known /\ e \in DOMAIN items
  BY Settled, KnownFacts
<1>2. CASE \A z \in A : <<z[2], "fn">> \in DOMAIN list
  <2>1. Found(list, attrs, role) = {list[<<z[2], "fn">>].body.says : z \in B}
    BY <1>2, FoundFacts
  <2>2. PICK z \in B : list[<<z[2], "fn">>].body.says = "could not find item"
    BY <2>1
  <2>3. z[2] \in UidsOf(e, role)
    <3>1. z \in AssociatedUids(Own(e)) /\ z[1] = role
      OBVIOUS
    <3> HIDE DEF A, B
    <3> QED BY <1>1, <3>1, SourceLinks
  <2>4. list[<<z[2], "fn">>].body.says \notin Errors
    BY <1>2, <2>3, CompanionSays
  <2> QED BY <2>2, <2>4 DEF Errors
<1>3. CASE \E z \in A : <<z[2], "fn">> \notin DOMAIN list
  <2>1. PICK z \in A : <<z[2], "fn">> \notin DOMAIN list
    BY <1>3
  <2>2. <<z[2], "fn">> \notin DOMAIN items
    BY <2>1 DEF Linked
  <2>3. /\ z[1] \in Roles \cup {"quote"}
        /\ z[1] \in Roles => <<z[2], "fn">> \in DOMAIN items
        /\ z[1] = "quote" => <<z[2], "fn">> \in DOMAIN items \/ Foreign(program[e])
    BY <1>1, <2>1, SourceLinks
  <2> QED BY <2>2, <2>3
<1> QED BY <1>2, <1>3

-----------------------------------------------------------------------------
(* How far up an item is enclosed *)

\* A set of items with what encloses them.
ClosedUp(C) == C \subseteq DOMAIN items /\ \A i \in C : items[i].parent \in C \cup {NoItem}

LEMMA AncestorsWithin ==
    ASSUME Shape(program, items), Companions(program, items, uids), NEW C, ClosedUp(C),
           NEW d \in DOMAIN items, items[d].parent \in C \cup {NoItem}
    PROVE  Ancestors(d) \subseteq C
<1> DEFINE I == DOMAIN items
           N == Cardinality(I)
           Low(e) == items[e].parent \in C \cup {NoItem}
<1>1. N \in Nat
  BY FS_CardinalityType DEF Shape
<1>2. PICK up : Climbs(up)
  BY EnclosingClimbs DEF Shape, Companions
<1>3. \A n \in 0..N : \A e \in I :
         /\ IsSeq(up[n][e])
         /\ up[n][e] = IF n = 0 \/ items[e].parent = NoItem THEN <<>>
                       ELSE <<items[e].parent>> \o up[n - 1][items[e].parent]
  BY <1>2, SeqIsSeq DEF Climbs
<1> HIDE DEF N
<1> DEFINE T == {n \in 0..N : \A e \in I : Low(e) => Range(up[n][e]) \subseteq C}
<1>4. 0 \in T
  <2>1. 0 \in 0..N
    BY <1>1
  <2>2. \A e \in I : up[0][e] = <<>>
    BY <1>3, <2>1
  <2> QED BY <2>1, <2>2, RangeEmpty
<1>5. ASSUME NEW n \in 0..(N - 1), n \in T PROVE n + 1 \in T
  <2>1. n \in 0..N /\ n + 1 \in 0..N /\ n + 1 # 0 /\ (n + 1) - 1 = n
    BY <1>1
  <2> SUFFICES ASSUME NEW e \in I, Low(e) PROVE Range(up[n + 1][e]) \subseteq C
    BY <2>1
  <2>2. CASE items[e].parent = NoItem
    BY <1>3, <2>1, <2>2, RangeEmpty
  <2>3. CASE items[e].parent # NoItem
    <3> DEFINE x == items[e].parent
               rest == up[n][x]
               one == <<x>>
    <3>1. x \in C /\ x \in I /\ Low(x)
      BY <2>3 DEF ClosedUp
    <3>2. IsSeq(rest) /\ Range(rest) \subseteq C
      BY <1>3, <1>5, <2>1, <3>1
    <3>3. up[n + 1][e] = one \o rest
      BY <1>3, <2>1, <2>3
    <3>4. IsSeq(one) /\ Range(one) = {x}
      BY OneIsSeq, FewElements
    <3> HIDE DEF rest, one, x
    <3>5. Range(one \o rest) = {x} \cup Range(rest)
      BY <3>2, <3>4, ConcatRange
    <3> QED BY <3>1, <3>2, <3>3, <3>5
  <2> QED BY <2>2, <2>3
<1>6. 0..N \subseteq T
  <2> HIDE DEF T
  <2> QED BY <1>1, <1>4, <1>5, IntervalInduction
<1>7. N \in 0..N /\ Enclosing(d) = up[N][d]
  BY <1>1, <1>2 DEF Climbs, N
<1>8. Range(Enclosing(d)) \subseteq C
  BY <1>6, <1>7
<1> QED BY <1>8, AncestorsFacts

\* There is nothing more above what Enclosing gives: more steps add nothing.
LEMMA AncestorsAreAll ==
    ASSUME Shape(program, items), Companions(program, items, uids), NEW d \in DOMAIN items
    PROVE  ClosedUp({d} \cup Ancestors(d))
<1> DEFINE I == DOMAIN items
           N == Cardinality(I)
           graph == [e \in I |-> {items[e].parent} \ {NoItem}]
<1>1. N \in Nat /\ IsFiniteSet(I) /\ DOMAIN graph = I
  BY FS_CardinalityType DEF Shape
<1>2. PICK up : Climbs(up)
  BY EnclosingClimbs DEF Shape, Companions
<1> DEFINE R(n, e) == {e} \cup Range(up[n][e])
<1>3. ASSUME NEW e \in I
      PROVE  /\ R(0, e) = {e}
             /\ \A n \in 0..(N - 1) :
                   R(n + 1, e) = {e} \cup (IF items[e].parent = NoItem THEN {} ELSE R(n, items[e].parent))
  <2>1. \A n \in 0..N : \A i \in I :
           /\ IsSeq(up[n][i])
           /\ up[n][i] = IF n = 0 \/ items[i].parent = NoItem THEN <<>>
                         ELSE <<items[i].parent>> \o up[n - 1][items[i].parent]
    BY <1>2, SeqIsSeq DEF Climbs
  <2>2. R(0, e) = {e}
    <3>1. 0 \in 0..N
      BY <1>1
    <3>2. up[0][e] = <<>>
      BY <2>1, <3>1
    <3> QED BY <3>2, RangeEmpty
  <2>3. ASSUME NEW n \in 0..(N - 1)
        PROVE  R(n + 1, e) = {e} \cup (IF items[e].parent = NoItem THEN {} ELSE R(n, items[e].parent))
    <3>1. n \in 0..N /\ n + 1 \in 0..N /\ n + 1 # 0 /\ (n + 1) - 1 = n
      BY <1>1
    <3>2. CASE items[e].parent = NoItem
      BY <2>1, <3>1, <3>2, RangeEmpty
    <3>3. CASE items[e].parent # NoItem
      <4> DEFINE x == items[e].parent
                 rest == up[n][x]
                 one == <<x>>
      <4>1. x \in I
        BY <3>3 DEF Companions
      <4>2. IsSeq(rest) /\ up[n + 1][e] = one \o rest
        BY <2>1, <3>1, <3>3, <4>1
      <4>3. IsSeq(one) /\ Range(one) = {x}
        BY OneIsSeq, FewElements
      <4> HIDE DEF one, rest
      <4>4. Range(up[n + 1][e]) = {x} \cup Range(rest)
        BY <4>2, <4>3, ConcatRange
      <4> QED BY <3>3, <4>4 DEF rest
    <3> QED BY <3>2, <3>3
  <2> QED BY <2>2, <2>3
<1>4. \A e \in I : graph[e] = {items[e].parent} \ {NoItem} /\ (items[e].parent # NoItem => items[e].parent \in I)
  BY DEF Companions
<1> HIDE DEF graph, R, N
<1>5. \A A, B : Successors(graph, A \cup B) = Successors(graph, A) \cup Successors(graph, B)
  BY DEF Successors
<1>6. \A e \in I : Successors(graph, {e}) = {items[e].parent} \ {NoItem}
  BY <1>1, <1>4 DEF Successors
<1> DEFINE Up(n) == \A e \in I : R(n + 1, e) = R(n, e) \cup Successors(graph, R(n, e))
           T == {n \in 0..N : n \in 0..(N - 1) => Up(n)}
<1>7. ASSUME 0 \in 0..(N - 1) PROVE Up(0)
  <2> SUFFICES ASSUME NEW e \in I PROVE R(0 + 1, e) = R(0, e) \cup Successors(graph, R(0, e))
    OBVIOUS
  <2>1. /\ R(0, e) = {e}
        /\ R(0 + 1, e) = {e} \cup (IF items[e].parent = NoItem THEN {} ELSE R(0, items[e].parent))
    BY <1>3, <1>7
  <2>2. items[e].parent # NoItem => R(0, items[e].parent) = {items[e].parent}
    BY <1>3, <1>4
  <2> QED BY <1>6, <2>1, <2>2
<1>8. ASSUME NEW n \in 0..(N - 1), n + 1 \in 0..(N - 1), Up(n) PROVE Up(n + 1)
  <2> SUFFICES ASSUME NEW e \in I
               PROVE  R((n + 1) + 1, e) = R(n + 1, e) \cup Successors(graph, R(n + 1, e))
    OBVIOUS
  <2> DEFINE x == items[e].parent
             A == IF x = NoItem THEN {} ELSE R(n, x)
             B == IF x = NoItem THEN {} ELSE R(n + 1, x)
  <2>1. R(n + 1, e) = {e} \cup A /\ R((n + 1) + 1, e) = {e} \cup B
    BY <1>3, <1>8
  <2>2. Successors(graph, R(n + 1, e)) = ({x} \ {NoItem}) \cup Successors(graph, A)
    <3>1. Successors(graph, {e} \cup A) = Successors(graph, {e}) \cup Successors(graph, A)
      BY <1>5
    <3>2. Successors(graph, {e}) = {x} \ {NoItem}
      BY <1>6
    <3> HIDE DEF A, x
    <3> QED BY <2>1, <3>1, <3>2
  <2>3. CASE x = NoItem
    BY <2>1, <2>2, <2>3 DEF Successors
  <2>4. CASE x # NoItem
    <3>1. x \in I
      BY <1>4, <2>4
    <3>2. R(n + 1, x) = R(n, x) \cup Successors(graph, R(n, x))
      BY <1>8, <3>1
    <3>3. x \in R(n, x)
      BY DEF R
    <3>4. A = R(n, x) /\ B = R(n + 1, x)
      BY <2>4
    <3> HIDE DEF A, B
    <3> QED BY <2>1, <2>2, <2>4, <3>2, <3>3, <3>4
  <2> QED BY <2>3, <2>4
<1>9. 0..N \subseteq T
  <2>1. 0 \in T
    BY <1>1, <1>7
  <2>2. ASSUME NEW n \in 0..(N - 1), n \in T PROVE n + 1 \in T
    <3> HIDE DEF Up
    <3> QED BY <1>1, <1>8, <2>2
  <2> HIDE DEF T
  <2> QED BY <1>1, <2>1, <2>2, IntervalInduction
<1>10. PICK f : Rounds(graph, {d}, f)
  BY <1>1, RoundsExist
<1> DEFINE Same == {n \in 0..N : f[n] = R(n, d)}
<1>11. N \in Same
  <2>1. 0 \in Same
    BY <1>1, <1>3, <1>10 DEF Rounds
  <2>2. ASSUME NEW n \in 0..(N - 1), n \in Same PROVE n + 1 \in Same
    <3>1. n \in 0..N /\ n + 1 \in 0..N /\ n + 1 \in 1..N /\ (n + 1) - 1 = n
      BY <1>1
    <3>2. f[n + 1] = f[n] \cup Successors(graph, f[n])
      BY <1>1, <1>10, <3>1 DEF Rounds, N
    <3>3. Up(n)
      BY <1>9, <3>1
    <3>4. R(n + 1, d) = R(n, d) \cup Successors(graph, R(n, d))
      BY <3>3
    <3> QED BY <2>2, <3>1, <3>2, <3>4
  <2>3. 0..N \subseteq Same
    <3> HIDE DEF Same
    <3> QED BY <1>1, <2>1, <2>2, IntervalInduction
  <2> QED BY <1>1, <2>3
<1>12. TransitiveDependencies(graph, {d}) = {d} \cup Ancestors(d)
  <2>1. TransitiveDependencies(graph, {d}) = R(N, d)
    BY <1>1, <1>10, <1>11 DEF Rounds, N
  <2>2. Enclosing(d) = up[N][d]
    BY <1>2 DEF Climbs, N
  <2> QED BY <2>1, <2>2, AncestorsFacts DEF R
<1> DEFINE C == {d} \cup Ancestors(d)
<1>13. C \subseteq I
  BY AncestorsFacts
<1>14. \A i \in C : graph[i] \subseteq C
  <2>1. \A i \in TransitiveDependencies(graph, {d}) \cap DOMAIN graph :
           graph[i] \subseteq TransitiveDependencies(graph, {d})
    BY <1>1, ReachedIsClosed
  <2> QED BY <1>1, <1>12, <1>13, <2>1
<1> HIDE DEF C
<1>15. \A i \in C : items[i].parent \in C \cup {NoItem}
  BY <1>4, <1>13, <1>14
<1> QED BY <1>13, <1>15 DEF ClosedUp, C

\* What is above an item is the item and what Enclosing gives.
LEMMA AboveFacts ==
    ASSUME Shape(program, items), Companions(program, items, uids), NEW d \in DOMAIN items
    PROVE  ClosedUp(Above(items, d)) /\ Above(items, d) \subseteq {d} \cup Ancestors(d)
<1>1. Above(items, d) \subseteq {d} \cup Ancestors(d)
  BY AncestorsAreAll DEF Above, ClosedUp
<1>2. ASSUME NEW i \in Above(items, d), items[i].parent # NoItem PROVE items[i].parent \in Above(items, d)
  <2>1. i \in DOMAIN items /\ items[i].parent \in DOMAIN items
    BY <1>2 DEF Above, Companions
  <2> SUFFICES ASSUME NEW C \in SUBSET DOMAIN items, d \in C, \A j \in C : items[j].parent \in C \cup {NoItem}
               PROVE  items[i].parent \in C
    BY <2>1 DEF Above
  <2>2. i \in C
    BY <1>2 DEF Above
  <2> QED BY <1>2, <2>2
<1>3. Above(items, d) \subseteq DOMAIN items
  BY DEF Above
<1> QED BY <1>1, <1>2, <1>3 DEF ClosedUp

-----------------------------------------------------------------------------
(* The formulas a site finds *)

\* The sites of an item that is translated, and what they find.
Looks(d, s, attrs) ==
    /\ IsSeq(attrs) /\ AssociatedUids(attrs) = AssociatedUids(Own(s[1]))
    /\ \/ s[1] = d /\ translated[d][s] = AssociatedExpr(list, attrs, s[2])
       \/ /\ s[1] # d /\ s[1] \in DOMAIN list[d].subs
          /\ translated[d][s] = IF items[s[1]].kind = "trait_fn" THEN FirstOf(list, attrs, s[2])
                                ELSE AssociatedExpr(list, attrs, s[2])

LEMMA SiteFacts ==
    ASSUME IInv, Fits, Staged, stage = "translated", NEW d \in DOMAIN translated, NEW s \in DOMAIN translated[d]
    PROVE  /\ d \in DOMAIN program /\ d \in DOMAIN list /\ list[d] = Imported(clauses)[d] /\ s[2] \in Roles
           /\ s[1] \in DOMAIN program /\ (s[2] = "refine" => s[1] \in DOMAIN list[d].subs)
           /\ \E attrs : Looks(d, s, attrs)
<1> DEFINE x == list[d]
           newtype == x.kind = "struct" /\ Has(x.attrs, "NewtypeAsRefinement")
           own == IF x.kind = "fn" THEN {"requires", "ensures"}
                  ELSE IF newtype /\ build.backend = "fstar" THEN {"ensures"} ELSE {}
           parts == PartsRead(list, d)
<1>1. /\ Known /\ DOMAIN list \subseteq DOMAIN Imported(clauses) /\ d \in DOMAIN list
      /\ translated[d] = Formulas(list, d)
  BY Settled
<1>2. Shape(program, items) /\ Companions(program, items, uids)
  BY <1>1, KnownFacts
<1>3. /\ s \in ({d} \X own) \cup (parts \X Roles)
      /\ translated[d][s] =
            IF s[1] = d THEN AssociatedExpr(list, x.attrs, s[2])
            ELSE IF x.subs[s[1]].kind = "trait_fn" THEN FirstOf(list, x.subs[s[1]].attrs, s[2])
            ELSE AssociatedExpr(list, x.subs[s[1]].attrs, s[2])
  BY <1>1 DEF Formulas
<1>4. ASSUME d \notin DOMAIN program PROVE own = {} /\ parts = {}
  <2>1. d[2] = "mod" \/ x.kind = "quote"
    BY <1>1, <1>4 DEF IInv, CompanionsStayHidden
  <2>2. d[2] = "mod" => x.kind = "nothing"
    <3>1. d \in DOMAIN Imported(clauses) /\ d \in DOMAIN items
      BY <1>1, <1>2, ImportedParts
    <3>2. d[2] = "mod" => items[d].kind = "mod"
      BY <1>1, <1>4, <3>1, CompanionOwn
    <3>3. Imported(clauses)[d].kind = "nothing" <=> items[d].kind = "mod"
      BY <1>2, <3>1, ImportedParts
    <3> QED BY <1>1, <3>2, <3>3, PhasedFacts
  <2> QED BY <2>1, <2>2 DEF PartsRead
<1>5. d \in DOMAIN program /\ x = Imported(clauses)[d]
  <2>1. d \in DOMAIN program
    BY <1>3, <1>4
  <2> QED BY <1>1, <2>1, PhasedFacts
<1>6. s[2] \in Roles /\ (s[2] = "refine" => s[1] \in DOMAIN x.subs)
  <2>1. own \subseteq Roles /\ "refine" \notin own /\ parts \subseteq DOMAIN x.subs
    BY DEF Roles, PartsRead
  <2> HIDE DEF own, parts
  <2> QED BY <1>3, <2>1
<1>7. s[1] = d \/ s[1] \in DOMAIN x.subs
  BY <1>3 DEF PartsRead
<1> HIDE DEF own, parts, newtype
<1>8. CASE s[1] = d
  <2>1. IsSeq(x.attrs)
    <3>1. PICK by_hax \in BOOLEAN : x.attrs = WithErased(by_hax, ItemAttrs(d))
      BY <1>1, <1>2, <1>5, ImportedParts
    <3>2. IsSeq(ItemAttrs(d)) /\ IsSeq(<<<<"Erased">>>>)
      BY <1>1, <1>2, ItemAttrsFacts, ImportedParts, OneIsSeq
    <3> QED BY <3>1, <3>2, ConcatIsSeq DEF WithErased
  <2>2. AssociatedUids(x.attrs) = AssociatedUids(Own(d))
    BY <1>1, PhasedFacts DEF SameLinks
  <2>3. translated[d][s] = AssociatedExpr(list, x.attrs, s[2])
    BY <1>3, <1>8
  <2>4. Looks(d, s, x.attrs)
    BY <1>8, <2>1, <2>2, <2>3 DEF Looks
  <2> QED BY <1>1, <1>5, <1>6, <1>8, <2>4
<1>9. CASE s[1] # d
  <2> DEFINE e == s[1]
             attrs == x.subs[e].attrs
  <2>1. /\ e \in Subs(d) /\ x.subs[e] = Part(e) /\ SameLinks(attrs, Own(e))
    BY <1>1, <1>2, <1>5, <1>7, <1>9, ImportedParts
  <2>2. e \in DOMAIN items /\ items[e].kind \in SubKinds
    BY <2>1 DEF Subs
  <2>3. e \in DOMAIN program
    BY <1>1, <2>2, CompanionOwn DEF SubKinds
  <2>4. x.subs[e].kind = items[e].kind
    BY <2>1 DEF Part
  <2>5. IsSeq(attrs)
    <3>1. attrs = Own(e) \/ attrs = ItemAttrs(e)
      BY <2>1 DEF Part
    <3> QED BY <1>2, <2>2, <3>1, ItemAttrsFacts
  <2> HIDE DEF attrs
  <2>6. Looks(d, s, attrs)
    BY <1>3, <1>7, <1>9, <2>1, <2>4, <2>5 DEF Looks, SameLinks, attrs
  <2> QED BY <1>1, <1>5, <1>6, <2>3, <2>6
<1> QED BY <1>8, <1>9

\* An item is not found only where a quote of another backend is associated, or on a part
\* of an item that was included without its dependencies: for any programs and clauses.
LEMMA ErrorsHold == IInv /\ Fits /\ Staged => ErrorsAreExplained
<1> SUFFICES ASSUME IInv, Fits, Staged, stage = "translated", NEW d \in DOMAIN translated,
                    NEW s \in DOMAIN translated[d], translated[d][s] = {"could not find item"}
             PROVE  \/ \E a \in ToSet(program[s[1]].attrs) : Abroad(a)
                    \/ s[1] # d /\ Excused(d)
  BY DEF ErrorsAreExplained, Abroad, Excused
<1> DEFINE e == s[1]
           role == s[2]
<1>1. /\ d \in DOMAIN program /\ d \in DOMAIN list /\ list[d] = Imported(clauses)[d] /\ role \in Roles
      /\ e \in DOMAIN program
  BY SiteFacts
<1>2. PICK attrs : Looks(d, s, attrs)
  BY SiteFacts
<1>3. Known /\ Complete(DOMAIN list)
  BY Settled
<1>4. ASSUME s[1] # d, ~ Excused(d) PROVE Linked(e) \subseteq DOMAIN list
  <2>1. e \in DOMAIN Imported(clauses)[d].subs
    BY <1>1, <1>2, <1>4 DEF Looks
  <2>2. LinkedWith(d) \subseteq DOMAIN list
    BY <1>1, <1>3, <1>4 DEF Complete
  <2> QED BY <2>1, <2>2 DEF LinkedWith
<1>5. s[1] = d => Linked(e) \subseteq DOMAIN list
  BY <1>1, <1>3 DEF Complete
<1> SUFFICES ASSUME Linked(e) \subseteq DOMAIN list PROVE Foreign(program[e])
  BY <1>4, <1>5, RangeIsToSet DEF Foreign
<1>6. \E seen : AssociatedUids(seen) \subseteq AssociatedUids(Own(e)) /\ Found(list, seen, role) = {"could not find item"}
  <2>1. CASE translated[d][s] = AssociatedExpr(list, attrs, role)
    <3>1. AssociatedExpr(list, attrs, role) \in {{"more than one"}, Found(list, attrs, role)}
      BY DEF AssociatedExpr
    <3> QED BY <1>2, <2>1, <3>1 DEF Looks
  <2>2. CASE translated[d][s] = FirstOf(list, attrs, role)
    <3>1. IsSeq(attrs) /\ AssociatedUids(attrs) = AssociatedUids(Own(e))
      BY <1>2 DEF Looks
    <3>2. PICK seen : Seen(list, attrs, role, seen)
      BY <3>1, FirstFacts
    <3>3. IsSeq(seen) /\ Range(seen) \subseteq Range(attrs) /\ FirstOf(list, attrs, role) = Found(list, seen, role)
      BY <3>2 DEF Seen, OfRole
    <3>4. AssociatedUids(seen) \subseteq AssociatedUids(attrs)
      BY <3>1, <3>3, FewerLinks
    <3> QED BY <2>2, <3>1, <3>3, <3>4
  <2> QED BY <1>2, <2>1, <2>2 DEF Looks
<1> QED BY <1>1, <1>6, NotFound

-----------------------------------------------------------------------------
(* What becomes of the formulas *)

\* The companion of a precondition or a postcondition keeps its body.
LEMMA ContractKept ==
    ASSUME IInv, Fits, Staged, stage = "translated", NEW e \in DOMAIN program, NEW role \in DecorationKinds,
           NEW u \in UidsOf(e, role), <<u, "fn">> \in DOMAIN list
    PROVE  list[<<u, "fn">>].body = items[<<u, "fn">>].body
<1> DEFINE c == <<u, "fn">>
<1>1. Known /\ DOMAIN list \subseteq DOMAIN Imported(clauses)
  BY Settled
<1>2. PICK z \in AssociatedUids(Own(e)) : z[1] = role /\ z[2] = u
  BY DEF UidsOf, Own
<1>3. e \in DOMAIN items
  BY <1>1, KnownFacts
<1>4. PICK k \in 1..Len(items[e].attrs) :
         /\ items[e].attrs[k][1] = "AssociatedItem" /\ z = <<items[e].attrs[k][2], items[e].attrs[k][3]>>
         /\ Refers(program, items, uids, e, items[e].attrs[k])
  BY <1>1, <1>2, <1>3, SourceLinks
<1>5. IsContract(items[e].attrs[k]) /\ items[e].attrs[k][3] = u
  BY <1>2, <1>4 DEF IsContract
<1>6. Has(Own(c), "NeverErased")
  BY <1>4, <1>5 DEF Refers, SpeaksFor, Own
<1>7. u \in 1..uids
  BY <1>1, <1>2, <1>3, SourceLinks
<1>8. c \in DOMAIN items \ DOMAIN program /\ c[2] = "fn"
  BY <1>1, <1>7, KnownFacts, ImportedAlike DEF CompanionKinds, Alike
<1>9. list[c].body = Imported(clauses)[c].body
  BY PhasedFacts
<1> QED BY <1>1, <1>6, <1>8, <1>9, CompanionBody

\* That of a refinement may be dropped, only by a `+:` that matches everything: nothing
\* that encloses the struct of its field is erased, or the struct would have no fields.
LEMMA RefinementKept ==
    ASSUME IInv, Fits, Staged, stage = "translated", NEW d \in DOMAIN list \cap DOMAIN program,
           NEW e \in DOMAIN list[d].subs, NEW u \in UidsOf(e, "refine"), <<u, "fn">> \in DOMAIN list,
           list[<<u, "fn">>].body # items[<<u, "fn">>].body
    PROVE  \E k \in DOMAIN clauses : clauses[k] = Clause("+:", Everything)
<1> DEFINE c == <<u, "fn">>
           w == <<u, "const">>
<1>1. Known /\ DOMAIN list \subseteq DOMAIN Imported(clauses) /\ clauses \in ClauseLists
  BY Settled
<1>2. Shape(program, items) /\ Companions(program, items, uids)
  BY <1>1, KnownFacts
<1>3. list[d] = Imported(clauses)[d]
  BY PhasedFacts
<1>4. e \in Subs(d) /\ d \in DOMAIN items /\ (items[d].kind = "struct" => ~ Has(ItemAttrs(d), "Erased"))
  BY <1>1, <1>2, <1>3, ImportedParts
<1>5. e \in DOMAIN items /\ items[e].parent = d
  BY <1>4 DEF Subs
<1>6. PICK z \in AssociatedUids(Own(e)) : z[1] = "refine" /\ z[2] = u
  BY DEF UidsOf, Own
<1>7. /\ e \in DOMAIN program /\ u \in 1..uids
      /\ \E k \in 1..Len(items[e].attrs) :
            /\ items[e].attrs[k][1] = "AssociatedItem" /\ z = <<items[e].attrs[k][2], items[e].attrs[k][3]>>
            /\ Refers(program, items, uids, e, items[e].attrs[k])
  BY <1>1, <1>5, <1>6, SourceLinks
<1>8. program[e].kind = "field" /\ Beside(items, u, program[e].parent)
  <2>1. PICK k \in 1..Len(items[e].attrs) :
           /\ items[e].attrs[k][1] = "AssociatedItem" /\ z = <<items[e].attrs[k][2], items[e].attrs[k][3]>>
           /\ Refers(program, items, uids, e, items[e].attrs[k])
    BY <1>7
  <2>2. IsRefining(items[e].attrs[k]) /\ items[e].attrs[k][3] = u
    BY <1>6, <2>1 DEF IsRefining
  <2> QED BY <2>1, <2>2 DEF Refers
<1>9. program[e].parent = d /\ items[d].kind = "struct"
  <2>1. Framed(program, items, e) /\ Framed(program, items, d)
    BY <1>1, <1>7 DEF Known, Fitting
  <2>2. program[e].parent = d
    BY <1>5, <1>8, <2>1 DEF Framed
  <2>3. program[d].kind = "struct"
    BY <1>1, <1>7, <1>8, <2>2, KnownFacts, ProgramsAssumption
  <2> QED BY <2>1, <2>2, <2>3 DEF Framed
<1>10. c \in DOMAIN items \ DOMAIN program /\ c[2] = "fn" /\ c \in Nat \X CompanionKinds
  <2>1. c \in DOMAIN items
    BY <1>1, ImportedAlike DEF Alike
  <2>2. c \notin DOMAIN program
    BY <1>1, <1>7, KnownFacts DEF CompanionKinds
  <2>3. u \in Nat
    BY <1>1, <1>7, KnownFacts
  <2> QED BY <2>1, <2>2, <2>3 DEF CompanionKinds
<1>11. w \in DOMAIN items \ DOMAIN program /\ items[c].parent = w
  <2>1. w \in DOMAIN items /\ items[c].parent = w
    BY <1>8 DEF Beside
  <2> QED BY <1>1, <1>7, <2>1, KnownFacts DEF CompanionKinds
<1>12. TypeOnly(clauses, c) \/ Has(ItemAttrs(c), "Erased")
  <2>1. list[c].body = Imported(clauses)[c].body
    BY PhasedFacts
  <2> QED BY <1>1, <1>10, <2>1, CompanionBody
<1>13. ~ Has(ItemAttrs(c), "Erased")
  <2> SUFFICES ASSUME Has(ItemAttrs(c), "Erased") PROVE FALSE
    OBVIOUS
  <2> DEFINE C == {w} \cup Above(items, d)
  <2>1. PICK a \in Range(ItemAttrs(c)) : a[1] = "Erased"
    BY <1>2, <1>10, ItemAttrsFacts, LinksFacts
  <2>2. a \in Range(Own(c)) \/ \E f \in Ancestors(c) : a \in Range(Own(f))
    BY <1>2, <1>10, ItemAttrsFacts
  <2>3. a \notin Range(Own(c)) /\ a \notin Range(Own(w))
    BY <1>1, <1>10, <1>11, <2>1, CompanionOwn
  <2>4. ClosedUp(C)
    <3>1. ClosedUp(Above(items, d))
      BY <1>2, <1>4, AboveFacts
    <3>2. items[w].parent \in Above(items, d) \cup {NoItem}
      BY <1>8, <1>9 DEF Beside
    <3> QED BY <1>11, <3>1, <3>2 DEF ClosedUp
  <2>5. Ancestors(c) \subseteq C
    <3> HIDE DEF C
    <3>1. items[c].parent \in C
      BY <1>11 DEF C
    <3> QED BY <1>2, <1>10, <2>4, <3>1, AncestorsWithin
  <2>6. PICK f \in Above(items, d) : a \in Range(Own(f))
    BY <2>2, <2>3, <2>5
  <2>7. f = d \/ f \in Ancestors(d)
    BY <1>2, <1>4, AboveFacts
  <2>8. a \in Range(ItemAttrs(d))
    BY <1>2, <1>4, <2>1, <2>6, <2>7, ItemAttrsFacts
  <2>9. Has(ItemAttrs(d), "Erased")
    BY <1>2, <1>4, <2>1, <2>8, ItemAttrsFacts, LinksFacts
  <2> QED BY <1>4, <1>9, <2>9
<1>14. /\ IsSeq(clauses) /\ DOMAIN clauses = 1..Len(clauses)
       /\ \A n \in 1..Len(clauses) :
             /\ clauses[n] = Clause(clauses[n].kind, clauses[n].names)
             /\ clauses[n].names = Everything \/ \A i \in clauses[n].names : i \notin Nat \X CompanionKinds
  BY <1>1, ClauseFacts
<1>15. PICK k \in 1..Len(clauses) : clauses[k].kind = "+:" /\ MatchesNamespace(clauses[k], c)
  BY <1>12, <1>13, <1>14, TypeOnlyFacts
<1>16. clauses[k].names = Everything
  BY <1>10, <1>14, <1>15 DEF MatchesNamespace
<1> QED BY <1>14, <1>15, <1>16

\* Of what is found at a site.
LEMMA ExprFacts ==
    ASSUME IInv, Fits, Staged, stage = "translated", NEW e \in DOMAIN program, NEW role \in Roles, NEW attrs,
           AssociatedUids(attrs) = AssociatedUids(Own(e))
    PROVE  LET x == AssociatedExpr(list, attrs, role)
           IN  \/ x \in {{n} : n \in Errors} \cup {Written(e, role)}
               \/ /\ role = "refine" /\ x = {"dropped"}
                  /\ \E u \in UidsOf(e, role) : /\ <<u, "fn">> \in DOMAIN list
                                                /\ list[<<u, "fn">>].body # items[<<u, "fn">>].body
<1> DEFINE U == UidsOf(e, role)
           B == {z \in AssociatedUids(attrs) : z[1] = role}
           F == Found(list, attrs, role)
           x == AssociatedExpr(list, attrs, role)
           g(u) == list[<<u, "fn">>].body.says
           h(u) == items[<<u, "fn">>].body.says
<1>1. x = IF Cardinality(F) > 1 THEN {"more than one"} ELSE F
  BY DEF AssociatedExpr
<1>2. "more than one" \in Errors /\ "could not find item" \in Errors
  BY DEF Errors
<1>3. U = {z[2] : z \in B}
  BY DEF UidsOf, Own
<1> DEFINE there == \A z \in AssociatedUids(attrs) : <<z[2], "fn">> \in DOMAIN list
<1>4. F = IF there THEN {g(z[2]) : z \in B} ELSE {"could not find item"}
  BY FoundFacts
<1>5. CASE ~ there
  BY <1>1, <1>2, <1>4, <1>5
<1>6. ASSUME there PROVE \A u \in U : <<u, "fn">> \in DOMAIN list
  BY <1>3, <1>6
<1> HIDE DEF there, x, F
<1>7. there => F = {g(u) : u \in U}
  <2> HIDE DEF g, U, B
  <2> QED BY <1>3, <1>4
<1>8. {h(u) : u \in U} = Written(e, role)
  <2>1. Expanded /\ Translated
    BY Settled DEF Known, Expanded, Translated
  <2> QED BY <2>1, ContractsSettled DEF ContractsAttached
<1>9. ASSUME there, \A u \in U : list[<<u, "fn">>].body = items[<<u, "fn">>].body
      PROVE  F = Written(e, role)
  <2>1. \A u \in U : g(u) = h(u)
    BY <1>9
  <2> HIDE DEF g, h, U
  <2> QED BY <1>7, <1>8, <1>9, <2>1
<1>10. ASSUME there, NEW u \in U, list[<<u, "fn">>].body # items[<<u, "fn">>].body
       PROVE  role = "refine" /\ (Cardinality(F) > 1 \/ F = {"dropped"})
  <2>1. <<u, "fn">> \in DOMAIN list
    BY <1>6, <1>10
  <2>2. role = "refine"
    BY <1>10, <2>1, ContractKept DEF Roles, DecorationKinds
  <2>3. list[<<u, "fn">>].body = Dropped
    BY <1>10, <2>1, CompanionSays
  <2>4. "dropped" \in F
    <3>1. g(u) = "dropped"
      BY <2>3 DEF Dropped, Expr
    <3> HIDE DEF g
    <3> QED BY <1>7, <1>10, <3>1
  <2>5. IsFiniteSet(F)
    <3>1. Expanded /\ Translated
      BY Settled DEF Known, Expanded, Translated
    <3> DEFINE P == Places(program, items, e, role)
               at == [k \in P |-> g(UidOf(items, e, k))]
    <3>2. IsFiniteSet(P) /\ U = {UidOf(items, e, k) : k \in P}
      BY <3>1, PlacesAreUids
    <3> HIDE DEF P, U, g
    <3>3. F = {at[k] : k \in P}
      BY <1>7, <1>10, <3>2
    <3> HIDE DEF at
    <3> QED BY <3>2, <3>3, ImageFinite
  <2>6. ASSUME ~ (Cardinality(F) > 1) PROVE F = {"dropped"}
    <3>1. Cardinality(F) \in Nat /\ (Cardinality(F) = 0 <=> F = {}) /\ (Cardinality(F) = 1 <=> \E y : F = {y})
      BY <2>5, FS_CardinalityType, FS_EmptySet, FS_Singleton
    <3>2. Cardinality(F) = 1
      BY <2>4, <2>6, <3>1
    <3> QED BY <2>4, <3>1, <3>2
  <2> QED BY <2>2, <2>6
<1>11. CASE there /\ \A u \in U : list[<<u, "fn">>].body = items[<<u, "fn">>].body
  BY <1>1, <1>2, <1>9, <1>11 DEF x
<1>12. CASE there /\ \E u \in U : list[<<u, "fn">>].body # items[<<u, "fn">>].body
  <2>1. PICK u \in U : list[<<u, "fn">>].body # items[<<u, "fn">>].body
    BY <1>12
  <2>2. role = "refine" /\ (Cardinality(F) > 1 \/ F = {"dropped"}) /\ <<u, "fn">> \in DOMAIN list
    BY <1>6, <1>10, <1>12, <2>1
  <2>3. x = {"more than one"} \/ x = {"dropped"}
    BY <1>1, <2>2
  <2> QED BY <1>2, <2>1, <2>2, <2>3 DEF x
<1> QED BY <1>5, <1>11, <1>12 DEF x

\* A trait's method finds the first formula of a role.
LEMMA FirstIsWritten ==
    ASSUME IInv, Fits, Staged, stage = "translated", NEW e \in DOMAIN program, NEW role \in Roles, NEW attrs,
           IsSeq(attrs), AssociatedUids(attrs) = AssociatedUids(Own(e)),
           items[e].kind = "trait_fn", Written(e, role) # {}
    PROVE  LET x == FirstOf(list, attrs, role)
           IN  x \in {{n} : n \in Errors} \/ \E phi \in Written(e, role) : x = {phi}
<1> DEFINE x == FirstOf(list, attrs, role)
<1>1. Known /\ e \in DOMAIN items
  BY Settled, KnownFacts
<1>2. PICK seen : Seen(list, attrs, role, seen)
  BY FirstFacts
<1>3. /\ IsSeq(seen) /\ x = Found(list, seen, role) /\ Range(seen) \subseteq Range(attrs)
      /\ x = {"could not find item"} \/ OfRole(attrs, role) = {} \/ \E a \in OfRole(attrs, role) : Range(seen) = {a}
  BY <1>2 DEF Seen, OfRole
<1>4. \A u : u \in UidsOf(e, role) <=> \E a \in OfRole(attrs, role) : a[3] = u
  <2>1. \A z : z \in AssociatedUids(Own(e)) <=> \E a \in Range(attrs) : a[1] = "AssociatedItem" /\ z = <<a[2], a[3]>>
    BY LinksFacts
  <2>2. \A u : u \in UidsOf(e, role) <=> \E z \in AssociatedUids(Own(e)) : z[1] = role /\ z[2] = u
    BY DEF UidsOf, Own
  <2>3. ASSUME NEW u \in UidsOf(e, role) PROVE \E a \in OfRole(attrs, role) : a[3] = u
    BY <2>1, <2>2 DEF OfRole
  <2>4. ASSUME NEW a \in OfRole(attrs, role) PROVE a[3] \in UidsOf(e, role)
    <3>1. <<a[2], a[3]>> \in AssociatedUids(Own(e)) /\ a[2] = role
      BY <2>1 DEF OfRole
    <3> QED BY <2>2, <3>1
  <2> QED BY <2>3, <2>4
<1>5. OfRole(attrs, role) # {}
  <2>1. Expanded /\ Translated
    BY <1>1 DEF Known, Expanded, Translated
  <2>2. {items[<<u, "fn">>].body.says : u \in UidsOf(e, role)} = Written(e, role)
    BY <2>1, ContractsSettled DEF ContractsAttached
  <2> QED BY <1>4, <2>2
<1>6. role \in DecorationKinds
  <2> SUFFICES ASSUME role = "refine" PROVE FALSE
    BY DEF Roles, DecorationKinds
  <2>1. PICK z \in AssociatedUids(Own(e)) : z[1] = "refine"
    BY <1>4, <1>5 DEF UidsOf, Own
  <2>2. PICK k \in 1..Len(items[e].attrs) :
           /\ items[e].attrs[k][1] = "AssociatedItem" /\ z = <<items[e].attrs[k][2], items[e].attrs[k][3]>>
           /\ Refers(program, items, uids, e, items[e].attrs[k])
    BY <1>1, SourceLinks
  <2>3. IsRefining(items[e].attrs[k])
    BY <2>1, <2>2 DEF IsRefining
  <2>4. program[e].kind = "field"
    BY <2>2, <2>3 DEF Refers
  <2> QED BY <1>1, <2>4 DEF Known, Fitting, Framed
<1>7. CASE x = {"could not find item"}
  BY <1>7 DEF Errors
<1>8. CASE x # {"could not find item"}
  <2>1. PICK a \in OfRole(attrs, role) : Range(seen) = {a}
    BY <1>3, <1>5, <1>8
  <2> DEFINE u == a[3]
             z == <<role, u>>
  <2>2. AssociatedUids(seen) = {z}
    <3>1. a[1] = "AssociatedItem" /\ a[2] = role
      BY DEF OfRole
    <3>2. \A y : y \in AssociatedUids(seen) <=> \E b \in Range(seen) : b[1] = "AssociatedItem" /\ y = <<b[2], b[3]>>
      BY <1>3, LinksFacts
    <3> QED BY <2>1, <3>1, <3>2
  <2>3. z[1] = role /\ z[2] = u /\ u \in UidsOf(e, role)
    BY <1>4
  <2>4. AssociatedUids(seen) \subseteq AssociatedUids(Own(e))
    BY <1>3, FewerLinks
  <2> HIDE DEF z, u
  <2>5. <<u, "fn">> \in DOMAIN list /\ x = {list[<<u, "fn">>].body.says}
    <3> DEFINE there == \A y \in AssociatedUids(seen) : <<y[2], "fn">> \in DOMAIN list
               B == {y \in AssociatedUids(seen) : y[1] = role}
    <3>1. x = IF there THEN {list[<<y[2], "fn">>].body.says : y \in B} ELSE {"could not find item"}
      BY <1>3, <2>4, FoundFacts
    <3>2. there <=> <<u, "fn">> \in DOMAIN list
      BY <2>2, <2>3
    <3>3. B = {z}
      BY <2>2, <2>3
    <3> HIDE DEF there, B, x
    <3> QED BY <1>8, <2>3, <3>1, <3>2, <3>3
  <2>6. list[<<u, "fn">>].body = items[<<u, "fn">>].body /\ items[<<u, "fn">>].body.says \in Written(e, role)
    BY <1>6, <2>3, <2>5, ContractKept, CompanionSays
  <2> QED BY <2>5, <2>6
<1> QED BY <1>7, <1>8

\* A newtype that was written with its formula keeps the mark of it.
LEMMA NewtypeMarked ==
    ASSUME IInv, Fits, Staged, stage = "translated", NEW d \in DOMAIN list, d \in DOMAIN program,
           Has(program[d].attrs, "refinement_type")
    PROVE  list[d].kind = "struct" /\ Has(list[d].attrs, "NewtypeAsRefinement")
<1>1. Known /\ DOMAIN list \subseteq DOMAIN Imported(clauses) /\ list[d] = Imported(clauses)[d]
  BY Settled, PhasedFacts
<1>2. /\ program \in Programs /\ Shape(program, items) /\ Companions(program, items, uids)
      /\ d \in DOMAIN items /\ IsSeq(Own(d)) /\ Own(d) = items[d].attrs
  BY <1>1, KnownFacts
<1>3. Framed(program, items, d)
  BY <1>1 DEF Known, Fitting
<1>4. items[d].kind = "struct"
  <2>1. \E a \in ToSet(program[d].attrs) : a[1] = "refinement_type"
    BY DEF Has, ToSet
  <2>2. program[d].kind = "struct"
    BY <1>2, <2>1, ProgramsAssumption
  <2> QED BY <1>3, <2>2 DEF Framed
<1>5. list[d] = ImportItem(clauses, d)
  BY <1>1, <1>4, ImportedFacts DEF Methods
<1>6. list[d].kind = "struct" /\ list[d].attrs = ItemAttrs(d)
  BY <1>4, <1>5, EngineItemFacts DEF ImportItem, WithErased
<1>7. Has(Own(d), "NewtypeAsRefinement")
  <2>1. Newtyped(items[d].attrs)
    BY <1>3 DEF Framed, Newtyped
  <2>2. ~ Has(items[d].attrs, "refinement_type")
    BY <1>1, <1>2 DEF Known, NoneLeft, Has, MacroTags
  <2> QED BY <1>2, <2>1, <2>2 DEF Newtyped
<1>8. Has(ItemAttrs(d), "NewtypeAsRefinement")
  BY <1>2, <1>7, ItemAttrsFacts, LinksFacts
<1> QED BY <1>6, <1>8

\* Formulas are written on functions and on newtypes, where backends look, and on parts.
LEMMA ReadWhereWritten ==
    ASSUME IInv, Fits, Staged, stage = "translated", NEW d \in DOMAIN translated, d \in DOMAIN program,
           NEW e \in {d} \cup DOMAIN list[d].subs, NEW role \in Roles, Written(e, role) # {}, ~ NeverRead(d, e)
    PROVE  <<e, role>> \in DOMAIN translated[d]
<1> DEFINE x == list[d]
           newtype == x.kind = "struct" /\ Has(x.attrs, "NewtypeAsRefinement")
           own == IF x.kind = "fn" THEN {"requires", "ensures"}
                  ELSE IF newtype /\ build.backend = "fstar" THEN {"ensures"} ELSE {}
<1>1. /\ Known /\ DOMAIN list \subseteq DOMAIN Imported(clauses) /\ d \in DOMAIN list
      /\ translated[d] = Formulas(list, d) /\ x = Imported(clauses)[d]
  BY Settled, PhasedFacts
<1>2. /\ Shape(program, items) /\ Companions(program, items, uids) /\ program \in Programs
      /\ d \in DOMAIN items /\ IsSeq(Own(d)) /\ Own(d) = items[d].attrs
  BY <1>1, KnownFacts
<1>3. DOMAIN translated[d] = ({d} \X own) \cup (PartsRead(list, d) \X Roles)
  BY <1>1 DEF Formulas
<1>4. /\ x.kind = "fn" <=> items[d].kind \in {"fn", "const", "impl_fn"}
      /\ x.kind = "nothing" <=> items[d].kind = "mod"
      /\ x.kind # "quote"
      /\ \A f \in DOMAIN x.subs : items[d].kind \in {"struct", "trait", "impl"}
  BY <1>1, <1>2, ImportedParts
<1>5. /\ build.backend = "fstar" \/ x.kind = "fn"
      /\ x.kind = "struct" /\ e # d => IsRecord(x)
  BY DEF NeverRead
<1> HIDE DEF x
<1>6. CASE e # d
  <2>1. PartsRead(list, d) = DOMAIN x.subs
    BY <1>4, <1>5, <1>6 DEF PartsRead, x
  <2> QED BY <1>3, <1>6, <2>1 DEF x
<1>7. CASE e = d
  <2>1. items[d].kind = program[d].kind /\ items[d].kind \notin {"field", "trait_fn"}
    <3>1. Framed(program, items, d)
      BY <1>1 DEF Known, Fitting
    <3>2. d \in TopLevel \cup Methods
      BY <1>1, ImportedFacts
    <3> QED BY <3>1, <3>2 DEF Framed, TopLevel, Methods
  <2>2. role # "refine"
    <3>1. SUFFICES ASSUME role = "refine" PROVE FALSE
      OBVIOUS
    <3>2. Expanded /\ Translated
      BY <1>1 DEF Known, Expanded, Translated
    <3>3. {items[<<u, "fn">>].body.says : u \in UidsOf(d, role)} = Written(d, role)
      BY <3>2, ContractsSettled DEF ContractsAttached
    <3>4. PICK z \in AssociatedUids(Own(d)) : z[1] = "refine"
      BY <1>7, <3>1, <3>3 DEF UidsOf, Own
    <3>5. PICK k \in 1..Len(items[d].attrs) :
             /\ items[d].attrs[k][1] = "AssociatedItem" /\ z = <<items[d].attrs[k][2], items[d].attrs[k][3]>>
             /\ Refers(program, items, uids, d, items[d].attrs[k])
      BY <1>1, <1>2, SourceLinks
    <3>6. IsRefining(items[d].attrs[k])
      BY <3>4, <3>5 DEF IsRefining
    <3> QED BY <2>1, <3>5, <3>6 DEF Refers
  <2>3. \/ \E a \in ToSet(program[d].attrs) : a[1] \in DecorationKinds \cup {"lemma"}
        \/ role = "ensures" /\ Has(program[d].attrs, "refinement_type")
    <3>1. CASE \E k \in DOMAIN program[d].attrs : WrittenAs(program[d].attrs[k], role)
      BY <2>2, <3>1 DEF WrittenAs, Has, Roles, DecorationKinds, ToSet
    <3>2. CASE ~ \E k \in DOMAIN program[d].attrs : WrittenAs(program[d].attrs[k], role)
      <4>1. IsProof(program[d])
        BY <1>7, <3>2 DEF Written, WrittenOn
      <4> QED BY <4>1 DEF IsProof, Has, ToSet
    <3> QED BY <3>1, <3>2
  <2>4. role \in own
    <3>1. CASE \E a \in ToSet(program[d].attrs) : a[1] \in DecorationKinds \cup {"lemma"}
      <4>1. program[d].kind \in {"fn", "trait_fn", "impl_fn"}
        BY <1>2, <3>1, ProgramsAssumption
      <4> QED BY <1>4, <2>1, <2>2, <4>1 DEF Roles
    <3>2. CASE role = "ensures" /\ Has(program[d].attrs, "refinement_type")
      BY <1>1, <1>5, <3>2, NewtypeMarked DEF x
    <3> QED BY <2>3, <3>1, <3>2
  <2> QED BY <1>3, <1>7, <2>4
<1> QED BY <1>6, <1>7

\* What is found where it is looked for.
LEMMA FoundWhereRead ==
    ASSUME IInv, Fits, Staged, stage = "translated", NEW d \in DOMAIN translated,
           NEW e, NEW role, <<e, role>> \in DOMAIN translated[d], Written(e, role) # {}
    PROVE  FoundOf(e, role, translated[d][<<e, role>>])
<1> DEFINE s == <<e, role>>
<1>0. s \in DOMAIN translated[d] /\ s[1] = e /\ s[2] = role
  OBVIOUS
<1> HIDE DEF s
<1>1. /\ d \in DOMAIN program /\ d \in DOMAIN list /\ role \in Roles /\ e \in DOMAIN program
  BY <1>0, SiteFacts
<1>2. PICK attrs : Looks(d, s, attrs)
  BY <1>0, SiteFacts
<1>3. IsSeq(attrs) /\ AssociatedUids(attrs) = AssociatedUids(Own(e))
  BY <1>0, <1>2 DEF Looks
<1>4. CASE translated[d][s] = FirstOf(list, attrs, role) /\ items[e].kind = "trait_fn"
  BY <1>1, <1>3, <1>4, FirstIsWritten DEF FoundOf, s
<1>5. CASE translated[d][s] = AssociatedExpr(list, attrs, role)
  <2>1. ASSUME role = "refine", NEW u \in UidsOf(e, role), <<u, "fn">> \in DOMAIN list,
               list[<<u, "fn">>].body # items[<<u, "fn">>].body
        PROVE  \E k \in DOMAIN clauses : clauses[k] = Clause("+:", Everything)
    <3>1. e \in DOMAIN list[d].subs
      BY <1>0, <2>1, SiteFacts
    <3> QED BY <1>1, <2>1, <3>1, RefinementKept
  <2> DEFINE x == AssociatedExpr(list, attrs, role)
  <2>2. \/ x \in {{n} : n \in Errors} \cup {Written(e, role)}
        \/ /\ role = "refine" /\ x = {"dropped"}
           /\ \E u \in UidsOf(e, role) : /\ <<u, "fn">> \in DOMAIN list
                                         /\ list[<<u, "fn">>].body # items[<<u, "fn">>].body
    BY <1>1, <1>3, ExprFacts
  <2> HIDE DEF x
  <2>3. translated[d][s] = x
    BY <1>5 DEF x
  <2> QED BY <2>1, <2>2, <2>3 DEF FoundOf, s
<1> QED BY <1>0, <1>2, <1>4, <1>5 DEF Looks

\* A formula written on what is translated, or on a part of it that was imported, is looked
\* up, but where the backend never reads it, and found, or an error says it was not, but
\* for the two ways FoundOf names: for any programs, builds and clauses.
LEMMA LossesHold == IInv /\ Fits /\ Staged => NoSilentLoss
<1> SUFFICES ASSUME IInv, Fits, Staged, stage = "translated", NEW d \in DOMAIN translated, d \in DOMAIN program,
                    NEW e \in {d} \cup DOMAIN list[d].subs, NEW role \in Roles, Written(e, role) # {}
             PROVE  IF <<e, role>> \in DOMAIN translated[d]
                    THEN FoundOf(e, role, translated[d][<<e, role>>]) ELSE NeverRead(d, e)
  BY DEF NoSilentLoss
<1>1. CASE <<e, role>> \in DOMAIN translated[d]
  BY <1>1, FoundWhereRead
<1>2. CASE <<e, role>> \notin DOMAIN translated[d]
  BY <1>2, ReadWhereWritten
<1> QED BY <1>1, <1>2

\* The formulas written on what is translated are found with their bodies, or an error says
\* they were not, or they stand where the property says that the backend never reads them
\* or that one is lost: for any programs, builds and lists of clauses.
THEOREM NothingIsLostInSilence == Spec => []NoSilentLoss
<1> QED BY LossesHold, FitsHolds, StagedHolds, ItemsAreSound, PTL

\* Those errors stand only where a quote of another backend is associated, or on a part of
\* an item included without its dependencies: for any programs, builds and lists of clauses.
THEOREM ErrorsHaveTheirReasons == Spec => []ErrorsAreExplained
<1> QED BY ErrorsHold, FitsHolds, StagedHolds, ItemsAreSound, PTL
=============================================================================
