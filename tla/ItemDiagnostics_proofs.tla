----------------------- MODULE ItemDiagnostics_proofs -----------------------
(***************************************************************************)
(* Proofs about ItemDiagnostics, for any number of items, kinds and errors: *)
(* the hints of the items are sound, the errors that are reported are about *)
(* them, and no error node goes without one.                               *)
(***************************************************************************)
EXTENDS ItemDiagnostics, FiniteSetTheorems, TLAPS

\* The inductive invariant: the list of owners is the crate backwards, the
\* hints of the AST items count from the end of it, and the reference, in
\* any of its two places, is empty, or that of the current import, or that
\* of an earlier item whose import failed.
Backwards ==
    /\ current \in 0 .. N
    /\ owner_id_list \in Seq(Crate)
    /\ Len(owner_id_list) = current
    /\ \A k \in 1 .. current : owner_id_list[k] = current + 1 - k

ItemHints ==
    /\ items \subseteq AstItems
    /\ \A x \in items : x.item \in 1 .. current /\ x.hint = x.item - 1

Stale(h) == h = NoHint \/ (h \in 0 .. current - 1 /\ reports[h + 1] # {})

References ==
    /\ at \in {"items", "import", "phases", "done"}
    /\ reports \in [Crate -> SUBSET Diagnostics]
    /\ at = "import" =>
          /\ state \in Seq(Diagnostics)
          /\ current > 0 /\ state_owner_hint = current - 1
          /\ Stale(previous_hint) /\ previous_hint # current - 1
    /\ at \in {"items", "phases"} => Stale(state_owner_hint)

IInv == Backwards /\ ItemHints /\ References

-----------------------------------------------------------------------------

\* Id h denotes item h + 1: the list reversed is the crate in order.
LEMMA IdsCount ==
    ASSUME Backwards, NEW h \in 0 .. current - 1
    PROVE  Identifies(h, h + 1)
BY CountAssumption DEF Backwards, Identifies, OwnerOf, Crate

LEMMA InitInv == Init => IInv
BY CountAssumption
   DEF Init, IInv, Backwards, ItemHints, References, Stale, NoHint, Crate

\* A step of the import, in which the list and the current item do not move.
LEMMA SameOwners ==
    ASSUME Backwards, UNCHANGED <<current, owner_id_list>>
    PROVE  Backwards'
BY DEF Backwards

LEMMA ImportItemInv == IInv /\ ImportItem => IInv'
<1> SUFFICES ASSUME IInv, ImportItem PROVE IInv'
  OBVIOUS
<1> USE CountAssumption DEF IInv, ImportItem, FreshOwnerId
<1>1. Backwards'
  BY DEF Backwards, Crate
<1>2. ItemHints'
  BY DEF Backwards, ItemHints
<1>3. current' > 0 /\ state_owner_hint' = current' - 1
  BY DEF Backwards
<1>4. Stale(previous_hint)' /\ previous_hint' # current' - 1
  BY DEF Backwards, References, Stale, NoHint
<1>5. References'
  BY <1>3, <1>4 DEF References
<1> QED
  BY <1>1, <1>2, <1>5

LEMMA ReportType ==
    ASSUME NEW i \in Crate, NEW k \in Kinds
    PROVE  SpanFree(i, k) \in Diagnostics
BY DEF SpanFree, Diagnostics, NoOwner

LEMMA ReportsType ==
    ASSUME NEW s \in Seq(Diagnostics)
    PROVE  ToSet(s) \subseteq Diagnostics
BY DEF ToSet

\* A hint that stands for a failed item does so when a later item fails.
LEMMA StaleLater ==
    ASSUME IInv, at = "import", UNCHANGED current,
           NEW E \in SUBSET Diagnostics,
           reports' = [reports EXCEPT ![current] = E],
           NEW h, Stale(h), h # current - 1
    PROVE  h = NoHint \/ (h \in 0 .. current' - 1 /\ reports'[h + 1] # {})
<1>1. CASE h = NoHint
  BY <1>1
<1>2. CASE h # NoHint
  <2>1. h \in 0 .. current - 1 /\ reports[h + 1] # {}
    BY <1>2 DEF Stale
  <2>2. h + 1 \in Crate /\ h + 1 # current
    BY <2>1, CountAssumption DEF IInv, Backwards, Crate
  <2>3. reports'[h + 1] = reports[h + 1]
    BY <2>2 DEF IInv, References
  <2> QED
    BY <2>1, <2>3
<1> QED
  BY <1>1, <1>2

\* What leaving the import of an item adds to the AST items has its hint.
LEMMA CapturedHints ==
    ASSUME IInv, at = "import", UNCHANGED current,
           NEW S \in SUBSET AstItems,
           \A x \in S : x.item = current /\ x.hint = state_owner_hint,
           Captured(S)
    PROVE  ItemHints'
BY DEF IInv, Backwards, ItemHints, References, Captured

LEMMA FinishItemInv == IInv /\ FinishItem => IInv'
<1> SUFFICES ASSUME IInv, FinishItem PROVE IInv'
  OBVIOUS
<1>1. Backwards'
  BY SameOwners DEF IInv, FinishItem
<1>2. PICK y \in 0 .. MaxYield :
         Captured([item : {current}, n : 1 .. y, hint : {state_owner_hint},
                   failed : {state # <<>>}])
  BY DEF FinishItem
<1> DEFINE I == {current}  Ns == 1 .. y  H == {state_owner_hint}
           F == {state # <<>>}
           S == [item : I, n : Ns, hint : H, failed : F]
<1>0. current \in Crate /\ state_owner_hint \in -1 .. N - 1
  BY CountAssumption DEF IInv, Backwards, References, FinishItem, Crate
<1>6. Ns \subseteq 1 .. MaxYield
  BY YieldAssumption
<1>9. F \subseteq BOOLEAN
  OBVIOUS
<1>10. I \subseteq Crate /\ H \subseteq -1 .. N - 1
  BY <1>0
<1> HIDE DEF I, Ns, H, F
<1>7. S \subseteq AstItems
  BY <1>6, <1>9, <1>10 DEF AstItems
<1> USE DEF I, Ns, H, F
<1>8. \A x \in S : x.item = current /\ x.hint = state_owner_hint
  OBVIOUS
<1> HIDE DEF S
<1>3. ItemHints'
  BY <1>2, <1>7, <1>8, CapturedHints DEF FinishItem, S
<1>4. at' = "items"
  BY <1>2 DEF Captured
<1>5. References'
  <2>1. ToSet(state) \in SUBSET Diagnostics
    BY ReportsType DEF IInv, References, FinishItem
  <2>2. reports' = [reports EXCEPT ![current] = ToSet(state)]
        /\ state_owner_hint' = previous_hint /\ UNCHANGED current
    BY DEF FinishItem
  <2>3. Stale(previous_hint) /\ previous_hint # current - 1
    BY DEF IInv, References, FinishItem
  <2>4. Stale(state_owner_hint)'
    BY <2>1, <2>2, <2>3, StaleLater DEF FinishItem, Stale
  <2>5. reports' \in [Crate -> SUBSET Diagnostics]
    BY <2>1, <2>2 DEF IInv, References
  <2> QED
    BY <1>4, <2>4, <2>5 DEF References
<1> QED
  BY <1>1, <1>3, <1>5 DEF IInv

LEMMA FailItemInv == IInv /\ FailItem => IInv'
<1> SUFFICES ASSUME IInv, FailItem PROVE IInv'
  OBVIOUS
<1>1. Backwards'
  BY SameOwners DEF IInv, FailItem
<1>2. Captured([item : {current}, n : {1}, hint : {state_owner_hint},
                failed : {TRUE}])
  BY DEF FailItem
<1> DEFINE I == {current}  Ns == {1}  H == {state_owner_hint}  F == {TRUE}
           S == [item : I, n : Ns, hint : H, failed : F]
<1>0. current \in Crate /\ state_owner_hint = current - 1
      /\ state_owner_hint \in -1 .. N - 1
  BY CountAssumption DEF IInv, Backwards, References, FailItem, Crate
<1>12. Ns \subseteq 1 .. MaxYield /\ F \subseteq BOOLEAN
  BY YieldAssumption
<1>13. I \subseteq Crate /\ H \subseteq -1 .. N - 1
  BY <1>0
<1> HIDE DEF I, Ns, H, F
<1>8. S \subseteq AstItems
  BY <1>12, <1>13 DEF AstItems
<1> USE DEF I, Ns, H, F
<1>9. \A x \in S : x.item = current /\ x.hint = state_owner_hint
  OBVIOUS
<1> HIDE DEF S
<1>3. ItemHints'
  BY <1>2, <1>8, <1>9, CapturedHints DEF FailItem, S
<1>4. at' = "items"
  BY <1>2 DEF Captured
<1>5. PICK k \in Kinds :
         reports' = [reports EXCEPT ![current] =
                        ToSet(state) \cup {SpanFree(current, k)}]
  BY DEF FailItem
<1>6. ToSet(state) \cup {SpanFree(current, k)} \in SUBSET Diagnostics
  BY <1>0, ReportType, ReportsType DEF IInv, References, FailItem
<1>10. reports' \in [Crate -> SUBSET Diagnostics] /\ reports'[current] # {}
  BY <1>0, <1>5, <1>6 DEF IInv, References
<1>11. Stale(state_owner_hint)'
  BY <1>0, <1>10 DEF FailItem, Stale, IInv, References, Crate
<1>7. References'
  BY <1>4, <1>10, <1>11 DEF References
<1> QED
  BY <1>1, <1>3, <1>7 DEF IInv

\* After the import, AST items keep the item and the hint they have.
LEMMA LaterInv ==
    ASSUME IInv, at' \in {"phases", "done"}, at \in {"items", "phases"},
           UNCHANGED <<current, owner_id_list, state_owner_hint, previous_hint,
                       reports>>,
           items' \subseteq AstItems,
           \A x \in items' : \E y \in items : x.item = y.item /\ x.hint = y.hint
    PROVE  IInv'
<1>1. Backwards'
  BY SameOwners DEF IInv
<1>2. ItemHints'
  BY DEF IInv, ItemHints
<1>3. References'
  BY DEF IInv, References, Stale
<1> QED
  BY <1>1, <1>2, <1>3 DEF IInv

LEMMA PhaseErrorInv == IInv /\ PhaseError => IInv'
<1> SUFFICES ASSUME IInv, PhaseError PROVE IInv'
  OBVIOUS
<1>1. PICK x \in items :
         items' = (items \ {x}) \cup {[x EXCEPT !.failed = TRUE]}
  BY DEF PhaseError
<1>2. \A z \in items' : \E y \in items : z.item = y.item /\ z.hint = y.hint
  BY <1>1 DEF IInv, ItemHints, AstItems
<1>3. items' \subseteq AstItems
  BY <1>1 DEF IInv, ItemHints, AstItems
<1> QED
  BY <1>2, <1>3, LaterInv DEF PhaseError

LEMMA NextInv == IInv /\ [Next]_vars => IInv'
<1> SUFFICES ASSUME IInv, [Next]_vars PROVE IInv'
  OBVIOUS
<1>1. CASE ImportItem
  BY <1>1, ImportItemInv
<1>2. CASE ExprError
  <2>1. Backwards'
    BY <1>2, SameOwners DEF ExprError, IInv
  <2>2. ItemHints'
    BY <1>2 DEF ExprError, IInv, ItemHints
  <2>3. current \in Crate
    BY <1>2, CountAssumption
       DEF ExprError, IInv, Backwards, References, Crate
  <2>4. References'
    BY <1>2, <2>3, ReportType DEF ExprError, IInv, References, Stale
  <2> QED
    BY <2>1, <2>2, <2>4 DEF IInv
<1>3. CASE FinishItem
  BY <1>3, FinishItemInv
<1>4. CASE FailItem
  BY <1>4, FailItemInv
<1>5. CASE Select
  BY <1>5, LaterInv DEF Select, IInv, ItemHints
<1>6. CASE PhaseError
  BY <1>6, PhaseErrorInv
<1>7. CASE PrintError
  BY <1>7, LaterInv DEF PrintError, IInv, ItemHints
<1>8. CASE Failure
  BY <1>8, LaterInv DEF Failure, IInv, ItemHints
<1>9. CASE Finish
  BY <1>9, LaterInv DEF Finish, IInv, ItemHints
<1>10. CASE Crash
  BY <1>10 DEF Crash, IInv, Backwards, ItemHints, References, Stale
<1>11. CASE Terminated \/ UNCHANGED vars
  BY <1>11
     DEF Terminated, vars, IInv, Backwards, ItemHints, References, Stale
<1> QED
  BY <1>1, <1>2, <1>3, <1>4, <1>5, <1>6, <1>7, <1>8, <1>9, <1>10, <1>11
     DEF Next

\* Whatever the number of items and whichever imports fail, the id carried by
\* the span of an AST item denotes the item the AST was made from.
THEOREM HintsAreSound == Spec => []HintNamesItem
<1>1. IInv => HintNamesItem
  <2> SUFFICES ASSUME IInv PROVE HintNamesItem
    OBVIOUS
  <2>1. at = "import" => Identifies(state_owner_hint, current)
    <3>1. ASSUME at = "import"
          PROVE  state_owner_hint \in 0 .. current - 1
                 /\ current = state_owner_hint + 1
      BY <3>1 DEF IInv, Backwards, References
    <3> QED
      BY <3>1, IdsCount DEF IInv
  <2>2. ASSUME NEW x \in items PROVE Identifies(x.hint, x.item)
    <3>1. x.hint \in 0 .. current - 1 /\ x.item = x.hint + 1
      BY DEF IInv, Backwards, ItemHints
    <3> QED
      BY <3>1, IdsCount DEF IInv
  <2> QED
    BY <2>1, <2>2 DEF HintNamesItem
<1> QED
  BY <1>1, InitInv, NextInv, PTL DEF Spec

\* Outside the import of an item, the hint dummy spans take is empty or names
\* an item whose import failed.
THEOREM StaleHintsFailed == Spec => []StaleHintIsFailure
<1>1. IInv => StaleHintIsFailure
  <2> SUFFICES ASSUME IInv, at \in {"items", "phases"},
                      state_owner_hint # NoHint
               PROVE  \E i \in Crate : Identifies(state_owner_hint, i)
                                       /\ reports[i] # {}
    BY DEF StaleHintIsFailure
  <2>1. state_owner_hint \in 0 .. current - 1
        /\ reports[state_owner_hint + 1] # {}
    BY DEF IInv, References, Stale
  <2>2. state_owner_hint + 1 \in Crate
    <3>1. current \in 0 .. N /\ state_owner_hint \in 0 .. current - 1
      BY <2>1 DEF IInv, Backwards
    <3> QED
      BY <3>1, CountAssumption DEF Crate
  <2> QED
    BY <2>1, <2>2, IdsCount DEF IInv
<1> QED
  BY <1>1, InitInv, NextInv, PTL DEF Spec

-----------------------------------------------------------------------------
(* The reports *)

\* Every report of the import is about its item, and an item has finitely
\* many.
OwnReports ==
    /\ at = "items" => state = <<>>
    /\ at = "import" => /\ previous_state = <<>>
                        /\ \A j \in 1 .. Len(state) : state[j].about = current
                        /\ \A x \in items : x.item # current
    /\ \A i \in Crate : IsFiniteSet(reports[i])
    /\ \A i \in Crate : \A d \in reports[i] : d.about = i

\* Until the selection, the errors behind an error node wait in `reports`.
FailuresWait ==
    at \in {"items", "import"} =>
        \A x \in items : x.failed => reports[x.item] # {}

\* After it they are in the state, with those of the phases.
Reported ==
    at = "phases" \/ (at = "done" /\ outcome # "crashed") =>
        /\ state \in Seq(Diagnostics)
        /\ \A j \in 1 .. Len(state) : \E x \in items : x.item = state[j].about
        /\ \A x \in items : x.failed =>
               \E j \in 1 .. Len(state) : state[j].about = x.item

RInv == IInv /\ OwnReports /\ FailuresWait /\ Reported

-----------------------------------------------------------------------------
(* Lists of errors *)

\* A sequence has finitely many elements.
LEMMA ToSetFinite ==
    ASSUME NEW T, NEW s \in Seq(T)
    PROVE  IsFiniteSet(ToSet(s))
<1> DEFINE D == 1 .. Len(s)
<1>1. IsFiniteSet(D)
  BY FS_Interval
<1>2. s \in Surjection(D, ToSet(s))
  BY DEF Surjection, ToSet
<1> QED
  BY <1>1, <1>2, FS_Surjection

\* SetToSeq lists a finite set: nothing else is in it, and nothing is missed.
LEMMA SetToSeqLists ==
    ASSUME NEW S, IsFiniteSet(S)
    PROVE  /\ SetToSeq(S) \in Seq(S)
           /\ \A d \in S : \E j \in 1 .. Len(SetToSeq(S)) : SetToSeq(S)[j] = d
<1> DEFINE n == Cardinality(S)
           f == SetToSeq(S)
<1>1. n \in Nat /\ ExistsBijection(1 .. n, S)
  BY FS_CardinalityType
<1>2. \E g \in [1 .. n -> S] : IsInjective(g)
  BY <1>1 DEF ExistsBijection, Bijection, Injection, Surjection
<1>3. f \in [1 .. n -> S] /\ IsInjective(f)
  BY <1>2 DEF SetToSeq
<1>4. f \in Injection(1 .. n, S)
  BY <1>3 DEF Injection
<1>5. IsFiniteSet(1 .. n) /\ Cardinality(1 .. n) = n
  BY <1>1, FS_Interval
<1>6. f \in Surjection(1 .. n, S)
  BY <1>4, <1>5, FS_Injection
<1>7. f \in Seq(S) /\ Len(f) = n
  BY <1>1, <1>3
<1> QED
  BY <1>6, <1>7 DEF Surjection

\* What the selection reports again: the errors of the selected items.
LEMMA SelectedReports ==
    ASSUME IInv, OwnReports, NEW S \in SUBSET items
    PROVE  /\ ReportsOf(S) \in Seq(Diagnostics)
           /\ \A j \in 1 .. Len(ReportsOf(S)) :
                  \E x \in S : x.item = ReportsOf(S)[j].about
           /\ \A x \in S : reports[x.item] # {} =>
                  \E j \in 1 .. Len(ReportsOf(S)) : ReportsOf(S)[j].about = x.item
<1> DEFINE W == {reports[x.item] : x \in S}
           U == UNION W
           R == {reports[i] : i \in Crate}
<1>1. \A x \in S : x.item \in Crate
  BY DEF IInv, ItemHints, AstItems
<1>2. IsFiniteSet(Crate)
  BY CountAssumption, FS_Interval DEF Crate
<1>3. IsFiniteSet(R)
  <2>1. reports \in Surjection(Crate, R)
    BY DEF IInv, References, Surjection
  <2> QED
    BY <1>2, <2>1, FS_Surjection
<1>4. W \in SUBSET R
  BY <1>1
<1>5. IsFiniteSet(W)
  BY <1>3, <1>4, FS_Subset
<1>6. \A T \in W : IsFiniteSet(T)
  BY <1>1 DEF OwnReports
<1>7. IsFiniteSet(U)
  BY <1>5, <1>6, FS_UNION
<1>8. ReportsOf(S) = SetToSeq(U)
  BY DEF ReportsOf
<1>9. U \subseteq Diagnostics
  BY <1>1 DEF IInv, References
<1>10. \A d \in U : \E x \in S : x.item = d.about
  BY <1>1 DEF OwnReports
<1>11. \A x \in S : reports[x.item] # {} => \E d \in U : d.about = x.item
  BY <1>1 DEF OwnReports
<1> DEFINE f == SetToSeq(U)
<1> HIDE DEF U
<1>12. f \in Seq(U) /\ \A d \in U : \E j \in 1 .. Len(f) : f[j] = d
  BY <1>7, SetToSeqLists
<1> HIDE DEF f
<1>13. f \in Seq(Diagnostics)
  BY <1>9, <1>12
<1>14. \A j \in 1 .. Len(f) : f[j] \in U
  BY <1>12
<1>15. ReportsOf(S) = f
  BY <1>8 DEF f
<1>16. \A j \in 1 .. Len(f) : \E x \in S : x.item = f[j].about
  BY <1>10, <1>14
<1>17. ASSUME NEW x \in S, reports[x.item] # {}
       PROVE  \E j \in 1 .. Len(f) : f[j].about = x.item
  <2>1. PICK d \in U : d.about = x.item
    BY <1>11, <1>17
  <2> QED
    BY <1>12, <2>1
<1> QED
  BY <1>13, <1>15, <1>16, <1>17

-----------------------------------------------------------------------------
(* The invariant *)

LEMMA InitReports == Init => RInv
BY InitInv, FS_EmptySet
   DEF Init, RInv, OwnReports, FailuresWait, Reported, Crate

LEMMA ImportItemReports == RInv /\ ImportItem => RInv'
<1> SUFFICES ASSUME RInv, ImportItem PROVE RInv'
  OBVIOUS
<1>1. IInv'
  BY ImportItemInv DEF RInv
<1>2. \A x \in items : x.item # current'
  BY CountAssumption DEF RInv, IInv, Backwards, ItemHints, ImportItem
<1>3. OwnReports'
  BY <1>2 DEF RInv, OwnReports, ImportItem
<1>4. FailuresWait' /\ Reported'
  BY DEF RInv, FailuresWait, Reported, ImportItem
<1> QED
  BY <1>1, <1>3, <1>4 DEF RInv

LEMMA ExprErrorReports == RInv /\ ExprError => RInv'
<1> SUFFICES ASSUME RInv, ExprError PROVE RInv'
  OBVIOUS
<1>1. IInv'
  BY NextInv DEF RInv, Next, ExprError
<1>2. PICK k \in Kinds : state' = Append(state, SpanFree(current, k))
  BY DEF ExprError
<1>3. state \in Seq(Diagnostics) /\ \A j \in 1 .. Len(state) : state[j].about = current
  BY DEF RInv, IInv, References, OwnReports, ExprError
<1>4. \A j \in 1 .. Len(state') : state'[j].about = current
  BY <1>2, <1>3 DEF SpanFree
<1>5. OwnReports'
  BY <1>4 DEF RInv, OwnReports, ExprError
<1>6. FailuresWait' /\ Reported'
  BY DEF RInv, FailuresWait, Reported, ExprError
<1> QED
  BY <1>1, <1>5, <1>6 DEF RInv

\* The exit of capture: the item gets its reports, and at least one if one of
\* its AST items stands for an error.
LEMMA CapturedReports ==
    ASSUME RInv, IInv', at = "import", UNCHANGED <<current, previous_state>>,
           NEW E \in SUBSET Diagnostics, IsFiniteSet(E),
           \A d \in E : d.about = current,
           reports' = [reports EXCEPT ![current] = E],
           NEW S, Captured(S),
           \A x \in S : x.item = current /\ (x.failed => E # {})
    PROVE  RInv'
<1>1. current \in Crate
  BY CountAssumption DEF RInv, IInv, Backwards, References, Crate
<1>2. reports'[current] = E /\ \A i \in Crate : i # current => reports'[i] = reports[i]
  BY <1>1 DEF RInv, IInv, References
<1>3. at' = "items" /\ state' = <<>> /\ items' = items \cup S
  BY DEF Captured, RInv, OwnReports
<1>4. \A i \in Crate : IsFiniteSet(reports'[i])
  BY <1>2 DEF RInv, OwnReports
<1>5. \A i \in Crate : \A d \in reports'[i] : d.about = i
  BY <1>2 DEF RInv, OwnReports
<1>6. OwnReports'
  BY <1>3, <1>4, <1>5 DEF OwnReports
<1>7. ASSUME NEW x \in items', x.failed PROVE reports'[x.item] # {}
  <2>1. CASE x \in S
    BY <1>2, <1>7, <2>1
  <2>2. CASE x \in items
    <3>1. x.item # current /\ reports[x.item] # {} /\ x.item \in Crate
      BY <1>7, <2>2 DEF RInv, OwnReports, FailuresWait, IInv, ItemHints, AstItems
    <3> QED
      BY <1>2, <3>1
  <2> QED
    BY <1>3, <2>1, <2>2
<1>8. FailuresWait' /\ Reported'
  BY <1>3, <1>7 DEF FailuresWait, Reported
<1> QED
  BY <1>6, <1>8 DEF RInv

\* What the state of an import may become as the reports of the item.
LEMMA StateReports ==
    ASSUME RInv, at = "import"
    PROVE  /\ ToSet(state) \in SUBSET Diagnostics /\ IsFiniteSet(ToSet(state))
           /\ \A d \in ToSet(state) : d.about = current
           /\ state # <<>> => ToSet(state) # {}
<1>1. state \in Seq(Diagnostics)
  BY DEF RInv, IInv, References
<1>2. \A d \in ToSet(state) : d.about = current
  BY <1>1 DEF RInv, OwnReports, ToSet
<1>3. state # <<>> => ToSet(state) # {}
  <2>1. state # <<>> => 1 \in DOMAIN state
    BY <1>1
  <2> QED
    BY <2>1 DEF ToSet
<1> QED
  BY <1>1, <1>2, <1>3, ReportsType, ToSetFinite

LEMMA FinishItemReports == RInv /\ FinishItem => RInv'
<1> SUFFICES ASSUME RInv, FinishItem PROVE RInv'
  OBVIOUS
<1>1. IInv'
  BY FinishItemInv DEF RInv
<1>2. PICK y \in 0 .. MaxYield :
         Captured([item : {current}, n : 1 .. y, hint : {state_owner_hint},
                   failed : {state # <<>>}])
  BY DEF FinishItem
<1> DEFINE S == [item : {current}, n : 1 .. y, hint : {state_owner_hint},
                 failed : {state # <<>>}]
           E == ToSet(state)
<1>3. at = "import" /\ UNCHANGED <<current, previous_state>>
      /\ reports' = [reports EXCEPT ![current] = E]
  BY DEF FinishItem
<1>4. E \in SUBSET Diagnostics /\ IsFiniteSet(E)
      /\ (\A d \in E : d.about = current) /\ (state # <<>> => E # {})
  BY <1>3, StateReports
<1>5. \A x \in S : x.item = current /\ x.failed = (state # <<>>)
  OBVIOUS
<1>6. \A x \in S : x.item = current /\ (x.failed => E # {})
  BY <1>4, <1>5
<1> HIDE DEF E, S
<1> QED
  BY <1>1, <1>2, <1>3, <1>4, <1>6, CapturedReports DEF S

LEMMA FailItemReports == RInv /\ FailItem => RInv'
<1> SUFFICES ASSUME RInv, FailItem PROVE RInv'
  OBVIOUS
<1>1. IInv'
  BY FailItemInv DEF RInv
<1>2. PICK k \in Kinds :
         reports' = [reports EXCEPT ![current] =
                        ToSet(state) \cup {SpanFree(current, k)}]
  BY DEF FailItem
<1> DEFINE S == [item : {current}, n : {1}, hint : {state_owner_hint},
                 failed : {TRUE}]
           E == ToSet(state) \cup {SpanFree(current, k)}
<1>3. at = "import" /\ UNCHANGED <<current, previous_state>> /\ Captured(S)
  BY DEF FailItem
<1>4. current \in Crate
  BY <1>3, CountAssumption DEF RInv, IInv, Backwards, References, Crate
<1>5. E \in SUBSET Diagnostics /\ IsFiniteSet(E)
  BY <1>3, <1>4, StateReports, ReportType, FS_AddElement
<1>6. \A d \in E : d.about = current
  BY <1>3, StateReports DEF SpanFree
<1>7. \A x \in S : x.item = current /\ (x.failed => E # {})
  OBVIOUS
<1> HIDE DEF E, S
<1> QED
  BY <1>1, <1>2, <1>3, <1>5, <1>6, <1>7, CapturedReports DEF E

LEMMA SelectReports == RInv /\ Select => RInv'
<1> SUFFICES ASSUME RInv, Select PROVE RInv'
  OBVIOUS
<1>1. IInv'
  BY NextInv DEF RInv, Next, Select
<1>2. PICK S \in SUBSET items : items' = S /\ state' = state \o ReportsOf(S)
  BY DEF Select
<1>3. /\ ReportsOf(S) \in Seq(Diagnostics)
      /\ \A j \in 1 .. Len(ReportsOf(S)) :
             \E x \in S : x.item = ReportsOf(S)[j].about
      /\ \A x \in S : reports[x.item] # {} =>
             \E j \in 1 .. Len(ReportsOf(S)) : ReportsOf(S)[j].about = x.item
  BY SelectedReports DEF RInv
<1>4. state' = ReportsOf(S)
  BY <1>2, <1>3 DEF RInv, OwnReports, Select
<1>5. \A x \in S : x.failed => reports[x.item] # {}
  BY DEF RInv, FailuresWait, Select
<1>6. Reported'
  BY <1>2, <1>3, <1>4, <1>5 DEF Reported
<1>7. OwnReports' /\ FailuresWait'
  BY DEF RInv, OwnReports, FailuresWait, Select
<1> QED
  BY <1>1, <1>6, <1>7 DEF RInv

-----------------------------------------------------------------------------
(* The phases *)

\* A phase reports about an item d.about and leaves the other items alone:
\* an item fails only if it is that one.
LEMMA AppendedReports ==
    ASSUME RInv, at = "phases", NEW d \in Diagnostics,
           state' = Append(state, d),
           NEW x \in items, d.about = x.item,
           \A z \in items : \E y \in items' : y.item = z.item,
           \A y \in items' : \E z \in items : y.item = z.item
               /\ (y.failed => z.failed \/ y.item = d.about)
    PROVE  Reported'
<1>1. state \in Seq(Diagnostics)
      /\ (\A j \in 1 .. Len(state) : \E z \in items : z.item = state[j].about)
      /\ (\A z \in items : z.failed =>
              \E j \in 1 .. Len(state) : state[j].about = z.item)
  BY DEF RInv, Reported
<1>2. /\ state' \in Seq(Diagnostics) /\ Len(state') = Len(state) + 1
      /\ state'[Len(state) + 1] = d
      /\ \A j \in 1 .. Len(state) : state'[j] = state[j]
      /\ 1 .. Len(state') = 1 .. Len(state) \cup {Len(state) + 1}
  BY <1>1
<1>3. \A j \in 1 .. Len(state') : \E z \in items : z.item = state'[j].about
  BY <1>1, <1>2
<1>4. \A j \in 1 .. Len(state') : \E y \in items' : y.item = state'[j].about
  BY <1>3
<1>5. ASSUME NEW y \in items', y.failed
      PROVE  \E j \in 1 .. Len(state') : state'[j].about = y.item
  <2>1. PICK z \in items : y.item = z.item /\ (z.failed \/ y.item = d.about)
    BY <1>5
  <2>2. CASE z.failed
    BY <1>1, <1>2, <2>1, <2>2
  <2>3. CASE y.item = d.about
    BY <1>2, <2>3
  <2> QED
    BY <2>1, <2>2, <2>3
<1> QED
  BY <1>2, <1>4, <1>5 DEF Reported

\* From the phases on, the reports of the imports do not move.
LEMMA LaterReports ==
    ASSUME RInv, at \in {"phases", "done"}, at' \in {"phases", "done"},
           UNCHANGED reports
    PROVE  OwnReports' /\ FailuresWait'
BY DEF RInv, OwnReports, FailuresWait

LEMMA PhaseErrorReports == RInv /\ PhaseError => RInv'
<1> SUFFICES ASSUME RInv, PhaseError PROVE RInv'
  OBVIOUS
<1>1. IInv'
  BY PhaseErrorInv DEF RInv
<1>2. PICK x \in items, k \in Kinds :
         /\ state' = Append(state, SpanFree(x.item, k))
         /\ items' = (items \ {x}) \cup {[x EXCEPT !.failed = TRUE]}
  BY DEF PhaseError
<1>3. items \subseteq AstItems /\ x.item \in Crate
  BY DEF RInv, IInv, ItemHints, AstItems
<1> DEFINE d == SpanFree(x.item, k)
           e == [x EXCEPT !.failed = TRUE]
<1>4. d \in Diagnostics /\ d.about = x.item
  BY <1>3, ReportType DEF SpanFree
<1>5. e.item = x.item
  BY <1>3 DEF AstItems
<1> HIDE DEF d, e
<1>6. \A z \in items : \E y \in items' : y.item = z.item
  BY <1>2, <1>5 DEF e
<1>7. \A y \in items' : \E z \in items : y.item = z.item
          /\ (y.failed => z.failed \/ y.item = d.about)
  BY <1>2, <1>4, <1>5 DEF e
<1>8. Reported'
  BY <1>2, <1>4, <1>6, <1>7, AppendedReports DEF PhaseError, d
<1>9. OwnReports' /\ FailuresWait'
  BY LaterReports DEF PhaseError
<1> QED
  BY <1>1, <1>8, <1>9 DEF RInv

\* The item itself does not change: the printer, and a fatal failure.
LEMMA BlamedReports ==
    ASSUME RInv, IInv', at = "phases", at' \in {"phases", "done"},
           UNCHANGED <<items, reports>>,
           NEW x \in items, NEW k \in Kinds, NEW h \in Int,
           state' = Append(state, [about |-> x.item, kind |-> k,
                                   owner |-> OwnerHint(h)])
    PROVE  RInv'
<1> DEFINE d == [about |-> x.item, kind |-> k, owner |-> OwnerHint(h)]
<1>1. OwnerHint(h) \in Crate \cup {NoOwner}
  BY DEF OwnerHint, RInv, IInv, Backwards, NoOwner
<1>2. d \in Diagnostics /\ d.about = x.item
  BY <1>1 DEF RInv, IInv, ItemHints, AstItems, Diagnostics
<1> HIDE DEF d
<1>3. Reported'
  BY <1>2, AppendedReports DEF d
<1>4. OwnReports' /\ FailuresWait'
  BY LaterReports
<1> QED
  BY <1>3, <1>4 DEF RInv

LEMMA NextReports == RInv /\ [Next]_vars => RInv'
<1> SUFFICES ASSUME RInv, [Next]_vars PROVE RInv'
  OBVIOUS
<1>0. IInv'
  BY NextInv DEF RInv
<1>h. \A x \in items : x.hint \in Int
  BY DEF RInv, IInv, ItemHints, AstItems
<1>1. CASE ImportItem
  BY <1>1, ImportItemReports
<1>2. CASE ExprError
  BY <1>2, ExprErrorReports
<1>3. CASE FinishItem
  BY <1>3, FinishItemReports
<1>4. CASE FailItem
  BY <1>4, FailItemReports
<1>5. CASE Select
  BY <1>5, SelectReports
<1>6. CASE PhaseError
  BY <1>6, PhaseErrorReports
<1>7. CASE PrintError
  BY <1>0, <1>7, <1>h, BlamedReports DEF PrintError
<1>8. CASE Failure
  <2>1. state_owner_hint \in Int
    BY <1>8 DEF Failure, RInv, IInv, Backwards, References, Stale, NoHint
  <2>5. PICK x \in items, k \in Kinds : \E h \in {x.hint, state_owner_hint} :
           state' = Append(state, [about |-> x.item, kind |-> k,
                                   owner |-> OwnerHint(h)])
    BY <1>8 DEF Failure
  <2>2. PICK h \in {x.hint, state_owner_hint} :
           state' = Append(state, [about |-> x.item, kind |-> k,
                                   owner |-> OwnerHint(h)])
    BY <2>5
  <2>3. h \in Int
    BY <1>h, <2>1, <2>2
  <2> QED
    BY <1>0, <1>8, <2>2, <2>3, BlamedReports DEF Failure
<1>9. CASE Finish
  <2>1. Reported'
    BY <1>9 DEF Finish, RInv, Reported
  <2> QED
    BY <1>0, <1>9, <2>1, LaterReports DEF Finish, RInv
<1>10. CASE Crash
  BY <1>0, <1>10 DEF Crash, RInv, OwnReports, FailuresWait, Reported
<1>11. CASE Terminated \/ UNCHANGED vars
  BY <1>0, <1>11
     DEF Terminated, vars, RInv, OwnReports, FailuresWait, Reported
<1> QED
  BY <1>1, <1>2, <1>3, <1>4, <1>5, <1>6, <1>7, <1>8, <1>9, <1>10, <1>11
     DEF Next

-----------------------------------------------------------------------------

\* Whatever is selected and whichever imports and phases fail, every error
\* the user reads is about an item that is extracted.
THEOREM ReportsAreNotForeign == Spec => []NoForeignReports
<1>1. RInv => NoForeignReports
  BY DEF RInv, OwnReports, Reported, NoForeignReports
<1> QED
  BY <1>1, InitReports, NextReports, PTL DEF Spec

\* In a run that is not cut short, every item with an error node has an error
\* reported about it, in the import or in a phase.
THEOREM ErrorsAreNotSilent == Spec => []NoSilentError
<1>1. RInv => NoSilentError
  BY DEF RInv, Reported, NoSilentError
<1> QED
  BY <1>1, InitReports, NextReports, PTL DEF Spec
=============================================================================
