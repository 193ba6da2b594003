---------------------- MODULE PriceHistoryCollectorProofs ----------------------
(***************************************************************************)
(* Theorems of PriceHistoryCollector for any catalog, page size and number *)
(* of changes and failures: what paging by OFFSET over rows that change    *)
(* can miss, repeat and report.                                            *)
(***************************************************************************)
EXTENDS PriceHistoryCollector, FiniteSetTheorems, TLAPS

-----------------------------------------------------------------------------
(* Ranks: OFFSET counts the active items before an item. *)
Rank(S, i) == Cardinality({j \in S : j < i})

LEMMA RankTyped ==
  ASSUME NEW S \in SUBSET Nat, IsFiniteSet(S), NEW i \in Nat
  PROVE  /\ IsFiniteSet({j \in S : j < i})
         /\ Rank(S, i) \in Nat
         /\ i \in S => Rank(S, i) < Cardinality(S)
  <1> DEFINE B == {j \in S : j < i}
  <1>1. IsFiniteSet(B) /\ Cardinality(B) \in Nat
    BY FS_Subset, FS_CardinalityType
  <1>2. Cardinality(S) \in Nat /\ Cardinality(B) <= Cardinality(S)
    BY FS_Subset, FS_CardinalityType
  <1>3. i \in S => Cardinality(B) # Cardinality(S)
    <2>1. i \notin B
      OBVIOUS
    <2>2. B \in SUBSET S
      OBVIOUS
    <2> QED
      BY <2>1, <2>2, FS_Subset
  <1> QED
    BY <1>1, <1>2, <1>3 DEF Rank

LEMMA RankGrows ==
  ASSUME NEW S \in SUBSET Nat, IsFiniteSet(S), NEW i \in S, NEW k \in Nat, i < k
  PROVE  Rank(S, i) < Rank(S, k)
  <1> DEFINE A == {j \in S : j < i}
             B == {j \in S : j < k}
  <1>1. IsFiniteSet(B) /\ Cardinality(B) \in Nat /\ Cardinality(A) \in Nat
    BY RankTyped DEF Rank
  <1>2. A \in SUBSET B /\ i \in B /\ i \notin A
    <2>1. i \in Nat /\ \A j \in S : j \in Nat
      OBVIOUS
    <2>2. \A j \in S : j < i => j < k
      BY <2>1
    <2>3. A \subseteq B
      BY <2>2
    <2>4. i \in B /\ i \notin A
      BY <2>1
    <2> QED
      BY <2>3, <2>4
  <1>3. Cardinality(A) <= Cardinality(B) /\ Cardinality(A) # Cardinality(B)
    BY <1>1, <1>2, FS_Subset
  <1> QED
    BY <1>1, <1>3 DEF Rank

\* Each rank below the number of items is taken by one item.
LEMMA RankOnto ==
  ASSUME NEW S \in SUBSET Nat, IsFiniteSet(S)
  PROVE  [i \in S |-> Rank(S, i)] \in Bijection(S, 0..(Cardinality(S) - 1))
  <1> DEFINE f == [i \in S |-> Rank(S, i)]
             T == 0..(Cardinality(S) - 1)
  <1>1. Cardinality(S) \in Nat
    BY FS_CardinalityType
  <1>2. f \in [S -> T]
    <2>1. ASSUME NEW i \in S PROVE Rank(S, i) \in T
      <3>1. Rank(S, i) \in Nat /\ Rank(S, i) < Cardinality(S)
        BY RankTyped
      <3> QED
        BY <1>1, <3>1
    <2> QED
      BY <2>1
  <1>3. ASSUME NEW i \in S, NEW k \in S, f[i] = f[k] PROVE i = k
    <2>1. i \in Nat /\ k \in Nat /\ Rank(S, i) \in Nat /\ Rank(S, k) \in Nat
      BY RankTyped
    <2>2. i < k \/ k < i \/ i = k
      BY <2>1
    <2> QED
      BY <1>3, <2>1, <2>2, RankGrows
  <1>4. f \in Injection(S, T)
    BY <1>2, <1>3 DEF Injection, IsInjective
  <1>5. IsFiniteSet(T) /\ Cardinality(T) = Cardinality(S)
    <2>1. /\ IsFiniteSet(T)
          /\ Cardinality(T) = IF 0 > Cardinality(S) - 1 THEN 0 ELSE Cardinality(S) - 1 - 0 + 1
      BY <1>1, FS_Interval
    <2> QED
      BY <1>1, <2>1
  <1>6. f \in Surjection(S, T)
    BY <1>4, <1>5, FS_Injection
  <1> QED
    BY <1>4, <1>6 DEF Bijection

LEMMA RankUnique ==
  ASSUME NEW S \in SUBSET Nat, IsFiniteSet(S)
  PROVE  \A i, k \in S : Rank(S, i) = Rank(S, k) => i = k
  <1> DEFINE f == [i \in S |-> Rank(S, i)]
  <1>1. f \in Bijection(S, 0..(Cardinality(S) - 1))
    BY RankOnto
  <1>2. \A i, k \in S : f[i] = f[k] => i = k
    BY <1>1 DEF Bijection, Injection, IsInjective
  <1> QED
    BY <1>2

-----------------------------------------------------------------------------
LEMMA ActiveTyped ==
  /\ Active \in SUBSET Nat /\ IsFiniteSet(Active) /\ Cardinality(Active) \in Nat
  /\ \A o \in Nat : IsFiniteSet(Page(o)) /\ Cardinality(Page(o)) \in Nat /\ Page(o) \in SUBSET Item
  <1>1. Active \in SUBSET Item /\ \A o \in Nat : Page(o) \in SUBSET Item
    BY DEF Active, Page
  <1> QED
    BY <1>1, CollectorAssumption, FS_Subset, FS_CardinalityType

\* What ListActiveItemsForPriceSync returns, in terms of ranks.
LEMMA PageRanks ==
  ASSUME NEW o \in Nat
  PROVE  \A i : i \in Page(o) <=> i \in Active /\ o <= Rank(Active, i) /\ Rank(Active, i) < o + Batch
  <1>1. ASSUME NEW i \in Active
        PROVE  Rank(Active, i) \in o..(o + Batch - 1) <=>
                  o <= Rank(Active, i) /\ Rank(Active, i) < o + Batch
    <2>1. Rank(Active, i) \in Nat
      BY ActiveTyped, RankTyped
    <2> QED
      BY <2>1, CollectorAssumption
  <1> QED
    BY <1>1 DEF Page, Rank

(* A page is full unless the active items end in it; and it is empty only when
   they end before it. *)
LEMMA PageCounted ==
  ASSUME NEW o \in Nat
  PROVE  LET n == Cardinality(Page(o))
         IN  /\ n <= Batch
             /\ n < Batch => Cardinality(Active) <= o + n
             /\ Page(o) # {} => o + n <= Cardinality(Active)
             /\ Page(o) = {} => n = 0
  <1> DEFINE N == Cardinality(Active)
             f == [i \in Active |-> Rank(Active, i)]
             last == IF o + Batch <= N THEN o + Batch - 1 ELSE N - 1
             T == o..last
             g == [i \in Page(o) |-> Rank(Active, i)]
  <1>1. N \in Nat /\ Batch \in Nat /\ 0 < Batch
    BY ActiveTyped, CollectorAssumption
  <1>2. f \in Bijection(Active, 0..(N - 1))
    BY ActiveTyped, RankOnto
  <1>3. /\ \A i \in Active : f[i] \in 0..(N - 1)
        /\ \A i, k \in Active : f[i] = f[k] => i = k
        /\ \A t \in 0..(N - 1) : \E i \in Active : f[i] = t
    <2> HIDE DEF f, N
    <2>1. /\ f \in [Active -> 0..(N - 1)]
          /\ \A i, k \in Active : f[i] = f[k] => i = k
          /\ \A t \in 0..(N - 1) : \E i \in Active : f[i] = t
      BY <1>2 DEF Bijection, Injection, IsInjective, Surjection
    <2> QED
      BY <2>1
  <1>4. g \in [Page(o) -> T]
    BY <1>1, <1>3, PageRanks
  <1>5. \A i, k \in Page(o) : g[i] = g[k] => i = k
    BY <1>3, PageRanks
  <1>6. ASSUME NEW t \in T PROVE \E i \in Page(o) : g[i] = t
    <2>1. t \in 0..(N - 1) /\ o <= t /\ t < o + Batch
      BY <1>1
    <2>2. PICK i \in Active : Rank(Active, i) = t
      BY <1>3, <2>1
    <2>3. i \in Page(o)
      BY <2>1, <2>2, PageRanks
    <2> QED
      BY <2>2, <2>3
  <1>7. g \in Bijection(Page(o), T)
    BY <1>4, <1>5, <1>6 DEF Bijection, Injection, IsInjective, Surjection
  <1>8. Cardinality(T) = Cardinality(Page(o))
    <2>1. ExistsBijection(Page(o), T)
      BY <1>7 DEF ExistsBijection
    <2> QED
      BY <2>1, ActiveTyped, FS_Bijection
  <1>9. Cardinality(T) = IF o > last THEN 0 ELSE last - o + 1
    <2>1. last \in Int
      BY <1>1
    <2> HIDE DEF last
    <2> QED
      BY <2>1, FS_Interval
  <1>10. Page(o) # {} => Cardinality(Page(o)) # 0
    BY ActiveTyped, FS_EmptySet
  <1>11. Page(o) = {} => Cardinality(Page(o)) = 0
    BY FS_EmptySet
  <1> QED
    BY <1>1, <1>8, <1>9, <1>10, <1>11

\* The order of the page: there is a first item.
LEMMA FirstIn == ASSUME NEW S \in SUBSET Item, S # {} PROVE First(S) \in S
  <1> DEFINE Ranks == {Rank(S, i) : i \in S}
  <1>1. S \in SUBSET Nat /\ IsFiniteSet(S)
    BY CollectorAssumption, FS_Subset
  <1>2. Cardinality(S) \in Nat /\ 0 < Cardinality(S)
    BY <1>1, FS_CardinalityType, FS_EmptySet
  <1>3. PICK i \in S : Rank(S, i) = 0
    <2>1. 0 \in 0..(Cardinality(S) - 1)
      BY <1>2
    <2> QED
      BY <1>1, <2>1, RankOnto DEF Bijection, Surjection
  <1>4. ASSUME NEW j \in S PROVE i <= j
    <2>1. i \in Nat /\ j \in Nat /\ Rank(S, j) \in Nat
      BY <1>1, RankTyped
    <2>2. j < i => Rank(S, j) < 0
      BY <1>1, <1>3, <2>1, RankGrows
    <2> QED
      BY <2>1, <2>2
  <1> QED
    BY <1>4 DEF First

-----------------------------------------------------------------------------
(* Types. *)
Typed ==
    /\ life \in [Item -> Life]
    /\ pc \in PC
    /\ offset \in Nat /\ total \in Nat /\ processed \in Nat
    /\ faults \in Nat /\ edits \in Nat /\ ons \in Nat /\ offs \in Nat
    /\ page \subseteq Item /\ collected \subseteq Item /\ steady \subseteq Active
    /\ visits \in [Item -> Nat]
    /\ pc = "collect" <=> page # {}

LEMMA VisitTyped == Typed /\ Visit => First(page) \in page /\ First(page) \in Item
  BY FirstIn DEF Typed, Visit

LEMMA TypedStep == Typed /\ [Next]_vars => Typed'
  <1> SUFFICES ASSUME Typed, [Next]_vars PROVE Typed'
    OBVIOUS
  <1> USE DEF Typed, Life, PC
  <1>1. CASE Begin
    BY <1>1 DEF Begin, Active
  <1>2. CASE CountPage
    <2>1. Cardinality(Page(offset)) \in Nat
      BY ActiveTyped
    <2>2. total' \in Nat /\ offset' \in Nat
      BY <1>2, <2>1, CollectorAssumption DEF CountPage, BeginCollecting
    <2>3. pc' \in {"count", "list"} /\ offs' \in Nat /\ steady' \subseteq Active'
      BY <1>2 DEF CountPage, BeginCollecting, Active
    <2> QED
      BY <1>2, <2>2, <2>3 DEF CountPage, BeginCollecting
  <1>3. CASE ListPage
    <2>1. Page(offset) \in SUBSET Item
      BY ActiveTyped
    <2> QED
      BY <1>3, <2>1, CollectorAssumption DEF ListPage, catalog, Active
  <1>4. CASE ListFails
    BY <1>4 DEF ListFails, Fault, catalog, Active
  <1>5. CASE CollectItem
    BY <1>5, VisitTyped DEF CollectItem, Visit, catalog, Active
  <1>6. CASE CollectFails
    BY <1>6, VisitTyped DEF CollectFails, Visit, Fault, catalog, Active
  <1>7. CASE Crash
    BY <1>7 DEF Crash, Fault, catalog, Active
  <1>8. CASE \E i \in Item : Activate(i) \/ DeactivateItem(i)
    BY <1>8 DEF Activate, DeactivateItem, Edited, Active
  <1>9. CASE UNCHANGED vars
    BY <1>9 DEF vars, Active
  <1> QED
    BY <1>1, <1>2, <1>3, <1>4, <1>5, <1>6, <1>7, <1>8, <1>9 DEF Next

LEMMA TypedInit == Init => Typed
  BY DEF Init, Typed, Life, PC, Active

LEMMA CollectorTyped == Spec => []Typed
  BY TypedInit, TypedStep, PTL DEF Spec

(* Types, and a run that collects has an item of its page at hand: the loop
   over a page never asks an empty one for its next item. *)
THEOREM CollectorTypeCorrect == Spec => []TypeOK
  <1>1. Typed => TypeOK
    BY DEF Typed, TypeOK
  <1> QED
    BY <1>1, CollectorTyped, PTL

-----------------------------------------------------------------------------
(* The counting pass, and the progress of the second one. *)
Listing == pc \in {"list", "collect"}

CountInv == pc = "count" => total = offset /\ processed = 0 /\ visits = [i \in Item |-> 0]

ProgressInv ==
    /\ Listing => /\ Cardinality(Active) <= total + ons
                  /\ processed + Cardinality(page) <= offset
                  /\ processed + Cardinality(page) <= total + ons
    /\ pc = "done" => processed <= total + ons

LEMMA PageFinite ==
  ASSUME Typed
  PROVE  IsFiniteSet(page) /\ Cardinality(page) \in Nat /\ (page = {} => Cardinality(page) = 0)
  BY CollectorAssumption, FS_Subset, FS_CardinalityType, FS_EmptySet DEF Typed

LEMMA VisitLeaves ==
  ASSUME Typed, Typed', Visit
  PROVE  Cardinality(page) \in Nat /\ Cardinality(page') = Cardinality(page) - 1
  <1>1. page' = page \ {First(page)} /\ First(page) \in page
    BY VisitTyped DEF Visit
  <1> QED
    BY <1>1, PageFinite, FS_RemoveElement

LEMMA ActivateActive ==
  ASSUME Typed, NEW i \in Item, Activate(i)
  PROVE  Active' = Active \union {i} /\ i \notin Active
  BY DEF Typed, Activate, Active

LEMMA DeactivateActive ==
  ASSUME Typed, NEW i \in Item, DeactivateItem(i)
  PROVE  Active' = Active \ {i} /\ i \in Active
  BY DEF Typed, DeactivateItem, Active, Life

LEMMA SameActive == life' = life => Active' = Active
  BY DEF Active

\* The counting pass ends: it has counted no fewer than are active now.
LEMMA SecondPassStarts ==
  ASSUME Typed, CountInv, CountPage
  PROVE  \/ /\ pc' = "count" /\ total' = offset' /\ UNCHANGED <<processed, visits>>
         \/ /\ pc' = "list" /\ offset' = 0 /\ Cardinality(Active) <= total'
            /\ processed' = 0 /\ visits' = [i \in Item |-> 0]
            /\ steady' = Active /\ offs' = 0
  <1> DEFINE n == Cardinality(Page(offset))
  <1>1. n \in Nat /\ n <= Batch /\ (n < Batch => Cardinality(Active) <= offset + n)
    BY ActiveTyped, PageCounted DEF Typed
  <1>2. /\ pc = "count" /\ total = offset /\ processed = 0 /\ visits = [i \in Item |-> 0]
        /\ total' = offset + n /\ UNCHANGED <<processed, visits>>
    BY DEF CountPage, CountInv
  <1>3. IF n < Batch THEN BeginCollecting ELSE offset' = offset + Batch /\ UNCHANGED pc
    BY DEF CountPage
  <1> HIDE DEF n
  <1>4. CASE n < Batch
    BY <1>1, <1>2, <1>3, <1>4 DEF BeginCollecting
  <1>5. CASE ~(n < Batch)
    <2>1. n = Batch
      BY <1>1, <1>5, CollectorAssumption
    <2> QED
      BY <1>2, <1>3, <1>5, <2>1
  <1> QED
    BY <1>4, <1>5

LEMMA CountStep == Typed /\ CountInv /\ [Next]_vars => CountInv'
  <1> SUFFICES ASSUME Typed, CountInv, [Next]_vars PROVE CountInv'
    OBVIOUS
  <1>1. CASE Begin
    BY <1>1 DEF Begin, CountInv
  <1>2. CASE CountPage
    BY <1>2, SecondPassStarts DEF CountInv, CountPage
  <1>3. CASE ListPage \/ ListFails \/ Crash
    BY <1>3 DEF ListPage, ListFails, Crash, CountInv
  <1>4. CASE CollectItem \/ CollectFails
    BY <1>4 DEF CollectItem, CollectFails, Visit, CountInv
  <1>5. CASE \E i \in Item : Activate(i) \/ DeactivateItem(i)
    BY <1>5 DEF Activate, DeactivateItem, CountInv
  <1>6. CASE UNCHANGED vars
    BY <1>6 DEF vars, CountInv
  <1> QED
    BY <1>1, <1>2, <1>3, <1>4, <1>5, <1>6 DEF Next

LEMMA ProgressStep ==
  Typed /\ Typed' /\ CountInv /\ ProgressInv /\ [Next]_vars => ProgressInv'
  <1> SUFFICES ASSUME Typed, Typed', CountInv, ProgressInv, [Next]_vars PROVE ProgressInv'
    OBVIOUS
  <1> DEFINE n == Cardinality(Active)
             m == Cardinality(page)
             s == Cardinality(Page(offset))
  <1>1. n \in Nat /\ m \in Nat /\ m' \in Nat /\ s \in Nat
    <2>1. n \in Nat /\ m \in Nat /\ s \in Nat
      BY ActiveTyped, PageFinite DEF Typed
    <2>2. IsFiniteSet(page')
      BY CollectorAssumption, FS_Subset DEF Typed
    <2> QED
      BY <2>1, <2>2, FS_CardinalityType
  <1>2. total \in Nat /\ processed \in Nat /\ offset \in Nat /\ ons \in Nat /\ Batch \in Nat \ {0}
    BY CollectorAssumption DEF Typed
  <1>3. CASE Begin
    BY <1>3 DEF Begin, ProgressInv, Listing
  <1>4. CASE CountPage
    <2>1. pc' = "list" => n' = n /\ m' = 0 /\ processed' = 0 /\ offset' = 0 /\ n <= total'
      <3>1. life' = life /\ page' = page /\ pc # "collect"
        BY <1>4 DEF CountPage
      <3> QED
        BY <1>4, <3>1, SecondPassStarts, SameActive, PageFinite DEF Typed
    <2>2. pc' \in {"count", "list"}
      BY <1>4, SecondPassStarts
    <2>3. total' \in Nat /\ ons' \in Nat
      BY DEF Typed
    <2> HIDE DEF n, m
    <2>4. Listing' => n' <= total' + ons' /\ processed' + m' <= offset' /\ processed' + m' <= total' + ons'
      BY <1>1, <2>1, <2>2, <2>3 DEF Listing
    <2> USE DEF n, m
    <2> QED
      BY <2>2, <2>4 DEF ProgressInv
  <1>5. CASE ListPage
    <2>1. /\ s <= Batch /\ (Page(offset) # {} => offset + s <= n)
          /\ (Page(offset) = {} => s = 0)
      BY PageCounted DEF Typed
    <2>2. pc = "list" /\ page' = Page(offset) /\ n' = n /\ UNCHANGED <<total, processed, ons>>
      BY <1>5, SameActive DEF ListPage, catalog
    <2>3. m = 0 /\ n <= total + ons /\ processed + m <= offset /\ processed + m <= total + ons
      BY <2>2, PageFinite DEF Typed, ProgressInv, Listing
    <2>4. IF page' = {} THEN pc' = "done" ELSE pc' = "collect" /\ offset' = offset + Batch
      BY <1>5 DEF ListPage
    <2>5. m' = s
      BY <2>2
    <2> HIDE DEF n, m, s
    <2>6. CASE page' = {}
      BY <1>1, <1>2, <2>2, <2>3, <2>4, <2>6 DEF ProgressInv, Listing
    <2>7. CASE page' # {}
      <3>1. processed + s <= offset + Batch /\ processed + s <= total + ons
        BY <1>1, <1>2, <2>1, <2>2, <2>3, <2>7
      <3>2. n' <= total' + ons' /\ processed' + m' <= offset' /\ processed' + m' <= total' + ons'
        BY <2>2, <2>3, <2>4, <2>5, <2>7, <3>1
      <3> USE DEF n, m
      <3> QED
        BY <2>4, <2>7, <3>2 DEF ProgressInv
    <2> QED
      BY <2>6, <2>7
  <1>6. CASE ListFails \/ Crash
    BY <1>6 DEF ListFails, Crash, ProgressInv, Listing
  <1>7. CASE CollectItem \/ CollectFails
    <2>1. Visit
      BY <1>7 DEF CollectItem, CollectFails
    <2>2. /\ pc = "collect" /\ pc' \in {"list", "collect"} /\ processed' = processed + 1
          /\ n' = n /\ UNCHANGED <<total, offset, ons>> /\ m' = m - 1
      BY <2>1, SameActive, VisitLeaves DEF Visit, catalog
    <2>3. n <= total + ons /\ processed + m <= offset /\ processed + m <= total + ons
      BY <2>2 DEF ProgressInv, Listing
    <2> HIDE DEF n, m
    <2>4. n' <= total' + ons' /\ processed' + m' <= offset' /\ processed' + m' <= total' + ons'
      BY <1>1, <1>2, <2>2, <2>3
    <2> USE DEF n, m
    <2> QED
      BY <2>2, <2>4 DEF ProgressInv
  <1>8. ASSUME NEW i \in Item, Activate(i) PROVE ProgressInv'
    <2>1. n' = n + 1
      BY <1>8, ActivateActive, ActiveTyped, FS_AddElement
    <2>2. ons' = ons + 1 /\ UNCHANGED <<pc, offset, page, total, processed>>
      BY <1>8 DEF Activate
    <2>3. m' = m
      BY <2>2
    <2> HIDE DEF n, m
    <2>4. Listing => (n' <= total' + ons' <=> n <= total + ons)
      BY <1>1, <1>2, <2>1, <2>2
    <2>5. /\ processed + m <= total + ons => processed + m <= total + (ons + 1)
          /\ processed <= total + ons => processed <= total + (ons + 1)
      BY <1>1, <1>2
    <2> USE DEF n, m
    <2> QED
      BY <2>2, <2>3, <2>4, <2>5 DEF ProgressInv, Listing
  <1>9. ASSUME NEW i \in Item, DeactivateItem(i) PROVE ProgressInv'
    <2>1. n' = n - 1
      BY <1>9, DeactivateActive, ActiveTyped, FS_RemoveElement
    <2>2. UNCHANGED <<pc, offset, page, total, processed, ons>>
      BY <1>9 DEF DeactivateItem
    <2> HIDE DEF n
    <2>3. n <= total + ons => n' <= total + ons
      BY <1>1, <1>2, <2>1
    <2> USE DEF n
    <2> QED
      BY <2>2, <2>3 DEF ProgressInv, Listing
  <1>10. CASE UNCHANGED vars
    BY <1>10, SameActive DEF vars, ProgressInv, Listing
  <1> QED
    BY <1>3, <1>4, <1>5, <1>6, <1>7, <1>8, <1>9, <1>10 DEF Next

LEMMA ProgressCorrect == Spec => [](Typed /\ CountInv /\ ProgressInv)
  <1>1. Init => CountInv /\ ProgressInv
    BY DEF Init, CountInv, ProgressInv, Listing
  <1> QED
    BY <1>1, TypedInit, TypedStep, CountStep, ProgressStep, PTL DEF Spec

(* The share of the total that an admin sees exceeds it by no more than was
   activated meanwhile: the counting pass finds at least what is active when it
   ends, and no page reaches beyond what is active when it is listed. *)
THEOREM ProgressBounded == Spec => []ProcessedWithinTotal
  <1>1. Typed /\ ProgressInv => ProcessedWithinTotal
    <2> SUFFICES ASSUME Typed, ProgressInv, pc \in {"list", "collect"}
                 PROVE  processed <= total + ons
      BY DEF ProcessedWithinTotal, ProgressInv
    <2>1. Cardinality(page) \in Nat /\ processed + Cardinality(page) <= total + ons
      BY PageFinite DEF ProgressInv, Listing
    <2> QED
      BY <2>1 DEF Typed
  <1> QED
    BY <1>1, ProgressCorrect, PTL

-----------------------------------------------------------------------------
(* Repeats and misses are about where an item stands now, relative to the
   offset.  Coming counts the visits to it, with the one that the page at hand
   still holds. *)
Coming(i) == visits[i] + (IF i \in page THEN 1 ELSE 0)

Place(i) == Rank(Active, i)

LEMMA ItemFacts ==
  ASSUME Typed, NEW i \in Item
  PROVE  i \in Nat /\ Coming(i) \in Nat /\ Place(i) \in Nat /\ (Coming(i) = 0 <=> visits[i] = 0 /\ i \notin page)
  <1>1. i \in Nat /\ visits[i] \in Nat
    BY CollectorAssumption DEF Typed
  <1>2. Place(i) \in Nat
    BY <1>1, ActiveTyped, RankTyped DEF Place
  <1> QED
    BY <1>1, <1>2 DEF Coming

\* An item of the page is visited: what was coming to it has come.
LEMMA VisitComing ==
  ASSUME Typed, Visit, NEW i \in Item
  PROVE  Coming(i)' = Coming(i) /\ Place(i)' = Place(i)
  <1>1. /\ First(page) \in page /\ page' = page \ {First(page)}
        /\ visits' = [visits EXCEPT ![First(page)] = @ + 1]
        /\ Active' = Active /\ visits[i] \in Nat
    BY VisitTyped, SameActive DEF Visit, catalog, Typed
  <1>2. CASE i = First(page)
    BY <1>1, <1>2 DEF Coming, Place, Typed
  <1>3. CASE i # First(page)
    BY <1>1, <1>3 DEF Coming, Place, Typed
  <1> QED
    BY <1>2, <1>3

\* A page is listed: something is coming to those it holds.
LEMMA ListComing ==
  ASSUME Typed, ListPage, page' # {}, NEW i \in Item
  PROVE  /\ Place(i)' = Place(i) /\ offset' = offset + Batch /\ UNCHANGED <<visits, ons, offs, steady>>
         /\ IF i \in Active /\ offset <= Place(i) /\ Place(i) < offset + Batch
            THEN Coming(i)' = Coming(i) + 1
            ELSE Coming(i)' = Coming(i)
  <1>1. /\ page = {} /\ page' = Page(offset) /\ offset' = offset + Batch
        /\ Active' = Active /\ UNCHANGED <<visits, ons, offs, steady>>
    BY SameActive DEF ListPage, catalog, Typed
  <1>2. visits[i] \in Nat
    BY DEF Typed
  <1>3. i \in page' <=> i \in Active /\ offset <= Place(i) /\ Place(i) < offset + Batch
    BY <1>1, PageRanks DEF Typed, Place
  <1> QED
    BY <1>1, <1>2, <1>3 DEF Coming, Place

\* An activation moves an item one place on at most, a deactivation one back.
LEMMA ActivatePlace ==
  ASSUME Typed, NEW k \in Item, Activate(k), NEW i \in Item
  PROVE  /\ Place(i) <= Place(i)' /\ Place(i)' <= Place(i) + 1 /\ Place(i)' \in Nat
         /\ Coming(i)' = Coming(i)
  <1> DEFINE B == {j \in Active : j < i}
             C == {j \in Active' : j < i}
  <1>1. i \in Nat /\ Place(i) \in Nat /\ Active' = Active \union {k}
    BY ItemFacts, ActivateActive
  <1>2. IsFiniteSet(B) /\ Place(i) = Cardinality(B) /\ Place(i)' = Cardinality(C)
    BY <1>1, ActiveTyped, RankTyped DEF Place, Rank
  <1>3. C = B \/ C = B \union {k}
    BY <1>1
  <1>4. Cardinality(B \union {k}) \in {Cardinality(B), Cardinality(B) + 1}
    BY <1>2, FS_AddElement
  <1>5. Coming(i)' = Coming(i)
    BY DEF Activate, Coming
  <1> HIDE DEF B, C
  <1> QED
    BY <1>1, <1>2, <1>3, <1>4, <1>5

LEMMA DeactivatePlace ==
  ASSUME Typed, NEW k \in Item, DeactivateItem(k), NEW i \in Item
  PROVE  /\ Place(i)' <= Place(i) /\ Place(i) <= Place(i)' + 1 /\ Place(i)' \in Nat
         /\ Coming(i)' = Coming(i)
  <1> DEFINE B == {j \in Active : j < i}
             C == {j \in Active' : j < i}
  <1>1. i \in Nat /\ Place(i) \in Nat /\ Active' = Active \ {k}
    BY ItemFacts, DeactivateActive
  <1>2. IsFiniteSet(B) /\ Place(i) = Cardinality(B) /\ Place(i)' = Cardinality(C)
    BY <1>1, ActiveTyped, RankTyped DEF Place, Rank
  <1>3. C = B \ {k}
    BY <1>1
  <1>4. IsFiniteSet(C) /\ Cardinality(C) = IF k \in B THEN Cardinality(B) - 1 ELSE Cardinality(B)
    BY <1>2, <1>3, FS_RemoveElement
  <1>5. Cardinality(C) \in Nat
    BY <1>4, FS_CardinalityType
  <1>6. Coming(i)' = Coming(i)
    BY DEF DeactivateItem, Coming
  <1> HIDE DEF B, C
  <1> QED
    BY <1>1, <1>2, <1>4, <1>5, <1>6

-----------------------------------------------------------------------------
(* A run comes to an item again only where activations have pushed it beyond
   the offset. *)
RepeatInv ==
    /\ \A i \in Item : Coming(i) <= 1 + ons
    /\ Listing => \A i \in Item : Coming(i) > 0 => Place(i) + Coming(i) <= offset + ons

LEMMA RepeatStep ==
  Typed /\ Typed' /\ CountInv /\ RepeatInv /\ [Next]_vars => RepeatInv'
  <1> SUFFICES ASSUME Typed, Typed', CountInv, RepeatInv, [Next]_vars PROVE RepeatInv'
    OBVIOUS
  <1>1. offset \in Nat /\ ons \in Nat /\ Batch \in Nat \ {0}
    BY CollectorAssumption DEF Typed
  <1>2. \A i \in Item : Coming(i) \in Nat /\ Place(i) \in Nat /\ Coming(i) <= 1 + ons
    BY ItemFacts DEF RepeatInv
  <1>3. CASE Begin
    <2>1. \A i \in Item : Coming(i)' = 0
      BY <1>3 DEF Begin, Coming, Typed
    <2>2. pc' = "count" /\ ons' = 0
      BY <1>3 DEF Begin
    <2> QED
      BY <2>1, <2>2 DEF RepeatInv, Listing
  <1>4. CASE CountPage
    <2>1. page = {} /\ page' = {} /\ ons' = ons /\ visits = [i \in Item |-> 0] /\ visits' = visits
      BY <1>4 DEF CountPage, BeginCollecting, CountInv, Typed
    <2>2. \A i \in Item : Coming(i)' = 0
      BY <2>1 DEF Coming
    <2> QED
      BY <1>1, <2>1, <2>2 DEF RepeatInv
  <1>5. CASE ListPage
    <2>1. CASE page' = {}
      <3>1. page = {} /\ pc' = "done" /\ UNCHANGED <<visits, ons>>
        BY <1>5, <2>1 DEF ListPage, catalog, Typed
      <3> QED
        BY <1>2, <2>1, <3>1 DEF RepeatInv, Listing, Coming
    <2>2. CASE page' # {}
      <3>1. pc = "list" /\ ons' = ons
        BY <1>5 DEF ListPage, catalog
      <3>2. ASSUME NEW i \in Item
            PROVE  Coming(i)' <= 1 + ons /\ (Coming(i)' > 0 => Place(i)' + Coming(i)' <= offset' + ons)
        <4>1. Coming(i) > 0 => Place(i) + Coming(i) <= offset + ons
          BY <3>1 DEF RepeatInv, Listing
        <4> QED
          BY <1>1, <1>2, <1>5, <2>2, <4>1, ListComing
      <3> QED
        BY <3>1, <3>2 DEF RepeatInv
    <2> QED
      BY <2>1, <2>2
  <1>6. CASE ListFails \/ Crash
    <2>1. pc' \in {"cut", "idle"} /\ page' \in {page, {}} /\ UNCHANGED <<visits, ons>>
      BY <1>6 DEF ListFails, Crash, catalog
    <2>2. \A i \in Item : visits[i] \in Nat
      BY DEF Typed
    <2>3. \A i \in Item : Coming(i)' <= 1 + ons
      BY <1>1, <1>2, <2>1, <2>2 DEF Coming
    <2> QED
      BY <2>1, <2>3 DEF RepeatInv, Listing
  <1>7. CASE CollectItem \/ CollectFails
    <2>1. Visit
      BY <1>7 DEF CollectItem, CollectFails
    <2>2. pc = "collect" /\ UNCHANGED <<offset, ons>>
      BY <2>1 DEF Visit, catalog
    <2> QED
      BY <2>1, <2>2, VisitComing DEF RepeatInv, Listing
  <1>8. ASSUME NEW k \in Item, Activate(k) PROVE RepeatInv'
    <2>1. ons' = ons + 1 /\ UNCHANGED <<pc, offset>>
      BY <1>8 DEF Activate
    <2>2. ASSUME NEW i \in Item
          PROVE  /\ Coming(i)' <= 1 + ons'
                 /\ Listing /\ Coming(i)' > 0 => Place(i)' + Coming(i)' <= offset' + ons'
      <3>1. Listing /\ Coming(i) > 0 => Place(i) + Coming(i) <= offset + ons
        BY DEF RepeatInv
      <3> QED
        BY <1>1, <1>2, <1>8, <2>1, <3>1, ActivatePlace
    <2> QED
      BY <2>1, <2>2 DEF RepeatInv, Listing
  <1>9. ASSUME NEW k \in Item, DeactivateItem(k) PROVE RepeatInv'
    <2>1. UNCHANGED <<pc, offset, ons>>
      BY <1>9 DEF DeactivateItem
    <2>2. ASSUME NEW i \in Item
          PROVE  /\ Coming(i)' <= 1 + ons'
                 /\ Listing /\ Coming(i)' > 0 => Place(i)' + Coming(i)' <= offset' + ons'
      <3>1. Listing /\ Coming(i) > 0 => Place(i) + Coming(i) <= offset + ons
        BY DEF RepeatInv
      <3> QED
        BY <1>1, <1>2, <1>9, <2>1, <3>1, DeactivatePlace
    <2> QED
      BY <2>1, <2>2 DEF RepeatInv, Listing
  <1>10. CASE UNCHANGED vars
    BY <1>10, SameActive DEF vars, RepeatInv, Listing, Coming, Place
  <1> QED
    BY <1>3, <1>4, <1>5, <1>6, <1>7, <1>8, <1>9, <1>10 DEF Next

(* No item is collected twice in a run but for an item activated under it,
   whatever pages and changes interleave. *)
THEOREM RepeatsBounded == Spec => []SecondVisitsNeedActivations
  <1>1. Init => RepeatInv
    <2> SUFFICES ASSUME Init PROVE RepeatInv
      OBVIOUS
    <2>1. \A i \in Item : Coming(i) = 0
      BY DEF Init, Coming
    <2> QED
      BY <2>1 DEF Init, RepeatInv, Listing
  <1>2. Typed /\ RepeatInv => SecondVisitsNeedActivations
    <2> SUFFICES ASSUME Typed, RepeatInv, NEW i \in Item PROVE visits[i] <= 1 + ons
      BY DEF SecondVisitsNeedActivations
    <2>1. visits[i] \in Nat /\ Coming(i) <= 1 + ons /\ ons \in Nat
      BY DEF Typed, RepeatInv
    <2> QED
      BY <2>1 DEF Coming
  <1>3. Spec => []RepeatInv
    BY <1>1, TypedInit, TypedStep, CollectorTyped, ProgressCorrect, RepeatStep, PTL DEF Spec
  <1> QED
    BY <1>2, <1>3, CollectorTyped, PTL

-----------------------------------------------------------------------------
(* What the second pass has left behind: items active all along that the pages
   listed so far have neither held nor still to come. *)
Behind == {i \in steady : Coming(i) = 0 /\ Place(i) < offset}

MissInv ==
    /\ Listing => Cardinality(Behind) <= offs
    /\ pc = "done" => Cardinality(Missed) <= offs

LEMMA SteadyFinite ==
  ASSUME Typed, NEW T \in SUBSET steady
  PROVE  IsFiniteSet(T) /\ Cardinality(T) \in Nat
  <1>1. T \in SUBSET Item
    BY DEF Typed, Active
  <1> QED
    BY <1>1, CollectorAssumption, FS_Subset, FS_CardinalityType

(* A deactivation moves one item at most from the page to come to those already
   listed: the one that stood at the offset. *)
LEMMA DeactivationLeavesOne ==
  ASSUME Typed, NEW k \in Item, DeactivateItem(k)
  PROVE  Cardinality(Behind') <= Cardinality(Behind) + 1
  <1> DEFINE Edge == {i \in Active : Place(i) = offset}
  <1>1. steady \subseteq Active /\ steady' = steady \ {k} /\ offset' = offset /\ offset \in Nat
    BY DEF Typed, DeactivateItem
  <1>2. Behind' \subseteq Behind \union Edge
    <2> SUFFICES ASSUME NEW i \in Behind', i \notin Behind PROVE i \in Edge
      OBVIOUS
    <2>1. i \in steady /\ Coming(i)' = 0 /\ Place(i)' < offset
      BY <1>1 DEF Behind
    <2>2. i \in Active /\ i \in Item
      BY <1>1, <2>1 DEF Active
    <2>3. Coming(i) = 0 /\ Place(i) \in Nat /\ Place(i)' \in Nat /\ Place(i) <= Place(i)' + 1
      BY <2>1, <2>2, ItemFacts, DeactivatePlace
    <2>4. ~(Place(i) < offset)
      BY <2>1, <2>3 DEF Behind
    <2> QED
      BY <1>1, <2>1, <2>2, <2>3, <2>4
  <1>3. \A i, j \in Edge : i = j
    BY ActiveTyped, RankUnique DEF Place
  <1>4. \E x : Behind' \subseteq Behind \union {x}
    <2>1. CASE Edge = {}
      BY <1>2, <2>1
    <2>2. CASE Edge # {}
      <3>1. PICK x : x \in Edge
        BY <2>2
      <3>2. Edge = {x}
        BY <1>3, <3>1
      <3> QED
        BY <1>2, <3>2
    <2> QED
      BY <2>1, <2>2
  <1>5. PICK x : Behind' \subseteq Behind \union {x}
    BY <1>4
  <1>6. IsFiniteSet(Behind) /\ Cardinality(Behind) \in Nat
    BY SteadyFinite DEF Behind
  <1>7. IsFiniteSet(Behind \union {x}) /\ Cardinality(Behind \union {x}) <= Cardinality(Behind) + 1
    <2>1. /\ IsFiniteSet(Behind \union {x})
          /\ Cardinality(Behind \union {x}) =
                IF x \in Behind THEN Cardinality(Behind) ELSE Cardinality(Behind) + 1
      BY <1>6, FS_AddElement
    <2> QED
      BY <1>6, <2>1
  <1>8. Cardinality(Behind \union {x}) \in Nat /\ Cardinality(Behind') \in Nat
    BY <1>5, <1>7, FS_CardinalityType, FS_Subset
  <1>9. Cardinality(Behind') <= Cardinality(Behind \union {x})
    BY <1>5, <1>7, FS_Subset
  <1> QED
    BY <1>6, <1>7, <1>8, <1>9

\* Where nothing else joins those left behind, their number does not grow.
LEMMA BehindShrinks ==
  ASSUME Typed, NEW T, T \subseteq Behind
  PROVE  Cardinality(T) <= Cardinality(Behind) /\ Cardinality(T) \in Nat /\ Cardinality(Behind) \in Nat
  BY SteadyFinite, FS_Subset DEF Behind

LEMMA MissStep ==
  Typed /\ Typed' /\ CountInv /\ MissInv /\ [Next]_vars => MissInv'
  <1> SUFFICES ASSUME Typed, Typed', CountInv, MissInv, [Next]_vars PROVE MissInv'
    OBVIOUS
  <1>1. offset \in Nat /\ offs \in Nat /\ Batch \in Nat \ {0}
    BY CollectorAssumption DEF Typed
  <1>2. \A i \in steady : i \in Item /\ i \in Active
    BY DEF Typed, Active
  <1>3. CASE Begin
    BY <1>3 DEF Begin, MissInv, Listing
  <1>4. CASE CountPage
    <2>1. \/ pc' = "count"
          \/ pc' = "list" /\ offset' = 0 /\ offs' = 0
      BY <1>4, SecondPassStarts
    <2>2. ASSUME offset' = 0 PROVE Behind' = {}
      <3>1. \A i \in steady' : Place(i)' \in Nat
        <4>1. \A i \in Active' : i \in Item
          BY DEF Active
        <4>2. life' = life
          BY <1>4 DEF CountPage
        <4> QED
          BY <4>1, <4>2, SameActive, ItemFacts DEF Typed, Place
      <3> QED
        BY <2>2, <3>1 DEF Behind
    <2>3. Cardinality({}) = 0
      BY FS_EmptySet
    <2> QED
      BY <2>1, <2>2, <2>3 DEF MissInv, Listing
  <1>5. CASE ListPage
    <2>1. pc = "list" /\ Cardinality(Behind) <= offs /\ offs' = offs /\ steady' = steady
      BY <1>5 DEF ListPage, catalog, MissInv, Listing
    <2>2. CASE page' = {}
      <3>1. Page(offset) = {} /\ page = {} /\ pc' = "done" /\ visits' = visits
        BY <1>5, <2>2 DEF ListPage, Typed
      <3>2. Cardinality(Active) <= offset
        BY <1>1, <3>1, ActiveTyped, PageCounted
      <3>3. Missed' \subseteq Behind
        <4> SUFFICES ASSUME NEW i \in Missed' PROVE i \in Behind
          OBVIOUS
        <4>1. i \in steady /\ i \in Item /\ ~(visits[i] > 0)
          BY <1>2, <2>1, <3>1 DEF Missed
        <4>2. Coming(i) = 0
          BY <3>1, <4>1 DEF Coming, Typed
        <4>3. Place(i) < offset
          <5>1. Place(i) \in Nat /\ Place(i) < Cardinality(Active)
            BY <1>2, <4>1, ActiveTyped, RankTyped DEF Place
          <5> QED
            BY <1>1, <3>2, <5>1, ActiveTyped
        <4> QED
          BY <4>1, <4>2, <4>3 DEF Behind
      <3>4. Cardinality(Missed') <= offs
        BY <1>1, <2>1, <3>3, BehindShrinks
      <3> QED
        BY <2>1, <3>1, <3>4 DEF MissInv, Listing
    <2>3. CASE page' # {}
      <3>1. Behind' \subseteq Behind
        <4> SUFFICES ASSUME NEW i \in Behind' PROVE i \in Behind
          OBVIOUS
        <4>1. i \in steady /\ i \in Item /\ i \in Active /\ Coming(i)' = 0 /\ Place(i)' < offset'
          BY <1>2, <2>1 DEF Behind
        <4>2. Coming(i) \in Nat /\ Place(i) \in Nat
          BY <4>1, ItemFacts
        <4>3. Place(i) < offset + Batch /\ ~(offset <= Place(i)) /\ Coming(i) = 0
          BY <1>1, <1>5, <2>3, <4>1, <4>2, ListComing
        <4> QED
          BY <1>1, <4>1, <4>2, <4>3 DEF Behind
      <3>2. pc' = "collect"
        BY <1>5, <2>3 DEF ListPage
      <3>3. Cardinality(Behind') <= offs
        BY <1>1, <2>1, <3>1, BehindShrinks
      <3> QED
        BY <2>1, <3>2, <3>3 DEF MissInv
    <2> QED
      BY <2>2, <2>3
  <1>6. CASE ListFails \/ Crash
    BY <1>6 DEF ListFails, Crash, MissInv, Listing
  <1>7. CASE CollectItem \/ CollectFails
    <2>1. Visit
      BY <1>7 DEF CollectItem, CollectFails
    <2>2. pc = "collect" /\ pc' # "done" /\ UNCHANGED <<offset, offs, steady>>
      BY <2>1 DEF Visit, catalog
    <2>3. Behind' = Behind
      BY <1>2, <2>1, <2>2, VisitComing DEF Behind
    <2> QED
      BY <2>2, <2>3 DEF MissInv, Listing
  <1>8. ASSUME NEW k \in Item, Activate(k) PROVE MissInv'
    <2>1. UNCHANGED <<pc, offset, page, steady, visits, offs>>
      BY <1>8 DEF Activate
    <2>2. Behind' \subseteq Behind
      <3> SUFFICES ASSUME NEW i \in Behind' PROVE i \in Behind
        OBVIOUS
      <3>1. i \in steady /\ i \in Item /\ Coming(i)' = 0 /\ Place(i)' < offset
        BY <1>2, <2>1 DEF Behind
      <3>2. Coming(i) = 0 /\ Place(i) \in Nat /\ Place(i)' \in Nat /\ Place(i) <= Place(i)'
        BY <1>8, <3>1, ItemFacts, ActivatePlace
      <3> QED
        BY <1>1, <3>1, <3>2 DEF Behind
    <2>3. Cardinality(Behind) <= offs => Cardinality(Behind') <= offs
      BY <1>1, <2>2, BehindShrinks
    <2> QED
      BY <2>1, <2>3 DEF MissInv, Listing, Missed
  <1>9. ASSUME NEW k \in Item, DeactivateItem(k) PROVE MissInv'
    <2>1. UNCHANGED <<pc, visits>> /\ offs' = offs + 1 /\ steady' = steady \ {k}
      BY <1>9 DEF DeactivateItem
    <2>2. Cardinality(Behind) <= offs => Cardinality(Behind') <= offs'
      <3>1. Cardinality(Behind) \in Nat /\ Cardinality(Behind') \in Nat
        <4>1. Behind' \subseteq steady
          BY <2>1 DEF Behind
        <4> QED
          BY <4>1, SteadyFinite DEF Behind
      <3> QED
        BY <1>1, <1>9, <2>1, <3>1, DeactivationLeavesOne
    <2>3. Cardinality(Missed) <= offs => Cardinality(Missed') <= offs'
      <3>1. Missed' \subseteq Missed
        BY <2>1 DEF Missed
      <3>2. IsFiniteSet(Missed) /\ Cardinality(Missed) \in Nat
        BY SteadyFinite DEF Missed
      <3>3. Cardinality(Missed') <= Cardinality(Missed) /\ Cardinality(Missed') \in Nat
        BY <3>1, <3>2, FS_Subset, FS_CardinalityType
      <3> QED
        BY <1>1, <2>1, <3>2, <3>3
    <2> QED
      BY <2>1, <2>2, <2>3 DEF MissInv, Listing
  <1>10. CASE UNCHANGED vars
    <2>1. Behind' = Behind /\ Missed' = Missed
      BY <1>10, SameActive DEF vars, Behind, Coming, Place, Missed
    <2> QED
      BY <1>10, <2>1 DEF vars, MissInv, Listing
  <1> QED
    BY <1>3, <1>4, <1>5, <1>6, <1>7, <1>8, <1>9, <1>10 DEF Next

(* A run that reaches its end has missed no more items active all along than
   were deactivated under it, in a catalog and with pages of any size. *)
THEOREM MissesBounded == Spec => []MissesNeedDeactivations
  <1>1. Init => MissInv
    BY DEF Init, MissInv, Listing
  <1>2. MissInv => MissesNeedDeactivations
    BY DEF MissInv, MissesNeedDeactivations
  <1> QED
    BY <1>1, <1>2, CollectorTyped, ProgressCorrect, MissStep, PTL DEF Spec

=============================================================================
