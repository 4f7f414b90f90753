-------------------------- MODULE ListPagingProofs --------------------------
(***************************************************************************)
(* A client that is never told of a truncation misses no row, and one that *)
(* follows the notes gets its rows, for any number of rows, sizes, pages   *)
(* and budgets; and what the search within a page promises holds of every  *)
(* page of a walk.                                                         *)
(***************************************************************************)
EXTENDS ListPaging, FiniteSetTheorems, SequenceTheorems, TLAPS

-----------------------------------------------------------------------------
(* One list: the response keeps the longest prefix of rows that fits.  The *)
(* loop invariant of the search: what low rows need fits, and nothing      *)
(* longer than high rows does.                                             *)

SearchInv ==
    pc = "search" =>
        /\ low <= high
        /\ low > 0 => size[low] <= budget
        /\ \A k \in 1..count : size[k] <= budget => k <= high
        /\ size[count] > budget

IInv == TypeOK /\ SearchInv /\ LargestPrefix /\ NoteHonest

\* What TypeOK says of the sizes, without the set of functions.
LEMMA SizeFacts ==
  ASSUME TypeOK
  PROVE  /\ count \in Nat /\ budget \in Int /\ low \in 0..count /\ high \in 0..count
         /\ size \in [0..count -> Int]
         /\ size[0] = EmptyListSize
         /\ \A i, j \in 0..count : i < j => size[i] < size[j]
  <1>1. EmptyListSize..MaxSize \subseteq Int
    BY BoundAssumption DEF EmptyListSize
  <1>2. size \in [0..count -> EmptyListSize..MaxSize]
        /\ size[0] = EmptyListSize
        /\ \A i, j \in 0..count : i < j => size[i] < size[j]
    BY DEF TypeOK, Sizes
  <1>3. size \in [0..count -> Int]
    BY <1>1, <1>2
  <1>4. count \in Nat /\ budget \in Int
    BY BoundAssumption, BudgetAssumption DEF TypeOK
  <1> QED
    BY <1>2, <1>3, <1>4 DEF TypeOK

LEMMA InitIInv == Init => IInv
  BY BoundAssumption DEF Init, IInv, TypeOK, SearchInv, LargestPrefix, NoteHonest

\* A probe looks inside the interval, and leaves a smaller one.
LEMMA ProbeNarrows ==
  ASSUME TypeOK, Probe
  PROVE  Mid \in (low + 1)..high /\ high' - low' < high - low
  <1>1. low \in Int /\ high \in Int /\ low < high
    BY SizeFacts DEF Probe
  <1>2. Mid \in (low + 1)..high
    BY <1>1 DEF Mid
  <1> QED
    BY <1>1, <1>2 DEF Probe

LEMMA NextIInv ==
  ASSUME IInv, [Next]_vars
  PROVE  IInv'
  <1> USE DEF IInv
  <1>0. /\ TypeOK /\ SearchInv /\ LargestPrefix /\ NoteHonest
        /\ count \in Nat /\ budget \in Int /\ low \in 0..count /\ high \in 0..count
        /\ size \in [0..count -> Int]
        /\ size[0] = EmptyListSize
        /\ \A i, j \in 0..count : i < j => size[i] < size[j]
    BY SizeFacts DEF IInv
  <1>n. count \in Nat /\ budget \in Int /\ low \in Int /\ 0 <= low /\ low <= count
    BY <1>0
  <1>1. CASE Measure
    <2>1. /\ UNCHANGED <<count, size, budget>>
          /\ pc = "measure"
      BY <1>1, <1>0 DEF Measure
    <2>2. CASE size[count] <= budget
      <3>1. pc' = "done" /\ UNCHANGED <<low, high>>
            /\ response' = [returned |-> count, truncated |-> FALSE, note |-> "none"]
        BY <1>1, <2>2 DEF Measure, Fits, Respond
      <3>2. TypeOK'
        <4>1. count \in 0..count /\ "none" \in Notes
          BY <1>0 DEF Notes
        <4>2. response' \in [returned : 0..count, truncated : BOOLEAN, note : Notes]
          BY <3>1, <4>1
        <4> QED
          BY <2>1, <3>1, <4>2 DEF TypeOK
      <3>3. response'.returned = count /\ response'.truncated = FALSE
            /\ response'.note = "none"
        BY <3>1
      <3>4. LargestPrefix'
        BY <2>1, <2>2, <3>1, <3>3, <1>0 DEF LargestPrefix
      <3>5. NoteHonest'
        BY <2>1, <3>1, <3>3, <1>0 DEF NoteHonest
      <3> QED
        BY <3>1, <3>2, <3>4, <3>5 DEF SearchInv
    <2>3. CASE ~(size[count] <= budget)
      <3>1. pc' = "search" /\ low' = 0 /\ high' = count /\ UNCHANGED response
        BY <1>1, <2>3 DEF Measure, Fits
      <3>2. TypeOK'
        BY <2>1, <3>1, <1>0 DEF TypeOK
      <3>3. size[count] > budget
        BY <2>3, <1>0
      <3> QED
        BY <2>1, <3>1, <3>2, <3>3, <1>0 DEF SearchInv, LargestPrefix, NoteHonest
    <2> QED
      BY <2>2, <2>3
  <1>2. CASE Probe
    <2>1. /\ UNCHANGED <<count, size, budget, pc, response>>
          /\ pc = "search"
          /\ Mid \in (low + 1)..high
      BY <1>2, <1>0, ProbeNarrows DEF Probe
    <2>2. TypeOK'
      BY <1>2, <2>1, <1>0 DEF Probe, TypeOK
    <2>3. CASE size[Mid] <= budget
      <3>1. low' = Mid /\ high' = high
        BY <1>2, <2>3 DEF Probe, Fits
      <3> QED
        BY <2>1, <2>2, <2>3, <3>1, <1>0 DEF SearchInv, LargestPrefix, NoteHonest
    <2>4. CASE ~(size[Mid] <= budget)
      <3>1. low' = low /\ high' = Mid - 1
        BY <1>2, <2>4 DEF Probe, Fits
      <3>2. \A k \in 1..count : size[k] <= budget => k <= Mid - 1
        <4>1. SUFFICES ASSUME NEW k \in 1..count, size[k] <= budget, k > Mid - 1
                       PROVE  FALSE
          BY <2>1, <1>0
        <4>2. k = Mid \/ size[Mid] < size[k]
          BY <4>1, <2>1, <1>0
        <4> QED
          BY <4>1, <4>2, <2>1, <2>4, <1>0
      <3> QED
        BY <2>1, <2>2, <3>1, <3>2, <1>0 DEF SearchInv, LargestPrefix, NoteHonest
    <2> QED
      BY <2>3, <2>4
  <1>3. CASE Finish
    <2>1. /\ UNCHANGED <<count, size, budget, low, high>>
          /\ pc = "search" /\ pc' = "done" /\ low = high
      <3>1. pc = "search" /\ low >= high /\ UNCHANGED <<count, size, budget, low, high>>
        BY <1>3 DEF Finish
      <3>2. pc' = "done"
        BY <1>3 DEF Finish, Truncate, Respond
      <3>3. low <= high
        BY <1>0, <3>1 DEF SearchInv
      <3> QED
        BY <1>0, <3>1, <3>2, <3>3
    <2>2. /\ low > 0 => size[low] <= budget
          /\ \A k \in 1..count : size[k] <= budget => k <= low
          /\ size[count] > budget
      BY <2>1, <1>0 DEF SearchInv
    <2>3. CASE low > 0
      <3>1. response' = [returned |-> low, truncated |-> TRUE, note |-> "rows dropped"]
        BY <1>3, <2>3 DEF Finish, Truncate, Respond
      <3>2. low # count
        BY <2>2, <2>3, <1>0
      <3>3. TypeOK'
        <4>1. response' \in [returned : 0..count, truncated : BOOLEAN, note : Notes]
          BY <3>1, <1>0 DEF Notes
        <4> QED
          BY <4>1, <2>1, <1>0 DEF TypeOK
      <3>4. /\ response'.returned = low
            /\ response'.truncated = TRUE
            /\ response'.note = "rows dropped"
        BY <3>1
      <3>5. LargestPrefix'
        BY <2>1, <2>2, <2>3, <3>4 DEF LargestPrefix
      <3>6. NoteHonest'
        <4>1. low < count /\ low \in 1..(count - 1)
          BY <2>3, <3>2, <1>n
        <4> QED
          BY <2>1, <3>4, <4>1 DEF NoteHonest
      <3> QED
        BY <2>1, <3>3, <3>5, <3>6 DEF SearchInv
    <2>4. CASE low = 0
      <3>1. response' = [returned |-> 0, truncated |-> TRUE, note |-> "no row fits"]
        <4>1. ~(low > 0)
          BY <2>4
        <4> QED
          BY <1>3, <4>1 DEF Finish, Truncate, Respond
      <3>2. TypeOK'
        <4>1. response' \in [returned : 0..count, truncated : BOOLEAN, note : Notes]
          BY <3>1, <2>4, <1>0 DEF Notes
        <4> QED
          BY <4>1, <2>1, <1>0 DEF TypeOK
      <3>3. /\ response'.returned = 0
            /\ response'.truncated = TRUE
            /\ response'.note = "no row fits"
        BY <3>1
      <3>4. LargestPrefix'
        BY <2>1, <2>2, <2>4, <3>3 DEF LargestPrefix
      <3>5. NoteHonest'
        <4>1. ASSUME budget >= EmptyListSize PROVE count > 0 /\ size[1] > budget
          <5>1. count # 0
            BY <4>1, <2>2, <1>0
          <5>2. 1 \in 1..count
            BY <5>1, <1>n
          <5>3. ~(size[1] <= budget)
            BY <5>2, <2>2, <2>4
          <5>4. size[1] \in Int
            BY <5>2, <1>0
          <5> QED
            BY <5>1, <5>3, <5>4, <1>n
        <4> QED
          BY <2>1, <3>3, <4>1 DEF NoteHonest
      <3> QED
        BY <2>1, <3>2, <3>4, <3>5 DEF SearchInv
    <2> QED
      BY <2>3, <2>4, <1>n
  <1>4. CASE UNCHANGED vars
    BY <1>4 DEF vars, TypeOK, SearchInv, LargestPrefix, NoteHonest
  <1> QED
    BY <1>1, <1>2, <1>3, <1>4 DEF Next

THEOREM Invariance == Spec => []IInv
  <1>1. IInv /\ [Next]_vars => IInv'
    BY NextIInv
  <1> QED
    BY <1>1, InitIInv, PTL DEF Spec

\* The longest prefix that fits is returned, for any number of rows, any sizes and
\* any budget: the promise of shape_list_response's docstring.
THEOREM LargestPrefixHolds == Spec => []LargestPrefix
  <1>1. IInv => LargestPrefix
    BY DEF IInv
  <1> QED
    BY <1>1, Invariance, PTL

\* The note and the flag of the response say what was dropped and why, for any
\* number of rows, any sizes and any budget that an empty list meets.
THEOREM NoteHonestHolds == Spec => []NoteHonest
  <1>1. IInv => NoteHonest
    BY DEF IInv
  <1> QED
    BY <1>1, Invariance, PTL

-----------------------------------------------------------------------------
(* Helpers *)

\* A set of naturals has a least element: the induction over prefixes below
\* looks at the shortest prefix that a claim is false of.
LEMMA LeastElement ==
  ASSUME NEW T, T \subseteq Nat, T # {}
  PROVE  \E x \in T : \A y \in T : x <= y
  <1> DEFINE below == {0..x : x \in T}
  <1>1. \A x \in T : IsFiniteSet(0..x) /\ 0..x \subseteq Nat
    BY FS_Interval
  <1>2. below \subseteq FiniteSubsetsOf(Nat) /\ below # {}
    BY <1>1 DEF FiniteSubsetsOf
  <1>3. PICK a \in below : \A b \in below : <<b, a>> \notin StrictSubsetOrdering(Nat)
    <2> HIDE DEF below
    <2> QED
      BY <1>2, FS_StrictSubsetOrderingWellFounded, WFMin, Zenon
  <1>4. PICK x \in T : a = 0..x
    OBVIOUS
  <1>5. ASSUME NEW y \in T, y < x
        PROVE  FALSE
    <2>1. 0..y \in below /\ 0..y \subseteq 0..x /\ x \in 0..x /\ x \notin 0..y
      BY <1>5
    <2>2. <<0..y, 0..x>> \in StrictSubsetOrdering(Nat)
      BY <2>1 DEF StrictSubsetOrdering
    <2> QED
      BY <1>3, <1>4, <2>1, <2>2
  <1> QED
    BY <1>5

\* The smaller of two numbers.
LEMMA MinOfTwo ==
  ASSUME NEW a \in Int, NEW b \in Int
  PROVE  Min({a, b}) = IF a <= b THEN a ELSE b
  <1>1. \A x \in {a, b} : (\A y \in {a, b} : x <= y) => x = IF a <= b THEN a ELSE b
    OBVIOUS
  <1>2. \E x \in {a, b} : \A y \in {a, b} : x <= y
    OBVIOUS
  <1> QED
    BY <1>1, <1>2 DEF Min

\* The page a tool starts from is the first one its operation has: no rows are
\* skipped before it.
LEMMA FirstPageFacts ==
  ASSUME NEW t \in DOMAIN FirstPages
  PROVE  FirstPages[t] = IF t \in CountsFromOne THEN 1 ELSE 0
  <1>1. PICK m \in PagedModules : t \in m.tools
    BY DEF FirstPages
  <1>2. \A m1 \in PagedModules : t \in m1.tools =>
           m1.first = IF t \in CountsFromOne THEN 1 ELSE 0
    BY DEF PagedModules, TeamPages, KonshubPages, ConstructionPages, ShipmentPages,
           EquipmentPages, LeanCardPages, Paged, CountsFromOne
  <1> HIDE DEF FirstPages
  <1>3. t \in UNION {m1.tools : m1 \in PagedModules}
    BY <1>1
  <1>4. FirstPages[t] = (CHOOSE m1 \in PagedModules : t \in m1.tools).first
    BY <1>3 DEF FirstPages
  <1> QED
    BY <1>1, <1>2, <1>4

-----------------------------------------------------------------------------
(* The sizes of the prefixes of a list of rows *)

\* The rows an answer may have.
Row == 1..LargestRow

Grown(s, k, bytes) ==
    IF k = 0 THEN EmptyListSize
             ELSE bytes[k - 1] + (IF k = 1 THEN 0 ELSE 1) + s[k]

\* There is a function that meets the recursive definition.
LEMMA PrefixSizesExist ==
  ASSUME NEW s \in Seq(Row)
  PROVE  \E f : f = [k \in 0..Len(s) |-> Grown(s, k, f)]
  <1> DEFINE Exists(n) == \E f : f = [k \in 0..n |-> Grown(s, k, f)]
             T == {n \in 0..Len(s) : ~Exists(n)}
  <1>1. SUFFICES ASSUME T # {}
                 PROVE  FALSE
    <2>1. Len(s) \in 0..Len(s)
      OBVIOUS
    <2>2. ~Exists(Len(s)) => Len(s) \in T
      BY <2>1
    <2> QED
      BY <2>2
  <1>2. PICK n \in T : \A m \in T : n <= m
    <2>1. T \subseteq Nat
      OBVIOUS
    <2> HIDE DEF T
    <2> QED
      BY <1>1, <2>1, LeastElement
  <1>3. n # 0
    <2>1. [k \in 0..0 |-> EmptyListSize] =
            [k \in 0..0 |-> Grown(s, k, [j \in 0..0 |-> EmptyListSize])]
      BY DEF Grown
    <2>2. Exists(0)
      BY <2>1
    <2> QED
      BY <2>2
  <1>4. Exists(n - 1)
    <2>1. n - 1 \in 0..Len(s) /\ ~(n <= n - 1)
      BY <1>3
    <2> QED
      BY <1>2, <2>1
  <1>5. PICK f : f = [k \in 0..(n - 1) |-> Grown(s, k, f)]
    BY <1>4
  <1> DEFINE g == [k \in 0..n |-> IF k = n THEN Grown(s, n, f) ELSE f[k]]
  <1>6. ASSUME NEW k \in 0..n
        PROVE  g[k] = Grown(s, k, g)
    <2>1. CASE k = n
      <3>1. n - 1 \in 0..n /\ n - 1 # n
        BY <1>3
      <3>2. g[n - 1] = f[n - 1]
        BY <3>1
      <3> QED
        BY <2>1, <3>2 DEF Grown
    <2>2. CASE k # n
      <3>1. k \in 0..(n - 1)
        BY <2>2
      <3>2. g[k] = Grown(s, k, f)
        BY <1>5, <2>2, <3>1
      <3>3. k # 0 => g[k - 1] = f[k - 1]
        BY <3>1
      <3> QED
        BY <3>2, <3>3 DEF Grown
    <2> QED
      BY <2>1, <2>2
  <1>7. g = [k \in 0..n |-> Grown(s, k, g)]
    <2> HIDE DEF Grown
    <2>1. \A k \in 0..n : g[k] = Grown(s, k, g)
      BY <1>6
    <2> DEFINE h == [k \in 0..n |-> Grown(s, k, g)]
    <2>2. \A k \in 0..n : h[k] = Grown(s, k, g)
      OBVIOUS
    <2>3. g = [k \in 0..n |-> g[k]] /\ h = [k \in 0..n |-> h[k]]
      OBVIOUS
    <2> HIDE DEF g, h
    <2>4. g = h
      BY <2>1, <2>2, <2>3
    <2> QED
      BY <2>4 DEF h
  <1>8. Exists(n)
    <2> HIDE DEF g
    <2> QED
      BY <1>7
  <1> QED
    BY <1>8

\* The sizes grow row by row.
LEMMA PrefixSizesGrow ==
  ASSUME NEW s \in Seq(Row)
  PROVE  PrefixSizes(s) = [k \in 0..Len(s) |-> Grown(s, k, PrefixSizes(s))]
  <1>1. PrefixSizes(s) = CHOOSE f : f = [k \in 0..Len(s) |-> Grown(s, k, f)]
    BY DEF PrefixSizes, Grown
  <1> QED
    BY <1>1, PrefixSizesExist
\* What k rows take: the brackets, a byte for each row at the least, and the
\* largest row with its comma for each at the most.
LEMMA PrefixSizesBounded ==
  ASSUME NEW s \in Seq(Row), NEW k \in 0..Len(s)
  PROVE  PrefixSizes(s)[k] \in (EmptyListSize + k)..(EmptyListSize + k * (LargestRow + 1))
  <1> DEFINE b == PrefixSizes(s)
             Bounded(n) == b[n] \in (EmptyListSize + n)..(EmptyListSize + n * (LargestRow + 1))
             T == {n \in 0..Len(s) : ~Bounded(n)}
  <1>1. SUFFICES ASSUME T # {}
                 PROVE  FALSE
    OBVIOUS
  <1>2. PICK n \in T : \A m \in T : n <= m
    <2>1. T \subseteq Nat
      OBVIOUS
    <2> HIDE DEF T
    <2> QED
      BY <1>1, <2>1, LeastElement
  <1>3. \A m \in 0..Len(s) : b[m] = Grown(s, m, b)
    BY PrefixSizesGrow
  <1> HIDE DEF b
  <1>4. LargestRow \in Nat
    BY PagingAssumption
  <1>5. n # 0
    BY <1>3, <1>4 DEF Grown, EmptyListSize
  <1>6. Bounded(n - 1)
    <2>1. n - 1 \in 0..Len(s) /\ ~(n <= n - 1)
      BY <1>5
    <2> QED
      BY <1>2, <2>1
  <1>7. b[n] = b[n - 1] + (IF n = 1 THEN 0 ELSE 1) + s[n]
    BY <1>3, <1>5 DEF Grown
  <1>8. s[n] \in 1..LargestRow
    <2>1. n \in 1..Len(s)
      BY <1>5
    <2>2. s[n] \in Row
      BY <2>1, ElementOfSeq
    <2> QED
      BY <2>2 DEF Row
  <1>9. (n - 1) * (LargestRow + 1) + LargestRow + 1 = n * (LargestRow + 1)
    BY <1>4
  <1>10. (n - 1) * (LargestRow + 1) \in Int /\ n * (LargestRow + 1) \in Int
    BY <1>4
  <1>11. Bounded(n)
    BY <1>4, <1>6, <1>7, <1>8, <1>9, <1>10 DEF EmptyListSize
  <1> QED
    BY <1>11

\* A longer prefix is larger.
LEMMA PrefixSizesIncrease ==
  ASSUME NEW s \in Seq(Row), NEW i \in 0..Len(s), NEW j \in 0..Len(s), i < j
  PROVE  PrefixSizes(s)[i] < PrefixSizes(s)[j]
  <1> DEFINE b == PrefixSizes(s)
             T == {n \in (i + 1)..Len(s) : ~(b[i] < b[n])}
  <1>1. SUFFICES ASSUME T # {}
                 PROVE  FALSE
    <2>1. j \in (i + 1)..Len(s)
      OBVIOUS
    <2> QED
      BY <2>1
  <1>2. PICK n \in T : \A m \in T : n <= m
    <2>1. T \subseteq Nat
      OBVIOUS
    <2> HIDE DEF T
    <2> QED
      BY <1>1, <2>1, LeastElement
  <1>3. \A m \in 0..Len(s) : b[m] = Grown(s, m, b) /\ b[m] \in Int
    <2>1. ASSUME NEW m \in 0..Len(s)
          PROVE  b[m] \in Int
      <3>1. EmptyListSize + m \in Int /\ EmptyListSize + m * (LargestRow + 1) \in Int
        BY PagingAssumption DEF EmptyListSize
      <3>2. b[m] \in (EmptyListSize + m)..(EmptyListSize + m * (LargestRow + 1))
        BY PrefixSizesBounded
      <3> HIDE DEF b
      <3> QED
        BY <3>1, <3>2
    <2> QED
      BY <2>1, PrefixSizesGrow
  <1> HIDE DEF b
  <1>4. s[n] \in Nat /\ s[n] > 0
    BY PagingAssumption DEF Row
  <1>5. b[n - 1] < b[n]
    BY <1>3, <1>4 DEF Grown
  <1>6. CASE n = i + 1
    BY <1>5, <1>6
  <1>7. CASE n # i + 1
    <2>1. n - 1 \in (i + 1)..Len(s) /\ ~(n <= n - 1)
      BY <1>7
    <2>2. b[i] < b[n - 1]
      BY <1>2, <2>1
    <2> QED
      BY <1>3, <1>5, <2>1, <2>2
  <1> QED
    BY <1>6, <1>7

\* A list of at most MaxRows rows has prefixes of sizes that shape_list_response
\* may meet; the first of them is a row in brackets.
LEMMA PrefixSizesAreSizes ==
  ASSUME NEW s \in Seq(Row), Len(s) <= MaxRows
  PROVE  /\ PrefixSizes(s) \in Sizes(Len(s))
         /\ Len(s) > 0 => PrefixSizes(s)[1] = EmptyListSize + s[1]
  <1> DEFINE b == PrefixSizes(s)
  <1>1. b = [k \in 0..Len(s) |-> Grown(s, k, b)]
    BY PrefixSizesGrow
  <1>2. b[0] = EmptyListSize /\ (Len(s) > 0 => b[1] = EmptyListSize + s[1])
    <2>1. b[0] = Grown(s, 0, b) /\ (Len(s) > 0 => b[1] = Grown(s, 1, b))
      BY <1>1
    <2>2. Len(s) > 0 => s[1] \in Int
      BY PagingAssumption DEF Row
    <2> HIDE DEF b
    <2> QED
      BY <2>1, <2>2 DEF Grown, EmptyListSize
  <1>3. ASSUME NEW k \in 0..Len(s)
        PROVE  b[k] \in EmptyListSize..MaxSize
    <2>1. b[k] \in (EmptyListSize + k)..(EmptyListSize + k * (LargestRow + 1))
      BY PrefixSizesBounded
    <2>2. k * (LargestRow + 1) <= MaxRows * (LargestRow + 1)
      <3>1. k \in Nat /\ LargestRow + 1 \in Nat /\ MaxRows - k \in Nat
        BY PagingAssumption, BoundAssumption
      <3>2. (MaxRows - k) * (LargestRow + 1) \in Nat
        BY <3>1
      <3>3. (MaxRows - k) * (LargestRow + 1) =
              MaxRows * (LargestRow + 1) - k * (LargestRow + 1)
        BY PagingAssumption, BoundAssumption
      <3>4. MaxRows * (LargestRow + 1) \in Int /\ k * (LargestRow + 1) \in Int
        BY PagingAssumption, BoundAssumption
      <3> QED
        BY <3>2, <3>3, <3>4
    <2>3. MaxRows * (LargestRow + 1) \in Int /\ k * (LargestRow + 1) \in Int
      BY PagingAssumption, BoundAssumption
    <2> HIDE DEF b
    <2> QED
      BY <2>1, <2>2, <2>3, PagingAssumption, BoundAssumption DEF EmptyListSize
  <1>4. \A i, j \in 0..Len(s) : i < j => b[i] < b[j]
    BY PrefixSizesIncrease
  <1>5. b \in [0..Len(s) -> EmptyListSize..MaxSize]
    <2>1. b = [k \in 0..Len(s) |-> b[k]]
      BY <1>1
    <2> HIDE DEF b
    <2> QED
      BY <1>3, <2>1
  <1> HIDE DEF b
  <1>6. b \in Sizes(Len(s)) /\ (Len(s) > 0 => b[1] = EmptyListSize + s[1])
    BY <1>2, <1>4, <1>5 DEF Sizes
  <1> QED
    BY <1>6 DEF b

-----------------------------------------------------------------------------
(* Pages *)

\* Nothing is skipped before the first page, and a page skips one page more than
\* the page before it.
LEMMA SkipFacts ==
  ASSUME NEW t \in DOMAIN FirstPages, NEW p \in Nat, p >= FirstPages[t], NEW n \in Nat
  PROVE  LET skip == (IF t \in CountsFromOne THEN p - 1 ELSE p) * n
         IN  /\ skip \in Nat
             /\ p = FirstPages[t] => skip = 0
             /\ (IF t \in CountsFromOne THEN (p + 1) - 1 ELSE p + 1) * n = skip + n
  <1> DEFINE k == IF t \in CountsFromOne THEN p - 1 ELSE p
  <1>1. k \in Nat /\ (p = FirstPages[t] => k = 0)
    BY FirstPageFacts
  <1>2. (IF t \in CountsFromOne THEN (p + 1) - 1 ELSE p + 1) = k + 1
    BY <1>1
  <1> HIDE DEF k
  <1>3. k * n \in Nat /\ (k + 1) * n = k * n + n /\ (k = 0 => k * n = 0)
    BY <1>1
  <1> QED
    BY <1>1, <1>2, <1>3 DEF k

\* What the API answers a page with: the rows from the skip on, a page of them at
\* the most.
LEMMA SliceFacts ==
  ASSUME NEW S, NEW s \in Seq(S), NEW skip \in Nat, NEW n \in Nat
  PROVE  /\ Slice(s, skip, n) \in Seq(S)
         /\ Len(Slice(s, skip, n)) = Min({skip + n, Len(s)}) - Min({skip, Len(s)})
         /\ Len(Slice(s, skip, n)) \in Nat
         /\ Len(Slice(s, skip, n)) <= n
         /\ Len(Slice(s, skip, n)) <= Len(s)
  <1> DEFINE m == Min({skip, Len(s)})
             k == Min({skip + n, Len(s)})
  <1>1. /\ m = IF skip <= Len(s) THEN skip ELSE Len(s)
        /\ k = IF skip + n <= Len(s) THEN skip + n ELSE Len(s)
    BY MinOfTwo
  <1>2. Slice(s, skip, n) = SubSeq(s, m + 1, k)
    <2>1. ~(skip < 0)
      OBVIOUS
    <2> QED
      BY <2>1 DEF Slice
  <1> HIDE DEF m, k
  <1>3. m \in Nat /\ k \in Nat /\ m <= k /\ k <= Len(s) /\ k - m <= n
    BY <1>1
  <1>4. \A i \in (m + 1)..k : s[i] \in S
    <2>1. \A i \in (m + 1)..k : i \in 1..Len(s)
      BY <1>3
    <2> QED
      BY <2>1, ElementOfSeq
  <1>5. /\ SubSeq(s, m + 1, k) \in Seq(S)
        /\ Len(SubSeq(s, m + 1, k)) = IF m + 1 <= k THEN k - (m + 1) + 1 ELSE 0
    BY <1>3, <1>4, SubSeqProperties
  <1>6. Len(SubSeq(s, m + 1, k)) = k - m
    BY <1>3, <1>5
  <1>7. k - m \in Nat /\ k - m <= n /\ k - m <= Len(s)
    BY <1>3
  <1>8. /\ Slice(s, skip, n) \in Seq(S)
        /\ Len(Slice(s, skip, n)) = k - m
    BY <1>2, <1>5, <1>6
  <1> QED
    BY <1>7, <1>8 DEF m, k

-----------------------------------------------------------------------------
(* The invariant *)

\* The client's side of the types.
WalkOK ==
    /\ tool \in DOMAIN FirstPages
    /\ page \in Nat /\ page >= FirstPages[tool]
    /\ pageSize \in 1..MaxPageSize
    /\ rows \in Seq(Row) /\ Len(rows) <= MaxRows
    /\ received \in Seq(Nat)
    /\ projected \in BOOLEAN /\ marked \in BOOLEAN
    /\ walk \in {"walking", "ended", "gave up"}

\* What is shaped is the page that was asked for.
AtPage ==
    /\ count = Len(Slice(rows, Skip, pageSize))
    /\ size = PrefixSizes(Slice(rows, Skip, pageSize))

\* A response is whole or says that it is not, and a page to narrow to has rows.
\* NoteHonest says less where the budget is below that of an empty list.
Responded ==
    pc = "done" =>
        /\ ~response.truncated => response.returned = count
        /\ response.note = "rows dropped" => response.returned > 0
        /\ response.note = "no row fits" => response.truncated

\* `fields` has made every row as small as it gets.
Projected == projected => \A i \in 1..Len(rows) : rows[i] = SmallestRow

PagingInv ==
    /\ IInv
    /\ WalkOK
    /\ AtPage
    /\ Responded
    /\ Projected
    /\ NoSilentGap
    /\ AdviceSuffices

LEMMA SkipIsNat ==
  ASSUME WalkOK
  PROVE  Skip \in Nat
  <1>1. pageSize \in 1..MaxPageSize
    BY DEF WalkOK
  <1>2. pageSize \in Nat
    BY <1>1, PagingAssumption
  <1> QED
    BY <1>2, SkipFacts DEF WalkOK, Skip

\* A page that is answered is ready to be measured.
LEMMA PageAnswered ==
  ASSUME NEW s \in Seq(Row), Len(s) <= MaxRows, NEW skip \in Nat, NEW n \in 1..MaxPageSize
  PROVE  LET slice == Slice(s, skip, n)
         IN  /\ Len(slice) \in 0..MaxRows
             /\ PrefixSizes(slice) \in Sizes(Len(slice))
  <1>1. n \in Nat
    BY PagingAssumption
  <1>2. Slice(s, skip, n) \in Seq(Row) /\ Len(Slice(s, skip, n)) \in Nat
        /\ Len(Slice(s, skip, n)) <= Len(s)
    BY <1>1, SliceFacts
  <1>3. Len(Slice(s, skip, n)) <= MaxRows
    BY <1>2, BoundAssumption
  <1> QED
    BY <1>2, <1>3, PrefixSizesAreSizes, BoundAssumption

LEMMA PagingInitInv == PagingInit => PagingInv
  <1> SUFFICES ASSUME PagingInit
               PROVE  PagingInv
    OBVIOUS
  <1>1. rows \in Seq(Row) /\ Len(rows) <= MaxRows
    <2>1. PICK m \in 0..MaxRows : rows \in [1..m -> RowSizes]
      BY DEF PagingInit, BoundedSeq, SeqOf
    <2>2. m \in Nat /\ m <= MaxRows
      BY BoundAssumption
    <2>3. RowSizes \subseteq Row
      BY PagingAssumption DEF Row
    <2>4. rows \in [1..m -> Row]
      BY <2>1, <2>3
    <2> QED
      BY <2>2, <2>4
  <1>2. WalkOK
    <2>1. FirstPages[tool] \in Nat
      BY FirstPageFacts DEF PagingInit
    <2>2. received \in Seq(Nat)
      BY DEF PagingInit
    <2>3. pageSize \in 1..MaxPageSize
      BY PagingAssumption DEF PagingInit
    <2>4. tool \in DOMAIN FirstPages /\ page \in Nat /\ page >= FirstPages[tool]
      BY <2>1 DEF PagingInit
    <2>5. projected \in BOOLEAN /\ marked \in BOOLEAN
          /\ walk \in {"walking", "ended", "gave up"}
      BY DEF PagingInit
    <2> QED
      BY <1>1, <2>2, <2>3, <2>4, <2>5 DEF WalkOK
  <1>3. Skip = 0
    BY <1>2, SkipFacts, PagingAssumption DEF PagingInit, WalkOK, Skip
  <1>4. AtPage
    BY DEF PagingInit, AtPage
  <1>5. count \in 0..MaxRows /\ size \in Sizes(count)
    BY <1>2, <1>4, SkipIsNat, PageAnswered DEF WalkOK, AtPage
  <1>6. IInv
    BY <1>5, BoundAssumption
    DEF PagingInit, IInv, TypeOK, SearchInv, LargestPrefix, NoteHonest
  <1>7. Responded /\ Projected /\ AdviceSuffices
    BY DEF PagingInit, Responded, Projected, AdviceSuffices
  <1>8. NoSilentGap
    <2>1. Min({Skip, Len(rows)}) = 0
      BY <1>1, <1>3, MinOfTwo
    <2>2. received = <<>> /\ walk = "walking"
      BY DEF PagingInit
    <2>3. Len(<<>>) = 0 /\ <<>> = [i \in 1..0 |-> i]
      OBVIOUS
    <2> QED
      BY <2>1, <2>2, <2>3 DEF NoSilentGap
  <1> QED
    BY <1>2, <1>4, <1>6, <1>7, <1>8 DEF PagingInv

-----------------------------------------------------------------------------
(* The steps *)

\* A call leaves a page that is ready to be shaped.
LEMMA CallReady ==
  ASSUME WalkOK', Called, budget \in Budgets
  PROVE  IInv' /\ AtPage' /\ Responded'
  <1>1. /\ tool' \in DOMAIN FirstPages /\ page' \in Nat /\ page' >= FirstPages[tool']
        /\ pageSize' \in 1..MaxPageSize /\ rows' \in Seq(Row) /\ Len(rows') <= MaxRows
    BY DEF WalkOK
  <1>2. pageSize' \in Nat
    BY <1>1, PagingAssumption
  <1>3. Skip' \in Nat
    BY <1>1, <1>2, SkipFacts DEF Skip
  <1>4. /\ count' = Len(Slice(rows', Skip', pageSize'))
        /\ size' = PrefixSizes(Slice(rows', Skip', pageSize'))
        /\ pc' = "measure" /\ low' = 0 /\ high' = 0
        /\ response' = NoResponse /\ budget' = budget
    BY DEF Called
  <1>5. count' \in 0..MaxRows /\ size' \in Sizes(count')
    BY <1>1, <1>3, <1>4, PageAnswered
  <1>6. IInv'
    BY <1>4, <1>5, BoundAssumption DEF IInv, TypeOK, SearchInv, LargestPrefix, NoteHonest
  <1>7. AtPage' /\ Responded'
    BY <1>4 DEF AtPage, Responded
  <1> QED
    BY <1>6, <1>7

\* What was returned of a page, as far as the client can tell.
LEMMA ReturnedFacts ==
  ASSUME PagingInv, pc = "done"
  PROVE  /\ response.returned \in 0..count
         /\ response.truncated \in BOOLEAN
         /\ count \in Nat
         /\ count = Min({Skip + pageSize, Len(rows)}) - Min({Skip, Len(rows)})
         /\ count <= pageSize
         /\ ~response.truncated => response.returned = count
  <1>1. count \in 0..MaxRows
        /\ response \in [returned : 0..count, truncated : BOOLEAN, note : Notes]
                        \cup {NoResponse}
    BY DEF PagingInv, IInv, TypeOK
  <1>2. count \in Nat
    BY <1>1, BoundAssumption
  <1>3. response.returned \in 0..count /\ response.truncated \in BOOLEAN
    <2>1. CASE response = NoResponse
      <3>1. response.returned = 0 /\ response.truncated = FALSE
        BY <2>1 DEF NoResponse
      <3>2. response.returned \in 0..count
        BY <1>2, <3>1
      <3>3. response.truncated \in BOOLEAN
        BY <3>1
      <3> QED
        BY <3>2, <3>3
    <2>2. CASE response \in [returned : 0..count, truncated : BOOLEAN, note : Notes]
      BY <2>2
    <2> QED
      BY <1>1, <2>1, <2>2
  <1>4. Skip \in Nat /\ rows \in Seq(Row) /\ pageSize \in 1..MaxPageSize
    BY SkipIsNat DEF PagingInv, WalkOK
  <1>5. pageSize \in Nat
    BY <1>4, PagingAssumption
  <1>6. count = Len(Slice(rows, Skip, pageSize))
    BY DEF PagingInv, AtPage
  <1>7. ~response.truncated => response.returned = count
    BY DEF PagingInv, Responded
  <1> QED
    BY <1>2, <1>3, <1>4, <1>5, <1>6, <1>7, SliceFacts

LEMMA ShapeKeepsInv ==
  ASSUME PagingInv, Shape
  PROVE  PagingInv'
  <1> USE DEF PagingInv
  <1>1. UNCHANGED walkVars /\ UNCHANGED <<count, size, budget>>
    BY DEF Shape, Measure, Probe, Finish
  <1>2. IInv'
    BY NextIInv DEF Shape, Next
  <1>3. WalkOK' /\ Projected' /\ AtPage'
    BY <1>1 DEF walkVars, WalkOK, Projected, AtPage, Skip
  <1>4. NoSilentGap' /\ AdviceSuffices'
    BY <1>1 DEF walkVars, NoSilentGap, AdviceSuffices, Skip
  <1>5. Responded'
    <2>1. CASE Measure
      <3>1. CASE Fits(count)
        <4>1. response' = [returned |-> count, truncated |-> FALSE, note |-> "none"]
          BY <2>1, <3>1 DEF Measure, Respond
        <4> QED
          BY <1>1, <4>1 DEF Responded
      <3>2. CASE ~Fits(count)
        BY <2>1, <3>2 DEF Measure, Responded
      <3> QED
        BY <3>1, <3>2
    <2>2. CASE Probe
      BY <2>2 DEF Probe, Responded
    <2>3. CASE Finish
      <3>1. CASE low > 0
        <4>1. response' = [returned |-> low, truncated |-> TRUE, note |-> "rows dropped"]
          BY <2>3, <3>1 DEF Finish, Truncate, Respond
        <4> QED
          BY <3>1, <4>1 DEF Responded
      <3>2. CASE ~(low > 0)
        <4>1. response' = [returned |-> 0, truncated |-> TRUE, note |-> "no row fits"]
          BY <2>3, <3>2 DEF Finish, Truncate, Respond
        <4> QED
          BY <4>1 DEF Responded
      <3> QED
        BY <3>1, <3>2
    <2> QED
      BY <2>1, <2>2, <2>3 DEF Shape
  <1> QED
    BY <1>2, <1>3, <1>4, <1>5

\* What a client that was told of no truncation has when it takes a page: every
\* row up to the end of the page, each once and in order.
LEMMA TakenPage ==
  ASSUME PagingInv, TakePage
  PROVE  /\ received' \in Seq(Nat)
         /\ ~marked' => /\ received' = [i \in 1..Len(received') |-> i]
                        /\ Len(received') = Min({Skip + pageSize, Len(rows)})
  <1>1. walk = "walking" /\ pc = "done"
    BY DEF TakePage, Answered
  <1>2. received' = received \o Given /\ marked' = (marked \/ response.truncated)
    BY DEF TakePage
  <1>3. /\ response.returned \in 0..count /\ count \in Nat
        /\ count = Min({Skip + pageSize, Len(rows)}) - Min({Skip, Len(rows)})
        /\ ~response.truncated => response.returned = count
    BY <1>1, ReturnedFacts
  <1>4. /\ Skip \in Nat /\ received \in Seq(Nat) /\ Len(rows) \in Nat
        /\ pageSize \in Nat
    <2>1. Skip \in Nat
      BY SkipIsNat DEF PagingInv
    <2>2. received \in Seq(Nat) /\ rows \in Seq(Row) /\ pageSize \in 1..MaxPageSize
      BY DEF PagingInv, WalkOK
    <2> QED
      BY <2>1, <2>2, PagingAssumption
  <1>5. /\ Given \in Seq(Nat) /\ Len(Given) = response.returned
        /\ \A i \in 1..response.returned : Given[i] = Skip + i
    <2>1. response.returned \in Nat /\ \A i \in 1..response.returned : Skip + i \in Nat
      BY <1>3, <1>4
    <2> QED
      BY <2>1 DEF Given
  <1>6. /\ received' \in Seq(Nat)
        /\ Len(received') = Len(received) + Len(Given)
        /\ \A i \in 1..Len(received) + Len(Given) :
             received'[i] = IF i <= Len(received) THEN received[i]
                                                  ELSE Given[i - Len(received)]
    BY <1>2, <1>4, <1>5, ConcatProperties
  <1>7. ASSUME ~marked'
        PROVE  /\ received' = [i \in 1..Len(received') |-> i]
               /\ Len(received') = Min({Skip + pageSize, Len(rows)})
    <2>1. ~marked /\ ~response.truncated
      BY <1>2, <1>7
    <2>2. /\ received = [i \in 1..Len(received) |-> i]
          /\ Len(received) = Min({Skip, Len(rows)})
      BY <1>1, <2>1 DEF PagingInv, NoSilentGap
    <2>3. /\ Min({Skip, Len(rows)}) = IF Skip <= Len(rows) THEN Skip ELSE Len(rows)
          /\ Min({Skip + pageSize, Len(rows)})
               = IF Skip + pageSize <= Len(rows) THEN Skip + pageSize ELSE Len(rows)
      BY <1>4, MinOfTwo
    <2>4. response.returned = count
      BY <1>3, <2>1
    <2>5. Len(received') = Min({Skip + pageSize, Len(rows)})
      BY <1>3, <1>4, <1>5, <1>6, <2>2, <2>3, <2>4
    <2>6. count > 0 => Len(received) = Skip
      BY <1>3, <1>4, <2>2, <2>3
    <2>7. ASSUME NEW i \in 1..Len(received')
          PROVE  received'[i] = i
      <3>1. CASE i <= Len(received)
        <4>1. i \in 1..Len(received) /\ received'[i] = received[i]
          BY <1>4, <1>5, <1>6, <3>1
        <4> QED
          BY <2>2, <4>1
      <3>2. CASE ~(i <= Len(received))
        <4>1. i - Len(received) \in 1..response.returned
              /\ received'[i] = Given[i - Len(received)]
          BY <1>3, <1>4, <1>5, <1>6, <3>2
        <4>2. PICK j \in 1..response.returned : j = i - Len(received)
          BY <4>1
        <4>3. received'[i] = Skip + j
          BY <1>5, <4>1, <4>2
        <4>4. count > 0
          BY <1>3, <2>4, <4>2
        <4>5. j = i - Skip /\ i \in Int
          BY <2>6, <4>2, <4>4
        <4> QED
          BY <1>4, <4>3, <4>5
      <3> QED
        BY <3>1, <3>2
    <2>8. received' = [i \in 1..Len(received') |-> received'[i]]
      BY <1>6
    <2> DEFINE r == received'
    <2> HIDE DEF r
    <2>9. r = [i \in 1..Len(r) |-> r[i]] /\ \A i \in 1..Len(r) : r[i] = i
      BY <2>7, <2>8 DEF r
    <2>10. r = [i \in 1..Len(r) |-> i]
      BY <2>9
    <2> QED
      BY <2>5, <2>10 DEF r
  <1> QED
    BY <1>6, <1>7

LEMMA TakePageKeepsInv ==
  ASSUME PagingInv, TakePage
  PROVE  PagingInv'
  <1>1. /\ walk = "walking" /\ pc = "done"
        /\ received' \in Seq(Nat) /\ marked' \in BOOLEAN
        /\ UNCHANGED <<tool, rows, pageSize, projected>>
    <2>1. response.truncated \in BOOLEAN /\ marked \in BOOLEAN
      BY ReturnedFacts DEF PagingInv, WalkOK, TakePage, Answered
    <2> QED
      BY <2>1, TakenPage DEF TakePage, Answered
  <1>2. /\ WalkOK /\ budget \in Budgets /\ Projected
        /\ Skip \in Nat /\ pageSize \in Nat /\ Len(rows) \in Nat
    <2>1. WalkOK /\ Projected /\ budget \in Budgets
      BY DEF PagingInv, IInv, TypeOK
    <2>2. rows \in Seq(Row) /\ pageSize \in 1..MaxPageSize
      BY <2>1 DEF WalkOK
    <2> QED
      BY <2>1, <2>2, SkipIsNat, PagingAssumption
  <1>3. Projected'
    BY <1>1, <1>2 DEF Projected
  <1>4. CASE Skip + pageSize >= Len(rows)
    <2>1. walk' = "ended" /\ UNCHANGED vars /\ UNCHANGED page
      BY <1>4 DEF TakePage
    <2>2. WalkOK'
      BY <1>1, <1>2, <2>1 DEF WalkOK
    <2>3. IInv' /\ AtPage' /\ Responded' /\ AdviceSuffices'
      <3>1. IInv'
        BY <2>1, NextIInv DEF PagingInv
      <3>2. AtPage' /\ Responded'
        BY <1>1, <2>1 DEF PagingInv, AtPage, Responded, Skip, vars
      <3>3. AdviceSuffices'
        BY <2>1 DEF AdviceSuffices
      <3> QED
        BY <3>1, <3>2, <3>3
    <2>4. NoSilentGap'
      <3>1. Min({Skip + pageSize, Len(rows)}) = Len(rows)
        BY <1>2, <1>4, MinOfTwo
      <3>2. walk' # "walking"
        BY <2>1
      <3> QED
        BY <1>1, <3>1, <3>2, TakenPage DEF NoSilentGap
    <2> QED
      BY <1>3, <2>2, <2>3, <2>4 DEF PagingInv
  <1>5. CASE ~(Skip + pageSize >= Len(rows))
    <2>1. page' = page + 1 /\ walk' = walk /\ Called
      BY <1>5 DEF TakePage
    <2>2. page \in Nat /\ page >= FirstPages[tool] /\ tool \in DOMAIN FirstPages
      BY <1>2 DEF WalkOK
    <2>3. FirstPages[tool] \in Nat
      BY <2>2, FirstPageFacts
    <2>4. page' \in Nat /\ page' >= FirstPages[tool]
      BY <2>1, <2>2, <2>3
    <2>5. WalkOK'
      BY <1>1, <1>2, <2>1, <2>4 DEF WalkOK
    <2>6. IInv' /\ AtPage' /\ Responded'
      BY <1>2, <2>1, <2>5, CallReady
    <2>7. Skip' = Skip + pageSize
      <3>1. Skip' = (IF tool \in CountsFromOne THEN (page + 1) - 1 ELSE page + 1) * pageSize
        BY <1>1, <2>1 DEF Skip
      <3> QED
        BY <1>2, <2>2, <3>1, SkipFacts DEF Skip
    <2>8. NoSilentGap'
      <3>1. walk' = "walking"
        BY <1>1, <2>1
      <3> QED
        BY <1>1, <2>7, <3>1, TakenPage DEF NoSilentGap
    <2>9. AdviceSuffices'
      BY <1>1, <2>1 DEF AdviceSuffices
    <2> QED
      BY <1>3, <2>5, <2>6, <2>8, <2>9 DEF PagingInv
  <1> QED
    BY <1>4, <1>5

\* Both ways of starting over.
LEMMA StartOverKeepsInv ==
  ASSUME PagingInv, Answered, StartOver, Projected',
         pageSize' \in 1..MaxPageSize, projected' \in BOOLEAN,
         rows' \in Seq(Row), Len(rows') <= MaxRows
  PROVE  PagingInv'
  <1>1. /\ page' = FirstPages[tool] /\ received' = <<>> /\ marked' = FALSE
        /\ tool' = tool /\ walk' = "walking" /\ Called
    BY DEF StartOver, Answered
  <1>2. tool \in DOMAIN FirstPages /\ budget \in Budgets
    BY DEF PagingInv, WalkOK, IInv, TypeOK
  <1>3. page' \in Nat
    BY <1>1, <1>2, FirstPageFacts
  <1>4. WalkOK'
    <2>1. received' \in Seq(Nat)
      BY <1>1
    <2>2. marked' \in BOOLEAN /\ walk' \in {"walking", "ended", "gave up"}
      BY <1>1
    <2>3. tool' \in DOMAIN FirstPages /\ page' >= FirstPages[tool']
      BY <1>1, <1>2, <1>3
    <2> QED
      BY <1>3, <2>1, <2>2, <2>3 DEF WalkOK
  <1>5. IInv' /\ AtPage' /\ Responded'
    BY <1>1, <1>2, <1>4, CallReady
  <1>6. Skip' = 0
    <2>1. pageSize' \in Nat
      BY PagingAssumption
    <2> QED
      BY <1>1, <1>2, <1>3, <2>1, SkipFacts DEF Skip
  <1>7. NoSilentGap'
    <2>1. Min({Skip', Len(rows')}) = 0
      BY <1>6, MinOfTwo
    <2>2. Len(<<>>) = 0 /\ <<>> = [i \in 1..0 |-> i]
      OBVIOUS
    <2> QED
      BY <1>1, <2>1, <2>2 DEF NoSilentGap
  <1>8. AdviceSuffices'
    BY <1>1 DEF AdviceSuffices
  <1> QED
    BY <1>4, <1>5, <1>7, <1>8 DEF PagingInv

LEMMA NarrowPageSizeKeepsInv ==
  ASSUME PagingInv, NarrowPageSize
  PROVE  PagingInv'
  <1>1. /\ Answered /\ StartOver /\ pageSize' = response.returned
        /\ response.note = "rows dropped" /\ pc = "done"
        /\ rows' = rows /\ projected' = projected
    BY DEF NarrowPageSize, Answered
  <1>2. /\ Projected' /\ rows' \in Seq(Row) /\ Len(rows') <= MaxRows
        /\ projected' \in BOOLEAN
    BY <1>1 DEF PagingInv, WalkOK, Projected
  <1>3. pageSize' \in 1..MaxPageSize
    <2>1. response.returned \in 0..count /\ count \in Nat /\ count <= pageSize
      BY <1>1, ReturnedFacts
    <2>2. pageSize \in 1..MaxPageSize
      BY DEF PagingInv, WalkOK
    <2>3. response.returned > 0
      BY <1>1 DEF PagingInv, Responded
    <2>4. pageSize \in Int /\ MaxPageSize \in Int /\ pageSize <= MaxPageSize
      BY <2>2, PagingAssumption
    <2>5. response.returned \in 1..MaxPageSize
      BY <2>1, <2>3, <2>4
    <2> QED
      BY <1>1, <2>5
  <1> QED
    BY <1>1, <1>2, <1>3, StartOverKeepsInv

LEMMA PassFieldsKeepsInv ==
  ASSUME PagingInv, PassFields
  PROVE  PagingInv'
  <1>1. /\ Answered /\ StartOver /\ pageSize' = pageSize /\ projected' = TRUE
        /\ rows' = [i \in DOMAIN rows |-> SmallestRow]
    BY DEF PassFields
  <1>2. rows \in Seq(Row) /\ Len(rows) <= MaxRows /\ pageSize \in 1..MaxPageSize
    BY DEF PagingInv, WalkOK
  <1>3. SmallestRow \in Row
    BY PagingAssumption DEF SmallestRow, Row
  <1>4. rows' = [i \in 1..Len(rows) |-> SmallestRow]
    BY <1>1, <1>2
  <1>5. rows' \in Seq(Row) /\ Len(rows') = Len(rows)
    BY <1>2, <1>3, <1>4
  <1>6. Projected'
    BY <1>4, <1>5 DEF Projected
  <1> QED
    BY <1>1, <1>2, <1>5, <1>6, StartOverKeepsInv

LEMMA GiveUpKeepsInv ==
  ASSUME PagingInv, GiveUp
  PROVE  PagingInv'
  <1>1. /\ pc = "done" /\ response.note = "no row fits" /\ projected
        /\ walk' = "gave up"
        /\ UNCHANGED <<vars, tool, rows, page, pageSize, projected, received, marked>>
    BY DEF GiveUp, Answered
  <1>2. IInv'
    BY <1>1, NextIInv DEF PagingInv
  <1>3. WalkOK' /\ AtPage' /\ Responded' /\ Projected'
    BY <1>1 DEF PagingInv, WalkOK, AtPage, Responded, Projected, Skip, vars
  <1>4. NoSilentGap'
    BY <1>1 DEF PagingInv, NoSilentGap
  <1>5. budget < EmptyListSize + SmallestRow
    <2>1. budget \in Int
      BY BudgetAssumption DEF PagingInv, IInv, TypeOK
    <2>2. CASE budget >= EmptyListSize
      <3>1. count > 0 /\ size[1] > budget
        BY <1>1, <2>2 DEF PagingInv, IInv, NoteHonest
      <3>2. /\ rows \in Seq(Row) /\ Len(rows) <= MaxRows /\ Skip \in Nat
            /\ pageSize \in 1..MaxPageSize
        BY SkipIsNat DEF PagingInv, WalkOK
      <3>3. rows \in Seq({SmallestRow})
        <4>1. \A i \in 1..Len(rows) : rows[i] = SmallestRow
          BY <1>1 DEF PagingInv, Projected
        <4>2. Len(rows) \in Nat /\ rows = [i \in 1..Len(rows) |-> rows[i]]
          BY <3>2
        <4> QED
          BY <4>1, <4>2
      <3> DEFINE slice == Slice(rows, Skip, pageSize)
      <3>4. pageSize \in Nat
        BY <3>2, PagingAssumption
      <3>5. slice \in Seq(Row) /\ Len(slice) \in Nat /\ Len(slice) <= MaxRows
        <4>1. slice \in Seq(Row) /\ Len(slice) \in Nat /\ Len(slice) <= Len(rows)
          BY <3>2, <3>4, SliceFacts
        <4>2. Len(rows) \in Nat
          BY <3>2
        <4> HIDE DEF slice
        <4> QED
          BY <3>2, <4>1, <4>2, BoundAssumption
      <3>6. slice \in Seq({SmallestRow})
        BY <3>2, <3>3, <3>4, SliceFacts
      <3>7. count = Len(slice) /\ size = PrefixSizes(slice)
        BY DEF PagingInv, AtPage
      <3> HIDE DEF slice
      <3>8. slice[1] = SmallestRow
        BY <3>1, <3>5, <3>6, <3>7
      <3>9. size[1] = EmptyListSize + SmallestRow
        BY <3>1, <3>5, <3>7, <3>8, PrefixSizesAreSizes
      <3> QED
        BY <2>1, <3>1, <3>9 DEF EmptyListSize, SmallestRow
    <2>3. CASE ~(budget >= EmptyListSize)
      BY <2>1, <2>3 DEF EmptyListSize, SmallestRow
    <2> QED
      BY <2>2, <2>3
  <1>6. AdviceSuffices'
    BY <1>1, <1>5 DEF AdviceSuffices, vars
  <1> QED
    BY <1>2, <1>3, <1>4, <1>6 DEF PagingInv

LEMMA PagingNextInv ==
  ASSUME PagingInv, [PagingNext]_allVars
  PROVE  PagingInv'
  <1>1. CASE UNCHANGED allVars
    <2>1. IInv'
      BY <1>1, NextIInv DEF PagingInv, allVars
    <2>2. WalkOK' /\ AtPage' /\ Responded' /\ Projected'
      BY <1>1 DEF allVars, vars, walkVars, PagingInv, WalkOK, AtPage, Responded,
                  Projected, Skip
    <2>3. NoSilentGap' /\ AdviceSuffices'
      BY <1>1 DEF allVars, vars, walkVars, PagingInv, NoSilentGap, AdviceSuffices, Skip
    <2> QED
      BY <2>1, <2>2, <2>3 DEF PagingInv
  <1> QED
    BY <1>1, ShapeKeepsInv, TakePageKeepsInv, NarrowPageSizeKeepsInv,
       PassFieldsKeepsInv, GiveUpKeepsInv DEF PagingNext

-----------------------------------------------------------------------------
(* Theorems *)

THEOREM PagingInvariance == PagingSpec => []PagingInv
  <1>1. PagingInv /\ [PagingNext]_allVars => PagingInv'
    BY PagingNextInv
  <1> QED
    BY <1>1, PagingInitInv, PTL DEF PagingSpec

\* A client that walks the pages of a tool and is never told of a truncation has
\* every row, each once and in order, for any number of rows, any page size
\* and any budget: tools and operations agree on the number of the first page.
THEOREM NoSilentGapHolds == PagingSpec => []NoSilentGap
  <1>1. PagingInv => NoSilentGap
    BY DEF PagingInv
  <1> QED
    BY <1>1, PagingInvariance, PTL

\* A client that follows the notes is left without rows only where the smallest
\* row alone is over the budget of shape_list_response.
THEOREM AdviceSufficesHolds == PagingSpec => []AdviceSuffices
  <1>1. PagingInv => AdviceSuffices
    BY DEF PagingInv
  <1> QED
    BY <1>1, PagingInvariance, PTL

\* No page is asked for that the tool refuses or the operation behind it answers
\* with a 500, and every page has sizes that the proofs about shape_list_response
\* are about.
THEOREM PagingTypeCorrect == PagingSpec => []PagingTypeOK
  <1>1. PagingInv => PagingTypeOK
    <2>1. PagingInv => Skip >= 0
      BY SkipIsNat DEF PagingInv
    <2>2. PagingInv => TypeOK /\ WalkOK
      BY DEF PagingInv, IInv
    <2>3. WalkOK =>
            /\ tool \in DOMAIN FirstPages
            /\ page >= FirstPages[tool]
            /\ pageSize \in 1..MaxPageSize
            /\ projected \in BOOLEAN /\ marked \in BOOLEAN
            /\ walk \in {"walking", "ended", "gave up"}
      BY Zenon DEF WalkOK
    <2> QED
      BY <2>1, <2>2, <2>3 DEF PagingTypeOK
  <1> QED
    BY <1>1, PagingInvariance, PTL

\* The promises of shape_list_response hold of every page of every walk.
THEOREM EveryPageShaped == PagingSpec => [](LargestPrefix /\ NoteHonest)
  <1>1. PagingInv => LargestPrefix /\ NoteHonest
    BY DEF PagingInv, IInv
  <1> QED
    BY <1>1, PagingInvariance, PTL

=============================================================================
