------------------------ MODULE PairwiseGreedyProofs ------------------------
(***************************************************************************)
(* Proofs about the greedy pairwise reduction (module PairwiseGreedy), for *)
(* every value of the dimension lists.                                     *)
(***************************************************************************)
EXTENDS PairwiseGreedy, FiniteSetTheorems, TLAPS

(* Combination triples.                                                    *)
Triple == Value \X Value \X Value

-----------------------------------------------------------------------------
(* Facts about the index arithmetic of full_combinations.                  *)

(* Division by a positive divisor maps 0..L*m-1 into 0..L-1.               *)
LEMMA DivBound ==
  ASSUME NEW a \in Nat, NEW m \in Nat, NEW L \in Nat, m > 0, a < L * m
  PROVE  a \div m \in 0..(L - 1)
BY Z3

(* Every element of the full enumeration is a triple of dimension values.  *)
LEMMA ComboType ==
  ASSUME NEW kk \in 1..Total
  PROVE  Combo(kk) \in Triple
<1> DEFINE LF == Len(FaultTypes)
           LT == Len(TargetTiers)
           LS == Len(Severities)
           a  == kk - 1
<1>1. LF \in Nat /\ LT \in Nat /\ LS \in Nat
  BY DimsAssumption
<1>2. LF > 0 /\ LT > 0 /\ LS > 0
  BY <1>1 DEF Total
<1>3. a \in Nat /\ a < LF * (LT * LS)
  BY <1>1 DEF Total
<1>4. (a \div (LT * LS)) + 1 \in 1..LF
  BY <1>1, <1>2, <1>3, DivBound
<1>5. ((a \div LS) % LT) + 1 \in 1..LT
  BY <1>1, <1>2, <1>3
<1>6. (a % LS) + 1 \in 1..LS
  BY <1>1, <1>2, <1>3
<1>. QED
  BY <1>4, <1>5, <1>6, DimsAssumption DEF Combo, Triple

-----------------------------------------------------------------------------
(* Facts about the pairwise projections.                                   *)

(* There are finitely many pairs of dimensions, each of two indices.       *)
LEMMA DimPairsFinite ==
  /\ DimPairs \subseteq (1..N) \X (1..N)
  /\ IsFiniteSet(DimPairs)
<1>1. DimPairs \subseteq (1..N) \X (1..N)
  BY DEF DimPairs
<1>2. IsFiniteSet((1..N) \X (1..N))
  <2>1. IsFiniteSet(1..N)
    <3>0. 1 \in Int /\ 3 \in Int
      OBVIOUS
    <3>1. IsFiniteSet(1..3)
      BY <3>0, FS_Interval, Zenon
    <3>. QED
      BY <3>1 DEF N
  <2>. QED
    BY <2>1, FS_Product
<1>. QED
  BY <1>1, <1>2, FS_Subset

(* The number of uncovered projections of a combination is a natural.      *)
LEMMA GainType ==
  ASSUME NEW c, NEW cov
  PROVE  Gain(c, cov) \in Nat
BY DimPairsFinite, FS_Subset, FS_CardinalityType DEF Gain

(* The projections of a triple are requirement-shaped tuples.              *)
LEMMA PairsOfType ==
  ASSUME NEW c \in Triple
  PROVE  PairsOf(c) \subseteq (1..N) \X Value \X (1..N) \X Value
BY DimPairsFinite DEF PairsOf, Triple, N

-----------------------------------------------------------------------------
(* The type invariant.                                                     *)

LEMMA TotalType == Total \in Nat
BY DimsAssumption DEF Total

(* Every step of the greedy loop preserves TypeOK.                         *)
LEMMA TypeStep == TypeOK /\ [Next]_vars => TypeOK'
  <2> SUFFICES ASSUME TypeOK, [Next]_vars PROVE TypeOK'
    OBVIOUS
  <2>1. CASE StartRound
    BY <2>1, TotalType DEF StartRound, TypeOK, None
  <2>2. CASE ExitLoop
    BY <2>2 DEF ExitLoop, TypeOK
  <2>3. CASE ScanCombo
    <3>1. k \in 1..Total
      BY <2>3, TotalType DEF ScanCombo, TypeOK
    <3>2. FullCombinations[k] \in Triple
      BY <3>1, ComboType DEF FullCombinations
    <3>3. NewCount(FullCombinations[k]) \in Nat
      BY GainType DEF NewCount
    <3>. QED
      BY <2>3, <3>1, <3>2, <3>3, TotalType DEF ScanCombo, TypeOK, Triple
  <2>4. CASE EndScan
    <3>1. CASE bestCombo = None \/ bestNew = 0
      BY <2>4, <3>1 DEF EndScan, TypeOK
    <3>2. CASE ~(bestCombo = None \/ bestNew = 0)
      <4>1. bestCombo \in Triple
        BY <3>2 DEF TypeOK, Triple
      <4>2. PairsOf(bestCombo) \subseteq (1..N) \X Value \X (1..N) \X Value
        BY <4>1, PairsOfType
      <4>3. selected' = Append(selected, bestCombo) /\ covered' = covered \cup PairsOf(bestCombo)
        BY <2>4, <3>2 DEF EndScan
      <4>4. UNCHANGED <<bestCombo, bestNew, k>> /\ pc' = "test"
        BY <2>4, <3>2 DEF EndScan
      <4>. QED
        BY <4>1, <4>2, <4>3, <4>4 DEF TypeOK, Triple
    <3>. QED
      BY <3>1, <3>2
  <2>5. CASE UNCHANGED vars
    BY <2>5 DEF vars, TypeOK
  <2>. QED
    BY <2>1, <2>2, <2>3, <2>4, <2>5 DEF Next

(* The greedy loop keeps every variable within its type (TypeOK): the      *)
(* scan position stays in 1..Total+1, best_new is -1 or a count, and       *)
(* covered only ever holds requirement-shaped tuples.                      *)
THEOREM TypeCorrect == Spec => []TypeOK
<1>1. Init => TypeOK
  BY TotalType DEF Init, TypeOK, None
<1>2. TypeOK /\ [Next]_vars => TypeOK'
  BY TypeStep
<1>. QED
  BY <1>1, <1>2, PTL DEF Spec

-----------------------------------------------------------------------------
(* The inductive invariant behind CoverageComplete.                        *)



(* Quotient and remainder of d * m + r by m, for 0 <= r < m.               *)
LEMMA DivMod ==
  ASSUME NEW d \in Nat, NEW r \in Nat, NEW m \in Nat, m > 0, r < m
  PROVE  /\ (d * m + r) \div m = d
         /\ (d * m + r) % m = r
BY Z3

(* Every element of the full enumeration takes, in each dimension, one of  *)
(* that dimension's values.                                                *)
LEMMA ComboValues ==
  ASSUME NEW kk \in 1..Total
  PROVE  \A d \in 1..N : Combo(kk)[d] \in ValuesOf(d)
<1> DEFINE LF == Len(FaultTypes)
           LT == Len(TargetTiers)
           LS == Len(Severities)
           a  == kk - 1
<1>1. LF \in Nat /\ LT \in Nat /\ LS \in Nat
  BY DimsAssumption
<1>2. LF > 0 /\ LT > 0 /\ LS > 0
  BY <1>1 DEF Total
<1>3. a \in Nat /\ a < LF * (LT * LS)
  BY <1>1 DEF Total
<1>4. (a \div (LT * LS)) + 1 \in 1..LF
  BY <1>1, <1>2, <1>3, DivBound
<1>5. ((a \div LS) % LT) + 1 \in 1..LT
  BY <1>1, <1>2, <1>3
<1>6. (a % LS) + 1 \in 1..LS
  BY <1>1, <1>2, <1>3
<1>8. DOMAIN FaultTypes = 1..LF /\ DOMAIN TargetTiers = 1..LT
        /\ DOMAIN Severities = 1..LS
  BY DimsAssumption
<1>7. 1..N = {1, 2, 3}
  BY DEF N
<1>. QED
  BY <1>4, <1>5, <1>6, <1>7, <1>8 DEF Combo, ValuesOf, Dims

(* The projections of every combination of the full enumeration are        *)
(* requirements.                                                           *)
LEMMA ComboPairsRequired ==
  ASSUME NEW c \in ComboSet
  PROVE  PairsOf(c) \subseteq Required
<1>1. PICK q \in 1..Total : c = Combo(q)
  BY DEF ComboSet, FullCombinations
<1>2. \A d \in 1..N : c[d] \in ValuesOf(d)
  BY <1>1, ComboValues
<1>3. \A p \in DimPairs : p[1] \in 1..N /\ p[2] \in 1..N
  BY DEF DimPairs
<1>. QED
  BY <1>2, <1>3 DEF PairsOf, Required

(* The position in itertools.product of the values at positions x, y, z   *)
(* of the three dimensions: full_combinations() lists every triple.        *)
LEMMA ComboOfIndex ==
  ASSUME NEW x \in 1..Len(FaultTypes), NEW y \in 1..Len(TargetTiers),
         NEW z \in 1..Len(Severities)
  PROVE  LET kk == (x - 1) * (Len(TargetTiers) * Len(Severities))
                     + (y - 1) * Len(Severities) + z
         IN  /\ kk \in 1..Total
             /\ Combo(kk) = <<FaultTypes[x], TargetTiers[y], Severities[z]>>
<1> DEFINE LF == Len(FaultTypes)
           LT == Len(TargetTiers)
           LS == Len(Severities)
           kk == (x - 1) * (LT * LS) + (y - 1) * LS + z
           r1 == (y - 1) * LS + (z - 1)
           q2 == (x - 1) * LT + (y - 1)
<1>1. LF \in Nat /\ LT \in Nat /\ LS \in Nat /\ LT > 0 /\ LS > 0
  BY DimsAssumption
<1>2. r1 \in Nat /\ r1 < LT * LS
  <2>1. r1 < y * LS
    BY <1>1
  <2>2. y * LS <= LT * LS
    BY <1>1, Z3
  <2>. QED
    BY <1>1, <2>1, <2>2
<1>3. kk - 1 = (x - 1) * (LT * LS) + r1
  BY <1>1
<1>4. kk - 1 = q2 * LS + (z - 1)
  BY <1>1, Z3
<1>5. (kk - 1) \div (LT * LS) = x - 1
  BY <1>1, <1>2, <1>3, DivMod
<1>6. (kk - 1) \div LS = q2 /\ (kk - 1) % LS = z - 1
  BY <1>1, <1>4, DivMod
<1>7. q2 % LT = y - 1
  BY <1>1, DivMod
<1>8. kk \in 1..Total
  <2>1. kk - 1 < x * (LT * LS)
    BY <1>1, <1>2, <1>3
  <2>2. x * (LT * LS) <= LF * (LT * LS)
    BY <1>1, Z3
  <2>. QED
    BY <1>1, <1>2, <1>3, <2>1, <2>2 DEF Total
<1>9. /\ ((kk - 1) \div (LT * LS)) + 1 = x
      /\ (((kk - 1) \div LS) % LT) + 1 = y
      /\ ((kk - 1) % LS) + 1 = z
  BY <1>5, <1>6, <1>7
<1>. QED
  BY <1>8, <1>9 DEF Combo

(* With no empty dimension, every requirement is a projection of some      *)
(* combination of the full enumeration.                                    *)
LEMMA RequiredReached ==
  ASSUME NonEmptyDims, NEW r \in Required
  PROVE  \E q \in 1..Total : r \in PairsOf(FullCombinations[q])
<1>1. PICK p \in DimPairs : \E v \in ValuesOf(p[1]), w \in ValuesOf(p[2]) :
                              r = <<p[1], v, p[2], w>>
  BY DEF Required
<1>2. PICK v \in ValuesOf(p[1]), w \in ValuesOf(p[2]) : r = <<p[1], v, p[2], w>>
  BY <1>1
<1>3. p[1] \in 1..N /\ p[2] \in 1..N /\ p[1] # p[2]
  BY DEF DimPairs
<1>4. \A d \in 1..N : DOMAIN Dims[d] = 1..Len(Dims[d]) /\ 1 \in DOMAIN Dims[d]
  BY DimsAssumption DEF Dims, NonEmptyDims, N
<1>5. PICK a \in DOMAIN Dims[p[1]] : v = Dims[p[1]][a]
  BY <1>2 DEF ValuesOf
<1>6. PICK b \in DOMAIN Dims[p[2]] : w = Dims[p[2]][b]
  BY <1>2 DEF ValuesOf
<1> DEFINE t == [d \in 1..N |-> IF d = p[1] THEN a ELSE IF d = p[2] THEN b ELSE 1]
           kk == (t[1] - 1) * (Len(TargetTiers) * Len(Severities))
                   + (t[2] - 1) * Len(Severities) + t[3]
<1>7. \A d \in 1..N : t[d] \in DOMAIN Dims[d]
  BY <1>3, <1>4, <1>5, <1>6
<1>8. t[1] \in 1..Len(FaultTypes) /\ t[2] \in 1..Len(TargetTiers)
        /\ t[3] \in 1..Len(Severities)
  BY <1>4, <1>7 DEF N, Dims
<1>9. kk \in 1..Total
        /\ Combo(kk) = <<FaultTypes[t[1]], TargetTiers[t[2]], Severities[t[3]]>>
  BY <1>8, ComboOfIndex
<1>10. \A d \in 1..N : Combo(kk)[d] = Dims[d][t[d]]
  <2>1. 1..N = {1, 2, 3}
    BY DEF N
  <2>. QED
    BY <1>9, <2>1 DEF Dims
<1>11. Combo(kk)[p[1]] = v /\ Combo(kk)[p[2]] = w
  BY <1>3, <1>5, <1>6, <1>10
<1>12. r \in PairsOf(Combo(kk))
  BY <1>2, <1>11 DEF PairsOf
<1>. QED
  BY <1>9, <1>12 DEF FullCombinations

(* A combination that adds no uncovered pair has all its projections       *)
(* covered already.                                                        *)
LEMMA GainZero ==
  ASSUME NEW c, NEW cov, Gain(c, cov) <= 0
  PROVE  PairsOf(c) \subseteq cov
<1> DEFINE U == {p \in DimPairs : <<p[1], c[p[1]], p[2], c[p[2]]>> \notin cov}
<1>1. IsFiniteSet(U)
  BY DimPairsFinite, FS_Subset
<1>2. Cardinality(U) = 0
  BY <1>1, FS_CardinalityType DEF Gain
<1>3. U = {}
  BY <1>1, <1>2, FS_EmptySet
<1>. QED
  BY <1>3 DEF PairsOf

(* A combination with a positive gain has a projection not yet covered.    *)
LEMMA GainPositive ==
  ASSUME NEW c, NEW cov, Gain(c, cov) # 0
  PROVE  ~(PairsOf(c) \subseteq cov)
<1> DEFINE U == {p \in DimPairs : <<p[1], c[p[1]], p[2], c[p[2]]>> \notin cov}
<1>1. IsFiniteSet(U)
  BY DimPairsFinite, FS_Subset
<1>2. U # {}
  BY <1>1, FS_EmptySet DEF Gain
<1>. QED
  BY <1>2 DEF PairsOf

(* covered is exactly the set of projections of the selected combinations. *)
CoveredTracksSelected ==
  covered = UNION {PairsOf(selected[m]) : m \in 1..Len(selected)}

(* Every selected combination is one of the full enumeration, so covered   *)
(* never holds anything outside required.                                  *)
SelectedFromDomain ==
  /\ \A m \in 1..Len(selected) : selected[m] \in ComboSet
  /\ covered \subseteq Required

(* The scan invariant: after the first k - 1 candidates, best is the first *)
(* candidate of largest gain among them, at some position b of the scan   *)
(* (None, -1 before the first).                                            *)
ScanInv ==
  pc = "scan" =>
    /\ (k = 1 => bestCombo = None /\ bestNew = -1)
    /\ (k > 1 => \E b \in 1..(k - 1) :
                   /\ bestCombo = FullCombinations[b]
                   /\ bestNew = Gain(bestCombo, covered)
                   /\ \A q \in 1..(k - 1) : Gain(FullCombinations[q], covered) <= bestNew
                   /\ \A q \in 1..(b - 1) : Gain(FullCombinations[q], covered) < bestNew)

(* On return every requirement is covered.                                 *)
DoneInv == pc = "done" => covered = Required

(* No combination is selected twice.                                      *)
NoRepeat ==
  \A m1, m2 \in 1..Len(selected) : selected[m1] = selected[m2] => m1 = m2

(* The part of the inductive invariant that holds for every matrix, an   *)
(* empty dimension included.                                               *)
CoreInv ==
  /\ NoRepeat
  /\ TypeOK
  /\ CoveredTracksSelected
  /\ SelectedFromDomain
  /\ ScanInv

IInv ==
  /\ CoreInv
  /\ DoneInv

(* The initial state satisfies the inductive invariant.                    *)
LEMMA IInvInit == Init => IInv
<1> SUFFICES ASSUME Init PROVE IInv
  OBVIOUS
<1>1. TypeOK
  BY TotalType DEF Init, TypeOK, None
<1>. QED
  BY <1>1 DEF Init, IInv, CoreInv, CoveredTracksSelected, SelectedFromDomain, ScanInv,
              DoneInv, NoRepeat

(* A triple is never None.                                                 *)
LEMMA ComboNotNone ==
  ASSUME NEW c \in ComboSet
  PROVE  c # None /\ c \in Triple
<1>1. PICK q \in 1..Total : c = Combo(q)
  BY DEF ComboSet, FullCombinations
<1>2. c \in Triple
  BY <1>1, ComboType
<1>. QED
  BY <1>2 DEF Triple, None

(* Once the scan has passed a candidate, best is one of all_combos and     *)
(* best_new its gain.                                                      *)
LEMMA ScanBest ==
  ASSUME CoreInv, pc = "scan", k # 1
  PROVE  /\ bestCombo \in ComboSet
         /\ bestNew = Gain(bestCombo, covered)
         /\ \A q \in 1..(k - 1) : Gain(FullCombinations[q], covered) <= bestNew
<1>1. k \in 1..(Total + 1) /\ k > 1
  BY TotalType DEF CoreInv, TypeOK
<1>2. PICK b \in 1..(k - 1) :
        /\ bestCombo = FullCombinations[b]
        /\ bestNew = Gain(bestCombo, covered)
        /\ \A q \in 1..(k - 1) : Gain(FullCombinations[q], covered) <= bestNew
  BY <1>1 DEF CoreInv, ScanInv
<1>3. b \in 1..Total
  BY <1>1, <1>2, TotalType
<1>. QED
  BY <1>2, <1>3 DEF ComboSet

(* No step leaves "done": every action starts at "test" or "scan".          *)
LEMMA DoneIsFinal ==
  ASSUME pc = "done", Next
  PROVE  FALSE
BY DEF Next, StartRound, ExitLoop, ScanCombo, EndScan

(* Every step of the greedy loop preserves CoreInv, for every matrix.     *)
LEMMA CoreStep == CoreInv /\ [Next]_vars => CoreInv'
<1> SUFFICES ASSUME CoreInv, [Next]_vars PROVE CoreInv'
  OBVIOUS
<1>0. TypeOK'
  BY TypeStep DEF CoreInv
<1>1. CASE StartRound
  BY <1>0, <1>1 DEF StartRound, CoreInv, CoveredTracksSelected, SelectedFromDomain,
                    ScanInv, NoRepeat
<1>2. CASE ExitLoop
  BY <1>0, <1>2 DEF ExitLoop, CoreInv, CoveredTracksSelected, SelectedFromDomain,
                    ScanInv, NoRepeat
<1>3. CASE ScanCombo
  <2> DEFINE combo == FullCombinations[k]
             new   == Gain(combo, covered)
  <2>1. k \in 1..Total /\ pc = "scan" /\ k' = k + 1
    BY <1>3, TotalType DEF ScanCombo, CoreInv, TypeOK
  <2>2. new \in Nat
    BY GainType
  <2>3. UNCHANGED <<covered, selected, pc>>
    BY <1>3 DEF ScanCombo
  <2>4. \A q \in 1..(k - 1) : Gain(FullCombinations[q], covered) <= bestNew
    <3>1. CASE k = 1
      BY <3>1
    <3>2. CASE k # 1
      BY <2>1, <3>2, ScanBest
    <3>. QED
      BY <3>1, <3>2
  <2>5. bestNew \in Nat \cup {-1}
    BY DEF CoreInv, TypeOK
  <2>6. k' > 1 /\ k' - 1 = k /\ k \in 1..(k' - 1)
    BY <2>1
  <2>7. ScanInv'
    <3>1. CASE new > bestNew
      <4>1. bestNew' = new /\ bestCombo' = combo
        BY <1>3, <3>1 DEF ScanCombo, NewCount
      <4>2. \A q \in 1..(k - 1) : Gain(FullCombinations[q], covered) < new
        <5> SUFFICES ASSUME NEW q \in 1..(k - 1)
                     PROVE  Gain(FullCombinations[q], covered) < new
          OBVIOUS
        <5>1. Gain(FullCombinations[q], covered) \in Nat
          BY GainType
        <5>. QED
          BY <2>2, <2>4, <2>5, <3>1, <5>1
      <4>3. \A q \in 1..k : Gain(FullCombinations[q], covered) <= new
        <5> SUFFICES ASSUME NEW q \in 1..k
                     PROVE  Gain(FullCombinations[q], covered) <= new
          OBVIOUS
        <5>1. CASE q = k
          BY <2>2, <5>1
        <5>2. CASE q # k
          <6>1. q \in 1..(k - 1)
            BY <2>1, <5>2
          <6>2. Gain(FullCombinations[q], covered) \in Nat
            BY GainType
          <6>. QED
            BY <2>2, <4>2, <6>1, <6>2
        <5>. QED
          BY <5>1, <5>2
      <4>. QED
        BY <2>3, <2>6, <4>1, <4>2, <4>3 DEF ScanInv
    <3>2. CASE ~(new > bestNew)
      <4>1. UNCHANGED <<bestNew, bestCombo>>
        BY <1>3, <3>2 DEF ScanCombo, NewCount
      <4>2. k # 1
        <5>1. k = 1 => bestNew = -1
          BY <2>1 DEF CoreInv, ScanInv
        <5>. QED
          BY <2>2, <3>2, <5>1
      <4>3. PICK b \in 1..(k - 1) :
              /\ bestCombo = FullCombinations[b]
              /\ bestNew = Gain(bestCombo, covered)
              /\ \A q \in 1..(k - 1) : Gain(FullCombinations[q], covered) <= bestNew
              /\ \A q \in 1..(b - 1) : Gain(FullCombinations[q], covered) < bestNew
        BY <2>1, <4>2 DEF CoreInv, ScanInv
      <4>4. \A q \in 1..k : Gain(FullCombinations[q], covered) <= bestNew
        <5> SUFFICES ASSUME NEW q \in 1..k
                     PROVE  Gain(FullCombinations[q], covered) <= bestNew
          OBVIOUS
        <5>1. CASE q = k
          BY <2>2, <2>5, <3>2, <5>1
        <5>2. CASE q # k
          BY <2>1, <4>3, <5>2
        <5>. QED
          BY <5>1, <5>2
      <4>5. b \in 1..(k' - 1)
        BY <2>6
      <4>. QED
        BY <2>3, <2>6, <4>1, <4>3, <4>4, <4>5 DEF ScanInv
    <3>. QED
      BY <3>1, <3>2
  <2>. QED
    BY <1>0, <2>3, <2>7 DEF CoreInv, CoveredTracksSelected, SelectedFromDomain, NoRepeat
<1>4. CASE EndScan
  <2>1. CASE bestCombo = None \/ bestNew = 0
    <3>1. pc' = "done" /\ UNCHANGED <<covered, selected, bestCombo, bestNew, k>>
      BY <1>4, <2>1 DEF EndScan
    <3>. QED
      BY <1>0, <3>1 DEF CoreInv, CoveredTracksSelected, SelectedFromDomain, ScanInv,
                        NoRepeat
  <2>2. CASE ~(bestCombo = None \/ bestNew = 0)
    <3>1. pc = "scan" /\ k # 1
      <4>1. k = 1 => bestCombo = None
        BY <1>4 DEF EndScan, CoreInv, ScanInv
      <4>. QED
        BY <1>4, <2>2, <4>1 DEF EndScan
    <3>2. bestCombo \in ComboSet /\ bestNew = Gain(bestCombo, covered)
      BY <3>1, ScanBest
    <3>3. bestCombo \in Triple
      BY <3>2, ComboNotNone
    <3>4. selected' = Append(selected, bestCombo)
          /\ covered' = covered \cup PairsOf(bestCombo) /\ pc' = "test"
      BY <1>4, <2>2 DEF EndScan
    <3>5. selected \in Seq(Triple)
      BY DEF CoreInv, TypeOK, Triple
    <3>6. \A m \in 1..Len(selected) : selected'[m] = selected[m]
      BY <3>4, <3>5
    <3>7. selected'[Len(selected) + 1] = bestCombo /\ Len(selected') = Len(selected) + 1
      BY <3>3, <3>4, <3>5
    <3>8. CoveredTracksSelected'
      <4>1. 1..Len(selected') = (1..Len(selected)) \cup {Len(selected) + 1}
        BY <3>5, <3>7
      <4>. QED
        BY <3>4, <3>6, <3>7, <4>1 DEF CoreInv, CoveredTracksSelected
    <3>9. SelectedFromDomain'
      <4>1. PairsOf(bestCombo) \subseteq Required
        BY <3>2, ComboPairsRequired
      <4>. QED
        BY <3>2, <3>4, <3>5, <4>1 DEF CoreInv, SelectedFromDomain
    <3>10. NoRepeat'
      <4>1. \A m \in 1..Len(selected) : PairsOf(selected[m]) \subseteq covered
        BY DEF CoreInv, CoveredTracksSelected
      <4>2. ~(PairsOf(bestCombo) \subseteq covered)
        BY <2>2, <3>2, GainPositive
      <4>3. \A m \in 1..Len(selected) : selected[m] # bestCombo
        BY <4>1, <4>2
      <4>. QED
        BY <3>6, <3>7, <4>3 DEF CoreInv, NoRepeat
    <3>. QED
      BY <1>0, <3>4, <3>8, <3>9, <3>10 DEF CoreInv, ScanInv
  <2>. QED
    BY <2>1, <2>2
<1>5. CASE UNCHANGED vars
  BY <1>0, <1>5 DEF vars, CoreInv, CoveredTracksSelected, SelectedFromDomain,
                    ScanInv, NoRepeat
<1>. QED
  BY <1>1, <1>2, <1>3, <1>4, <1>5 DEF Next

(* With no empty dimension, every step of the greedy loop preserves the   *)
(* inductive invariant: a return always has covered = required.           *)
LEMMA IInvStep ==
  ASSUME NonEmptyDims
  PROVE  IInv /\ [Next]_vars => IInv'
<1> SUFFICES ASSUME IInv, [Next]_vars PROVE IInv'
  OBVIOUS
<1>1. CoreInv'
  BY CoreStep DEF IInv
<1>2. CASE pc = "done"
  <2>1. UNCHANGED vars
    BY <1>2, DoneIsFinal
  <2>. QED
    BY <1>1, <1>2, <2>1 DEF vars, IInv, DoneInv
<1>3. CASE pc # "done" /\ pc' # "done"
  BY <1>1, <1>3 DEF IInv, DoneInv
<1>4. CASE pc # "done" /\ pc' = "done"
  <2>1. ExitLoop \/ (EndScan /\ (bestCombo = None \/ bestNew = 0))
    BY <1>4 DEF Next, vars, StartRound, ScanCombo, EndScan
  <2>2. CASE ExitLoop
    <3>1. covered = Required
      BY <2>2 DEF ExitLoop, IInv, CoreInv, SelectedFromDomain
    <3>. QED
      BY <1>1, <2>2, <3>1 DEF ExitLoop, IInv, DoneInv
  <2>3. CASE EndScan /\ (bestCombo = None \/ bestNew = 0)
    <3>1. k = Total + 1 /\ pc = "scan"
      BY <2>3 DEF EndScan
    <3>2. k # 1
      BY <3>1, TotalType DEF NonEmptyDims, Total
    <3>3. bestCombo \in ComboSet /\ bestNew = Gain(bestCombo, covered)
          /\ \A q \in 1..Total : Gain(FullCombinations[q], covered) <= bestNew
      <4>1. bestCombo \in ComboSet /\ bestNew = Gain(bestCombo, covered)
            /\ \A q \in 1..(k - 1) : Gain(FullCombinations[q], covered) <= bestNew
        BY <3>1, <3>2, ScanBest DEF IInv
      <4>2. 1..(k - 1) = 1..Total
        BY <3>1, TotalType
      <4>. QED
        BY <4>1, <4>2
    <3>4. bestNew = 0
      BY <2>3, <3>3, ComboNotNone
    <3>5. \A q \in 1..Total : PairsOf(FullCombinations[q]) \subseteq covered
      BY <3>3, <3>4, GainZero
    <3>6. Required \subseteq covered
      BY <3>5, RequiredReached
    <3>7. covered = Required
      BY <3>6 DEF IInv, CoreInv, SelectedFromDomain
    <3>8. covered' = covered
      BY <2>3, <3>4 DEF EndScan
    <3>. QED
      BY <1>1, <3>7, <3>8 DEF IInv, DoneInv
  <2>. QED
    BY <2>1, <2>2, <2>3
<1>. QED
  BY <1>2, <1>3, <1>4

(* The inductive invariant implies the property the runs check.            *)
LEMMA IInvCoverage == IInv => CoverageComplete
BY DEF IInv, CoreInv, DoneInv, CoveredTracksSelected, CoverageComplete, CoversAllPairs

(* With no empty dimension, when pairwise_combinations() returns (on its   *)
(* loop test or on the break) its result covers every pair of values of   *)
(* every two dimensions: the greedy loop keeps covered equal to the       *)
(* projections of selected, and the scan leaves in best_new the largest   *)
(* gain of all candidates, so the break is taken only once that gain is   *)
(* zero, which with every requirement a projection of some candidate      *)
(* means that covered = required.                                          *)
THEOREM CoverageCorrect ==
  ASSUME NonEmptyDims
  PROVE  Spec => []CoverageComplete
<1>1. Init => IInv
  BY IInvInit
<1>2. IInv /\ [Next]_vars => IInv'
  BY IInvStep
<1>3. IInv => CoverageComplete
  BY IInvCoverage
<1>. QED
  BY <1>1, <1>2, <1>3, PTL DEF Spec

-----------------------------------------------------------------------------
(* The refinement of CoveringStrategy.                                     *)

(* The inductive invariant holds in every state.                           *)
LEMMA IInvAlways ==
  ASSUME NonEmptyDims
  PROVE  Spec => []IInv
BY IInvInit, IInvStep, PTL DEF Spec

(* The contract's notion of a valid answer, read in this module's terms.   *)
LEMMA CoverUnfold ==
  ASSUME NEW s
  PROVE  CS!IsPairwiseCover(s) <=>
           s \in Seq(ComboSet) /\ CS!IsInjective(s) /\ CoversAllPairs(s)
<1>1. CS!ComboSet = ComboSet
  BY DEF CS!ComboSet, CS!FullCombinations, CS!Combo, CS!Total,
         ComboSet, FullCombinations, Combo, Total
<1>2. CS!Required = Required /\ \A c : CS!PairsOf(c) = PairsOf(c)
  BY DEF CS!Required, CS!PairsOf, CS!DimPairs, CS!ValuesOf, CS!Dims, CS!N,
         Required, PairsOf, DimPairs, ValuesOf, Dims, N
<1>3. CS!CoversAllPairs(s) = CoversAllPairs(s)
  BY <1>2 DEF CS!CoversAllPairs, CoversAllPairs
<1>. QED
  BY <1>1, <1>3 DEF CS!IsPairwiseCover

(* With no empty dimension, the greedy loop implements the safety part of *)
(* the pairwise contract under the mapping returned = (pc = "done"),      *)
(* result = selected once returned: the only steps that reach "done" (the *)
(* loop exit and the break) are the abstract Return, with a result that   *)
(* lies in all_combos, repeats nothing and covers every required pair;    *)
(* every other step leaves the abstract state unchanged.                   *)
THEOREM Refinement ==
  ASSUME NonEmptyDims
  PROVE  Spec => CS!SafeSpec
<1>1. Init => CS!Init
  BY DEF Init, CS!Init
<1>2. IInv /\ [Next]_vars => [CS!Return]_CS!absVars
  <2> SUFFICES ASSUME IInv, [Next]_vars PROVE [CS!Return]_CS!absVars
    OBVIOUS
  <2>1. IInv'
    BY IInvStep
  <2>2. CASE pc # "done" /\ pc' = "done"
    <3>1. selected' \in Seq(ComboSet)
      BY <2>1 DEF IInv, CoreInv, SelectedFromDomain, TypeOK
    <3>2. CS!IsInjective(selected')
      BY <2>1, <3>1 DEF IInv, CoreInv, NoRepeat, CS!IsInjective
    <3>3. CoversAllPairs(selected')
      BY <2>1, <2>2 DEF IInv, CoreInv, DoneInv, CoveredTracksSelected, CoversAllPairs
    <3>4. CS!IsPairwiseCover(selected')
      BY <3>1, <3>2, <3>3, CoverUnfold
    <3>. QED
      BY <2>2, <3>4 DEF CS!Return
  <2>3. CASE pc # "done" /\ pc' # "done"
    BY <2>3 DEF CS!absVars
  <2>4. CASE pc = "done"
    <3>1. UNCHANGED vars
      BY <2>4, DoneIsFinal
    <3>. QED
      BY <3>1 DEF vars, CS!absVars
  <2>. QED
    BY <2>2, <2>3, <2>4
<1>. QED
  BY <1>1, <1>2, IInvAlways, PTL DEF Spec, CS!SafeSpec
-----------------------------------------------------------------------------
(* The greedy choice.                                                      *)

(* At the end of a scan, best_combo is the combination the tie-break rule *)
(* names: the first, in enumeration order, of largest gain.                *)
LEMMA FirstBestChosen ==
  ASSUME CoreInv, pc = "scan", k = Total + 1, k # 1
  PROVE  FirstBest(covered) = bestCombo
<1> DEFINE G(q) == Gain(FullCombinations[q], covered)
           P(m) == /\ \A q \in 1..Total : G(q) <= G(m)
                   /\ \A q \in 1..(m - 1) : G(q) < G(m)
<1>1. k > 1
  BY TotalType DEF CoreInv, TypeOK
<1>2. PICK b \in 1..(k - 1) :
        /\ bestCombo = FullCombinations[b]
        /\ bestNew = Gain(bestCombo, covered)
        /\ \A q \in 1..(k - 1) : G(q) <= bestNew
        /\ \A q \in 1..(b - 1) : G(q) < bestNew
  BY <1>1 DEF CoreInv, ScanInv
<1>3. b \in 1..Total /\ 1..(k - 1) = 1..Total
  BY <1>2, TotalType
<1>4. P(b)
  BY <1>2, <1>3
<1>5. \A m \in 1..Total : P(m) => m = b
  <2> SUFFICES ASSUME NEW m \in 1..Total, P(m) PROVE m = b
    OBVIOUS
  <2>1. G(m) \in Nat /\ G(b) \in Nat
    BY GainType
  <2>2. G(b) <= G(m) /\ G(m) <= G(b)
    BY <1>3, <1>4
  <2>3. ~(m < b)
    BY <1>3, <1>4, <2>1, <2>2
  <2>4. ~(b < m)
    BY <1>3, <2>1, <2>2
  <2>. QED
    BY <1>3, <2>3, <2>4
<1>6. (CHOOSE m \in 1..Total : P(m)) = b
  BY <1>3, <1>4, <1>5
<1>. QED
  BY <1>2, <1>6 DEF FirstBest

(* Every round of the greedy loop, for every matrix, appends exactly the   *)
(* combination the spec's tie-break rule names (GreedyChoice): the scan's *)
(* strict `new > best_new` keeps the first candidate of largest gain, and *)
(* the append happens only when that gain is positive.                     *)
THEOREM GreedyChoiceCorrect == Spec => GreedyChoice
<1>1. Init => CoreInv
  BY IInvInit DEF IInv
<1>2. CoreInv /\ [Next]_vars => CoreInv'
  BY CoreStep
<1>3. CoreInv /\ [Next]_vars =>
        [selected' # selected =>
           /\ Gain(FirstBest(covered), covered) > 0
           /\ selected' = Append(selected, FirstBest(covered))]_vars
  <2> SUFFICES ASSUME CoreInv, [Next]_vars, selected' # selected
               PROVE  /\ Gain(FirstBest(covered), covered) > 0
                      /\ selected' = Append(selected, FirstBest(covered))
    OBVIOUS
  <2>1. EndScan /\ ~(bestCombo = None \/ bestNew = 0)
    BY DEF Next, vars, StartRound, ExitLoop, ScanCombo, EndScan
  <2>2. pc = "scan" /\ k = Total + 1 /\ k # 1
    <3>1. k = 1 /\ pc = "scan" => bestCombo = None
      BY DEF CoreInv, ScanInv
    <3>. QED
      BY <2>1, <3>1 DEF EndScan
  <2>3. FirstBest(covered) = bestCombo
    BY <2>2, FirstBestChosen
  <2>4. bestCombo \in ComboSet /\ bestNew = Gain(bestCombo, covered)
    BY <2>2, ScanBest
  <2>5. Gain(bestCombo, covered) > 0
    BY <2>1, <2>4, GainType
  <2>6. selected' = Append(selected, bestCombo)
    BY <2>1 DEF EndScan
  <2>. QED
    BY <2>3, <2>5, <2>6
<1>. QED
  BY <1>1, <1>2, <1>3, PTL DEF Spec, GreedyChoice
=============================================================================
