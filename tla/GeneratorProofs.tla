--------------------------- MODULE GeneratorProofs ---------------------------
(***************************************************************************)
(* Proofs about main() over any number of runs sharing one output root     *)
(* (module Generator), for every table whose output paths are injective.  *)
(***************************************************************************)
EXTENDS Generator, PairwiseGreedyProofs, SequenceTheorems

(* The strategy's state only ever holds combinations of all_combos.        *)
GreedyInDomain ==
  /\ selected \in Seq(ComboSet)
  /\ bestCombo \in ComboSet \cup {None}
  /\ k \in 1..(Total + 1)

(* The list main() iterates over is made of combinations of all_combos.    *)
CombosInDomain == combos \in Seq(ComboSet)

(* Where the write loop is, per phase of main().                           *)
PhaseInv ==
  /\ phase \in {"strategy", "pairwise", "combos"} => i = 1 /\ ~listOnly
  /\ phase = "write" => ~listOnly /\ i \in 1..(Len(combos) + 1)
  /\ phase = "finished" /\ ~listOnly => i = Len(combos) + 1

(* Every combination the write loop has passed has this run's document.    *)
WrittenCurrent ==
  phase \in {"write", "finished"} /\ ~listOnly =>
    \A m \in 1..(i - 1) : /\ PathOf(combos[m]) \in DOMAIN files
                          /\ files[PathOf(combos[m])] = Document(combos[m], enclave)

GInv ==
  /\ GreedyInDomain
  /\ CombosInDomain
  /\ PhaseInv
  /\ WrittenCurrent

-----------------------------------------------------------------------------
(* full_combinations() is a list of combinations of all_combos.            *)
LEMMA FullInDomain == FullCombinations \in Seq(ComboSet)
BY TotalType DEF FullCombinations, ComboSet

(* A step of the greedy loop keeps its state within all_combos.            *)
LEMMA GreedyInDomainStep ==
  ASSUME GreedyInDomain, Next
  PROVE  GreedyInDomain'
<1>1. CASE StartRound
  BY <1>1, TotalType DEF StartRound, GreedyInDomain
<1>2. CASE ExitLoop
  BY <1>2 DEF ExitLoop, GreedyInDomain
<1>3. CASE ScanCombo
  <2>1. k \in 1..Total
    BY <1>3 DEF ScanCombo, GreedyInDomain
  <2>2. FullCombinations[k] \in ComboSet
    BY <2>1 DEF ComboSet
  <2>. QED
    BY <1>3, <2>1, <2>2, TotalType DEF ScanCombo, GreedyInDomain
<1>4. CASE EndScan
  <2>1. CASE bestCombo = None \/ bestNew = 0
    BY <1>4, <2>1 DEF EndScan, GreedyInDomain
  <2>2. CASE ~(bestCombo = None \/ bestNew = 0)
    <3>1. bestCombo \in ComboSet
      BY <2>2 DEF GreedyInDomain
    <3>. QED
      BY <1>4, <2>2, <3>1 DEF EndScan, GreedyInDomain
  <2>. QED
    BY <2>1, <2>2
<1>. QED
  BY <1>1, <1>2, <1>3, <1>4 DEF Next

(* The initial state satisfies GInv.                                       *)
LEMMA GInvInit == GenInit => GInv
BY TotalType DEF GenInit, Init, GInv, GreedyInDomain, CombosInDomain, PhaseInv,
                 WrittenCurrent, None

(* Every step of main(), over any number of runs, preserves GInv.          *)
LEMMA GInvStep ==
  ASSUME PathsInjective
  PROVE  GInv /\ [GenNext]_allVars => GInv'
<1> SUFFICES ASSUME GInv, [GenNext]_allVars PROVE GInv'
  OBVIOUS
<1>1. CASE ChooseStrategy
  BY <1>1, FullInDomain DEF ChooseStrategy, vars, GInv, GreedyInDomain, CombosInDomain,
                            PhaseInv, WrittenCurrent
<1>2. CASE GreedyStep
  <2>1. GreedyInDomain'
    BY <1>2, GreedyInDomainStep DEF GreedyStep, GInv
  <2>. QED
    BY <1>2, <2>1 DEF GreedyStep, genVars, GInv, CombosInDomain, PhaseInv,
                      WrittenCurrent
<1>3. CASE GreedyReturn
  BY <1>3 DEF GreedyReturn, vars, GInv, GreedyInDomain, CombosInDomain, PhaseInv,
              WrittenCurrent
<1>4. CASE ListOnly
  BY <1>4 DEF ListOnly, vars, GInv, GreedyInDomain, CombosInDomain, PhaseInv,
              WrittenCurrent
<1>5. CASE StartWriting
  BY <1>5 DEF StartWriting, vars, GInv, GreedyInDomain, CombosInDomain, PhaseInv,
              WrittenCurrent
<1>6. CASE WriteScenario
  <2>1. phase = "write" /\ ~listOnly /\ i \in 1..Len(combos)
    BY <1>6 DEF WriteScenario, vars, GInv, PhaseInv
  <2>2. combos \in Seq(ComboSet)
    BY DEF GInv, CombosInDomain
  <2>3. /\ UNCHANGED <<selected, bestCombo, k>>
        /\ combos' = combos /\ enclave' = enclave /\ listOnly' = listOnly
    BY <1>6 DEF WriteScenario, vars
  <2>4. CASE LookupsDefined(combos[i])
    <3> DEFINE c == combos[i]
    <3>1. files' = [p \in DOMAIN files \cup {PathOf(c)} |->
                      IF p = PathOf(c) THEN Document(c, enclave) ELSE files[p]]
          /\ i' = i + 1 /\ phase' = phase
      BY <1>6, <2>4 DEF WriteScenario
    <3>2. WrittenCurrent'
      <4> SUFFICES ASSUME NEW m \in 1..i
                   PROVE  /\ PathOf(combos[m]) \in DOMAIN files'
                          /\ files'[PathOf(combos[m])] = Document(combos[m], enclave)
        <5>1. i' - 1 = i
          BY <2>1, <3>1
        <5>. QED
          BY <2>3, <5>1 DEF WrittenCurrent
      <4>1. CASE PathOf(combos[m]) = PathOf(c)
        <5>1. combos[m] \in ComboSet /\ c \in ComboSet
          BY <2>1, <2>2
        <5>2. combos[m] = c
          BY <4>1, <5>1 DEF PathsInjective
        <5>. QED
          BY <3>1, <4>1, <5>2
      <4>2. CASE PathOf(combos[m]) # PathOf(c)
        <5>1. m \in 1..(i - 1)
          BY <2>1, <4>2
        <5>2. PathOf(combos[m]) \in DOMAIN files
              /\ files[PathOf(combos[m])] = Document(combos[m], enclave)
          BY <2>1, <5>1 DEF GInv, WrittenCurrent
        <5>. QED
          BY <3>1, <4>2, <5>2
      <4>. QED
        BY <4>1, <4>2
    <3>3. PhaseInv'
      BY <2>1, <2>3, <3>1 DEF PhaseInv
    <3>. QED
      BY <2>3, <3>2, <3>3 DEF GInv, GreedyInDomain, CombosInDomain
  <2>5. CASE ~LookupsDefined(combos[i])
    BY <1>6, <2>5 DEF WriteScenario, vars, GInv, GreedyInDomain, CombosInDomain, PhaseInv,
                      WrittenCurrent
  <2>. QED
    BY <2>4, <2>5
<1>7. CASE FinishWriting
  BY <1>7 DEF FinishWriting, vars, GInv, GreedyInDomain, CombosInDomain, PhaseInv,
              WrittenCurrent
<1>8. CASE Rerun
  BY <1>8, TotalType DEF Rerun, vars, GInv, GreedyInDomain, CombosInDomain, PhaseInv,
                         WrittenCurrent, None
<1>9. CASE UNCHANGED allVars
  BY <1>9 DEF allVars, vars, genVars, GInv, GreedyInDomain, CombosInDomain, PhaseInv,
              WrittenCurrent
<1>. QED
  BY <1>1, <1>2, <1>3, <1>4, <1>5, <1>6, <1>7, <1>8, <1>9 DEF GenNext

(* For every table whose output paths are injective (the spec's naming     *)
(* requirement) and any number of runs over one output root, when a run    *)
(* that writes returns, every combination of that run has in the output    *)
(* root the document this run produced for it: the loop replaces the file *)
(* ("w"), and a later combination of the run never lands on the path of   *)
(* an earlier one.                                                         *)
THEOREM CurrentRunWinsCorrect ==
  ASSUME PathsInjective
  PROVE  GenSpec => []CurrentRunWins
<1>1. GenInit => GInv
  BY GInvInit
<1>2. GInv /\ [GenNext]_allVars => GInv'
  BY GInvStep
<1>3. GInv => CurrentRunWins
  BY DEF GInv, PhaseInv, WrittenCurrent, CurrentRunWins
<1>. QED
  BY <1>1, <1>2, <1>3, PTL DEF GenSpec

-----------------------------------------------------------------------------
(* Every file in the output root is a document main() wrote.               *)
FilesAreDocuments ==
  \A p \in DOMAIN files : \E c, e : files[p] = Document(c, e)

(* The document of any combination, under any --enclave, has no YAML      *)
(* anchor: build_scenario gives each fault entry its own dict.             *)
LEMMA DocumentPlain ==
  ASSUME NEW c, NEW e
  PROVE  \A s \in DOMAIN Document(c, e).faults :
           Document(c, e).faults[s].params.origin = "plain"
<1> DEFINE rec == BuildScenario(c)
           doc == ToYaml(rec)
<1>1. rec.faults = Faults(c)
  BY DEF BuildScenario
<1>2. \A s, t \in DOMAIN rec.faults :
        t # s => rec.faults[t].params.origin # rec.faults[s].params.origin
  BY <1>1 DEF Faults
<1>3. \A s \in DOMAIN doc.faults : doc.faults[s].params.origin = "plain"
  BY <1>2 DEF ToYaml
<1>4. Document(c, e).faults = doc.faults
  BY DEF Document, SubstituteEnclave, ToYaml, BuildScenario
<1>. QED
  BY <1>3, <1>4

(* For every table and any number of runs over one output root, no file   *)
(* main() leaves there carries a YAML anchor/alias pair: the per-selector *)
(* dict(base_params) copy of build_scenario reaches every document, and   *)
(* neither the enclave substitution nor a later run changes that.         *)
THEOREM NoSharedParamsCorrect == GenSpec => []NoSharedParams
<1>1. GenInit => FilesAreDocuments
  BY DEF GenInit, FilesAreDocuments
<1>2. FilesAreDocuments /\ [GenNext]_allVars => FilesAreDocuments'
  <2> SUFFICES ASSUME FilesAreDocuments, [GenNext]_allVars
               PROVE  FilesAreDocuments'
    OBVIOUS
  <2>1. CASE WriteScenario /\ LookupsDefined(combos[i])
    <3>1. files' = [p \in DOMAIN files \cup {PathOf(combos[i])} |->
                      IF p = PathOf(combos[i]) THEN Document(combos[i], enclave)
                      ELSE files[p]]
      BY <2>1 DEF WriteScenario
    <3>. QED
      BY <3>1 DEF FilesAreDocuments
  <2>2. CASE ~(WriteScenario /\ LookupsDefined(combos[i]))
    <3>1. files' = files
      BY <2>2 DEF GenNext, ChooseStrategy, GreedyStep, genVars, GreedyReturn, ListOnly,
                  StartWriting, WriteScenario, FinishWriting, Rerun, allVars
    <3>. QED
      BY <3>1 DEF FilesAreDocuments
  <2>. QED
    BY <2>1, <2>2
<1>3. FilesAreDocuments => NoSharedParams
  BY DocumentPlain DEF FilesAreDocuments, NoSharedParams
<1>. QED
  BY <1>1, <1>2, <1>3, PTL DEF GenSpec
-----------------------------------------------------------------------------
(* One file per combination, for one run on a fresh output root.           *)

(* An index below LT * LS * LF is its three mixed-radix digits.            *)
LEMMA MixedRadix ==
  ASSUME NEW a \in Nat, NEW LT \in Nat \ {0}, NEW LS \in Nat \ {0}
  PROVE  a = (a \div (LT * LS)) * (LT * LS) + ((a \div LS) % LT) * LS + (a % LS)
<1> DEFINE u == a \div LS
           w == u \div LT
<1>1. a = u * LS + (a % LS) /\ a % LS \in 0..(LS - 1) /\ u \in Nat
  BY Z3
<1>2. u = w * LT + (u % LT) /\ u % LT \in 0..(LT - 1) /\ w \in Nat
  BY Z3
<1>3. a = w * (LT * LS) + ((u % LT) * LS + (a % LS))
  BY <1>1, <1>2, Z3
<1>4. (u % LT) * LS + (a % LS) \in 0..(LT * LS - 1)
  <2>1. (u % LT) * LS <= (LT - 1) * LS
    BY <1>2, Z3
  <2>. QED
    BY <1>1, <2>1, Z3
<1>5. a \div (LT * LS) = w
  <2> DEFINE r == (u % LT) * LS + (a % LS)
             m == LT * LS
  <2>1. w \in Nat /\ r \in Nat /\ m \in Nat /\ m > 0 /\ r < m
    BY <1>2, <1>4, Z3
  <2>2. (w * m + r) \div m = w
    BY <2>1, DivMod
  <2>. QED
    BY <1>3, <2>2
<1>. QED
  BY <1>3, <1>5

(* With no repeated dimension value, full_combinations() lists no          *)
(* combination twice.                                                      *)
LEMMA ComboInjective ==
  ASSUME DistinctDims, NEW k1 \in 1..Total, NEW k2 \in 1..Total, Combo(k1) = Combo(k2)
  PROVE  k1 = k2
<1> DEFINE LF == Len(FaultTypes)
           LT == Len(TargetTiers)
           LS == Len(Severities)
           X(a) == a \div (LT * LS)
           Y(a) == (a \div LS) % LT
           Z(a) == a % LS
<1>1. LF \in Nat /\ LT \in Nat /\ LS \in Nat /\ LT > 0 /\ LS > 0
  BY DimsAssumption DEF Total
<1>2. \A kk \in 1..Total : /\ X(kk - 1) + 1 \in 1..LF
                           /\ Y(kk - 1) + 1 \in 1..LT
                           /\ Z(kk - 1) + 1 \in 1..LS
  <2> SUFFICES ASSUME NEW kk \in 1..Total
               PROVE  /\ X(kk - 1) + 1 \in 1..LF
                      /\ Y(kk - 1) + 1 \in 1..LT
                      /\ Z(kk - 1) + 1 \in 1..LS
    OBVIOUS
  <2>1. kk - 1 \in Nat /\ kk - 1 < LF * (LT * LS)
    BY <1>1 DEF Total
  <2>. QED
    BY <1>1, <2>1, DivBound
<1>3. /\ FaultTypes[X(k1 - 1) + 1] = FaultTypes[X(k2 - 1) + 1]
      /\ TargetTiers[Y(k1 - 1) + 1] = TargetTiers[Y(k2 - 1) + 1]
      /\ Severities[Z(k1 - 1) + 1] = Severities[Z(k2 - 1) + 1]
  BY DEF Combo
<1>4. DOMAIN FaultTypes = 1..LF /\ DOMAIN TargetTiers = 1..LT
        /\ DOMAIN Severities = 1..LS
  BY DimsAssumption
<1>5. /\ X(k1 - 1) = X(k2 - 1)
      /\ Y(k1 - 1) = Y(k2 - 1)
      /\ Z(k1 - 1) = Z(k2 - 1)
  <2>1. \A d \in 1..N : \A x, y \in DOMAIN Dims[d] : Dims[d][x] = Dims[d][y] => x = y
    BY DEF DistinctDims
  <2>2. /\ \A x, y \in 1..LF : FaultTypes[x] = FaultTypes[y] => x = y
        /\ \A x, y \in 1..LT : TargetTiers[x] = TargetTiers[y] => x = y
        /\ \A x, y \in 1..LS : Severities[x] = Severities[y] => x = y
    <3>1. 1 \in 1..N /\ 2 \in 1..N /\ 3 \in 1..N
      BY DEF N
    <3>. QED
      BY <1>4, <2>1, <3>1 DEF Dims
  <2>3. /\ X(k1 - 1) + 1 \in 1..LF /\ Y(k1 - 1) + 1 \in 1..LT /\ Z(k1 - 1) + 1 \in 1..LS
        /\ X(k2 - 1) + 1 \in 1..LF /\ Y(k2 - 1) + 1 \in 1..LT /\ Z(k2 - 1) + 1 \in 1..LS
    BY <1>2
  <2>4. /\ X(k1 - 1) + 1 = X(k2 - 1) + 1
        /\ Y(k1 - 1) + 1 = Y(k2 - 1) + 1
        /\ Z(k1 - 1) + 1 = Z(k2 - 1) + 1
    BY <1>3, <2>2, <2>3, Zenon
  <2>5. X(k1 - 1) \in Int /\ Y(k1 - 1) \in Int /\ Z(k1 - 1) \in Int
        /\ X(k2 - 1) \in Int /\ Y(k2 - 1) \in Int /\ Z(k2 - 1) \in Int
    BY <1>1
  <2>. QED
    BY <2>4, <2>5
<1>6. k1 - 1 \in Nat /\ k2 - 1 \in Nat
  BY <1>1 DEF Total
<1>7. /\ k1 - 1 = X(k1 - 1) * (LT * LS) + Y(k1 - 1) * LS + Z(k1 - 1)
      /\ k2 - 1 = X(k2 - 1) * (LT * LS) + Y(k2 - 1) * LS + Z(k2 - 1)
  <2>1. LT \in Nat \ {0} /\ LS \in Nat \ {0}
    BY <1>1
  <2>. QED
    BY <1>6, <2>1, MixedRadix, Zenon
<1>8. k1 - 1 = k2 - 1
  BY <1>5, <1>7, Zenon
<1>. QED
  BY <1>8

(* The run counter stays within the number of runs.                        *)
InvocationRange == invocation \in 1..MaxInvocations

(* The list main() iterates over repeats no combination.                  *)
CombosDistinct ==
  \A m1, m2 \in 1..Len(combos) : combos[m1] = combos[m2] => m1 = m2

(* `written` counts the iterations of the write loop that completed.       *)
WrittenCount == written = i - 1

(* In the first run the output root holds exactly the files of the        *)
(* combinations the loop has passed.                                       *)
FirstRunFiles ==
  invocation = 1 => DOMAIN files = {PathOf(combos[m]) : m \in 1..(i - 1)}

OneInv ==
  /\ GInv
  /\ CoreInv
  /\ InvocationRange
  /\ CombosDistinct
  /\ WrittenCount
  /\ FirstRunFiles

(* Every action of main() but the greedy step and the rerun leaves the     *)
(* greedy loop's variables alone.                                          *)
LEMMA GreedyFrame ==
  ASSUME [GenNext]_allVars, ~GreedyStep, ~Rerun
  PROVE  UNCHANGED vars
BY DEF GenNext, ChooseStrategy, GreedyReturn, ListOnly, StartWriting, WriteScenario,
       FinishWriting, allVars

(* The initial state satisfies OneInv.                                     *)
LEMMA OneInvInit == GenInit => OneInv
<1> SUFFICES ASSUME GenInit PROVE OneInv
  OBVIOUS
<1>1. GInv
  BY GInvInit
<1>2. CoreInv
  BY IInvInit DEF GenInit, IInv
<1>3. InvocationRange
  BY InvocationsAssumption DEF GenInit, InvocationRange
<1>. QED
  BY <1>1, <1>2, <1>3 DEF GenInit, OneInv, CombosDistinct, WrittenCount, FirstRunFiles

(* Every step of main() preserves OneInv.                                   *)
LEMMA OneInvStep ==
  ASSUME PathsInjective, DistinctDims
  PROVE  OneInv /\ [GenNext]_allVars => OneInv'
<1> SUFFICES ASSUME OneInv, [GenNext]_allVars PROVE OneInv'
  OBVIOUS
<1>0. /\ phase \in {"strategy", "pairwise", "combos"} => i = 1
      /\ phase = "write" => i \in 1..(Len(combos) + 1)
      /\ combos \in Seq(ComboSet)
  BY DEF OneInv, GInv, PhaseInv, CombosInDomain
<1>1. GInv'
  BY GInvStep DEF OneInv
<1>2. CoreInv'
  <2>1. CASE GreedyStep
    BY <2>1, CoreStep DEF GreedyStep, OneInv
  <2>2. CASE Rerun
    <3>1. TypeOK'
      BY <2>2, TotalType DEF Rerun, TypeOK, None
    <3>. QED
      BY <2>2, <3>1 DEF Rerun, CoreInv, CoveredTracksSelected, SelectedFromDomain,
                        ScanInv, NoRepeat
  <2>3. CASE ~GreedyStep /\ ~Rerun
    BY <2>3, GreedyFrame DEF vars, OneInv, CoreInv, TypeOK, CoveredTracksSelected,
                             SelectedFromDomain, ScanInv, NoRepeat
  <2>. QED
    BY <2>1, <2>2, <2>3
<1>3. InvocationRange'
  <2>1. CASE Rerun
    BY <2>1, InvocationsAssumption DEF Rerun, OneInv, InvocationRange
  <2>. QED
    BY <2>1 DEF GenNext, ChooseStrategy, GreedyStep, GreedyReturn, ListOnly, StartWriting,
                WriteScenario, FinishWriting, allVars, genVars, OneInv, InvocationRange
<1>4. CombosDistinct'
  <2>1. CASE ChooseStrategy /\ ~pairwise
    <3>1. combos' = FullCombinations
      BY <2>1 DEF ChooseStrategy
    <3>2. Len(FullCombinations) = Total
      BY TotalType DEF FullCombinations
    <3>. QED
      BY <3>1, <3>2, ComboInjective DEF FullCombinations, CombosDistinct
  <2>2. CASE GreedyReturn
    BY <2>2 DEF GreedyReturn, OneInv, CoreInv, NoRepeat, CombosDistinct
  <2>3. CASE Rerun
    BY <2>3 DEF Rerun, CombosDistinct
  <2>4. CASE ~(ChooseStrategy /\ ~pairwise) /\ ~GreedyReturn /\ ~Rerun
    <3>1. combos' = combos
      BY <2>4 DEF GenNext, ChooseStrategy, GreedyStep, genVars, ListOnly, StartWriting,
                  WriteScenario, FinishWriting, allVars
    <3>. QED
      BY <3>1 DEF OneInv, CombosDistinct
  <2>. QED
    BY <2>1, <2>2, <2>3, <2>4
<1>5. WrittenCount'
  <2>1. CASE WriteScenario
    BY <1>0, <2>1 DEF WriteScenario, OneInv, WrittenCount
  <2>2. CASE Rerun
    BY <2>2 DEF Rerun, WrittenCount
  <2>. QED
    BY <2>1, <2>2 DEF GenNext, ChooseStrategy, GreedyStep, genVars, GreedyReturn, ListOnly,
                      StartWriting, FinishWriting, allVars, OneInv, WrittenCount
<1>6. FirstRunFiles'
  <2> SUFFICES ASSUME invocation' = 1
               PROVE  DOMAIN files' = {PathOf(combos'[m]) : m \in 1..(i' - 1)}
    BY DEF FirstRunFiles
  <2>1. ~Rerun
    BY DEF Rerun, OneInv, InvocationRange
  <2>2. invocation = 1 /\ DOMAIN files = {PathOf(combos[m]) : m \in 1..(i - 1)}
    <3>1. invocation = 1
      BY <2>1 DEF GenNext, ChooseStrategy, GreedyStep, genVars, GreedyReturn, ListOnly,
                  StartWriting, WriteScenario, FinishWriting, allVars
    <3>. QED
      BY <3>1 DEF OneInv, FirstRunFiles
  <2>3. CASE ChooseStrategy \/ GreedyReturn
    <3>1. i = 1 /\ i' = 1 /\ files' = files
      BY <1>0, <2>3 DEF ChooseStrategy, GreedyReturn
    <3>. QED
      BY <2>2, <3>1
  <2>4. CASE WriteScenario /\ LookupsDefined(combos[i])
    <3>1. files' = [p \in DOMAIN files \cup {PathOf(combos[i])} |->
                      IF p = PathOf(combos[i]) THEN Document(combos[i], enclave)
                      ELSE files[p]]
          /\ i' = i + 1 /\ combos' = combos
      BY <2>4 DEF WriteScenario
    <3>2. i \in Nat \ {0}
      BY <1>0, <2>4 DEF WriteScenario
    <3>3. 1..(i' - 1) = (1..(i - 1)) \cup {i}
      BY <3>1, <3>2
    <3>. QED
      BY <2>2, <3>1, <3>3
  <2>5. CASE ~(ChooseStrategy \/ GreedyReturn) /\ ~(WriteScenario /\ LookupsDefined(combos[i]))
    <3>1. files' = files /\ i' = i /\ combos' = combos
      BY <2>1, <2>5 DEF GenNext, ChooseStrategy, GreedyStep, genVars, GreedyReturn, ListOnly,
                        StartWriting, WriteScenario, FinishWriting, allVars
    <3>. QED
      BY <2>2, <3>1
  <2>. QED
    BY <2>3, <2>4, <2>5
<1>. QED
  BY <1>1, <1>2, <1>3, <1>4, <1>5, <1>6 DEF OneInv

(* For every table whose output paths are injective and whose dimensions   *)
(* repeat no value, one run of main() on a fresh output root reports      *)
(* "Generated {written} scenario(s)" for exactly as many files as the      *)
(* directory then holds, one per combination (OneFilePerCombination): the *)
(* strategy's list repeats nothing (full_combinations by the mixed-radix  *)
(* indexing, the greedy list because a selected combination has no gain   *)
(* left) and no two combinations share a path.  A second run on the same  *)
(* root keeps the first run's files, so the count is about one run.        *)
THEOREM OneFilePerCombinationCorrect ==
  ASSUME PathsInjective, DistinctDims, MaxInvocations = 1
  PROVE  GenSpec => []OneFilePerCombination
<1>1. GenInit => OneInv
  BY OneInvInit
<1>2. OneInv /\ [GenNext]_allVars => OneInv'
  BY OneInvStep
<1>3. OneInv => OneFilePerCombination
  <2> SUFFICES ASSUME OneInv, phase = "finished", ~listOnly
               PROVE  written = Len(combos) /\ Cardinality(DOMAIN files) = written
    BY DEF OneFilePerCombination
  <2> DEFINE n == Len(combos)
             f == [m \in 1..n |-> PathOf(combos[m])]
  <2>1. i = n + 1 /\ written = n /\ n \in Nat
    BY DEF OneInv, GInv, PhaseInv, WrittenCount
  <2>2. DOMAIN files = {f[m] : m \in 1..n}
    <3>1. invocation = 1
      BY DEF OneInv, InvocationRange
    <3>. QED
      BY <2>1, <3>1 DEF OneInv, FirstRunFiles
  <2>3. \A x, y \in 1..n : f[x] = f[y] => x = y
    <3> SUFFICES ASSUME NEW x \in 1..n, NEW y \in 1..n, f[x] = f[y] PROVE x = y
      OBVIOUS
    <3>1. combos[x] \in ComboSet /\ combos[y] \in ComboSet
      BY DEF OneInv, GInv, CombosInDomain
    <3>2. combos[x] = combos[y]
      BY <3>1 DEF PathsInjective
    <3>. QED
      BY <3>2 DEF OneInv, CombosDistinct
  <2>4. Cardinality({f[m] : m \in 1..n}) = n
    <3>1. f \in Bijection(1..n, {f[m] : m \in 1..n})
      BY <2>3 DEF Bijection, Injection, Surjection, IsInjective
    <3>2. IsFiniteSet(1..n) /\ Cardinality(1..n) = n
      <4>1. IsFiniteSet(1..n) /\ Cardinality(1..n) = IF 1 > n THEN 0 ELSE n - 1 + 1
        <5>1. 1 \in Int /\ n \in Int
          BY <2>1
        <5>. QED
          BY <5>1, FS_Interval, Zenon
      <4>. QED
        BY <2>1, <4>1
    <3>. QED
      BY <3>1, <3>2, FS_Bijection DEF ExistsBijection
  <2>. QED
    BY <2>1, <2>2, <2>4
<1>. QED
  BY <1>1, <1>2, <1>3, PTL DEF GenSpec


-----------------------------------------------------------------------------
(* The --list preview.                                                     *)

(* A run with --list ends in the preview and nowhere else.                 *)
ListPhase == listOnly => phase \in {"finished", "failed"}

(* A finished preview printed the name _print_list computes for every      *)
(* combination of the list.                                                *)
PreviewInv ==
  phase = "finished" /\ listOnly =>
    printed = [m \in 1..Len(combos) |-> ListName(combos[m])]

PInv == ListPhase /\ PreviewInv

(* _print_list's f-string and build_scenario's compute the same name.     *)
LEMMA ListNameIsName ==
  ASSUME NEW c
  PROVE  ListName(c) = Name(c)
BY DEF ListName, Name

(* For every table and any number of runs, a finished --list preview      *)
(* prints for every combination the very name of the file a run without   *)
(* --list writes for it (PreviewShowsFileNames): _print_list recomputes   *)
(* the name with its own f-string (507-509), and that f-string agrees      *)
(* with build_scenario's for every fault type, tier and slug.              *)
THEOREM PreviewShowsFileNamesCorrect == GenSpec => []PreviewShowsFileNames
<1>1. GenInit => PInv
  BY DEF GenInit, PInv, ListPhase, PreviewInv
<1>2. PInv /\ [GenNext]_allVars => PInv'
  <2> SUFFICES ASSUME PInv, [GenNext]_allVars PROVE PInv'
    OBVIOUS
  <2>1. CASE ListOnly
    BY <2>1 DEF ListOnly, PInv, ListPhase, PreviewInv
  <2>2. CASE Rerun
    BY <2>2 DEF Rerun, PInv, ListPhase, PreviewInv
  <2>3. CASE UNCHANGED allVars
    BY <2>3 DEF allVars, genVars, PInv, ListPhase, PreviewInv
  <2>4. CASE \/ ChooseStrategy \/ GreedyStep \/ GreedyReturn
             \/ StartWriting \/ WriteScenario \/ FinishWriting
    <3>1. phase \in {"strategy", "pairwise", "combos", "write"} /\ listOnly' = listOnly
      BY <2>4 DEF ChooseStrategy, GreedyStep, genVars, GreedyReturn, StartWriting,
                  WriteScenario, FinishWriting
    <3>2. ~listOnly
      BY <3>1 DEF PInv, ListPhase
    <3>. QED
      BY <3>1, <3>2 DEF PInv, ListPhase, PreviewInv
  <2>. QED
    BY <2>1, <2>2, <2>3, <2>4 DEF GenNext
<1>3. PInv => PreviewShowsFileNames
  BY ListNameIsName DEF PInv, PreviewInv, PreviewShowsFileNames, PathOf
<1>. QED
  BY <1>1, <1>2, <1>3, PTL DEF GenSpec


-----------------------------------------------------------------------------
(* The type invariant of main().                                           *)

(* str.replace('_', '-') maps a name to a name.                            *)
LEMMA DashedType ==
  ASSUME NEW ts \in Seq(STRING)
  PROVE  Dashed(ts) \in Seq(STRING)
<1>1. Len(ts) \in Nat /\ DOMAIN ts = 1..Len(ts) /\ ts \in [1..Len(ts) -> STRING]
  BY LenProperties
<1>2. Dashed(ts) \in [1..Len(ts) -> STRING]
  BY <1>1, LiteralsAssumption DEF Dashed
<1>. QED
  BY <1>1, <1>2, SeqDef

(* The name and the category of every combination whose slug exists are   *)
(* strings.                                                                *)
LEMMA NameType ==
  ASSUME NEW c \in ComboSet, c[3] \in DOMAIN Slug[c[1]]
  PROVE  /\ Name(c) \in Seq(STRING)
         /\ ListName(c) \in Seq(STRING)
         /\ Category[c[1]] \in STRING
<1>1. PICK q \in 1..Total : c = Combo(q)
  BY DEF ComboSet, FullCombinations
<1>2. c[1] \in ValuesOf(1) /\ c[2] \in ValuesOf(2)
  BY <1>1, ComboValues DEF N
<1>3. PICK x \in DOMAIN FaultTypes : c[1] = FaultTypes[x]
  BY <1>2 DEF ValuesOf, Dims
<1>4. PICK y \in DOMAIN TargetTiers : c[2] = TargetTiers[y]
  BY <1>2 DEF ValuesOf, Dims
<1>5. /\ Tokens[c[1]] \in Seq(STRING)
      /\ Category[c[1]] \in STRING
      /\ Slug[c[1]][c[3]] \in Seq(STRING)
      /\ Tokens[c[2]] \in Seq(STRING)
  BY <1>3, <1>4, TablesAssumption
<1>6. Dashed(Tokens[c[1]]) \in Seq(STRING) /\ Dashed(Tokens[c[2]]) \in Seq(STRING)
  BY <1>5, DashedType
<1>7. <<"gen", "-">> \in Seq(STRING) /\ <<"-">> \in Seq(STRING)
  <2>1. <<"gen", "-">> \in [1..2 -> STRING] /\ <<"-">> \in [1..1 -> STRING]
    BY LiteralsAssumption
  <2>. QED
    BY <2>1, SeqDef
<1>8. \A s1, s2 \in Seq(STRING) : s1 \o s2 \in Seq(STRING)
  BY ConcatProperties
<1>. QED
  BY <1>5, <1>6, <1>7, <1>8 DEF Name, ListName

(* Where main() has not yet entered the write loop, its position is 1.     *)
EarlyPosition == phase \in {"strategy", "pairwise", "combos"} => i = 1

TInv ==
  /\ GenTypeOK
  /\ GreedyInDomain
  /\ CombosInDomain
  /\ EarlyPosition

(* Every combination of all_combos is a triple of values.                  *)
LEMMA ComboSetType == ComboSet \subseteq Value \X Value \X Value
BY ComboNotNone DEF Triple

(* Every step of main() preserves TInv, for every table of strings.        *)
LEMMA TInvStep == TInv /\ [GenNext]_allVars => TInv'
<1> SUFFICES ASSUME TInv, [GenNext]_allVars PROVE TInv'
  OBVIOUS
<1>0. combos \in Seq(ComboSet) /\ combos \in Seq(Value \X Value \X Value)
      /\ i \in 1..(Len(combos) + 1) /\ written \in Nat
  BY ComboSetType DEF TInv, CombosInDomain, GenTypeOK
<1>1. CASE ChooseStrategy
  <2>1. i = 1 /\ i' = 1
    BY <1>1 DEF ChooseStrategy, TInv, EarlyPosition
  <2>2. combos' \in Seq(ComboSet)
    BY <1>1, FullInDomain DEF ChooseStrategy, TInv, CombosInDomain
  <2>3. combos' \in Seq(Value \X Value \X Value)
    BY <2>2, ComboSetType
  <2>. QED
    BY <1>1, <2>1, <2>2, <2>3 DEF ChooseStrategy, vars, TInv, GenTypeOK, GreedyInDomain,
                                  CombosInDomain, EarlyPosition
<1>2. CASE GreedyStep
  <2>1. GreedyInDomain'
    BY <1>2, GreedyInDomainStep DEF GreedyStep, TInv
  <2>. QED
    BY <1>2, <2>1 DEF GreedyStep, genVars, TInv, GenTypeOK, CombosInDomain, EarlyPosition
<1>3. CASE GreedyReturn
  <2>1. combos' \in Seq(ComboSet) /\ i = 1 /\ i' = 1
    BY <1>3 DEF GreedyReturn, TInv, GreedyInDomain, EarlyPosition
  <2>2. combos' \in Seq(Value \X Value \X Value)
    BY <2>1, ComboSetType
  <2>. QED
    BY <1>3, <2>1, <2>2 DEF GreedyReturn, vars, TInv, GenTypeOK, GreedyInDomain,
                            CombosInDomain, EarlyPosition
<1>4. CASE ListOnly
  <2>1. printed' \in Seq(Seq(STRING)) \/ UNCHANGED printed
    <3>1. CASE \A m \in 1..Len(combos) : combos[m][3] \in DOMAIN Slug[combos[m][1]]
      <4>1. \A m \in 1..Len(combos) : ListName(combos[m]) \in Seq(STRING)
        BY <1>0, <3>1, NameType
      <4>. QED
        BY <1>4, <3>1, <4>1 DEF ListOnly
    <3>2. CASE ~(\A m \in 1..Len(combos) : combos[m][3] \in DOMAIN Slug[combos[m][1]])
      BY <1>4, <3>2 DEF ListOnly
    <3>. QED
      BY <3>1, <3>2
  <2>. QED
    BY <1>4, <2>1 DEF ListOnly, vars, TInv, GenTypeOK, GreedyInDomain, CombosInDomain,
                      EarlyPosition
<1>5. CASE StartWriting
  BY <1>5 DEF StartWriting, vars, TInv, GenTypeOK, GreedyInDomain, CombosInDomain,
              EarlyPosition
<1>6. CASE WriteScenario
  <2>1. i \in 1..Len(combos) /\ combos[i] \in ComboSet
    BY <1>0, <1>6 DEF WriteScenario
  <2>2. CASE LookupsDefined(combos[i])
    <3>1. PathOf(combos[i]) \in STRING \X Seq(STRING)
      BY <2>1, <2>2, NameType DEF LookupsDefined, PathOf
    <3>2. DOMAIN files' = DOMAIN files \cup {PathOf(combos[i])}
          /\ i' = i + 1 /\ written' = written + 1 /\ phase' = phase
      BY <1>6, <2>2 DEF WriteScenario
    <3>3. (DOMAIN files \cup {PathOf(combos[i])}) \subseteq STRING \X Seq(STRING)
      BY <3>1 DEF TInv, GenTypeOK
    <3>4. i' \in 1..(Len(combos') + 1) /\ written' \in Nat
      BY <1>0, <1>6, <2>1, <3>2 DEF WriteScenario
    <3>5. UNCHANGED <<vars, pairwise, listOnly, enclave, combos, printed, invocation>>
      BY <1>6 DEF WriteScenario
    <3>6. GreedyInDomain' /\ CombosInDomain' /\ EarlyPosition'
      BY <1>6, <3>2, <3>5 DEF WriteScenario, vars, TInv, GreedyInDomain, CombosInDomain,
                              EarlyPosition
    <3>. QED
      BY <3>2, <3>3, <3>4, <3>5, <3>6 DEF TInv, GenTypeOK
  <2>3. CASE ~LookupsDefined(combos[i])
    BY <1>6, <2>3 DEF WriteScenario, vars, TInv, GenTypeOK, GreedyInDomain,
                      CombosInDomain, EarlyPosition
  <2>. QED
    BY <2>2, <2>3
<1>7. CASE FinishWriting
  BY <1>7 DEF FinishWriting, vars, TInv, GenTypeOK, GreedyInDomain, CombosInDomain,
              EarlyPosition
<1>8. CASE Rerun
  <2>1. /\ phase' = "strategy" /\ pairwise' \in BOOLEAN /\ listOnly' = FALSE
        /\ enclave' = NoEnclave /\ combos' = <<>> /\ i' = 1 /\ written' = 0
        /\ printed' = <<>> /\ UNCHANGED files
        /\ invocation' \in 1..MaxInvocations
        /\ selected' = <<>> /\ bestCombo' = None /\ k' = 1
    BY <1>8, InvocationsAssumption DEF Rerun, TInv, GenTypeOK
  <2>2. GenTypeOK'
    <3>1. phase' \in {"strategy", "pairwise", "combos", "write", "finished", "failed"}
          /\ pairwise' \in BOOLEAN /\ listOnly' \in BOOLEAN
          /\ enclave' \in {NoEnclave} \cup Enclaves
      BY <2>1
    <3>2. combos' \in Seq(Value \X Value \X Value) /\ i' \in 1..(Len(combos') + 1)
          /\ written' \in Nat /\ printed' \in Seq(Seq(STRING))
      BY <2>1
    <3>3. DOMAIN files' \subseteq STRING \X Seq(STRING)
      BY <2>1 DEF TInv, GenTypeOK
    <3>. QED
      BY <2>1, <3>1, <3>2, <3>3 DEF GenTypeOK
  <2>3. GreedyInDomain' /\ CombosInDomain' /\ EarlyPosition'
    BY <2>1, TotalType DEF GreedyInDomain, CombosInDomain, EarlyPosition
  <2>. QED
    BY <2>2, <2>3 DEF TInv
<1>9. CASE UNCHANGED allVars
  BY <1>9 DEF allVars, vars, genVars, TInv, GenTypeOK, GreedyInDomain, CombosInDomain,
              EarlyPosition
<1>. QED
  BY <1>1, <1>2, <1>3, <1>4, <1>5, <1>6, <1>7, <1>8, <1>9 DEF GenNext

(* For every table of strings and any number of runs, main() keeps its    *)
(* state within its types (GenTypeOK): the write position never passes    *)
(* the end of the list, `written` is a count, the preview prints names    *)
(* and every file of the output root sits at a <category>/<name> path.    *)
THEOREM GenTypeCorrect == GenSpec => []GenTypeOK
<1>1. GenInit => TInv
  <2> SUFFICES ASSUME GenInit PROVE TInv
    OBVIOUS
  <2>1. GenTypeOK
    <3>1. phase \in {"strategy", "pairwise", "combos", "write", "finished", "failed"}
          /\ pairwise \in BOOLEAN /\ listOnly \in BOOLEAN /\ enclave \in {NoEnclave} \cup Enclaves
      BY DEF GenInit
    <3>2. combos \in Seq(Value \X Value \X Value) /\ i \in 1..(Len(combos) + 1)
          /\ written \in Nat /\ printed \in Seq(Seq(STRING))
      BY DEF GenInit
    <3>3. DOMAIN files \subseteq STRING \X Seq(STRING)
      BY DEF GenInit
    <3>4. invocation \in 1..MaxInvocations
      BY InvocationsAssumption DEF GenInit
    <3>. QED
      BY <3>1, <3>2, <3>3, <3>4 DEF GenTypeOK
  <2>2. GreedyInDomain /\ CombosInDomain /\ EarlyPosition
    BY TotalType DEF GenInit, Init, GreedyInDomain, CombosInDomain, EarlyPosition
  <2>. QED
    BY <2>1, <2>2 DEF TInv
<1>2. TInv /\ [GenNext]_allVars => TInv'
  BY TInvStep
<1>3. TInv => GenTypeOK
  BY DEF TInv
<1>. QED
  BY <1>1, <1>2, <1>3, PTL DEF GenSpec

=============================================================================
